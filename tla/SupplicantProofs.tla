-------------------------- MODULE SupplicantProofs ---------------------------
(***************************************************************************)
(* A connection to the supplicant, for any networks, documents,            *)
(* timeouts, refusals and deaths: the PING is a barrier, so that what an   *)
(* earlier connection gave up is done before the new one changes anything; *)
(* and what is on the wire is known at every step (Session), which the     *)
(* proofs of what the supplicant holds start from.                         *)
(***************************************************************************)
EXTENDS Supplicant, FiniteSetTheorems, WellFoundedInduction, TLAPS

IsSeq(s) == \E T : s \in Seq(T)

AllMine == \A i \in DOMAIN queue : queue[i].mine

\* While the PING is out it is the only command of its connection, and the last
\* one sent; once something was received, nothing else is left to be read.
Barrier ==
    /\ IsSeq(queue)
    /\ EarlierCommandsAreDone
    /\ step = "ping" => /\ \A i \in DOMAIN queue : queue[i].mine => i = Len(queue)
                        /\ replies # <<>> => AllMine

\* A reply that the connection goes on with.
Going(r) == step # "idle" /\ (step = "ping" => r.kind = "pong")

\* What the handling of a reply does to the connection.
Moves(r, rest) ==
    \/ client_free
    \/ /\ Going(r)
       /\ \/ \E v, i, n : v \notin {"idle", "ping"} /\ Ask(rest, v, i, n)
          \/ \E s \in {"render", "record"} : Then(rest, s)

\* Every handler closes the connection, or goes on from a reply it accepts.
LEMMA Handles == ASSUME NEW r, NEW rest, Handle(r, rest) PROVE Moves(r, rest)
<1>1. CASE Pinged(r, rest)
  BY <1>1, Zenon DEF Pinged, Moves, Going
<1>2. CASE observe_supplicants(r, rest) \/ Selected(r, rest) \/ Removed(r, rest)
  BY <1>2, Zenon DEF observe_supplicants, Selected, Removed, Moves
<1>3. CASE wifi_connect(r, rest)
  <2>1. step = "list"
    BY <1>3 DEF wifi_connect
  <2>2. client_free \/ Ask(rest, "attach", 0, Blank) \/ Then(rest, "render")
    BY <1>3, Zenon DEF wifi_connect
  <2> QED
    BY <2>1, <2>2 DEF Moves, Going
<1>4. CASE Attached(r, rest)
  BY <1>4 DEF Attached, Moves, Going
<1>5. CASE update_config(r, rest)
  BY <1>5 DEF update_config, Moves, Going
<1>6. CASE enable_only(r, rest)
  <2>1. step \in {"list", "enable_listed"}
    BY <1>6, Zenon DEF enable_only
  <2>2. client_free \/ \E v, i, n : v \in {"enable_listed", "clear"} /\ Ask(rest, v, i, n)
    BY <1>6 DEF enable_only, EnableNext
  <2> QED
    BY <2>1, <2>2 DEF Moves, Going
<1>7. CASE set_radio(r, rest)
  <2>1. CASE step \in DOMAIN Following /\ Ask(rest, Following[step], 0, Blank)
    <3>1. step \in {"clear", "lifetime", "preassoc", "okc"}
      BY <2>1 DEF Following
    <3>2. Following[step] \in {"lifetime", "preassoc", "okc", "sae_pwe"}
      BY <3>1 DEF Following
    <3> QED
      BY <2>1, <3>1, <3>2 DEF Moves, Going
  <2>2. CASE client_free
    BY <2>2 DEF Moves
  <2>3. CASE step = "sae_pwe" /\ NextNetwork(rest, 1)
    BY <2>3 DEF NextNetwork, Moves, Going
  <2> QED
    BY <1>7, <2>1, <2>2, <2>3, Zenon DEF set_radio
<1>8. CASE DisabledAll(r, rest)
  BY <1>8 DEF DisabledAll, Moves, Going
<1>9. CASE new_network_id(r, rest)
  BY <1>9 DEF new_network_id, Moves, Going
<1>10. CASE send_setting(r, rest)
  BY <1>10 DEF send_setting, Moves, Going
<1>11. CASE add_network(r, rest)
  BY <1>11 DEF add_network, NextNetwork, Moves, Going
<1> QED
  BY <1>1, <1>2, <1>3, <1>4, <1>5, <1>6, <1>7, <1>8, <1>9, <1>10, <1>11, Zenon DEF Handle

\* Closing a connection keeps what it sent and owns none of it.
LEMMA OrphanedSeq == IsSeq(queue) =>
    IsSeq(Orphaned) /\ Len(Orphaned) = Len(queue) /\ \A i \in DOMAIN Orphaned : ~ Orphaned[i].mine
<1> SUFFICES ASSUME NEW T, queue \in Seq(T)
             PROVE  IsSeq(Orphaned) /\ Len(Orphaned) = Len(queue)
                    /\ \A i \in DOMAIN Orphaned : ~ Orphaned[i].mine
  BY DEF IsSeq
<1> DEFINE U == {Orphan(t) : t \in T}
<1>1. Orphaned \in [1 .. Len(queue) -> U]
  BY DEF Orphaned
<1>2. \A i \in DOMAIN Orphaned : ~ Orphaned[i].mine
  BY DEF Orphaned, Orphan
<1>3. Orphaned \in Seq(U) /\ Len(Orphaned) = Len(queue)
  <2> HIDE DEF U
  <2> QED
    BY <1>1
<1> QED
  BY <1>2, <1>3 DEF IsSeq

\* Opening a connection puts the PING behind everything that was given up.
LEMMA Opens == ASSUME NEW j, Barrier, connect_within(j) PROVE Barrier'
<1>1. IsSeq(Orphaned) /\ \A i \in DOMAIN Orphaned : ~ Orphaned[i].mine
  BY OrphanedSeq DEF Barrier
<1>2. PICK T : Orphaned \in Seq(T)
  BY <1>1 DEF IsSeq
<1> DEFINE ping == Command("ping", 0, Blank)
<1>3. ping.mine
  BY DEF Command
<1> HIDE DEF ping
<1>4. CASE queue' = Orphaned
  BY <1>1, <1>4 DEF connect_within, Barrier, EarlierCommandsAreDone, AllMine, IsSeq
<1>5. CASE queue' = Append(Orphaned, ping)
  <2>1. Orphaned \in Seq(T \cup {ping}) /\ ping \in T \cup {ping}
    BY <1>2
  <2>2. queue' \in Seq(T \cup {ping}) /\ Len(queue') = Len(Orphaned) + 1
    BY <1>5, <2>1
  <2>3. \A i \in DOMAIN queue' : i # Len(queue') => i \in DOMAIN Orphaned /\ queue'[i] = Orphaned[i]
    BY <1>5, <2>1, <2>2
  <2> QED
    BY <1>1, <2>2, <2>3 DEF connect_within, Barrier, EarlierCommandsAreDone, AllMine, IsSeq
<1> QED
  BY <1>4, <1>5 DEF connect_within, ping

\* Closing one gives up what it sent.
LEMMA Closes == ASSUME Barrier, client_free PROVE Barrier'
  BY OrphanedSeq DEF client_free, Barrier, EarlierCommandsAreDone, AllMine

\* A command goes behind those of its own connection.
LEMMA Asks ==
    ASSUME Barrier, NEW r, NEW rest, NEW v, NEW i, NEW n, Ask(rest, v, i, n),
           v \notin {"idle", "ping"}, AllMine
    PROVE  Barrier'
<1> DEFINE c == Command(v, i, n)
<1>1. c.mine
  BY DEF Command
<1>2. PICK T : queue \in Seq(T)
  BY DEF Barrier, IsSeq
<1>3. step' = v /\ queue' \in {queue, Append(queue, c)}
  BY DEF Ask
<1> HIDE DEF c
<1>4. queue \in Seq(T \cup {c}) /\ c \in T \cup {c}
  BY <1>2
<1>5. IsSeq(queue')
  BY <1>3, <1>4 DEF IsSeq
<1>6. \A k \in DOMAIN queue' : queue'[k].mine
  BY <1>1, <1>3, <1>4 DEF AllMine
<1> QED
  BY <1>3, <1>5, <1>6 DEF Barrier, EarlierCommandsAreDone

\* Going on keeps the barrier: only a PONG ends the wait for one.
LEMMA Goes ==
    ASSUME Barrier, NEW r, NEW rest, Moves(r, rest), r.kind = "pong" => replies # <<>>
    PROVE  Barrier'
<1>1. Going(r) => AllMine
  BY DEF Going, Barrier, EarlierCommandsAreDone, AllMine
<1>2. ASSUME Going(r), NEW s \in {"render", "record"}, Then(rest, s) PROVE Barrier'
  BY <1>1, <1>2 DEF Then, Barrier, EarlierCommandsAreDone, AllMine
<1> QED
  BY <1>1, <1>2, Closes, Asks, Zenon DEF Moves

\* The supplicant reads the oldest command.
LEMMA Serves == ASSUME Barrier, Serve PROVE Barrier'
<1>1. PICK T : queue \in Seq(T)
  BY DEF Barrier, IsSeq
<1>2. queue # <<>> /\ queue' = Tail(queue) /\ step' = step
  BY DEF Serve, client
<1>3. ~ queue[1].mine => replies' = replies
  BY <1>1, <1>2 DEF Serve
<1>4. /\ queue' \in Seq(T) /\ Len(queue') = Len(queue) - 1
      /\ \A i \in DOMAIN queue' : i + 1 \in DOMAIN queue /\ queue'[i] = queue[i + 1]
  BY <1>1, <1>2
<1>5. CASE queue[1].mine /\ step = "ping"
  <2>1. 1 \in DOMAIN queue
    BY <1>1, <1>2
  <2>2. Len(queue) = 1
    BY Zenon, <1>5, <2>1 DEF Barrier
  <2>3. DOMAIN queue' = {}
    BY <1>4, <2>2
  <2> QED
    BY <1>2, <1>4, <1>5, <2>3 DEF Barrier, EarlierCommandsAreDone, AllMine, IsSeq
<1>6. CASE ~ queue[1].mine /\ step = "ping"
  <2>1. replies' = <<>>
    BY <1>1, <1>2, <1>3, <1>6 DEF Barrier, AllMine
  <2> QED
    BY <1>1, <1>2, <1>4, <1>6, <2>1 DEF Barrier, EarlierCommandsAreDone, AllMine, IsSeq
<1>7. CASE step # "ping"
  BY <1>2, <1>4, <1>7 DEF Barrier, EarlierCommandsAreDone, IsSeq
<1> QED
  BY <1>5, <1>6, <1>7

\* There is no connection at the start.
LEMMA BarrierInit == Init => Barrier
<1> SUFFICES ASSUME Init PROVE Barrier
  OBVIOUS
<1>1. queue = <<>> /\ step = "idle" /\ <<>> \in Seq({})
  BY DEF Init
<1> QED
  BY <1>1 DEF Barrier, EarlierCommandsAreDone, AllMine, IsSeq

\* Every step keeps the barrier: one case per action.
LEMMA BarrierStep == Barrier /\ [Next]_vars => Barrier'
<1> SUFFICES ASSUME Barrier, [Next]_vars PROVE Barrier'
  OBVIOUS
<1>1. CASE Look \/ start_supplicant \/ set_profiles \/ \E n \in Networks : Connect(n)
  BY <1>1, Opens, Zenon DEF Look, start_supplicant, set_profiles, Connect
<1>2. CASE Receive
  BY <1>2, Handles, Goes, Zenon DEF Receive
<1>3. CASE TimeOut
  <2>1. NoReply.kind # "pong"
    BY DEF NoReply, Reply
  <2> QED
    BY <1>3, <2>1, Handles, Goes, Zenon DEF TimeOut
<1>4. CASE Render
  <2>1. step = "render" /\ (client_free \/ Ask(replies, "add", 0, Blank))
    BY <1>4, Zenon DEF Render
  <2>2. AllMine
    BY <2>1 DEF Barrier, EarlierCommandsAreDone, AllMine
  <2> QED
    BY <2>1, <2>2, Closes, Asks
<1>5. CASE record_networks \/ Crash
  BY <1>5, Closes, Zenon DEF record_networks, Crash
<1>6. CASE Serve
  BY <1>6, Serves
<1>7. CASE \/ LookMisses \/ restrict \/ \E d \in Documents : Reload(d)
           \/ Beside \/ \E n \in Networks : JoinBeside(n)
  <2>1. UNCHANGED <<queue, replies, step>>
    BY <1>7, Zenon DEF LookMisses, restrict, Reload, Beside, JoinBeside, wire, client
  <2> QED
    BY <2>1 DEF Barrier, EarlierCommandsAreDone, AllMine
<1>8. CASE Intrude
  <2>1. (queue' = <<>> \/ queue' = queue) /\ step' = step /\ replies' = replies
    BY <1>8, Zenon DEF Intrude, client
  <2>2. CASE queue' = queue
    BY <2>1, <2>2 DEF Barrier, EarlierCommandsAreDone, AllMine, IsSeq
  <2>3. CASE queue' = <<>>
    <3>1. <<>> \in Seq({}) /\ DOMAIN queue' = {}
      BY <2>3
    <3> QED
      BY <2>1, <2>3, <3>1 DEF Barrier, EarlierCommandsAreDone, AllMine, IsSeq
  <2> QED
    BY <2>1, <2>2, <2>3
<1>9. CASE UNCHANGED vars
  BY <1>9 DEF vars, wire, client, Barrier, EarlierCommandsAreDone, AllMine
<1> QED
  BY <1>1, <1>2, <1>3, <1>4, <1>5, <1>6, <1>7, <1>8, <1>9, Zenon DEF Next, Loop, Client

\* Once the PING of a connection is answered, every command that is still to be
\* executed is its own: set_profiles never has a command of an abandoned
\* connection run between its own (connect_within and the supplicant's order).
THEOREM BarrierCorrect == Spec => []EarlierCommandsAreDone
<1>1. Barrier => EarlierCommandsAreDone
  BY DEF Barrier
<1> QED
  BY <1>1, BarrierInit, BarrierStep, PTL DEF Spec

-------------------------------------------------------------------------------
(* The types.                                                              *)

Cmd == [verb : Commands, id : Nat, net : Networks \cup {Blank}, mine : BOOLEAN]

\* The slots are a function with a finite domain, beyond what TypeOK says.
Finite ==
    /\ slots = [i \in DOMAIN slots |-> slots[i]]
    /\ \E b \in Nat : \A i \in DOMAIN slots : i <= b

Typed == TypeOK /\ IsSeq(replies) /\ Finite

\* A set of numbers that is not empty has a least one.
LEMMA LeastIn ==
    ASSUME NEW S, S \subseteq Nat, S # {}
    PROVE  \E x \in S : \A y \in S : x <= y
<1>1. \E x \in S : \A y \in S : ~ (<<y, x>> \in OpToRel(<, Nat))
  <2>1. IsWellFoundedOn(OpToRel(<, Nat), Nat)
    BY NatLessThanWellFounded, Zenon
  <2> QED
    BY <2>1, WFMin, Zenon
<1>2. PICK x \in S : \A y \in S : ~ (<<y, x>> \in OpToRel(<, Nat))
  BY <1>1, Zenon
<1>3. ASSUME NEW y \in S PROVE x <= y
  <2>1. x \in Nat /\ y \in Nat
    OBVIOUS
  <2>2. ~ (<<y, x>> \in {ss \in Nat \X Nat : ss[1] < ss[2]})
    BY <1>2, Zenon DEF OpToRel
  <2> QED
    BY <2>1, <2>2
<1> QED
  BY <1>3, Zenon

\* The choice of the least one is of a member.
LEMMA MinIn == ASSUME NEW S, S \subseteq Nat, S # {} PROVE Min(S) \in S
  BY LeastIn, Zenon DEF Min

\* One with a bound has a greatest.
LEMMA MaxIn ==
    ASSUME NEW S, S \subseteq Nat, S # {}, NEW b \in Nat, \A i \in S : i <= b
    PROVE  Max(S) \in S /\ \A y \in S : Max(S) >= y
<1> DEFINE T == {b - i : i \in S}
<1>1. T \subseteq Nat
  <2>1. ASSUME NEW i \in S PROVE b - i \in Nat
    <3>1. i \in Nat /\ i <= b
      OBVIOUS
    <3> QED
      BY <3>1
  <2> QED
    BY <2>1, Zenon
<1>2. T # {}
  BY Zenon
<1>3. \E x \in T : \A y \in T : x <= y
  <2> HIDE DEF T
  <2> QED
    BY <1>1, <1>2, LeastIn, Zenon
<1>4. PICK m \in S : \A y \in T : b - m <= y
  BY <1>3, Zenon
<1>5. ASSUME NEW y \in S PROVE m >= y
  <2>1. b - m <= b - y
    BY <1>4, Zenon
  <2>2. m \in Nat /\ y \in Nat
    OBVIOUS
  <2> QED
    BY <2>1, <2>2
<1> QED
  BY <1>5, Zenon DEF Max

\* The supplicant numbers a new slot above all it holds.
LEMMA NewIdIsNew == ASSUME Typed PROVE NewId \in Nat /\ \A i \in DOMAIN slots : i < NewId
<1>1. PICK b \in Nat : \A i \in DOMAIN slots : i <= b
  BY DEF Typed, Finite
<1>2. DOMAIN slots \subseteq Nat
  BY DEF Typed, TypeOK, IsSlots
<1>3. CASE DOMAIN slots = {}
  <2>1. slots = NoSlots
    BY <1>3 DEF Typed, Finite, NoSlots
  <2> QED
    BY <1>3, <2>1 DEF NewId
<1>4. CASE DOMAIN slots # {}
  <2>1. slots # NoSlots
    BY <1>4 DEF NoSlots
  <2>2. Max(DOMAIN slots) \in DOMAIN slots /\ \A y \in DOMAIN slots : Max(DOMAIN slots) >= y
    BY <1>1, <1>2, <1>4, MaxIn, Zenon
  <2> QED
    BY <1>2, <2>1, <2>2 DEF NewId
<1> QED
  BY <1>3, <1>4, Zenon

-------------------------------------------------------------------------------
(* What a command does to the slots.                                       *)

Radio == {"lifetime", "preassoc", "okc", "sae_pwe"}
Passive == {"ping", "list", "update_config", "attach"} \cup Radio
Changing == {"ssid", "key", "enable", "enable_listed", "disable", "select", "disable_all"}

Enabling == {"enable", "enable_listed", "select"}
Disables(c, i) == \/ c.verb = "disable_all"
                  \/ c.verb = "disable" /\ i = c.id
                  \/ c.verb = "select" /\ i # c.id

Present(c) == c.verb \in AboutSlot => c.id \in DOMAIN slots

\* What is left of slot s when one of its fields is set.
Parts(s, n, b) ==
    LET f == [s EXCEPT !.net = n]
        g == [s EXCEPT !.whole = b]
        h == [s EXCEPT !.disabled = b]
    IN  /\ f \in Slot /\ f.net = n /\ f.whole = s.whole /\ f.disabled = s.disabled
        /\ g \in Slot /\ g.net = s.net /\ g.whole = b /\ g.disabled = s.disabled
        /\ h \in Slot /\ h.net = s.net /\ h.whole = s.whole /\ h.disabled = b

\* A slot with one of its fields changed is a slot, the others unchanged.
LEMMA SlotParts ==
    ASSUME NEW s \in Slot, NEW n \in Networks \cup {Blank}, NEW b \in BOOLEAN
    PROVE  Parts(s, n, b)
  BY DEF Slot, Parts

\* What is left of a slot.
ChangedBy(c, i) ==
    /\ Does(c)[i] \in Slot
    /\ Does(c)[i].net = IF c.verb = "ssid" /\ i = c.id THEN c.net ELSE slots[i].net
    /\ Does(c)[i].whole = ((c.verb = "key" /\ i = c.id) \/ slots[i].whole)
    /\ Does(c)[i].disabled =
           (Disables(c, i) \/ (slots[i].disabled /\ ~ (c.verb \in Enabling /\ i = c.id)))

\* A slot keeps its name but for SSID, is whole from its last setting on, and is
\* enabled by the commands that name it.
LEMMA Changes ==
    ASSUME Typed, NEW c \in Cmd, Present(c), c.verb \in Changing
    PROVE  /\ DOMAIN Does(c) = DOMAIN slots
           /\ Does(c) = [i \in DOMAIN slots |-> Does(c)[i]]
           /\ \A i \in DOMAIN slots : ChangedBy(c, i)
<1>1. \A i \in DOMAIN slots : slots[i] \in Slot /\ slots[i].disabled \in BOOLEAN /\ slots[i].whole \in BOOLEAN
  BY DEF Typed, TypeOK, IsSlots, Slot
<1>2. c.net \in Networks \cup {Blank}
  BY DEF Cmd
<1>3. CASE c.verb = "ssid"
  <2>1. Does(c) = [slots EXCEPT ![c.id].net = c.net]
    BY <1>3 DEF Does
  <2>2. /\ DOMAIN Does(c) = DOMAIN slots /\ Does(c) = [i \in DOMAIN slots |-> Does(c)[i]]
        /\ \A i \in DOMAIN slots : Does(c)[i] = IF i = c.id THEN [slots[i] EXCEPT !.net = c.net] ELSE slots[i]
    BY <2>1, Zenon
  <2>3. ASSUME NEW i \in DOMAIN slots PROVE ChangedBy(c, i)
    <3>1. Parts(slots[i], c.net, TRUE)
      BY <1>1, <1>2, SlotParts, Zenon
    <3>2. Does(c)[i] = IF i = c.id THEN [slots[i] EXCEPT !.net = c.net] ELSE slots[i]
      BY <2>2, Zenon
    <3> QED
      BY Zenon, <1>1, <1>3, <3>1, <3>2 DEF ChangedBy, Disables, Enabling, Parts
  <2> QED
    BY <2>2, <2>3, Zenon
<1>4. CASE c.verb = "key"
  <2>1. Does(c) = [slots EXCEPT ![c.id].whole = TRUE]
    BY <1>4 DEF Does
  <2>2. /\ DOMAIN Does(c) = DOMAIN slots /\ Does(c) = [i \in DOMAIN slots |-> Does(c)[i]]
        /\ \A i \in DOMAIN slots : Does(c)[i] = IF i = c.id THEN [slots[i] EXCEPT !.whole = TRUE] ELSE slots[i]
    BY <2>1, Zenon
  <2>3. ASSUME NEW i \in DOMAIN slots PROVE ChangedBy(c, i)
    <3>1. Parts(slots[i], c.net, TRUE)
      BY <1>1, <1>2, SlotParts, Zenon
    <3>2. Does(c)[i] = IF i = c.id THEN [slots[i] EXCEPT !.whole = TRUE] ELSE slots[i]
      BY <2>2, Zenon
    <3> QED
      BY Zenon, <1>1, <1>4, <3>1, <3>2 DEF ChangedBy, Disables, Enabling, Parts
  <2> QED
    BY <2>2, <2>3, Zenon
<1>5. CASE c.verb \in {"enable", "enable_listed"}
  <2>1. Does(c) = [slots EXCEPT ![c.id].disabled = FALSE]
    BY <1>5 DEF Does
  <2>2. /\ DOMAIN Does(c) = DOMAIN slots /\ Does(c) = [i \in DOMAIN slots |-> Does(c)[i]]
        /\ \A i \in DOMAIN slots : Does(c)[i] = IF i = c.id THEN [slots[i] EXCEPT !.disabled = FALSE] ELSE slots[i]
    BY <2>1, Zenon
  <2>3. ASSUME NEW i \in DOMAIN slots PROVE ChangedBy(c, i)
    <3>1. Parts(slots[i], c.net, FALSE)
      BY <1>1, <1>2, SlotParts, Zenon
    <3>2. Does(c)[i] = IF i = c.id THEN [slots[i] EXCEPT !.disabled = FALSE] ELSE slots[i]
      BY <2>2, Zenon
    <3> QED
      BY Zenon, <1>1, <1>5, <3>1, <3>2 DEF ChangedBy, Disables, Enabling, Parts
  <2> QED
    BY <2>2, <2>3, Zenon
<1>6. CASE c.verb = "disable"
  <2>1. Does(c) = [slots EXCEPT ![c.id].disabled = TRUE]
    BY <1>6 DEF Does
  <2>2. /\ DOMAIN Does(c) = DOMAIN slots /\ Does(c) = [i \in DOMAIN slots |-> Does(c)[i]]
        /\ \A i \in DOMAIN slots : Does(c)[i] = IF i = c.id THEN [slots[i] EXCEPT !.disabled = TRUE] ELSE slots[i]
    BY <2>1, Zenon
  <2>3. ASSUME NEW i \in DOMAIN slots PROVE ChangedBy(c, i)
    <3>1. Parts(slots[i], c.net, TRUE)
      BY <1>1, <1>2, SlotParts, Zenon
    <3>2. Does(c)[i] = IF i = c.id THEN [slots[i] EXCEPT !.disabled = TRUE] ELSE slots[i]
      BY <2>2, Zenon
    <3> QED
      BY Zenon, <1>1, <1>6, <3>1, <3>2 DEF ChangedBy, Disables, Enabling, Parts
  <2> QED
    BY <2>2, <2>3, Zenon
<1>7. CASE c.verb = "select"
  <2>1. Does(c) = [i \in DOMAIN slots |-> [slots[i] EXCEPT !.disabled = i # c.id]]
    BY <1>7 DEF Does
  <2>2. /\ DOMAIN Does(c) = DOMAIN slots /\ Does(c) = [i \in DOMAIN slots |-> Does(c)[i]]
        /\ \A i \in DOMAIN slots : Does(c)[i] = [slots[i] EXCEPT !.disabled = i # c.id]
    BY <2>1
  <2>3. ASSUME NEW i \in DOMAIN slots PROVE ChangedBy(c, i)
    <3>1. Parts(slots[i], c.net, i # c.id)
      BY <1>1, <1>2, SlotParts, Zenon
    <3>2. Does(c)[i] = [slots[i] EXCEPT !.disabled = i # c.id]
      BY <2>2, Zenon
    <3> QED
      BY Zenon, <1>1, <1>7, <3>1, <3>2 DEF ChangedBy, Disables, Enabling, Parts
  <2> QED
    BY <2>2, <2>3, Zenon
<1>8. CASE c.verb = "disable_all"
  <2>1. Does(c) = [i \in DOMAIN slots |-> [slots[i] EXCEPT !.disabled = TRUE]]
    BY <1>8 DEF Does
  <2>2. /\ DOMAIN Does(c) = DOMAIN slots /\ Does(c) = [i \in DOMAIN slots |-> Does(c)[i]]
        /\ \A i \in DOMAIN slots : Does(c)[i] = [slots[i] EXCEPT !.disabled = TRUE]
    BY <2>1
  <2>3. ASSUME NEW i \in DOMAIN slots PROVE ChangedBy(c, i)
    <3>1. Parts(slots[i], c.net, TRUE)
      BY <1>1, <1>2, SlotParts, Zenon
    <3>2. Does(c)[i] = [slots[i] EXCEPT !.disabled = TRUE]
      BY <2>2, Zenon
    <3> QED
      BY Zenon, <1>1, <1>8, <3>1, <3>2 DEF ChangedBy, Disables, Enabling, Parts
  <2> QED
    BY <2>2, <2>3, Zenon
<1> QED
  BY <1>3, <1>4, <1>5, <1>6, <1>7, <1>8, Zenon DEF Changing

\* The other commands: one clears, one adds, one removes, the rest do nothing.
LEMMA Others ==
    ASSUME NEW c
    PROVE  /\ c.verb = "clear" => Does(c) = NoSlots
           /\ c.verb = "remove" => Does(c) = [k \in DOMAIN slots \ {c.id} |-> slots[k]]
           /\ c.verb \in Passive => Does(c) = slots
           /\ c.verb = "add" =>
                  Does(c) = [i \in DOMAIN slots \cup {NewId} |->
                                IF i = NewId THEN [net |-> Blank, whole |-> FALSE, disabled |-> TRUE]
                                ELSE slots[i]]
<1>1. c.verb = "clear" => Does(c) = NoSlots
  BY DEF Does
<1>2. c.verb = "remove" => Does(c) = [k \in DOMAIN slots \ {c.id} |-> slots[k]]
  BY DEF Does, Without
<1>3. c.verb \in Passive => Does(c) = slots
  BY DEF Does, Passive, Radio
<1>4. c.verb = "add" => Does(c) = [i \in DOMAIN slots \cup {NewId} |->
                                IF i = NewId THEN [net |-> Blank, whole |-> FALSE, disabled |-> TRUE]
                                ELSE slots[i]]
  BY DEF Does
<1> QED
  BY <1>1, <1>2, <1>3, <1>4, Zenon

\* Every command leaves slots.
LEMMA DoesTyped ==
    ASSUME Typed, NEW c \in Cmd, Present(c), slots' = Does(c)
    PROVE  IsSlots(slots)' /\ Finite'
<1>1. PICK b \in Nat : \A i \in DOMAIN slots : i <= b
  BY Zenon DEF Typed, Finite
<1>2. DOMAIN slots \subseteq Nat /\ \A i \in DOMAIN slots : slots[i] \in Slot
  BY DEF Typed, TypeOK, IsSlots
<1>3. c.verb \in Changing \cup Passive \cup {"clear", "add", "remove"}
  BY DEF Cmd, Commands, Changing, Passive, Radio
<1>4. CASE c.verb \in Changing
  <2>1. /\ DOMAIN slots' = DOMAIN slots /\ slots' = [i \in DOMAIN slots |-> slots'[i]]
        /\ \A i \in DOMAIN slots : slots'[i] \in Slot
    BY Zenon, <1>4, Changes DEF ChangedBy
  <2> QED
    BY Zenon, <1>1, <1>2, <2>1 DEF IsSlots, Finite
<1>5. CASE c.verb \in Passive
  <2>1. slots' = slots
    BY <1>5, Others, Zenon
  <2> QED
    BY <2>1, Zenon DEF Typed, TypeOK, IsSlots, Finite
<1>6. CASE c.verb = "clear"
  <2>1. slots' = NoSlots
    BY <1>6, Others, Zenon
  <2> QED
    BY <2>1 DEF NoSlots, IsSlots, Finite
<1>7. CASE c.verb = "remove"
  <2>1. slots' = [k \in DOMAIN slots \ {c.id} |-> slots[k]]
    BY <1>7, Others, Zenon
  <2>2. /\ DOMAIN slots' = DOMAIN slots \ {c.id} /\ slots' = [k \in DOMAIN slots' |-> slots'[k]]
        /\ \A i \in DOMAIN slots' : slots'[i] = slots[i]
    BY <2>1, Zenon
  <2> QED
    BY Zenon, <1>1, <1>2, <2>2 DEF IsSlots, Finite
<1>8. CASE c.verb = "add"
  <2> DEFINE new == [net |-> Blank, whole |-> FALSE, disabled |-> TRUE]
  <2>1. slots' = [i \in DOMAIN slots \cup {NewId} |-> IF i = NewId THEN new ELSE slots[i]]
    BY <1>8, Others, Zenon
  <2>2. new \in Slot
    BY DEF Slot
  <2>3. NewId \in Nat /\ \A i \in DOMAIN slots : i < NewId
    BY NewIdIsNew, Zenon
  <2> HIDE DEF new
  <2>4. /\ DOMAIN slots' = DOMAIN slots \cup {NewId} /\ slots' = [k \in DOMAIN slots' |-> slots'[k]]
        /\ \A i \in DOMAIN slots' : slots'[i] = new \/ (i \in DOMAIN slots /\ slots'[i] = slots[i])
    BY <2>1, Zenon
  <2>5. \A i \in DOMAIN slots' : i <= NewId
    BY <1>2, <2>3, <2>4
  <2>6. IsSlots(slots)'
    BY Zenon, <1>2, <2>2, <2>3, <2>4 DEF IsSlots
  <2> QED
    BY Zenon, <2>3, <2>4, <2>5, <2>6 DEF Finite
<1> QED
  BY <1>3, <1>4, <1>5, <1>6, <1>7, <1>8, Zenon

-------------------------------------------------------------------------------
(* Types, and which steps belong to which job.                             *)

AboutTarget == {"ssid", "key", "enable", "disable"}

\* A job goes through its own steps; while it adds one of the document's networks
\* there is one to be added.
Flow ==
    /\ step \in {"update_config", "enable_listed", "clear", "record", "disable_all"} \cup Radio =>
           job = "profiles"
    /\ step \in {"render", "add", "remove"} \cup AboutTarget => job \in {"profiles", "connect"}
    /\ step \in {"attach", "select"} => job = "connect"
    /\ job = "connect" => want # Blank
    /\ job = "profiles" /\ step \in {"render", "add"} \cup AboutTarget => at <= Len(desired.nets)
    /\ job = "profiles" /\ step \in {"list", "enable_listed"} => desired.nets # <<>>
    /\ step = "enable_listed" => todo # {}

\* A supplicant that is gone holds nothing, and was there when the connection was
\* answered.  A second connection counts as a trouble.
Death ==
    /\ ~ alive => slots = NoSlots /\ queue = <<>>
    /\ ~ alive /\ step # "idle" /\ (step = "ping" => replies # <<>>) => intruded
    /\ intruded \/ other # "none" => troubles > 0

Base == Typed /\ Flow /\ Death

ClientTypes ==
    /\ job \in {"none", "observe", "profiles", "connect"}
    /\ step \in Commands \cup {"idle", "render", "record"}
    /\ (step = "idle") <=> (job = "none")
    /\ at \in Nat \ {0}
    /\ slot \in Nat
    /\ todo \subseteq Nat
    /\ want \in Networks \cup {Blank}

IsReply(r) == r.id \in Nat /\ IsRows(r.rows)

\* What a handler has to leave behind.
Kept == ClientTypes' /\ Flow' /\ queue' \in Seq(Cmd) /\ due' \in BOOLEAN

\* The facts about the document that the steps rely on.
LEMMA Document ==
    ASSUME Typed
    PROVE  /\ desired.nets \in Seq(Networks) /\ desired.auto \subseteq Networks
           /\ desired.joins \in BOOLEAN
  BY SupplicantAssumption DEF Typed, TypeOK

\* The network that is being added is one.
LEMMA TargetIs ==
    ASSUME Base, step \in {"add"} \cup AboutTarget
    PROVE  Target \in Networks
<1>1. job \in {"profiles", "connect"}
  BY Zenon DEF Base, Flow
<1>2. CASE job = "connect"
  BY <1>2, Zenon DEF Base, Flow, Typed, TypeOK, Target
<1>3. CASE job = "profiles"
  <2>1. at <= Len(desired.nets) /\ at \in Nat \ {0}
    BY <1>3, Zenon DEF Base, Flow, Typed, TypeOK
  <2>2. desired.nets \in Seq(Networks)
    BY Document, Zenon DEF Base
  <2> QED
    BY <1>3, <2>1, <2>2 DEF Target
<1> QED
  BY <1>1, <1>2, <1>3, Zenon

\* A connection that is closed.
LEMMA FreeKeeps ==
    ASSUME Base, client_free
    PROVE  queue' \in Seq(Cmd) /\ job' = "none" /\ step' = "idle"
<1>1. queue \in Seq(Cmd)
  BY Zenon DEF Base, Typed, TypeOK, Cmd
<1>2. \A c \in Cmd : Orphan(c) \in Cmd
  BY DEF Orphan, Cmd
<1>3. Orphaned \in Seq(Cmd)
  BY <1>1, <1>2 DEF Orphaned
<1> QED
  BY <1>3, Zenon DEF client_free

\* A command that is sent.
LEMMA AskKeeps ==
    ASSUME Base, NEW rest, NEW v \in Commands, NEW i \in Nat, NEW n \in Networks \cup {Blank},
           Ask(rest, v, i, n)
    PROVE  queue' \in Seq(Cmd) /\ job' = job /\ step' = v
<1>1. queue \in Seq(Cmd)
  BY Zenon DEF Base, Typed, TypeOK, Cmd
<1>2. Command(v, i, n) \in Cmd
  BY DEF Command, Cmd
<1>3. Append(queue, Command(v, i, n)) \in Seq(Cmd)
  BY <1>1, <1>2
<1> QED
  BY <1>1, <1>3, Zenon DEF Ask

\* Closing the connection keeps everything that the client has to say.
LEMMA Closing ==
    ASSUME Base, client_free, at' \in Nat \ {0}, slot' \in Nat, todo' \subseteq Nat,
           want' \in Networks \cup {Blank}, due' \in BOOLEAN
    PROVE  Kept
<1>1. queue' \in Seq(Cmd) /\ job' = "none" /\ step' = "idle"
  BY FreeKeeps, Zenon
<1> QED
  BY <1>1 DEF Kept, ClientTypes, Flow, AboutTarget, Radio

\* The variables of the client, by name.
LEMMA Vars ==
    ASSUME Base
    PROVE  ClientTypes /\ due \in BOOLEAN /\ 0 \in Nat /\ Blank \in Networks \cup {Blank}
  BY DEF Base, Typed, TypeOK, ClientTypes

\* The next network, or what follows the last.
LEMMA NextKeeps ==
    ASSUME Base, job = "profiles", NEW rest, NEW k \in Nat \ {0}, NextNetwork(rest, k), at' = k,
           UNCHANGED <<due, slot, todo, want>>, desired' = desired
    PROVE  Kept
<1>1. queue \in Seq(Cmd) /\ Len(desired.nets) \in Nat
  BY Document DEF Base, Typed, TypeOK, Cmd
<1>2. CASE k <= Len(desired.nets) /\ Then(rest, "render")
  <2>1. queue' = queue /\ job' = job /\ step' = "render"
    BY <1>2, Zenon DEF Then
  <2> QED
    BY <1>1, <1>2, <2>1, Vars DEF Kept, ClientTypes, Flow, Base, Commands, AboutTarget, Radio
<1>3. CASE Then(rest, "record")
  <2>1. queue' = queue /\ job' = job /\ step' = "record"
    BY <1>3, Zenon DEF Then
  <2> QED
    BY <1>1, <2>1, Vars DEF Kept, ClientTypes, Flow, Base, Commands, AboutTarget, Radio
<1>4. CASE Ask(rest, "disable_all", 0, Blank)
  <2>1. queue' \in Seq(Cmd) /\ job' = job /\ step' = "disable_all"
    BY <1>4, AskKeeps, Vars, Zenon DEF Commands
  <2> QED
    BY <2>1, Vars DEF Kept, ClientTypes, Flow, Base, Commands, AboutTarget, Radio
<1> QED
  BY <1>2, <1>3, <1>4, Zenon DEF NextNetwork

\* One case for each handler.
LEMMA HandleKeeps ==
    ASSUME Base, NEW r, NEW rest, IsReply(r), Handle(r, rest), desired' = desired
    PROVE  Kept
<1> USE Vars
<1>1. CASE Pinged(r, rest)
  <2>0. UNCHANGED <<at, slot, todo, want>> /\ step = "ping"
    BY <1>1, Zenon DEF Pinged
  <2>1. CASE client_free
    <3>1. due' \in BOOLEAN
      BY <1>1, Zenon DEF Pinged, networks_differ, refuted
    <3> QED
      BY <2>0, <2>1, <3>1, Closing, Zenon DEF ClientTypes
  <2>2. CASE job = "profiles" /\ Ask(rest, "update_config", 0, Blank) /\ UNCHANGED due
    <3>1. queue' \in Seq(Cmd) /\ job' = job /\ step' = "update_config"
      BY <2>2, AskKeeps, Zenon DEF Commands
    <3> QED
      BY <2>0, <2>2, <3>1 DEF Kept, ClientTypes, Flow, Base, Commands, AboutTarget, Radio
  <2>3. CASE /\ job = "connect" \/ (job = "observe" /\ desired.nets # <<>>)
             /\ Ask(rest, "list", 0, Blank) /\ UNCHANGED due
    <3>1. queue' \in Seq(Cmd) /\ job' = job /\ step' = "list"
      BY <2>3, AskKeeps, Zenon DEF Commands
    <3> QED
      BY <2>0, <2>3, <3>1 DEF Kept, ClientTypes, Flow, Base, Commands, AboutTarget, Radio
  <2> QED
    BY <1>1, <2>1, <2>2, <2>3, Zenon DEF Pinged
<1>2. CASE observe_supplicants(r, rest)
  <2>1. due' \in BOOLEAN
    BY <1>2 DEF observe_supplicants, networks_differ, refuted
  <2> QED
    BY <1>2, <2>1, Closing, Zenon DEF observe_supplicants, ClientTypes
<1>3. CASE Selected(r, rest) \/ Removed(r, rest)
  BY <1>3, Closing, Zenon DEF Selected, Removed, ClientTypes
<1>4. CASE wifi_connect(r, rest)
  <2> DEFINE same == {i \in DOMAIN parse_network_list(r) : parse_network_list(r)[i].name = Ssid[want]}
  <2>0. UNCHANGED <<due, at, todo, want>> /\ step = "list" /\ job = "connect"
    BY <1>4, Zenon DEF wifi_connect
  <2>1. CASE client_free /\ UNCHANGED slot
    BY <2>0, <2>1, Closing, Zenon DEF ClientTypes
  <2>2. CASE same # {} /\ Ask(rest, "attach", 0, Blank) /\ slot' = Min(same)
    <3>1. queue' \in Seq(Cmd) /\ job' = job /\ step' = "attach"
      BY <2>2, AskKeeps, Zenon DEF Commands
    <3>2. DOMAIN parse_network_list(r) \subseteq Nat
      BY DEF parse_network_list, IsReply, IsRows, NoSlots
    <3>3. same \subseteq Nat
      BY <3>2, Zenon
    <3>4. slot' \in Nat
      <4> HIDE DEF same
      <4> QED
        BY <2>2, <3>3, MinIn, Zenon
    <3> QED
      BY <2>0, <3>1, <3>4 DEF Kept, ClientTypes, Flow, Base, Commands, AboutTarget, Radio
  <2>3. CASE Then(rest, "render") /\ UNCHANGED slot
    <3>1. queue' = queue /\ job' = job /\ step' = "render"
      BY <2>3, Zenon DEF Then
    <3>2. queue \in Seq(Cmd)
      BY Zenon DEF Base, Typed, TypeOK, Cmd
    <3> QED
      BY <2>0, <2>3, <3>1, <3>2 DEF Kept, ClientTypes, Flow, Base, Commands, AboutTarget, Radio
  <2> QED
    BY <1>4, <2>1, <2>2, <2>3, Zenon DEF wifi_connect
<1>5. CASE Attached(r, rest)
  <2>1. UNCHANGED <<due, at, slot, todo, want>> /\ step = "attach" /\ Ask(rest, "select", slot, Blank)
    BY <1>5, Zenon DEF Attached
  <2>2. queue' \in Seq(Cmd) /\ job' = job /\ step' = "select"
    BY <2>1, AskKeeps, Zenon DEF Commands, ClientTypes
  <2> QED
    BY <2>1, <2>2 DEF Kept, ClientTypes, Flow, Base, Commands, AboutTarget, Radio
<1>6. CASE update_config(r, rest)
  <2>0. UNCHANGED <<due, at, slot, todo, want>> /\ step = "update_config" /\ job = "profiles"
    BY <1>6, Zenon DEF update_config, Base, Flow
  <2>1. CASE client_free
    BY <2>0, <2>1, Closing, Zenon DEF ClientTypes
  <2>2. CASE desired.nets # <<>> /\ Ask(rest, "list", 0, Blank)
    <3>1. queue' \in Seq(Cmd) /\ job' = job /\ step' = "list"
      BY <2>2, AskKeeps, Zenon DEF Commands
    <3> QED
      BY <2>0, <2>2, <3>1 DEF Kept, ClientTypes, Flow, Base, Commands, AboutTarget, Radio
  <2>3. CASE Ask(rest, "clear", 0, Blank)
    <3>1. queue' \in Seq(Cmd) /\ job' = job /\ step' = "clear"
      BY <2>3, AskKeeps, Zenon DEF Commands
    <3> QED
      BY <2>0, <3>1 DEF Kept, ClientTypes, Flow, Base, Commands, AboutTarget, Radio
  <2> QED
    BY <1>6, <2>1, <2>2, <2>3, Zenon DEF update_config
<1>7. CASE enable_only(r, rest)
  <2>0. UNCHANGED <<due, at, slot, want>> /\ step \in {"list", "enable_listed"} /\ job = "profiles"
    BY <1>7, Zenon DEF enable_only
  <2>1. CASE Ask(rest, "clear", 0, Blank) /\ todo' = {}
    <3>1. queue' \in Seq(Cmd) /\ job' = job /\ step' = "clear"
      BY <2>1, AskKeeps, Zenon DEF Commands
    <3> QED
      BY <2>0, <2>1, <3>1 DEF Kept, ClientTypes, Flow, Base, Commands, AboutTarget, Radio
  <2>2. ASSUME NEW ids, ids \subseteq Nat, EnableNext(rest, ids) PROVE Kept
    <3>1. CASE client_free /\ todo' = ids
      BY <2>0, <2>2, <3>1, Closing, Zenon DEF ClientTypes
    <3>2. CASE ids # {} /\ Ask(rest, "enable_listed", Min(ids), Blank) /\ todo' = ids
      <4>1. Min(ids) \in Nat
        BY <2>2, <3>2, MinIn, Zenon
      <4>2. queue' \in Seq(Cmd) /\ job' = job /\ step' = "enable_listed"
        BY <3>2, <4>1, AskKeeps, Zenon DEF Commands
      <4>3. desired.nets # <<>>
        BY <2>0, Zenon DEF Base, Flow
      <4> QED
        BY <2>0, <2>2, <3>2, <4>2, <4>3
           DEF Kept, ClientTypes, Flow, Base, Commands, AboutTarget, Radio
    <3> QED
      BY <2>2, <3>1, <3>2, Zenon DEF EnableNext
  <2>3. disabled_in(parse_network_list(r)) \subseteq Nat
    <3>1. DOMAIN parse_network_list(r) \subseteq Nat
      BY DEF parse_network_list, IsReply, IsRows, NoSlots
    <3> QED
      BY <3>1, Zenon DEF disabled_in
  <2>4. todo \ {Min(todo)} \subseteq Nat
    BY Zenon DEF ClientTypes
  <2> QED
    BY <1>7, <2>1, <2>2, <2>3, <2>4, Zenon DEF enable_only
<1>8. CASE set_radio(r, rest)
  <2>0. UNCHANGED <<due, slot, todo, want>> /\ at' = 1
    BY <1>8, Zenon DEF set_radio
  <2>1. CASE client_free
    BY <2>0, <2>1, Closing DEF ClientTypes
  <2>2. CASE step \in DOMAIN Following /\ Ask(rest, Following[step], 0, Blank)
    <3>1. step \in {"clear"} \cup Radio
      BY <2>2 DEF Following, Radio
    <3>2. Following[step] \in Radio
      BY <2>2 DEF Following, Radio
    <3>3. queue' \in Seq(Cmd) /\ job' = job /\ step' = Following[step]
      BY <2>2, <3>2, AskKeeps, Zenon DEF Commands, Radio
    <3>4. job = "profiles"
      BY <3>1, Zenon DEF Base, Flow
    <3> QED
      BY <2>0, <3>2, <3>3, <3>4 DEF Kept, ClientTypes, Flow, Base, Commands, AboutTarget, Radio
  <2>3. CASE step = "sae_pwe" /\ NextNetwork(rest, 1)
    <3>1. job = "profiles"
      BY <2>3, Zenon DEF Base, Flow, Radio
    <3> QED
      BY <2>0, <2>3, <3>1, NextKeeps
  <2> QED
    BY <1>8, <2>1, <2>2, <2>3, Zenon DEF set_radio
<1>9. CASE DisabledAll(r, rest)
  <2>0. UNCHANGED <<due, at, slot, todo, want>> /\ step = "disable_all" /\ job = "profiles"
    BY <1>9, Zenon DEF DisabledAll, Base, Flow
  <2>1. CASE client_free
    BY <2>0, <2>1, Closing, Zenon DEF ClientTypes
  <2>2. CASE Then(rest, "record")
    <3>1. queue' = queue /\ job' = job /\ step' = "record"
      BY <2>2, Zenon DEF Then
    <3>2. queue \in Seq(Cmd)
      BY Zenon DEF Base, Typed, TypeOK, Cmd
    <3> QED
      BY <2>0, <3>1, <3>2 DEF Kept, ClientTypes, Flow, Base, Commands, AboutTarget, Radio
  <2> QED
    BY <1>9, <2>1, <2>2, Zenon DEF DisabledAll
<1>10. CASE new_network_id(r, rest)
  <2>0. UNCHANGED <<due, at, todo, want>> /\ step = "add"
    BY <1>10, Zenon DEF new_network_id
  <2>1. CASE client_free /\ UNCHANGED slot
    BY <2>0, <2>1, Closing, Zenon DEF ClientTypes
  <2>2. CASE Ask(rest, "ssid", r.id, Target) /\ slot' = r.id
    <3>1. Target \in Networks /\ r.id \in Nat
      BY <2>0, TargetIs, Zenon DEF IsReply
    <3>2. queue' \in Seq(Cmd) /\ job' = job /\ step' = "ssid"
      BY <2>2, <3>1, AskKeeps, Zenon DEF Commands
    <3> QED
      BY <2>0, <2>2, <3>1, <3>2 DEF Kept, ClientTypes, Flow, Base, Commands, AboutTarget, Radio
  <2> QED
    BY <1>10, <2>1, <2>2, Zenon DEF new_network_id
<1>11. CASE send_setting(r, rest)
  <2>0. UNCHANGED <<due, at, slot, todo, want>> /\ step \in {"ssid", "key"} /\ Target \in Networks
    BY <1>11, TargetIs, Zenon DEF send_setting, AboutTarget
  <2>1. ASSUME NEW v \in {"key", "enable", "disable", "remove"}, NEW n \in Networks \cup {Blank},
               Ask(rest, v, slot, n)
        PROVE  Kept
    <3>1. v \in Commands /\ slot \in Nat
      BY Zenon DEF Commands, ClientTypes
    <3>2. queue' \in Seq(Cmd) /\ job' = job /\ step' = v
      BY <2>1, <3>1, AskKeeps, Zenon
    <3> QED
      BY <2>0, <3>1, <3>2 DEF Kept, ClientTypes, Flow, Base, AboutTarget, Radio
  <2>2. \/ Ask(rest, "key", slot, Target)
        \/ Ask(rest, "enable", slot, Blank)
        \/ Ask(rest, "disable", slot, Blank)
        \/ Ask(rest, "remove", slot, Blank)
    BY <1>11, Zenon DEF send_setting
  <2> QED
    BY <2>0, <2>1, <2>2, Zenon
<1>12. CASE add_network(r, rest)
  <2>0. UNCHANGED <<due, slot, todo, want>> /\ step \in {"enable", "disable"}
    BY <1>12, Zenon DEF add_network
  <2>1. CASE client_free /\ UNCHANGED at
    BY <2>0, <2>1, Closing, Zenon DEF ClientTypes
  <2>2. CASE job = "profiles" /\ NextNetwork(rest, at + 1) /\ at' = at + 1
    <3>1. at + 1 \in Nat \ {0}
      BY DEF ClientTypes
    <3> QED
      BY <2>0, <2>2, <3>1, NextKeeps, Zenon
  <2>3. CASE job = "connect" /\ Ask(rest, "attach", 0, Blank) /\ UNCHANGED at
    <3>1. queue' \in Seq(Cmd) /\ job' = job /\ step' = "attach"
      BY <2>3, AskKeeps, Zenon DEF Commands
    <3> QED
      BY <2>0, <2>3, <3>1 DEF Kept, ClientTypes, Flow, Base, Commands, AboutTarget, Radio
  <2> QED
    BY <1>12, <2>1, <2>2, <2>3, Zenon DEF add_network
<1> QED
  BY <1>1, <1>2, <1>3, <1>4, <1>5, <1>6, <1>7, <1>8, <1>9, <1>10, <1>11, <1>12, Zenon DEF Handle

AreReplies(s) ==
    /\ IsSeq(s)
    /\ \A i \in DOMAIN s : s[i].kind \in {"ok", "fail", "pong", "id", "list"} /\ IsReply(s[i])

BoundTypes ==
    /\ edits \in 0 .. MaxEdits
    /\ connects \in 0 .. MaxConnects
    /\ troubles \in 0 .. MaxTroubles
    /\ faults \in 0 .. MaxFaults

RestTypes ==
    /\ desired \in Documents
    /\ record \in Documents \cup {NoRecord, Torn}
    /\ {due, absent, alive, intruded, doubt} \subseteq BOOLEAN
    /\ other \in {"none", "add", "ssid", "key", "enable", "disable", "select"}
    /\ oslot \in Nat
    /\ owant \in Networks \cup {Blank}

\* The type invariant, by what changes together.
LEMMA Parted ==
    Typed <=> /\ RestTypes /\ IsSlots(slots) /\ Finite /\ queue \in Seq(Cmd) /\ AreReplies(replies)
              /\ ClientTypes /\ BoundTypes
  BY Zenon DEF Typed, TypeOK, RestTypes, Cmd, AreReplies, IsReply, ClientTypes, BoundTypes

\* The same, after a step.
LEMMA PartedNext ==
    ASSUME RestTypes', IsSlots(slots)', Finite', queue' \in Seq(Cmd), AreReplies(replies)', ClientTypes',
           BoundTypes'
    PROVE  Typed'
  BY Zenon DEF Typed, TypeOK, RestTypes, Cmd, AreReplies, IsReply, ClientTypes, BoundTypes

\* Nothing was received.
LEMMA NoReplies == AreReplies(<<>>)
<1>1. <<>> \in Seq({}) /\ DOMAIN <<>> = {}
  OBVIOUS
<1> QED
  BY <1>1, Zenon DEF AreReplies, IsSeq

\* A bound that is not used up.
LEMMA OneMore == \A n \in Nat : \A k \in 0 .. n : k < n => k + 1 \in 0 .. n /\ k + 1 > 0
  OBVIOUS

\* Any bound may grow up to its limit.
LEMMA More ==
    ASSUME BoundTypes
    PROVE  /\ edits < MaxEdits => edits + 1 \in 0 .. MaxEdits
           /\ connects < MaxConnects => connects + 1 \in 0 .. MaxConnects
           /\ troubles < MaxTroubles => troubles + 1 \in 0 .. MaxTroubles /\ troubles + 1 > 0
           /\ faults < MaxFaults => faults + 1 \in 0 .. MaxFaults
<1>1. MaxEdits \in Nat /\ MaxConnects \in Nat /\ MaxTroubles \in Nat /\ MaxFaults \in Nat
  BY SupplicantAssumption, Zenon
<1> QED
  BY <1>1, OneMore, Zenon DEF BoundTypes

\* The handling of a reply, or of a deadline that passed.
LEMMA HandleBase ==
    ASSUME Base, NEW r, NEW rest, IsReply(r), Handle(r, rest), AreReplies(rest),
           r.kind = "pong" => replies # <<>>,
           UNCHANGED <<desired, record, absent, doubt, other, oslot, owant, alive, slots, troubles>>,
           BoundTypes'
    PROVE  Base'
<1>1. Kept
  BY HandleKeeps, Zenon
<1>2. Moves(r, rest)
  BY Handles, Zenon
<1>3. intruded' = intruded /\ (replies' = <<>> \/ replies' = rest)
  BY <1>2, Zenon DEF Moves, client_free, Ask, Then
<1>4. AreReplies(replies)'
  BY <1>3, NoReplies, Zenon
<1>5. Typed'
  <2>1. RestTypes' /\ IsSlots(slots)' /\ Finite'
    BY <1>1, <1>3, Parted, Zenon DEF RestTypes, Kept, Base, IsSlots, Finite
  <2> QED
    BY <1>1, <1>4, <2>1, PartedNext, Zenon DEF Kept
<1>6. Death'
  <2>1. ~ alive' => slots' = NoSlots
    BY Zenon DEF Base, Death
  <2>2. ~ alive' => queue' = <<>>
    <3> SUFFICES ASSUME ~ alive, queue = <<>> PROVE queue' = <<>>
      BY Zenon DEF Base, Death
    <3>1. Orphaned = <<>>
      BY DEF Orphaned
    <3> QED
      BY <1>2, <3>1, Zenon DEF Moves, client_free, Ask, Then
  <2>3. ~ alive' /\ step' # "idle" => intruded'
    <3>1. step' # "idle" => Going(r)
      BY <1>2, Zenon DEF Moves, client_free
    <3> QED
      BY <1>3, <3>1, Zenon DEF Going, Base, Death
  <2>4. intruded' \/ other' # "none" => troubles' > 0
    BY <1>3, Zenon DEF Base, Death
  <2> QED
    BY <2>1, <2>2, <2>3, <2>4, Zenon DEF Death
<1> QED
  BY <1>1, <1>5, <1>6, Zenon DEF Base, Kept

\* Opening a connection.
LEMMA OpenBase ==
    ASSUME Base, NEW j \in {"observe", "profiles", "connect"}, connect_within(j), step = "idle",
           UNCHANGED <<desired, record, doubt, other, oslot, owant, slots, at, slot, todo, troubles>>,
           BoundTypes', alive' \in BOOLEAN, alive => alive', due' \in BOOLEAN, absent' \in BOOLEAN,
           want' \in Networks \cup {Blank}, j = "connect" => want' # Blank
    PROVE  Base'
<1>1. queue \in Seq(Cmd) /\ RestTypes /\ IsSlots(slots) /\ Finite /\ ClientTypes
  BY Parted, Zenon DEF Base
<1>2. \A c \in Cmd : Orphan(c) \in Cmd
  BY DEF Orphan, Cmd
<1>3. Orphaned \in Seq(Cmd)
  BY <1>1, <1>2 DEF Orphaned
<1>4. Command("ping", 0, Blank) \in Cmd
  BY DEF Command, Cmd, Commands
<1>5. Append(Orphaned, Command("ping", 0, Blank)) \in Seq(Cmd)
  BY <1>3, <1>4
<1>6. queue' \in Seq(Cmd) /\ job' = j /\ step' = "ping" /\ replies' = <<>> /\ intruded' = FALSE
  BY <1>3, <1>5, Zenon DEF connect_within
<1>7. ClientTypes'
  BY <1>1, <1>6, Zenon DEF ClientTypes, Commands
<1>8. Typed'
  <2>1. RestTypes' /\ IsSlots(slots)' /\ Finite'
    BY <1>1, <1>6, Zenon DEF RestTypes, IsSlots, Finite
  <2>2. AreReplies(replies)'
    BY <1>6, NoReplies, Zenon
  <2> QED
    BY <1>6, <1>7, <2>1, <2>2, PartedNext, Zenon
<1>9. Flow'
  BY <1>6 DEF Flow, AboutTarget, Radio
<1>10. Death'
  <2>1. ~ alive' => slots' = NoSlots /\ queue' = <<>>
    <3> SUFFICES ASSUME ~ alive', queue = <<>> PROVE queue' = <<>>
      BY Zenon DEF Base, Death
    <3>1. Orphaned = <<>>
      BY DEF Orphaned
    <3> QED
      BY <3>1, Zenon DEF connect_within
  <2> QED
    BY <1>6, <2>1, Zenon DEF Death, Base
<1> QED
  BY <1>8, <1>9, <1>10, Zenon DEF Base

\* What the supplicant answers.
LEMMA AnswerIs ==
    ASSUME Typed, NEW c
    PROVE  /\ c.verb = "ping" => Answers(c) = Reply("pong")
           /\ c.verb = "list" => Answers(c).kind = "list" /\ Answers(c).rows = Rows
           /\ c.verb = "add" => Answers(c).kind = "id" /\ Answers(c).id = NewId
           /\ c.verb \notin {"ping", "list", "add"} => Answers(c) = Reply("ok")
           /\ Answers(c).kind \in {"ok", "pong", "id", "list"} /\ IsReply(Answers(c))
<1>1. Rows \in [DOMAIN slots -> Row] /\ DOMAIN slots \subseteq Nat
  <2>1. ASSUME NEW i \in DOMAIN slots
        PROVE  [name |-> Name(slots[i].net), disabled |-> slots[i].disabled] \in Row
    <3>1. slots[i].net \in Networks \cup {Blank} /\ slots[i].disabled \in BOOLEAN
      BY DEF Typed, TypeOK, IsSlots, Slot
    <3>2. Name(slots[i].net) \in Range(Ssid) \cup {Blank}
      BY <3>1, SupplicantAssumption, Zenon DEF Name, Range
    <3> QED
      BY Zenon, <3>1, <3>2 DEF Row
  <2> QED
    BY <2>1, Zenon DEF Rows, Typed, TypeOK, IsSlots
<1>2. IsRows(Rows) /\ IsRows(NoSlots)
  BY <1>1 DEF IsRows, NoSlots
<1>3. NewId \in Nat
  BY NewIdIsNew, Zenon
<1>4. \A k : Reply(k).kind = k /\ Reply(k).id = 0 /\ Reply(k).rows = NoSlots
  BY DEF Reply
<1>5. CASE c.verb = "ping"
  <2>1. Answers(c) = Reply("pong")
    BY <1>5 DEF Answers
  <2> QED
    BY <1>2, <1>4, <1>5, <2>1 DEF IsReply
<1>6. CASE c.verb = "list"
  <2>1. Answers(c) = [Reply("list") EXCEPT !.rows = Rows]
    BY <1>6 DEF Answers
  <2>2. Answers(c).kind = "list" /\ Answers(c).rows = Rows /\ Answers(c).id = 0
    BY <2>1 DEF Reply
  <2> QED
    BY <1>2, <1>6, <2>2 DEF IsReply
<1>7. CASE c.verb = "add"
  <2>1. Answers(c) = [Reply("id") EXCEPT !.id = NewId]
    BY <1>7 DEF Answers
  <2>2. Answers(c).kind = "id" /\ Answers(c).rows = NoSlots /\ Answers(c).id = NewId
    BY <2>1 DEF Reply
  <2> QED
    BY <1>2, <1>3, <1>7, <2>2 DEF IsReply
<1>8. CASE c.verb \notin {"ping", "list", "add"}
  <2>1. Answers(c) = Reply("ok")
    BY <1>8 DEF Answers
  <2> QED
    BY <1>2, <1>4, <1>8, <2>1 DEF IsReply
<1> QED
  BY <1>5, <1>6, <1>7, <1>8, Zenon

\* A command is executed, finds no slot, or is refused.
Done(c, a) == Present(c) /\ slots' = Does(c) /\ a = Answers(c) /\ UNCHANGED faults
Missing(c, a) ==
    c.verb \in AboutSlot /\ c.id \notin DOMAIN slots /\ a = Reply("fail") /\ UNCHANGED <<slots, faults>>
Refused(c, a) ==
    /\ c.verb \in Refusable /\ a = Reply("fail") /\ UNCHANGED slots
    /\ faults < MaxFaults /\ faults' = faults + 1

\* The supplicant executes the oldest command, in one of three ways.
LEMMA ServeIs ==
    ASSUME Base, Serve
    PROVE  /\ queue # <<>> /\ queue \in Seq(Cmd) /\ Head(queue) \in Cmd
           /\ queue' = Tail(queue) /\ queue' \in Seq(Cmd)
           /\ alive /\ UNCHANGED <<desired, record, due, absent, alive, job, step, at, slot, todo, want,
                                   intruded, other, oslot, owant, edits, connects, troubles>>
           /\ doubt' \in BOOLEAN
           /\ doubt' = doubt \/ (Head(queue).verb = "clear" /\ Head(queue).mine /\ slots' = Does(Head(queue)))
           /\ \E a : /\ Done(Head(queue), a) \/ Missing(Head(queue), a) \/ Refused(Head(queue), a)
                     /\ replies' = IF Head(queue).mine THEN Append(replies, a) ELSE replies
<1>1. queue \in Seq(Cmd) /\ queue # <<>> /\ queue' = Tail(queue)
  BY Zenon DEF Serve, Base, Typed, TypeOK, Cmd
<1>2. Head(queue) \in Cmd /\ Tail(queue) \in Seq(Cmd)
  BY <1>1
<1>3. \E a : /\ Done(Head(queue), a) \/ Missing(Head(queue), a) \/ Refused(Head(queue), a)
             /\ replies' = IF Head(queue).mine THEN Append(replies, a) ELSE replies
  BY Zenon DEF Serve, Done, Missing, Refused, Present
<1>4. doubt \in BOOLEAN
  BY Parted, Zenon DEF Base, RestTypes
<1>5. /\ doubt' \in BOOLEAN
      /\ doubt' = doubt \/ (Head(queue).verb = "clear" /\ Head(queue).mine /\ slots' = Does(Head(queue)))
  <2>1. \/ doubt' = (doubt /\ ~ (Head(queue).verb = "clear" /\ Head(queue).mine)) /\ slots' = Does(Head(queue))
        \/ doubt' = doubt
    BY Zenon DEF Serve
  <2>2. CASE Head(queue).verb = "clear" /\ Head(queue).mine
    BY <1>4, <2>1, <2>2
  <2>3. CASE ~ (Head(queue).verb = "clear" /\ Head(queue).mine)
    BY <1>4, <2>1, <2>3
  <2> QED
    BY <2>2, <2>3, Zenon
<1> QED
  BY <1>1, <1>2, <1>3, <1>5, Zenon DEF Serve, client, beside

\* Every answer is a reply.
LEMMA AnswerTyped ==
    ASSUME Typed, NEW c, NEW a, Done(c, a) \/ Missing(c, a) \/ Refused(c, a)
    PROVE  a.kind \in {"ok", "fail", "pong", "id", "list"} /\ IsReply(a)
<1>1. a = Answers(c) \/ a = Reply("fail")
  BY Zenon DEF Done, Missing, Refused
<1>2. CASE a = Answers(c)
  BY <1>2, AnswerIs, Zenon
<1>3. CASE a = Reply("fail")
  BY <1>3 DEF Reply, IsReply, IsRows, NoSlots
<1> QED
  BY <1>1, <1>2, <1>3

\* An answer is put behind the replies that were not read yet.
LEMMA AppendTyped ==
    ASSUME AreReplies(replies), NEW a, a.kind \in {"ok", "fail", "pong", "id", "list"}, IsReply(a)
    PROVE  /\ AreReplies(Append(replies, a)) /\ Len(Append(replies, a)) = Len(replies) + 1
           /\ Len(replies) \in Nat /\ DOMAIN replies = 1 .. Len(replies)
           /\ DOMAIN Append(replies, a) = 1 .. Len(replies) + 1
           /\ Append(replies, a)[Len(replies) + 1] = a
           /\ \A k \in DOMAIN replies : Append(replies, a)[k] = replies[k]
           /\ Append(replies, a) # <<>>
<1>1. PICK T : replies \in Seq(T)
  BY Zenon DEF AreReplies, IsSeq
<1>2. replies \in Seq(T \cup {a}) /\ a \in T \cup {a}
  BY <1>1
<1>3. /\ Append(replies, a) \in Seq(T \cup {a}) /\ Len(Append(replies, a)) = Len(replies) + 1
      /\ Len(replies) \in Nat /\ DOMAIN replies = 1 .. Len(replies)
      /\ DOMAIN Append(replies, a) = 1 .. Len(replies) + 1
      /\ Append(replies, a)[Len(replies) + 1] = a
      /\ \A k \in DOMAIN replies : Append(replies, a)[k] = replies[k]
      /\ Append(replies, a) # <<>>
  BY <1>2
<1>4. \A k \in DOMAIN Append(replies, a) : k \in DOMAIN replies \/ k = Len(replies) + 1
  BY <1>3
<1>5. AreReplies(Append(replies, a))
  BY <1>3, <1>4, Zenon DEF AreReplies, IsSeq
<1> QED
  BY <1>3, <1>5, Zenon

\* The supplicant executes a command: the types and the barrier are kept.
LEMMA ServeBase == ASSUME Base, Serve PROVE Base'
<1> DEFINE c == Head(queue)
<1>1. PICK a : /\ Done(c, a) \/ Missing(c, a) \/ Refused(c, a)
               /\ replies' = IF c.mine THEN Append(replies, a) ELSE replies
  BY ServeIs, Zenon
<1>2. c \in Cmd
  BY ServeIs, Zenon
<1> HIDE DEF c
<1>3. Typed
  BY Zenon DEF Base
<1>4. AreReplies(replies)'
  <2>1. a.kind \in {"ok", "fail", "pong", "id", "list"} /\ IsReply(a)
    BY <1>1, <1>3, AnswerTyped, Zenon
  <2>2. AreReplies(replies)
    BY <1>3, Parted, Zenon
  <2>3. AreReplies(Append(replies, a))
    BY <2>1, <2>2, AppendTyped
  <2>4. replies' = Append(replies, a) \/ replies' = replies
    BY <1>1, Zenon
  <2> QED
    BY <2>2, <2>3, <2>4, Zenon
<1>5. IsSlots(slots)' /\ Finite'
  <2>1. CASE Done(c, a)
    BY <1>2, <1>3, <2>1, DoesTyped, Zenon DEF Done
  <2>2. CASE slots' = slots
    BY <1>3, <2>2, Zenon DEF Typed, TypeOK, IsSlots, Finite
  <2> QED
    BY <1>1, <2>1, <2>2, Zenon DEF Missing, Refused
<1>6. BoundTypes'
  <2>1. BoundTypes
    BY <1>3, Parted, Zenon
  <2> QED
    BY <1>1, <2>1, More, ServeIs, Zenon DEF BoundTypes, Done, Missing, Refused
<1>7. Typed'
  <2>1. RestTypes' /\ ClientTypes'
    BY <1>3, Parted, ServeIs, Zenon DEF RestTypes, ClientTypes
  <2> QED
    BY <1>4, <1>5, <1>6, <2>1, PartedNext, ServeIs, Zenon
<1>8. Flow'
  BY ServeIs, Zenon DEF Base, Flow
<1>9. Death'
  <2>1. alive' = alive /\ alive /\ intruded' = intruded /\ other' = other /\ troubles' = troubles
    BY ServeIs, Zenon
  <2> QED
    BY <2>1, Zenon DEF Base, Death
<1> QED
  BY <1>7, <1>8, <1>9, Zenon DEF Base

\* A second connection: it changes slots the way a command does.
LEMMA BesideBase ==
    ASSUME Base, Beside \/ \E n \in Networks : JoinBeside(n) PROVE Base'
<1>0. /\ RestTypes /\ IsSlots(slots) /\ Finite /\ queue \in Seq(Cmd) /\ AreReplies(replies)
      /\ ClientTypes /\ BoundTypes /\ Flow /\ Death /\ Typed
  BY Parted, Zenon DEF Base
<1>1. /\ alive /\ UNCHANGED <<desired, record, due, absent, alive, queue, replies, job, step, at, slot, todo,
                              want, edits, connects, faults>>
  BY Zenon DEF Beside, JoinBeside, machine, wire, client, bounds
<1>2. CASE Beside
  <2> DEFINE c == Command(other, oslot, owant)
  <2>1. other # "none" /\ UNCHANGED troubles
    BY <1>2, Zenon DEF Beside, bounds
  <2>2. c \in Cmd
    BY <1>0, <2>1 DEF RestTypes, Command, Cmd, Commands
  <2>3. c.verb = other /\ c.id = oslot
    BY DEF Command
  <2>4. \/ /\ other \in AboutSlot => oslot \in DOMAIN slots
           /\ slots' = Does(c) /\ intruded' = TRUE /\ doubt' = TRUE
           /\ \/ other' = AfterOther /\ oslot' = (IF other = "add" THEN NewId ELSE oslot) /\ owant' = owant
              \/ other' = "none" /\ oslot' = 0 /\ owant' = Blank
        \/ /\ UNCHANGED <<slots, intruded, doubt>>
           /\ other' = "none" /\ oslot' = 0 /\ owant' = Blank
    BY <1>2, Zenon DEF Beside, NoOther
  <2>5. NewId \in Nat
    BY <1>0, NewIdIsNew, Zenon
  <2>6. /\ other' \in {"none", "add", "ssid", "key", "enable", "disable", "select"}
        /\ oslot' \in Nat /\ owant' \in Networks \cup {Blank}
    BY <1>0, <2>4, <2>5 DEF RestTypes, AfterOther
  <2>7. intruded' \in BOOLEAN /\ doubt' \in BOOLEAN
    BY <1>0, <2>4, Zenon DEF RestTypes
  <2>8. IsSlots(slots)' /\ Finite'
    <3> HIDE DEF c
    <3>1. CASE slots' = slots
      BY <1>0, <3>1, Zenon DEF IsSlots, Finite
    <3>2. CASE slots' = Does(c) /\ (c.verb \in AboutSlot => c.id \in DOMAIN slots)
      BY <1>0, <2>2, <3>2, DoesTyped, Zenon DEF Present
    <3> QED
      BY <2>3, <2>4, <3>1, <3>2, Zenon
  <2>9. RestTypes' /\ ClientTypes' /\ AreReplies(replies)' /\ BoundTypes' /\ Flow'
    BY <1>0, <1>1, <2>1, <2>6, <2>7, Zenon DEF RestTypes, ClientTypes, AreReplies, BoundTypes, Flow
  <2>10. Death'
    BY <1>0, <1>1, <2>1, Zenon DEF Death
  <2> QED
    BY <1>0, <1>1, <2>8, <2>9, <2>10, PartedNext, Zenon DEF Base
<1>3. ASSUME NEW n \in Networks, JoinBeside(n) PROVE Base'
  <2> DEFINE same == {i \in DOMAIN slots : Name(slots[i].net) = Ssid[n]}
  <2>1. /\ UNCHANGED <<slots, intruded, doubt>>
        /\ owant' = n /\ troubles < MaxTroubles /\ troubles' = troubles + 1
        /\ \/ same # {} /\ other' = "select" /\ oslot' = Min(same)
           \/ other' = "add" /\ oslot' = oslot
    BY <1>3, Zenon DEF JoinBeside, machine
  <2>2. same # {} => Min(same) \in Nat
    <3>1. same \subseteq Nat
      BY <1>0, Zenon DEF IsSlots
    <3> HIDE DEF same
    <3> QED
      BY <3>1, MinIn
  <2> HIDE DEF same
  <2>3. RestTypes'
    BY <1>0, <1>1, <2>1, <2>2, Zenon DEF RestTypes
  <2>4. BoundTypes' /\ troubles' > 0
    BY <1>0, <1>1, <2>1, More, Zenon DEF BoundTypes
  <2>5. ClientTypes' /\ AreReplies(replies)' /\ Flow' /\ IsSlots(slots)' /\ Finite'
    BY <1>0, <1>1, <2>1, Zenon DEF ClientTypes, AreReplies, Flow, IsSlots, Finite
  <2>6. Death'
    BY <1>0, <1>1, <2>1, <2>4, Zenon DEF Death
  <2> QED
    BY <1>0, <1>1, <2>3, <2>4, <2>5, <2>6, PartedNext, Zenon DEF Base
<1> QED
  BY <1>2, <1>3, Zenon

\* At the start there is nothing.
LEMMA BaseInit == Init => Base
<1> SUFFICES ASSUME Init PROVE Base
  OBVIOUS
<1>1. RestTypes /\ ClientTypes /\ Flow /\ Death
  <2>1. RestTypes
    BY SupplicantAssumption, Zenon DEF Init, RestTypes
  <2>2. ClientTypes
    BY DEF Init, ClientTypes
  <2>3. Flow
    BY DEF Init, Flow, AboutTarget, Radio
  <2>4. Death
    BY Zenon DEF Init, Death
  <2> QED
    BY <2>1, <2>2, <2>3, <2>4, Zenon
<1>2. BoundTypes
  BY SupplicantAssumption DEF Init, BoundTypes
<1>3. IsSlots(slots) /\ Finite
  BY DEF Init, IsSlots, Finite, NoSlots
<1>4. queue \in Seq(Cmd) /\ AreReplies(replies)
  BY NoReplies DEF Init
<1> QED
  BY <1>1, <1>2, <1>3, <1>4, Parted, Zenon DEF Base

\* Every step keeps the types: one case per action.
LEMMA BaseStep == Base /\ [Next]_vars => Base'
<1> SUFFICES ASSUME Base, [Next]_vars PROVE Base'
  OBVIOUS
<1>0. /\ RestTypes /\ IsSlots(slots) /\ Finite /\ queue \in Seq(Cmd) /\ AreReplies(replies)
      /\ ClientTypes /\ BoundTypes /\ Flow /\ Death
  BY Parted, Zenon DEF Base
<1>1. CASE Look
  BY <1>0, <1>1, OpenBase, Zenon DEF Look, bounds, beside, BoundTypes, RestTypes, ClientTypes
<1>2. CASE start_supplicant
  BY <1>0, <1>2, OpenBase, Zenon DEF start_supplicant, bounds, beside, BoundTypes, RestTypes, ClientTypes
<1>3. CASE set_profiles
  BY <1>0, <1>3, OpenBase, Zenon DEF set_profiles, bounds, beside, BoundTypes, RestTypes, ClientTypes
<1>4. ASSUME NEW n \in Networks, Connect(n) PROVE Base'
  <2>1. n # Blank
    BY SupplicantAssumption, Zenon
  <2>2. BoundTypes'
    BY <1>0, <1>4, More, Zenon DEF Connect, BoundTypes
  <2> QED
    BY <1>0, <1>4, <2>1, <2>2, OpenBase, Zenon DEF Connect, beside, RestTypes, ClientTypes
<1>5. CASE Receive
  <2>1. PICK T : replies \in Seq(T)
    BY <1>0, Zenon DEF AreReplies, IsSeq
  <2>2. replies # <<>>
    BY <1>5, Zenon DEF Receive
  <2>3. /\ Head(replies) = replies[1] /\ 1 \in DOMAIN replies /\ Tail(replies) \in Seq(T)
        /\ \A k \in DOMAIN Tail(replies) : k + 1 \in DOMAIN replies /\ Tail(replies)[k] = replies[k + 1]
    BY <2>1, <2>2
  <2>4. IsReply(Head(replies)) /\ AreReplies(Tail(replies))
    BY <1>0, <2>3, Zenon DEF AreReplies, IsSeq
  <2>5. BoundTypes'
    BY <1>0, <1>5, Zenon DEF Receive, bounds, BoundTypes
  <2> QED
    BY <1>5, <2>2, <2>4, <2>5, HandleBase, Zenon DEF Receive, machine, beside, bounds
<1>6. CASE TimeOut
  <2>1. IsReply(NoReply) /\ NoReply.kind = "none"
    BY DEF NoReply, Reply, IsReply, IsRows, NoSlots
  <2>2. BoundTypes'
    BY <1>0, <1>6, More, Zenon DEF TimeOut, BoundTypes
  <2> QED
    BY <1>6, <2>1, <2>2, NoReplies, HandleBase, Zenon DEF TimeOut, machine, beside
<1>7. CASE Render
  <2>1. BoundTypes'
    BY <1>0, <1>7, More, Zenon DEF Render, BoundTypes
  <2>2. /\ UNCHANGED <<desired, record, due, absent, alive, slots, at, slot, todo, want, doubt, other,
                       oslot, owant, troubles>>
        /\ step = "render"
    BY <1>7, Zenon DEF Render, machine, beside
  <2>3. RestTypes /\ IsSlots(slots)' /\ Finite'
    BY <1>0, <2>2, Zenon DEF IsSlots, Finite
  <2>4. CASE client_free
    <3>1. Kept /\ intruded' = intruded /\ replies' = <<>> /\ step' = "idle"
      BY <1>0, <2>2, <2>4, Closing, Zenon DEF ClientTypes, RestTypes, client_free
    <3>2. Typed'
      BY <1>0, <2>1, <2>2, <2>3, <3>1, NoReplies, PartedNext, Zenon DEF Kept, RestTypes
    <3>3. ~ alive' => queue' = <<>>
      BY <1>0, <2>2, <2>4 DEF Death, client_free, Orphaned
    <3> QED
      BY <1>0, <2>2, <3>1, <3>2, <3>3, Zenon DEF Base, Kept, Death
  <2>5. CASE Ask(replies, "add", 0, Blank)
    <3>1. queue' \in Seq(Cmd) /\ job' = job /\ step' = "add"
      BY <2>5, Vars, AskKeeps, Zenon DEF Commands
    <3>2. intruded' = intruded /\ replies' = replies
      BY <2>5, Zenon DEF Ask
    <3>3. ClientTypes' /\ Flow'
      BY <1>0, <2>2, <3>1 DEF ClientTypes, Flow, Commands, AboutTarget, Radio
    <3>4. Typed'
      BY <1>0, <2>1, <2>2, <2>3, <3>1, <3>2, <3>3, PartedNext, Zenon DEF RestTypes, AreReplies
    <3>5. ~ alive' => queue' = <<>>
      BY <1>0, <2>2, <2>5, Zenon DEF Death, Ask
    <3> QED
      BY <1>0, <2>2, <3>1, <3>2, <3>3, <3>4, <3>5, Zenon DEF Base, Death
  <2> QED
    BY <1>7, <2>4, <2>5, Zenon DEF Render
<1>8. CASE record_networks \/ Crash
  <2>1. BoundTypes' /\ (troubles' = troubles \/ troubles' > 0)
    BY <1>0, <1>8, More, Zenon DEF record_networks, Crash, BoundTypes
  <2>2. UNCHANGED <<desired, alive, slots, at, slot, todo, want>> /\ client_free
    BY <1>8, Zenon DEF record_networks, Crash, machine
  <2>3. record' \in Documents \cup {NoRecord, Torn} /\ {due', absent', doubt'} \subseteq BOOLEAN
    BY <1>0, <1>8, Zenon DEF record_networks, Crash, RestTypes
  <2>8. UNCHANGED <<other, oslot, owant>> \/ (other' = "none" /\ oslot' = 0 /\ owant' = Blank)
    BY <1>8, Zenon DEF record_networks, Crash, NoOther, beside
  <2>9. /\ other' \in {"none", "add", "ssid", "key", "enable", "disable", "select"}
        /\ oslot' \in Nat /\ owant' \in Networks \cup {Blank}
    BY <1>0, <2>8 DEF RestTypes
  <2>4. IsSlots(slots)' /\ Finite'
    BY <1>0, <2>2, Zenon DEF IsSlots, Finite
  <2>5. Kept /\ intruded' = intruded /\ replies' = <<>> /\ step' = "idle"
    BY <1>0, <2>2, <2>3, Closing, Zenon DEF ClientTypes, client_free
  <2>6. Typed'
    BY <1>0, <2>1, <2>2, <2>3, <2>4, <2>5, <2>9, NoReplies, PartedNext, Zenon DEF Kept, RestTypes
  <2>7. ~ alive' => queue' = <<>>
    BY <1>0, <2>2 DEF Death, client_free, Orphaned
  <2> QED
    BY <1>0, <2>1, <2>2, <2>5, <2>6, <2>7, <2>8, Zenon DEF Base, Kept, Death
<1>9. CASE Serve
  BY <1>9, ServeBase, Zenon
<1>10. ASSUME NEW d \in Documents, Reload(d) PROVE Base'
  <2>1. BoundTypes'
    BY <1>0, <1>10, More, Zenon DEF Reload, BoundTypes
  <2>2. UNCHANGED <<record, due, absent, alive, slots, queue, replies, job, step, at, slot, todo, want,
                    intruded, doubt, other, oslot, owant, troubles>>
        /\ desired' = d /\ step = "idle" /\ job = "none"
    BY <1>0, <1>10, Zenon DEF Reload, machine, wire, client, beside, ClientTypes
  <2>3. RestTypes' /\ ClientTypes' /\ IsSlots(slots)' /\ Finite' /\ AreReplies(replies)' /\ Death'
    BY <1>0, <2>2, Zenon DEF RestTypes, ClientTypes, IsSlots, Finite, AreReplies, Death
  <2>4. Flow'
    BY <2>2 DEF Flow, AboutTarget, Radio
  <2> QED
    BY <1>0, <2>1, <2>2, <2>3, <2>4, PartedNext, Zenon DEF Base
<1>11. CASE Intrude
  <2>1. BoundTypes' /\ troubles' > 0
    BY <1>0, <1>11, More, Zenon DEF Intrude, BoundTypes
  <2>2. UNCHANGED <<desired, record, due, absent, replies, job, step, at, slot, todo, want, doubt>>
        /\ intruded' = TRUE /\ slots' = NoSlots
    BY <1>11, Zenon DEF Intrude, client
  <2>6. /\ other' \in {"none", "add", "ssid", "key", "enable", "disable", "select"}
        /\ oslot' \in Nat /\ owant' \in Networks \cup {Blank}
    <3>1. UNCHANGED <<other, oslot, owant>> \/ (other' = "none" /\ oslot' = 0 /\ owant' = Blank)
      BY <1>11, Zenon DEF Intrude, NoOther, beside
    <3> QED
      BY <1>0, <3>1 DEF RestTypes
  <2>3. queue' \in Seq(Cmd) /\ alive' \in BOOLEAN /\ (~ alive' => queue' = <<>>)
    <3>1. alive /\ ((alive' = FALSE /\ queue' = <<>>) \/ (alive' = alive /\ queue' = queue))
      BY <1>11, Zenon DEF Intrude
    <3>2. alive \in BOOLEAN /\ <<>> \in Seq(Cmd)
      BY <1>0 DEF RestTypes
    <3> QED
      BY <1>0, <3>1, <3>2, Zenon
  <2>4. IsSlots(slots)' /\ Finite'
    BY <2>2 DEF NoSlots, IsSlots, Finite
  <2>5. RestTypes' /\ ClientTypes' /\ AreReplies(replies)' /\ Flow'
    BY <1>0, <2>2, <2>3, <2>6, Zenon DEF RestTypes, ClientTypes, AreReplies, Flow
  <2> QED
    BY <2>1, <2>2, <2>3, <2>4, <2>5, PartedNext, Zenon DEF Base, Death
<1>12. CASE LookMisses \/ restrict \/ UNCHANGED vars
  <2>1. UNCHANGED <<desired, record, alive, slots, queue, replies, job, step, at, slot, todo, want, intruded,
                    doubt, other, oslot, owant, edits, connects, troubles, faults>>
        /\ due' \in BOOLEAN /\ absent' \in BOOLEAN
    BY <1>0, <1>12, Zenon DEF LookMisses, restrict, vars, machine, wire, client, beside, bounds, RestTypes
  <2>2. /\ RestTypes' /\ IsSlots(slots)' /\ Finite' /\ queue' \in Seq(Cmd) /\ AreReplies(replies)'
        /\ ClientTypes' /\ BoundTypes' /\ Flow' /\ Death'
    <3>1. RestTypes' /\ BoundTypes'
      BY <1>0, <2>1, Zenon DEF RestTypes, BoundTypes
    <3>2. IsSlots(slots)' /\ Finite' /\ queue' \in Seq(Cmd) /\ AreReplies(replies)'
      BY <1>0, <2>1, Zenon DEF IsSlots, Finite, AreReplies
    <3>3. ClientTypes'
      BY <1>0, <2>1, Zenon DEF ClientTypes
    <3>4. Flow'
      BY <1>0, <2>1, Zenon DEF Flow
    <3>5. Death'
      BY <1>0, <2>1, Zenon DEF Death
    <3> QED
      BY <3>1, <3>2, <3>3, <3>4, <3>5, Zenon
  <2> QED
    BY <2>2, PartedNext, Zenon DEF Base
<1>13. CASE Beside \/ \E n \in Networks : JoinBeside(n)
  BY <1>13, BesideBase, Zenon
<1> QED
  BY <1>1, <1>2, <1>3, <1>4, <1>5, <1>6, <1>7, <1>8, <1>9, <1>10, <1>11, <1>12, <1>13, Zenon
     DEF Next, Loop, Client

\* Every variable of the session with the supplicant keeps its type: every command
\* that is sent is about a network the document names or a slot number that was
\* read, and every reply is one the client can take apart.
THEOREM TypeCorrect == Spec => []TypeOK
<1>1. Base => TypeOK
  BY Zenon DEF Base, Typed
<1> QED
  BY <1>1, BaseInit, BaseStep, PTL DEF Spec

-------------------------------------------------------------------------------
(* What is on the wire while the client waits for a reply.                 *)

\* Nothing is left of earlier commands: the reply that comes is the one to the
\* command that was sent last.
Exact ==
    /\ Len(replies) <= 1
    /\ queue = <<>> \/ (Len(queue) = 1 /\ replies = <<>> /\ queue[1].verb = step)

ExactSteps == {"update_config", "list", "enable_listed", "attach"} \cup AboutTarget

\* The steps at which a command of the open connection may be unread.
Expected ==
    \A k \in DOMAIN queue : queue[k].mine =>
        /\ step # "idle"
        /\ queue[k].verb = "ping" => step = "ping"
        /\ queue[k].verb = "add" => step = "add"
        /\ queue[k].verb = "list" => step \in {"list", "clear"} /\ replies = <<>> /\ k = 1
        /\ queue[k].verb = "remove" => step = "remove"
        /\ queue[k].verb = "ssid" => k = 1

\* After ADD_NETWORK a connection sends nothing until it has the number.
AddIsLast ==
    \A k, j \in DOMAIN queue : queue[k].verb = "add" /\ j > k => queue[j].verb = "ping"

\* A number is the last of the replies, and a list the first.
Received ==
    \A k \in DOMAIN replies :
        /\ replies[k].kind = "id" => step = "add" /\ k = Len(replies) /\ queue = <<>>
        /\ replies[k].kind = "list" => step \in {"list", "clear"} /\ k = 1

\* The command about a slot is about the one that was added.
OfTarget ==
    step \in AboutTarget /\ queue # <<>> =>
        queue[1].id = slot /\ (step \in {"ssid", "key"} => queue[1].net = Target)

Wire ==
    /\ step = "idle" => replies = <<>>
    /\ step = "ping" => Len(replies) <= 1 /\ (replies # <<>> => queue = <<>>)
    /\ step \in ExactSteps => Exact
    /\ Expected /\ AddIsLast /\ Received /\ OfTarget

Session == Base /\ Barrier /\ Wire

\* What Tail leaves.
LEMMA TailIs ==
    ASSUME NEW T, NEW s \in Seq(T), s # <<>>
    PROVE  /\ Tail(s) \in Seq(T) /\ Len(Tail(s)) = Len(s) - 1 /\ Len(s) \in Nat \ {0}
           /\ Head(s) = s[1] /\ 1 \in DOMAIN s /\ s[1] \in T /\ DOMAIN s = 1 .. Len(s)
           /\ \A k \in DOMAIN Tail(s) : k \in Nat \ {0} /\ k + 1 \in DOMAIN s /\ Tail(s)[k] = s[k + 1]
           /\ Len(s) = 1 => Tail(s) = <<>>
           /\ Tail(s) = <<>> => Len(s) = 1
<1>1. Len(s) \in Nat \ {0} /\ Head(s) = s[1] /\ 1 \in DOMAIN s /\ s[1] \in T /\ DOMAIN s = 1 .. Len(s)
  OBVIOUS
<1>2. Tail(s) \in Seq(T) /\ Len(Tail(s)) = Len(s) - 1
  OBVIOUS
<1>3. \A k \in DOMAIN Tail(s) : k \in Nat \ {0} /\ k + 1 \in DOMAIN s /\ Tail(s)[k] = s[k + 1]
  OBVIOUS
<1>4. Len(s) = 1 => Tail(s) = <<>>
  <2>1. \A q \in Seq(T) : Len(q) = 0 => q = <<>>
    OBVIOUS
  <2>2. Len(s) = 1 => Len(Tail(s)) = 0
    BY <1>2
  <2> QED
    BY <1>2, <2>1, <2>2, Zenon
<1>5. Tail(s) = <<>> => Len(s) = 1
  <2>1. Len(<<>>) = 0
    OBVIOUS
  <2> QED
    BY <1>1, <1>2, <2>1
<1> QED
  BY <1>1, <1>2, <1>3, <1>4, <1>5, Zenon

\* What Append adds.
LEMMA AppendIs ==
    ASSUME NEW T, NEW s \in Seq(T), NEW e \in T
    PROVE  /\ Append(s, e) \in Seq(T) /\ Len(Append(s, e)) = Len(s) + 1 /\ Len(s) \in Nat
           /\ DOMAIN s = 1 .. Len(s) /\ DOMAIN Append(s, e) = 1 .. Len(s) + 1
           /\ Append(s, e)[Len(s) + 1] = e
           /\ \A k \in DOMAIN s : Append(s, e)[k] = s[k] /\ k \in DOMAIN Append(s, e) /\ k < Len(s) + 1
           /\ \A k \in DOMAIN Append(s, e) : k \in DOMAIN s \/ k = Len(s) + 1
           /\ Append(s, e) # <<>>
  OBVIOUS

\* What is left when a connection is closed.
LEMMA OrphanedIs ==
    ASSUME queue \in Seq(Cmd)
    PROVE  /\ DOMAIN Orphaned = DOMAIN queue /\ Len(Orphaned) = Len(queue)
           /\ Orphaned \in Seq(Cmd)
           /\ \A k \in DOMAIN queue : /\ Orphaned[k].verb = queue[k].verb /\ Orphaned[k].id = queue[k].id
                                      /\ Orphaned[k].net = queue[k].net /\ ~ Orphaned[k].mine
           /\ queue = <<>> => Orphaned = <<>>
<1>1. \A c \in Cmd : Orphan(c) \in Cmd
  BY DEF Orphan, Cmd
<1>2. Orphaned \in Seq(Cmd) /\ DOMAIN Orphaned = DOMAIN queue /\ Len(Orphaned) = Len(queue)
  BY <1>1 DEF Orphaned
<1>3. \A k \in DOMAIN queue : /\ Orphaned[k].verb = queue[k].verb /\ Orphaned[k].id = queue[k].id
                              /\ Orphaned[k].net = queue[k].net /\ ~ Orphaned[k].mine
  BY DEF Orphaned, Orphan
<1>4. queue = <<>> => Orphaned = <<>>
  BY DEF Orphaned
<1> QED
  BY <1>2, <1>3, <1>4, Zenon

\* The sequences have elements of their types.
LEMMA WireTypes ==
    ASSUME Base
    PROVE  /\ queue \in Seq(Cmd) /\ AreReplies(replies) /\ IsSeq(replies)
           /\ Len(queue) \in Nat /\ DOMAIN queue = 1 .. Len(queue)
           /\ Len(replies) \in Nat /\ DOMAIN replies = 1 .. Len(replies)
           /\ DOMAIN <<>> = {} /\ Len(<<>>) = 0
<1>1. queue \in Seq(Cmd) /\ AreReplies(replies) /\ IsSeq(replies)
  BY Parted, Zenon DEF Base, AreReplies
<1>2. PICK T : replies \in Seq(T)
  BY <1>1, Zenon DEF IsSeq
<1>3. Len(replies) \in Nat /\ DOMAIN replies = 1 .. Len(replies)
  BY <1>2
<1>4. Len(queue) \in Nat /\ DOMAIN queue = 1 .. Len(queue) /\ DOMAIN <<>> = {} /\ Len(<<>>) = 0
  BY <1>1
<1> QED
  BY <1>1, <1>3, <1>4, Zenon

\* Closing a connection.
LEMMA WireFree == ASSUME Session, client_free PROVE Wire'
<1>1. queue \in Seq(Cmd)
  BY WireTypes, Zenon DEF Session
<1>2. step' = "idle" /\ queue' = Orphaned /\ replies' = <<>>
  BY Zenon DEF client_free
<1>3. AddIsLast'
  BY <1>1, <1>2, OrphanedIs DEF Session, Wire, AddIsLast
<1>4. Expected' /\ Received' /\ OfTarget'
  BY <1>1, <1>2, OrphanedIs DEF Expected, Received, OfTarget, AboutTarget
<1> QED
  BY <1>2, <1>3, <1>4 DEF Wire, ExactSteps, AboutTarget

\* Opening one.
LEMMA WireOpen == ASSUME Session, NEW j, connect_within(j), step = "idle" PROVE Wire'
<1>1. queue \in Seq(Cmd) /\ Orphaned \in Seq(Cmd)
  BY WireTypes, OrphanedIs, Zenon DEF Session
<1> DEFINE c == Command("ping", 0, Blank)
<1>2. c \in Cmd /\ c.verb = "ping"
  BY DEF Command, Cmd, Commands
<1>3. step' = "ping" /\ replies' = <<>> /\ queue' \in {Orphaned, Append(Orphaned, c)}
  BY Zenon DEF connect_within
<1> HIDE DEF c
<1>4. \A k \in DOMAIN Append(Orphaned, c) : \/ k \in DOMAIN Orphaned /\ Append(Orphaned, c)[k] = Orphaned[k]
                                            \/ k = Len(Orphaned) + 1 /\ Append(Orphaned, c)[k] = c
  BY <1>1, <1>2, AppendIs
<1>5. AddIsLast'
  <2>1. CASE queue' = Orphaned
    BY <1>1, <2>1, OrphanedIs DEF Session, Wire, AddIsLast
  <2>2. CASE queue' = Append(Orphaned, c)
    <3>1. \A k, m \in DOMAIN Orphaned : Orphaned[k].verb = "add" /\ m > k => Orphaned[m].verb = "ping"
      BY <1>1, OrphanedIs DEF Session, Wire, AddIsLast
    <3> QED
      BY <1>2, <1>4, <2>2, <3>1 DEF AddIsLast
  <2> QED
    BY <1>3, <2>1, <2>2, Zenon
<1>6. \A k \in DOMAIN queue' : ~ queue'[k].mine \/ queue'[k].verb = "ping"
  BY Zenon, <1>1, <1>2, <1>3, <1>4, OrphanedIs
<1>7. Expected' /\ Received' /\ OfTarget'
  BY <1>3, <1>6 DEF Expected, Received, OfTarget, AboutTarget
<1> QED
  BY <1>3, <1>5, <1>7 DEF Wire, ExactSteps, AboutTarget

\* A command to a supplicant that was done with everything.
LEMMA WireFresh ==
    ASSUME Session, NEW v \in Commands \ {"ping"}, NEW i \in Nat, NEW n \in Networks \cup {Blank},
           Ask(<<>>, v, i, n), queue = <<>>,
           v \in AboutTarget => i = slot', v \in {"ssid", "key"} => n = Target'
    PROVE  Wire' /\ Exact'
<1> DEFINE c == Command(v, i, n)
<1>1. c.verb = v /\ c.id = i /\ c.net = n
  BY DEF Command
<1>2. step' = v /\ replies' = <<>> /\ queue' \in {<<>>, Append(<<>>, c)}
  BY Zenon DEF Ask
<1> HIDE DEF c
<1>3. queue' = <<>> \/ (Len(queue') = 1 /\ DOMAIN queue' = {1} /\ queue'[1] = c)
  BY <1>2
<1>4. Exact'
  BY <1>1, <1>2, <1>3 DEF Exact
<1>5. AddIsLast'
  BY <1>3 DEF AddIsLast
<1>6. Expected' /\ Received'
  BY <1>1, <1>2, <1>3 DEF Expected, Received, Commands
<1>7. OfTarget'
  BY Zenon, <1>1, <1>2, <1>3 DEF OfTarget, AboutTarget
<1> QED
  BY <1>2, <1>4, <1>5, <1>6, <1>7 DEF Wire, Commands

\* Nothing on the wire is to be read as something else.
Clean(rest) ==
    /\ \A k \in DOMAIN queue : queue[k].mine /\ queue[k].verb \notin {"ping", "list", "add", "remove"}
    /\ \A k \in DOMAIN rest : rest[k].kind \notin {"list", "id"}

\* What a command that is sent does to the queue.
LEMMA AskIs ==
    ASSUME queue \in Seq(Cmd), NEW rest, NEW v \in Commands, NEW i \in Nat, NEW n \in Networks \cup {Blank},
           Ask(rest, v, i, n)
    PROVE  /\ step' = v /\ replies' = rest /\ queue' \in Seq(Cmd)
           /\ \/ queue' = queue /\ ~ alive
              \/ /\ alive /\ queue' # <<>>
                 /\ DOMAIN queue' = 1 .. Len(queue) + 1 /\ Len(queue') = Len(queue) + 1
                 /\ queue'[Len(queue) + 1] = Command(v, i, n)
           /\ \A k \in DOMAIN queue : k \in DOMAIN queue' /\ queue'[k] = queue[k]
           /\ \A k \in DOMAIN queue' :
                  \/ k \in DOMAIN queue /\ queue'[k] = queue[k]
                  \/ k = Len(queue) + 1 /\ alive /\ queue'[k] = Command(v, i, n)
           /\ Command(v, i, n).verb = v /\ Command(v, i, n).id = i /\ Command(v, i, n).net = n
           /\ Command(v, i, n).mine
<1> DEFINE c == Command(v, i, n)
<1>1. c \in Cmd /\ c.verb = v /\ c.id = i /\ c.net = n /\ c.mine
  BY DEF Command, Cmd
<1>2. step' = v /\ replies' = rest /\ queue' = IF alive THEN Append(queue, c) ELSE queue
  BY Zenon DEF Ask
<1> HIDE DEF c
<1>3. CASE alive
  <2>1. queue' = Append(queue, c)
    BY <1>2, <1>3, Zenon
  <2>2. /\ queue' \in Seq(Cmd) /\ queue' # <<>> /\ DOMAIN queue' = 1 .. Len(queue) + 1
        /\ Len(queue') = Len(queue) + 1 /\ queue'[Len(queue) + 1] = c
        /\ \A k \in DOMAIN queue : k \in DOMAIN queue' /\ queue'[k] = queue[k]
        /\ \A k \in DOMAIN queue' : k \in DOMAIN queue \/ k = Len(queue) + 1
    BY <1>1, <2>1, AppendIs
  <2>3. \A k \in DOMAIN queue' : \/ k \in DOMAIN queue /\ queue'[k] = queue[k]
                                 \/ k = Len(queue) + 1 /\ alive /\ queue'[k] = c
    BY <1>3, <2>2
  <2> QED
    BY <1>1, <1>2, <1>3, <2>2, <2>3, Zenon DEF c
<1>4. CASE ~ alive
  BY <1>1, <1>2, <1>4, Zenon DEF c
<1> QED
  BY <1>3, <1>4, Zenon

\* A command that is sent behind others that have not been answered.
LEMMA WireLate ==
    ASSUME Session, NEW rest, NEW v \in Commands \ ({"ping"} \cup ExactSteps), NEW i \in Nat,
           NEW n \in Networks \cup {Blank}, Ask(rest, v, i, n), Clean(rest)
    PROVE  Wire'
<1>1. queue \in Seq(Cmd) /\ v \in Commands
  BY WireTypes, Zenon DEF Session
<1>2. /\ step' = v /\ replies' = rest
      /\ \A k \in DOMAIN queue' : \/ k \in DOMAIN queue /\ queue'[k] = queue[k]
                                  \/ k = Len(queue) + 1 /\ queue'[k].verb = v
  BY <1>1, AskIs
<1>3. v \notin {"ping", "list", "idle"} \cup ExactSteps \cup AboutTarget
  BY DEF Commands, ExactSteps, AboutTarget
<1>4. \A k \in DOMAIN queue' : queue'[k].verb \in {"add", "remove"} => queue'[k].verb = v
  BY <1>2, Zenon DEF Clean
<1>5. \A k \in DOMAIN queue' : queue'[k].verb \notin {"ping", "list"}
  BY <1>2, <1>3, Zenon DEF Clean
<1>6. AddIsLast'
  <2> SUFFICES ASSUME NEW k \in DOMAIN queue', NEW j \in DOMAIN queue', queue'[k].verb = "add", j > k
               PROVE  FALSE
    BY Zenon DEF AddIsLast
  <2>1. k = Len(queue) + 1
    BY <1>2, Zenon DEF Clean
  <2>2. j \in 1 .. Len(queue) \/ j = Len(queue) + 1
    BY <1>1, <1>2
  <2>3. Len(queue) \in Nat
    BY <1>1
  <2> QED
    BY <2>1, <2>2, <2>3
<1>7. Expected'
  <2>1. \A k \in DOMAIN queue : queue[k].mine /\ queue[k].verb = "ssid" => k = 1
    BY Zenon DEF Session, Wire, Expected
  <2>2. v # "ssid"
    BY <1>3 DEF AboutTarget
  <2>3. \A k \in DOMAIN queue' : queue'[k].mine /\ queue'[k].verb = "ssid" => k = 1
    BY <1>2, <2>1, <2>2, Zenon
  <2> QED
    BY <1>2, <1>3, <1>4, <1>5, <2>3, Zenon DEF Expected
<1>8. Received'
  BY <1>2, Zenon DEF Clean, Received
<1>9. OfTarget'
  BY <1>2, <1>3, Zenon DEF OfTarget
<1> QED
  BY <1>2, <1>3, <1>6, <1>7, <1>8, <1>9, Zenon DEF Wire

\* A step that talks to nobody.
LEMMA WireThen ==
    ASSUME Session, NEW rest, NEW s \in {"render", "record"}, Then(rest, s), Clean(rest)
    PROVE  Wire'
<1>1. step' = s /\ replies' = rest /\ queue' = queue
  BY Zenon DEF Then
<1>2. s \notin {"idle", "ping"} \cup ExactSteps \cup AboutTarget
  BY DEF ExactSteps, AboutTarget
<1>3. AddIsLast'
  BY <1>1, Zenon DEF AddIsLast, Clean
<1>4. Expected'
  BY <1>1, <1>2, Zenon DEF Expected, Clean, Session, Wire
<1>5. Received' /\ OfTarget'
  BY <1>1, <1>2, Zenon DEF Clean, Received, OfTarget
<1> QED
  BY <1>1, <1>2, <1>3, <1>4, <1>5, Zenon DEF Wire

\* After a deadline the list may still come, and is no answer to what follows.
LEMMA WireClear ==
    ASSUME Session, step \in {"list", "enable_listed"}, replies = <<>>, Ask(<<>>, "clear", 0, Blank)
    PROVE  Wire'
<1>1. queue \in Seq(Cmd) /\ "clear" \in Commands /\ 0 \in Nat /\ Blank \in Networks \cup {Blank}
  BY Zenon, WireTypes DEF Session, Commands
<1>2. /\ step' = "clear" /\ replies' = <<>>
      /\ \A k \in DOMAIN queue' : \/ k \in DOMAIN queue /\ queue'[k] = queue[k]
                                  \/ k = Len(queue) + 1 /\ queue'[k].verb = "clear"
  BY <1>1, AskIs
<1>3. \A k \in DOMAIN queue : k = 1 /\ queue[k].verb \in {"list", "enable_listed"}
  <2>1. Exact
    BY Zenon DEF Session, Wire, ExactSteps
  <2> QED
    BY <1>1, <2>1 DEF Exact
<1>4. \A k \in DOMAIN queue' : /\ queue'[k].verb \in {"list", "enable_listed", "clear"}
                               /\ queue'[k].verb = "list" => k = 1
  BY <1>2, <1>3, Zenon
<1>5. AddIsLast'
  BY <1>4, Zenon DEF AddIsLast
<1>6. Expected'
  BY <1>2, <1>4, Zenon DEF Expected
<1>7. Received' /\ OfTarget'
  BY <1>2 DEF Received, OfTarget, AboutTarget
<1> QED
  BY Zenon, <1>2, <1>5, <1>6, <1>7 DEF Wire, ExactSteps, AboutTarget

\* What an answer says of the command it answers.
LEMMA AnswerKind ==
    ASSUME Typed, NEW c, NEW a, Done(c, a) \/ Missing(c, a) \/ Refused(c, a)
    PROVE  (a.kind = "id" => c.verb = "add") /\ (a.kind = "list" => c.verb = "list")
<1>1. Reply("ok").kind = "ok" /\ Reply("fail").kind = "fail" /\ Reply("pong").kind = "pong"
  BY DEF Reply
<1> QED
  BY <1>1, AnswerIs, Zenon DEF Done, Missing, Refused

\* The supplicant answers the oldest command.
LEMMA WireServe == ASSUME Session, Serve PROVE Wire'
<1> DEFINE c == Head(queue)
<1>1. PICK a : /\ Done(c, a) \/ Missing(c, a) \/ Refused(c, a)
               /\ replies' = IF c.mine THEN Append(replies, a) ELSE replies
  BY ServeIs, Zenon DEF Session
<1>2. queue \in Seq(Cmd) /\ queue # <<>> /\ queue' = Tail(queue) /\ c \in Cmd
      /\ UNCHANGED <<desired, job, step, at, slot, want>>
  BY ServeIs, Zenon DEF Session
<1>3. /\ Len(queue') = Len(queue) - 1 /\ Len(queue) \in Nat \ {0} /\ c = queue[1] /\ 1 \in DOMAIN queue
      /\ \A k \in DOMAIN queue' : k \in Nat \ {0} /\ k + 1 \in DOMAIN queue /\ queue'[k] = queue[k + 1]
      /\ (Len(queue) = 1) <=> (queue' = <<>>)
  BY <1>2, TailIs
<1>4. AreReplies(replies) /\ Len(replies) \in Nat /\ DOMAIN replies = 1 .. Len(replies)
  BY WireTypes, Zenon DEF Session
<1>5. a.kind \in {"ok", "fail", "pong", "id", "list"} /\ IsReply(a)
  BY <1>1, AnswerTyped, Zenon DEF Session, Base
<1>6. /\ Len(Append(replies, a)) = Len(replies) + 1 /\ Append(replies, a)[Len(replies) + 1] = a
      /\ \A k \in DOMAIN Append(replies, a) : \/ k \in DOMAIN replies /\ Append(replies, a)[k] = replies[k]
                                              \/ k = Len(replies) + 1
  BY <1>4, <1>5, AppendTyped
<1>7. a.kind = "id" => c.verb = "add"
  BY <1>1, AnswerKind, Zenon DEF Session, Base
<1>8. a.kind = "list" => c.verb = "list"
  BY <1>1, AnswerKind, Zenon DEF Session, Base
<1> HIDE DEF c
<1>9. step \notin {"idle", "ping"} => \A k \in DOMAIN queue : queue[k].mine
  BY Zenon DEF Session, Barrier, EarlierCommandsAreDone
<1>10. step = "idle" => ~ c.mine
  BY <1>3, Zenon DEF Session, Wire, Expected
<1>11. step = "idle" => replies' = <<>>
  BY <1>1, <1>10, Zenon DEF Session, Wire
<1>12. step = "ping" => /\ Len(replies') <= 1 /\ (replies' # <<>> => queue' = <<>>)
  <2> SUFFICES ASSUME step = "ping" PROVE Len(replies') <= 1 /\ (replies' # <<>> => queue' = <<>>)
    OBVIOUS
  <2>1. replies = <<>> /\ Len(replies) = 0
    BY <1>2 DEF Session, Wire
  <2>2. CASE c.mine
    <3>1. Len(queue) = 1
      BY <1>3, <2>2, Zenon DEF Session, Barrier
    <3> QED
      BY <1>1, <1>3, <1>6, <2>1, <2>2, <3>1
  <2>3. CASE ~ c.mine
    BY <1>1, <2>1, <2>3
  <2> QED
    BY <2>2, <2>3, Zenon
<1>13. Exact => Exact' /\ queue' = <<>>
  <2> SUFFICES ASSUME Exact PROVE Exact' /\ queue' = <<>>
    OBVIOUS
  <2>1. Len(queue) = 1 /\ replies = <<>> /\ Len(replies) = 0
    BY <1>2 DEF Exact
  <2>2. queue' = <<>>
    BY <1>3, <2>1
  <2>3. Len(replies') <= 1
    BY <1>1, <1>6, <2>1
  <2> QED
    BY <2>2, <2>3, Zenon DEF Exact
<1>14. AddIsLast'
  <2> SUFFICES ASSUME NEW k \in DOMAIN queue', NEW j \in DOMAIN queue', queue'[k].verb = "add", j > k
               PROVE  queue'[j].verb = "ping"
    BY Zenon DEF AddIsLast
  <2>1. k + 1 \in DOMAIN queue /\ j + 1 \in DOMAIN queue /\ queue[k + 1].verb = "add" /\ queue'[j] = queue[j + 1]
    BY <1>3, Zenon
  <2>2. j + 1 > k + 1
    BY <1>3
  <2> QED
    BY <2>1, <2>2, Zenon DEF Session, Wire, AddIsLast
<1>15. Expected'
  <2> SUFFICES ASSUME NEW k \in DOMAIN queue', queue'[k].mine
               PROVE  /\ step # "idle"
                      /\ queue'[k].verb = "ping" => step = "ping"
                      /\ queue'[k].verb = "add" => step = "add"
                      /\ queue'[k].verb # "list"
                      /\ queue'[k].verb = "remove" => step = "remove"
                      /\ queue'[k].verb # "ssid"
    BY <1>2, Zenon DEF Expected
  <2>1. k + 1 \in DOMAIN queue /\ queue'[k] = queue[k + 1] /\ k + 1 # 1
    BY <1>3
  <2> QED
    BY <2>1, Zenon DEF Session, Wire, Expected
<1>16. Received'
  <2>1. \A k \in DOMAIN replies : replies[k].kind # "id"
    BY <1>2, Zenon DEF Session, Wire, Received
  <2>2. CASE replies' = replies
    BY <1>2, <2>1, <2>2, Zenon DEF Session, Wire, Received
  <2>3. CASE c.mine /\ replies' = Append(replies, a)
    <3>1. c.verb = "add" => step = "add" /\ queue' = <<>>
      <4> SUFFICES ASSUME c.verb = "add" PROVE step = "add" /\ queue' = <<>>
        OBVIOUS
      <4>1. step = "add"
        BY <1>3, <2>3, Zenon DEF Session, Wire, Expected
      <4>2. ASSUME NEW k \in DOMAIN queue, k > 1 PROVE FALSE
        <5>1. queue[k].verb = "ping"
          BY <1>3, <4>2, Zenon DEF Session, Wire, AddIsLast
        <5>2. queue[k].mine
          BY <1>9, <4>1, Zenon
        <5> QED
          BY <4>1, <5>1, <5>2, Zenon DEF Session, Wire, Expected
      <4>3. Len(queue) = 1
        BY <1>2, <1>3, <4>2
      <4> QED
        BY <1>3, <4>1, <4>3, Zenon
    <3>2. c.verb = "list" => step \in {"list", "clear"} /\ Len(replies) = 0
      BY <1>3, <2>3 DEF Session, Wire, Expected
    <3>3. ASSUME NEW k \in DOMAIN replies'
          PROVE  \/ k \in DOMAIN replies /\ replies'[k] = replies[k]
                 \/ k = Len(replies) + 1 /\ replies'[k] = a /\ k = Len(replies')
      BY <1>6, <2>3, <3>3
    <3>4. ASSUME NEW k \in DOMAIN replies', replies'[k].kind = "id"
          PROVE  step = "add" /\ k = Len(replies') /\ queue' = <<>>
      BY <1>7, <2>1, <3>1, <3>3, <3>4, Zenon
    <3>5. ASSUME NEW k \in DOMAIN replies', replies'[k].kind = "list"
          PROVE  step \in {"list", "clear"} /\ k = 1
      <4>1. CASE k \in DOMAIN replies /\ replies'[k] = replies[k]
        BY <3>5, <4>1, Zenon DEF Session, Wire, Received
      <4>2. CASE k = Len(replies) + 1 /\ replies'[k] = a
        BY <1>8, <3>2, <3>5, <4>2
      <4> QED
        BY <3>3, <4>1, <4>2, Zenon
    <3> QED
      BY <1>2, <3>4, <3>5, Zenon DEF Received
  <2> QED
    BY <1>1, <2>2, <2>3, Zenon
<1>17. OfTarget'
  <2>1. step \in AboutTarget => queue' = <<>>
    BY <1>13, Zenon DEF Session, Wire, ExactSteps
  <2> QED
    BY <1>2, <2>1, Zenon DEF OfTarget
<1> QED
  BY <1>2, <1>11, <1>12, <1>13, <1>14, <1>15, <1>16, <1>17, Zenon DEF Wire, Session

\* recv gave the oldest datagram, or the deadline passed.
Reading(r, rest) ==
    \/ replies # <<>> /\ r = replies[1] /\ rest = Tail(replies)
    \/ replies = <<>> /\ r = NoReply /\ rest = <<>>

\* What is left in the socket was there before, one place further back.
LEMMA RestIs ==
    ASSUME Base, NEW r, NEW rest, Reading(r, rest)
    PROVE  /\ \A k \in DOMAIN rest : k \in Nat \ {0} /\ k + 1 \in DOMAIN replies /\ rest[k] = replies[k + 1]
           /\ r = NoReply \/ (1 \in DOMAIN replies /\ r = replies[1] /\ replies # <<>>)
           /\ Len(replies) <= 1 => rest = <<>>
           /\ NoReply.kind = "none"
<1>1. NoReply.kind = "none" /\ DOMAIN <<>> = {}
  BY DEF NoReply, Reply
<1>2. CASE replies = <<>> /\ r = NoReply /\ rest = <<>>
  BY <1>1, <1>2
<1>3. CASE replies # <<>> /\ r = replies[1] /\ rest = Tail(replies)
  <2>1. PICK T : replies \in Seq(T)
    BY WireTypes, Zenon DEF IsSeq
  <2>2. /\ 1 \in DOMAIN replies /\ Len(replies) \in Nat \ {0} /\ (Len(replies) = 1 => Tail(replies) = <<>>)
        /\ \A k \in DOMAIN rest : k \in Nat \ {0} /\ k + 1 \in DOMAIN replies /\ rest[k] = replies[k + 1]
    BY <1>3, <2>1, TailIs
  <2>3. Len(replies) <= 1 => Len(replies) = 1
    <3>1. \A n \in Nat \ {0} : n <= 1 => n = 1
      OBVIOUS
    <3> QED
      BY <2>2, <3>1, Zenon
  <2> QED
    BY <1>1, <1>3, <2>2, <2>3, Zenon
<1> QED
  BY <1>2, <1>3, Zenon DEF Reading

\* An answer that was waited for is the last of everything.
LEMMA ExactRead ==
    ASSUME Session, NEW r, NEW rest, Reading(r, rest), Exact, r # NoReply
    PROVE  queue = <<>> /\ rest = <<>>
<1>1. replies # <<>> /\ Len(replies) <= 1
  BY RestIs, Zenon DEF Session, Exact
<1>2. queue = <<>>
  BY <1>1, Zenon DEF Exact
<1> QED
  BY <1>1, <1>2, RestIs, Zenon DEF Session

\* Most steps leave nothing that could be taken for something else.
LEMMA Settled ==
    ASSUME Session, NEW r, NEW rest, Reading(r, rest),
           step \notin {"idle", "ping", "list", "clear", "add", "remove"}
    PROVE  Clean(rest)
<1>1. \A k \in DOMAIN queue : queue[k].mine
  BY Zenon DEF Session, Barrier, EarlierCommandsAreDone
<1>2. \A k \in DOMAIN queue : queue[k].verb \notin {"ping", "list", "add", "remove"}
  BY <1>1, Zenon DEF Session, Wire, Expected
<1>0. \A k \in DOMAIN rest : k \in Nat \ {0} /\ k + 1 \in DOMAIN replies /\ rest[k] = replies[k + 1]
  <2>1. Base
    BY Zenon DEF Session
  <2> QED
    BY <2>1, RestIs, ZenonT(30)
<1>3. ASSUME NEW k \in DOMAIN rest PROVE rest[k].kind \notin {"list", "id"}
  <2>1. k + 1 \in DOMAIN replies /\ rest[k] = replies[k + 1]
    BY <1>0, <1>3, Zenon
  <2> QED
    BY <2>1, Zenon DEF Session, Wire, Received
<1> QED
  BY <1>1, <1>2, <1>3, Zenon DEF Clean

\* A list that comes late is not taken for the success of REMOVE_NETWORK all.
LEMMA ClearRead ==
    ASSUME Session, NEW r, NEW rest, Reading(r, rest), step = "clear", command_ok(r)
    PROVE  Clean(rest)
<1>1. 1 \in DOMAIN replies /\ r = replies[1] /\ replies # <<>>
  BY RestIs DEF Session, command_ok
<1>2. \A k \in DOMAIN queue : queue[k].mine
  BY Zenon DEF Session, Barrier, EarlierCommandsAreDone
<1>3. \A k \in DOMAIN queue : queue[k].verb \notin {"ping", "list", "add", "remove"}
  BY <1>1, <1>2, Zenon DEF Session, Wire, Expected
<1>4. ASSUME NEW k \in DOMAIN rest PROVE rest[k].kind \notin {"list", "id"}
  <2>1. k + 1 \in DOMAIN replies /\ rest[k] = replies[k + 1] /\ k + 1 # 1
    BY RestIs DEF Session
  <2> QED
    BY <2>1, Zenon DEF Session, Wire, Received
<1> QED
  BY <1>2, <1>3, <1>4, Zenon DEF Clean

\* The next network, or what follows the last.
LEMMA WireNext ==
    ASSUME Session, NEW rest, NEW k, NextNetwork(rest, k), Clean(rest)
    PROVE  Wire'
<1>1. "disable_all" \in Commands \ ({"ping"} \cup ExactSteps) /\ 0 \in Nat /\ Blank \in Networks \cup {Blank}
  BY DEF Commands, ExactSteps, AboutTarget
<1> QED
  BY <1>1, WireThen, WireLate, Zenon DEF NextNetwork

\* Nothing at all is clean.
LEMMA EmptyClean == queue = <<>> => Clean(<<>>)
  BY DEF Clean

\* One case for each handler.
LEMMA WireHandle ==
    ASSUME Session, NEW r, NEW rest, Reading(r, rest), IsReply(r), Handle(r, rest), desired' = desired
    PROVE  Wire'
<1>0. 0 \in Nat /\ Blank \in Networks \cup {Blank} /\ slot \in Nat /\ NoReply.kind = "none"
  BY Vars, RestIs, Zenon DEF Session, ClientTypes
<1>1. CASE Pinged(r, rest)
  <2>1. ASSUME r.kind = "pong", NEW v \in {"update_config", "list"}, Ask(rest, v, 0, Blank) PROVE Wire'
    <3>1. step = "ping" /\ r # NoReply
      BY <1>0, <1>1, <2>1, Zenon DEF Pinged
    <3>2. Len(replies) <= 1 /\ replies # <<>> /\ queue = <<>>
      BY <3>1, RestIs, Zenon DEF Session, Wire
    <3>3. rest = <<>>
      BY <3>2, RestIs, Zenon DEF Session
    <3>4. v \in Commands \ {"ping"} /\ v \notin AboutTarget /\ v \notin {"ssid", "key"}
      BY DEF Commands, AboutTarget
    <3> QED
      BY <1>0, <2>1, <3>2, <3>3, <3>4, WireFresh, Zenon
  <2> QED
    BY <1>1, <2>1, WireFree, Zenon DEF Pinged
<1>2. CASE observe_supplicants(r, rest) \/ Selected(r, rest) \/ Removed(r, rest)
  BY <1>2, WireFree, Zenon DEF observe_supplicants, Selected, Removed
<1>3. CASE wifi_connect(r, rest)
  <2>1. step = "list" /\ Exact
    BY <1>3, Zenon DEF wifi_connect, Session, Wire, ExactSteps
  <2>2. ask_ok(r) => queue = <<>> /\ rest = <<>>
    <3>1. ask_ok(r) => r # NoReply
      BY <1>0 DEF ask_ok
    <3> QED
      BY <2>1, <3>1, ExactRead
  <2>3. CASE ask_ok(r) /\ Ask(rest, "attach", 0, Blank)
    <3>1. "attach" \in Commands \ {"ping"} /\ "attach" \notin AboutTarget /\ "attach" \notin {"ssid", "key"}
      BY DEF Commands, AboutTarget
    <3> QED
      BY <1>0, <2>2, <2>3, <3>1, WireFresh, Zenon
  <2>4. CASE ask_ok(r) /\ Then(rest, "render")
    BY <2>2, <2>4, EmptyClean, WireThen, Zenon
  <2> QED
    BY <1>3, <2>3, <2>4, WireFree, Zenon DEF wifi_connect
<1>4. CASE Attached(r, rest)
  <2>1. step = "attach" /\ Ask(rest, "select", slot, Blank)
    BY <1>4, Zenon DEF Attached
  <2>2. Clean(rest)
    BY <2>1, Settled
  <2>3. "select" \in Commands \ ({"ping"} \cup ExactSteps)
    BY DEF Commands, ExactSteps, AboutTarget
  <2> QED
    BY <1>0, <2>1, <2>2, <2>3, WireLate, Zenon
<1>5. CASE update_config(r, rest)
  <2>1. ASSUME r # NoReply, NEW v \in {"list", "clear"}, Ask(rest, v, 0, Blank) PROVE Wire'
    <3>1. step = "update_config" /\ Exact
      BY <1>5, Zenon DEF update_config, Session, Wire, ExactSteps
    <3>2. queue = <<>> /\ rest = <<>>
      BY <2>1, <3>1, ExactRead
    <3>3. v \in Commands \ {"ping"} /\ v \notin AboutTarget /\ v \notin {"ssid", "key"}
      BY DEF Commands, AboutTarget
    <3> QED
      BY <1>0, <2>1, <3>2, <3>3, WireFresh, Zenon
  <2> QED
    BY <1>5, <2>1, WireFree, Zenon DEF update_config
<1>6. CASE enable_only(r, rest)
  <2>1. step \in {"list", "enable_listed"} /\ Exact
    BY <1>6, Zenon DEF enable_only, Session, Wire, ExactSteps
  <2>2. r # NoReply => queue = <<>> /\ rest = <<>>
    BY <2>1, ExactRead
  <2>3. ASSUME NEW i \in Nat, NEW v \in {"enable_listed", "clear"}, Ask(rest, v, i, Blank), r # NoReply
        PROVE  Wire'
    <3>1. v \in Commands \ {"ping"} /\ v \notin AboutTarget /\ v \notin {"ssid", "key"}
      BY DEF Commands, AboutTarget
    <3> QED
      BY <1>0, <2>2, <2>3, <3>1, WireFresh, Zenon
  <2>4. CASE Ask(rest, "clear", 0, Blank)
    <3>1. r = NoReply => replies = <<>> /\ rest = <<>>
      <4>1. CASE replies # <<>> /\ r = replies[1]
        <5>1. r.kind # "none"
          BY <4>1, WireTypes, RestIs DEF Session, AreReplies
        <5> QED
          BY <1>0, <5>1
      <4> QED
        BY <4>1, Zenon DEF Reading
    <3> QED
      BY <1>0, <2>1, <2>3, <2>4, <3>1, WireClear, Zenon
  <2>5. ASSUME NEW ids, ids \subseteq Nat, EnableNext(rest, ids), r # NoReply PROVE Wire'
    <3>1. CASE ids # {} /\ Ask(rest, "enable_listed", Min(ids), Blank)
      BY <2>3, <2>5, <3>1, MinIn, Zenon
    <3> QED
      BY <2>5, <3>1, WireFree, Zenon DEF EnableNext
  <2>6. disabled_in(parse_network_list(r)) \subseteq Nat
    <3>1. DOMAIN parse_network_list(r) \subseteq Nat
      BY DEF parse_network_list, IsReply, IsRows, NoSlots
    <3> QED
      BY <3>1, Zenon DEF disabled_in
  <2>7. todo \ {Min(todo)} \subseteq Nat
    BY Vars, Zenon DEF Session, ClientTypes
  <2>8. ask_ok(r) \/ command_ok(r) => r # NoReply
    BY <1>0 DEF ask_ok, command_ok
  <2> QED
    BY <1>6, <2>4, <2>5, <2>6, <2>7, <2>8, Zenon DEF enable_only
<1>7. CASE set_radio(r, rest)
  <2>1. CASE step \in DOMAIN Following /\ (command_ok(r) \/ step = "okc") /\ Ask(rest, Following[step], 0, Blank)
    <3>1. step \in {"clear", "lifetime", "preassoc", "okc"}
      BY <2>1, Zenon DEF Following
    <3>2. Following[step] \in Commands \ ({"ping"} \cup ExactSteps)
      BY <3>1 DEF Following, Commands, ExactSteps, AboutTarget
    <3>3. Clean(rest)
      BY Zenon, <2>1, <3>1, Settled, ClearRead
    <3> QED
      BY <1>0, <2>1, <3>2, <3>3, WireLate, Zenon
  <2>2. CASE step = "sae_pwe" /\ NextNetwork(rest, 1)
    BY Zenon, <2>2, Settled, WireNext
  <2> QED
    BY <1>7, <2>1, <2>2, WireFree, Zenon DEF set_radio
<1>8. CASE DisabledAll(r, rest)
  <2>1. Clean(rest)
    BY Zenon, <1>8, Settled DEF DisabledAll
  <2> QED
    BY <1>8, <2>1, WireFree, WireThen, Zenon DEF DisabledAll
<1>9. CASE new_network_id(r, rest)
  <2>1. CASE r.kind = "id" /\ Ask(rest, "ssid", r.id, Target) /\ slot' = r.id
    <3>1. step = "add" /\ UNCHANGED <<at, want>> /\ job' = job
      BY <1>9, <2>1, Zenon DEF new_network_id, Ask
    <3>2. r # NoReply
      BY <1>0, <2>1
    <3>3. Len(replies) = 1 /\ queue = <<>>
      <4>1. 1 \in DOMAIN replies /\ replies[1].kind = "id"
        BY <2>1, <3>2, RestIs, Zenon DEF Session
      <4>2. 1 = Len(replies) /\ queue = <<>>
        BY <4>1, Zenon DEF Session, Wire, Received
      <4> QED
        BY <4>2, Zenon
    <3>4. rest = <<>>
      BY <3>3, RestIs DEF Session
    <3>5. Target' = Target
      BY <3>1, Zenon DEF Target
    <3>6. Target \in Networks /\ r.id \in Nat
      BY <3>1, TargetIs, Zenon DEF Session, IsReply
    <3>7. "ssid" \in Commands \ {"ping"}
      BY DEF Commands
    <3> QED
      BY <2>1, <3>3, <3>4, <3>5, <3>6, <3>7, WireFresh, Zenon
  <2> QED
    BY <1>9, <2>1, WireFree, Zenon DEF new_network_id
<1>10. CASE send_setting(r, rest)
  <2>1. step \in {"ssid", "key"} /\ UNCHANGED <<at, slot, want>> /\ Exact /\ Target \in Networks
    BY <1>10, TargetIs, Zenon DEF send_setting, Session, Wire, ExactSteps, AboutTarget
  <2>2. CASE Ask(rest, "remove", slot, Blank)
    <3>1. "remove" \in Commands \ ({"ping"} \cup ExactSteps)
      BY DEF Commands, ExactSteps, AboutTarget
    <3>2. Clean(rest)
      BY <2>1, Settled
    <3> QED
      BY <1>0, <2>2, <3>1, <3>2, WireLate, Zenon
  <2>3. ASSUME command_ok(r), NEW v \in {"key", "enable", "disable"}, NEW n \in Networks \cup {Blank},
               Ask(rest, v, slot, n), v = "key" => n = Target
        PROVE  Wire'
    <3>1. r # NoReply
      BY <1>0, <2>3 DEF command_ok
    <3>2. queue = <<>> /\ rest = <<>>
      BY <2>1, <3>1, ExactRead
    <3>3. job' = job /\ Target' = Target
      BY <2>1, <2>3, Zenon DEF Target, Ask
    <3>4. v \in Commands \ {"ping"} /\ (v \in {"ssid", "key"} => v = "key")
      BY DEF Commands
    <3> QED
      BY <1>0, <2>1, <2>3, <3>2, <3>3, <3>4, WireFresh, Zenon
  <2> QED
    BY <1>0, <1>10, <2>1, <2>2, <2>3, Zenon DEF send_setting
<1>11. CASE add_network(r, rest)
  <2>1. step \in {"enable", "disable"} /\ Exact
    BY <1>11, Zenon DEF add_network, Session, Wire, ExactSteps, AboutTarget
  <2>2. command_ok(r) => queue = <<>> /\ rest = <<>>
    <3>1. command_ok(r) => r # NoReply
      BY <1>0 DEF command_ok
    <3> QED
      BY <2>1, <3>1, ExactRead
  <2>3. CASE command_ok(r) /\ NextNetwork(rest, at + 1)
    BY <2>2, <2>3, EmptyClean, WireNext, Zenon
  <2>4. CASE command_ok(r) /\ Ask(rest, "attach", 0, Blank)
    <3>1. "attach" \in Commands \ {"ping"} /\ "attach" \notin AboutTarget /\ "attach" \notin {"ssid", "key"}
      BY DEF Commands, AboutTarget
    <3> QED
      BY <1>0, <2>2, <2>4, <3>1, WireFresh, Zenon
  <2> QED
    BY <1>11, <2>3, <2>4, WireFree, Zenon DEF add_network
<1> QED
  BY <1>1, <1>2, <1>3, <1>4, <1>5, <1>6, <1>7, <1>8, <1>9, <1>10, <1>11, Zenon DEF Handle

\* At the start there is no connection.
LEMMA WireInit == Init => Wire
  BY DEF Init, Wire, Expected, AddIsLast, Received, OfTarget, ExactSteps, AboutTarget

\* Every step keeps the wire: one case per action.
LEMMA WireStep == Session /\ [Next]_vars => Wire'
<1> SUFFICES ASSUME Session, [Next]_vars PROVE Wire'
  OBVIOUS
<1>0. Base /\ Wire /\ Base'
  BY BaseStep, Zenon DEF Session
<1>1. CASE Look \/ start_supplicant \/ set_profiles \/ \E n \in Networks : Connect(n)
  BY <1>1, WireOpen, Zenon DEF Look, start_supplicant, set_profiles, Connect
<1>2. CASE Receive
  <2>1. replies # <<>> /\ Handle(Head(replies), Tail(replies)) /\ desired' = desired
    BY <1>2, Zenon DEF Receive
  <2>2. PICK T : replies \in Seq(T)
    BY WireTypes, Zenon DEF Session, IsSeq
  <2>3. Head(replies) = replies[1] /\ 1 \in DOMAIN replies
    BY <2>1, <2>2, TailIs, Zenon
  <2>4. IsReply(Head(replies)) /\ Reading(Head(replies), Tail(replies))
    BY <2>1, <2>3, WireTypes, Zenon DEF Session, AreReplies, Reading
  <2> QED
    BY <2>1, <2>4, WireHandle, Zenon
<1>3. CASE TimeOut
  <2>1. IsReply(NoReply)
    BY DEF NoReply, Reply, IsReply, IsRows, NoSlots
  <2> QED
    BY <1>3, <2>1, WireHandle, Zenon DEF TimeOut, Reading
<1>4. CASE Render
  <2>1. step = "render" /\ (client_free \/ Ask(replies, "add", 0, Blank))
    BY <1>4, Zenon DEF Render
  <2>2. "add" \in Commands \ ({"ping"} \cup ExactSteps) /\ 0 \in Nat /\ Blank \in Networks \cup {Blank}
    BY DEF Commands, ExactSteps, AboutTarget
  <2>3. \A k \in DOMAIN queue : queue[k].mine /\ queue[k].verb \notin {"ping", "list", "add", "remove"}
    BY <2>1, Zenon DEF Session, Barrier, EarlierCommandsAreDone, Wire, Expected
  <2>4. Clean(replies)
    BY <2>1, <2>3, Zenon DEF Session, Wire, Received, Clean
  <2> QED
    BY <2>1, <2>2, <2>4, WireFree, WireLate, Zenon
<1>5. CASE record_networks \/ Crash
  BY <1>5, WireFree, Zenon DEF record_networks, Crash
<1>6. CASE Serve
  BY <1>6, WireServe, Zenon
<1>7. ASSUME NEW d \in Documents, Reload(d) PROVE Wire'
  <2>1. UNCHANGED <<queue, replies, step>> /\ step = "idle"
    BY <1>7, Zenon DEF Reload, wire, client
  <2>2. OfTarget'
    BY <2>1 DEF OfTarget, AboutTarget
  <2>3. step \notin ExactSteps
    BY <2>1 DEF ExactSteps, AboutTarget
  <2> QED
    BY <1>0, <2>1, <2>2, <2>3, Zenon DEF Wire, Expected, AddIsLast, Received
<1>8. CASE Intrude
  <2>1. UNCHANGED <<replies, step, job, desired, want, at, slot>> /\ (queue' = <<>> \/ queue' = queue)
    BY <1>8, Zenon DEF Intrude, client
  <2>2. CASE queue' = queue
    BY <1>0, <2>1, <2>2, Zenon DEF Wire, Exact, Expected, AddIsLast, Received, OfTarget, Target
  <2>3. CASE queue' = <<>>
    <3>1. DOMAIN queue' = {}
      BY <2>3
    <3>2. Expected' /\ AddIsLast' /\ OfTarget'
      BY <2>3, <3>1, Zenon DEF Expected, AddIsLast, OfTarget
    <3> QED
      BY <1>0, <2>1, <2>3, <3>2, Zenon DEF Wire, Exact, Received
  <2> QED
    BY <2>1, <2>2, <2>3, Zenon
<1>9. CASE \/ UNCHANGED vars \/ LookMisses \/ restrict
           \/ Beside \/ \E n \in Networks : JoinBeside(n)
  <2>1. UNCHANGED <<queue, replies, step, job, desired, want, at, slot>>
    BY <1>9, Zenon DEF vars, LookMisses, restrict, Beside, JoinBeside, wire, client
  <2> QED
    BY <1>0, <2>1, Zenon DEF Wire, Exact, Expected, AddIsLast, Received, OfTarget, Target
<1> QED
  BY <1>1, <1>2, <1>3, <1>4, <1>5, <1>6, <1>7, <1>8, <1>9, Zenon DEF Next, Loop, Client

\* The session invariant holds at the start,
LEMMA SessionInit == Init => Session
  BY BaseInit, BarrierInit, WireInit, Zenon DEF Session

\* and after every step.
LEMMA SessionStep == Session /\ [Next]_vars => Session'
  BY BaseStep, BarrierStep, WireStep, Zenon DEF Session

\* What the execution of a command may do to a slot, as far as settings go.
LEMMA Effects ==
    ASSUME Typed, NEW c \in Cmd, NEW a, Done(c, a) \/ Missing(c, a) \/ Refused(c, a)
    PROVE  /\ \A i \in DOMAIN slots' :
                  \/ /\ i \in DOMAIN slots
                     /\ slots[i].whole => slots'[i].whole
                     /\ slots'[i].net = slots[i].net \/ (c.verb = "ssid" /\ c.id = i)
                     /\ slots'[i].disabled \/ ~ slots[i].disabled \/ (c.verb \in Enabling /\ c.id = i)
                     /\ ~ (c.verb = "remove" /\ c.id = i)
                  \/ /\ c.verb = "add" /\ i \notin DOMAIN slots
                     /\ slots'[i].disabled /\ slots'[i].net = Blank
           /\ c.verb = "key" /\ Done(c, a) /\ c.id \in DOMAIN slots' => slots'[c.id].whole
           /\ c.verb = "list" => slots' = slots
<1>1. \A i \in DOMAIN slots : slots[i] \in Slot
  BY Zenon DEF Typed, TypeOK, IsSlots
<1>2. c.verb \in Changing \cup Passive \cup {"clear", "add", "remove"}
  BY DEF Cmd, Commands, Changing, Passive, Radio
<1>3. CASE Missing(c, a) \/ Refused(c, a)
  <2>1. slots' = slots
    BY <1>3, Zenon DEF Missing, Refused
  <2>2. CASE Done(c, a)
    <3>1. a = Answers(c) /\ a = Reply("fail")
      BY <1>3, <2>2, Zenon DEF Missing, Refused, Done
    <3>2. Reply("fail").kind = "fail" /\ Answers(c).kind # "fail"
      BY AnswerIs DEF Reply
    <3> QED
      BY <3>1, <3>2, Zenon
  <2>3. CASE ~ Done(c, a)
    <3>1. c.verb = "remove" => c.id \notin DOMAIN slots
      BY <1>3 DEF Missing, Refused, Refusable
    <3> QED
      BY <1>1, <2>1, <2>3, <3>1, Zenon
  <2> QED
    BY <2>2, <2>3, Zenon
<1>4. CASE Done(c, a) /\ c.verb \in Changing
  <2>1. Present(c) /\ slots' = Does(c) /\ c.verb \notin {"add", "remove", "list"}
    BY <1>4 DEF Done, Changing
  <2>2. DOMAIN slots' = DOMAIN slots /\ \A i \in DOMAIN slots : ChangedBy(c, i)
    BY <1>4, <2>1, Changes, Zenon
  <2>3. \A i \in DOMAIN slots' :
            /\ i \in DOMAIN slots
            /\ slots[i].whole => slots'[i].whole
            /\ slots'[i].net = slots[i].net \/ (c.verb = "ssid" /\ c.id = i)
            /\ slots'[i].disabled \/ ~ slots[i].disabled \/ (c.verb \in Enabling /\ c.id = i)
            /\ c.verb = "key" /\ i = c.id => slots'[i].whole
    BY Zenon, <2>1, <2>2 DEF ChangedBy
  <2> QED
    BY <1>4, <2>1, <2>3, Zenon
<1>5. CASE Done(c, a) /\ c.verb \in Passive
  <2>1. slots' = slots
    BY <1>5, Others, Zenon DEF Done
  <2>2. c.verb \notin {"add", "remove", "key"}
    BY <1>5 DEF Passive, Radio
  <2> QED
    BY <1>1, <2>1, <2>2, Zenon
<1>6. CASE Done(c, a) /\ c.verb = "clear"
  <2>1. slots' = NoSlots
    BY <1>6, Others, Zenon DEF Done
  <2>2. DOMAIN NoSlots = {}
    BY DEF NoSlots
  <2> QED
    BY <1>6, <2>1, <2>2, Zenon
<1>7. CASE Done(c, a) /\ c.verb = "remove"
  <2>1. DOMAIN slots' = DOMAIN slots \ {c.id} /\ \A i \in DOMAIN slots' : slots'[i] = slots[i]
    BY <1>7, Others DEF Done
  <2> QED
    BY <1>1, <1>7, <2>1, Zenon
<1>8. CASE Done(c, a) /\ c.verb = "add"
  <2> DEFINE new == [net |-> Blank, whole |-> FALSE, disabled |-> TRUE]
  <2>1. slots' = [i \in DOMAIN slots \cup {NewId} |-> IF i = NewId THEN new ELSE slots[i]]
    BY <1>8, Others, Zenon DEF Done
  <2>2. new.net = Blank /\ new.disabled
    OBVIOUS
  <2>3. NewId \notin DOMAIN slots
    BY NewIdIsNew
  <2> HIDE DEF new
  <2>4. \A i \in DOMAIN slots' : \/ i \notin DOMAIN slots /\ slots'[i] = new
                                 \/ i \in DOMAIN slots /\ slots'[i] = slots[i]
    BY <2>1, <2>3, Zenon
  <2> QED
    BY <1>1, <1>8, <2>2, <2>4, Zenon
<1> QED
  BY <1>2, <1>3, <1>4, <1>5, <1>6, <1>7, <1>8, Zenon

\* No REMOVE_NETWORK all is in the queue, and no number of a slot unread.
NoClear == \A k \in DOMAIN queue : queue[k].verb # "clear"
NoNumber == \A k \in DOMAIN replies : replies[k].kind # "id"

\* As the document wants it.
Right ==
    /\ Holds
    /\ \A i \in DOMAIN slots :
           slots[i].disabled <=> ~ (desired.joins /\ slots[i].net \in desired.auto)

\* The supplicant holds finitely many networks.
LEMMA FiniteSlots == ASSUME Typed PROVE IsFiniteSet(DOMAIN slots)
<1>1. DOMAIN slots \subseteq Nat
  BY Zenon DEF Typed, TypeOK, IsSlots
<1>2. PICK b \in Nat : \A i \in DOMAIN slots : i <= b
  BY Zenon DEF Typed, Finite
<1>3. DOMAIN slots \subseteq 0 .. b
  BY <1>1, <1>2
<1>4. IsFiniteSet(0 .. b)
  BY FS_Interval
<1> QED
  BY <1>3, <1>4, FS_Subset, Zenon

\* An empty supplicant is right for a document without networks, and only that.
LEMMA Vacant ==
    ASSUME Typed, desired.nets = <<>>
    PROVE  /\ DOMAIN slots = {} => Right
           /\ Holds => DOMAIN slots = {}
<1>1. IsFiniteSet(DOMAIN slots)
  BY FiniteSlots
<1>2. Cardinality({}) = 0 /\ (Cardinality(DOMAIN slots) = 0 <=> DOMAIN slots = {})
  BY <1>1, FS_EmptySet, Zenon
<1>3. Len(desired.nets) = 0 /\ DOMAIN desired.nets = {}
  OBVIOUS
<1>4. Range(desired.nets) = {}
  BY <1>3, Zenon DEF Range
<1>5. DOMAIN slots = {} => {slots[i].net : i \in DOMAIN slots} = {}
  BY Zenon
<1> QED
  BY <1>2, <1>3, <1>4, <1>5, Zenon DEF Holds, Right

\* What the answers say.
LEMMA AnswersIs ==
    ASSUME Typed, NEW c \in Cmd, NEW a, Done(c, a) \/ Missing(c, a) \/ Refused(c, a)
    PROVE  /\ a.kind \in {"ok", "fail", "pong", "id", "list"} /\ IsReply(a)
           /\ a.kind = "id" => c.verb = "add" /\ Done(c, a) /\ a.id = NewId
           /\ c.verb = "add" /\ a.kind # "id" => slots' = slots
           /\ a.kind = "ok" => Done(c, a)
<1>1. /\ c.verb = "ping" => Answers(c) = Reply("pong")
      /\ c.verb = "list" => Answers(c).kind = "list" /\ Answers(c).rows = Rows
      /\ c.verb = "add" => Answers(c).kind = "id" /\ Answers(c).id = NewId
      /\ c.verb \notin {"ping", "list", "add"} => Answers(c) = Reply("ok")
  BY AnswerIs, Zenon
<1>2. Reply("fail").kind = "fail" /\ Reply("ok").kind = "ok" /\ Reply("pong").kind = "pong"
  BY DEF Reply
<1>3. Done(c, a) \/ (a = Reply("fail") /\ slots' = slots)
  BY Zenon DEF Missing, Refused
<1>4. Done(c, a) => a = Answers(c)
  BY Zenon DEF Done
<1>5. a.kind = "id" => c.verb = "add" /\ Done(c, a) /\ a.id = NewId
  BY <1>1, <1>2, <1>3, <1>4
<1>6. c.verb = "add" /\ a.kind # "id" => slots' = slots
  BY <1>1, <1>3, <1>4, Zenon
<1>7. a.kind = "ok" => Done(c, a)
  BY <1>2, <1>3
<1> QED
  BY <1>5, <1>6, <1>7, AnswerTyped, Zenon

\* What serving does to the wire once the connection is answered.
Served(c, a) ==
    /\ c = queue[1] /\ c \in Cmd
    /\ Done(c, a) \/ Missing(c, a) \/ Refused(c, a)
    /\ c.verb = "add" => step = "add"
    /\ NoNumber
    /\ NoClear' => NoClear \/ c.verb = "clear"
    /\ NoClear => NoClear'
    /\ Exact => /\ Exact' /\ queue' = <<>> /\ c.verb = step /\ replies' = <<a>>
                /\ replies' # <<>> /\ replies'[1] = a
    /\ \A k \in DOMAIN replies' : replies'[k] = a \/ replies'[k].kind # "id"
    /\ \E k \in DOMAIN replies' : replies'[k] = a
    /\ UNCHANGED <<desired, job, step, at, slot, want, intruded>>

\* Past the PING the supplicant serves in that way, and only so.
LEMMA ServedIs ==
    ASSUME Session, Serve, step \notin {"idle", "ping"}
    PROVE  queue # <<>> /\ \E a : Served(queue[1], a)
<1> DEFINE c == queue[1]
<1>1. /\ queue # <<>> /\ queue \in Seq(Cmd) /\ Head(queue) \in Cmd /\ queue' = Tail(queue)
      /\ UNCHANGED <<desired, job, step, at, slot, want, intruded>>
      /\ \E a : /\ Done(Head(queue), a) \/ Missing(Head(queue), a) \/ Refused(Head(queue), a)
                /\ replies' = IF Head(queue).mine THEN Append(replies, a) ELSE replies
  BY ServeIs, Zenon DEF Session
<1>2. /\ Head(queue) = c /\ 1 \in DOMAIN queue
      /\ \A k \in DOMAIN queue' : k \in Nat \ {0} /\ k + 1 \in DOMAIN queue /\ queue'[k] = queue[k + 1]
      /\ Len(queue') = Len(queue) - 1 /\ Len(queue) \in Nat \ {0} /\ DOMAIN queue = 1 .. Len(queue)
      /\ (Len(queue) = 1) <=> (queue' = <<>>)
  BY <1>1, TailIs
<1>3. c.mine /\ c \in Cmd
  BY <1>1, <1>2, Zenon DEF Session, Barrier, EarlierCommandsAreDone
<1>4. PICK a : /\ Done(c, a) \/ Missing(c, a) \/ Refused(c, a)
               /\ replies' = Append(replies, a)
  BY <1>1, <1>2, <1>3, Zenon
<1>5. a.kind \in {"ok", "fail", "pong", "id", "list"} /\ IsReply(a)
  BY <1>3, <1>4, AnswersIs, Zenon DEF Session, Base
<1>6. AreReplies(replies)
  BY WireTypes, Zenon DEF Session
<1>7. /\ Len(replies) \in Nat /\ DOMAIN replies = 1 .. Len(replies)
      /\ Len(replies') = Len(replies) + 1
      /\ DOMAIN replies' = 1 .. Len(replies) + 1
      /\ replies'[Len(replies) + 1] = a
      /\ \A k \in DOMAIN replies : replies'[k] = replies[k]
      /\ replies' # <<>>
  <2>1. /\ Len(Append(replies, a)) = Len(replies) + 1
        /\ Len(replies) \in Nat /\ DOMAIN replies = 1 .. Len(replies)
        /\ DOMAIN Append(replies, a) = 1 .. Len(replies) + 1
        /\ Append(replies, a)[Len(replies) + 1] = a
        /\ \A k \in DOMAIN replies : Append(replies, a)[k] = replies[k]
        /\ Append(replies, a) # <<>>
    BY <1>5, <1>6, AppendTyped
  <2> QED
    BY <1>4, <2>1, Zenon
<1>8. \A k \in DOMAIN replies' : k = Len(replies) + 1 \/ k \in DOMAIN replies
  BY <1>7
<1>9. NoNumber
  BY <1>1, Zenon DEF NoNumber, Session, Wire, Received
<1>10. c.verb = "add" => step = "add"
  BY <1>2, <1>3, Zenon DEF Session, Wire, Expected
<1>11. NoClear' => NoClear \/ c.verb = "clear"
  <2> SUFFICES ASSUME NoClear', NEW k \in DOMAIN queue, queue[k].verb = "clear" PROVE c.verb = "clear"
    BY Zenon DEF NoClear
  <2>1. CASE k = 1
    BY <2>1, Zenon
  <2>2. CASE k # 1
    <3>1. k - 1 \in DOMAIN queue' /\ (k - 1) + 1 = k
      BY <1>1, <1>2, <2>2
    <3>2. queue'[k - 1] = queue[k]
      BY Zenon, <1>2, <3>1
    <3> QED
      BY <3>1, <3>2, ZenonT(30) DEF NoClear
  <2> QED
    BY <2>1, <2>2, Zenon
<1>12. Len(replies) + 1 \in DOMAIN replies' /\ (NoClear => NoClear')
  <2>1. NoClear => NoClear'
    BY <1>2, Zenon DEF NoClear
  <2> QED
    BY <1>7, <2>1
<1>13. Exact => /\ Exact' /\ queue' = <<>> /\ c.verb = step /\ replies' = <<a>>
                /\ replies' # <<>> /\ replies'[1] = a
  <2> SUFFICES ASSUME Exact PROVE /\ Exact' /\ queue' = <<>> /\ c.verb = step /\ replies' = <<a>>
                                  /\ replies'[1] = a
    BY <1>7, Zenon
  <2>1. Len(queue) = 1 /\ replies = <<>> /\ c.verb = step
    BY <1>1, Zenon DEF Exact
  <2>2. Len(replies) = 0 /\ Append(<<>>, a) = <<a>> /\ <<a>>[1] = a
    BY <2>1
  <2>3. replies' = <<a>> /\ replies'[1] = a
    BY <1>4, <2>1, <2>2, Zenon
  <2>4. Len(replies') <= 1
    BY <1>7, <2>2
  <2>5. queue' = <<>>
    BY <1>2, <2>1, Zenon
  <2> QED
    BY <2>1, <2>3, <2>4, <2>5, Zenon DEF Exact
<1>14. \A k \in DOMAIN replies' : replies'[k] = a \/ replies'[k].kind # "id"
  BY <1>7, <1>8, <1>9, Zenon DEF NoNumber
<1>15. \E k \in DOMAIN replies' : replies'[k] = a
  BY <1>7, <1>12, Zenon
<1> HIDE DEF c
<1>16. Served(c, a)
  BY <1>1, <1>3, <1>4, <1>9, <1>10, <1>11, <1>12, <1>13, <1>14, <1>15, Zenon DEF Served, c
<1> QED
  BY <1>1, <1>16, Zenon DEF c
====
