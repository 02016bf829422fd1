-------------------------- MODULE SupplicantWhole ----------------------------
(***************************************************************************)
(* What set_profiles never does.  No network is enabled before it has all  *)
(* of its settings, unless a process died or a second connection came in   *)
(* between since the networks were last all removed: a client that gives a *)
(* slot up half set has its REMOVE_NETWORK in the queue, before anything   *)
(* that could enable the slot.  And a set that is held is left alone.      *)
(***************************************************************************)
EXTENDS SupplicantProofs

(* No slot is enabled without all of its settings.                         *)

Good(i) == i \in DOMAIN slots => slots[i].whole

\* A slot has a REMOVE_NETWORK coming behind the command at position k.
Removing(q, i, k) == \E j \in DOMAIN q : j > k /\ q[j].verb = "remove" /\ q[j].id = i

Covered == \A i \in DOMAIN slots : slots[i].disabled \/ slots[i].whole

\* A slot with a name and without its settings is being given them, or removed.
Underway ==
    \A i \in DOMAIN slots :
        \/ slots[i].whole \/ slots[i].net = Blank
        \/ step \in {"ssid", "key"} /\ slot = i
        \/ Removing(queue, i, 0)

\* So is one that is about to get a name.
Naming ==
    \A k \in DOMAIN queue : queue[k].verb = "ssid" =>
        (step = "ssid" /\ slot = queue[k].id) \/ Removing(queue, queue[k].id, k)

\* What is about to be enabled has its settings, from the moment at which the
\* client decided to.
Deciding ==
    /\ \A k \in DOMAIN queue : queue[k].verb \in Enabling => Good(queue[k].id)
    /\ step = "enable_listed" => \A i \in todo : Good(i)
    /\ step \in {"enable", "disable", "attach"} => Good(slot)
    /\ step = "key" /\ replies # <<>> => (replies[1].kind = "ok" => Good(slot))

\* A row with a name stands for a slot with all of its settings.
ListGood(r) == r.kind = "list" => \A i \in DOMAIN r.rows : r.rows[i].name # Blank => Good(i)
Listing == \A k \in DOMAIN replies : ListGood(replies[k])

Whole == Covered /\ Underway /\ Naming /\ Deciding /\ Listing

WholeInv == ~ doubt => Whole

\* Opening or closing a connection while no network is being set.
LEMMA WholeMove ==
    ASSUME Session, Whole, step \notin {"ssid", "key"}, slots' = slots, replies' = <<>>,
           step' \in {"idle", "ping"},
           queue' \in {Orphaned, Append(Orphaned, Command("ping", 0, Blank))}
    PROVE  Whole'
<1> DEFINE c == Command("ping", 0, Blank)
<1>1. queue \in Seq(Cmd) /\ c \in Cmd /\ c.verb = "ping"
  BY WireTypes DEF Session, Command, Cmd, Commands
<1> HIDE DEF c
<1>2. /\ \A k \in DOMAIN queue : /\ k \in DOMAIN queue' /\ queue'[k].verb = queue[k].verb
                                 /\ queue'[k].id = queue[k].id
      /\ \A k \in DOMAIN queue' : k \in DOMAIN queue \/ queue'[k].verb = "ping"
  <2>1. CASE queue' = Orphaned
    BY <1>1, <2>1, OrphanedIs, Zenon
  <2>2. CASE queue' = Append(Orphaned, c)
    <3>1. Orphaned \in Seq(Cmd) /\ DOMAIN Orphaned = DOMAIN queue
      BY <1>1, OrphanedIs, Zenon
    <3>2. /\ \A k \in DOMAIN Orphaned : k \in DOMAIN queue' /\ queue'[k] = Orphaned[k]
          /\ \A k \in DOMAIN queue' : k \in DOMAIN Orphaned \/ k = Len(Orphaned) + 1
          /\ queue'[Len(Orphaned) + 1] = c
      BY <1>1, <2>2, <3>1, AppendIs
    <3> QED
      BY <1>1, <3>1, <3>2, OrphanedIs
  <2> QED
    BY <2>1, <2>2, Zenon DEF c
<1>3. \A i, k : Removing(queue, i, k) => Removing(queue', i, k)
  BY <1>2, Zenon DEF Removing
<1>4. Covered'
  BY Zenon DEF Whole, Covered
<1>5. Underway'
  BY <1>3, Zenon DEF Whole, Underway
<1>6. Naming'
  BY <1>2, <1>3 DEF Whole, Naming
<1>7. Deciding'
  <2>1. \A k \in DOMAIN queue' : queue'[k].verb \in Enabling => Good(queue[k].id) /\ k \in DOMAIN queue
    BY <1>2 DEF Whole, Deciding, Enabling
  <2> QED
    BY <1>2, <2>1 DEF Deciding, Good
<1>8. Listing'
  BY DEF Listing
<1> QED
  BY <1>4, <1>5, <1>6, <1>7, <1>8, Zenon DEF Whole

\* Sending a command.
LEMMA WholeAsk ==
    ASSUME Session, Whole, NEW rest, NEW v \in Commands, NEW i \in Nat, NEW n \in Networks \cup {Blank},
           Ask(rest, v, i, n), slots' = slots,
           \A j \in DOMAIN slots : \/ slots[j].whole \/ slots[j].net = Blank
                                   \/ v \in {"ssid", "key"} /\ slot' = j
                                   \/ v = "remove" /\ i = j
                                   \/ Removing(queue, j, 0),
           \A k \in DOMAIN queue : queue[k].verb = "ssid" =>
               (v = "remove" /\ i = queue[k].id) \/ Removing(queue, queue[k].id, k),
           v = "ssid" => slot' = i,
           v \in Enabling => Good(i),
           v = "enable_listed" => \A j \in todo' : Good(j),
           v \in {"enable", "disable", "attach"} => Good(slot'),
           v = "key" => rest = <<>>,
           \A k \in DOMAIN rest : ListGood(rest[k])
    PROVE  Whole'
<1> DEFINE c == Command(v, i, n)
<1>1. queue \in Seq(Cmd) /\ Len(queue) \in Nat /\ DOMAIN queue = 1 .. Len(queue)
  BY WireTypes, Zenon DEF Session
<1>2. /\ step' = v /\ replies' = rest /\ c.verb = v /\ c.id = i
      /\ (queue' = queue /\ ~ alive) \/ (Len(queue) + 1 \in DOMAIN queue' /\ queue'[Len(queue) + 1] = c)
      /\ \A k \in DOMAIN queue : k \in DOMAIN queue' /\ queue'[k] = queue[k]
      /\ \A k \in DOMAIN queue' : (k \in DOMAIN queue /\ queue'[k] = queue[k]) \/ queue'[k] = c
  BY <1>1, AskIs
<1> HIDE DEF c
<1>3. \A j, k : Removing(queue, j, k) => Removing(queue', j, k)
  BY <1>2, Zenon DEF Removing
<1>4. alive /\ v = "remove" => \A k \in DOMAIN queue \cup {0} : Removing(queue', i, k)
  <2> SUFFICES ASSUME alive, v = "remove", NEW k \in DOMAIN queue \cup {0} PROVE Removing(queue', i, k)
    BY Zenon
  <2>1. Len(queue) + 1 > k
    BY <1>1
  <2>2. /\ Len(queue) + 1 \in DOMAIN queue'
        /\ queue'[Len(queue) + 1].verb = "remove" /\ queue'[Len(queue) + 1].id = i
    BY <1>2, Zenon
  <2> QED
    BY <2>1, <2>2, Zenon DEF Removing
<1>5. ~ alive => DOMAIN slots = {} /\ DOMAIN queue = {}
  BY DEF Session, Base, Death, NoSlots
<1>6. Covered'
  BY Zenon DEF Whole, Covered
<1>7. Underway'
  BY <1>2, <1>3, <1>4, <1>5, Zenon DEF Underway
<1>8. Naming'
  <2> SUFFICES ASSUME NEW k \in DOMAIN queue', queue'[k].verb = "ssid"
               PROVE  (v = "ssid" /\ slot' = queue'[k].id) \/ Removing(queue', queue'[k].id, k)
    BY <1>2, Zenon DEF Naming
  <2>1. CASE queue'[k] = c
    BY <1>2, <2>1, Zenon
  <2>2. CASE k \in DOMAIN queue /\ queue'[k] = queue[k]
    BY <1>3, <1>4, <1>5, <2>2, Zenon
  <2> QED
    BY <1>2, <2>1, <2>2, Zenon
<1>9. \A j : Good(j)' <=> Good(j)
  BY Zenon DEF Good
<1>10. Deciding'
  <2>1. \A k \in DOMAIN queue' : queue'[k].verb \in Enabling => (queue'[k].id \in DOMAIN slots => slots[queue'[k].id].whole)
    BY <1>2, Zenon DEF Whole, Deciding, Good
  <2> QED
    BY <1>2, <2>1 DEF Deciding, Good
<1>11. Listing'
  BY <1>2, Zenon DEF Listing, ListGood, Good
<1> QED
  BY <1>6, <1>7, <1>8, <1>10, <1>11, Zenon DEF Whole

\* Going on without a command.
LEMMA WholeThen ==
    ASSUME Session, Whole, step \notin {"ssid", "key"}, NEW rest, NEW s \in {"render", "record"},
           Then(rest, s), slots' = slots, \A k \in DOMAIN rest : ListGood(rest[k])
    PROVE  Whole'
<1>1. step' = s /\ replies' = rest /\ queue' = queue
  BY Zenon DEF Then
<1>2. s \notin {"ssid", "key", "enable", "disable", "attach", "enable_listed"}
  OBVIOUS
<1>3. Covered' /\ Underway' /\ Naming'
  BY <1>1, <1>2, Zenon DEF Whole, Covered, Underway, Naming
<1>4. Deciding'
  BY <1>1, <1>2, Zenon DEF Whole, Deciding, Good
<1>5. Listing'
  BY <1>1, Zenon DEF Listing, ListGood, Good
<1> QED
  BY <1>3, <1>4, <1>5, Zenon DEF Whole

\* Good(i) after a step.
GoodNext(i) == i \in DOMAIN slots' => slots'[i].whole

\* A command that is executed keeps what is known to be whole, unless it adds.
LEMMA GoodKept ==
    ASSUME Typed, NEW c \in Cmd, NEW a, Done(c, a) \/ Missing(c, a) \/ Refused(c, a)
    PROVE  /\ c.verb # "add" => \A i : Good(i) => GoodNext(i)
           /\ \A i \in DOMAIN slots : Good(i) => GoodNext(i)
<1>1. \A i \in DOMAIN slots' : \/ i \in DOMAIN slots /\ (slots[i].whole => slots'[i].whole)
                               \/ c.verb = "add" /\ i \notin DOMAIN slots
  BY Effects, Zenon
<1> QED
  BY <1>1, Zenon DEF Good, GoodNext

\* The supplicant executes the oldest command.
LEMMA WholeServe == ASSUME Session, Whole, Serve PROVE Whole'
<1> DEFINE c == queue[1]
<1>1. /\ queue # <<>> /\ queue \in Seq(Cmd) /\ Head(queue) \in Cmd /\ queue' = Tail(queue)
      /\ step' = step /\ slot' = slot /\ todo' = todo
      /\ \E a : /\ Done(Head(queue), a) \/ Missing(Head(queue), a) \/ Refused(Head(queue), a)
                /\ replies' = IF Head(queue).mine THEN Append(replies, a) ELSE replies
  BY ServeIs, Zenon DEF Session
<1>2. /\ Head(queue) = c /\ 1 \in DOMAIN queue
      /\ \A k \in DOMAIN queue' : k \in Nat \ {0} /\ k + 1 \in DOMAIN queue /\ queue'[k] = queue[k + 1]
      /\ Len(queue') = Len(queue) - 1 /\ Len(queue) \in Nat \ {0} /\ DOMAIN queue = 1 .. Len(queue)
      /\ queue' \in Seq(Cmd)
  BY <1>1, TailIs
<1>3. PICK a : /\ Done(c, a) \/ Missing(c, a) \/ Refused(c, a)
               /\ replies' = IF c.mine THEN Append(replies, a) ELSE replies
  BY <1>1, <1>2, Zenon
<1>4. Typed /\ c \in Cmd
  BY <1>1, <1>2, Zenon DEF Session, Base
<1>5. /\ \A i \in DOMAIN slots' :
             \/ /\ i \in DOMAIN slots
                /\ slots[i].whole => slots'[i].whole
                /\ slots'[i].net = slots[i].net \/ (c.verb = "ssid" /\ c.id = i)
                /\ slots'[i].disabled \/ ~ slots[i].disabled \/ (c.verb \in Enabling /\ c.id = i)
                /\ ~ (c.verb = "remove" /\ c.id = i)
             \/ /\ c.verb = "add" /\ i \notin DOMAIN slots
                /\ slots'[i].disabled /\ slots'[i].net = Blank
      /\ c.verb = "key" /\ Done(c, a) /\ c.id \in DOMAIN slots' => slots'[c.id].whole
      /\ c.verb = "list" => slots' = slots
  BY <1>3, <1>4, Effects, Zenon
<1>6. /\ c.verb # "add" => \A i : Good(i) => GoodNext(i)
      /\ \A i \in DOMAIN slots : Good(i) => GoodNext(i)
  BY <1>3, <1>4, GoodKept, Zenon
<1>7. \A k \in DOMAIN queue : step \notin {"idle", "ping"} => queue[k].mine
  BY Zenon DEF Session, Barrier, EarlierCommandsAreDone
<1>8. c.verb = "add" => step \in {"idle", "ping", "add"}
  BY <1>2, <1>7, Zenon DEF Session, Wire, Expected
<1>9. \A i : \A k \in Nat : Removing(queue, i, k + 1) => Removing(queue', i, k)
  <2> SUFFICES ASSUME NEW i, NEW k \in Nat, Removing(queue, i, k + 1) PROVE Removing(queue', i, k)
    BY Zenon
  <2>1. PICK j \in DOMAIN queue : j > k + 1 /\ queue[j].verb = "remove" /\ queue[j].id = i
    BY Zenon DEF Removing
  <2>2. j - 1 \in DOMAIN queue' /\ j - 1 > k /\ (j - 1) + 1 = j
    BY <1>2, <2>1
  <2>3. queue'[j - 1] = queue[j]
    BY <1>2, <2>2
  <2> QED
    BY <2>1, <2>2, <2>3, Zenon DEF Removing
<1>10. Covered'
  BY <1>2, <1>5, Zenon DEF Whole, Covered, Deciding, Good
<1>11. Underway'
  <2> SUFFICES ASSUME NEW i \in DOMAIN slots'
               PROVE  \/ slots'[i].whole \/ slots'[i].net = Blank
                      \/ step \in {"ssid", "key"} /\ slot = i
                      \/ Removing(queue', i, 0)
    BY <1>1, Zenon DEF Underway
  <2>1. Removing(queue, i, 0) => Removing(queue, i, 1) \/ (c.verb = "remove" /\ c.id = i)
    <3> SUFFICES ASSUME Removing(queue, i, 0), ~ (c.verb = "remove" /\ c.id = i)
                 PROVE  Removing(queue, i, 1)
      BY Zenon
    <3>1. PICK j \in DOMAIN queue : j > 0 /\ queue[j].verb = "remove" /\ queue[j].id = i
      BY Zenon DEF Removing
    <3>2. j # 1
      BY <3>1, Zenon
    <3>3. j > 1
      BY <1>2, <3>1, <3>2
    <3> QED
      BY <3>1, <3>3, Zenon DEF Removing
  <2>2. Removing(queue, i, 1) => Removing(queue', i, 0)
    <3>1. 0 \in Nat /\ 0 + 1 = 1
      OBVIOUS
    <3>2. Removing(queue, i, 0 + 1) => Removing(queue', i, 0)
      BY <1>9, <3>1, Zenon
    <3> QED
      BY <3>1, <3>2
  <2>3. CASE i \notin DOMAIN slots
    BY <1>5, <2>3, Zenon
  <2>4. CASE i \in DOMAIN slots
    <3>1. c.verb = "ssid" /\ c.id = i => (step = "ssid" /\ slot = i) \/ Removing(queue, i, 1)
      BY <1>2, Zenon DEF Whole, Naming
    <3>2. \/ slots[i].whole \/ slots[i].net = Blank
          \/ step \in {"ssid", "key"} /\ slot = i
          \/ Removing(queue, i, 0)
      BY <2>4, Zenon DEF Whole, Underway
    <3>3. /\ slots[i].whole => slots'[i].whole
          /\ slots'[i].net = slots[i].net \/ (c.verb = "ssid" /\ c.id = i)
          /\ ~ (c.verb = "remove" /\ c.id = i)
      BY <1>5, <2>4, Zenon
    <3> QED
      BY <2>1, <2>2, <3>1, <3>2, <3>3, Zenon
  <2> QED
    BY <2>3, <2>4, Zenon
<1>12. Naming'
  <2> SUFFICES ASSUME NEW k \in DOMAIN queue', queue'[k].verb = "ssid"
               PROVE  (step = "ssid" /\ slot = queue'[k].id) \/ Removing(queue', queue'[k].id, k)
    BY <1>1, Zenon DEF Naming
  <2>1. k \in Nat /\ k + 1 \in DOMAIN queue /\ queue'[k] = queue[k + 1]
    BY <1>2
  <2>2. (step = "ssid" /\ slot = queue[k + 1].id) \/ Removing(queue, queue[k + 1].id, k + 1)
    BY <2>1, Zenon DEF Whole, Naming
  <2> QED
    BY <1>9, <2>1, <2>2, Zenon
<1>13. AreReplies(replies) /\ IsSeq(replies)
  BY WireTypes, Zenon DEF Session
<1>14. /\ a.kind \in {"ok", "fail", "pong", "id", "list"} /\ IsReply(a)
       /\ a.kind = "list" => c.verb = "list" /\ a.rows = Rows
       /\ a.kind = "ok" => Done(c, a)
  <2>1. /\ c.verb = "ping" => Answers(c) = Reply("pong")
        /\ c.verb = "list" => Answers(c).kind = "list" /\ Answers(c).rows = Rows
        /\ c.verb = "add" => Answers(c).kind = "id"
        /\ c.verb \notin {"ping", "list", "add"} => Answers(c) = Reply("ok")
    BY <1>4, AnswerIs, Zenon
  <2>2. Reply("fail").kind = "fail" /\ Reply("ok").kind = "ok" /\ Reply("pong").kind = "pong"
    BY DEF Reply
  <2>3. a = Answers(c) \/ a = Reply("fail")
    BY <1>3, Zenon DEF Done, Missing, Refused
  <2>4. a.kind = "list" => c.verb = "list" /\ a.rows = Rows
    BY <2>1, <2>2, <2>3
  <2>5. a.kind = "ok" => Done(c, a)
    BY <1>3, <2>2 DEF Missing, Refused
  <2> QED
    BY <1>3, <1>4, <2>4, <2>5, AnswerTyped, Zenon
<1>15. Deciding'
  <2>1. \A k \in DOMAIN queue' : queue'[k].verb \in Enabling => GoodNext(queue'[k].id)
    <3> SUFFICES ASSUME NEW k \in DOMAIN queue', queue'[k].verb \in Enabling PROVE GoodNext(queue'[k].id)
      BY Zenon
    <3>1. k + 1 \in DOMAIN queue /\ k + 1 > 1 /\ queue'[k] = queue[k + 1]
      BY <1>2
    <3>2. Good(queue[k + 1].id)
      BY <3>1, Zenon DEF Whole, Deciding
    <3>3. c.verb = "add" => queue[k + 1].verb = "ping"
      BY <1>2, <3>1, Zenon DEF Session, Wire, AddIsLast
    <3>4. c.verb # "add"
      BY <3>1, <3>3 DEF Enabling
    <3> QED
      BY <1>6, <3>1, <3>2, <3>4, Zenon
  <2>2. step = "enable_listed" => \A i \in todo : GoodNext(i)
    BY <1>6, <1>8, Zenon DEF Whole, Deciding
  <2>3. step \in {"enable", "disable", "attach"} => GoodNext(slot)
    BY <1>6, <1>8, Zenon DEF Whole, Deciding
  <2>4. step = "key" => (Len(queue) = 1 /\ replies = <<>> /\ c.verb = "key" /\ c.id = slot)
    <3>1. step = "key" => Exact /\ step \in AboutTarget
      BY DEF Session, Wire, ExactSteps, AboutTarget
    <3> QED
      BY <1>1, <3>1, Zenon DEF Exact, Session, Wire, OfTarget
  <2>5. step = "key" /\ replies' # <<>> => (replies'[1].kind = "ok" => GoodNext(slot))
    <3> SUFFICES ASSUME step = "key", replies' # <<>>, replies'[1].kind = "ok" PROVE GoodNext(slot)
      BY Zenon
    <3>1. replies = <<>> /\ c.verb = "key" /\ c.id = slot
      BY <2>4, Zenon
    <3>2. replies' = Append(replies, a)
      BY <1>3, <3>1, Zenon
    <3>3. Append(<<>>, a)[1] = a
      OBVIOUS
    <3>4. a.kind = "ok"
      BY <3>1, <3>2, <3>3, Zenon
    <3> QED
      BY <1>5, <1>14, <3>1, <3>4, Zenon DEF GoodNext
  <2> QED
    BY <1>1, <2>1, <2>2, <2>3, <2>5, Zenon DEF Deciding, Good, GoodNext
<1>16. Listing'
  <2> SUFFICES ASSUME NEW k \in DOMAIN replies', replies'[k].kind = "list",
                      NEW i \in DOMAIN replies'[k].rows, replies'[k].rows[i].name # Blank
               PROVE  GoodNext(i)
    BY Zenon DEF Listing, ListGood, Good, GoodNext
  <2>1. CASE k \in DOMAIN replies /\ replies'[k] = replies[k]
    <3>1. Good(i)
      BY <2>1, Zenon DEF Whole, Listing, ListGood
    <3>2. step \in {"list", "clear"}
      BY <2>1, Zenon DEF Session, Wire, Received
    <3>3. c.verb # "add"
      BY <1>8, <3>2
    <3> QED
      BY <1>6, <3>1, <3>3, Zenon
  <2>2. CASE replies'[k] = a /\ c.mine
    <3>1. c.verb = "list" /\ a.rows = Rows /\ slots' = slots
      BY <1>5, <1>14, <2>2, Zenon
    <3>2. step \in {"list", "clear"}
      BY <1>2, <2>2, <3>1, Zenon DEF Session, Wire, Expected
    <3>3. i \in DOMAIN slots /\ Name(slots[i].net) # Blank
      <4>1. i \in DOMAIN Rows /\ Rows[i].name # Blank
        BY <2>2, <3>1, Zenon
      <4> QED
        BY <4>1 DEF Rows
    <3>4. slots[i].net # Blank
      BY <3>3, Zenon DEF Name
    <3>5. ~ Removing(queue, i, 0)
      <4>1. \A j \in DOMAIN queue : queue[j].verb # "remove"
        BY <1>7, <3>2, Zenon DEF Session, Wire, Expected
      <4> QED
        BY <4>1, Zenon DEF Removing
    <3>6. slots[i].whole
      BY <3>2, <3>3, <3>4, <3>5, Zenon DEF Whole, Underway
    <3> QED
      BY <3>1, <3>6, Zenon DEF GoodNext
  <2>3. (k \in DOMAIN replies /\ replies'[k] = replies[k]) \/ (replies'[k] = a /\ c.mine)
    <3>1. CASE ~ c.mine
      BY <1>3, <3>1, Zenon
    <3>2. CASE c.mine
      <4>1. replies' = Append(replies, a)
        BY <1>3, <3>2, Zenon
      <4>2. /\ Len(replies) \in Nat /\ DOMAIN replies = 1 .. Len(replies)
            /\ DOMAIN Append(replies, a) = 1 .. Len(replies) + 1
            /\ Append(replies, a)[Len(replies) + 1] = a
            /\ \A j \in DOMAIN replies : Append(replies, a)[j] = replies[j]
        BY <1>13, <1>14, AppendTyped
      <4>3. k \in DOMAIN replies \/ k = Len(replies) + 1
        BY <4>1, <4>2
      <4> QED
        BY <3>2, <4>1, <4>2, <4>3, Zenon
    <3> QED
      BY <3>1, <3>2, Zenon
  <2> QED
    BY <2>1, <2>2, <2>3, Zenon
<1> QED
  BY <1>10, <1>11, <1>12, <1>15, <1>16, Zenon DEF Whole

\* Sending a command while no network is being set.
LEMMA WholePlain ==
    ASSUME Session, Whole, step \notin {"ssid", "key"}, NEW rest, NEW v \in Commands \ {"key"},
           NEW i \in Nat, NEW n \in Networks \cup {Blank}, Ask(rest, v, i, n), slots' = slots,
           v = "ssid" => slot' = i,
           v \in Enabling => Good(i),
           v = "enable_listed" => \A j \in todo' : Good(j),
           v \in {"enable", "disable", "attach"} => Good(slot'),
           \A k \in DOMAIN rest : ListGood(rest[k])
    PROVE  Whole'
<1>1. \A j \in DOMAIN slots : slots[j].whole \/ slots[j].net = Blank \/ Removing(queue, j, 0)
  BY Zenon DEF Whole, Underway
<1>2. \A k \in DOMAIN queue : queue[k].verb = "ssid" => Removing(queue, queue[k].id, k)
  BY Zenon DEF Whole, Naming
<1>3. v \in Commands /\ v # "key"
  OBVIOUS
<1> QED
  BY <1>1, <1>2, <1>3, WholeAsk, Zenon

\* Closing a connection while no network is being set.
LEMMA WholeFree ==
    ASSUME Session, Whole, step \notin {"ssid", "key"}, slots' = slots, client_free
    PROVE  Whole'
<1>1. replies' = <<>> /\ step' \in {"idle", "ping"}
      /\ queue' \in {Orphaned, Append(Orphaned, Command("ping", 0, Blank))}
  BY Zenon DEF client_free
<1> QED
  BY <1>1, WholeMove, Zenon

\* What was read, and what is left, tells the truth about the named slots.
LEMMA ReadGood ==
    ASSUME Session, Whole, NEW r, NEW rest, Reading(r, rest)
    PROVE  ListGood(r) /\ \A k \in DOMAIN rest : ListGood(rest[k])
<1>1. /\ \A k \in DOMAIN rest : k + 1 \in DOMAIN replies /\ rest[k] = replies[k + 1]
      /\ r = NoReply \/ (1 \in DOMAIN replies /\ r = replies[1])
      /\ NoReply.kind = "none"
  BY RestIs DEF Session
<1>2. \A k \in DOMAIN rest : ListGood(rest[k])
  <2> TAKE k \in DOMAIN rest
  <2>1. ListGood(replies[k + 1])
    BY <1>1, Zenon DEF Whole, Listing
  <2> QED
    BY <1>1, <2>1, Zenon
<1>3. NoReply.kind # "list"
  BY <1>1
<1>4. ListGood(r)
  BY <1>1, <1>3, Zenon DEF Whole, Listing, ListGood
<1> QED
  BY <1>2, <1>4, Zenon

\* A name that a row shows belongs to a whole slot.
LEMMA RowsGood ==
    ASSUME NEW r, ListGood(r)
    PROVE  \A i \in DOMAIN parse_network_list(r) : parse_network_list(r)[i].name # Blank => Good(i)
<1>1. DOMAIN NoSlots = {}
  BY DEF NoSlots
<1> QED
  BY <1>1, Zenon DEF parse_network_list, ListGood

\* What enable_only enables has a name.
LEMMA ListedGood ==
    ASSUME Base, NEW r, ListGood(r)
    PROVE  \A i \in disabled_in(parse_network_list(r)) : Good(i)
<1> DEFINE rows == parse_network_list(r)
<1> SUFFICES ASSUME NEW i \in disabled_in(rows) PROVE Good(i)
  BY Zenon
<1>1. i \in DOMAIN rows /\ network_for(rows[i].name) \in desired.auto
  BY Zenon DEF disabled_in
<1>2. \A k \in DOMAIN desired.nets : Ssid[desired.nets[k]] # Blank
  BY Document, SupplicantAssumption DEF Base
<1>3. network_for(Blank) = Blank
  BY <1>2, Zenon DEF network_for
<1>4. Blank \notin desired.auto
  BY Document, SupplicantAssumption, Zenon DEF Base
<1>5. rows[i].name # Blank
  BY <1>1, <1>3, <1>4, Zenon
<1> QED
  BY <1>1, <1>5, RowsGood, Zenon

\* The next network, or what follows the last.
LEMMA WholeNext ==
    ASSUME Session, Whole, step \notin {"ssid", "key"}, slots' = slots, NEW rest, NEW k,
           NextNetwork(rest, k), \A j \in DOMAIN rest : ListGood(rest[j])
    PROVE  Whole'
<1>1. CASE Then(rest, "render") \/ Then(rest, "record")
  BY <1>1, WholeThen, Zenon
<1>2. CASE Ask(rest, "disable_all", 0, Blank)
  <2>1. "disable_all" \in Commands \ {"key"} /\ "disable_all" \notin Enabling \cup {"ssid", "disable", "attach"}
        /\ 0 \in Nat /\ Blank \in Networks \cup {Blank}
    BY DEF Commands, Enabling
  <2> QED
    BY <1>2, <2>1, WholePlain, Zenon DEF Enabling
<1> QED
  BY <1>1, <1>2, Zenon DEF NextNetwork

\* A setting was taken, or the network is removed.
LEMMA WholeSetting ==
    ASSUME Session, Whole, NEW r, NEW rest, Reading(r, rest), send_setting(r, rest), slots' = slots
    PROVE  Whole'
<1>1. step \in {"ssid", "key"} /\ slot' = slot /\ Exact /\ Target \in Networks
  BY TargetIs, Zenon DEF send_setting, Session, Wire, ExactSteps, AboutTarget
<1>2. slot \in Nat /\ Blank \in Networks \cup {Blank} /\ NoReply.kind = "none"
  BY Vars, RestIs, Zenon DEF Session, ClientTypes
<1>3. \A k \in DOMAIN rest : ListGood(rest[k])
  BY ReadGood, Zenon
<1>4. \A j \in DOMAIN slots : \/ slots[j].whole \/ slots[j].net = Blank \/ slot = j
                              \/ Removing(queue, j, 0)
  BY Zenon DEF Whole, Underway
<1>5. \A k \in DOMAIN queue : queue[k].verb = "ssid" => slot = queue[k].id \/ Removing(queue, queue[k].id, k)
  BY Zenon DEF Whole, Naming
<1>6. CASE Ask(rest, "remove", slot, Blank)
  <2>1. "remove" \in Commands /\ "remove" \notin Enabling \cup {"ssid", "key", "disable", "attach"}
    BY DEF Commands, Enabling
  <2>2. "remove" # "enable_listed" /\ "remove" # "enable"
    OBVIOUS
  <2> QED
    BY <1>2, <1>3, <1>4, <1>5, <1>6, <2>1, <2>2, WholeAsk, Zenon
<1>7. command_ok(r) => queue = <<>> /\ rest = <<>> /\ replies # <<>> /\ r = replies[1]
  <2>1. command_ok(r) => r # NoReply
    BY <1>2 DEF command_ok
  <2>2. command_ok(r) => queue = <<>> /\ rest = <<>>
    BY <1>1, <2>1, ExactRead
  <2> QED
    BY <2>1, <2>2, Zenon DEF Reading
<1>8. DOMAIN <<>> = {}
  OBVIOUS
<1>9. CASE command_ok(r) /\ Ask(rest, "key", slot, Target)
  <2>1. "key" \in Commands /\ "key" \notin Enabling \cup {"ssid", "disable", "attach", "enable", "enable_listed"}
    BY DEF Commands, Enabling
  <2>2. DOMAIN queue = {} /\ rest = <<>>
    BY <1>7, <1>8, <1>9, Zenon
  <2> QED
    BY <1>1, <1>2, <1>3, <1>4, <1>9, <2>1, <2>2, WholeAsk, Zenon
<1>10. ASSUME command_ok(r), step = "key", NEW v \in {"enable", "disable"}, Ask(rest, v, slot, Blank)
       PROVE  Whole'
  <2>1. v \in Commands /\ v \notin {"ssid", "key", "enable_listed", "attach"}
    BY DEF Commands
  <2>2. DOMAIN queue = {}
    BY <1>7, <1>8, <1>10, Zenon
  <2>3. Good(slot)
    BY <1>7, <1>10, Zenon DEF Whole, Deciding, command_ok
  <2>4. \A j \in DOMAIN slots : slots[j].whole \/ slots[j].net = Blank \/ Removing(queue, j, 0)
    BY <1>4, <2>3, Zenon DEF Good
  <2> QED
    BY <1>1, <1>2, <1>3, <1>10, <2>1, <2>2, <2>3, <2>4, WholeAsk, Zenon
<1> QED
  BY <1>6, <1>9, <1>10, Zenon DEF send_setting

\* One case for each handler.
LEMMA WholeHandle ==
    ASSUME Session, Whole, NEW r, NEW rest, Reading(r, rest), IsReply(r), Handle(r, rest), slots' = slots
    PROVE  Whole'
<1>0. /\ 0 \in Nat /\ Blank \in Networks \cup {Blank} /\ slot \in Nat /\ todo \subseteq Nat
      /\ ListGood(r) /\ \A k \in DOMAIN rest : ListGood(rest[k])
  BY Vars, ReadGood, Zenon DEF Session, ClientTypes
<1>a. ASSUME NEW v \in {"update_config", "list", "clear", "disable_all"} \cup Radio, Ask(rest, v, 0, Blank),
             step \notin {"ssid", "key"}
      PROVE  Whole'
  <2>1. v \in Commands \ {"key"} /\ v \notin Enabling \cup {"ssid", "enable", "enable_listed", "disable", "attach"}
    BY <1>a DEF Radio, Commands, Enabling
  <2> QED
    BY <1>0, <1>a, <2>1, WholePlain, Zenon
<1>b. ASSUME NEW v \in {"attach", "select"}, NEW i \in Nat, Ask(rest, v, i, Blank), Good(slot'),
             v = "select" => i = slot', step \notin {"ssid", "key"}
      PROVE  Whole'
  <2>1. v \in Commands \ {"key"} /\ v \notin {"ssid", "enable_listed"} /\ (v \in Enabling => v = "select")
    BY <1>b DEF Commands, Enabling
  <2> QED
    BY <1>0, <1>b, <2>1, WholePlain, Zenon
<1>1. CASE Pinged(r, rest)
  BY <1>1, <1>a, WholeFree, Zenon DEF Pinged
<1>2. CASE observe_supplicants(r, rest) \/ Selected(r, rest) \/ Removed(r, rest)
  BY <1>2, WholeFree, Zenon DEF observe_supplicants, Selected, Removed
<1>3. CASE wifi_connect(r, rest)
  <2> DEFINE same == {i \in DOMAIN parse_network_list(r) :
                         parse_network_list(r)[i].name = Ssid[want]}
  <2>1. step = "list" /\ job = "connect"
    BY <1>3, Zenon DEF wifi_connect
  <2>2. Ssid[want] # Blank
    BY <2>1, Vars, SupplicantAssumption DEF Session, Base, Flow, ClientTypes
  <2>3. \A i \in same : Good(i)
    BY <1>0, <2>2, RowsGood, Zenon
  <2>4. same \subseteq Nat
    BY DEF parse_network_list, IsReply, IsRows, NoSlots
  <2> HIDE DEF same
  <2>5. CASE same # {} /\ Ask(rest, "attach", 0, Blank) /\ slot' = Min(same)
    <3>1. Min(same) \in same
      BY <2>4, <2>5, MinIn, Zenon
    <3> QED
      BY <1>0, <1>b, <2>1, <2>3, <2>5, <3>1, Zenon
  <2>6. CASE Then(rest, "render")
    BY <1>0, <2>1, <2>6, WholeThen, Zenon
  <2> QED
    BY <1>3, <2>1, <2>5, <2>6, WholeFree, Zenon DEF wifi_connect, same
<1>4. CASE Attached(r, rest)
  <2>1. step = "attach" /\ Ask(rest, "select", slot, Blank) /\ slot' = slot
    BY <1>4, Zenon DEF Attached
  <2>2. Good(slot)
    BY <2>1, Zenon DEF Whole, Deciding
  <2> QED
    BY <1>0, <1>b, <2>1, <2>2, Zenon
<1>5. CASE update_config(r, rest)
  BY <1>5, <1>a, WholeFree, Zenon DEF update_config
<1>6. CASE enable_only(r, rest)
  <2>1. step \in {"list", "enable_listed"} /\ step \notin {"ssid", "key"}
    BY <1>6 DEF enable_only
  <2>2. ASSUME NEW ids, ids \subseteq Nat, EnableNext(rest, ids), \A j \in ids : Good(j) PROVE Whole'
    <3>1. CASE ids # {} /\ Ask(rest, "enable_listed", Min(ids), Blank) /\ todo' = ids
      <4>1. Min(ids) \in ids
        BY <2>2, <3>1, MinIn, Zenon
      <4>2. "enable_listed" \in Commands \ {"key"}
        BY DEF Commands
      <4> QED
        BY <1>0, <2>1, <2>2, <3>1, <4>1, <4>2, WholePlain, Zenon
    <3> QED
      BY <2>1, <2>2, <3>1, WholeFree, Zenon DEF EnableNext
  <2>3. disabled_in(parse_network_list(r)) \subseteq Nat
    <3>1. DOMAIN parse_network_list(r) \subseteq Nat
      BY DEF parse_network_list, IsReply, IsRows, NoSlots
    <3> QED
      BY <3>1, Zenon DEF disabled_in
  <2>4. \A j \in disabled_in(parse_network_list(r)) : Good(j)
    BY <1>0, ListedGood, Zenon DEF Session
  <2>5. todo \ {Min(todo)} \subseteq Nat /\ (step = "enable_listed" => \A j \in todo \ {Min(todo)} : Good(j))
    BY <1>0, Zenon DEF Whole, Deciding
  <2> QED
    BY <1>6, <1>a, <2>1, <2>2, <2>3, <2>4, <2>5, Zenon DEF enable_only
<1>7. CASE set_radio(r, rest)
  <2>1. CASE step \in DOMAIN Following /\ Ask(rest, Following[step], 0, Blank)
    <3>1. step \in {"clear", "lifetime", "preassoc", "okc"}
      BY <2>1 DEF Following
    <3>2. Following[step] \in Radio /\ step \notin {"ssid", "key"}
      BY <3>1 DEF Following, Radio
    <3> QED
      BY <1>a, <2>1, <3>2, Zenon
  <2>2. CASE step = "sae_pwe" /\ NextNetwork(rest, 1)
    BY <1>0, <2>2, WholeNext, Zenon
  <2>3. CASE step \in DOMAIN Following /\ client_free
    <3>1. step \notin {"ssid", "key"}
      BY <2>3 DEF Following
    <3> QED
      BY <2>3, <3>1, WholeFree, Zenon
  <2> QED
    BY <1>7, <2>1, <2>2, <2>3, Zenon DEF set_radio
<1>8. CASE DisabledAll(r, rest)
  BY <1>0, <1>8, WholeFree, WholeThen, Zenon DEF DisabledAll
<1>9. CASE new_network_id(r, rest)
  <2>1. CASE Ask(rest, "ssid", r.id, Target) /\ slot' = r.id
    <3>1. step = "add"
      BY <1>9, Zenon DEF new_network_id
    <3>2. Target \in Networks \cup {Blank} /\ r.id \in Nat
      BY <3>1, TargetIs, Zenon DEF Session, IsReply
    <3>3. "ssid" \in Commands \ {"key"} /\ "ssid" \notin Enabling \cup {"enable", "enable_listed", "disable", "attach"}
      BY DEF Commands, Enabling
    <3> QED
      BY <1>0, <2>1, <3>1, <3>2, <3>3, WholePlain, Zenon
  <2> QED
    BY <1>9, <2>1, WholeFree, Zenon DEF new_network_id
<1>10. CASE send_setting(r, rest)
  BY <1>10, WholeSetting, Zenon
<1>11. CASE add_network(r, rest)
  <2>1. step \in {"enable", "disable"} /\ slot' = slot
    BY <1>11, Zenon DEF add_network
  <2>2. Good(slot)
    BY <2>1, Zenon DEF Whole, Deciding
  <2>3. CASE NextNetwork(rest, at + 1)
    BY <1>0, <2>1, <2>3, WholeNext, Zenon
  <2>4. CASE Ask(rest, "attach", 0, Blank)
    BY <1>0, <1>b, <2>1, <2>2, <2>4, Zenon
  <2> QED
    BY <1>11, <2>1, <2>3, <2>4, WholeFree, Zenon DEF add_network
<1> QED
  BY <1>1, <1>2, <1>3, <1>4, <1>5, <1>6, <1>7, <1>8, <1>9, <1>10, <1>11, Zenon DEF Handle

\* At the start the supplicant holds nothing.
LEMMA WholeInit == Init => Whole
<1> SUFFICES ASSUME Init PROVE Whole
  OBVIOUS
<1>1. DOMAIN slots = {} /\ DOMAIN queue = {} /\ DOMAIN replies = {} /\ step = "idle"
  BY DEF Init, NoSlots
<1> QED
  BY <1>1, Zenon DEF Whole, Covered, Underway, Naming, Deciding, Listing

\* A population that removes all networks leaves none in doubt.
LEMMA WholeCleared == ASSUME Session, doubt, ~ doubt', Serve PROVE Whole'
<1>1. queue \in Seq(Cmd) /\ queue # <<>> /\ queue' = Tail(queue) /\ step' = step
      /\ Head(queue).verb = "clear" /\ Head(queue).mine /\ slots' = Does(Head(queue))
  BY ServeIs, Zenon DEF Session
<1>2. /\ Head(queue) = queue[1] /\ 1 \in DOMAIN queue /\ Len(queue) \in Nat \ {0}
      /\ \A k \in DOMAIN queue' : k + 1 \in DOMAIN queue /\ queue'[k] = queue[k + 1] /\ k + 1 # 1
  BY <1>1, TailIs
<1>3. slots' = NoSlots
  BY <1>1 DEF Does
<1>4. DOMAIN slots' = {}
  BY <1>3 DEF NoSlots
<1>5. step \notin {"idle", "ping"} \/ queue' = <<>>
  <2>1. step # "idle"
    BY <1>1, <1>2, Zenon DEF Session, Wire, Expected
  <2>2. step = "ping" => 1 = Len(queue)
    BY <1>1, <1>2, Zenon DEF Session, Barrier
  <2>3. step = "ping" => queue' = <<>>
    BY <1>1, <2>2, TailIs
  <2> QED
    BY <2>1, <2>3
<1>6. \A k \in DOMAIN queue' : queue'[k].verb # "ssid"
  <2>1. CASE queue' = <<>>
    BY <2>1
  <2>2. CASE step \notin {"idle", "ping"}
    <3>1. \A k \in DOMAIN queue : queue[k].mine
      BY <2>2, Zenon DEF Session, Barrier, EarlierCommandsAreDone
    <3> QED
      BY <1>2, <3>1, Zenon DEF Session, Wire, Expected
  <2> QED
    BY <1>5, <2>1, <2>2, Zenon
<1>7. Naming'
  BY <1>6, Zenon DEF Naming
<1> QED
  BY <1>4, <1>7, Zenon DEF Whole, Covered, Underway, Deciding, Listing, ListGood, Good

\* Every step but those that put the networks in doubt: one case per action.
LEMMA WholeStep == Session /\ WholeInv /\ [Next]_vars => WholeInv'
<1> SUFFICES ASSUME Session, WholeInv, [Next]_vars, ~ doubt' PROVE Whole'
  BY Zenon DEF WholeInv
<1>1. doubt' = doubt \/ Serve
  BY Zenon DEF Next, Loop, Client, Look, LookMisses, start_supplicant, set_profiles, restrict, Connect, Receive,
               TimeOut, Render, record_networks, Crash, Reload, Intrude, JoinBeside, Beside, vars
<1>2. ~ Crash
  BY Zenon DEF Crash
<1> SUFFICES ASSUME ~ doubt PROVE Whole'
  BY <1>1, WholeCleared, Zenon
<1>3. Whole
  BY Zenon DEF WholeInv
<1>4. CASE Look \/ start_supplicant \/ set_profiles \/ \E n \in Networks : Connect(n)
  <2>1. step = "idle" /\ slots' = slots /\ \E j : connect_within(j)
    BY <1>4, Zenon DEF Look, start_supplicant, set_profiles, Connect
  <2>2. replies' = <<>> /\ step' \in {"idle", "ping"}
        /\ queue' \in {Orphaned, Append(Orphaned, Command("ping", 0, Blank))}
    BY <2>1, Zenon DEF connect_within
  <2>3. step \notin {"ssid", "key"}
    BY <2>1
  <2> QED
    BY <1>3, <2>1, <2>2, <2>3, WholeMove, Zenon
<1>5. CASE Receive
  <2>1. replies # <<>> /\ Handle(Head(replies), Tail(replies)) /\ slots' = slots
    BY <1>5, Zenon DEF Receive, machine
  <2>2. PICK T : replies \in Seq(T)
    BY WireTypes, Zenon DEF Session, IsSeq
  <2>3. Head(replies) = replies[1] /\ 1 \in DOMAIN replies
    BY <2>1, <2>2, TailIs, Zenon
  <2>4. IsReply(Head(replies)) /\ Reading(Head(replies), Tail(replies))
    BY <2>1, <2>3, WireTypes, Zenon DEF Session, AreReplies, Reading
  <2> QED
    BY <1>3, <2>1, <2>4, WholeHandle, Zenon
<1>6. CASE TimeOut
  <2>1. IsReply(NoReply)
    BY DEF NoReply, Reply, IsReply, IsRows, NoSlots
  <2> QED
    BY <1>3, <1>6, <2>1, WholeHandle, Zenon DEF TimeOut, Reading, machine
<1>7. CASE Render
  <2>1. step = "render" /\ slots' = slots /\ (client_free \/ Ask(replies, "add", 0, Blank))
    BY <1>7, Zenon DEF Render, machine
  <2>2. /\ "add" \in Commands \ {"key"} /\ 0 \in Nat /\ Blank \in Networks \cup {Blank}
        /\ "add" \notin Enabling \cup {"ssid", "enable", "enable_listed", "disable", "attach"}
        /\ step \notin {"ssid", "key"}
    BY <2>1 DEF Commands, Enabling
  <2>3. \A k \in DOMAIN replies : ListGood(replies[k])
    BY <1>3, Zenon DEF Whole, Listing
  <2> QED
    BY <1>3, <2>1, <2>2, <2>3, WholeFree, WholePlain, Zenon
<1>8. CASE record_networks
  BY <1>3, <1>8, WholeFree, Zenon DEF record_networks, machine
<1>9. CASE Serve
  BY <1>3, <1>9, WholeServe, Zenon
<1>10. CASE Intrude
  <2>1. UNCHANGED <<replies, step, slot>> /\ (queue' = <<>> \/ queue' = queue) /\ slots' = NoSlots
    BY <1>10, Zenon DEF Intrude, client
  <2>2. DOMAIN slots' = {} /\ DOMAIN <<>> = {}
    BY <2>1 DEF NoSlots
  <2>3. Naming'
    BY <1>3, <2>1, <2>2, Zenon DEF Whole, Naming
  <2> QED
    BY <2>2, <2>3, Zenon DEF Whole, Covered, Underway, Deciding, Listing, ListGood, Good
<1>11. CASE \/ UNCHANGED vars \/ LookMisses \/ restrict \/ \E d \in Documents : Reload(d)
            \/ Beside \/ \E n \in Networks : JoinBeside(n)
  <2>1. UNCHANGED <<slots, queue, replies, step, slot, todo>>
    BY <1>11, Zenon DEF LookMisses, restrict, Reload, Beside, JoinBeside, vars, machine, wire, client
  <2> QED
    BY <1>3, <2>1, Zenon
       DEF Whole, Covered, Underway, Naming, Deciding, Listing, ListGood, Good
<1> QED
  BY <1>2, <1>4, <1>5, <1>6, <1>7, <1>8, <1>9, <1>10, <1>11, Zenon DEF Next, Loop, Client

\* Every network the supplicant may join has all of its settings, for any
\* networks and documents and whatever is refused, comes late or dies: populate,
\* enable_only and a request to join only enable a slot whose settings were all
\* taken, and a refused one is removed.  A death of netcfgd half-way, or a request
\* to join beside another connection, may leave one that has not, until the next
\* population has removed them all.
THEOREM WholeCorrect == Spec => []EnabledIsWhole
<1>1. Session /\ WholeInv => EnabledIsWhole
  BY Zenon DEF WholeInv, Whole, Covered, EnabledIsWhole
<1>2. Init => Session /\ WholeInv
  BY SessionInit, WholeInit, Zenon DEF WholeInv
<1>3. Session /\ WholeInv /\ [Next]_vars => (Session /\ WholeInv)'
  BY SessionStep, WholeStep, Zenon
<1> QED
  BY <1>1, <1>2, <1>3, PTL DEF Spec

-------------------------------------------------------------------------------
(* As long as nothing goes wrong, every command is answered and taken.     *)

Smooth == faults = 0 /\ troubles = 0

\* Between two commands nothing is on the wire.
Quiet == step \in {"idle", "render", "record"} => queue = <<>> /\ replies = <<>>

\* A setting is taken, and so is what is enabled.
Taken == step \in {"ssid", "key", "enable_listed"} /\ replies # <<>> => replies[1].kind = "ok"

\* The slot that is being set is there, and so are those to be enabled.
Placed ==
    /\ \A k \in DOMAIN replies : replies[k].kind = "id" => replies[k].id \in DOMAIN slots
    /\ step \in {"ssid", "key"} => slot \in DOMAIN slots
    /\ step = "enable_listed" =>
           todo \subseteq DOMAIN slots /\ (queue # <<>> => queue[1].id \in todo)

\* The list is of what is there.
Listed ==
    step = "list" /\ replies # <<>> =>
        replies[1].kind = "list" /\ DOMAIN replies[1].rows = DOMAIN slots

\* What is about to be emptied does not hold what was recorded, as far as the
\* numbers tell.
Emptied ==
    step = "clear" /\ queue # <<>> =>
        \/ ~ (desired.joins /\ desired.nets # <<>> /\ record = desired)
        \/ Cardinality(DOMAIN slots) # Len(desired.nets)

Orderly == Exact /\ step # "remove" /\ Quiet /\ Taken /\ Placed /\ Listed /\ Emptied

SmoothInv == Smooth => Orderly

\* Nothing on the wire, between two commands.
LEMMA OrderlyQuiet ==
    ASSUME queue' = <<>>, replies' = <<>>, step' \in {"idle", "render", "record"}
    PROVE  Orderly'
<1>1. Len(replies') <= 1 /\ DOMAIN replies' = {}
  OBVIOUS
<1>2. step' \notin {"remove", "ssid", "key", "enable_listed", "list", "clear"}
  OBVIOUS
<1> QED
  BY <1>1, <1>2, Zenon DEF Orderly, Exact, Quiet, Taken, Placed, Listed, Emptied

\* Closing a connection with nothing on the wire.
LEMMA OrderlyFree == ASSUME Session, queue = <<>>, client_free PROVE Orderly'
<1>1. queue' = <<>> /\ replies' = <<>> /\ step' = "idle"
  BY OrphanedIs, WireTypes, Zenon DEF client_free, Session
<1> QED
  BY <1>1, OrderlyQuiet, Zenon

\* Sending a command with nothing on the wire.
LEMMA OrderlyAsk ==
    ASSUME Session, queue = <<>>, NEW v \in Commands \ {"ping", "remove"}, NEW i \in Nat,
           NEW n \in Networks \cup {Blank}, Ask(<<>>, v, i, n), UNCHANGED <<slots, desired, record>>,
           v \in {"ssid", "key"} => slot' \in DOMAIN slots,
           v = "enable_listed" => todo' \subseteq DOMAIN slots /\ i \in todo',
           v = "clear" => \/ ~ (desired.joins /\ desired.nets # <<>> /\ record = desired)
                          \/ Cardinality(DOMAIN slots) # Len(desired.nets)
    PROVE  Orderly'
<1>1. queue \in Seq(Cmd) /\ v \in Commands /\ Len(queue) = 0 /\ DOMAIN <<>> = {} /\ Len(<<>>) <= 1
  BY WireTypes DEF Session
<1>2. /\ step' = v /\ replies' = <<>>
      /\ \/ queue' = queue
         \/ Len(queue') = Len(queue) + 1 /\ queue'[Len(queue) + 1] = Command(v, i, n)
      /\ Command(v, i, n).verb = v /\ Command(v, i, n).id = i
  <2>1. /\ step' = v /\ replies' = <<>>
        /\ \/ queue' = queue /\ ~ alive
           \/ /\ alive /\ queue' # <<>>
              /\ DOMAIN queue' = 1 .. Len(queue) + 1 /\ Len(queue') = Len(queue) + 1
              /\ queue'[Len(queue) + 1] = Command(v, i, n)
    <3>1. PICK rest : rest = <<>> /\ Ask(rest, v, i, n)
      BY Zenon
    <3> QED
      BY <1>1, <3>1, AskIs
  <2>2. Command(v, i, n).verb = v /\ Command(v, i, n).id = i
    BY DEF Command
  <2> QED
    BY <2>1, <2>2, Zenon
<1>3. queue' = <<>> \/ (Len(queue') = 1 /\ queue'[1] = Command(v, i, n))
  BY <1>1, <1>2
<1>4. Exact'
  BY <1>1, <1>2, <1>3, Zenon DEF Exact
<1>5. v \notin {"idle", "render", "record", "remove"}
  BY DEF Commands
<1>6. Quiet' /\ Taken' /\ Listed'
  BY <1>2, <1>5, Zenon DEF Quiet, Taken, Listed
<1>7. Placed'
  BY <1>1, <1>2, <1>3, Zenon DEF Placed
<1>8. Emptied'
  BY <1>2, Zenon DEF Emptied
<1> QED
  BY <1>2, <1>4, <1>5, <1>6, <1>7, <1>8, Zenon DEF Orderly

\* Opening a connection.
LEMMA OrderlyOpen ==
    ASSUME Session, Orderly, NEW j, connect_within(j), step = "idle"
    PROVE  Orderly'
<1>1. queue = <<>> /\ queue \in Seq(Cmd)
  BY WireTypes, Zenon DEF Session, Orderly, Quiet
<1>2. Orphaned = <<>>
  BY <1>1, OrphanedIs, Zenon
<1>3. queue' \in {<<>>, <<Command("ping", 0, Blank)>>} /\ replies' = <<>> /\ step' = "ping"
  BY <1>2 DEF connect_within
<1>4. Len(replies') <= 1 /\ DOMAIN replies' = {} /\ Command("ping", 0, Blank).verb = "ping"
  BY <1>3 DEF Command
<1>5. queue' # <<>> => Len(queue') = 1 /\ queue'[1].verb = "ping"
  BY <1>3, <1>4
<1>6. Exact'
  BY <1>3, <1>4, <1>5, Zenon DEF Exact
<1>7. step' \notin {"remove", "ssid", "key", "enable_listed", "list", "clear", "idle", "render", "record"}
  BY <1>3
<1> QED
  BY <1>4, <1>6, <1>7, Zenon DEF Orderly, Quiet, Taken, Placed, Listed, Emptied

\* The next network, or what follows the last.
LEMMA OrderlyNext ==
    ASSUME Session, queue = <<>>, NEW k, NextNetwork(<<>>, k), UNCHANGED <<slots, desired, record>>
    PROVE  Orderly'
<1>1. ASSUME NEW s \in {"render", "record"}, Then(<<>>, s) PROVE Orderly'
  BY <1>1, OrderlyQuiet, Zenon DEF Then
<1>2. CASE Ask(<<>>, "disable_all", 0, Blank)
  <2>1. /\ "disable_all" \in Commands \ {"ping", "remove"} /\ 0 \in Nat /\ Blank \in Networks \cup {Blank}
        /\ "disable_all" \notin {"ssid", "key", "enable_listed", "clear"}
    BY DEF Commands
  <2> QED
    BY <1>2, <2>1, OrderlyAsk, Zenon
<1> QED
  BY <1>1, <1>2, Zenon DEF NextNetwork

\* One case for each handler.
LEMMA OrderlyHandle ==
    ASSUME Session, Orderly, NEW r, IsReply(r), replies # <<>>, r = replies[1], Reading(r, <<>>),
           queue = <<>>, Handle(r, <<>>), UNCHANGED <<slots, desired, record>>
    PROVE  Orderly'
<1>0. /\ 0 \in Nat /\ Blank \in Networks \cup {Blank} /\ slot \in Nat /\ todo \subseteq Nat
      /\ 1 \in DOMAIN replies
  <2>1. slot \in Nat /\ todo \subseteq Nat
    BY Vars, Zenon DEF Session, ClientTypes
  <2>2. 1 \in DOMAIN replies
    <3>1. PICK T : replies \in Seq(T)
      BY WireTypes, Zenon DEF Session, IsSeq
    <3> QED
      BY <3>1, TailIs, Zenon
  <2> QED
    BY <2>1, <2>2
<1>a. ASSUME NEW v \in {"update_config", "list", "attach", "select", "enable", "disable"} \cup Radio,
             NEW i \in Nat, Ask(<<>>, v, i, Blank)
      PROVE  Orderly'
  <2>1. v \in Commands \ {"ping", "remove"} /\ v \notin {"ssid", "key", "enable_listed", "clear"}
    BY <1>a DEF Radio, Commands
  <2> QED
    BY <1>0, <1>a, <2>1, OrderlyAsk, Zenon
<1>b. ASSUME Ask(<<>>, "clear", 0, Blank),
             \/ ~ (desired.joins /\ desired.nets # <<>> /\ record = desired)
             \/ Cardinality(DOMAIN slots) # Len(desired.nets)
      PROVE  Orderly'
  <2>1. "clear" \in Commands \ {"ping", "remove"} /\ "clear" \notin {"ssid", "key", "enable_listed"}
    BY DEF Commands
  <2> QED
    BY <1>0, <1>b, <2>1, OrderlyAsk, Zenon
<1>1. CASE Pinged(r, <<>>)
  BY <1>0, <1>1, <1>a, OrderlyFree, Zenon DEF Pinged
<1>2. CASE observe_supplicants(r, <<>>) \/ Selected(r, <<>>) \/ Removed(r, <<>>)
  BY <1>2, OrderlyFree, Zenon DEF observe_supplicants, Selected, Removed
<1>3. CASE wifi_connect(r, <<>>)
  <2>1. CASE Then(<<>>, "render")
    BY <2>1, OrderlyQuiet, Zenon DEF Then
  <2> QED
    BY <1>0, <1>3, <1>a, <2>1, OrderlyFree, Zenon DEF wifi_connect
<1>4. CASE Attached(r, <<>>)
  BY <1>0, <1>4, <1>a, Zenon DEF Attached
<1>5. CASE update_config(r, <<>>)
  BY <1>0, <1>5, <1>a, <1>b, OrderlyFree, Zenon DEF update_config
<1>6. CASE enable_only(r, <<>>)
  <2>1. ASSUME NEW ids, ids \subseteq DOMAIN slots, EnableNext(<<>>, ids) PROVE Orderly'
    <3>1. ids \subseteq Nat
      BY <2>1, Zenon DEF Session, Base, Typed, TypeOK, IsSlots
    <3>2. CASE ids # {} /\ Ask(<<>>, "enable_listed", Min(ids), Blank) /\ todo' = ids
      <4>1. Min(ids) \in ids
        BY <3>1, <3>2, MinIn, Zenon
      <4>2. "enable_listed" \in Commands \ {"ping", "remove"} /\ "enable_listed" \notin {"ssid", "key", "clear"}
        BY DEF Commands
      <4> QED
        BY <1>0, <2>1, <3>1, <3>2, <4>1, <4>2, OrderlyAsk, Zenon
    <3> QED
      BY <2>1, <3>2, OrderlyFree, Zenon DEF EnableNext
  <2>2. CASE step = "list"
    <3>1. r.kind = "list" /\ DOMAIN r.rows = DOMAIN slots
      BY <2>2, Zenon DEF Orderly, Listed
    <3>2. ask_ok(r) /\ parse_network_list(r) = r.rows
      BY <3>1 DEF ask_ok, parse_network_list
    <3>3. disabled_in(r.rows) \subseteq DOMAIN slots
      BY <3>1, Zenon DEF disabled_in
    <3>4. step # "enable_listed"
      BY <2>2
    <3> QED
      BY <1>6, <1>b, <2>1, <3>1, <3>2, <3>3, <3>4, Zenon DEF enable_only
  <2>3. CASE step = "enable_listed"
    <3>1. command_ok(r) /\ step # "list"
      BY <2>3 DEF Orderly, Taken, command_ok
    <3>2. todo \ {Min(todo)} \subseteq DOMAIN slots
      BY <2>3, Zenon DEF Orderly, Placed
    <3> QED
      BY <1>6, <2>1, <3>1, <3>2, Zenon DEF enable_only
  <2> QED
    BY <1>6, <2>2, <2>3, Zenon DEF enable_only
<1>7. CASE set_radio(r, <<>>)
  <2>1. CASE step \in DOMAIN Following /\ Ask(<<>>, Following[step], 0, Blank)
    <3>1. step \in {"clear", "lifetime", "preassoc", "okc"}
      BY <2>1 DEF Following
    <3>2. Following[step] \in Radio
      BY <3>1 DEF Following, Radio
    <3> QED
      BY <1>0, <1>a, <2>1, <3>2, Zenon
  <2> QED
    BY <1>7, <2>1, OrderlyNext, OrderlyFree, Zenon DEF set_radio
<1>8. CASE DisabledAll(r, <<>>)
  BY <1>8, OrderlyQuiet, OrderlyFree, Zenon DEF DisabledAll, Then
<1>9. CASE new_network_id(r, <<>>)
  <2>1. CASE r.kind = "id" /\ Ask(<<>>, "ssid", r.id, Target) /\ slot' = r.id
    <3>1. step = "add"
      BY <1>9, Zenon DEF new_network_id
    <3>2. Target \in Networks \cup {Blank} /\ r.id \in Nat
      BY <3>1, TargetIs, Zenon DEF Session, IsReply
    <3>3. "ssid" \in Commands \ {"ping", "remove"} /\ "ssid" \notin {"enable_listed", "clear"}
      BY DEF Commands
    <3>4. r.id \in DOMAIN slots
      BY <1>0, <2>1, Zenon DEF Orderly, Placed
    <3> QED
      BY <2>1, <3>2, <3>3, <3>4, OrderlyAsk, Zenon
  <2> QED
    BY <1>9, <2>1, OrderlyFree, Zenon DEF new_network_id
<1>10. CASE send_setting(r, <<>>)
  <2>1. step \in {"ssid", "key"} /\ slot' = slot
    BY <1>10, Zenon DEF send_setting
  <2>2. command_ok(r) /\ slot \in DOMAIN slots
    BY <2>1, Zenon DEF Orderly, Taken, Placed, command_ok
  <2>3. CASE Ask(<<>>, "key", slot, Target)
    <3>1. Target \in Networks \cup {Blank}
      BY <2>1, TargetIs, Zenon DEF Session, AboutTarget
    <3>2. "key" \in Commands \ {"ping", "remove"} /\ "key" \notin {"enable_listed", "clear"}
      BY DEF Commands
    <3> QED
      BY <1>0, <2>1, <2>2, <2>3, <3>1, <3>2, OrderlyAsk, Zenon
  <2> QED
    BY <1>0, <1>10, <1>a, <2>2, <2>3, Zenon DEF send_setting
<1>11. CASE add_network(r, <<>>)
  BY <1>0, <1>11, <1>a, OrderlyNext, OrderlyFree, Zenon DEF add_network
<1> QED
  BY <1>1, <1>2, <1>3, <1>4, <1>5, <1>6, <1>7, <1>8, <1>9, <1>10, <1>11, Zenon DEF Handle

\* Only two commands remove a network.
LEMMA DomainKept ==
    ASSUME Typed, NEW c \in Cmd, NEW a, Done(c, a) \/ Missing(c, a) \/ Refused(c, a),
           c.verb \notin {"clear", "remove"}
    PROVE  DOMAIN slots \subseteq DOMAIN slots'
<1>1. c.verb \in Changing \cup Passive \cup {"add"}
  BY DEF Cmd, Commands, Changing, Passive, Radio
<1>2. CASE Missing(c, a) \/ Refused(c, a)
  BY <1>2, Zenon DEF Missing, Refused
<1>3. CASE Done(c, a) /\ c.verb \in Changing
  <2>1. Present(c) /\ slots' = Does(c)
    BY <1>3, Zenon DEF Done
  <2> QED
    BY <1>3, <2>1, Changes, Zenon
<1>4. CASE Done(c, a) /\ c.verb \in Passive
  BY <1>4, Others, Zenon DEF Done
<1>5. CASE Done(c, a) /\ c.verb = "add"
  <2> DEFINE new == [net |-> Blank, whole |-> FALSE, disabled |-> TRUE]
  <2>1. slots' = [i \in DOMAIN slots \cup {NewId} |-> IF i = NewId THEN new ELSE slots[i]]
    BY <1>5, Others, Zenon DEF Done
  <2> HIDE DEF new
  <2>2. DOMAIN slots' = DOMAIN slots \cup {NewId}
    BY <2>1, Zenon
  <2> QED
    BY <2>2, Zenon
<1> QED
  BY <1>1, <1>2, <1>3, <1>4, <1>5, Zenon

\* The number that ADD_NETWORK is answered with is that of a slot.
LEMMA NewIsThere ==
    ASSUME NEW c \in Cmd, NEW a, Done(c, a), c.verb = "add"
    PROVE  NewId \in DOMAIN slots'
<1> DEFINE new == [net |-> Blank, whole |-> FALSE, disabled |-> TRUE]
<1>1. slots' = [i \in DOMAIN slots \cup {NewId} |-> IF i = NewId THEN new ELSE slots[i]]
  BY Others, Zenon DEF Done
<1> HIDE DEF new
<1>2. DOMAIN slots' = DOMAIN slots \cup {NewId}
  BY <1>1, Zenon
<1> QED
  BY <1>2, Zenon

\* The supplicant executes the command that is waited for.
LEMMA OrderlyServe == ASSUME Session, Orderly, Serve, faults' = 0 PROVE Orderly'
<1>1. Wire' /\ Typed
  <2>1. [Next]_vars
    BY Zenon DEF Next
  <2> QED
    BY <2>1, WireStep, Zenon DEF Session, Base
<1>2. /\ queue # <<>> /\ queue' = Tail(queue) /\ queue \in Seq(Cmd)
      /\ UNCHANGED <<step, slot, todo>>
  BY ServeIs, Zenon DEF Session
<1>3. step \notin {"idle", "render", "record"} /\ Exact /\ step # "remove"
  BY <1>2, Zenon DEF Orderly, Quiet
<1>4. CASE step = "ping"
  <2>1. Len(queue) = 1
    BY <1>2, <1>3, Zenon DEF Exact
  <2>2. queue' = <<>>
    BY <1>2, <2>1, TailIs
  <2>3. Len(replies') <= 1
    BY <1>1, <1>2, <1>4, Zenon DEF Wire
  <2>4. \A k \in DOMAIN replies' : replies'[k].kind # "id"
    BY <1>1, <1>2, <1>4 DEF Wire, Received
  <2>5. step' \notin {"remove", "ssid", "key", "enable_listed", "list", "clear", "idle", "render", "record"}
    BY <1>2, <1>4
  <2> QED
    BY <2>2, <2>3, <2>4, <2>5, Zenon DEF Orderly, Exact, Quiet, Taken, Placed, Listed, Emptied
<1>5. CASE step # "ping"
  <2>1. PICK c, a : Served(c, a)
    BY <1>3, <1>5, ServedIs, Zenon
  <2>2. /\ Exact' /\ queue' = <<>> /\ c.verb = step /\ replies' = <<a>> /\ replies'[1] = a
        /\ c = queue[1] /\ c \in Cmd
    BY <1>3, <2>1, Zenon DEF Served
  <2>3. Done(c, a) \/ Missing(c, a)
    <3>1. ~ Refused(c, a)
      BY <1>1 DEF Refused, Typed, TypeOK
    <3> QED
      BY <2>1, <3>1, Zenon DEF Served
  <2>4. step \in {"ssid", "key", "enable_listed"} => Done(c, a) /\ a.kind = "ok"
    <3> SUFFICES ASSUME step \in {"ssid", "key", "enable_listed"} PROVE Done(c, a) /\ a.kind = "ok"
      BY Zenon
    <3>1. c.id \in DOMAIN slots
      <4>1. CASE step \in {"ssid", "key"}
        <5>1. c.id = slot
          BY <1>2, <2>2, <4>1, Zenon DEF Session, Wire, OfTarget, AboutTarget
        <5> QED
          BY <4>1, <5>1, Zenon DEF Orderly, Placed
      <4>2. CASE step = "enable_listed"
        BY <1>2, <2>2, <4>2, Zenon DEF Orderly, Placed
      <4> QED
        BY <4>1, <4>2, Zenon
    <3>2. Done(c, a)
      BY <2>3, <3>1, Zenon DEF Missing
    <3>3. a = Reply("ok")
      <4>1. c.verb \notin {"ping", "list", "add"}
        BY <2>2
      <4> QED
        BY <1>1, <3>2, <4>1, AnswerIs, Zenon DEF Done
    <3> QED
      BY <3>2, <3>3 DEF Reply
  <2>5. step \notin {"clear", "remove"} => DOMAIN slots \subseteq DOMAIN slots'
    BY <1>1, <2>2, <2>3, DomainKept, Zenon
  <2>6. Placed'
    <3>1. \A k \in DOMAIN replies' : replies'[k] = a
      BY <2>2
    <3>2. a.kind = "id" => a.id \in DOMAIN slots'
      BY <1>1, <2>2, <2>3, AnswersIs, NewIsThere, Zenon
    <3>3. step' \in {"ssid", "key"} => slot' \in DOMAIN slots'
      BY <1>2, <2>5, Zenon DEF Orderly, Placed
    <3>4. step' = "enable_listed" => todo' \subseteq DOMAIN slots'
      BY <1>2, <2>5, Zenon DEF Orderly, Placed
    <3> QED
      BY <2>2, <3>1, <3>2, <3>3, <3>4, Zenon DEF Placed
  <2>7. Listed'
    <3> SUFFICES ASSUME step = "list" PROVE a.kind = "list" /\ DOMAIN a.rows = DOMAIN slots'
      BY <1>2, <2>2, Zenon DEF Listed
    <3>1. c.verb \notin AboutSlot
      BY <2>2 DEF AboutSlot
    <3>2. Done(c, a)
      BY <2>3, <3>1, Zenon DEF Missing
    <3>3. slots' = slots
      BY <1>1, <2>2, <3>2, Effects, Zenon
    <3>4. a.kind = "list" /\ a.rows = Rows
      BY <1>1, <2>2, <3>2, AnswerIs, Zenon DEF Done
    <3>5. DOMAIN Rows = DOMAIN slots
      BY Zenon DEF Rows
    <3> QED
      BY <3>3, <3>4, <3>5, Zenon
  <2>8. Quiet' /\ Taken' /\ Emptied'
    BY <1>2, <1>3, <2>2, <2>4, Zenon DEF Quiet, Taken, Emptied
  <2> QED
    BY <1>2, <1>3, <2>2, <2>6, <2>7, <2>8, Zenon DEF Orderly
<1> QED
  BY <1>4, <1>5, Zenon

\* What went wrong stays counted.
LEMMA SmoothBack ==
    ASSUME Base, [Next]_vars, Smooth'
    PROVE  /\ Smooth /\ ~ Crash /\ ~ Intrude /\ ~ Beside /\ ~ \E n \in Networks : JoinBeside(n)
           /\ TimeOut => ~ alive
           /\ Render => Ask(replies, "add", 0, Blank)
<1>1. faults \in Nat /\ troubles \in Nat
  BY DEF Base, Typed, TypeOK
<1>2. \A n \in Nat : n + 1 # 0
  OBVIOUS
<1>3. ~ Crash /\ ~ Intrude /\ ~ \E n \in Networks : JoinBeside(n)
  BY <1>1, <1>2, Zenon DEF Crash, Intrude, JoinBeside, Smooth
<1>4. (TimeOut => ~ alive) /\ (Render => Ask(replies, "add", 0, Blank))
  BY <1>1, <1>2, Zenon DEF TimeOut, Render, Smooth
<1>5. troubles' = troubles /\ (faults' = faults \/ faults' = faults + 1)
  BY <1>3, Zenon
     DEF Next, Loop, Client, Look, LookMisses, start_supplicant, set_profiles, restrict, Connect, Receive,
         TimeOut, Render, record_networks, Serve, Reload, Beside, vars, bounds
<1>6. Smooth
  BY <1>1, <1>2, <1>5, Zenon DEF Smooth
<1>7. ~ Beside
  <2>1. ~ (troubles > 0)
    BY <1>6 DEF Smooth
  <2> QED
    BY <2>1, Zenon DEF Beside, Base, Death
<1> QED
  BY <1>3, <1>4, <1>6, <1>7, Zenon

\* At the start there is nothing on the wire.
LEMMA OrderlyInit == Init => Orderly
<1> SUFFICES ASSUME Init PROVE Orderly
  OBVIOUS
<1>1. queue = <<>> /\ replies = <<>> /\ step = "idle" /\ DOMAIN replies = {} /\ Len(replies) <= 1
  BY DEF Init
<1>2. step \notin {"remove", "ssid", "key", "enable_listed", "list", "clear"}
  BY <1>1
<1> QED
  BY <1>1, <1>2, Zenon DEF Orderly, Exact, Quiet, Taken, Placed, Listed, Emptied

\* Every step by which nothing goes wrong: one case per action.
LEMMA SmoothStep == Session /\ SmoothInv /\ [Next]_vars => SmoothInv'
<1> SUFFICES ASSUME Session, SmoothInv, [Next]_vars, Smooth' PROVE Orderly'
  BY Zenon DEF SmoothInv
<1>1. /\ Smooth /\ ~ Crash /\ ~ Intrude /\ ~ Beside /\ ~ \E n \in Networks : JoinBeside(n)
      /\ TimeOut => ~ alive
      /\ Render => Ask(replies, "add", 0, Blank)
  BY SmoothBack, Zenon DEF Session
<1>2. Orderly
  BY <1>1, Zenon DEF SmoothInv
<1>3. CASE Look \/ start_supplicant \/ set_profiles \/ \E n \in Networks : Connect(n)
  BY <1>2, <1>3, OrderlyOpen, Zenon DEF Look, start_supplicant, set_profiles, Connect
<1>4. CASE Receive
  <2>1. replies # <<>> /\ Handle(Head(replies), Tail(replies)) /\ UNCHANGED <<slots, desired, record>>
    BY <1>4, Zenon DEF Receive, machine
  <2>2. PICK T : replies \in Seq(T)
    BY WireTypes, Zenon DEF Session, IsSeq
  <2>3. Head(replies) = replies[1] /\ 1 \in DOMAIN replies
    BY <2>1, <2>2, TailIs, Zenon
  <2>4. IsReply(replies[1]) /\ Reading(replies[1], Tail(replies))
    BY <2>1, <2>3, WireTypes, Zenon DEF Session, AreReplies, Reading
  <2>5. replies[1] # NoReply
    <3>1. replies[1].kind \in {"ok", "fail", "pong", "id", "list"}
      BY <2>3, WireTypes, Zenon DEF Session, AreReplies
    <3>2. NoReply.kind = "none"
      BY DEF NoReply, Reply
    <3> QED
      BY <3>1, <3>2
  <2>6. queue = <<>> /\ Tail(replies) = <<>>
    <3>1. Exact
      BY <1>2, Zenon DEF Orderly
    <3>2. PICK r, rest : r = replies[1] /\ rest = Tail(replies) /\ Reading(r, rest) /\ r # NoReply
      BY <2>4, <2>5, Zenon
    <3>3. Reading(r, rest) /\ r # NoReply
      BY <3>2, Zenon
    <3>4. queue = <<>> /\ rest = <<>>
      BY <3>1, <3>3, ExactRead
    <3> QED
      BY <3>2, <3>4, Zenon
  <2> QED
    BY <1>2, <2>1, <2>3, <2>4, <2>6, OrderlyHandle, Zenon
<1>5. CASE TimeOut
  <2>1. replies = <<>> /\ Handle(NoReply, <<>>) /\ ~ alive
    BY <1>1, <1>5, Zenon DEF TimeOut
  <2>2. ~ intruded
    <3>1. ~ (troubles > 0)
      BY <1>1 DEF Smooth
    <3> QED
      BY <3>1, Zenon DEF Session, Base, Death
  <2>3. queue = <<>> /\ step \in {"idle", "ping"}
    BY <2>1, <2>2, Zenon DEF Session, Base, Death
  <2>4. client_free
    <3>1. NoReply.kind # "pong"
      BY DEF NoReply, Reply
    <3> QED
      BY <2>1, <2>3, <3>1, Handles, Zenon DEF Moves, Going
  <2> QED
    BY <2>3, <2>4, OrderlyFree, Zenon
<1>6. CASE Render
  <2>1. step = "render" /\ UNCHANGED <<slots, desired, record>> /\ Ask(replies, "add", 0, Blank)
    BY <1>1, <1>6, Zenon DEF Render, machine
  <2>2. queue = <<>> /\ replies = <<>>
    BY <1>2, <2>1, Zenon DEF Orderly, Quiet
  <2>3. /\ "add" \in Commands \ {"ping", "remove"} /\ 0 \in Nat /\ Blank \in Networks \cup {Blank}
        /\ "add" \notin {"ssid", "key", "enable_listed", "clear"}
    BY DEF Commands
  <2>4. Ask(<<>>, "add", 0, Blank)
    BY Zenon, <2>1, <2>2
  <2> QED
    BY <2>1, <2>2, <2>3, <2>4, OrderlyAsk, Zenon
<1>7. CASE record_networks
  <2>1. step = "record" /\ client_free
    BY <1>7, Zenon DEF record_networks
  <2>2. queue = <<>>
    BY <1>2, <2>1, Zenon DEF Orderly, Quiet
  <2> QED
    BY <2>1, <2>2, OrderlyFree, Zenon
<1>8. CASE Serve
  BY <1>2, <1>8, OrderlyServe, Zenon DEF Smooth
<1>9. ASSUME NEW d \in Documents, Reload(d) PROVE Orderly'
  <2>1. step = "idle" /\ UNCHANGED <<queue, replies, step>>
    BY <1>9, Zenon DEF Reload, wire, client
  <2>2. queue' = <<>> /\ replies' = <<>> /\ step' \in {"idle", "render", "record"}
    BY <1>2, <2>1, Zenon DEF Orderly, Quiet
  <2> QED
    BY <2>2, OrderlyQuiet, Zenon
<1>10. CASE UNCHANGED vars \/ LookMisses \/ restrict
  <2>1. UNCHANGED <<desired, record, slots, queue, replies, step, slot, todo>>
    BY <1>10, Zenon DEF LookMisses, restrict, vars, machine, wire, client
  <2>2. Exact' /\ step' # "remove" /\ Quiet' /\ Taken'
    BY <1>2, <2>1, Zenon DEF Orderly, Exact, Quiet, Taken
  <2>3. Placed'
    BY <1>2, <2>1, Zenon DEF Orderly, Placed
  <2>4. Listed' /\ Emptied'
    BY <1>2, <2>1, Zenon DEF Orderly, Listed, Emptied
  <2> QED
    BY <2>2, <2>3, <2>4, Zenon DEF Orderly
<1> QED
  BY <1>1, <1>3, <1>4, <1>5, <1>6, <1>7, <1>8, <1>9, <1>10, Zenon DEF Next, Loop, Client

\* What removes a network is a REMOVE_NETWORK that the rest of the session rules out.
LEMMA HeldKept ==
    ASSUME Session, Session', SmoothInv, [Next]_vars, desired.joins
    PROVE  KeepsWhatItHolds
<1> SUFFICES ASSUME (faults + troubles)' = 0, record = desired, Holds
             PROVE  DOMAIN slots \subseteq DOMAIN slots'
  BY Zenon DEF KeepsWhatItHolds
<1>1. Smooth'
  <2>1. faults' \in Nat /\ troubles' \in Nat
    BY DEF Session, Base, Typed, TypeOK
  <2>2. \A a, b \in Nat : a + b = 0 => a = 0 /\ b = 0
    OBVIOUS
  <2> QED
    BY <2>1, <2>2, Zenon DEF Smooth
<1>2. Smooth /\ ~ Crash /\ ~ Intrude /\ ~ Beside
  BY <1>1, SmoothBack, Zenon DEF Session
<1>3. Orderly /\ Typed
  BY <1>2, Zenon DEF SmoothInv, Session, Base
<1>4. slots' = slots \/ Serve
  BY <1>2, Zenon
     DEF Next, Loop, Client, Look, LookMisses, start_supplicant, set_profiles, restrict, Connect, Receive,
         TimeOut, Render, record_networks, Reload, JoinBeside, vars, machine
<1>5. CASE Serve
  <2>1. /\ queue # <<>> /\ queue \in Seq(Cmd) /\ Head(queue) \in Cmd
        /\ \E a : Done(Head(queue), a) \/ Missing(Head(queue), a) \/ Refused(Head(queue), a)
    BY <1>5, ServeIs, Zenon DEF Session
  <2>2. Head(queue) = queue[1] /\ queue[1].verb = step
    <3>1. Head(queue) = queue[1] /\ 1 \in DOMAIN queue
      BY <2>1, TailIs, Zenon
    <3> QED
      BY <1>3, <2>1, <3>1, Zenon DEF Orderly, Exact
  <2>3. CASE step \notin {"clear", "remove"}
    BY <1>3, <2>1, <2>2, <2>3, DomainKept, Zenon
  <2>4. CASE step = "clear"
    <3>1. Cardinality(DOMAIN slots) = Len(desired.nets)
      BY Zenon DEF Holds
    <3>2. desired.nets = <<>>
      BY <1>3, <2>1, <2>4, <3>1, Zenon DEF Orderly, Emptied
    <3>3. DOMAIN slots = {}
      BY <1>3, <3>2, Vacant, Zenon
    <3> QED
      BY <3>3, Zenon
  <2> QED
    BY <1>3, <2>3, <2>4, Zenon DEF Orderly
<1> QED
  BY <1>4, <1>5, Zenon

\* A radio that joins by itself and holds what was recorded loses no network, as
\* long as nothing went wrong: enable_only finds the set by its number, and
\* neither an observation nor a request to join removes one.
THEOREM HeldCorrect == Spec => HeldIsLeftAlone
<1>1. Init => Session /\ SmoothInv
  BY SessionInit, OrderlyInit, Zenon DEF SmoothInv
<1>2. Session /\ SmoothInv /\ [Next]_vars => (Session /\ SmoothInv)'
  BY SessionStep, SmoothStep, Zenon
<1>3. Session /\ SmoothInv /\ Session' /\ [Next]_vars => [desired.joins => KeepsWhatItHolds]_vars
  BY HeldKept, Zenon
<1> QED
  BY <1>1, <1>2, <1>3, PTL DEF Spec, HeldIsLeftAlone
====
