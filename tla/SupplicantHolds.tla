-------------------------- MODULE SupplicantHolds ----------------------------
(***************************************************************************)
(* What the supplicant holds when set_profiles comes to its record.        *)
(***************************************************************************)
EXTENDS SupplicantProofs

-------------------------------------------------------------------------------
(* A population that comes to its record has handed over the document.     *)

\* Slots S of f hold the first n networks of document d, as d wants them.
Filled(d, f, S, n) ==
    /\ Cardinality(S) = n
    /\ {f[i].net : i \in S} = {d.nets[j] : j \in 1 .. n}
    /\ \A i \in S : f[i].whole /\ (f[i].disabled <=> f[i].net \notin d.auto)

Answered(kind) == replies # <<>> /\ replies[1].kind = kind

\* Once REMOVE_NETWORK all was read nothing is left, and it was read before the
\* radio's settings where nothing else would show it.
Clearing ==
    step \in Radio \cup {"clear"} =>
        /\ NoClear => DOMAIN slots = {}
        /\ desired.nets = <<>> => IF step = "clear" THEN Exact ELSE NoClear

\* Up to the number of the slot that is being added, the earlier networks are in.
Adding ==
    step \in {"render", "add"} =>
        /\ at > 1 => IF step = "add" THEN Exact ELSE queue = <<>> /\ replies = <<>>
        /\ NoClear /\ NoNumber => Filled(desired, slots, DOMAIN slots, at - 1)
        /\ NoClear => \A k \in DOMAIN replies : replies[k].kind = "id" =>
               /\ replies[k].id \in DOMAIN slots
               /\ Filled(desired, slots, DOMAIN slots \ {replies[k].id}, at - 1)

\* Beside the slot that is being set; what was taken is in it.
Setting ==
    step \in AboutTarget =>
        /\ slot \in DOMAIN slots
        /\ Filled(desired, slots, DOMAIN slots \ {slot}, at - 1)
        /\ step # "ssid" \/ Answered("ok") => slots[slot].net = Target
        /\ step = "key" /\ Answered("ok") => slots[slot].whole
        /\ step \in {"enable", "disable"} =>
               /\ slots[slot].whole
               /\ (step = "enable") <=> (Target \in desired.auto)
               /\ Answered("ok") => (slots[slot].disabled <=> step = "disable")

Disabling ==
    step = "disable_all" =>
        /\ Holds /\ ~ desired.joins
        /\ desired.nets # <<>> =>
               Exact /\ (Answered("ok") => \A i \in DOMAIN slots : slots[i].disabled)

Recording == step = "record" => Right /\ (desired.nets # <<>> => queue = <<>>)

Populating == Clearing /\ Adding /\ Setting /\ Disabling /\ Recording

PopInv == job = "profiles" /\ ~ intruded => Populating

\* The first none of the networks need no slot, and take none.
LEMMA FilledNone ==
    ASSUME NEW d, NEW f, NEW S, IsFiniteSet(S)
    PROVE  /\ Filled(d, f, S, 0) => S = {}
           /\ S = {} => Filled(d, f, S, 0)
<1>1. Cardinality({}) = 0 /\ (Cardinality(S) = 0 <=> S = {})
  BY FS_EmptySet, Zenon
<1>2. 1 .. 0 = {}
  OBVIOUS
<1>3. S = {} => {f[i].net : i \in S} = {d.nets[j] : j \in 1 .. 0}
  BY <1>2, Zenon
<1> QED
  BY <1>1, <1>3, Zenon DEF Filled

\* It depends on nothing but those slots.
LEMMA FilledSame ==
    ASSUME NEW d, NEW f, NEW g, NEW S, NEW n, Filled(d, f, S, n),
           \A i \in S : /\ g[i].net = f[i].net /\ g[i].whole = f[i].whole
                        /\ g[i].disabled = f[i].disabled
    PROVE  Filled(d, g, S, n)
<1>1. {g[i].net : i \in S} = {f[i].net : i \in S}
  OBVIOUS
<1> QED
  BY <1>1, Zenon DEF Filled

\* One more.
LEMMA FilledMore ==
    ASSUME NEW d, NEW f, NEW S, IsFiniteSet(S), NEW i \in S, NEW n \in Nat \ {0},
           Filled(d, f, S \ {i}, n - 1),
           f[i].net = d.nets[n], f[i].whole, f[i].disabled <=> f[i].net \notin d.auto
    PROVE  Filled(d, f, S, n)
<1>1. Cardinality(S \ {i}) = Cardinality(S) - 1 /\ Cardinality(S) \in Nat
  BY FS_RemoveElement, FS_CardinalityType
<1>2. Cardinality(S) = n
  BY <1>1 DEF Filled
<1>3. {f[k].net : k \in S} = {f[k].net : k \in S \ {i}} \cup {f[i].net}
  OBVIOUS
<1>4. {d.nets[j] : j \in 1 .. n} = {d.nets[j] : j \in 1 .. n - 1} \cup {d.nets[n]}
  <2>1. 1 .. n = (1 .. n - 1) \cup {n}
    OBVIOUS
  <2> QED
    BY <2>1
<1>5. {f[k].net : k \in S} = {d.nets[j] : j \in 1 .. n}
  BY <1>3, <1>4, Zenon DEF Filled
<1>6. \A k \in S : f[k].whole /\ (f[k].disabled <=> f[k].net \notin d.auto)
  BY Zenon DEF Filled
<1> QED
  BY <1>2, <1>5, <1>6, Zenon DEF Filled

\* All of them.
LEMMA FilledAll ==
    ASSUME Typed, Filled(desired, slots, DOMAIN slots, Len(desired.nets))
    PROVE  Holds /\ \A i \in DOMAIN slots : slots[i].disabled <=> slots[i].net \notin desired.auto
<1>1. desired.nets \in Seq(Networks)
  BY Document
<1>2. DOMAIN desired.nets = 1 .. Len(desired.nets)
  BY <1>1
<1>3. Range(desired.nets) = {desired.nets[j] : j \in 1 .. Len(desired.nets)}
  BY <1>2, Zenon DEF Range
<1> QED
  BY <1>3, Zenon DEF Filled, Holds

\* Where the loop is not filling the supplicant, or was disturbed, nothing is said.
LEMMA PopAway == ASSUME job' # "profiles" \/ intruded' PROVE PopInv'
  BY Zenon DEF PopInv

\* Nor at the steps that change no network.
LEMMA PopQuiet ==
    ASSUME step' \in {"ping", "update_config", "list", "enable_listed", "remove"}
    PROVE  Populating'
  BY DEF Populating, Clearing, Adding, Setting, Disabling, Recording, Radio, AboutTarget

\* What an answer that ends the wait for it leaves, and what is sent next.
LEMMA PopAsk ==
    ASSUME Session, NEW rest, NEW v \in Commands, NEW i \in Nat, NEW n \in Networks \cup {Blank},
           Ask(rest, v, i, n), step \notin {"idle", "ping"}, ~ intruded
    PROVE  /\ job' = job /\ intruded' = intruded /\ step' = v /\ replies' = rest
           /\ queue' # <<>>
           /\ NoClear' <=> (NoClear /\ v # "clear")
           /\ queue = <<>> /\ rest = <<>> => Exact'
<1>1. queue \in Seq(Cmd) /\ Len(queue) \in Nat /\ DOMAIN queue = 1 .. Len(queue) /\ DOMAIN <<>> = {}
  BY WireTypes, Zenon DEF Session
<1>2. alive
  BY Zenon DEF Session, Base, Death
<1>3. job' = job /\ intruded' = intruded
  BY Zenon DEF Ask
<1>4. /\ step' = v /\ replies' = rest
      /\ queue' # <<>> /\ DOMAIN queue' = 1 .. Len(queue) + 1 /\ Len(queue') = Len(queue) + 1
      /\ queue'[Len(queue) + 1] = Command(v, i, n)
      /\ \A k \in DOMAIN queue : k \in DOMAIN queue' /\ queue'[k] = queue[k]
      /\ \A k \in DOMAIN queue' : \/ k \in DOMAIN queue /\ queue'[k] = queue[k]
                                  \/ queue'[k] = Command(v, i, n)
      /\ Command(v, i, n).verb = v
  BY <1>1, <1>2, AskIs
<1>5. Len(queue) + 1 \in DOMAIN queue'
  BY <1>1, <1>4
<1>6. NoClear' <=> (NoClear /\ v # "clear")
  BY <1>4, <1>5, Zenon DEF NoClear
<1>7. queue = <<>> /\ rest = <<>> => Exact'
  <2> SUFFICES ASSUME queue = <<>>, rest = <<>> PROVE Exact'
    BY Zenon
  <2>1. Len(queue) = 0 /\ Len(<<>>) = 0
    OBVIOUS
  <2>2. Len(queue') = 1 /\ queue'[1].verb = v /\ Len(replies') <= 1 /\ replies' = <<>>
    BY <1>4, <2>1
  <2> QED
    BY <1>4, <2>2, Zenon DEF Exact
<1> QED
  BY <1>3, <1>4, <1>6, <1>7, Zenon

\* After the radio's settings, with nothing added yet.
LEMMA PopFirst ==
    ASSUME Session, NEW r, NEW rest, Reading(r, rest), step = "sae_pwe", Clearing,
           NextNetwork(rest, 1), at' = 1, UNCHANGED <<desired, slots>>
    PROVE  Populating'
<1>1. desired.nets \in Seq(Networks) /\ Typed /\ 0 \in Nat /\ Blank \in Networks \cup {Blank}
  BY Document, Zenon DEF Session, Base
<1>2. NoClear => DOMAIN slots = {}
  BY DEF Clearing, Radio
<1>3. desired.nets = <<>> => NoClear
  BY DEF Clearing, Radio
<1>4. 1 > Len(desired.nets) => desired.nets = <<>>
  BY <1>1
<1>5. \A k \in DOMAIN rest : rest[k].kind # "id"
  <2>2. \A k \in DOMAIN rest : k + 1 \in DOMAIN replies /\ rest[k] = replies[k + 1]
    BY RestIs DEF Session
  <2> QED
    BY <2>2, Zenon DEF Session, Wire, Received
<1>6. CASE Then(rest, "render")
  <2>1. step' = "render" /\ replies' = rest /\ queue' = queue
    BY <1>6, Zenon DEF Then
  <2>2. DOMAIN slots = {} => Filled(desired, slots, DOMAIN slots, 0)
    BY <1>1, FilledNone, FiniteSlots, Zenon
  <2>3. ~ (at' > 1) /\ at' - 1 = 0
    OBVIOUS
  <2>4. Adding'
    <3>1. ~ (at' > 1)
      BY <2>3
    <3>2. NoClear' => NoClear
      BY <2>1, Zenon DEF NoClear
    <3>3. NoClear' => Filled(desired', slots', DOMAIN slots', at' - 1)
      BY <1>2, <2>2, <2>3, <3>2
    <3>4. \A k \in DOMAIN replies' : replies'[k].kind # "id"
      BY <1>5, <2>1, Zenon
    <3> QED
      BY <3>1, <3>3, <3>4, Zenon DEF Adding, Filled
  <2> QED
    BY <2>1, <2>4 DEF Populating, Clearing, Setting, Disabling, Recording, Radio, AboutTarget
<1>7. CASE 1 > Len(desired.nets) /\ Then(rest, "record")
  <2>1. step' = "record" /\ desired'.nets = <<>> /\ DOMAIN slots' = {}
    BY <1>2, <1>3, <1>4, <1>7, Zenon DEF Then
  <2>2. Right'
    <3>1. Right
      BY <1>1, <1>2, <1>3, <1>4, <1>7, Vacant, Zenon
    <3> QED
      BY <3>1, Zenon DEF Right, Holds
  <2> QED
    BY <2>1, <2>2 DEF Populating, Clearing, Adding, Setting, Disabling, Recording, Radio, AboutTarget
<1>8. CASE 1 > Len(desired.nets) /\ ~ desired.joins /\ Ask(rest, "disable_all", 0, Blank)
  <2>1. step' = "disable_all" /\ desired'.nets = <<>>
    BY <1>4, <1>8, Zenon DEF Ask
  <2>2. Holds'
    <3>1. Right
      BY <1>1, <1>2, <1>3, <1>4, <1>8, Vacant, Zenon
    <3> QED
      BY <3>1, Zenon DEF Right, Holds
  <2>3. Disabling'
    BY <1>8, <2>1, <2>2, Zenon DEF Disabling
  <2> QED
    BY <2>1, <2>3 DEF Populating, Clearing, Adding, Setting, Recording, Radio, AboutTarget
<1> QED
  BY <1>6, <1>7, <1>8, Zenon DEF NextNetwork

\* An answer that was waited for, and was the right one.
LEMMA ReadOk ==
    ASSUME Session, NEW r, NEW rest, Reading(r, rest), command_ok(r)
    PROVE  r # NoReply /\ Answered("ok") /\ (Exact => queue = <<>> /\ rest = <<>>)
<1>1. NoReply.kind = "none"
  BY RestIs, Zenon DEF Session
<1>2. r # NoReply /\ r.kind = "ok"
  BY <1>1 DEF command_ok
<1>3. Exact => queue = <<>> /\ rest = <<>>
  BY <1>2, ExactRead
<1> QED
  BY <1>2, <1>3, Zenon DEF Answered, Reading

\* After a network, with all up to it in.
LEMMA PopNext ==
    ASSUME Session, NEW r, NEW rest, Reading(r, rest), command_ok(r), job = "profiles", ~ intruded,
           step \in {"enable", "disable"}, Setting, NextNetwork(rest, at + 1), at' = at + 1,
           UNCHANGED <<desired, slots>>
    PROVE  Populating'
<1>1. /\ desired.nets \in Seq(Networks) /\ Typed /\ 0 \in Nat /\ Blank \in Networks \cup {Blank}
      /\ at \in Nat \ {0} /\ desired.joins \in BOOLEAN
  BY Document, Vars, Zenon DEF Session, Base, ClientTypes
<1>2. step \in AboutTarget /\ step \in ExactSteps
  BY DEF AboutTarget, ExactSteps
<1>3. Exact /\ at <= Len(desired.nets)
  BY <1>2, Zenon DEF Session, Base, Flow, Wire
<1>4. queue = <<>> /\ rest = <<>> /\ Answered("ok")
  BY <1>3, ReadOk
<1>5. Filled(desired, slots, DOMAIN slots, at)
  <2>1. Target = desired.nets[at]
    BY DEF Target
  <2>2. /\ slot \in DOMAIN slots /\ Filled(desired, slots, DOMAIN slots \ {slot}, at - 1)
        /\ slots[slot].net = Target /\ slots[slot].whole
        /\ (step = "enable") <=> (Target \in desired.auto)
        /\ slots[slot].disabled <=> step = "disable"
    BY <1>2, <1>4 DEF Setting
  <2>3. slots[slot].disabled <=> slots[slot].net \notin desired.auto
    BY <2>2
  <2> QED
    BY <1>1, <2>1, <2>2, <2>3, FiniteSlots, FilledMore, Zenon
<1>6. CASE Then(rest, "render")
  <2>1. step' = "render" /\ replies' = <<>> /\ queue' = <<>>
    BY <1>4, <1>6, Zenon DEF Then
  <2>2. at' - 1 = at /\ DOMAIN <<>> = {}
    BY <1>1
  <2>3. Filled(desired', slots', DOMAIN slots', at' - 1)
    BY <1>5, <2>2
  <2>4. Adding'
    BY <2>1, <2>2, <2>3, Zenon DEF Adding, Filled
  <2> QED
    BY <2>1, <2>4 DEF Populating, Clearing, Setting, Disabling, Recording, Radio, AboutTarget
<1>7. at + 1 > Len(desired.nets) => Holds /\ \A i \in DOMAIN slots : slots[i].disabled <=> slots[i].net \notin desired.auto
  <2> SUFFICES ASSUME at + 1 > Len(desired.nets)
               PROVE  Holds /\ \A i \in DOMAIN slots : slots[i].disabled <=> slots[i].net \notin desired.auto
    BY Zenon
  <2>1. at = Len(desired.nets)
    BY <1>1, <1>3
  <2> QED
    BY <1>1, <1>5, <2>1, FilledAll, Zenon
<1>8. CASE at + 1 > Len(desired.nets) /\ desired.joins /\ Then(rest, "record")
  <2>1. step' = "record" /\ queue' = <<>>
    BY <1>4, <1>8, Zenon DEF Then
  <2>2. Right
    BY <1>7, <1>8, Zenon DEF Right
  <2>3. Right'
    BY <2>2, Zenon DEF Right, Holds
  <2> QED
    BY <2>1, <2>3 DEF Populating, Clearing, Adding, Setting, Disabling, Recording, Radio, AboutTarget
<1>9. CASE at + 1 > Len(desired.nets) /\ ~ desired.joins /\ Ask(rest, "disable_all", 0, Blank)
  <2>1. "disable_all" \in Commands /\ step \notin {"idle", "ping"}
    BY DEF Commands
  <2>2. step' = "disable_all" /\ Exact' /\ replies' = <<>>
    BY <1>1, <1>4, <1>9, <2>1, PopAsk, Zenon
  <2>3. Holds'
    BY <1>7, <1>9, Zenon DEF Holds
  <2>4. Disabling'
    BY <1>9, <2>2, <2>3, Zenon DEF Disabling, Answered
  <2> QED
    BY <2>2, <2>4 DEF Populating, Clearing, Adding, Setting, Recording, Radio, AboutTarget
<1> QED
  BY <1>6, <1>8, <1>9, Zenon DEF NextNetwork

\* The command that empties the supplicant is sent.
LEMMA PopClear ==
    ASSUME Session, NEW rest, Ask(rest, "clear", 0, Blank), step \notin {"idle", "ping"}, ~ intruded,
           desired' = desired, desired.nets = <<>> => queue = <<>> /\ rest = <<>>
    PROVE  Populating'
<1>1. "clear" \in Commands /\ 0 \in Nat /\ Blank \in Networks \cup {Blank}
  BY DEF Commands
<1>2. step' = "clear" /\ ~ NoClear' /\ (desired.nets = <<>> => Exact')
  BY <1>1, PopAsk, Zenon
<1>3. Clearing'
  BY <1>2, Zenon DEF Clearing
<1> QED
  BY <1>2, <1>3 DEF Populating, Adding, Setting, Disabling, Recording, AboutTarget

\* One setting of the radio after the other.
LEMMA PopRadio ==
    ASSUME Session, NEW r, NEW rest, Reading(r, rest), NEW v \in Radio, Ask(rest, v, 0, Blank),
           step \in Radio \cup {"clear"}, step = "clear" => command_ok(r), ~ intruded, Clearing,
           UNCHANGED <<desired, slots>>
    PROVE  Populating'
<1>1. v \in Commands /\ v # "clear" /\ 0 \in Nat /\ Blank \in Networks \cup {Blank} /\ step \notin {"idle", "ping"}
  BY DEF Commands, Radio
<1>2. step' = v /\ (NoClear' <=> NoClear)
  BY <1>1, PopAsk, Zenon
<1>3. desired.nets = <<>> => NoClear
  <2>1. CASE step = "clear"
    <3>1. desired.nets = <<>> => queue = <<>>
      BY <2>1, ReadOk DEF Clearing
    <3>2. queue = <<>> => NoClear
      BY DEF NoClear
    <3> QED
      BY <3>1, <3>2, Zenon
  <2>2. CASE step # "clear"
    BY <2>2, Zenon DEF Clearing
  <2> QED
    BY <2>1, <2>2, Zenon
<1>4. Clearing'
  BY <1>1, <1>2, <1>3, Zenon DEF Clearing
<1> QED
  BY <1>2, <1>4 DEF Populating, Adding, Setting, Disabling, Recording, Radio, AboutTarget

\* ADD_NETWORK was answered by a number.
LEMMA PopNumber ==
    ASSUME Session, NEW r, NEW rest, Reading(r, rest), IsReply(r), r.kind = "id", step = "add",
           job = "profiles", ~ intruded, Adding, Ask(rest, "ssid", r.id, Target), slot' = r.id,
           UNCHANGED <<desired, slots, at>>
    PROVE  Populating'
<1>1. "ssid" \in Commands /\ Target \in Networks \cup {Blank} /\ r.id \in Nat /\ step \notin {"idle", "ping"}
  BY TargetIs DEF Commands, Session, IsReply
<1>2. 1 \in DOMAIN replies /\ r = replies[1]
  BY RestIs DEF Session
<1>3. queue = <<>> /\ 1 = Len(replies)
  BY <1>2, Zenon DEF Session, Wire, Received
<1>4. rest = <<>>
  <2>1. \A n \in Nat : 1 = n => n <= 1
    OBVIOUS
  <2>2. Len(replies) \in Nat
    BY WireTypes, Zenon DEF Session
  <2>3. Len(replies) <= 1
    BY <1>3, <2>1, <2>2, Zenon
  <2> QED
    BY <2>3, RestIs, Zenon DEF Session
<1>5. step' = "ssid" /\ replies' = <<>>
  BY <1>1, <1>4, PopAsk, Zenon
<1>6. NoClear
  BY <1>3 DEF NoClear
<1>7. r.id \in DOMAIN slots /\ Filled(desired, slots, DOMAIN slots \ {r.id}, at - 1)
  BY <1>2, <1>6, Zenon DEF Adding
<1>8. slot' \in DOMAIN slots' /\ Filled(desired', slots', DOMAIN slots' \ {slot'}, at' - 1)
  BY <1>7, Zenon
<1>9. Setting'
  BY <1>5, <1>8, Zenon DEF Setting, Filled, Answered
<1> QED
  BY <1>5, <1>9 DEF Populating, Clearing, Adding, Disabling, Recording, Radio

\* A setting was taken, or the network is removed.
LEMMA PopSetting ==
    ASSUME Session, NEW r, NEW rest, Reading(r, rest), send_setting(r, rest), job = "profiles",
           ~ intruded, Setting, UNCHANGED <<desired, slots>>
    PROVE  Populating'
<1>1. /\ step \in {"ssid", "key"} /\ UNCHANGED <<slot, at, want>> /\ Exact /\ step \in AboutTarget
      /\ step \notin {"idle", "ping"} /\ Target \in Networks \cup {Blank} /\ slot \in Nat
      /\ Blank \in Networks \cup {Blank}
  <2>1. step \in {"ssid", "key"} /\ UNCHANGED <<slot, at, want>>
    BY Zenon DEF send_setting
  <2>2. step \in AboutTarget /\ step \in ExactSteps /\ step \notin {"idle", "ping"}
    BY <2>1 DEF AboutTarget, ExactSteps
  <2> QED
    BY <2>1, <2>2, TargetIs, Vars, Zenon DEF Session, Wire, ClientTypes
<1>2. CASE Ask(rest, "remove", slot, Blank)
  BY <1>2, PopQuiet, Zenon DEF Ask
<1>3. /\ slot' \in DOMAIN slots' /\ Filled(desired', slots', DOMAIN slots' \ {slot'}, at' - 1)
      /\ Answered("ok") => slots'[slot'].net = Target
      /\ step = "key" => slots'[slot'].net = Target /\ (Answered("ok") => slots'[slot'].whole)
  <2>1. /\ slot \in DOMAIN slots /\ Filled(desired, slots, DOMAIN slots \ {slot}, at - 1)
        /\ Answered("ok") => slots[slot].net = Target
        /\ step = "key" => slots[slot].net = Target /\ (Answered("ok") => slots[slot].whole)
    BY <1>1 DEF Setting
  <2> QED
    BY <1>1, <2>1, Zenon
<1>4. ASSUME command_ok(r), NEW v \in {"key", "enable", "disable"}, NEW n \in Networks \cup {Blank},
             Ask(rest, v, slot, n), v # "key" => step = "key",
             v # "key" => ((v = "enable") <=> (Target \in desired.auto))
      PROVE  Populating'
  <2>1. queue = <<>> /\ rest = <<>> /\ Answered("ok")
    BY <1>1, <1>4, ReadOk
  <2>2. v \in Commands
    BY <1>4 DEF Commands
  <2>3. step' = v /\ replies' = <<>> /\ job' = job
    BY <1>1, <1>4, <2>1, <2>2, PopAsk, Zenon
  <2>4. Target' = Target
    BY <1>1, <2>3, Zenon DEF Target
  <2>5. /\ slots'[slot'].net = Target'
        /\ v # "key" => slots'[slot'].whole /\ ((v = "enable") <=> (Target' \in desired'.auto))
        /\ ~ Answered("ok")'
    BY <1>3, <1>4, <2>1, <2>3, <2>4, Zenon DEF Answered
  <2>6. Setting'
    <3>1. v \in {"enable", "disable"} => v # "key"
      OBVIOUS
    <3> QED
      BY <1>3, <2>3, <2>5, <3>1, Zenon DEF Setting, Filled
  <2> QED
    BY <2>3, <2>6 DEF Populating, Clearing, Adding, Disabling, Recording, Radio
<1> QED
  BY <1>1, <1>2, <1>4, Zenon DEF send_setting

\* All networks were disabled, which is the last command of a population.
LEMMA PopDisabled ==
    ASSUME Session, NEW r, NEW rest, Reading(r, rest), command_ok(r), step = "disable_all",
           Disabling, Then(rest, "record"), UNCHANGED <<desired, slots>>
    PROVE  Populating'
<1>1. step' = "record" /\ queue' = queue /\ Typed
  BY Zenon DEF Then, Session, Base
<1>2. Right
  <2>1. CASE desired.nets = <<>>
    BY <1>1, <2>1, Vacant, Zenon DEF Disabling
  <2>2. CASE desired.nets # <<>>
    <3>1. Answered("ok")
      BY ReadOk, Zenon
    <3> QED
      BY <2>2, <3>1, Zenon DEF Disabling, Right
  <2> QED
    BY <2>1, <2>2, Zenon
<1>3. Right'
  BY <1>2, Zenon DEF Right, Holds
<1>4. desired.nets # <<>> => queue = <<>>
  BY ReadOk, Zenon DEF Disabling
<1> QED
  BY <1>1, <1>3, <1>4 DEF Populating, Clearing, Adding, Setting, Disabling, Recording, Radio, AboutTarget

\* One case for each handler.
LEMMA PopHandle ==
    ASSUME Session, PopInv, NEW r, NEW rest, Reading(r, rest), IsReply(r), Handle(r, rest),
           UNCHANGED <<desired, slots>>
    PROVE  PopInv'
<1> SUFFICES ASSUME job' = "profiles", ~ intruded' PROVE Populating'
  BY Zenon DEF PopInv
<1>0. ~ client_free
  BY DEF client_free
<1>1. job = "profiles" /\ ~ intruded /\ step # "idle"
  <2>1. step # "idle" /\ job' = job /\ intruded' = intruded
    BY <1>0, Handles, Zenon DEF Moves, Going, Ask, Then
  <2> QED
    BY <2>1, Zenon
<1>2. Populating
  BY <1>1, Zenon DEF PopInv
<1>3. CASE Pinged(r, rest)
  BY <1>0, <1>1, <1>3, PopQuiet, Zenon DEF Pinged, Ask
<1>4. CASE \/ observe_supplicants(r, rest) \/ Selected(r, rest) \/ Removed(r, rest)
           \/ wifi_connect(r, rest) \/ Attached(r, rest)
  <2>1. step # "attach"
    BY <1>1 DEF Session, Base, Flow
  <2> QED
    BY <1>0, <1>1, <1>4, <2>1, Zenon
       DEF observe_supplicants, Selected, Removed, wifi_connect, Attached
<1>5. CASE update_config(r, rest)
  <2>1. step = "update_config" /\ r # NoReply /\ (Ask(rest, "list", 0, Blank) \/ Ask(rest, "clear", 0, Blank))
    BY <1>0, <1>5, Zenon DEF update_config
  <2>2. Exact
    BY <2>1 DEF Session, Wire, ExactSteps
  <2>3. queue = <<>> /\ rest = <<>>
    BY <2>1, <2>2, ExactRead
  <2>4. CASE Ask(rest, "list", 0, Blank)
    BY <2>4, PopQuiet, Zenon DEF Ask
  <2>5. step \notin {"idle", "ping"}
    BY <2>1
  <2> QED
    BY <1>1, <2>1, <2>3, <2>4, <2>5, PopClear, Zenon
<1>6. CASE enable_only(r, rest)
  <2>1. step \in {"list", "enable_listed"}
    BY <1>6, Zenon DEF enable_only
  <2>2. desired.nets # <<>> /\ step \notin {"idle", "ping"}
    BY <1>1, <2>1 DEF Session, Base, Flow
  <2>3. ASSUME NEW ids, EnableNext(rest, ids) PROVE Populating'
    BY <1>0, <2>3, PopQuiet, Zenon DEF EnableNext, Ask
  <2> QED
    BY <1>1, <1>6, <2>2, <2>3, PopClear, Zenon DEF enable_only
<1>7. CASE set_radio(r, rest)
  <2>1. CASE step \in DOMAIN Following /\ (command_ok(r) \/ step = "okc") /\ Ask(rest, Following[step], 0, Blank)
    <3>1. step \in {"clear", "lifetime", "preassoc", "okc"}
      BY <2>1 DEF Following
    <3>2. Following[step] \in Radio /\ step \in Radio \cup {"clear"} /\ (step = "clear" => command_ok(r))
      BY <2>1, <3>1 DEF Following, Radio
    <3> QED
      BY <1>1, <1>2, <2>1, <3>2, PopRadio, Zenon DEF Populating
  <2>2. CASE step = "sae_pwe" /\ NextNetwork(rest, 1) /\ at' = 1
    BY <1>2, <2>2, PopFirst, Zenon DEF Populating
  <2> QED
    BY <1>0, <1>7, <2>1, <2>2, Zenon DEF set_radio
<1>8. CASE DisabledAll(r, rest)
  BY <1>0, <1>2, <1>8, PopDisabled, Zenon DEF DisabledAll, Populating
<1>9. CASE new_network_id(r, rest)
  BY <1>0, <1>1, <1>2, <1>9, PopNumber, Zenon DEF new_network_id, Populating
<1>10. CASE send_setting(r, rest)
  BY <1>1, <1>2, <1>10, PopSetting, Zenon DEF Populating
<1>11. CASE add_network(r, rest)
  <2>1. job # "connect"
    BY <1>1
  <2> QED
    BY <1>0, <1>1, <1>2, <1>11, <2>1, PopNext, Zenon DEF add_network, Populating
<1> QED
  BY <1>3, <1>4, <1>5, <1>6, <1>7, <1>8, <1>9, <1>10, <1>11, Zenon DEF Handle

-------------------------------------------------------------------------------
(* The supplicant's part in it.                                            *)

\* Nothing but ADD_NETWORK adds.
LEMMA EmptyKept ==
    ASSUME Typed, NEW c \in Cmd, NEW a, Done(c, a) \/ Missing(c, a) \/ Refused(c, a),
           c.verb # "add", DOMAIN slots = {}
    PROVE  DOMAIN slots' = {}
<1>1. \A i \in DOMAIN slots' : i \in DOMAIN slots \/ c.verb = "add"
  BY Effects, Zenon
<1> QED
  BY <1>1, Zenon

\* REMOVE_NETWORK all is never refused.
LEMMA ClearDone ==
    ASSUME NEW c \in Cmd, NEW a, Done(c, a) \/ Missing(c, a) \/ Refused(c, a), c.verb = "clear"
    PROVE  DOMAIN slots' = {}
<1>1. c.verb \notin AboutSlot \cup Refusable
  BY DEF AboutSlot, Refusable
<1>2. slots' = NoSlots
  BY <1>1, Others, Zenon DEF Done, Missing, Refused
<1>3. DOMAIN NoSlots = {}
  BY DEF NoSlots
<1> QED
  BY <1>2, <1>3, Zenon

\* While the radio is set.
LEMMA ServeClearing ==
    ASSUME Session, Clearing, step \in Radio \cup {"clear"}, NEW c, NEW a, Served(c, a)
    PROVE  Clearing'
<1>1. Typed /\ c \in Cmd /\ (Done(c, a) \/ Missing(c, a) \/ Refused(c, a)) /\ UNCHANGED <<desired, step>>
  BY Zenon DEF Session, Base, Served
<1>2. c.verb # "add"
  BY DEF Served, Radio
<1>3. NoClear' => DOMAIN slots' = {}
  <2>1. CASE c.verb = "clear"
    BY <1>1, <2>1, ClearDone, Zenon
  <2>2. CASE c.verb # "clear"
    <3>1. NoClear' => DOMAIN slots = {}
      BY <2>2, Zenon DEF Served, Clearing
    <3> QED
      BY <1>1, <1>2, <3>1, EmptyKept, Zenon
  <2> QED
    BY <2>1, <2>2, Zenon
<1>4. desired.nets = <<>> => IF step = "clear" THEN Exact' ELSE NoClear'
  BY Zenon DEF Served, Clearing
<1> QED
  BY <1>1, <1>3, <1>4, Zenon DEF Clearing

\* While a network is being added.
LEMMA ServeAdding ==
    ASSUME Session, Adding, step \in {"render", "add"}, NEW c, NEW a, Served(c, a), queue # <<>>
    PROVE  Adding'
<1>1. /\ Typed /\ c \in Cmd /\ (Done(c, a) \/ Missing(c, a) \/ Refused(c, a))
      /\ UNCHANGED <<desired, step, at>> /\ NoNumber
  BY Zenon DEF Session, Base, Served
<1>2. at \in Nat \ {0}
  BY Vars, Zenon DEF Session, ClientTypes
<1>3. at > 1 => step = "add" /\ Exact /\ Exact' /\ c.verb = "add"
  BY Zenon DEF Adding, Served
<1>4. NoClear => Filled(desired, slots, DOMAIN slots, at - 1)
  BY <1>1, Zenon DEF Adding
<1>5. CASE c.verb = "add"
  <2>1. NoClear' => NoClear
    BY <1>5 DEF Served
  <2>2. /\ a.kind = "id" => Done(c, a) /\ a.id = NewId
        /\ a.kind # "id" => slots' = slots
    BY <1>1, <1>5, AnswersIs, Zenon
  <2>3. CASE a.kind # "id"
    <3>1. NoClear' => Filled(desired', slots', DOMAIN slots', at' - 1)
      BY <1>1, <1>4, <2>1, <2>2, <2>3, Zenon
    <3>2. NoNumber'
      BY <2>3, Zenon DEF NoNumber, Served
    <3> QED
      BY <1>1, <1>3, <3>1, <3>2, Zenon DEF Adding, Filled, NoNumber
  <2>4. CASE a.kind = "id"
    <3> DEFINE new == [net |-> Blank, whole |-> FALSE, disabled |-> TRUE]
    <3>1. slots' = [i \in DOMAIN slots \cup {NewId} |-> IF i = NewId THEN new ELSE slots[i]]
      BY <1>5, <2>2, <2>4, Others, Zenon DEF Done
    <3>2. NewId \notin DOMAIN slots
      BY <1>1, NewIdIsNew
    <3> HIDE DEF new
    <3>3. /\ NewId \in DOMAIN slots' /\ DOMAIN slots' \ {NewId} = DOMAIN slots
          /\ \A i \in DOMAIN slots : slots'[i] = slots[i]
      <4>1. DOMAIN slots' = DOMAIN slots \cup {NewId}
        BY <3>1, Zenon
      <4> QED
        BY <3>1, <3>2, <4>1, Zenon
    <3>4. NoClear' => Filled(desired, slots', DOMAIN slots, at - 1)
      BY <1>4, <2>1, <3>3, FilledSame, Zenon
    <3>5. ~ NoNumber'
      BY <2>4, Zenon DEF Served, NoNumber
    <3>6. NoClear' => \A k \in DOMAIN replies' : replies'[k].kind = "id" =>
              /\ replies'[k].id \in DOMAIN slots'
              /\ Filled(desired', slots', DOMAIN slots' \ {replies'[k].id}, at' - 1)
      <4> SUFFICES ASSUME NoClear', NEW k \in DOMAIN replies', replies'[k].kind = "id"
                   PROVE  /\ replies'[k].id \in DOMAIN slots'
                          /\ Filled(desired', slots', DOMAIN slots' \ {replies'[k].id}, at' - 1)
        BY Zenon
      <4>1. replies'[k].id = NewId
        BY <2>2, <2>4, Zenon DEF Served
      <4> QED
        BY <1>1, <3>3, <3>4, <4>1, Zenon
    <3> QED
      BY <1>1, <1>3, <3>5, <3>6, Zenon DEF Adding, Filled
  <2> QED
    BY <2>3, <2>4, Zenon
<1>6. CASE c.verb # "add"
  <2>1. at = 1
    BY <1>2, <1>3, <1>6
  <2>2. NoClear => DOMAIN slots = {}
    <3>1. at - 1 = 0
      BY <2>1
    <3>2. NoClear => Filled(desired, slots, DOMAIN slots, 0)
      BY <1>4, <3>1
    <3> QED
      BY <1>1, <3>2, FilledNone, FiniteSlots, Zenon
  <2>3. NoClear' => DOMAIN slots' = {}
    BY <1>1, <1>6, <2>2, ClearDone, EmptyKept, Zenon DEF Served
  <2>4. NoClear' => Filled(desired', slots', DOMAIN slots', at' - 1)
    <3>1. at' - 1 = 0
      BY <1>1, <2>1
    <3>2. IsFiniteSet({})
      BY FS_EmptySet, Zenon
    <3>3. DOMAIN slots' = {} => Filled(desired', slots', DOMAIN slots', 0)
      BY <3>2, FilledNone, Zenon
    <3> QED
      BY <2>3, <3>1, <3>3
  <2>5. NoNumber'
    <3>1. a.kind # "id"
      BY <1>1, <1>6, AnswersIs, Zenon
    <3> QED
      BY <3>1, Zenon DEF Served, NoNumber
  <2>6. ~ (at' > 1)
    BY <1>1, <2>1
  <2> QED
    BY <2>4, <2>5, <2>6, Zenon DEF Adding, Filled, NoNumber
<1> QED
  BY <1>5, <1>6, Zenon

\* What the execution of a command about the target leaves.
LEMMA Settings ==
    ASSUME Typed, NEW c \in Cmd, NEW a, Done(c, a), c.verb \in AboutTarget \cup {"disable_all"}
    PROVE  /\ DOMAIN slots' = DOMAIN slots
           /\ \A i \in DOMAIN slots :
                  /\ slots'[i].net = IF c.verb = "ssid" /\ i = c.id THEN c.net ELSE slots[i].net
                  /\ slots[i].whole => slots'[i].whole
                  /\ c.verb = "key" /\ i = c.id => slots'[i].whole
                  /\ i # c.id => slots'[i].whole = slots[i].whole
                  /\ c.verb # "disable_all" /\ i # c.id => slots'[i].disabled = slots[i].disabled
                  /\ c.verb = "enable" /\ i = c.id => ~ slots'[i].disabled
                  /\ c.verb = "disable" /\ i = c.id => slots'[i].disabled
                  /\ c.verb = "disable_all" => slots'[i].disabled
<1>1. c.verb \in Changing /\ c.verb # "select" /\ c.verb # "enable_listed"
  BY DEF AboutTarget, Changing
<1>2. Present(c) /\ slots' = Does(c)
  BY Zenon DEF Done
<1>3. DOMAIN slots' = DOMAIN slots /\ \A i \in DOMAIN slots : ChangedBy(c, i)
  BY <1>1, <1>2, Changes, Zenon
<1>4. \A i \in DOMAIN slots : slots[i].disabled \in BOOLEAN /\ slots[i].whole \in BOOLEAN
  BY DEF Typed, TypeOK, IsSlots, Slot
<1>5. "enable" \in Enabling /\ "disable" \notin Enabling /\ "disable_all" \notin Enabling
      /\ "ssid" \notin Enabling /\ "key" \notin Enabling
  BY DEF Enabling
<1> SUFFICES ASSUME NEW i \in DOMAIN slots
    PROVE /\ slots'[i].net = IF c.verb = "ssid" /\ i = c.id THEN c.net ELSE slots[i].net
          /\ slots[i].whole => slots'[i].whole
          /\ c.verb = "key" /\ i = c.id => slots'[i].whole
          /\ i # c.id => slots'[i].whole = slots[i].whole
          /\ c.verb # "disable_all" /\ i # c.id => slots'[i].disabled = slots[i].disabled
          /\ c.verb = "enable" /\ i = c.id => ~ slots'[i].disabled
          /\ c.verb = "disable" /\ i = c.id => slots'[i].disabled
          /\ c.verb = "disable_all" => slots'[i].disabled
  BY <1>3, Zenon
<1>6. /\ slots'[i].net = IF c.verb = "ssid" /\ i = c.id THEN c.net ELSE slots[i].net
      /\ slots'[i].whole = ((c.verb = "key" /\ i = c.id) \/ slots[i].whole)
      /\ slots'[i].disabled = (Disables(c, i) \/ (slots[i].disabled /\ ~ (c.verb \in Enabling /\ i = c.id)))
  BY <1>2, <1>3, Zenon DEF ChangedBy
<1>7. Disables(c, i) <=> c.verb = "disable_all" \/ (c.verb = "disable" /\ i = c.id)
  BY <1>1, Zenon DEF Disables
<1>8. i # c.id => slots'[i].whole = slots[i].whole
  BY <1>4, <1>6, Zenon
<1>9. c.verb # "disable_all" /\ i # c.id => slots'[i].disabled = slots[i].disabled
  BY <1>4, <1>6, <1>7, Zenon
<1>10. c.verb = "enable" /\ i = c.id => ~ slots'[i].disabled
  <2>1. c.verb = "enable" => c.verb # "disable" /\ c.verb # "disable_all"
    OBVIOUS
  <2> QED
    BY <1>5, <1>6, <1>7, <2>1, Zenon
<1> QED
  BY <1>6, <1>7, <1>8, <1>9, <1>10, Zenon

\* While a network is being set.
LEMMA ServeSetting ==
    ASSUME Session, Setting, step \in AboutTarget, NEW c, NEW a, Served(c, a), queue # <<>>
    PROVE  Setting'
<1>1. /\ Typed /\ c \in Cmd /\ (Done(c, a) \/ Missing(c, a) \/ Refused(c, a))
      /\ UNCHANGED <<desired, job, step, at, slot, want>>
  BY Zenon DEF Session, Base, Served
<1>2. Exact
  BY Zenon DEF Session, Wire, ExactSteps
<1>3. c.verb = step /\ replies' # <<>> /\ replies'[1] = a
  BY <1>2, Zenon DEF Served
<1>4. c.id = slot /\ (step \in {"ssid", "key"} => c.net = Target) /\ Target' = Target
  BY <1>1, Zenon DEF Session, Wire, OfTarget, Served, Target
<1>5. /\ slot \in DOMAIN slots
      /\ Filled(desired, slots, DOMAIN slots \ {slot}, at - 1)
      /\ step # "ssid" => slots[slot].net = Target
      /\ step \in {"enable", "disable"} =>
             slots[slot].whole /\ ((step = "enable") <=> (Target \in desired.auto))
  BY Zenon DEF Setting
<1>6. Answered("ok")' => Done(c, a)
  BY <1>1, <1>3, AnswersIs, Zenon DEF Answered
<1>7. CASE ~ Done(c, a)
  <2>1. slots' = slots /\ ~ Answered("ok")'
    BY <1>1, <1>6, <1>7, Zenon DEF Missing, Refused
  <2>2. slot' \in DOMAIN slots' /\ Filled(desired', slots', DOMAIN slots' \ {slot'}, at' - 1)
    BY <1>1, <1>5, <2>1, Zenon
  <2>3. /\ step' # "ssid" => slots'[slot'].net = Target'
        /\ step' \in {"enable", "disable"} =>
               slots'[slot'].whole /\ ((step' = "enable") <=> (Target' \in desired'.auto))
    BY <1>1, <1>4, <1>5, <2>1, Zenon
  <2> QED
    BY <2>1, <2>2, <2>3, Zenon DEF Setting, Filled
<1>8. CASE Done(c, a)
  <2>1. c.verb \in AboutTarget \cup {"disable_all"} /\ c.verb # "disable_all"
    BY <1>3 DEF AboutTarget
  <2>2. /\ DOMAIN slots' = DOMAIN slots
        /\ \A i \in DOMAIN slots :
               /\ slots'[i].net = IF c.verb = "ssid" /\ i = c.id THEN c.net ELSE slots[i].net
               /\ slots[i].whole => slots'[i].whole
               /\ c.verb = "key" /\ i = c.id => slots'[i].whole
               /\ i # c.id => slots'[i].whole = slots[i].whole
               /\ i # c.id => slots'[i].disabled = slots[i].disabled
               /\ c.verb = "enable" /\ i = c.id => ~ slots'[i].disabled
               /\ c.verb = "disable" /\ i = c.id => slots'[i].disabled
    BY <1>1, <1>8, <2>1, Settings, Zenon
  <2>3. Filled(desired', slots', DOMAIN slots' \ {slot'}, at' - 1)
    <3>1. \A i \in DOMAIN slots \ {slot} : /\ slots'[i].net = slots[i].net /\ slots'[i].whole = slots[i].whole
                                           /\ slots'[i].disabled = slots[i].disabled
      BY <1>4, <2>2, Zenon
    <3>2. Filled(desired, slots', DOMAIN slots \ {slot}, at - 1)
      BY <1>5, <3>1, FilledSame, Zenon
    <3> QED
      BY <1>1, <2>2, <3>2, Zenon
  <2>4. /\ slots'[slot].net = Target
        /\ step = "key" => slots'[slot].whole
        /\ step \in {"enable", "disable"} =>
               /\ slots'[slot].whole
               /\ (step = "enable") <=> (Target \in desired.auto)
    BY <1>3, <1>4, <1>5, <2>2, Zenon
  <2>5. step \in {"enable", "disable"} => (slots'[slot].disabled <=> step = "disable")
    <3>1. "enable" # "disable"
      OBVIOUS
    <3> QED
      BY <1>3, <1>4, <1>5, <2>2, <3>1, Zenon
  <2>6. slot' \in DOMAIN slots' /\ slot' = slot /\ step' = step /\ desired' = desired
    BY <1>1, <1>5, <2>2, Zenon
  <2> QED
    BY <1>4, <2>3, <2>4, <2>5, <2>6, Zenon DEF Setting, Filled
<1> QED
  BY <1>7, <1>8, Zenon

\* While all networks are being disabled.
LEMMA ServeDisabling ==
    ASSUME Session, Disabling, step = "disable_all", NEW c, NEW a, Served(c, a)
    PROVE  Disabling'
<1>1. /\ Typed /\ c \in Cmd /\ (Done(c, a) \/ Missing(c, a) \/ Refused(c, a))
      /\ UNCHANGED <<desired, step>>
  BY Zenon DEF Session, Base, Served
<1>2. CASE desired.nets = <<>>
  <2>1. c.verb # "add"
    BY DEF Served
  <2>2. DOMAIN slots = {}
    BY <1>1, <1>2, Vacant, Zenon DEF Disabling
  <2>3. DOMAIN slots' = {}
    BY <1>1, <2>1, <2>2, EmptyKept, Zenon
  <2>4. Holds'
    <3>1. {slots'[i].net : i \in DOMAIN slots'} = {slots[i].net : i \in DOMAIN slots}
      BY <2>2, <2>3, Zenon
    <3> QED
      BY <1>1, <2>2, <2>3, <3>1, Zenon DEF Disabling, Holds
  <2> QED
    BY <1>1, <1>2, <2>4, Zenon DEF Disabling
<1>3. CASE desired.nets # <<>>
  <2>1. Exact' /\ c.verb = "disable_all" /\ Holds /\ ~ desired.joins
    BY <1>3, Zenon DEF Disabling, Served
  <2>2. c.verb \notin AboutSlot \cup Refusable
    BY <2>1 DEF AboutSlot, Refusable
  <2>3. Done(c, a)
    BY <1>1, <2>2, Zenon DEF Missing, Refused
  <2>4. c.verb \in AboutTarget \cup {"disable_all"} /\ c.verb # "ssid"
    BY <2>1
  <2>5. /\ DOMAIN slots' = DOMAIN slots
        /\ \A i \in DOMAIN slots : /\ slots'[i].net = slots[i].net
                                   /\ slots[i].whole => slots'[i].whole
                                   /\ slots'[i].disabled
    BY <1>1, <2>1, <2>3, <2>4, Settings, Zenon
  <2>6. {slots'[i].net : i \in DOMAIN slots'} = {slots[i].net : i \in DOMAIN slots}
    BY <2>5
  <2>7. Holds'
    BY <1>1, <2>1, <2>5, <2>6, Zenon DEF Holds
  <2> QED
    BY <1>1, <2>1, <2>5, <2>7, Zenon DEF Disabling
<1> QED
  BY <1>2, <1>3, Zenon

\* Once all is handed over, nothing is left to be executed that could undo it.
LEMMA ServeRecording ==
    ASSUME Session, Recording, step = "record", NEW c, NEW a, Served(c, a), queue # <<>>
    PROVE  Recording'
<1>1. /\ Typed /\ c \in Cmd /\ (Done(c, a) \/ Missing(c, a) \/ Refused(c, a))
      /\ UNCHANGED <<desired, step>> /\ desired.nets = <<>> /\ Right
  BY Zenon DEF Session, Base, Served, Recording
<1>2. c.verb # "add"
  BY DEF Served
<1>3. DOMAIN slots = {}
  BY <1>1, Vacant, Zenon DEF Right
<1>4. DOMAIN slots' = {}
  BY <1>1, <1>2, <1>3, EmptyKept, Zenon
<1>5. {slots'[i].net : i \in DOMAIN slots'} = {slots[i].net : i \in DOMAIN slots}
  BY <1>3, <1>4, Zenon
<1>6. Right'
  BY <1>1, <1>3, <1>4, <1>5, Zenon DEF Right, Holds
<1> QED
  BY <1>1, <1>6, Zenon DEF Recording

\* The supplicant executes the oldest command.
LEMMA PopServe == ASSUME Session, PopInv, Serve PROVE PopInv'
<1> SUFFICES ASSUME job' = "profiles", ~ intruded' PROVE Populating'
  BY Zenon DEF PopInv
<1>1. UNCHANGED <<job, step, intruded>>
  BY ServeIs, Zenon DEF Session
<1>2. Populating
  BY <1>1, Zenon DEF PopInv
<1>3. step # "idle"
  BY <1>1, Vars DEF Session, ClientTypes
<1>4. CASE step = "ping"
  BY <1>1, <1>4, PopQuiet, Zenon
<1>5. CASE step # "ping"
  <2>1. queue # <<>> /\ \E a : Served(queue[1], a)
    BY <1>3, <1>5, ServedIs, Zenon
  <2>2. PICK c, a : Served(c, a)
    BY <2>1, Zenon
  <2>3. Clearing'
    BY <1>1, <1>2, <2>2, ServeClearing, Zenon DEF Populating, Clearing
  <2>4. Adding'
    BY <1>1, <1>2, <2>1, <2>2, ServeAdding, Zenon DEF Populating, Adding
  <2>5. Setting'
    BY <1>1, <1>2, <2>1, <2>2, ServeSetting, Zenon DEF Populating, Setting
  <2>6. Disabling'
    BY <1>1, <1>2, <2>2, ServeDisabling, Zenon DEF Populating, Disabling
  <2>7. Recording'
    BY <1>1, <1>2, <2>1, <2>2, ServeRecording, Zenon DEF Populating, Recording
  <2> QED
    BY <2>3, <2>4, <2>5, <2>6, <2>7, Zenon DEF Populating
<1> QED
  BY <1>4, <1>5, Zenon

\* The next network is rendered, and asked a slot for.
LEMMA PopRender == ASSUME Session, PopInv, Render PROVE PopInv'
<1> SUFFICES ASSUME job' = "profiles", ~ intruded' PROVE Populating'
  BY Zenon DEF PopInv
<1>1. step = "render" /\ UNCHANGED <<desired, slots, at>> /\ (client_free \/ Ask(replies, "add", 0, Blank))
  BY Zenon DEF Render, machine
<1>2. Ask(replies, "add", 0, Blank)
  BY <1>1 DEF client_free
<1>3. job = "profiles" /\ ~ intruded
  BY <1>2, Zenon DEF Ask
<1>4. Adding
  BY <1>3, Zenon DEF PopInv, Populating
<1>5. "add" \in Commands /\ 0 \in Nat /\ Blank \in Networks \cup {Blank} /\ step \notin {"idle", "ping"}
      /\ "add" # "clear"
  BY <1>1 DEF Commands
<1>6. /\ step' = "add" /\ replies' = replies
      /\ NoClear' <=> NoClear
      /\ queue = <<>> /\ replies = <<>> => Exact'
  BY <1>2, <1>3, <1>5, PopAsk, Zenon
<1>7. at' > 1 => Exact'
  BY <1>1, <1>4, <1>6 DEF Adding
<1>8. /\ NoClear /\ NoNumber => Filled(desired, slots, DOMAIN slots, at - 1)
      /\ NoClear => \A k \in DOMAIN replies : replies[k].kind = "id" =>
             /\ replies[k].id \in DOMAIN slots
             /\ Filled(desired, slots, DOMAIN slots \ {replies[k].id}, at - 1)
  BY <1>1, <1>4, Zenon DEF Adding
<1>9. /\ NoClear /\ NoNumber => Filled(desired', slots', DOMAIN slots', at' - 1)
      /\ NoClear => \A k \in DOMAIN replies' : replies'[k].kind = "id" =>
             /\ replies'[k].id \in DOMAIN slots'
             /\ Filled(desired', slots', DOMAIN slots' \ {replies'[k].id}, at' - 1)
  BY <1>1, <1>6, <1>8, Zenon
<1>10. NoNumber' <=> NoNumber
  BY <1>6, Zenon DEF NoNumber
<1>11. Adding'
  BY <1>6, <1>7, <1>9, <1>10, Zenon DEF Adding, Filled
<1> QED
  BY Zenon, <1>6, <1>11 DEF Populating, Clearing, Setting, Disabling, Recording, Radio, AboutTarget

\* Every step: one case per action.
LEMMA PopStep == Session /\ PopInv /\ [Next]_vars => PopInv'
<1> SUFFICES ASSUME Session, PopInv, [Next]_vars PROVE PopInv'
  BY Zenon
<1>1. CASE Look \/ start_supplicant \/ set_profiles \/ \E n \in Networks : Connect(n)
  <2>1. step' = "ping"
    BY <1>1, Zenon DEF Look, start_supplicant, set_profiles, Connect, connect_within
  <2> QED
    BY <2>1, PopQuiet, Zenon DEF PopInv
<1>2. CASE Receive
  <2>1. replies # <<>> /\ Handle(Head(replies), Tail(replies)) /\ UNCHANGED <<desired, slots>>
    BY <1>2, Zenon DEF Receive, machine
  <2>2. PICK T : replies \in Seq(T)
    BY WireTypes, Zenon DEF Session, IsSeq
  <2>3. Head(replies) = replies[1] /\ 1 \in DOMAIN replies
    BY <2>1, <2>2, TailIs, Zenon
  <2>4. IsReply(Head(replies)) /\ Reading(Head(replies), Tail(replies))
    BY <2>1, <2>3, WireTypes, Zenon DEF Session, AreReplies, Reading
  <2> QED
    BY <2>1, <2>4, PopHandle, Zenon
<1>3. CASE TimeOut
  <2>1. IsReply(NoReply)
    BY DEF NoReply, Reply, IsReply, IsRows, NoSlots
  <2> QED
    BY <1>3, <2>1, PopHandle, Zenon DEF TimeOut, Reading, machine
<1>4. CASE Render
  BY <1>4, PopRender, Zenon
<1>5. CASE record_networks \/ Crash
  <2>1. job' # "profiles"
    BY <1>5 DEF record_networks, Crash, client_free
  <2> QED
    BY <2>1, PopAway, Zenon
<1>6. CASE Serve
  BY <1>6, PopServe, Zenon
<1>7. CASE Intrude \/ (Beside /\ intruded' = TRUE)
  BY <1>7, PopAway, Zenon DEF Intrude
<1>8. ASSUME NEW d \in Documents, Reload(d) PROVE PopInv'
  <2>1. step = "idle" /\ job' = job
    BY <1>8, Zenon DEF Reload, client
  <2>2. job' # "profiles"
    BY <2>1, Vars DEF Session, ClientTypes
  <2> QED
    BY <2>2, PopAway, Zenon
<1>9. CASE \/ UNCHANGED vars \/ LookMisses \/ restrict
           \/ (Beside /\ intruded' # TRUE) \/ \E n \in Networks : JoinBeside(n)
  <2>1. UNCHANGED <<desired, slots, queue, replies, job, step, at, slot, want, intruded>>
    BY <1>9, Zenon DEF LookMisses, restrict, Beside, JoinBeside, vars, machine, wire, client
  <2>2. UNCHANGED <<NoClear, NoNumber, Exact, Target, Holds, Right>>
    BY <2>1 DEF NoClear, NoNumber, Exact, Target, Holds, Right
  <2>3. Clearing => Clearing'
    BY <2>1, <2>2, Zenon DEF Clearing
  <2>4. Adding => Adding'
    <3> SUFFICES ASSUME Adding, step \in {"render", "add"} PROVE Adding'
      BY <2>1, Zenon DEF Adding
    <3>1. at' > 1 => IF step' = "add" THEN Exact' ELSE queue' = <<>> /\ replies' = <<>>
      BY <2>1, <2>2, Zenon DEF Adding
    <3>2. NoClear' /\ NoNumber' => Filled(desired', slots', DOMAIN slots', at' - 1)
      BY <2>1, <2>2, Zenon DEF Adding
    <3>3. NoClear' => \A k \in DOMAIN replies' : replies'[k].kind = "id" =>
              /\ replies'[k].id \in DOMAIN slots'
              /\ Filled(desired', slots', DOMAIN slots' \ {replies'[k].id}, at' - 1)
      BY <2>1, <2>2, Zenon DEF Adding
    <3> QED
      BY <3>1, <3>2, <3>3, Zenon DEF Adding, Filled
  <2>5. Setting => Setting'
    <3> SUFFICES ASSUME Setting, step \in AboutTarget PROVE Setting'
      BY <2>1, Zenon DEF Setting
    <3>1. slot' \in DOMAIN slots' /\ Filled(desired', slots', DOMAIN slots' \ {slot'}, at' - 1)
      BY <2>1, Zenon DEF Setting
    <3>2. Answered("ok")' <=> Answered("ok")
      BY <2>1, Zenon DEF Answered
    <3>3. /\ step' # "ssid" \/ Answered("ok")' => slots'[slot'].net = Target'
          /\ step' = "key" /\ Answered("ok")' => slots'[slot'].whole
          /\ step' \in {"enable", "disable"} =>
                 /\ slots'[slot'].whole
                 /\ (step' = "enable") <=> (Target' \in desired'.auto)
                 /\ Answered("ok")' => (slots'[slot'].disabled <=> step' = "disable")
      BY <2>1, <2>2, <3>2, Zenon DEF Setting
    <3> QED
      BY <3>1, <3>3, Zenon DEF Setting, Filled
  <2>6. Disabling => Disabling'
    BY <2>1, <2>2, Zenon DEF Disabling, Answered
  <2>7. Recording => Recording'
    BY <2>1, <2>2, Zenon DEF Recording
  <2> QED
    BY <2>1, <2>3, <2>4, <2>5, <2>6, <2>7, Zenon DEF PopInv, Populating
<1> QED
  BY <1>1, <1>2, <1>3, <1>4, <1>5, <1>6, <1>7, <1>8, <1>9, Zenon DEF Next, Loop, Client

\* When set_profiles has come to its record, the supplicant holds exactly the
\* document's networks, each once, with all of its settings and enabled as the
\* document says: for any number of networks, and whatever was refused, answered
\* late or left over by an earlier connection.  It is said only where nobody else,
\* such as a request to join on a second connection, changed them meanwhile.
THEOREM PopulatedCorrect == Spec => []PopulatedIsHeld
<1>1. Session /\ PopInv => PopulatedIsHeld
  <2> SUFFICES ASSUME Session, PopInv, step = "record", ~ intruded PROVE Right
    BY Zenon DEF PopulatedIsHeld, Right
  <2>1. job = "profiles"
    BY DEF Session, Base, Flow
  <2> QED
    BY <2>1, Zenon DEF PopInv, Populating, Recording
<1>2. Init => Session /\ PopInv
  <2>1. Init => job # "profiles"
    BY DEF Init
  <2> QED
    BY <2>1, SessionInit, Zenon DEF PopInv
<1>3. Session /\ PopInv /\ [Next]_vars => (Session /\ PopInv)'
  BY SessionStep, PopStep, Zenon
<1> QED
  BY <1>1, <1>2, <1>3, PTL DEF Spec
====
