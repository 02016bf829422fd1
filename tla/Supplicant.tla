------------------------------ MODULE Supplicant ------------------------------
(***************************************************************************)
(* What a radio's wpa_supplicant is given, and what netcfgd believes it    *)
(* holds: backend/supplicant/{client,session}.c, the operations of         *)
(* apply/wifi_ops.c, the question observe/supplicants.c asks, the planner's *)
(* answer to it (plan/wifi.c) and `ncfg wifi connect` (daemon/wifi.c).     *)
(*                                                                         *)
(* A connection sends a command and waits for a datagram until a deadline. *)
(* A command that was given up is executed all the same, and its reply is  *)
(* read as the answer to the next command on that connection.  What        *)
(* netcfgd handed over is remembered as a digest in a file, since          *)
(* LIST_NETWORKS tells names and not credentials; a digest is modelled by  *)
(* what it is taken of.                                                    *)
(*                                                                         *)
(* The daemon's loop is one thread, and `ncfg apply` populates from a      *)
(* process of its own.  apply.lock keeps two populations apart; a request  *)
(* to join takes no lock, so that a second connection, the daemon's, may   *)
(* be open beside the first (JoinBeside, Beside).                          *)
(*                                                                         *)
(* The variables that a network's settings amount to are two: its name,    *)
(* sent first, and the rest ("key").                                       *)
(***************************************************************************)
EXTENDS Integers, Sequences, FiniteSets, FiniteSetsExt

CONSTANTS
    Networks,     \* network blocks: a name with one credential
    Ssid,         \* the name of each
    Documents,    \* networks in order, those that join by themselves, and
                  \* whether the radio does
    First,        \* the document at the start
    Blank,        \* no network, no name
    NoRecord,     \* no record file
    Torn,         \* a record file that holds no digest
    MaxEdits,     \* bound: documents adopted
    MaxConnects,  \* bound: requests to join a network
    MaxTroubles,  \* bound: the supplicant dies or is emptied by others, netcfgd
                  \* dies, a request to join beside another connection, all
                  \* together
    MaxFaults     \* bound: timeouts, refusals, networks that cannot be
                  \* rendered, records that cannot be written, all together

ASSUME SupplicantAssumption ==
    /\ Blank \notin Networks
    /\ DOMAIN Ssid = Networks
    /\ \A n \in Networks : Ssid[n] # Blank
    /\ \A d \in Documents : /\ d.nets \in Seq(Networks)
                            /\ d.auto \subseteq Networks
                            /\ d.joins \in BOOLEAN
    /\ {NoRecord, Torn} \cap Documents = {}
    /\ First \in Documents
    /\ {MaxEdits, MaxConnects, MaxTroubles, MaxFaults} \subseteq Nat

VARIABLES
    desired,   \* the document the loop works for
    record,    \* <run>/supplicant/<iface>.networks.sha256
    due,       \* the plan holds a wifi.set_profiles
    absent,    \* the plan holds a backend.start of the supplicant
    alive,     \* the supplicant is running
    slots,     \* the networks it holds, by slot number
    queue,     \* commands it has not read
    replies,   \* datagrams in the client's socket
    job,       \* what the connection is used for
    step,      \* the command whose reply it waits for
    at,        \* which of the document's networks is being added
    slot,      \* the slot ADD_NETWORK answered, or the one to select
    todo,      \* slots enable_only has still to enable
    want,      \* the network to join
    other,     \* the command that a second connection sends next
    oslot,     \* the slot it is about
    owant,     \* the network it is to join
    intruded,  \* ghost: somebody else changed the supplicant's networks since
               \* the connection began
    doubt,     \* ghost: netcfgd died, or a second connection changed the
               \* networks, since a population last removed them all
    edits, connects, troubles, faults

client == <<job, step, at, slot, todo, want>>
wire == <<queue, replies>>
machine == <<alive, slots>>
beside == <<other, oslot, owant>>
bounds == <<edits, connects, troubles, faults>>
vars == <<desired, record, due, absent, machine, wire, client, intruded, doubt, beside, bounds>>

Name(n) == IF n = Blank THEN Blank ELSE Ssid[n]

NoSlots == [i \in {} |-> Blank]
Commands == {"ping", "list", "update_config", "enable_listed", "clear", "lifetime",
             "preassoc", "okc", "sae_pwe", "add", "ssid", "key", "remove", "enable",
             "disable", "attach", "select", "disable_all"}

\* A new slot is disabled until ENABLE_NETWORK or SELECT_NETWORK.
Slot == [net : Networks \cup {Blank}, whole : BOOLEAN, disabled : BOOLEAN]
Row == [name : Range(Ssid) \cup {Blank}, disabled : BOOLEAN]

\* What is on the wire: mine tells the open connection's commands from those
\* of a connection that was closed.
Command(verb, i, n) == [verb |-> verb, id |-> i, net |-> n, mine |-> TRUE]
Reply(kind) == [kind |-> kind, id |-> 0, rows |-> NoSlots]
NoReply == Reply("none")

Init ==
    /\ desired = First
    /\ record = NoRecord
    /\ due = FALSE
    /\ alive = FALSE
    /\ slots = NoSlots
    /\ queue = <<>>
    /\ replies = <<>>
    /\ job = "none"
    /\ step = "idle"
    /\ at = 1
    /\ slot = 0
    /\ todo = {}
    /\ want = Blank
    /\ absent = FALSE
    /\ other = "none"
    /\ oslot = 0
    /\ owant = Blank
    /\ intruded = FALSE
    /\ doubt = FALSE
    /\ edits = 0
    /\ connects = 0
    /\ troubles = 0
    /\ faults = 0

-------------------------------------------------------------------------------
(* The connection.  Opening it sends the PING that has to be answered       *)
(* before anything else is sent; closing it leaves the commands already     *)
(* sent with the supplicant, whose replies have nowhere to go.              *)

Orphan(c) == [verb |-> c.verb, id |-> c.id, net |-> c.net, mine |-> FALSE]
Orphaned == [i \in DOMAIN queue |-> Orphan(queue[i])]

connect_within(j) ==
    /\ job' = j
    /\ step' = "ping"
    /\ queue' = IF alive' THEN Append(Orphaned, Command("ping", 0, Blank)) ELSE Orphaned
    /\ replies' = <<>>
    /\ intruded' = FALSE

client_free ==
    /\ job' = "none"
    /\ step' = "idle"
    /\ queue' = Orphaned
    /\ replies' = <<>>
    /\ UNCHANGED intruded

\* The second connection is closed.
NoOther == other' = "none" /\ oslot' = 0 /\ owant' = Blank

\* Send the next command, with what is left in the socket.
Ask(rest, verb, i, n) ==
    /\ step' = verb
    /\ queue' = IF alive THEN Append(queue, Command(verb, i, n)) ELSE queue
    /\ replies' = rest
    /\ UNCHANGED <<job, intruded>>

\* Go on to a step that talks to nobody.
Then(rest, s) ==
    /\ step' = s
    /\ replies' = rest
    /\ UNCHANGED <<queue, job, intruded>>

-------------------------------------------------------------------------------
(* What the document asks for, and what the list of networks can tell.     *)

command_ok(r) == r.kind = "ok"
ask_ok(r) == r.kind \notin {"none", "fail"}

\* LIST_NETWORKS without its heading; any other answer has no such rows.
parse_network_list(r) == IF r.kind = "list" THEN r.rows ELSE NoSlots

\* Slots that are disabled and named like a network that joins by itself.  The
\* first block of the document with the name is the one that counts.
network_for(name) ==
    LET same == {i \in DOMAIN desired.nets : Ssid[desired.nets[i]] = name}
    IN  IF same = {} THEN Blank ELSE desired.nets[Min(same)]
disabled_in(rows) ==
    {i \in DOMAIN rows : rows[i].disabled /\ network_for(rows[i].name) \in desired.auto}

record_says == IF record = NoRecord THEN "absent"
               ELSE IF record = desired THEN "matches" ELSE "differs"
refuted_when_empty(r) ==
    /\ Len(desired.nets) # 0
    /\ ask_ok(r)
    /\ parse_network_list(r) = NoSlots

refuted(r) ==
    /\ Len(desired.nets) # 0
    /\ ask_ok(r)
    /\ \/ parse_network_list(r) = NoSlots
       \/ disabled_in(parse_network_list(r)) # {}

networks_differ_refuted(r) == refuted(r)

\* plan_profiles: absent is not false.
networks_differ(r) == refuted(r) \/ record_says = "differs"

-------------------------------------------------------------------------------
(* Adding a network, for both jobs that do.                                *)

Target == IF job = "connect" THEN want ELSE desired.nets[at]

\* The first network from number k on, or what follows the last.
NextNetwork(rest, k) ==
    \/ /\ k <= Len(desired.nets)
       /\ Then(rest, "render")
    \/ /\ k > Len(desired.nets)
       /\ desired.joins
       /\ Then(rest, "record")
    \/ /\ k > Len(desired.nets)
       /\ ~ desired.joins
       /\ Ask(rest, "disable_all", 0, Blank)

\* The settings are rendered before anything is sent; a network that names
\* access points may not be in the last scan.
Render ==
    /\ step = "render"
    /\ \/ /\ Ask(replies, "add", 0, Blank)
          /\ UNCHANGED faults
       \/ /\ faults < MaxFaults
          /\ faults' = faults + 1
          /\ client_free
    /\ UNCHANGED <<desired, record, due, absent, doubt, beside, machine, at, slot, todo,
                   want, edits, connects, troubles>>

new_network_id_unchecked(r, rest) ==
    /\ step = "add"
    /\ \/ /\ r # NoReply
          /\ Ask(rest, "ssid", r.id, Target)
          /\ slot' = r.id
       \/ /\ r = NoReply
          /\ client_free
          /\ UNCHANGED slot
    /\ UNCHANGED <<due, at, todo, want>>

new_network_id(r, rest) ==
    /\ step = "add"
    /\ \/ /\ r.kind = "id"
          /\ Ask(rest, "ssid", r.id, Target)
          /\ slot' = r.id
       \/ /\ r.kind # "id"
          /\ client_free
          /\ UNCHANGED slot
    /\ UNCHANGED <<due, at, todo, want>>

send_setting_left(r, rest) ==
    /\ step \in {"ssid", "key"}
    /\ \/ /\ command_ok(r)
          /\ step = "ssid"
          /\ Ask(rest, "key", slot, Target)
       \/ /\ command_ok(r)
          /\ step = "key"
          /\ Ask(rest, IF Target \in desired.auto THEN "enable" ELSE "disable", slot, Blank)
       \/ /\ ~ command_ok(r)
          /\ client_free
    /\ UNCHANGED <<due, at, slot, todo, want>>

\* One setting; the first that is not taken has the network removed.
send_setting(r, rest) ==
    /\ step \in {"ssid", "key"}
    /\ \/ /\ command_ok(r)
          /\ step = "ssid"
          /\ Ask(rest, "key", slot, Target)
       \/ /\ command_ok(r)
          /\ step = "key"
          /\ Ask(rest, IF Target \in desired.auto THEN "enable" ELSE "disable", slot, Blank)
       \/ /\ ~ command_ok(r)
          /\ Ask(rest, "remove", slot, Blank)
    /\ UNCHANGED <<due, at, slot, todo, want>>

Removed(r, rest) ==
    /\ step = "remove"
    /\ client_free
    /\ UNCHANGED <<due, at, slot, todo, want>>

add_network(r, rest) ==
    /\ step \in {"enable", "disable"}
    /\ \/ /\ command_ok(r)
          /\ job = "profiles"
          /\ NextNetwork(rest, at + 1)
          /\ at' = at + 1
       \/ /\ command_ok(r)
          /\ job = "connect"
          /\ Ask(rest, "attach", 0, Blank)
          /\ UNCHANGED at
       \/ /\ ~ command_ok(r)
          /\ client_free
          /\ UNCHANGED at
    /\ UNCHANGED <<due, slot, todo, want>>

-------------------------------------------------------------------------------
(* ncfg_service_set_profiles on a radio.                                   *)

\* A FAIL is taken: the supplicant has no configuration to write.
update_config(r, rest) ==
    /\ step = "update_config"
    /\ \/ /\ r = NoReply
          /\ client_free
       \/ /\ r # NoReply
          /\ desired.joins /\ desired.nets # <<>> /\ record = desired
          /\ Ask(rest, "list", 0, Blank)
       \/ /\ r # NoReply
          /\ ~ (desired.joins /\ desired.nets # <<>> /\ record = desired)
          /\ Ask(rest, "clear", 0, Blank)
    /\ UNCHANGED <<due, at, slot, todo, want>>

\* Enable what is disabled and should join, one slot after the other.  Anything
\* that does not fit leads to the full population on the same connection.
EnableNext(rest, ids) ==
    /\ \/ /\ ids = {}
          /\ client_free
       \/ /\ ids # {}
          /\ Ask(rest, "enable_listed", Min(ids), Blank)
    /\ todo' = ids

enable_only_never(r, rest) ==
    /\ job = "profiles"
    /\ step \in {"list", "enable_listed"}
    /\ Ask(rest, "clear", 0, Blank)
    /\ todo' = {}
    /\ UNCHANGED <<due, at, slot, want>>

enable_only(r, rest) ==
    /\ job = "profiles"
    /\ \/ /\ step = "list"
          /\ ask_ok(r)
          /\ Cardinality(DOMAIN parse_network_list(r)) = Len(desired.nets)
          /\ EnableNext(rest, disabled_in(parse_network_list(r)))
       \/ /\ step = "enable_listed"
          /\ command_ok(r)
          /\ EnableNext(rest, todo \ {Min(todo)})
       \/ /\ \/ /\ step = "list"
                /\ \/ ~ ask_ok(r)
                   \/ Cardinality(DOMAIN parse_network_list(r)) # Len(desired.nets)
             \/ /\ step = "enable_listed"
                /\ ~ command_ok(r)
          /\ Ask(rest, "clear", 0, Blank)
          /\ todo' = {}
    /\ UNCHANGED <<due, at, slot, want>>

\* The settings of the radio, of which the last two may be refused.
Following == [clear |-> "lifetime", lifetime |-> "preassoc", preassoc |-> "okc", okc |-> "sae_pwe"]
set_radio(r, rest) ==
    /\ \/ /\ step \in DOMAIN Following
          /\ command_ok(r) \/ step = "okc"
          /\ Ask(rest, Following[step], 0, Blank)
       \/ /\ step \in DOMAIN Following \ {"okc"}
          /\ ~ command_ok(r)
          /\ client_free
       \/ /\ step = "sae_pwe"
          /\ NextNetwork(rest, 1)
    /\ at' = 1
    /\ UNCHANGED <<due, slot, todo, want>>

DisabledAll(r, rest) ==
    /\ step = "disable_all"
    /\ \/ command_ok(r) /\ Then(rest, "record")
       \/ ~ command_ok(r) /\ client_free
    /\ UNCHANGED <<due, at, slot, todo, want>>

\* Best effort: where it cannot be opened the old one stays, where it cannot be
\* written what is left is no digest, and where the digest cannot be taken it is
\* removed.
record_networks ==
    /\ step = "record"
    /\ \/ /\ record' = desired
          /\ UNCHANGED faults
       \/ /\ faults < MaxFaults
          /\ faults' = faults + 1
          /\ record' \in {record, Torn, NoRecord}
    /\ client_free
    /\ UNCHANGED <<desired, due, absent, doubt, beside, machine, at, slot, todo, want,
                   edits, connects, troubles>>

-------------------------------------------------------------------------------
(* The observation, and the request to join a network.                     *)

Pinged_anyway(r, rest) ==
    /\ step = "ping"
    /\ Ask(rest, IF job = "profiles" THEN "update_config" ELSE "list", 0, Blank)
    /\ UNCHANGED <<due, at, slot, todo, want>>

Pinged(r, rest) ==
    /\ step = "ping"
    /\ \/ /\ r.kind # "pong"
          /\ client_free
          /\ UNCHANGED due
       \/ /\ r.kind = "pong"
          /\ job = "profiles"
          /\ Ask(rest, "update_config", 0, Blank)
          /\ UNCHANGED due
       \/ /\ r.kind = "pong"
          /\ job = "connect" \/ (job = "observe" /\ desired.nets # <<>>)
          /\ Ask(rest, "list", 0, Blank)
          /\ UNCHANGED due
       \/ /\ r.kind = "pong"
          /\ job = "observe" /\ desired.nets = <<>>
          /\ due' = networks_differ(NoReply)
          /\ client_free
    /\ UNCHANGED <<at, slot, todo, want>>

observe_supplicants(r, rest) ==
    /\ step = "list"
    /\ job = "observe"
    /\ due' = networks_differ(r)
    /\ client_free
    /\ UNCHANGED <<at, slot, todo, want>>

\* The first slot with the name is selected; a network that is not there is
\* added first.
wifi_connect(r, rest) ==
    LET same == {i \in DOMAIN parse_network_list(r) :
                     parse_network_list(r)[i].name = Ssid[want]}
    IN  /\ step = "list"
        /\ job = "connect"
        /\ \/ /\ ~ ask_ok(r)
              /\ client_free
              /\ UNCHANGED slot
           \/ /\ ask_ok(r)
              /\ same # {}
              /\ Ask(rest, "attach", 0, Blank)
              /\ slot' = Min(same)
           \/ /\ ask_ok(r)
              /\ same = {}
              /\ Then(rest, "render")
              /\ UNCHANGED slot
        /\ UNCHANGED <<due, at, todo, want>>

\* It joins whether or not it could attach.
Attached(r, rest) ==
    /\ step = "attach"
    /\ Ask(rest, "select", slot, Blank)
    /\ UNCHANGED <<due, at, slot, todo, want>>

Selected(r, rest) ==
    /\ step = "select"
    /\ client_free
    /\ UNCHANGED <<due, at, slot, todo, want>>

Handle(r, rest) ==
    \/ Pinged(r, rest)
    \/ observe_supplicants(r, rest)
    \/ wifi_connect(r, rest)
    \/ Attached(r, rest)
    \/ Selected(r, rest)
    \/ update_config(r, rest)
    \/ enable_only(r, rest)
    \/ set_radio(r, rest)
    \/ DisabledAll(r, rest)
    \/ new_network_id(r, rest)
    \/ send_setting(r, rest)
    \/ Removed(r, rest)
    \/ add_network(r, rest)

\* recv returns the oldest datagram, or nothing until the deadline; a
\* supplicant that is gone refuses the command at once.
Receive ==
    /\ replies # <<>>
    /\ Handle(Head(replies), Tail(replies))
    /\ UNCHANGED <<desired, record, absent, doubt, beside, machine, bounds>>

TimeOut ==
    /\ replies = <<>>
    /\ \/ /\ ~ alive
          /\ UNCHANGED faults
       \/ /\ alive
          /\ faults < MaxFaults
          /\ faults' = faults + 1
    /\ Handle(NoReply, <<>>)
    /\ UNCHANGED <<desired, record, absent, doubt, beside, machine, edits, connects,
                   troubles>>

-------------------------------------------------------------------------------
(* The loop between two connections.                                       *)

\* The pass has something to do at the radio.
Planned == due \/ absent

Reload(d) ==
    /\ step = "idle" /\ ~ Planned /\ other = "none"
    /\ edits < MaxEdits
    /\ d # desired
    /\ desired' = d
    /\ edits' = edits + 1
    /\ UNCHANGED <<record, due, absent, machine, wire, client, intruded, doubt, beside,
                   connects, troubles, faults>>

Look ==
    /\ step = "idle" /\ ~ Planned
    /\ alive
    /\ UNCHANGED alive
    /\ connect_within("observe")
    /\ UNCHANGED <<desired, record, due, absent, slots, at, slot, todo, want, doubt, beside,
                   bounds>>

\* The look finds no supplicant, and the plan is to start one.
LookMisses ==
    /\ step = "idle" /\ ~ Planned
    /\ ~ alive
    /\ absent' = TRUE
    /\ UNCHANGED <<desired, record, due, machine, wire, client, intruded, doubt, beside, bounds>>

\* A supplicant that is gone is started, and filling it is part of that.
start_supplicant ==
    /\ step = "idle" /\ absent
    /\ absent' = FALSE
    /\ alive' = TRUE
    /\ connect_within("profiles")
    /\ UNCHANGED <<desired, record, due, slots, at, slot, todo, want, doubt, beside, bounds>>

set_profiles ==
    /\ step = "idle" /\ due
    /\ due' = FALSE
    /\ UNCHANGED alive
    /\ connect_within("profiles")
    /\ UNCHANGED <<desired, record, absent, slots, at, slot, todo, want, doubt, beside, bounds>>

\* What a pass of the loop does with its plan when the radio's policy is not to
\* reconcile, the loop is holding or a window is open.
restrict ==
    /\ step = "idle" /\ Planned
    /\ due' = FALSE
    /\ absent' = FALSE
    /\ UNCHANGED <<desired, record, machine, wire, client, intruded, doubt, beside, bounds>>

Connect(n) ==
    /\ step = "idle" /\ ~ Planned /\ other = "none"
    /\ connects < MaxConnects
    /\ n \in Range(desired.nets)
    /\ want' = n
    /\ connects' = connects + 1
    /\ UNCHANGED alive
    /\ connect_within("connect")
    /\ UNCHANGED <<desired, record, due, absent, slots, at, slot, todo, doubt, beside, edits,
                   troubles, faults>>

\* The process of the connection dies, and the daemon with it or not; a record
\* that was being written is cut short.
Crash ==
    /\ step # "idle" \/ Planned
    /\ troubles < MaxTroubles
    /\ troubles' = troubles + 1
    /\ due' = FALSE
    /\ absent' = FALSE
    /\ record' \in IF step = "record" THEN {record, Torn} ELSE {record}
    /\ client_free
    /\ NoOther \/ UNCHANGED beside
    /\ doubt' = TRUE
    /\ UNCHANGED <<desired, machine, at, slot, todo, want, edits, connects, faults>>

-------------------------------------------------------------------------------
(* wpa_supplicant: it reads commands in the order in which they were sent   *)
(* and answers each.  A command about a slot that is not there fails.       *)

NewId == IF slots = NoSlots THEN 0 ELSE Max(DOMAIN slots) + 1
Without(i) == [k \in DOMAIN slots \ {i} |-> slots[k]]
Rows == [i \in DOMAIN slots |-> [name |-> Name(slots[i].net), disabled |-> slots[i].disabled]]

AboutSlot == {"ssid", "key", "remove", "enable", "disable", "enable_listed", "select"}
Refusable == {"update_config", "lifetime", "preassoc", "okc", "sae_pwe", "add", "ssid", "key"}

Does(c) ==
    CASE c.verb = "clear" -> NoSlots
      [] c.verb = "add" ->
           [i \in DOMAIN slots \cup {NewId} |->
               IF i = NewId THEN [net |-> Blank, whole |-> FALSE, disabled |-> TRUE] ELSE slots[i]]
      [] c.verb = "ssid" -> [slots EXCEPT ![c.id].net = c.net]
      [] c.verb = "key" -> [slots EXCEPT ![c.id].whole = TRUE]
      [] c.verb = "remove" -> Without(c.id)
      [] c.verb \in {"enable", "enable_listed"} -> [slots EXCEPT ![c.id].disabled = FALSE]
      [] c.verb = "disable" -> [slots EXCEPT ![c.id].disabled = TRUE]
      [] c.verb = "select" -> [i \in DOMAIN slots |-> [slots[i] EXCEPT !.disabled = i # c.id]]
      [] c.verb = "disable_all" -> [i \in DOMAIN slots |-> [slots[i] EXCEPT !.disabled = TRUE]]
      [] OTHER -> slots

Answers(c) ==
    CASE c.verb = "ping" -> Reply("pong")
      [] c.verb = "list" -> [Reply("list") EXCEPT !.rows = Rows]
      [] c.verb = "add" -> [Reply("id") EXCEPT !.id = NewId]
      [] OTHER -> Reply("ok")

Serve ==
    LET c == Head(queue)
        missing == c.verb \in AboutSlot /\ c.id \notin DOMAIN slots
        answer(r) == replies' = IF c.mine THEN Append(replies, r) ELSE replies
    IN  /\ alive
        /\ queue # <<>>
        /\ queue' = Tail(queue)
        /\ \/ /\ ~ missing
              /\ slots' = Does(c)
              /\ answer(Answers(c))
              /\ doubt' = (doubt /\ ~ (c.verb = "clear" /\ c.mine))
              /\ UNCHANGED faults
           \/ /\ missing
              /\ answer(Reply("fail"))
              /\ UNCHANGED <<slots, doubt, faults>>
           \/ /\ c.verb \in Refusable
              /\ faults < MaxFaults
              /\ faults' = faults + 1
              /\ answer(Reply("fail"))
              /\ UNCHANGED <<slots, doubt>>
        /\ UNCHANGED <<desired, record, due, absent, alive, client, intruded, beside, edits,
                       connects, troubles>>

\* It dies, or somebody else has it forget its networks (RECONFIGURE).
Intrude ==
    /\ alive
    /\ troubles < MaxTroubles
    /\ troubles' = troubles + 1
    /\ intruded' = TRUE
    /\ slots' = NoSlots
    /\ \/ alive' = FALSE /\ queue' = <<>> /\ NoOther
       \/ UNCHANGED <<alive, queue, beside>>
    /\ UNCHANGED <<desired, record, due, absent, replies, client, doubt, edits, connects,
                   faults>>

-------------------------------------------------------------------------------
(* ncfg_wifi_connect in the daemon, beside a connection of `ncfg apply`.   *)
(* Its commands are taken in the order it sends them and are not given up. *)

\* It lists the networks, and selects the one of that name or adds it.
JoinBeside(n) ==
    LET same == {i \in DOMAIN slots : Name(slots[i].net) = Ssid[n]}
    IN  /\ alive
        /\ job # "connect" /\ other = "none"
        /\ troubles < MaxTroubles
        /\ troubles' = troubles + 1
        /\ n \in Range(desired.nets)
        /\ owant' = n
        /\ \/ same # {} /\ other' = "select" /\ oslot' = Min(same)
           \/ same = {} /\ other' = "add" /\ UNCHANGED oslot
        /\ UNCHANGED <<desired, record, due, absent, machine, wire, client, intruded, doubt,
                       edits, connects, faults>>

AfterOther ==
    CASE other = "add" -> "ssid"
      [] other = "ssid" -> "key"
      [] other = "key" -> IF owant \in desired.auto THEN "enable" ELSE "disable"
      [] OTHER -> "select"

\* The next of its commands; one that fails is the last.
Beside ==
    LET c == Command(other, oslot, owant)
        missing == other \in AboutSlot /\ oslot \notin DOMAIN slots
    IN  /\ alive /\ other # "none"
        /\ \/ /\ ~ missing
              /\ slots' = Does(c)
              /\ \/ /\ other # "select"
                    /\ other' = AfterOther
                    /\ oslot' = IF other = "add" THEN NewId ELSE oslot
                    /\ UNCHANGED owant
                 \/ /\ other = "select"
                    /\ NoOther
              /\ intruded' = TRUE
              /\ doubt' = TRUE
           \/ /\ missing
              /\ NoOther
              /\ UNCHANGED <<slots, intruded, doubt>>
        /\ UNCHANGED <<desired, record, due, absent, alive, wire, client, bounds>>

-------------------------------------------------------------------------------
Loop == Look \/ LookMisses \/ start_supplicant \/ set_profiles \/ restrict
Client == Receive \/ TimeOut \/ Render \/ record_networks

Next ==
    \/ Loop
    \/ Client
    \/ Serve
    \/ \E d \in Documents : Reload(d)
    \/ \E n \in Networks : Connect(n) \/ JoinBeside(n)
    \/ Beside
    \/ Crash
    \/ Intrude

Spec == Init /\ [][Next]_vars

\* The loop makes passes for as long as it runs, a client waits no longer than
\* its deadline, and the supplicant reads its socket.
FairSpec == Spec /\ WF_vars(Loop) /\ WF_vars(Client) /\ WF_vars(Serve) /\ WF_vars(Beside)

-------------------------------------------------------------------------------
(* Properties.                                                             *)

IsSlots(f) == DOMAIN f \subseteq Nat /\ \A i \in DOMAIN f : f[i] \in Slot
IsRows(f) == DOMAIN f \subseteq Nat /\ \A i \in DOMAIN f : f[i] \in Row

\* Every variable keeps its type; a reply that is no list has no rows.
TypeOK ==
    /\ desired \in Documents
    /\ record \in Documents \cup {NoRecord, Torn}
    /\ {due, absent, alive, intruded, doubt} \subseteq BOOLEAN
    /\ IsSlots(slots)
    /\ queue \in Seq([verb : Commands, id : Nat, net : Networks \cup {Blank}, mine : BOOLEAN])
    /\ \A i \in DOMAIN replies : /\ replies[i].kind \in {"ok", "fail", "pong", "id", "list"}
                                 /\ replies[i].id \in Nat
                                 /\ IsRows(replies[i].rows)
    /\ job \in {"none", "observe", "profiles", "connect"}
    /\ step \in Commands \cup {"idle", "render", "record"}
    /\ (step = "idle") <=> (job = "none")
    /\ at \in Nat \ {0}
    /\ slot \in Nat
    /\ todo \subseteq Nat
    /\ want \in Networks \cup {Blank}
    /\ other \in {"none", "add", "ssid", "key", "enable", "disable", "select"}
    /\ oslot \in Nat
    /\ owant \in Networks \cup {Blank}
    /\ edits \in 0..MaxEdits
    /\ connects \in 0..MaxConnects
    /\ troubles \in 0..MaxTroubles
    /\ faults \in 0..MaxFaults

\* The supplicant holds the document's networks, each once and with all of its
\* settings, whichever of them are enabled.
Holds ==
    /\ Cardinality(DOMAIN slots) = Len(desired.nets)
    /\ {slots[i].net : i \in DOMAIN slots} = Range(desired.nets)
    /\ \A i \in DOMAIN slots : slots[i].whole

\* When set_profiles has come to its record, the supplicant holds the
\* document's networks and would join exactly those that the document says it
\* should, whatever was refused or came late before, unless somebody else changed
\* them meanwhile.  A reply that belongs to an earlier command never passes for
\* the success of a population: ADD_NETWORK has to be answered by a number.
PopulatedIsHeld ==
    step = "record" /\ ~ intruded =>
        /\ Holds
        /\ \A i \in DOMAIN slots :
               slots[i].disabled <=> ~ (desired.joins /\ slots[i].net \in desired.auto)

\* Once the PING of a connection is answered, no command that an earlier
\* connection gave up is still to be executed: it cannot remove or enable a
\* network in the middle of a population.  (A second connection is no earlier one,
\* and has no such barrier to pass.)
EarlierCommandsAreDone ==
    step \notin {"idle", "ping"} => \A i \in DOMAIN queue : queue[i].mine

\* The supplicant has leave to join only networks that were given all of their
\* settings: populate removes what was refused, and neither enable_only nor a
\* request to join takes such a slot for the document's.  A process that dies
\* half-way may leave one that is enabled later, and a second connection may
\* select one half-way; the next population that removes them all ends that.
EnabledIsWhole ==
    ~ doubt => \A i \in DOMAIN slots : slots[i].disabled \/ slots[i].whole

\* A supplicant that holds what the record says keeps it, as far as nothing went
\* wrong so far and nobody joined beside.
KeepsWhatItHolds ==
    (faults + troubles)' = 0 /\ record = desired /\ Holds =>
        DOMAIN slots \subseteq DOMAIN slots'

\* A radio that joins by itself and holds the recorded set loses no network, so a
\* station stays on the network it was told to join: what was disabled is
\* enabled, and the rest is left alone (enable_only).
HeldIsLeftAlone == [][desired.joins => KeepsWhatItHolds]_vars

\* The networks of a radio stay configured, also where it does not join by itself
\* and they were all disabled (the comment over DISABLE_NETWORK in set_profiles).
NetworksStayConfigured == [][KeepsWhatItHolds]_vars

\* In the end the loop may act on the radio: from some point on its policy is to
\* reconcile, the loop is not holding and no window is open.
MayAct == <>[][~ restrict]_vars

\* A set that is recorded and is not the document's is replaced in the end, also
\* when the supplicant or netcfgd dies in between, if the loop may act.  Under
\* `report`, the default, the difference stands.
DifferenceIsHandedOver ==
    MayAct => (record \notin {desired, NoRecord} ~> record \in {desired, NoRecord})

\* A request to join one network disables the others, and does not for good: the
\* networks that join by themselves are enabled again, if the loop may act.  Of
\* two blocks with one name the first says whether it joins.
Pinned ==
    /\ record = desired /\ Holds /\ desired.joins
    /\ \E i \in DOMAIN slots : /\ slots[i].disabled
                               /\ network_for(Name(slots[i].net)) \in desired.auto
PinsEnd == MayAct => (Pinned ~> ~ Pinned)
=============================================================================
