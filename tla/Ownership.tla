------------------------------ MODULE Ownership ------------------------------
(***************************************************************************)
(* Who made what is on the machine, and how two kinds of process keep one  *)
(* record of it: apply/{apply,owned}.c, host/state.c, observe/ownership.c, *)
(* the planner's questions to the record, the daemon's pass and the apply  *)
(* of the command line (cli/run.c), which runs in its own process.         *)
(*                                                                         *)
(* Two files are locked.  apply.lock is held by whoever changes the        *)
(* machine; owned.lock around the read, the change and the write of        *)
(* owned.json, which the daemon also changes while somebody else applies.  *)
(* The command line takes apply.lock before it observes, the daemon after  *)
(* it has planned.                                                         *)
(*                                                                         *)
(* Objects are links, which netcfgd creates and deletes, and clients, the  *)
(* daemons it starts and stops on an interface.  An action of a plan is a  *)
(* step of its own; an observation is one step.                            *)
(***************************************************************************)
EXTENDS Integers

CONSTANTS
    Links,         \* links netcfgd can create
    Unmarkable,    \* those whose alternative name the kernel refuses
    Clients,       \* interfaces that a client can run on
    Unanswerable,  \* those whose client left no pid file to ask about (dhcpcd)
    Daemon,        \* the daemon's process
    Clis,          \* processes of the command line
    Trees,         \* documents: the objects one wants, those whose interface it
                   \* names with a policy that reports drift, and those that the
                   \* loop reconciles
    First,         \* the daemon's document at the start
    None,          \* nobody, as the holder of a lock
    RestartLimit,  \* NCFG_PLAN_RESTART_LIMIT
    MaxApplies,    \* bound: whole applies, of the command line and the daemon
    MaxEdits,      \* bound: edits of the daemon's document
    MaxOutside,    \* bound: links made or removed by others, clients that end
    MaxFaults      \* bound: processes that die, reboots, actions and writes
                   \* that fail, all together

Objects == Links \cup Clients
Procs == Clis \cup {Daemon}

ASSUME OwnershipAssumption ==
    /\ Links \cap Clients = {}
    /\ Unmarkable \subseteq Links
    /\ Unanswerable \subseteq Clients
    /\ Daemon \notin Clis
    /\ None \notin Procs
    /\ Trees \subseteq [wants : SUBSET Objects, reports : SUBSET Objects,
                      reconciles : SUBSET Objects]
    /\ First \in Trees
    /\ RestartLimit \in Nat \ {0}
    /\ {MaxApplies, MaxEdits, MaxOutside, MaxFaults} \subseteq Nat

VARIABLES
    doc,         \* the document in the daemon's configuration directory
    link,        \* what a link is on the machine
    client,      \* whether a client is running
    boot,        \* /proc/sys/kernel/random/boot_id
    file,        \* owned.json
    apply_lock,  \* the holder of apply.lock
    owned_lock,  \* the holder of owned.lock
    pc,          \* where a process is
    plan,        \* the actions it has still to run
    done,        \* its journal: the actions that were done
    seen,        \* clients its observation found running, if it will record
    telling,     \* drift its hooks were told of in this pass
    copy,        \* the record it read under owned.lock
    applies, edits, outside, faults,
    ledger,      \* ghost: the record, had every update been one step
    loose,       \* ghost: objects somebody else removed from under netcfgd,
                 \* or whose maker ended before it wrote them down
    stale,       \* ghost: processes that observed while another was changing
                 \* the machine, or before it did
    unseen       \* ghost: starts of a client since an observation found it
                 \* running or unwanted

machine == <<link, client, boot>>
held == <<apply_lock, owned_lock>>
local == <<pc, plan, done, seen, telling, copy>>
bounds == <<applies, edits, outside, faults>>
ghosts == <<ledger, loose, stale, unseen>>
vars == <<doc, machine, file, held, local, bounds, ghosts>>

Actions == [op : {"create", "delete"}, on : Links]
             \cup [op : {"start", "stop"}, on : Clients]

Records == [links : SUBSET Links, clients : SUBSET Clients,
            restarts : [Clients -> Nat], told : SUBSET Actions]
NoRecord == [links |-> {}, clients |-> {}, restarts |-> [c \in Clients |-> 0],
             told |-> {}]

On(actions, op) == {a.on : a \in {b \in actions : b.op = op}}
Touched(actions) == {a.on : a \in actions}
Every(op, objects) == {[op |-> op, on |-> o] : o \in objects}

Made(l) == link[l] \in {"marked", "plain"}

-----------------------------------------------------------------------------
(* The record *)

\* ncfg_owned_read: a record of another boot is discarded.
owned_read == IF file.boot = boot THEN file.record ELSE NoRecord

\* restarts_cleared_by_running: 0079's third clear.
restarts_cleared_by_running(r, up) ==
    [r EXCEPT !.restarts = [c \in Clients |-> IF c \in up THEN 0 ELSE @[c]]]

\* ncfg_owned_absorb of backend.start and backend.stop, for the counts.
restarts_absorbed(n, started, stopped) ==
    [c \in Clients |-> IF c \in stopped THEN 0 ELSE IF c \in started THEN n[c] + 1 ELSE n[c]]

\* The record of a link that was deleted stays.
absorb_keeping_deleted(r, actions) ==
    [r EXCEPT
        !.links = @ \cup On(actions, "create"),
        !.clients = (@ \cup On(actions, "start")) \ On(actions, "stop"),
        !.restarts = restarts_absorbed(@, On(actions, "start"), On(actions, "stop"))]

\* ncfg_owned_absorb, for every action of a journal that was done.
absorb(r, actions) ==
    [r EXCEPT
        !.links = (@ \cup On(actions, "create")) \ On(actions, "delete"),
        !.clients = (@ \cup On(actions, "start")) \ On(actions, "stop"),
        !.restarts = restarts_absorbed(@, On(actions, "start"), On(actions, "stop"))]

\* fold: what the observation found running, then the journal.
fold(r, actions, up) == absorb(restarts_cleared_by_running(r, up), actions)

\* note_them: what an interface's hooks were told last.
note_them(r, told) ==
    [r EXCEPT !.told = {a \in @ : a.on \notin Touched(told)} \cup told]

-----------------------------------------------------------------------------
(* Observing and planning *)

\* Whatever has the name is netcfgd's.
link_ownership_by_name(r, l) == link[l] # "absent"

\* The mark is not looked at.
link_ownership_recorded(r, l) == link[l] # "absent" /\ l \in r.links

\* ncfg_observe_link_ownership: marked, or recorded.
link_ownership(r, l) == link[l] = "marked" \/ (link[l] # "absent" /\ l \in r.links)

\* ncfg_observe_backend_liveness: recorded, and its process is there or there is
\* no way to ask.
running(r) == {c \in r.clients : client[c] \/ c \in Unanswerable}

\* A client is started again however often it was.
capped_never(r, c) == FALSE

\* ncfg_plan_backend gives a client up.
capped(r, c) == r.restarts[c] >= RestartLimit

\* ncfg_plan_link_creation: whatever has the name will do.
link_creation(d) == Every("create", {l \in Links \cap d.wants : link[l] = "absent"})

\* ncfg_plan_backend
backend(d, r) ==
    Every("start", {c \in (Clients \cap d.wants) \ running(r) : ~capped(r, c)})

\* ncfg_plan_teardown_backends
teardown_backends(d, r) == Every("stop", running(r) \ d.wants)

\* teardown_links
teardown_links(d, r) == Every("delete", {l \in Links \ d.wants : link_ownership(r, l)})

\* ncfg_plan_build, for what the record has a say in.  The restart of a client
\* that runs, for its metric or because it is wedged, is left out.
plan_build(d, r) ==
    link_creation(d) \cup backend(d, r) \cup teardown_backends(d, r) \cup teardown_links(d, r)

\* ncfg_reconcile_restrict: the loop acts on an interface that the document names
\* and says to reconcile, and on no other.
restrict(d, actions) == {a \in actions : a.on \in d.reconciles}

\* The order of a plan: a link is created before anything is started on it,
\* and teardown is last, the links at the very end.
rank(a) == CASE a.op = "create" -> 0 [] a.op = "start" -> 1
             [] a.op = "stop" -> 2 [] a.op = "delete" -> 3
Ready(actions) == {a \in actions : \A b \in actions : rank(a) <= rank(b)}

\* ncfg_reconcile_drift and drift_hooks: drift of the interfaces this document
\* names that their hooks have not heard of, whether the loop acts on it or not.
drift_told(d, actions, r) == {a \in actions : a.on \in d.reports} \ r.told

\* What an observation by p of record r with document d leaves behind, p going on
\* with todo of the plan.
Observe(p, d, r, todo) ==
    /\ plan' = [plan EXCEPT ![p] = todo]
    /\ stale' = IF \E q \in Procs \ {p} : done[q] # {} THEN stale \cup {p} ELSE stale \ {p}
    /\ unseen' = [c \in Clients |->
                    IF c \in running(r) \/ c \notin d.wants THEN 0 ELSE unseen[c]]

\* A process with nothing in hand.
Idle(p) ==
    /\ pc' = [pc EXCEPT ![p] = "idle"]
    /\ plan' = [plan EXCEPT ![p] = {}]
    /\ done' = [done EXCEPT ![p] = {}]
    /\ seen' = [seen EXCEPT ![p] = {}]
    /\ telling' = [telling EXCEPT ![p] = {}]
    /\ copy' = [copy EXCEPT ![p] = NoRecord]

\* The holder of a lock once p, which may not be it, has let go.
Without(lock, p) == IF lock = p THEN None ELSE lock

-----------------------------------------------------------------------------
(* The daemon's pass *)

\* look and drift_hooks: the machine is observed and planned for with no lock
\* held, and the hooks are told of drift they have not heard of.  A pass that is
\* to carry out nothing ends here: reconcile_drift returns before it records.
look(todo) ==
    LET r == owned_read
        told == drift_told(doc, plan_build(doc, r), r)
    IN /\ pc[Daemon] = "idle"
       /\ Observe(Daemon, doc, r, todo)
       /\ seen' = [seen EXCEPT ![Daemon] = IF todo = {} THEN {} ELSE running(r)]
       /\ telling' = [telling EXCEPT ![Daemon] = told]
       /\ pc' = [pc EXCEPT ![Daemon] = CASE told # {} -> "tell"
                                         [] told = {} /\ todo # {} -> "lock"
                                         [] OTHER -> "idle"]
       /\ UNCHANGED <<doc, machine, file, held, done, copy, bounds, ledger, loose>>

\* A pass of the loop: reconcile_drift restricts the plan.
Restricted == restrict(doc, plan_build(doc, owned_read))
DaemonLook == look(Restricted)

\* A pass with something to do while the loop is holding or a window is open.
DaemonDefers == look({}) /\ Restricted # {}

\* The daemon's whole apply, when it starts (ncfg_reconcile_converge) and for a
\* request: the plan of an observation made with no lock held, unrestricted.
DaemonApply ==
    /\ pc[Daemon] = "idle"
    /\ applies < MaxApplies
    /\ applies' = applies + 1
    /\ Observe(Daemon, doc, owned_read, plan_build(doc, owned_read))
    /\ seen' = [seen EXCEPT ![Daemon] = running(owned_read)]
    /\ pc' = [pc EXCEPT ![Daemon] = "lock"]
    /\ UNCHANGED <<doc, machine, file, held, done, telling, copy, edits, outside, faults,
                   ledger, loose>>

\* executor_open: only now is apply.lock taken.  An apply with nothing to do is
\* recorded all the same.
DaemonLock ==
    /\ pc[Daemon] = "lock"
    /\ apply_lock = None
    /\ apply_lock' = Daemon
    /\ pc' = [pc EXCEPT ![Daemon] = IF plan[Daemon] = {} THEN "record" ELSE "run"]
    /\ UNCHANGED <<doc, machine, file, owned_lock, plan, done, seen, telling, copy,
                   bounds, ghosts>>

\* executor_open gives up: the pass or the apply ends.
DaemonGivesUp ==
    /\ pc[Daemon] = "lock"
    /\ apply_lock # None
    /\ Idle(Daemon)
    /\ UNCHANGED <<doc, machine, file, held, bounds, ghosts>>

-----------------------------------------------------------------------------
(* ncfg apply *)

\* machine_serialise, were it to wait for nobody.
serialise_freely == apply_lock \in Procs \cup {None}

\* machine_serialise: apply.lock is to be had.
serialise == apply_lock = None

\* command_apply up to the lock.
CliStart(p) ==
    /\ pc[p] = "idle"
    /\ applies < MaxApplies
    /\ serialise
    /\ apply_lock' = p
    /\ applies' = applies + 1
    /\ pc' = [pc EXCEPT ![p] = "look"]
    /\ UNCHANGED <<doc, machine, file, owned_lock, plan, done, seen, telling, copy,
                   edits, outside, faults, ghosts>>

\* command_apply from compile_config to the plan: its own document, observed
\* under the lock.  An empty plan is the end of it.
CliLook(p, d) ==
    LET todo == plan_build(d, owned_read)
    IN /\ pc[p] = "look"
       /\ Observe(p, d, owned_read, todo)
       /\ seen' = [seen EXCEPT ![p] = IF todo = {} THEN {} ELSE running(owned_read)]
       /\ pc' = [pc EXCEPT ![p] = IF todo = {} THEN "idle" ELSE "run"]
       /\ apply_lock' = IF todo = {} THEN Without(apply_lock, p) ELSE apply_lock
       /\ UNCHANGED <<doc, machine, file, owned_lock, done, telling, copy, bounds,
                      ledger, loose>>

-----------------------------------------------------------------------------
(* Running a plan *)

\* The kernel or a backend cannot do it: a link that is there is not created,
\* and one that is not there is not deleted.
Impossible(a) ==
    \/ a.op = "create" /\ link[a.on] # "absent"
    \/ a.op = "delete" /\ link[a.on] = "absent"

\* a is the action p runs next.
Executes(p, a) == pc[p] = "run" /\ a \in Ready(plan[p])

\* mark_as_ours: a refused mark is not a failure.
mark_as_ours(l) == IF l \in Unmarkable THEN "plain" ELSE "marked"

\* run_plan: one action that is done.  link.create also marks the link.
Execute(p, a) ==
    /\ Executes(p, a)
    /\ ~Impossible(a)
    /\ link' = IF a.op \notin {"create", "delete"} THEN link
               ELSE [link EXCEPT ![a.on] =
                        IF a.op = "create" THEN mark_as_ours(a.on) ELSE "absent"]
    /\ client' = IF a.op \notin {"start", "stop"} THEN client
                 ELSE [client EXCEPT ![a.on] = a.op = "start"]
    /\ done' = [done EXCEPT ![p] = @ \cup {a}]
    /\ plan' = [plan EXCEPT ![p] = @ \ {a}]
    /\ pc' = [pc EXCEPT ![p] = IF plan[p] = {a} THEN "record" ELSE "run"]
    /\ loose' = loose \ {a.on}
    /\ stale' = stale \cup {q \in Procs \ {p} : pc[q] # "idle"}
    /\ unseen' = IF a.op # "start" THEN unseen
                 ELSE [unseen EXCEPT ![a.on] = @ + 1]
    /\ UNCHANGED <<doc, boot, file, held, seen, telling, copy, bounds, ledger>>

\* run_plan: an action that fails, after which the others are skipped.
ExecuteFails(p, a) ==
    /\ Executes(p, a)
    /\ faults' = IF Impossible(a) THEN faults ELSE faults + 1
    /\ faults' <= MaxFaults
    /\ plan' = [plan EXCEPT ![p] = {}]
    /\ pc' = [pc EXCEPT ![p] = "record"]
    /\ UNCHANGED <<doc, machine, file, held, done, seen, telling, copy,
                   applies, edits, outside, ghosts>>

-----------------------------------------------------------------------------
(* ncfg_owned_update *)

\* owned.lock, were it not waited for.
owned_free_always == owned_lock \in Procs \cup {None}

\* ncfg_lock_take of owned.lock goes through.
owned_free == owned_lock = None

\* The first half: the lock, then the record.  The daemon is here for its
\* hooks without apply.lock, and either process after its plan with it.
TakeRecord(p) ==
    /\ pc[p] \in {"tell", "record"}
    /\ owned_free
    /\ owned_lock' = p
    /\ copy' = [copy EXCEPT ![p] = owned_read]
    /\ pc' = [pc EXCEPT ![p] = IF @ = "tell" THEN "telling" ELSE "recording"]
    /\ UNCHANGED <<doc, machine, file, apply_lock, plan, done, seen, telling,
                   bounds, ghosts>>

\* remember: the second half, where the daemon's hooks were told something.
\* A write that fails is noted in the log and the pass goes on.
WriteTold ==
    /\ pc[Daemon] = "telling"
    /\ owned_lock' = Without(owned_lock, Daemon)
    /\ \/ /\ file' = [boot |-> boot, record |-> note_them(copy[Daemon], telling[Daemon])]
          /\ ledger' = note_them(ledger, telling[Daemon])
          /\ UNCHANGED faults
       \/ /\ faults < MaxFaults
          /\ faults' = faults + 1
          /\ UNCHANGED <<file, ledger>>
    /\ telling' = [telling EXCEPT ![Daemon] = {}]
    /\ copy' = [copy EXCEPT ![Daemon] = NoRecord]
    /\ pc' = [pc EXCEPT ![Daemon] = IF plan[Daemon] = {} THEN "idle" ELSE "lock"]
    /\ UNCHANGED <<doc, machine, apply_lock, plan, done, seen, applies, edits, outside,
                   loose, stale, unseen>>

\* ncfg_apply_record, and the end of the apply: the journal is folded into the
\* record and apply.lock goes with the executor.
WriteRecord(p) ==
    /\ pc[p] = "recording"
    /\ owned_lock' = Without(owned_lock, p)
    /\ apply_lock' = Without(apply_lock, p)
    /\ \/ /\ file' = [boot |-> boot, record |-> fold(copy[p], done[p], seen[p])]
          /\ ledger' = fold(ledger, done[p], seen[p])
          /\ UNCHANGED <<faults, loose>>
       \/ /\ faults < MaxFaults
          /\ faults' = faults + 1
          /\ loose' = loose \cup Touched(done[p])
          /\ UNCHANGED <<file, ledger>>
    /\ Idle(p)
    /\ UNCHANGED <<doc, machine, applies, edits, outside, stale, unseen>>

-----------------------------------------------------------------------------
(* What happens to them *)

\* A process dies: its locks are released and what it had not written is lost.
Die(p) ==
    /\ pc[p] # "idle"
    /\ faults < MaxFaults
    /\ faults' = faults + 1
    /\ apply_lock' = Without(apply_lock, p)
    /\ owned_lock' = Without(owned_lock, p)
    /\ loose' = loose \cup Touched(done[p])
    /\ Idle(p)
    /\ UNCHANGED <<doc, machine, file, applies, edits, outside, ledger, stale, unseen>>

\* The machine starts again, with a run directory that outlived it.
Reboot ==
    /\ faults < MaxFaults
    /\ faults' = faults + 1
    /\ boot' = boot + 1
    /\ link' = [l \in Links |-> "absent"]
    /\ client' = [c \in Clients |-> FALSE]
    /\ apply_lock' = None
    /\ owned_lock' = None
    /\ pc' = [p \in Procs |-> "idle"]
    /\ plan' = [p \in Procs |-> {}]
    /\ done' = [p \in Procs |-> {}]
    /\ seen' = [p \in Procs |-> {}]
    /\ telling' = [p \in Procs |-> {}]
    /\ copy' = [p \in Procs |-> NoRecord]
    /\ ledger' = NoRecord
    /\ loose' = {}
    /\ stale' = {}
    /\ unseen' = [c \in Clients |-> 0]
    /\ UNCHANGED <<doc, file, applies, edits, outside>>

\* The daemon's configuration directory is edited.
Edit ==
    /\ edits < MaxEdits
    /\ edits' = edits + 1
    /\ doc' \in Trees \ {doc}
    /\ UNCHANGED <<machine, file, held, local, applies, outside, faults, ghosts>>

\* Somebody else makes a link, or removes one.
OutsideLink(l) ==
    /\ outside < MaxOutside
    /\ outside' = outside + 1
    /\ link' = [link EXCEPT ![l] = IF @ = "absent" THEN "foreign" ELSE "absent"]
    /\ loose' = IF Made(l) THEN loose \cup {l} ELSE loose
    /\ UNCHANGED <<doc, client, boot, file, held, local, applies, edits, faults,
                   ledger, stale, unseen>>

\* A client ends by itself.
ClientEnds(c) ==
    /\ outside < MaxOutside
    /\ outside' = outside + 1
    /\ client[c]
    /\ client' = [client EXCEPT ![c] = FALSE]
    /\ UNCHANGED <<doc, link, boot, file, held, local, applies, edits, faults, ghosts>>

-----------------------------------------------------------------------------
Init ==
    /\ doc = First
    /\ link = [l \in Links |-> "absent"]
    /\ client = [c \in Clients |-> FALSE]
    /\ boot = 0
    /\ file = [boot |-> 0, record |-> NoRecord]
    /\ apply_lock = None
    /\ owned_lock = None
    /\ pc = [p \in Procs |-> "idle"]
    /\ plan = [p \in Procs |-> {}]
    /\ done = [p \in Procs |-> {}]
    /\ seen = [p \in Procs |-> {}]
    /\ telling = [p \in Procs |-> {}]
    /\ copy = [p \in Procs |-> NoRecord]
    /\ applies = 0 /\ edits = 0 /\ outside = 0 /\ faults = 0
    /\ ledger = NoRecord
    /\ loose = {}
    /\ stale = {}
    /\ unseen = [c \in Clients |-> 0]

DaemonSteps ==
    \/ DaemonLook \/ DaemonDefers \/ DaemonLock \/ DaemonGivesUp \/ WriteTold

ProcSteps(p) ==
    \/ \E a \in plan[p] : Execute(p, a) \/ ExecuteFails(p, a)
    \/ TakeRecord(p) \/ WriteRecord(p)

Environment ==
    \/ Reboot \/ Edit
    \/ \E p \in Procs : Die(p)
    \/ \E l \in Links : OutsideLink(l)
    \/ \E c \in Clients : ClientEnds(c)

Next ==
    \/ DaemonSteps \/ DaemonApply
    \/ \E p \in Clis : CliStart(p) \/ \E d \in Trees : CliLook(p, d)
    \/ \E p \in Procs : ProcSteps(p)
    \/ Environment

Spec == Init /\ [][Next]_vars

\* The loop goes on, and an apply that was started goes on.
Fairness ==
    /\ WF_vars(DaemonSteps \/ ProcSteps(Daemon))
    /\ \A p \in Clis : WF_vars((\E d \in Trees : CliLook(p, d)) \/ ProcSteps(p))
FairSpec == Spec /\ Fairness

-----------------------------------------------------------------------------
(* Properties *)

TypeOK ==
    /\ doc \in Trees
    /\ link \in [Links -> {"absent", "marked", "plain", "foreign"}]
    /\ client \in [Clients -> BOOLEAN]
    /\ boot \in Nat
    /\ file \in [boot : Nat, record : Records]
    /\ {apply_lock, owned_lock} \subseteq Procs \cup {None}
    /\ pc \in [Procs -> {"idle", "look", "tell", "telling", "lock", "run", "record",
                         "recording"}]
    /\ plan \in [Procs -> SUBSET Actions]
    /\ done \in [Procs -> SUBSET Actions]
    /\ seen \in [Procs -> SUBSET Clients]
    /\ telling \in [Procs -> SUBSET Actions]
    /\ copy \in [Procs -> Records]
    /\ {applies, edits, outside, faults} \subseteq Nat
    /\ ledger \in Records
    /\ loose \subseteq Objects
    /\ stale \subseteq Procs
    /\ unseen \in [Clients -> Nat]

\* No update of owned.json is lost (0122): the record that is read is what
\* every update so far would have made of it one after the other, although
\* the daemon notes what its hooks were told while somebody else applies.
NoUpdateIsLost == owned_read = ledger

\* What the record says is so: a link is claimed exactly where netcfgd made
\* it, and a client that netcfgd started is known, but for what a process is
\* about to write down, was kept from writing, or others took away.
RecordMatchesMachine ==
    \A o \in Objects \ (loose \cup UNION {Touched(done[p]) : p \in Procs}) :
        /\ o \in Links => (o \in owned_read.links <=> Made(o))
        /\ o \in Clients /\ client[o] => o \in owned_read.clients

\* Nobody else's link is deleted, but where others had removed netcfgd's own
\* of that name, or the plan was older than another process's actions.
StrangersAreSpared ==
    [][\A p \in Procs : \A a \in plan[p] :
          a.op = "delete" /\ link[a.on] = "foreign" /\ Execute(p, a)
              => a.on \in loose \/ p \in stale]_vars

\* An apply of the command line is run against the machine it observed, as far
\* as netcfgd is concerned: nobody else's actions come in between (0184).
AppliesAreFresh ==
    \A p \in Clis : pc[p] = "run" => p \notin stale

\* A client that does not stay up is not started for ever (0079).  The count may
\* be cleared once by a daemon whose observation is older than the starts; one
\* start more may come from a plan that was made before the last was counted,
\* and one from each that was never written down.
StartsAreLimited == \A c \in Clients : unseen[c] <= 2 * RestartLimit + 1 + faults

\* The other half of 0079: a client is only given up after that many starts
\* in a row, none of which an observation found running.
GivenUpAfterLimit ==
    \A c \in Clients \cap doc.wants :
        pc[Daemon] = "idle" /\ ~client[c] /\ capped(owned_read, c)
            => unseen[c] >= RestartLimit

\* In the end the loop may act: it is not holding, and no window is open.
MayAct == <>[][~DaemonDefers]_vars

\* What the document reconciles is what it wants, apart from a client that was
\* given up or cannot be asked about, and from what no record tells netcfgd it may
\* remove.
Settled ==
    /\ \A l \in Links \cap doc.reconciles :
          IF l \in doc.wants THEN link[l] # "absent"
          ELSE ~Made(l) \/ (link[l] = "plain" /\ l \in loose)
    /\ \A c \in Clients \cap doc.reconciles :
          IF c \in doc.wants THEN client[c] \/ capped(owned_read, c) \/ c \in running(owned_read)
          ELSE ~client[c] \/ c \in loose

\* Once it is left alone the machine comes to what the daemon's document says, as
\* far as the document says to reconcile it: the loop never removes a link or a
\* client whose interface the document no longer names.
Settles == MayAct => <>[]Settled
=============================================================================
