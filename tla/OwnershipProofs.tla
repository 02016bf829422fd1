-------------------------- MODULE OwnershipProofs --------------------------
(***************************************************************************)
(* What Ownership promises, for any number of processes, links, clients    *)
(* and faults.  The argument is about the two locks.  Whoever is between   *)
(* the two halves of an update of the record holds owned.lock, and so has  *)
(* the record as it is; whoever is running a plan holds apply.lock, and so *)
(* is the only one with a journal that is not written down.                *)
(***************************************************************************)
EXTENDS Ownership, TLAPS

USE OwnershipAssumption DEF Procs

-----------------------------------------------------------------------------
(* Types *)

\* A folded record is a record, whatever was done and seen.
LEMMA FoldType ==
    ASSUME NEW r \in Records, NEW A \in SUBSET Actions, NEW U \in SUBSET Clients
    PROVE  fold(r, A, U) \in Records
<1>1. On(A, "create") \subseteq Links /\ On(A, "start") \subseteq Clients
  BY Zenon DEF On, Actions
<1>2. restarts_cleared_by_running(r, U) \in Records
  BY Zenon DEF restarts_cleared_by_running, Records
<1>3. ASSUME NEW s \in Records
      PROVE  absorb(s, A) \in Records
  <2>1. restarts_absorbed(s.restarts, On(A, "start"), On(A, "stop")) \in [Clients -> Nat]
    BY DEF restarts_absorbed, Records
  <2>2. s.links \subseteq Links /\ s.clients \subseteq Clients
    BY Zenon DEF Records
  <2> QED
    BY Zenon, <1>1, <2>1, <2>2 DEF absorb, Records
<1> QED
  BY Zenon, <1>2, <1>3 DEF fold

\* A record stays one when hooks were told something.
LEMMA NoteType ==
    ASSUME NEW r \in Records, NEW T \in SUBSET Actions
    PROVE  note_them(r, T) \in Records
<1>1. {a \in r.told : a.on \notin Touched(T)} \cup T \in SUBSET Actions
  BY Zenon DEF Records
<1> QED
  BY Zenon, <1>1 DEF note_them, Records

\* The record of a machine that has none.
LEMMA NoRecordType == NoRecord \in Records
BY Zenon DEF NoRecord, Records

\* Whatever is read is a record.
LEMMA ReadType ==
    ASSUME TypeOK
    PROVE  owned_read \in Records
BY Zenon, NoRecordType DEF TypeOK, owned_read

\* A plan consists of actions, and what an observation sees are clients.
LEMMA PlanType ==
    ASSUME NEW d, NEW r \in Records
    PROVE  /\ plan_build(d, r) \in SUBSET Actions
           /\ running(r) \in SUBSET Clients
<1>1. running(r) \in SUBSET Clients
  BY Zenon DEF running, Records
<1>2. link_creation(d) \in SUBSET Actions
  BY DEF link_creation, Every, Actions
<1>3. backend(d, r) \in SUBSET Actions
  BY DEF backend, Every, Actions
<1>4. teardown_backends(d, r) \in SUBSET Actions
  BY <1>1 DEF teardown_backends, Every, Actions
<1>5. teardown_links(d, r) \in SUBSET Actions
  BY DEF teardown_links, Every, Actions
<1> QED
  BY Zenon, <1>1, <1>2, <1>3, <1>4, <1>5 DEF plan_build

\* What is told of are actions of the plan.
LEMMA ToldType ==
    ASSUME NEW d, NEW A \in SUBSET Actions, NEW r
    PROVE  drift_told(d, A, r) \in SUBSET Actions
BY Zenon DEF drift_told

\* The variables that only a process has.
Local ==
    /\ pc \in [Procs -> {"idle", "look", "tell", "telling", "lock", "run", "record",
                         "recording"}]
    /\ plan \in [Procs -> SUBSET Actions]
    /\ done \in [Procs -> SUBSET Actions]
    /\ seen \in [Procs -> SUBSET Clients]
    /\ telling \in [Procs -> SUBSET Actions]
    /\ copy \in [Procs -> Records]

\* A process that lets go of everything.
LEMMA IdleType ==
    ASSUME Local, NEW p \in Procs, Idle(p)
    PROVE  Local'
BY Zenon, NoRecordType DEF Local, Idle

\* An observation, and what it leaves behind.
LEMMA ObserveType ==
    ASSUME TypeOK, NEW p \in Procs, NEW d, NEW r, NEW todo \in SUBSET Actions,
           Observe(p, d, r, todo)
    PROVE  /\ plan' \in [Procs -> SUBSET Actions]
           /\ stale' \subseteq Procs
           /\ unseen' \in [Clients -> Nat]
BY Zenon DEF TypeOK, Observe

\* An observation of the daemon's, in a pass of the loop or a whole apply, after
\* which it goes on with todo of the plan.
DaemonLooks(todo) ==
    /\ todo \in SUBSET plan_build(doc, owned_read)
    /\ Observe(Daemon, doc, owned_read, todo)
    /\ pc[Daemon] = "idle"
    /\ \E where \in {"tell", "lock", "idle"} :
          pc' = [pc EXCEPT ![Daemon] = where] /\ (todo # {} => where # "idle")
    /\ \E up \in SUBSET running(owned_read) : seen' = [seen EXCEPT ![Daemon] = up]
    /\ \E told \in SUBSET Actions : telling' = [telling EXCEPT ![Daemon] = told]
    /\ applies' \in Nat
    /\ UNCHANGED <<doc, machine, file, held, done, copy, edits, outside, faults, ledger, loose>>

\* Where the daemon goes after it has looked.
LEMMA LookLooks ==
    ASSUME TypeOK, NEW todo \in SUBSET plan_build(doc, owned_read), look(todo)
    PROVE  DaemonLooks(todo)
<1> DEFINE told == drift_told(doc, plan_build(doc, owned_read), owned_read)
           next == CASE told # {} -> "tell" [] told = {} /\ todo # {} -> "lock"
                     [] OTHER -> "idle"
<1>1. /\ Observe(Daemon, doc, owned_read, todo)
      /\ pc[Daemon] = "idle"
      /\ pc' = [pc EXCEPT ![Daemon] = next]
      /\ seen' = [seen EXCEPT ![Daemon] = IF todo = {} THEN {} ELSE running(owned_read)]
      /\ telling' = [telling EXCEPT ![Daemon] = told]
      /\ UNCHANGED <<doc, machine, file, held, done, copy, applies, edits, outside, faults,
                     ledger, loose>>
  BY Zenon DEF look, bounds
<1>2. told \in SUBSET Actions
  <2>1. plan_build(doc, owned_read) \in SUBSET Actions
    BY Zenon, ReadType, PlanType
  <2> QED
    BY Zenon, <2>1, ToldType
<1>3. next \in {"tell", "lock", "idle"} /\ (todo # {} => next # "idle")
  <2>1. told # {} => next = "tell"
    OBVIOUS
  <2>2. told = {} /\ todo # {} => next = "lock"
    OBVIOUS
  <2>3. told = {} /\ todo = {} => next = "idle"
    OBVIOUS
  <2> HIDE DEF told, next
  <2> QED
    BY <2>1, <2>2, <2>3
<1> HIDE DEF told, next
<1>4. (IF todo = {} THEN {} ELSE running(owned_read)) \in SUBSET running(owned_read)
  OBVIOUS
<1>5. applies' \in Nat
  BY <1>1 DEF TypeOK
<1> QED
  BY Zenon, <1>1, <1>2, <1>3, <1>4, <1>5 DEF DaemonLooks

\* All three of the daemon's observations are of that kind.
LEMMA DaemonObserves ==
    ASSUME TypeOK, DaemonLook \/ DaemonDefers \/ DaemonApply
    PROVE  \E todo : DaemonLooks(todo)
<1>1. CASE DaemonLook
  <2>1. Restricted \in SUBSET plan_build(doc, owned_read)
    BY DEF Restricted, restrict
  <2> QED
    BY Zenon, <1>1, <2>1, LookLooks DEF DaemonLook
<1>2. CASE DaemonDefers
  <2>1. {} \in SUBSET plan_build(doc, owned_read)
    OBVIOUS
  <2> QED
    BY Zenon, <1>2, <2>1, LookLooks DEF DaemonDefers
<1>3. CASE DaemonApply
  <2>1. telling' = [telling EXCEPT ![Daemon] = telling[Daemon]] /\ telling[Daemon] \in SUBSET Actions
    BY <1>3 DEF DaemonApply, TypeOK
  <2>2. applies' \in Nat
    BY <1>3 DEF DaemonApply, TypeOK
  <2>3. /\ plan_build(doc, owned_read) \in SUBSET plan_build(doc, owned_read)
        /\ running(owned_read) \in SUBSET running(owned_read)
    OBVIOUS
  <2>4. "lock" \in {"tell", "lock", "idle"} /\ "lock" # "idle"
    OBVIOUS
  <2> QED
    BY Zenon, <1>3, <2>1, <2>2, <2>3, <2>4 DEF DaemonApply, DaemonLooks
<1> QED
  BY Zenon, <1>1, <1>2, <1>3

\* TypeOK holds in every reachable state.
THEOREM TypeCorrect == Spec => []TypeOK
<1>1. Init => TypeOK
  BY NoRecordType DEF Init, TypeOK
<1>2. TypeOK /\ [Next]_vars => TypeOK'
  <2> SUFFICES ASSUME TypeOK, [Next]_vars
               PROVE  TypeOK'
    OBVIOUS
  <2>r. owned_read \in Records
    BY Zenon, ReadType
  <2>1. CASE DaemonLook \/ DaemonDefers \/ DaemonApply
    <3>1. PICK todo : DaemonLooks(todo)
      BY Zenon, <2>1, DaemonObserves
    <3>2. todo \in SUBSET Actions /\ running(owned_read) \in SUBSET Clients
      BY Zenon, <2>r, <3>1, PlanType DEF DaemonLooks
    <3>3. /\ plan' \in [Procs -> SUBSET Actions]
          /\ stale' \subseteq Procs
          /\ unseen' \in [Clients -> Nat]
      BY Zenon, <3>1, <3>2, ObserveType DEF DaemonLooks
    <3>4. seen' \in [Procs -> SUBSET Clients] /\ telling' \in [Procs -> SUBSET Actions]
      <4>1. PICK up \in SUBSET running(owned_read) : seen' = [seen EXCEPT ![Daemon] = up]
        BY Zenon, <3>1 DEF DaemonLooks
      <4>2. PICK told \in SUBSET Actions : telling' = [telling EXCEPT ![Daemon] = told]
        BY Zenon, <3>1 DEF DaemonLooks
      <4>3. up \in SUBSET Clients
        BY Zenon, <3>2, <4>1
      <4> QED
        BY Zenon, <4>1, <4>2, <4>3 DEF TypeOK
    <3>5. pc' \in [Procs -> {"idle", "look", "tell", "telling", "lock", "run", "record",
                             "recording"}]
      BY Zenon, <3>1 DEF DaemonLooks, TypeOK
    <3> QED
      BY <3>1, <3>3, <3>4, <3>5 DEF DaemonLooks, TypeOK, machine, held
  <2>2. CASE DaemonLock
    BY Zenon, <2>2 DEF DaemonLock, TypeOK, machine, bounds, ghosts
  <2>3. CASE DaemonGivesUp
    <3>1. Local'
      BY Zenon, <2>3, IdleType DEF DaemonGivesUp, TypeOK, Local
    <3> QED
      BY Zenon, <2>3, <3>1 DEF DaemonGivesUp, TypeOK, Local, machine, held, bounds, ghosts
  <2>4. CASE WriteTold
    <3>1. /\ copy[Daemon] \in Records
          /\ telling[Daemon] \in SUBSET Actions
      BY Zenon DEF TypeOK
    <3>2. /\ note_them(copy[Daemon], telling[Daemon]) \in Records
          /\ note_them(ledger, telling[Daemon]) \in Records
      BY Zenon, <3>1, NoteType DEF TypeOK
    <3>3. /\ file' \in [boot : Nat, record : Records]
          /\ ledger' \in Records
          /\ faults' \in Nat
      BY <2>4, <3>2 DEF WriteTold, TypeOK
    <3>4. Local'
      BY Zenon, <2>4, NoRecordType DEF WriteTold, TypeOK, Local
    <3> QED
      BY <2>4, <3>3, <3>4 DEF WriteTold, TypeOK, Local, machine, Without
  <2>5. ASSUME NEW p \in Clis, CliStart(p)
        PROVE  TypeOK'
    BY <2>5 DEF CliStart, TypeOK, machine, ghosts
  <2>6. ASSUME NEW p \in Clis, NEW d \in Trees, CliLook(p, d)
        PROVE  TypeOK'
    <3>1. Observe(p, d, owned_read, plan_build(d, owned_read))
      BY Zenon, <2>6 DEF CliLook
    <3>2. plan_build(d, owned_read) \in SUBSET Actions /\ running(owned_read) \in SUBSET Clients
      BY Zenon, <2>r, PlanType
    <3>5. /\ plan' \in [Procs -> SUBSET Actions]
          /\ stale' \subseteq Procs
          /\ unseen' \in [Clients -> Nat]
      BY Zenon, <3>1, <3>2, ObserveType
    <3>6. seen' \in [Procs -> SUBSET Clients]
      BY Zenon, <2>6, <3>2 DEF CliLook, TypeOK
    <3>3. pc' \in [Procs -> {"idle", "look", "tell", "telling", "lock", "run", "record",
                             "recording"}]
      BY Zenon, <2>6 DEF CliLook, TypeOK
    <3>4. apply_lock' \in Procs \cup {None}
      BY Zenon, <2>6 DEF CliLook, TypeOK, Without
    <3> QED
      BY <2>6, <3>3, <3>4, <3>5, <3>6 DEF CliLook, TypeOK, machine, bounds
  <2>7. ASSUME NEW p \in Procs, NEW a \in plan[p], Execute(p, a)
        PROVE  TypeOK'
    <3>1. a \in Actions
      BY Zenon DEF TypeOK
    <3>2. /\ a.op \in {"create", "delete"} => a.on \in Links
          /\ a.op \in {"start", "stop"} => a.on \in Clients
      BY Zenon, <3>1 DEF Actions
    <3>3. link' \in [Links -> {"absent", "marked", "plain", "foreign"}]
      BY Zenon, <2>7, <3>2 DEF Execute, TypeOK, mark_as_ours
    <3>4. client' \in [Clients -> BOOLEAN]
      BY Zenon, <2>7, <3>2 DEF Execute, TypeOK
    <3>5. unseen' \in [Clients -> Nat]
      BY <2>7, <3>2 DEF Execute, TypeOK
    <3>6. Local'
      BY <2>7, <3>1 DEF Execute, TypeOK, Local
    <3> QED
      BY Zenon, <2>7, <3>3, <3>4, <3>5, <3>6 DEF Execute, TypeOK, Local, held, bounds
  <2>8. ASSUME NEW p \in Procs, NEW a \in plan[p], ExecuteFails(p, a)
        PROVE  TypeOK'
    BY <2>8 DEF ExecuteFails, TypeOK, machine, held, ghosts
  <2>9. ASSUME NEW p \in Procs, TakeRecord(p)
        PROVE  TypeOK'
    BY Zenon, <2>9, <2>r DEF TakeRecord, TypeOK, machine, bounds, ghosts
  <2>10. ASSUME NEW p \in Procs, WriteRecord(p)
         PROVE  TypeOK'
    <3>1. /\ copy[p] \in Records
          /\ done[p] \in SUBSET Actions
          /\ seen[p] \in SUBSET Clients
      BY Zenon DEF TypeOK
    <3>2. /\ fold(copy[p], done[p], seen[p]) \in Records
          /\ fold(ledger, done[p], seen[p]) \in Records
      BY Zenon, <3>1, FoldType DEF TypeOK
    <3>3. Touched(done[p]) \subseteq Objects
      BY <3>1 DEF Touched, Actions, Objects
    <3>4. /\ file' \in [boot : Nat, record : Records]
          /\ ledger' \in Records
          /\ faults' \in Nat
          /\ loose' \subseteq Objects
      BY <2>10, <3>2, <3>3 DEF WriteRecord, TypeOK
    <3>5. Local'
      BY Zenon, <2>10, IdleType DEF WriteRecord, TypeOK, Local
    <3> QED
      BY <2>10, <3>4, <3>5 DEF WriteRecord, TypeOK, Local, machine, Without
  <2>11. ASSUME NEW p \in Procs, Die(p)
         PROVE  TypeOK'
    <3>1. Touched(done[p]) \subseteq Objects
      BY DEF TypeOK, Touched, Actions, Objects
    <3>2. Local'
      BY Zenon, <2>11, IdleType DEF Die, TypeOK, Local
    <3> QED
      BY <2>11, <3>1, <3>2 DEF Die, TypeOK, Local, machine, Without
  <2>12. CASE Reboot
    BY <2>12, NoRecordType DEF Reboot, TypeOK
  <2>13. CASE Edit
    BY <2>13 DEF Edit, TypeOK, machine, held, local, ghosts
  <2>14. ASSUME NEW l \in Links, OutsideLink(l)
         PROVE  TypeOK'
    BY <2>14 DEF OutsideLink, TypeOK, held, local, Objects
  <2>15. ASSUME NEW c \in Clients, ClientEnds(c)
         PROVE  TypeOK'
    BY <2>15 DEF ClientEnds, TypeOK, held, local, ghosts
  <2>16. CASE UNCHANGED vars
    BY Zenon, <2>16 DEF vars, machine, held, local, bounds, ghosts, TypeOK
  <2> QED
    BY Zenon, <2>1, <2>2, <2>3, <2>4, <2>5, <2>6, <2>7, <2>8, <2>9, <2>10, <2>11, <2>12,
       <2>13, <2>14, <2>15, <2>16 DEF Next, DaemonSteps, ProcSteps, Environment
<1> QED
  BY <1>1, <1>2, PTL DEF Spec

-----------------------------------------------------------------------------
(* The locks *)

\* Who holds what: owned.lock between the two halves of an update, apply.lock
\* from the start of an apply, or of a plan of the daemon's, to its record.  A
\* journal is only had under apply.lock, and a plan only by who is at work.
Locks ==
    /\ \A p \in Procs : owned_lock = p <=> pc[p] \in {"telling", "recording"}
    /\ \A p \in Procs : apply_lock = p <=> pc[p] \in {"look", "run", "record", "recording"}
    /\ \A p \in Procs : done[p] # {} => pc[p] \in {"run", "record", "recording"}
    /\ \A p \in Procs : plan[p] # {} => pc[p] # "idle"

\* The locks are kept by every step.
LEMMA LocksStep ==
    ASSUME TypeOK, Locks, [Next]_vars
    PROVE  Locks'
<1>1. CASE DaemonLook \/ DaemonDefers \/ DaemonApply
  <2>1. PICK todo : DaemonLooks(todo)
    BY Zenon, <1>1, DaemonObserves
  <2> QED
    BY Zenon, <2>1 DEF DaemonLooks, Observe, Locks, TypeOK, held
<1>2. CASE DaemonLock
  BY Zenon, <1>2 DEF DaemonLock, Locks, TypeOK
<1>3. CASE DaemonGivesUp
  BY Zenon, <1>3 DEF DaemonGivesUp, Idle, Locks, TypeOK, held
<1>4. CASE WriteTold
  BY Zenon, <1>4 DEF WriteTold, Without, Locks, TypeOK
<1>5. ASSUME NEW p \in Clis, CliStart(p)
      PROVE  Locks'
  BY Zenon, <1>5 DEF CliStart, serialise, Locks, TypeOK
<1>6. ASSUME NEW p \in Clis, NEW d \in Trees, CliLook(p, d)
      PROVE  Locks'
  <2> DEFINE todo == plan_build(d, owned_read)
  <2>1. /\ pc[p] = "look"
        /\ plan' = [plan EXCEPT ![p] = todo]
        /\ pc' = [pc EXCEPT ![p] = IF todo = {} THEN "idle" ELSE "run"]
        /\ apply_lock' = IF todo = {} THEN Without(apply_lock, p) ELSE apply_lock
        /\ UNCHANGED <<owned_lock, done>>
    BY Zenon, <1>6 DEF CliLook, Observe
  <2> HIDE DEF todo
  <2> QED
    BY <2>1 DEF Without, Locks, TypeOK
<1>7. ASSUME NEW p \in Procs, NEW a \in plan[p], Execute(p, a)
      PROVE  Locks'
  <2>1. /\ pc[p] = "run"
        /\ done' = [done EXCEPT ![p] = @ \cup {a}]
        /\ plan' = [plan EXCEPT ![p] = @ \ {a}]
        /\ pc' = [pc EXCEPT ![p] = IF plan[p] = {a} THEN "record" ELSE "run"]
        /\ UNCHANGED <<apply_lock, owned_lock>>
    BY Zenon, <1>7 DEF Execute, Executes, held
  <2> QED
    BY Zenon, <2>1 DEF Locks, TypeOK
<1>8. ASSUME NEW p \in Procs, NEW a \in plan[p], ExecuteFails(p, a)
      PROVE  Locks'
  BY Zenon, <1>8 DEF ExecuteFails, Executes, Locks, TypeOK, held
<1>9. ASSUME NEW p \in Procs, TakeRecord(p)
      PROVE  Locks'
  BY Zenon, <1>9 DEF TakeRecord, owned_free, Locks, TypeOK
<1>10. ASSUME NEW p \in Procs, WriteRecord(p)
       PROVE  Locks'
  BY Zenon, <1>10 DEF WriteRecord, Idle, Without, Locks, TypeOK
<1>11. ASSUME NEW p \in Procs, Die(p)
       PROVE  Locks'
  BY Zenon, <1>11 DEF Die, Idle, Without, Locks, TypeOK
<1>12. CASE Reboot
  BY Zenon, <1>12 DEF Reboot, Locks
<1>13. CASE Edit
  BY Zenon, <1>13 DEF Edit, Locks, held, local
<1>14. ASSUME NEW l \in Links, OutsideLink(l)
       PROVE  Locks'
  BY Zenon, <1>14 DEF OutsideLink, Locks, held, local
<1>15. ASSUME NEW c \in Clients, ClientEnds(c)
       PROVE  Locks'
  BY Zenon, <1>15 DEF ClientEnds, Locks, held, local
<1>16. CASE UNCHANGED vars
  BY Zenon, <1>16 DEF vars, held, local, Locks
<1> QED
  BY Zenon, <1>1, <1>2, <1>3, <1>4, <1>5, <1>6, <1>7, <1>8, <1>9, <1>10, <1>11, <1>12,
     <1>13, <1>14, <1>15, <1>16 DEF Next, DaemonSteps, ProcSteps, Environment

\* Both hold in every reachable state.
LEMMA LocksCorrect == Spec => [](TypeOK /\ Locks)
<1>1. Init => Locks
  BY DEF Init, Locks
<1>2. TypeOK /\ Locks /\ [Next]_vars => Locks'
  BY Zenon, LocksStep
<1> QED
  BY <1>1, <1>2, TypeCorrect, PTL DEF Spec

-----------------------------------------------------------------------------
(* The updates of the record *)

\* Whoever holds owned.lock has the record as it is, and no record is of a
\* boot to come.
Copied ==
    /\ \A p \in Procs : owned_lock = p => copy[p] = owned_read
    /\ file.boot <= boot

\* A step that changes neither the record nor what was copied of it.
LEMMA CopiedFrame ==
    ASSUME TypeOK, Copied, NoUpdateIsLost, UNCHANGED <<file, boot, ledger>>,
           \A p \in Procs : owned_lock' = p => owned_lock = p /\ copy'[p] = copy[p]
    PROVE  Copied' /\ NoUpdateIsLost'
BY Zenon DEF Copied, NoUpdateIsLost, owned_read

\* What is read after a write of this boot is what was written.
LEMMA CopiedWrite ==
    ASSUME TypeOK, NEW r, file' = [boot |-> boot, record |-> r], UNCHANGED boot,
           ledger' = r, owned_lock' = None
    PROVE  Copied' /\ NoUpdateIsLost'
BY DEF Copied, NoUpdateIsLost, owned_read, TypeOK

\* No step loses an update.
LEMMA UpdatesStep ==
    ASSUME TypeOK, Locks, Copied, NoUpdateIsLost, [Next]_vars
    PROVE  Copied' /\ NoUpdateIsLost'
<1>1. CASE DaemonLook \/ DaemonDefers \/ DaemonApply
  BY Zenon, <1>1, DaemonObserves, CopiedFrame DEF DaemonLooks, machine, held
<1>2. CASE DaemonLock
  BY Zenon, <1>2, CopiedFrame DEF DaemonLock, machine, ghosts
<1>3. CASE DaemonGivesUp
  <2>1. \A p \in Procs : owned_lock' = p => owned_lock = p /\ copy'[p] = copy[p]
    BY Zenon, <1>3 DEF DaemonGivesUp, Idle, Locks, TypeOK, held
  <2> QED
    BY Zenon, <1>3, <2>1, CopiedFrame DEF DaemonGivesUp, machine, ghosts
<1>4. CASE WriteTold
  <2>1. owned_lock = Daemon /\ copy[Daemon] = ledger
    BY Zenon, <1>4 DEF WriteTold, Locks, Copied, NoUpdateIsLost
  <2>2. owned_lock' = None /\ UNCHANGED boot
    BY Zenon, <1>4, <2>1 DEF WriteTold, Without, machine
  <2>3. CASE /\ file' = [boot |-> boot, record |-> note_them(copy[Daemon], telling[Daemon])]
             /\ ledger' = note_them(ledger, telling[Daemon])
    BY Zenon, <2>1, <2>2, <2>3, CopiedWrite
  <2>4. CASE UNCHANGED <<file, ledger>>
    BY Zenon, <2>2, <2>4, CopiedFrame
  <2> QED
    BY Zenon, <1>4, <2>3, <2>4 DEF WriteTold
<1>5. ASSUME NEW p \in Clis, CliStart(p)
      PROVE  Copied' /\ NoUpdateIsLost'
  BY Zenon, <1>5, CopiedFrame DEF CliStart, machine, ghosts
<1>6. ASSUME NEW p \in Clis, NEW d \in Trees, CliLook(p, d)
      PROVE  Copied' /\ NoUpdateIsLost'
  BY Zenon, <1>6, CopiedFrame DEF CliLook, machine
<1>7. ASSUME NEW p \in Procs, NEW a \in plan[p], Execute(p, a)
      PROVE  Copied' /\ NoUpdateIsLost'
  BY Zenon, <1>7, CopiedFrame DEF Execute, held
<1>8. ASSUME NEW p \in Procs, NEW a \in plan[p], ExecuteFails(p, a)
      PROVE  Copied' /\ NoUpdateIsLost'
  BY Zenon, <1>8, CopiedFrame DEF ExecuteFails, machine, held, ghosts
<1>9. ASSUME NEW p \in Procs, TakeRecord(p)
      PROVE  Copied' /\ NoUpdateIsLost'
  BY Zenon, <1>9 DEF TakeRecord, Copied, NoUpdateIsLost, owned_read, TypeOK, machine, ghosts
<1>10. ASSUME NEW p \in Procs, WriteRecord(p)
       PROVE  Copied' /\ NoUpdateIsLost'
  <2>1. owned_lock = p /\ copy[p] = ledger
    BY Zenon, <1>10 DEF WriteRecord, Locks, Copied, NoUpdateIsLost
  <2>2. owned_lock' = None /\ UNCHANGED boot
    BY Zenon, <1>10, <2>1 DEF WriteRecord, Without, machine
  <2>3. CASE /\ file' = [boot |-> boot, record |-> fold(copy[p], done[p], seen[p])]
             /\ ledger' = fold(ledger, done[p], seen[p])
    BY Zenon, <2>1, <2>2, <2>3, CopiedWrite
  <2>4. CASE UNCHANGED <<file, ledger>>
    BY Zenon, <2>2, <2>4, CopiedFrame
  <2> QED
    BY Zenon, <1>10, <2>3, <2>4 DEF WriteRecord
<1>11. ASSUME NEW p \in Procs, Die(p)
       PROVE  Copied' /\ NoUpdateIsLost'
  <2>1. \A q \in Procs : owned_lock' = q => owned_lock = q /\ copy'[q] = copy[q]
    BY Zenon, <1>11 DEF Die, Idle, Without, TypeOK
  <2> QED
    BY Zenon, <1>11, <2>1, CopiedFrame DEF Die, machine
<1>12. CASE Reboot
  BY <1>12 DEF Reboot, Copied, NoUpdateIsLost, owned_read, TypeOK
<1>13. CASE Edit
  BY Zenon, <1>13, CopiedFrame DEF Edit, machine, held, local, ghosts
<1>14. ASSUME NEW l \in Links, OutsideLink(l)
       PROVE  Copied' /\ NoUpdateIsLost'
  BY Zenon, <1>14, CopiedFrame DEF OutsideLink, held, local
<1>15. ASSUME NEW c \in Clients, ClientEnds(c)
       PROVE  Copied' /\ NoUpdateIsLost'
  BY Zenon, <1>15, CopiedFrame DEF ClientEnds, held, local, ghosts
<1>16. CASE UNCHANGED vars
  BY Zenon, <1>16, CopiedFrame DEF vars, machine, held, local, ghosts
<1> QED
  BY Zenon, <1>1, <1>2, <1>3, <1>4, <1>5, <1>6, <1>7, <1>8, <1>9, <1>10, <1>11, <1>12,
     <1>13, <1>14, <1>15, <1>16 DEF Next, DaemonSteps, ProcSteps, Environment

\* No update of owned.json is lost, however many processes change it, in
\* whatever order, and whichever of them die in between: ncfg_owned_update
\* reads and writes under owned.lock.
THEOREM UpdatesCorrect == Spec => []NoUpdateIsLost
<1>1. Init => Copied /\ NoUpdateIsLost
  BY DEF Init, Copied, NoUpdateIsLost, owned_read
<1>2. TypeOK /\ Locks /\ Copied /\ NoUpdateIsLost /\ [Next]_vars => Copied' /\ NoUpdateIsLost'
  BY Zenon, UpdatesStep
<1> QED
  BY <1>1, <1>2, LocksCorrect, PTL DEF Spec

-----------------------------------------------------------------------------
(* Applies *)

\* An apply of the command line runs the plan of an observation that nobody
\* else's actions have overtaken: command_apply takes apply.lock first.
THEOREM AppliesCorrect == Spec => []AppliesAreFresh
<1>1. Init => AppliesAreFresh
  BY Zenon DEF Init, AppliesAreFresh
<1>2. TypeOK /\ Locks /\ AppliesAreFresh /\ [Next]_vars => AppliesAreFresh'
  <2> SUFFICES ASSUME TypeOK, Locks, AppliesAreFresh, [Next]_vars
               PROVE  AppliesAreFresh'
    OBVIOUS
  <2>1. CASE DaemonLook \/ DaemonDefers \/ DaemonApply
    <3>1. PICK todo : DaemonLooks(todo)
      BY Zenon, <2>1, DaemonObserves
    <3>2. \A p \in Clis : pc'[p] = pc[p]
      BY Zenon, <3>1 DEF DaemonLooks, TypeOK
    <3>3. \A p \in Clis : p \in stale' => p \in stale
      BY Zenon, <3>1 DEF DaemonLooks, Observe
    <3> QED
      BY Zenon, <3>2, <3>3 DEF AppliesAreFresh
  <2>2. ASSUME NEW p \in Clis, NEW d \in Trees, CliLook(p, d)
        PROVE  AppliesAreFresh'
    <3>1. \A q \in Procs \ {p} : done[q] = {}
      BY Zenon, <2>2 DEF CliLook, Locks
    <3>2. stale' = stale \ {p}
      BY Zenon, <2>2, <3>1 DEF CliLook, Observe
    <3>3. \A q \in Clis \ {p} : pc'[q] = pc[q]
      BY Zenon, <2>2 DEF CliLook, TypeOK
    <3> QED
      BY Zenon, <3>2, <3>3 DEF AppliesAreFresh
  <2>3. ASSUME NEW p \in Procs, NEW a \in plan[p], Execute(p, a)
        PROVE  AppliesAreFresh'
    <3>1. /\ pc[p] = "run"
          /\ stale' = stale \cup {q \in Procs \ {p} : pc[q] # "idle"}
          /\ \A q \in Procs \ {p} : pc'[q] = pc[q]
      BY Zenon, <2>3 DEF Execute, Executes, TypeOK
    <3>2. \A q \in Procs \ {p} : pc[q] # "run"
      BY <3>1 DEF Locks
    <3> QED
      BY Zenon, <3>1, <3>2 DEF AppliesAreFresh
  <2>4. CASE Reboot
    BY Zenon, <2>4 DEF Reboot, AppliesAreFresh
  <2>5. ASSUME stale' = stale,
               \A p \in Clis : pc'[p] = "run" => pc[p] = "run"
        PROVE  AppliesAreFresh'
    BY Zenon, <2>5 DEF AppliesAreFresh
  <2>6. CASE DaemonLock \/ DaemonGivesUp \/ WriteTold
    BY Zenon, <2>5, <2>6 DEF DaemonLock, DaemonGivesUp, WriteTold, Idle, TypeOK, ghosts
  <2>7. ASSUME NEW p \in Procs,
               \/ p \in Clis /\ CliStart(p)
               \/ \E a \in plan[p] : ExecuteFails(p, a)
               \/ TakeRecord(p) \/ WriteRecord(p) \/ Die(p)
        PROVE  AppliesAreFresh'
    BY Zenon, <2>5, <2>7
    DEF CliStart, ExecuteFails, TakeRecord, WriteRecord, Die, Idle, TypeOK, ghosts
  <2>8. CASE Edit \/ (\E l \in Links : OutsideLink(l)) \/ (\E c \in Clients : ClientEnds(c))
    BY Zenon, <2>5, <2>8 DEF Edit, OutsideLink, ClientEnds, local, ghosts
  <2>9. CASE UNCHANGED vars
    BY Zenon, <2>5, <2>9 DEF vars, local, ghosts
  <2> QED
    BY Zenon, <2>1, <2>2, <2>3, <2>4, <2>6, <2>7, <2>8, <2>9
    DEF Next, DaemonSteps, ProcSteps, Environment
<1> QED
  BY <1>1, <1>2, LocksCorrect, PTL DEF Spec

-----------------------------------------------------------------------------
(* The record and the machine *)

\* A plan has one action for an object, and so has what was done of it.
OneEach ==
    \A p \in Procs : \A a, b \in plan[p] \cup done[p] : a.on = b.on => a = b

\* What is in a journal is so, unless others have undone it.
Effects ==
    \A p \in Procs : \A a \in done[p] :
        a.on \notin loose =>
            /\ a.op = "create" => Made(a.on)
            /\ a.op = "delete" => ~Made(a.on)
            /\ a.op = "stop" => ~client[a.on]

\* RecordMatchesMachine, of the ledger.
Agrees(o) ==
    /\ o \in Links => (o \in ledger.links <=> Made(o))
    /\ o \in Clients /\ client[o] => o \in ledger.clients
Matches ==
    \A o \in Objects :
        o \notin loose /\ (\A p \in Procs : \A a \in done[p] : a.on # o) => Agrees(o)

\* What is to be deleted is netcfgd's, unless others have come in between.
Deletes ==
    \A p \in Procs : \A a \in plan[p] :
        a.op = "delete" => Made(a.on) \/ a.on \in loose \/ p \in stale

Truthful == OneEach /\ Effects /\ Matches /\ Deletes

\* What an action is about.
LEMMA ActionFields ==
    ASSUME NEW a \in Actions
    PROVE  /\ a.op \in {"create", "delete", "start", "stop"}
           /\ a.op \in {"create", "delete"} => a.on \in Links /\ a.on \notin Clients
           /\ a.op \in {"start", "stop"} => a.on \in Clients /\ a.on \notin Links
BY Zenon DEF Actions

\* What a fold makes of the links and the clients of a record.
LEMMA FoldFields ==
    ASSUME NEW r \in Records, NEW A \in SUBSET Actions, NEW U \in SUBSET Clients
    PROVE  /\ fold(r, A, U).links = (r.links \cup On(A, "create")) \ On(A, "delete")
           /\ fold(r, A, U).clients = (r.clients \cup On(A, "start")) \ On(A, "stop")
<1> DEFINE s == restarts_cleared_by_running(r, U)
<1>1. s.links = r.links /\ s.clients = r.clients
  BY Zenon DEF restarts_cleared_by_running, Records
<1>2. s \in Records
  BY Zenon DEF restarts_cleared_by_running, Records
<1> HIDE DEF s
<1>3. /\ absorb(s, A).links = (s.links \cup On(A, "create")) \ On(A, "delete")
      /\ absorb(s, A).clients = (s.clients \cup On(A, "start")) \ On(A, "stop")
  BY Zenon, <1>2 DEF absorb, Records
<1> QED
  BY Zenon, <1>1, <1>3 DEF fold, s

\* What hooks were told leaves the links and the clients alone.
LEMMA NoteFields ==
    ASSUME NEW r \in Records, NEW T
    PROVE  note_them(r, T).links = r.links /\ note_them(r, T).clients = r.clients
BY Zenon DEF note_them, Records

\* What the actions of a plan are for.
LEMMA PlanMember ==
    ASSUME NEW d, NEW r \in Records, NEW a \in plan_build(d, r)
    PROVE  \/ a = [op |-> "create", on |-> a.on] /\ a.on \in Links /\ a.on \in d.wants
           \/ a = [op |-> "start", on |-> a.on] /\ a.on \in Clients /\ a.on \in d.wants
           \/ a = [op |-> "stop", on |-> a.on] /\ a.on \in Clients /\ a.on \notin d.wants
           \/ /\ a = [op |-> "delete", on |-> a.on] /\ a.on \in Links /\ a.on \notin d.wants
              /\ link_ownership(r, a.on)
<1>1. running(r) \subseteq Clients
  BY Zenon, PlanType
<1>2. CASE a \in link_creation(d)
  BY <1>2 DEF link_creation, Every
<1>3. CASE a \in backend(d, r)
  BY <1>3 DEF backend, Every
<1>4. CASE a \in teardown_backends(d, r)
  BY <1>1, <1>4 DEF teardown_backends, Every
<1>5. CASE a \in teardown_links(d, r)
  BY <1>5 DEF teardown_links, Every
<1> QED
  BY Zenon, <1>2, <1>3, <1>4, <1>5 DEF plan_build

\* No plan has two actions for one object.
LEMMA PlanOneEach ==
    ASSUME NEW d, NEW r \in Records, NEW a \in plan_build(d, r), NEW b \in plan_build(d, r),
           a.on = b.on
    PROVE  a = b
<1>1. \/ a = [op |-> "create", on |-> a.on] /\ a.on \in Links /\ a.on \in d.wants
      \/ a = [op |-> "start", on |-> a.on] /\ a.on \in Clients /\ a.on \in d.wants
      \/ a = [op |-> "stop", on |-> a.on] /\ a.on \in Clients /\ a.on \notin d.wants
      \/ a = [op |-> "delete", on |-> a.on] /\ a.on \in Links /\ a.on \notin d.wants
  BY Zenon, PlanMember
<1>2. \/ b = [op |-> "create", on |-> b.on] /\ b.on \in Links /\ b.on \in d.wants
      \/ b = [op |-> "start", on |-> b.on] /\ b.on \in Clients /\ b.on \in d.wants
      \/ b = [op |-> "stop", on |-> b.on] /\ b.on \in Clients /\ b.on \notin d.wants
      \/ b = [op |-> "delete", on |-> b.on] /\ b.on \in Links /\ b.on \notin d.wants
  BY Zenon, PlanMember
<1> QED
  BY <1>1, <1>2

\* A step that changes nothing of all this, but that plans may be dropped.
LEMMA TruthfulFrame ==
    ASSUME TypeOK, Truthful, UNCHANGED <<link, client, done, loose, stale>>,
           ledger'.links = ledger.links, ledger'.clients = ledger.clients,
           \A p \in Procs : plan'[p] \subseteq plan[p]
    PROVE  Truthful'
<1>1. OneEach'
  BY DEF Truthful, OneEach
<1>2. Effects'
  BY Zenon DEF Truthful, Effects, Made
<1>3. Matches'
  BY Zenon DEF Truthful, Matches, Agrees, Made
<1>4. Deletes'
  BY Zenon DEF Truthful, Deletes, Made
<1> QED
  BY Zenon, <1>1, <1>2, <1>3, <1>4 DEF Truthful

\* An observation, by a process that has no journal.
LEMMA TruthfulObserve ==
    ASSUME TypeOK, Truthful, NEW p \in Procs, NEW d, done[p] = {},
           NEW todo \in SUBSET plan_build(d, ledger), Observe(p, d, ledger, todo),
           UNCHANGED <<link, client, done, loose, ledger>>
    PROVE  Truthful'
<1>1. /\ plan'[p] = todo
      /\ \A q \in Procs \ {p} : plan'[q] = plan[q]
      /\ \A q \in Procs \ {p} : q \in stale => q \in stale'
      /\ p \notin stale' => \A q \in Procs \ {p} : done[q] = {}
  BY Zenon DEF Observe, TypeOK
<1>r. ledger \in Records
  BY Zenon DEF TypeOK
<1>2. OneEach'
  <2> SUFFICES ASSUME NEW q \in Procs, NEW a \in plan'[q] \cup done'[q],
                      NEW b \in plan'[q] \cup done'[q], a.on = b.on
               PROVE  a = b
    BY Zenon DEF OneEach
  <2>1. CASE q = p
    BY <1>1, <1>r, <2>1, PlanOneEach
  <2>2. CASE q # p
    BY Zenon, <1>1, <2>2 DEF Truthful, OneEach
  <2> QED
    BY Zenon, <2>1, <2>2
<1>3. Effects'
  BY Zenon DEF Truthful, Effects, Made
<1>4. Matches'
  BY Zenon DEF Truthful, Matches, Agrees, Made
<1>5. Deletes'
  <2> SUFFICES ASSUME NEW q \in Procs, NEW a \in plan'[q], a.op = "delete",
                      a.on \notin loose, q \notin stale'
               PROVE  Made(a.on)
    BY Zenon DEF Deletes, Made
  <2>1. CASE q = p
    <3>1. a.on \in Links /\ link_ownership(ledger, a.on)
      BY <1>1, <1>r, <2>1, PlanMember
    <3>2. \A w \in Procs : done[w] = {}
      BY Zenon, <1>1, <2>1
    <3>3. a.on \in ledger.links => Made(a.on)
      BY Zenon, <3>1, <3>2 DEF Truthful, Matches, Agrees, Objects
    <3> QED
      BY Zenon, <3>1, <3>3 DEF link_ownership, Made
  <2>2. CASE q # p
    BY Zenon, <1>1, <2>2 DEF Truthful, Deletes
  <2> QED
    BY Zenon, <2>1, <2>2
<1> QED
  BY Zenon, <1>2, <1>3, <1>4, <1>5 DEF Truthful

\* An action that is done, by the only process that has a journal.
LEMMA TruthfulExecute ==
    ASSUME TypeOK, Locks, Truthful, NEW p \in Procs, NEW a \in plan[p], Execute(p, a)
    PROVE  Truthful'
<1>1. \A q \in Procs \ {p} : done[q] = {} /\ done'[q] = {} /\ plan'[q] = plan[q]
  BY DEF Execute, Executes, Locks, TypeOK
<1>2. /\ done'[p] = done[p] \cup {a}
      /\ plan'[p] = plan[p] \ {a}
      /\ loose' = loose \ {a.on}
      /\ ledger' = ledger
  BY Zenon DEF Execute, TypeOK
<1>3. a \in Actions /\ done[p] \subseteq Actions /\ plan[p] \subseteq Actions
  BY Zenon DEF TypeOK
<1>4. /\ a.op = "create" => Made(a.on)'
      /\ a.op = "delete" => ~Made(a.on)'
      /\ a.op = "stop" => ~client'[a.on]
  BY Zenon, <1>3, ActionFields DEF Execute, TypeOK, Made, mark_as_ours
<1>5. /\ \A l \in Links : l # a.on => Made(l)' = Made(l)
      /\ \A c \in Clients : c # a.on => client'[c] = client[c]
  BY Zenon, <1>3, ActionFields DEF Execute, TypeOK, Made
<1>6. OneEach'
  <2> SUFFICES ASSUME NEW q \in Procs
               PROVE  plan'[q] \cup done'[q] \subseteq plan[q] \cup done[q]
    BY Zenon DEF Truthful, OneEach
  <2> QED
    BY Zenon, <1>1, <1>2
<1>7. Effects'
  <2> SUFFICES ASSUME NEW b \in done'[p], b.on \notin loose'
               PROVE  /\ b.op = "create" => Made(b.on)'
                      /\ b.op = "delete" => ~Made(b.on)'
                      /\ b.op = "stop" => ~client'[b.on]
    BY Zenon, <1>1 DEF Effects
  <2>1. CASE b.on = a.on
    BY Zenon, <1>2, <1>4, <2>1 DEF Truthful, OneEach
  <2>2. CASE b.on # a.on
    <3>1. b \in done[p] /\ b.on \notin loose /\ b \in Actions
      BY Zenon, <1>2, <1>3, <2>2
    <3>2. /\ b.op = "create" => Made(b.on)
          /\ b.op = "delete" => ~Made(b.on)
          /\ b.op = "stop" => ~client[b.on]
      BY Zenon, <3>1 DEF Truthful, Effects
    <3> QED
      BY Zenon, <1>5, <2>2, <3>1, <3>2, ActionFields
  <2> QED
    BY Zenon, <2>1, <2>2
<1>8. Matches'
  <2> SUFFICES ASSUME NEW o \in Objects, o \notin loose',
                      \A q \in Procs : \A b \in done'[q] : b.on # o
               PROVE  Agrees(o)'
    BY Zenon DEF Matches
  <2>1. o # a.on
    BY Zenon, <1>2
  <2>2. Agrees(o)
    BY Zenon, <1>1, <1>2, <2>1 DEF Truthful, Matches
  <2> QED
    BY Zenon, <1>2, <1>5, <2>1, <2>2 DEF Agrees
<1>9. Deletes'
  <2> SUFFICES ASSUME NEW q \in Procs, NEW b \in plan'[q], b.op = "delete", q \notin stale'
               PROVE  Made(b.on)' \/ b.on \in loose'
    BY Zenon DEF Deletes
  <2>1. q = p
    BY Zenon, <1>1 DEF Execute, Locks
  <2>2. q \notin stale /\ b \in plan[p] /\ b # a
    BY Zenon, <1>2, <2>1 DEF Execute
  <2>3. b.on # a.on
    BY Zenon, <2>2 DEF Truthful, OneEach
  <2>4. Made(b.on) \/ b.on \in loose
    BY Zenon, <2>1, <2>2 DEF Truthful, Deletes
  <2>5. b.on \in Links
    BY Zenon, <1>3, <2>2, ActionFields
  <2> QED
    BY Zenon, <1>2, <1>5, <2>3, <2>4, <2>5
<1> QED
  BY Zenon, <1>6, <1>7, <1>8, <1>9 DEF Truthful

\* A journal that is folded into the record.
LEMMA TruthfulRecord ==
    ASSUME TypeOK, Truthful, NEW p \in Procs, Idle(p),
           ledger' = fold(ledger, done[p], seen[p]),
           UNCHANGED <<link, client, loose, stale>>
    PROVE  Truthful'
<1>1. /\ done'[p] = {} /\ plan'[p] = {}
      /\ \A q \in Procs \ {p} : done'[q] = done[q] /\ plan'[q] = plan[q]
  BY Zenon DEF Idle, TypeOK
<1>2. done[p] \subseteq Actions
  BY Zenon DEF TypeOK
<1>3. /\ ledger'.links = (ledger.links \cup On(done[p], "create")) \ On(done[p], "delete")
      /\ ledger'.clients = (ledger.clients \cup On(done[p], "start")) \ On(done[p], "stop")
  BY Zenon, FoldFields DEF TypeOK
<1>4. OneEach' /\ Effects' /\ Deletes'
  BY <1>1 DEF Truthful, OneEach, Effects, Deletes, Made
<1>5. Matches'
  <2> SUFFICES ASSUME NEW o \in Objects, o \notin loose,
                      \A q \in Procs : \A b \in done'[q] : b.on # o
               PROVE  Agrees(o)'
    BY Zenon DEF Matches
  <2>1. CASE \A b \in done[p] : b.on # o
    <3>1. Agrees(o)
      BY Zenon, <1>1, <2>1 DEF Truthful, Matches
    <3>2. \A op : o \notin On(done[p], op)
      BY Zenon, <2>1 DEF On
    <3> QED
      BY Zenon, <1>3, <3>1, <3>2 DEF Agrees, Made
  <2>2. ASSUME NEW a \in done[p], a.on = o
        PROVE  Agrees(o)'
    <3>1. /\ a \in Actions
          /\ \A b \in done[p] : b.on = o => b = a
      BY Zenon, <1>2, <2>2 DEF Truthful, OneEach
    <3>2. \A op : o \in On(done[p], op) <=> op = a.op
      BY Zenon, <2>2, <3>1 DEF On
    <3>3. /\ a.op = "create" => Made(o)
          /\ a.op = "delete" => ~Made(o)
          /\ a.op = "stop" => ~client[o]
      BY Zenon, <2>2 DEF Truthful, Effects
    <3>4. o \in Links => (o \in ledger'.links <=> Made(o))
      BY Zenon, <1>3, <2>2, <3>1, <3>2, <3>3, ActionFields
    <3>5. o \in Clients /\ client[o] => o \in ledger'.clients
      BY Zenon, <1>3, <2>2, <3>1, <3>2, <3>3, ActionFields
    <3> QED
      BY Zenon, <3>4, <3>5 DEF Agrees, Made
  <2> QED
    BY Zenon, <2>1, <2>2
<1> QED
  BY Zenon, <1>4, <1>5 DEF Truthful

\* A journal that is lost.
LEMMA TruthfulLoss ==
    ASSUME TypeOK, Truthful, NEW p \in Procs, Idle(p), loose' = loose \cup Touched(done[p]),
           UNCHANGED <<link, client, ledger, stale>>
    PROVE  Truthful'
<1>1. /\ done'[p] = {} /\ plan'[p] = {}
      /\ \A q \in Procs \ {p} : done'[q] = done[q] /\ plan'[q] = plan[q]
  BY Zenon DEF Idle, TypeOK
<1>2. OneEach' /\ Effects' /\ Deletes'
  BY <1>1 DEF Truthful, OneEach, Effects, Deletes, Made
<1>3. Matches'
  BY <1>1 DEF Truthful, Matches, Agrees, Made, Touched
<1> QED
  BY Zenon, <1>2, <1>3 DEF Truthful

\* Somebody else makes or removes a link.
LEMMA TruthfulOutside ==
    ASSUME TypeOK, Truthful, NEW l \in Links, OutsideLink(l)
    PROVE  Truthful'
<1>1. /\ UNCHANGED <<client, plan, done, ledger, stale>>
      /\ loose \subseteq loose'
      /\ Made(l) => l \in loose'
  BY Zenon DEF OutsideLink, local
<1>2. /\ ~Made(l)'
      /\ \A m \in Links : m # l => Made(m)' = Made(m)
  BY Zenon DEF OutsideLink, Made, TypeOK
<1>3. \A p \in Procs : plan[p] \subseteq Actions /\ done[p] \subseteq Actions
  BY Zenon DEF TypeOK
<1>4. OneEach'
  BY <1>1 DEF Truthful, OneEach
<1>5. Effects'
  <2> SUFFICES ASSUME NEW p \in Procs, NEW a \in done[p], a.on \notin loose'
               PROVE  /\ a.op = "create" => Made(a.on)'
                      /\ a.op = "delete" => ~Made(a.on)'
                      /\ a.op = "stop" => ~client'[a.on]
    BY Zenon, <1>1 DEF Effects
  <2>1. /\ a.op = "create" => Made(a.on)
        /\ a.op = "delete" => ~Made(a.on)
        /\ a.op = "stop" => ~client[a.on]
    BY Zenon, <1>1 DEF Truthful, Effects
  <2>2. a.op \in {"create", "delete"} => a.on \in Links
    BY Zenon, <1>3, ActionFields
  <2> QED
    BY Zenon, <1>1, <1>2, <2>1, <2>2
<1>6. Matches'
  <2> SUFFICES ASSUME NEW o \in Objects, o \notin loose',
                      \A q \in Procs : \A b \in done[q] : b.on # o
               PROVE  Agrees(o)'
    BY Zenon, <1>1 DEF Matches
  <2>1. Agrees(o)
    BY Zenon, <1>1 DEF Truthful, Matches
  <2> QED
    BY Zenon, <1>1, <1>2, <2>1 DEF Agrees
<1>7. Deletes'
  <2> SUFFICES ASSUME NEW p \in Procs, NEW a \in plan[p], a.op = "delete", p \notin stale
               PROVE  Made(a.on)' \/ a.on \in loose'
    BY Zenon, <1>1 DEF Deletes
  <2>1. Made(a.on) \/ a.on \in loose
    BY Zenon DEF Truthful, Deletes
  <2>2. a.on \in Links
    BY Zenon, <1>3, ActionFields
  <2> QED
    BY Zenon, <1>1, <1>2, <2>1, <2>2
<1> QED
  BY Zenon, <1>4, <1>5, <1>6, <1>7 DEF Truthful

\* A client that ends leaves no more running.
LEMMA TruthfulEnds ==
    ASSUME TypeOK, Truthful, NEW c \in Clients, ClientEnds(c)
    PROVE  Truthful'
<1>1. /\ UNCHANGED <<link, plan, done, ledger, loose, stale>>
      /\ client' = [client EXCEPT ![c] = FALSE]
  BY Zenon DEF ClientEnds, local, ghosts
<1>2. OneEach' /\ Deletes' /\ \A l : Made(l)' = Made(l)
  BY <1>1 DEF Truthful, OneEach, Deletes, Made
<1>3. \A k \in Clients : client'[k] => client[k]
  BY Zenon, <1>1 DEF TypeOK
<1>4. Effects'
  <2> SUFFICES ASSUME NEW p \in Procs, NEW a \in done[p], a.on \notin loose
               PROVE  /\ a.op = "create" => Made(a.on)'
                      /\ a.op = "delete" => ~Made(a.on)'
                      /\ a.op = "stop" => ~client'[a.on]
    BY Zenon, <1>1 DEF Effects
  <2>1. a.op = "stop" => a.on \in Clients
    BY Zenon, ActionFields DEF TypeOK
  <2> QED
    BY Zenon, <1>2, <1>3, <2>1 DEF Truthful, Effects
<1>5. Matches'
  BY Zenon, <1>1, <1>2, <1>3 DEF Truthful, Matches, Agrees
<1> QED
  BY Zenon, <1>2, <1>4, <1>5 DEF Truthful

\* No step makes the record untrue.
LEMMA TruthfulStep ==
    ASSUME TypeOK, Locks, Copied, NoUpdateIsLost, Truthful, [Next]_vars
    PROVE  Truthful'
<1>r. owned_read = ledger /\ ledger \in Records
  BY Zenon DEF NoUpdateIsLost, TypeOK
<1>1. CASE DaemonLook \/ DaemonDefers \/ DaemonApply
  <2>1. PICK todo : DaemonLooks(todo)
    BY Zenon, <1>1, DaemonObserves
  <2>2. done[Daemon] = {}
    BY Zenon, <2>1 DEF DaemonLooks, Locks
  <2> QED
    BY Zenon, <1>r, <2>1, <2>2, TruthfulObserve DEF DaemonLooks, machine
<1>2. CASE DaemonLock
  BY Zenon, <1>2, TruthfulFrame DEF DaemonLock, machine, ghosts
<1>3. CASE DaemonGivesUp
  <2>1. done[Daemon] = {}
    BY Zenon, <1>3 DEF DaemonGivesUp, Locks
  <2>2. /\ done' = done
        /\ \A p \in Procs : plan'[p] \subseteq plan[p]
    BY Zenon, <1>3, <2>1 DEF DaemonGivesUp, Idle, TypeOK
  <2> QED
    BY Zenon, <1>3, <2>2, TruthfulFrame DEF DaemonGivesUp, machine, ghosts
<1>4. CASE WriteTold
  <2>1. ledger'.links = ledger.links /\ ledger'.clients = ledger.clients
    BY Zenon, <1>4, <1>r, NoteFields DEF WriteTold
  <2> QED
    BY Zenon, <1>4, <2>1, TruthfulFrame DEF WriteTold, machine
<1>5. ASSUME NEW p \in Clis, CliStart(p)
      PROVE  Truthful'
  BY Zenon, <1>5, TruthfulFrame DEF CliStart, machine, ghosts
<1>6. ASSUME NEW p \in Clis, NEW d \in Trees, CliLook(p, d)
      PROVE  Truthful'
  <2>1. done[p] = {}
    BY Zenon, <1>6 DEF CliLook, Locks
  <2> QED
    BY Zenon, <1>6, <1>r, <2>1, TruthfulObserve DEF CliLook, machine
<1>7. ASSUME NEW p \in Procs, NEW a \in plan[p], Execute(p, a)
      PROVE  Truthful'
  BY Zenon, <1>7, TruthfulExecute
<1>8. ASSUME NEW p \in Procs, NEW a \in plan[p], ExecuteFails(p, a)
      PROVE  Truthful'
  <2>1. \A q \in Procs : plan'[q] \subseteq plan[q]
    BY Zenon, <1>8 DEF ExecuteFails, TypeOK
  <2> QED
    BY Zenon, <1>8, <2>1, TruthfulFrame DEF ExecuteFails, machine, ghosts
<1>9. ASSUME NEW p \in Procs, TakeRecord(p)
      PROVE  Truthful'
  BY Zenon, <1>9, TruthfulFrame DEF TakeRecord, machine, ghosts
<1>10. ASSUME NEW p \in Procs, WriteRecord(p)
       PROVE  Truthful'
  <2>1. CASE ledger' = fold(ledger, done[p], seen[p]) /\ UNCHANGED loose
    BY Zenon, <1>10, <2>1, TruthfulRecord DEF WriteRecord, machine
  <2>2. CASE loose' = loose \cup Touched(done[p]) /\ UNCHANGED ledger
    BY Zenon, <1>10, <2>2, TruthfulLoss DEF WriteRecord, machine
  <2> QED
    BY Zenon, <1>10, <2>1, <2>2 DEF WriteRecord
<1>11. ASSUME NEW p \in Procs, Die(p)
       PROVE  Truthful'
  BY Zenon, <1>11, TruthfulLoss DEF Die, machine
<1>12. CASE Reboot
  <2>1. OneEach' /\ Effects' /\ Deletes'
    BY Zenon, <1>12 DEF Reboot, OneEach, Effects, Deletes
  <2>2. ledger'.links = {} /\ (\A l \in Links : ~Made(l)') /\ (\A c \in Clients : ~client'[c])
    BY Zenon, <1>12 DEF Reboot, NoRecord, Made
  <2>3. Matches'
    BY Zenon, <2>2 DEF Matches, Agrees
  <2> QED
    BY Zenon, <2>1, <2>3 DEF Truthful
<1>13. CASE Edit
  BY Zenon, <1>13, TruthfulFrame DEF Edit, machine, local, ghosts
<1>14. ASSUME NEW l \in Links, OutsideLink(l)
       PROVE  Truthful'
  BY Zenon, <1>14, TruthfulOutside
<1>15. ASSUME NEW c \in Clients, ClientEnds(c)
       PROVE  Truthful'
  BY Zenon, <1>15, TruthfulEnds
<1>16. CASE UNCHANGED vars
  BY Zenon, <1>16, TruthfulFrame DEF vars, machine, local, ghosts
<1> QED
  BY Zenon, <1>1, <1>2, <1>3, <1>4, <1>5, <1>6, <1>7, <1>8, <1>9, <1>10, <1>11, <1>12,
     <1>13, <1>14, <1>15, <1>16 DEF Next, DaemonSteps, ProcSteps, Environment

\* The inductive invariant of the module, all of it.
OwnershipInv == TypeOK /\ Locks /\ Copied /\ NoUpdateIsLost /\ Truthful

\* It holds in every reachable state.
LEMMA OwnershipInvariant == Spec => []OwnershipInv
<1>1. Init => Copied /\ NoUpdateIsLost /\ Truthful
  <2> SUFFICES ASSUME Init
               PROVE  Copied /\ NoUpdateIsLost /\ Truthful
    OBVIOUS
  <2>1. Copied /\ NoUpdateIsLost
    BY DEF Init, Copied, NoUpdateIsLost, owned_read
  <2>2. OneEach /\ Effects /\ Deletes
    BY Zenon DEF Init, OneEach, Effects, Deletes
  <2>3. Matches
    BY Zenon DEF Init, Matches, Agrees, Made, NoRecord
  <2> QED
    BY Zenon, <2>1, <2>2, <2>3 DEF Truthful
<1>2. TypeOK /\ Locks /\ Copied /\ NoUpdateIsLost /\ Truthful /\ [Next]_vars
        => Copied' /\ NoUpdateIsLost' /\ Truthful'
  BY Zenon, UpdatesStep, TruthfulStep
<1> QED
  BY <1>1, <1>2, LocksCorrect, PTL DEF Spec, OwnershipInv

\* What the record says is so, but for what is about to be written down, was
\* kept from being, or others took away: ncfg_apply_record folds in exactly
\* what the journal did.
THEOREM RecordTrue == Spec => []RecordMatchesMachine
<1>1. OwnershipInv => RecordMatchesMachine
  <2> SUFFICES ASSUME OwnershipInv,
                      NEW o \in Objects \ (loose \cup UNION {Touched(done[p]) : p \in Procs})
               PROVE  /\ o \in Links => (o \in owned_read.links <=> Made(o))
                      /\ o \in Clients /\ client[o] => o \in owned_read.clients
    BY Zenon DEF RecordMatchesMachine
  <2>1. \A p \in Procs : \A a \in done[p] : a.on # o
    BY DEF Touched
  <2>2. Agrees(o)
    BY Zenon, <2>1 DEF OwnershipInv, Truthful, Matches
  <2> QED
    BY Zenon, <2>2 DEF Agrees, OwnershipInv, NoUpdateIsLost
<1> QED
  BY <1>1, OwnershipInvariant, PTL

\* Nobody else's link is deleted, but where others had removed netcfgd's own
\* of that name, or the plan was older than another process's actions.
THEOREM StrangersCorrect == Spec => StrangersAreSpared
<1>1. OwnershipInv /\ [Next]_vars =>
        [\A p \in Procs : \A a \in plan[p] :
            a.op = "delete" /\ link[a.on] = "foreign" /\ Execute(p, a)
                => a.on \in loose \/ p \in stale]_vars
  <2> SUFFICES ASSUME OwnershipInv, NEW p \in Procs, NEW a \in plan[p],
                      a.op = "delete", link[a.on] = "foreign"
               PROVE  a.on \in loose \/ p \in stale
    OBVIOUS
  <2> QED
    BY Zenon DEF OwnershipInv, Truthful, Deletes, Made
<1> QED
  BY <1>1, OwnershipInvariant, PTL DEF Spec, StrangersAreSpared

-----------------------------------------------------------------------------
(* The starts of a client *)

Begin(c) == [op |-> "start", on |-> c]
End(c) == [op |-> "stop", on |-> c]

\* A start that was done and is not in the record yet.
Pending(journals, c) == IF \E p \in Procs : Begin(c) \in journals[p] THEN 1 ELSE 0

\* A process at work whose record will clear the count of c: it saw c running,
\* or stops it.
Clears(where, up, todo, did, c) ==
    where \notin {"idle", "look"} /\ (c \in up \/ End(c) \in todo \cup did)

\* What a process has in hand.
Hand(where, todo, did, up) ==
    /\ todo # {} => where # "look"
    /\ todo \cap did = {}
    /\ \A c \in Clients : Clears(where, up, todo, did, c) => Begin(c) \notin todo \cup did

Hands ==
    /\ \A p \in Clis : pc[p] \notin {"tell", "telling", "lock"}
    /\ \A p \in Procs : Hand(pc[p], plan[p], done[p], seen[p])

\* The starts of c, against what is counted and about to be counted.  While the
\* daemon is going to clear the count there were no more than that, and the
\* command line, which observes under the lock, clears none that it did not see.
Counted(c) ==
    /\ unseen[c] <= ledger.restarts[c] + Pending(done, c) + RestartLimit + faults
    /\ ledger.restarts[c] + Pending(done, c) <= RestartLimit + 1
    /\ Begin(c) \in plan[Daemon] => ledger.restarts[c] + Pending(done, c) <= RestartLimit
    /\ \A p \in Clis : Begin(c) \in plan[p] => ledger.restarts[c] < RestartLimit
    /\ Clears(pc[Daemon], seen[Daemon], plan[Daemon], done[Daemon], c) =>
           /\ unseen[c] <= ledger.restarts[c] + Pending(done, c) + faults
           /\ unseen[c] <= RestartLimit + faults
    /\ \A p \in Clis : Clears(pc[p], seen[p], plan[p], done[p], c) => unseen[c] = 0

Counts == \A c \in Clients : Counted(c)

\* A plan starts what its document wants, was not seen running and is below the
\* cap; it stops what its document does not want.
LEMMA PlanStarts ==
    ASSUME NEW d, NEW r \in Records, NEW c \in Clients
    PROVE  /\ Begin(c) \in plan_build(d, r) =>
                  c \in d.wants /\ c \notin running(r) /\ r.restarts[c] < RestartLimit
           /\ End(c) \in plan_build(d, r) => c \notin d.wants
<1>1. Begin(c).op = "start" /\ Begin(c).on = c /\ End(c).op = "stop" /\ End(c).on = c
  BY DEF Begin, End
<1>2. /\ Begin(c) \notin link_creation(d) /\ Begin(c) \notin teardown_backends(d, r)
      /\ Begin(c) \notin teardown_links(d, r)
  BY <1>1 DEF link_creation, teardown_backends, teardown_links, Every
<1>3. End(c) \notin link_creation(d) /\ End(c) \notin backend(d, r) /\ End(c) \notin teardown_links(d, r)
  BY <1>1 DEF link_creation, backend, teardown_links, Every
<1>4. Begin(c) \in backend(d, r) => c \in d.wants /\ c \notin running(r) /\ ~ capped(r, c)
  BY <1>1 DEF backend, Every
<1>5. End(c) \in teardown_backends(d, r) => c \notin d.wants
  BY <1>1 DEF teardown_backends, Every
<1>6. ~ capped(r, c) => r.restarts[c] < RestartLimit
  BY DEF capped, Records
<1> QED
  BY Zenon, <1>2, <1>3, <1>4, <1>5, <1>6 DEF plan_build

\* What a fold of journal A, of a process that saw U running, makes of count n.
FoldedTo(m, n, A, U, c) ==
    /\ End(c) \in A => m = 0
    /\ c \in U /\ Begin(c) \notin A => m = 0
    /\ End(c) \notin A /\ c \notin U /\ Begin(c) \in A => m = n + 1
    /\ End(c) \notin A /\ c \notin U /\ Begin(c) \notin A => m = n

LEMMA FoldRestarts ==
    ASSUME NEW r \in Records, NEW A \in SUBSET Actions, NEW U \in SUBSET Clients, NEW c \in Clients
    PROVE  FoldedTo(fold(r, A, U).restarts[c], r.restarts[c], A, U, c)
<1> DEFINE s == restarts_cleared_by_running(r, U)
<1>1. s \in Records /\ s.restarts[c] = IF c \in U THEN 0 ELSE r.restarts[c]
  BY Zenon DEF restarts_cleared_by_running, Records
<1> HIDE DEF s
<1>2. \A a \in A : a = [op |-> a.op, on |-> a.on]
  BY DEF Actions
<1>3. (c \in On(A, "start") <=> Begin(c) \in A) /\ (c \in On(A, "stop") <=> End(c) \in A)
  BY <1>2 DEF On, Begin, End
<1>4. absorb(s, A).restarts = restarts_absorbed(s.restarts, On(A, "start"), On(A, "stop"))
  BY Zenon, <1>1 DEF absorb, Records
<1>5. absorb(s, A).restarts[c] =
          IF End(c) \in A THEN 0 ELSE IF Begin(c) \in A THEN s.restarts[c] + 1 ELSE s.restarts[c]
  BY <1>3, <1>4 DEF restarts_absorbed
<1>6. fold(r, A, U) = absorb(s, A)
  BY Zenon DEF fold, s
<1> QED
  BY Zenon, <1>1, <1>5, <1>6 DEF FoldedTo

\* The numbers that are weighed are numbers.
LEMMA CountType == ASSUME NEW r \in Records, NEW c \in Clients PROVE r.restarts[c] \in Nat
BY Zenon DEF Records

Bit == {0, 1}

LEMMA PendingType == ASSUME NEW J, NEW c PROVE Pending(J, c) \in Bit
BY Zenon DEF Pending, Bit

LEMMA Numbers ==
    ASSUME TypeOK, NEW c \in Clients
    PROVE  unseen[c] \in Nat /\ faults \in Nat /\ ledger.restarts[c] \in Nat
<1>1. ledger \in Records /\ unseen \in [Clients -> Nat] /\ faults \in Nat
  BY Zenon DEF TypeOK
<1> QED
  BY Zenon, <1>1, CountType

LEMMA Reflexive == ASSUME NEW f \in Nat PROVE f <= f /\ f <= f + 1
OBVIOUS

\* Starts u that become v, with k and then l starts to be counted and f and then
\* g faults: no start more, and what is not to be counted any more is a fault.
Fewer(u, v, k, l, f, g) == v <= u /\ l <= k /\ f <= g /\ k + f <= l + g

LEMMA FewerSame ==
    ASSUME NEW u \in Nat, NEW v, NEW k \in Bit, NEW f \in Nat, NEW g \in Nat, v = u \/ v = 0, f <= g
    PROVE  Fewer(u, v, k, k, f, g)
BY DEF Fewer, Bit

LEMMA FewerLost ==
    ASSUME NEW u \in Nat, NEW k \in Bit, NEW l \in Bit, NEW f \in Nat, l <= k
    PROVE  Fewer(u, u, k, l, f, f + 1)
BY DEF Fewer, Bit

\* Starts u that become v, of a client counted r times with k and then l starts
\* to be counted, f and then g faults and a limit of m.
Framed(u, v, r, k, l, f, g, m) ==
    /\ u <= r + k + m + f => v <= r + l + m + g
    /\ r + k <= m + 1 => r + l <= m + 1
    /\ r + k <= m \/ r < m => r + l <= m
    /\ v = 0 \/ (u <= r + k + f /\ u <= m + f) => v <= r + l + g /\ v <= m + g
    /\ u = 0 => v = 0

LEMMA FrameSums ==
    ASSUME NEW u \in Nat, NEW v \in Nat, NEW r \in Nat, NEW k \in Bit, NEW l \in Bit,
           NEW f \in Nat, NEW g \in Nat, NEW m \in Nat,
           Fewer(u, v, k, l, f, g)
    PROVE  Framed(u, v, r, k, l, f, g, m)
BY DEF Fewer, Framed, Bit

\* One start more, that is pending and was not.
Started(u, r, f, m) ==
    /\ u <= r + 0 + m + f => u + 1 <= r + 1 + m + f
    /\ r + 0 <= m => r + 1 <= m + 1
    /\ r < m => r + 1 <= m + 1 /\ r + 1 <= m
    /\ u <= r + 0 + f => u + 1 <= r + 1 + f
    /\ u <= r + 0 + f /\ r < m => u + 1 <= m + f

LEMMA StartSums ==
    ASSUME NEW u \in Nat, NEW r \in Nat, NEW f \in Nat, NEW m \in Nat
    PROVE  Started(u, r, f, m)
BY DEF Started

\* A count that is cleared.
Cleared(u, f, m) ==
    /\ u <= 0 + 0 + m + f /\ 0 + 0 <= m + 1 /\ 0 + 0 <= m
    /\ u = 0 => u <= 0 + 0 + f
    /\ u <= m + f

LEMMA ClearSums ==
    ASSUME NEW u \in Nat, NEW f \in Nat, NEW m \in Nat, u = 0 \/ u <= m + f
    PROVE  Cleared(u, f, m)
BY DEF Cleared

\* The same sum, differently split.
Same(q, r, k) == q + 0 = r + k

LEMMA SameSums ==
    ASSUME NEW r \in Nat, NEW q, NEW k, (q = r + 1 /\ k = 1) \/ (q = r /\ k = 0)
    PROVE  Same(q, r, k)
BY DEF Same

\* A start that is pending in no more journals.
LEMMA PendingLess ==
    ASSUME NEW J, NEW K, NEW c,
           (\E p \in Procs : Begin(c) \in K[p]) => \E p \in Procs : Begin(c) \in J[p]
    PROVE  Pending(K, c) <= Pending(J, c)
<1>1. Pending(K, c) = 0 \/ (Pending(K, c) = 1 /\ Pending(J, c) = 1)
  BY Zenon DEF Pending
<1>2. Pending(J, c) \in Bit
  BY Zenon, PendingType
<1> QED
  BY <1>1, <1>2 DEF Bit

\* A step that starts nothing and clears no count, and loses at most what a
\* fault stands for.
LEMMA CountedFrame ==
    ASSUME TypeOK, TypeOK', NEW c \in Clients, Counted(c),
           ledger'.restarts[c] = ledger.restarts[c],
           Fewer(unseen[c], unseen'[c], Pending(done, c), Pending(done', c), faults, faults'),
           \A p \in Procs : Clears(pc'[p], seen'[p], plan'[p], done'[p], c) =>
               Clears(pc[p], seen[p], plan[p], done[p], c) \/ unseen'[c] = 0,
           \A p \in Procs : Begin(c) \in plan'[p] =>
               Begin(c) \in plan[p] \/ ledger.restarts[c] < RestartLimit
    PROVE  Counted(c)'
<1>1. /\ unseen[c] \in Nat /\ unseen'[c] \in Nat /\ faults \in Nat /\ faults' \in Nat
      /\ ledger.restarts[c] \in Nat /\ RestartLimit \in Nat
      /\ Pending(done, c) \in Bit /\ Pending(done', c) \in Bit
  <2>1. unseen' \in [Clients -> Nat] /\ faults' \in Nat /\ RestartLimit \in Nat
    BY Zenon DEF TypeOK
  <2> QED
    BY Zenon, <2>1, Numbers, PendingType
<1>2. Daemon \in Procs /\ Clis \subseteq Procs
  BY Zenon
<1>3. Framed(unseen[c], unseen'[c], ledger.restarts[c], Pending(done, c), Pending(done', c),
             faults, faults', RestartLimit)
  BY Zenon, <1>1, FrameSums
<1>4. /\ unseen'[c] <= ledger'.restarts[c] + Pending(done', c) + RestartLimit + faults'
      /\ ledger'.restarts[c] + Pending(done', c) <= RestartLimit + 1
  BY Zenon, <1>3 DEF Counted, Framed
<1>5. Begin(c) \in plan'[Daemon] => ledger'.restarts[c] + Pending(done', c) <= RestartLimit
  BY Zenon, <1>2, <1>3 DEF Counted, Framed
<1>6. \A p \in Clis : Begin(c) \in plan'[p] => ledger'.restarts[c] < RestartLimit
  BY Zenon, <1>2 DEF Counted
<1>7. ASSUME Clears(pc'[Daemon], seen'[Daemon], plan'[Daemon], done'[Daemon], c)
      PROVE  /\ unseen'[c] <= ledger'.restarts[c] + Pending(done', c) + faults'
             /\ unseen'[c] <= RestartLimit + faults'
  <2>1. \/ unseen'[c] = 0
        \/ /\ unseen[c] <= ledger.restarts[c] + Pending(done, c) + faults
           /\ unseen[c] <= RestartLimit + faults
    BY Zenon, <1>2, <1>7 DEF Counted
  <2> QED
    BY Zenon, <1>3, <2>1 DEF Framed
<1>8. ASSUME NEW p \in Clis, Clears(pc'[p], seen'[p], plan'[p], done'[p], c)
      PROVE  unseen'[c] = 0
  <2>1. unseen[c] = 0 \/ unseen'[c] = 0
    BY Zenon, <1>2, <1>8 DEF Counted
  <2> QED
    BY Zenon, <1>3, <2>1 DEF Framed
<1> QED
  BY Zenon, <1>4, <1>5, <1>6, <1>7, <1>8 DEF Counted

\* A step of one process.
LEMMA HandsOne ==
    ASSUME Hands, NEW p \in Procs,
           \A q \in Procs \ {p} : /\ pc'[q] = pc[q] /\ plan'[q] = plan[q]
                                  /\ done'[q] = done[q] /\ seen'[q] = seen[q],
           p \in Clis => pc'[p] \notin {"tell", "telling", "lock"},
           Hand(pc'[p], plan'[p], done'[p], seen'[p])
    PROVE  Hands'
<1>1. \A q \in Clis : pc'[q] \notin {"tell", "telling", "lock"}
  BY Zenon DEF Hands
<1>2. \A q \in Procs : Hand(pc'[q], plan'[q], done'[q], seen'[q])
  BY Zenon DEF Hands
<1> QED
  BY Zenon, <1>1, <1>2 DEF Hands

\* A process that lets go of everything.
LEMMA HandsIdle == ASSUME TypeOK, Hands, NEW p \in Procs, Idle(p) PROVE Hands'
<1>1. /\ \A q \in Procs \ {p} : /\ pc'[q] = pc[q] /\ plan'[q] = plan[q]
                                /\ done'[q] = done[q] /\ seen'[q] = seen[q]
      /\ pc'[p] = "idle" /\ plan'[p] = {}
  BY Zenon DEF TypeOK, Idle
<1>2. Hand(pc'[p], plan'[p], done'[p], seen'[p])
  BY Zenon, <1>1 DEF Hand, Clears
<1>3. pc'[p] \notin {"tell", "telling", "lock"}
  BY <1>1
<1> QED
  BY Zenon, <1>1, <1>2, <1>3, HandsOne

\* An observation, by a process that has no journal.
LEMMA HandsObserve ==
    ASSUME TypeOK, Hands, NEW p \in Procs, NEW d, NEW r \in Records,
           NEW todo \in SUBSET plan_build(d, r), Observe(p, d, r, todo),
           NEW up \in SUBSET running(r), seen' = [seen EXCEPT ![p] = up],
           done[p] = {}, UNCHANGED done, NEW where, pc' = [pc EXCEPT ![p] = where], where # "look",
           p \in Clis => where \notin {"tell", "telling", "lock"}
    PROVE  Hands'
<1>1. /\ \A q \in Procs \ {p} : /\ pc'[q] = pc[q] /\ plan'[q] = plan[q]
                                /\ done'[q] = done[q] /\ seen'[q] = seen[q]
      /\ pc'[p] = where /\ plan'[p] = todo /\ done'[p] = {} /\ seen'[p] = up
  BY Zenon DEF TypeOK, Observe
<1>2. Hand(where, todo, {}, up)
  BY Zenon, PlanStarts DEF Hand, Clears
<1> QED
  BY Zenon, <1>1, <1>2, HandsOne

\* Every step keeps what a process has in hand in order.
LEMMA HandsStep ==
    ASSUME TypeOK, Locks, Hands, [Next]_vars
    PROVE  Hands'
<1>d. Daemon \in Procs /\ Daemon \notin Clis /\ Clis \subseteq Procs
  OBVIOUS
<1>r. owned_read \in Records
  BY Zenon, ReadType
<1>1. CASE DaemonLook \/ DaemonDefers \/ DaemonApply
  <2>1. PICK todo : DaemonLooks(todo)
    BY Zenon, <1>1, DaemonObserves
  <2>2. UNCHANGED done /\ done[Daemon] = {}
    BY Zenon, <1>d, <2>1 DEF DaemonLooks, Locks
  <2>3. PICK where \in {"tell", "lock", "idle"} : pc' = [pc EXCEPT ![Daemon] = where]
    BY Zenon, <2>1 DEF DaemonLooks
  <2>4. where # "look"
    BY <2>3
  <2>5. PICK up \in SUBSET running(owned_read) : seen' = [seen EXCEPT ![Daemon] = up]
    BY Zenon, <2>1 DEF DaemonLooks
  <2> QED
    BY Zenon, <1>d, <1>r, <2>1, <2>2, <2>3, <2>4, <2>5, HandsObserve DEF DaemonLooks
<1>2. CASE DaemonLock
  <2>1. /\ \A q \in Procs \ {Daemon} : pc'[q] = pc[q]
        /\ pc[Daemon] = "lock" /\ pc'[Daemon] \in {"run", "record"}
        /\ UNCHANGED <<plan, done, seen>>
    BY Zenon, <1>2, <1>d DEF DaemonLock, TypeOK
  <2>2. Hand(pc'[Daemon], plan[Daemon], done[Daemon], seen[Daemon])
    BY Zenon, <1>d, <2>1 DEF Hands, Hand, Clears
  <2> QED
    BY Zenon, <1>d, <2>1, <2>2, HandsOne
<1>3. CASE DaemonGivesUp
  BY Zenon, <1>3, <1>d, HandsIdle DEF DaemonGivesUp
<1>4. CASE WriteTold
  <2>1. /\ \A q \in Procs \ {Daemon} : pc'[q] = pc[q]
        /\ pc[Daemon] = "telling" /\ UNCHANGED <<plan, done, seen>>
        /\ pc'[Daemon] \in {"idle", "lock"}
    BY Zenon, <1>4, <1>d DEF WriteTold, TypeOK
  <2>2. Hand(pc'[Daemon], plan[Daemon], done[Daemon], seen[Daemon])
    BY Zenon, <1>d, <2>1 DEF Hands, Hand, Clears
  <2> QED
    BY Zenon, <1>d, <2>1, <2>2, HandsOne
<1>5. ASSUME NEW p \in Clis, CliStart(p)
      PROVE  Hands'
  <2>1. /\ \A q \in Procs \ {p} : pc'[q] = pc[q]
        /\ pc[p] = "idle" /\ pc'[p] = "look" /\ UNCHANGED <<plan, done, seen>>
    BY Zenon, <1>5, <1>d DEF CliStart, TypeOK
  <2>2. plan[p] = {}
    BY Zenon, <1>d, <2>1 DEF Locks
  <2>3. Hand("look", plan[p], done[p], seen[p])
    BY Zenon, <2>2 DEF Hand, Clears
  <2> QED
    BY Zenon, <1>d, <2>1, <2>3, HandsOne
<1>6. ASSUME NEW p \in Clis, NEW d \in Trees, CliLook(p, d)
      PROVE  Hands'
  <2>1. /\ Observe(p, d, owned_read, plan_build(d, owned_read))
        /\ UNCHANGED done /\ done[p] = {}
    BY Zenon, <1>6, <1>d DEF CliLook, Locks
  <2>2. PICK where \in {"idle", "run"} : pc' = [pc EXCEPT ![p] = where]
    BY Zenon, <1>6 DEF CliLook
  <2>3. PICK up \in SUBSET running(owned_read) : seen' = [seen EXCEPT ![p] = up]
    BY Zenon, <1>6 DEF CliLook
  <2>4. plan_build(d, owned_read) \in SUBSET plan_build(d, owned_read)
    OBVIOUS
  <2> QED
    BY Zenon, <1>d, <1>r, <2>1, <2>2, <2>3, <2>4, HandsObserve
<1>7. ASSUME NEW p \in Procs, NEW a \in plan[p], Execute(p, a)
      PROVE  Hands'
  <2>1. /\ \A q \in Procs \ {p} : pc'[q] = pc[q] /\ plan'[q] = plan[q] /\ done'[q] = done[q]
        /\ pc[p] = "run" /\ pc'[p] \in {"record", "run"} /\ UNCHANGED seen
        /\ plan'[p] = plan[p] \ {a} /\ done'[p] = done[p] \cup {a}
    BY Zenon, <1>7 DEF Execute, Executes, TypeOK
  <2>2. plan'[p] \cup done'[p] = plan[p] \cup done[p] /\ plan'[p] \cap done'[p] = {}
    BY Zenon, <2>1 DEF Hands, Hand
  <2>3. Hand(pc'[p], plan'[p], done'[p], seen'[p])
    BY Zenon, <2>1, <2>2 DEF Hands, Hand, Clears
  <2> QED
    BY Zenon, <2>1, <2>3, HandsOne
<1>8. ASSUME NEW p \in Procs, NEW a \in plan[p], ExecuteFails(p, a)
      PROVE  Hands'
  <2>1. /\ \A q \in Procs \ {p} : pc'[q] = pc[q] /\ plan'[q] = plan[q]
        /\ pc[p] = "run" /\ pc'[p] = "record" /\ UNCHANGED <<done, seen>> /\ plan'[p] = {}
    BY Zenon, <1>8 DEF ExecuteFails, Executes, TypeOK
  <2>2. Hand(pc'[p], plan'[p], done'[p], seen'[p])
    BY Zenon, <2>1 DEF Hands, Hand, Clears
  <2> QED
    BY Zenon, <2>1, <2>2, HandsOne
<1>9. ASSUME NEW p \in Procs, TakeRecord(p)
      PROVE  Hands'
  <2>1. /\ \A q \in Procs \ {p} : pc'[q] = pc[q]
        /\ UNCHANGED <<plan, done, seen>>
        /\ \/ pc[p] = "tell" /\ pc'[p] = "telling"
           \/ pc[p] = "record" /\ pc'[p] = "recording"
    BY Zenon, <1>9 DEF TakeRecord, TypeOK
  <2>2. Hand(pc'[p], plan'[p], done'[p], seen'[p])
    BY Zenon, <2>1 DEF Hands, Hand, Clears
  <2>3. p \in Clis => pc'[p] \notin {"tell", "telling", "lock"}
    BY Zenon, <2>1 DEF Hands
  <2> QED
    BY Zenon, <2>1, <2>2, <2>3, HandsOne
<1>10. ASSUME NEW p \in Procs, WriteRecord(p) \/ Die(p)
       PROVE  Hands'
  BY Zenon, <1>10, HandsIdle DEF WriteRecord, Die
<1>11. CASE Reboot
  BY Zenon, <1>11 DEF Reboot, Hands, Hand, Clears
<1>12. ASSUME UNCHANGED local
       PROVE  Hands'
  BY Zenon, <1>12 DEF local, Hands
<1>13. CASE Edit \/ (\E l \in Links : OutsideLink(l)) \/ (\E c \in Clients : ClientEnds(c))
  BY Zenon, <1>12, <1>13 DEF Edit, OutsideLink, ClientEnds
<1>14. CASE UNCHANGED vars
  BY Zenon, <1>12, <1>14 DEF vars
<1> QED
  BY Zenon, <1>1, <1>2, <1>3, <1>4, <1>5, <1>6, <1>7, <1>8, <1>9, <1>10, <1>11, <1>13, <1>14
     DEF Next, DaemonSteps, ProcSteps, Environment

\* While a process holds apply.lock the command line has nothing else in hand,
\* and nobody else has a journal.
LEMMA Alone ==
    ASSUME TypeOK, Locks, Hands, NEW p \in Procs, pc[p] \in {"run", "recording"}
    PROVE  /\ \A q \in Procs \ {p} : done[q] = {}
           /\ \A q \in Clis \ {p} : pc[q] = "idle" /\ plan[q] = {}
<1>1. apply_lock = p
  BY Zenon DEF Locks
<1>2. ASSUME NEW q \in Procs \ {p}
      PROVE  pc[q] \notin {"look", "run", "record", "recording"}
  BY Zenon, <1>1 DEF Locks
<1>3. \A q \in Procs \ {p} : done[q] = {}
  BY Zenon, <1>2 DEF Locks
<1>4. ASSUME NEW q \in Clis \ {p}
      PROVE  pc[q] = "idle" /\ plan[q] = {}
  <2>1. pc[q] \in {"idle", "look", "tell", "telling", "lock", "run", "record", "recording"}
    BY Zenon DEF TypeOK
  <2>2. pc[q] = "idle"
    BY Zenon, <1>2, <2>1 DEF Hands
  <2> QED
    BY Zenon, <2>2 DEF Locks
<1> QED
  BY Zenon, <1>3, <1>4

\* An observation starts nothing, and resets what it finds running or unwanted.
LEMMA CountedObserve ==
    ASSUME TypeOK, TypeOK', NEW c \in Clients, Counted(c), NEW p \in Procs, NEW d,
           NEW todo \in SUBSET plan_build(d, ledger), Observe(p, d, ledger, todo),
           NEW up \in SUBSET running(ledger), seen' = [seen EXCEPT ![p] = up],
           UNCHANGED <<done, ledger, faults>>, done[p] = {},
           \A q \in Procs \ {p} : pc'[q] = pc[q]
    PROVE  Counted(c)'
<1>1. /\ plan'[p] = todo /\ seen'[p] = up
      /\ \A q \in Procs \ {p} : plan'[q] = plan[q] /\ seen'[q] = seen[q]
      /\ unseen'[c] = IF c \in running(ledger) \/ c \notin d.wants THEN 0 ELSE unseen[c]
  BY Zenon DEF TypeOK, Observe
<1>2. /\ Begin(c) \in plan_build(d, ledger) => ledger.restarts[c] < RestartLimit
      /\ End(c) \in plan_build(d, ledger) => c \notin d.wants
  <2>1. ledger \in Records
    BY Zenon DEF TypeOK
  <2> QED
    BY Zenon, <2>1, PlanStarts
<1>3. Fewer(unseen[c], unseen'[c], Pending(done, c), Pending(done', c), faults, faults')
  <2>1. /\ unseen[c] \in Nat /\ faults \in Nat /\ faults' \in Nat /\ Pending(done, c) \in Bit
        /\ Pending(done', c) = Pending(done, c) /\ (unseen'[c] = unseen[c] \/ unseen'[c] = 0)
    BY Zenon, <1>1, Numbers, PendingType DEF Pending
  <2>2. faults <= faults'
    BY Zenon, <2>1, Reflexive
  <2> QED
    BY Zenon, <2>1, <2>2, FewerSame
<1>4. \A q \in Procs : Clears(pc'[q], seen'[q], plan'[q], done'[q], c) =>
          Clears(pc[q], seen[q], plan[q], done[q], c) \/ unseen'[c] = 0
  <2>1. Clears(pc'[p], seen'[p], plan'[p], done'[p], c) => unseen'[c] = 0
    BY Zenon, <1>1, <1>2 DEF Clears
  <2> QED
    BY Zenon, <1>1, <2>1
<1>5. \A q \in Procs : Begin(c) \in plan'[q] => Begin(c) \in plan[q] \/ ledger.restarts[c] < RestartLimit
  BY Zenon, <1>1, <1>2
<1>6. ledger'.restarts[c] = ledger.restarts[c]
  BY Zenon
<1> QED
  BY Zenon, <1>3, <1>4, <1>5, <1>6, CountedFrame

\* A step that leaves journals, counts and observations alone, but that plans
\* may be dropped and work may end.
LEMMA CountedSame ==
    ASSUME TypeOK, TypeOK', NEW c \in Clients, Counted(c), UNCHANGED <<done, unseen>>,
           ledger'.restarts[c] = ledger.restarts[c], faults <= faults',
           \A p \in Procs : /\ pc'[p] \notin {"idle", "look"} => pc[p] \notin {"idle", "look"}
                            /\ plan'[p] \subseteq plan[p] /\ seen'[p] \subseteq seen[p]
    PROVE  Counted(c)'
<1>1. Fewer(unseen[c], unseen'[c], Pending(done, c), Pending(done', c), faults, faults')
  <2>1. /\ unseen[c] \in Nat /\ faults \in Nat /\ Pending(done, c) \in Bit
        /\ Pending(done', c) = Pending(done, c) /\ unseen'[c] = unseen[c]
    BY Zenon, Numbers, PendingType DEF Pending
  <2>2. faults' \in Nat
    BY Zenon DEF TypeOK
  <2> QED
    BY Zenon, <2>1, <2>2, FewerSame
<1>2. \A p \in Procs : Clears(pc'[p], seen'[p], plan'[p], done'[p], c) =>
          Clears(pc[p], seen[p], plan[p], done[p], c) \/ unseen'[c] = 0
  BY Zenon DEF Clears
<1>3. \A p \in Procs : Begin(c) \in plan'[p] => Begin(c) \in plan[p] \/ ledger.restarts[c] < RestartLimit
  BY Zenon
<1> QED
  BY Zenon, <1>1, <1>2, <1>3, CountedFrame

\* A journal that is lost, with a fault to show for it.
LEMMA CountedLost ==
    ASSUME TypeOK, TypeOK', NEW c \in Clients, Counted(c), NEW p \in Procs, Idle(p),
           UNCHANGED <<ledger, unseen>>, faults' = faults + 1
    PROVE  Counted(c)'
<1>1. /\ \A q \in Procs \ {p} : /\ pc'[q] = pc[q] /\ plan'[q] = plan[q]
                                /\ done'[q] = done[q] /\ seen'[q] = seen[q]
      /\ pc'[p] = "idle" /\ plan'[p] = {} /\ done'[p] = {}
  BY Zenon DEF TypeOK, Idle
<1>2. (\E q \in Procs : Begin(c) \in done'[q]) => \E q \in Procs : Begin(c) \in done[q]
  BY Zenon, <1>1
<1>3. Fewer(unseen[c], unseen'[c], Pending(done, c), Pending(done', c), faults, faults')
  <2>1. Pending(done', c) <= Pending(done, c)
    BY Zenon, <1>2, PendingLess
  <2>2. /\ unseen[c] \in Nat /\ faults \in Nat /\ Pending(done, c) \in Bit
        /\ Pending(done', c) \in Bit /\ unseen'[c] = unseen[c]
    BY Zenon, Numbers, PendingType
  <2> QED
    BY Zenon, <2>1, <2>2, FewerLost
<1>4. \A q \in Procs : Clears(pc'[q], seen'[q], plan'[q], done'[q], c) =>
          Clears(pc[q], seen[q], plan[q], done[q], c) \/ unseen'[c] = 0
  BY Zenon, <1>1 DEF Clears
<1>5. \A q \in Procs : Begin(c) \in plan'[q] => Begin(c) \in plan[q] \/ ledger.restarts[c] < RestartLimit
  BY Zenon, <1>1
<1>6. ledger'.restarts[c] = ledger.restarts[c]
  BY Zenon
<1> QED
  BY Zenon, <1>3, <1>4, <1>5, <1>6, CountedFrame

\* A start is the start of what it is about.
LEMMA ActionShape == ASSUME NEW a \in Actions PROVE a.op = "start" => a = Begin(a.on)
BY DEF Actions, Begin

\* An action that is done.
LEMMA CountedExecute ==
    ASSUME TypeOK, TypeOK', Locks, Hands, Hands', NEW c \in Clients, Counted(c), NEW p \in Procs,
           NEW a \in plan[p], Execute(p, a)
    PROVE  Counted(c)'
<1>1. /\ \A q \in Procs \ {p} : pc'[q] = pc[q] /\ plan'[q] = plan[q] /\ done'[q] = done[q]
      /\ pc[p] = "run" /\ pc'[p] \in {"record", "run"} /\ UNCHANGED <<seen, ledger, faults>>
      /\ plan'[p] = plan[p] \ {a} /\ done'[p] = done[p] \cup {a}
  BY Zenon DEF Execute, Executes, TypeOK, bounds
<1>2. /\ \A q \in Procs \ {p} : done[q] = {}
      /\ \A q \in Clis \ {p} : pc[q] = "idle" /\ plan[q] = {}
  BY <1>1, Alone
<1>3. CASE a # Begin(c)
  <2>1. unseen'[c] = unseen[c]
    <3>1. a.op = "start" => a = Begin(a.on)
      BY Zenon, ActionShape DEF TypeOK
    <3>2. unseen' = IF a.op # "start" THEN unseen ELSE [unseen EXCEPT ![a.on] = @ + 1]
      BY Zenon DEF Execute
    <3>3. unseen \in [Clients -> Nat] /\ (a.op = "start" => a.on # c)
      BY Zenon, <1>3, <3>1 DEF TypeOK
    <3> QED
      BY Zenon, <3>2, <3>3
  <2>2. (\E q \in Procs : Begin(c) \in done'[q]) <=> \E q \in Procs : Begin(c) \in done[q]
    BY Zenon, <1>1, <1>3
  <2>3. Fewer(unseen[c], unseen'[c], Pending(done, c), Pending(done', c), faults, faults')
    <3>1. /\ unseen[c] \in Nat /\ faults \in Nat /\ Pending(done, c) \in Bit /\ faults' = faults
          /\ Pending(done', c) = Pending(done, c)
      BY Zenon, <1>1, <2>2, Numbers, PendingType DEF Pending
    <3>2. faults <= faults
      BY Zenon, <3>1, Reflexive
    <3> QED
      BY Zenon, <2>1, <3>1, <3>2, FewerSame
  <2>4. \A q \in Procs : Clears(pc'[q], seen'[q], plan'[q], done'[q], c) =>
            Clears(pc[q], seen[q], plan[q], done[q], c) \/ unseen'[c] = 0
    <3>1. pc[p] \notin {"idle", "look"}
      BY <1>1
    <3>2. plan'[p] \cup done'[p] = plan[p] \cup done[p]
      BY <1>1
    <3>3. Clears(pc'[p], seen'[p], plan'[p], done'[p], c) => Clears(pc[p], seen[p], plan[p], done[p], c)
      BY Zenon, <1>1, <3>1, <3>2 DEF Clears
    <3> QED
      BY Zenon, <1>1, <3>3
  <2>5. \A q \in Procs : Begin(c) \in plan'[q] => Begin(c) \in plan[q] \/ ledger.restarts[c] < RestartLimit
    BY Zenon, <1>1
  <2>6. ledger'.restarts[c] = ledger.restarts[c]
    BY Zenon, <1>1
  <2> QED
    BY Zenon, <2>3, <2>4, <2>5, <2>6, CountedFrame
<1>4. CASE a = Begin(c)
  <2>1. Pending(done, c) = 0 /\ Pending(done', c) = 1
    <3>1. Begin(c) \notin done[p]
      BY Zenon, <1>4 DEF Hands, Hand
    <3>2. \A q \in Procs : Begin(c) \notin done[q]
      BY Zenon, <1>2, <3>1
    <3>3. Begin(c) \in done'[p]
      BY Zenon, <1>1, <1>4
    <3> QED
      BY Zenon, <3>2, <3>3 DEF Pending
  <2>2. unseen'[c] = unseen[c] + 1
    <3>1. a.op = "start" /\ a.on = c
      BY <1>4 DEF Begin
    <3>2. unseen' = IF a.op # "start" THEN unseen ELSE [unseen EXCEPT ![a.on] = @ + 1]
      BY Zenon DEF Execute
    <3>3. unseen \in [Clients -> Nat]
      BY Zenon DEF TypeOK
    <3> QED
      BY Zenon, <3>1, <3>2, <3>3
  <2>3. UNCHANGED faults /\ ledger'.restarts[c] = ledger.restarts[c]
    BY Zenon, <1>1
  <2>s. Started(unseen[c], ledger.restarts[c], faults, RestartLimit)
    BY Zenon, Numbers, StartSums
  <2>4. ~ Clears(pc'[p], seen'[p], plan'[p], done'[p], c)
    BY Zenon, <1>1, <1>4 DEF Hands, Hand
  <2>5. \A q \in Clis : ~ Clears(pc'[q], seen'[q], plan'[q], done'[q], c) /\ Begin(c) \notin plan'[q]
    BY Zenon, <1>1, <1>2, <1>4, <2>4 DEF Clears
  <2>6. CASE p = Daemon
    <3>1. ledger.restarts[c] + 0 <= RestartLimit
      BY Zenon, <1>4, <2>1, <2>6 DEF Counted
    <3>2. /\ unseen'[c] <= ledger'.restarts[c] + Pending(done', c) + RestartLimit + faults'
          /\ ledger'.restarts[c] + Pending(done', c) <= RestartLimit + 1
      BY Zenon, <2>1, <2>2, <2>3, <2>s, <3>1 DEF Counted, Started
    <3>3. Begin(c) \notin plan'[Daemon] /\ ~ Clears(pc'[Daemon], seen'[Daemon], plan'[Daemon], done'[Daemon], c)
      BY Zenon, <1>1, <1>4, <2>4, <2>6
    <3> QED
      BY Zenon, <2>5, <3>2, <3>3 DEF Counted
  <2>7. CASE p \in Clis
    <3>1. ledger.restarts[c] < RestartLimit
      BY Zenon, <1>4, <2>7 DEF Counted
    <3>2. /\ unseen'[c] <= ledger'.restarts[c] + Pending(done', c) + RestartLimit + faults'
          /\ ledger'.restarts[c] + Pending(done', c) <= RestartLimit + 1
          /\ ledger'.restarts[c] + Pending(done', c) <= RestartLimit
      BY Zenon, <2>1, <2>2, <2>3, <2>s, <3>1 DEF Counted, Started
    <3>3. pc'[Daemon] = pc[Daemon] /\ plan'[Daemon] = plan[Daemon] /\ done'[Daemon] = done[Daemon]
      BY Zenon, <1>1, <2>7
    <3>4. Clears(pc'[Daemon], seen'[Daemon], plan'[Daemon], done'[Daemon], c) =>
              unseen[c] <= ledger.restarts[c] + Pending(done, c) + faults
      BY Zenon, <1>1, <3>3 DEF Counted
    <3>5. Clears(pc'[Daemon], seen'[Daemon], plan'[Daemon], done'[Daemon], c) =>
              /\ unseen'[c] <= ledger'.restarts[c] + Pending(done', c) + faults'
              /\ unseen'[c] <= RestartLimit + faults'
      BY Zenon, <2>1, <2>2, <2>3, <2>s, <3>1, <3>4 DEF Started
    <3> QED
      BY Zenon, <2>5, <3>2, <3>5 DEF Counted
  <2> QED
    BY Zenon, <2>6, <2>7
<1> QED
  BY Zenon, <1>3, <1>4

\* A journal that is written down: a start that was pending is counted, or the
\* count is cleared by a process that had it in hand to do so.
LEMMA CountedRecord ==
    ASSUME TypeOK, TypeOK', Locks, Hands, NEW c \in Clients, Counted(c), NEW p \in Procs,
           pc[p] = "recording", Idle(p), ledger' = fold(ledger, done[p], seen[p]),
           UNCHANGED <<faults, unseen>>
    PROVE  Counted(c)'
<1>1. /\ \A q \in Procs \ {p} : /\ pc'[q] = pc[q] /\ plan'[q] = plan[q]
                                /\ done'[q] = done[q] /\ seen'[q] = seen[q]
      /\ pc'[p] = "idle" /\ plan'[p] = {} /\ done'[p] = {}
  BY Zenon DEF TypeOK, Idle
<1>2. /\ \A q \in Procs \ {p} : done[q] = {}
      /\ \A q \in Clis \ {p} : pc[q] = "idle" /\ plan[q] = {}
  BY Alone
<1>3. ledger \in Records /\ done[p] \in SUBSET Actions /\ seen[p] \in SUBSET Clients
  BY Zenon DEF TypeOK
<1>f. FoldedTo(ledger'.restarts[c], ledger.restarts[c], done[p], seen[p], c)
  BY Zenon, <1>3, FoldRestarts
<1>4. Pending(done', c) = 0 /\ (Begin(c) \in done[p] => Pending(done, c) = 1)
      /\ (Begin(c) \notin done[p] => Pending(done, c) = 0)
  BY Zenon, <1>1, <1>2 DEF Pending
<1>5. \A q \in Clis : ~ Clears(pc'[q], seen'[q], plan'[q], done'[q], c) /\ Begin(c) \notin plan'[q]
  BY Zenon, <1>1, <1>2 DEF Clears
<1>6. Clears(pc'[Daemon], seen'[Daemon], plan'[Daemon], done'[Daemon], c) =>
          p # Daemon /\ Clears(pc[Daemon], seen[Daemon], plan[Daemon], done[Daemon], c)
  BY Zenon, <1>1 DEF Clears
<1>7. Begin(c) \in plan'[Daemon] => Begin(c) \in plan[Daemon]
  BY Zenon, <1>1
<1>8. CASE End(c) \in done[p] \/ c \in seen[p]
  <2>1. Clears(pc[p], seen[p], plan[p], done[p], c)
    BY Zenon, <1>8 DEF Clears
  <2>2. Begin(c) \notin done[p]
    BY Zenon, <2>1 DEF Hands, Hand
  <2>3. ledger'.restarts[c] = 0
    BY Zenon, <1>8, <1>f, <2>2 DEF FoldedTo
  <2>4. unseen[c] = 0 \/ (p = Daemon /\ unseen[c] <= RestartLimit + faults)
    BY Zenon, <2>1 DEF Counted
  <2>c. Cleared(unseen[c], faults, RestartLimit)
    BY Zenon, <2>4, Numbers, ClearSums
  <2>5. /\ unseen'[c] <= ledger'.restarts[c] + Pending(done', c) + RestartLimit + faults'
        /\ ledger'.restarts[c] + Pending(done', c) <= RestartLimit + 1
        /\ ledger'.restarts[c] + Pending(done', c) <= RestartLimit
    BY Zenon, <1>4, <2>3, <2>c DEF Cleared
  <2>6. Clears(pc'[Daemon], seen'[Daemon], plan'[Daemon], done'[Daemon], c) =>
            /\ unseen'[c] <= ledger'.restarts[c] + Pending(done', c) + faults'
            /\ unseen'[c] <= RestartLimit + faults'
    BY Zenon, <1>4, <1>6, <2>3, <2>4, <2>c DEF Cleared
  <2> QED
    BY Zenon, <1>5, <2>5, <2>6 DEF Counted
<1>9. CASE End(c) \notin done[p] /\ c \notin seen[p]
  <2>1. ledger'.restarts[c] + Pending(done', c) = ledger.restarts[c] + Pending(done, c)
    <3>1. /\ Begin(c) \in done[p] => ledger'.restarts[c] = ledger.restarts[c] + 1
          /\ Begin(c) \notin done[p] => ledger'.restarts[c] = ledger.restarts[c]
      BY Zenon, <1>9, <1>f DEF FoldedTo
    <3>2. ledger.restarts[c] \in Nat
      BY Zenon, Numbers
    <3>3. Same(ledger'.restarts[c], ledger.restarts[c], Pending(done, c))
      BY Zenon, <1>4, <3>1, <3>2, SameSums
    <3> QED
      BY Zenon, <1>4, <3>3 DEF Same
  <2>2. /\ unseen'[c] <= ledger'.restarts[c] + Pending(done', c) + RestartLimit + faults'
        /\ ledger'.restarts[c] + Pending(done', c) <= RestartLimit + 1
    BY Zenon, <2>1 DEF Counted
  <2>3. Begin(c) \in plan'[Daemon] => ledger'.restarts[c] + Pending(done', c) <= RestartLimit
    BY Zenon, <1>7, <2>1 DEF Counted
  <2>4. Clears(pc'[Daemon], seen'[Daemon], plan'[Daemon], done'[Daemon], c) =>
            /\ unseen'[c] <= ledger'.restarts[c] + Pending(done', c) + faults'
            /\ unseen'[c] <= RestartLimit + faults'
    BY Zenon, <1>6, <2>1 DEF Counted
  <2> QED
    BY Zenon, <1>5, <2>2, <2>3, <2>4 DEF Counted
<1> QED
  BY Zenon, <1>8, <1>9

\* Every step keeps the counts: one case per action.
LEMMA CountsStep ==
    ASSUME TypeOK, TypeOK', Locks, NoUpdateIsLost, Hands, Hands', Counts, [Next]_vars
    PROVE  Counts'
<1> SUFFICES ASSUME NEW c \in Clients PROVE Counted(c)'
  BY Zenon DEF Counts
<1>c. Counted(c)
  BY Zenon DEF Counts
<1>d. Daemon \in Procs /\ Clis \subseteq Procs
  OBVIOUS
<1>f. faults \in Nat /\ faults <= faults /\ faults <= faults + 1
  BY DEF TypeOK
<1>1. CASE DaemonLook \/ DaemonDefers \/ DaemonApply
  <2>1. PICK todo : DaemonLooks(todo)
    BY Zenon, <1>1, DaemonObserves
  <2>2. /\ todo \in SUBSET plan_build(doc, ledger) /\ Observe(Daemon, doc, ledger, todo)
        /\ UNCHANGED <<done, ledger, faults>> /\ done[Daemon] = {}
    BY Zenon, <1>d, <2>1 DEF DaemonLooks, Locks, NoUpdateIsLost
  <2>3. PICK up \in SUBSET running(ledger) : seen' = [seen EXCEPT ![Daemon] = up]
    BY Zenon, <2>1 DEF DaemonLooks, NoUpdateIsLost
  <2>4. \A q \in Procs \ {Daemon} : pc'[q] = pc[q]
    BY Zenon, <2>1 DEF DaemonLooks, TypeOK
  <2> QED
    BY Zenon, <1>c, <1>d, <2>2, <2>3, <2>4, CountedObserve
<1>2. CASE DaemonLock
  <2>1. /\ \A q \in Procs \ {Daemon} : pc'[q] = pc[q]
        /\ pc[Daemon] = "lock" /\ UNCHANGED <<plan, seen, done, unseen, ledger, faults>>
    BY Zenon, <1>2 DEF DaemonLock, TypeOK, ghosts, bounds
  <2>2. \A p \in Procs : /\ pc'[p] \notin {"idle", "look"} => pc[p] \notin {"idle", "look"}
                         /\ plan'[p] \subseteq plan[p] /\ seen'[p] \subseteq seen[p]
    BY Zenon, <2>1
  <2>3. ledger'.restarts[c] = ledger.restarts[c] /\ faults <= faults'
    BY Zenon, <1>f, <2>1
  <2> QED
    BY Zenon, <1>c, <2>1, <2>2, <2>3, CountedSame
<1>3. CASE DaemonGivesUp
  <2>1. /\ \A q \in Procs \ {Daemon} : pc'[q] = pc[q] /\ plan'[q] = plan[q] /\ seen'[q] = seen[q]
        /\ pc'[Daemon] = "idle" /\ plan'[Daemon] = {} /\ seen'[Daemon] = {}
        /\ UNCHANGED <<unseen, ledger, faults>>
    BY Zenon, <1>3, <1>d DEF DaemonGivesUp, Idle, TypeOK, ghosts, bounds
  <2>2. UNCHANGED done
    <3>1. done[Daemon] = {}
      BY Zenon, <1>3, <1>d DEF DaemonGivesUp, Locks
    <3> QED
      BY <1>3, <1>d, <3>1 DEF DaemonGivesUp, Idle, TypeOK
  <2>3. \A p \in Procs : /\ pc'[p] \notin {"idle", "look"} => pc[p] \notin {"idle", "look"}
                         /\ plan'[p] \subseteq plan[p] /\ seen'[p] \subseteq seen[p]
    BY Zenon, <2>1
  <2>4. ledger'.restarts[c] = ledger.restarts[c] /\ faults <= faults'
    BY Zenon, <1>f, <2>1
  <2> QED
    BY Zenon, <1>c, <2>1, <2>2, <2>3, <2>4, CountedSame
<1>4. CASE WriteTold
  <2>1. /\ \A q \in Procs \ {Daemon} : pc'[q] = pc[q]
        /\ pc[Daemon] = "telling" /\ UNCHANGED <<plan, seen, done, unseen>>
    BY Zenon, <1>4 DEF WriteTold, TypeOK
  <2>2. \A p \in Procs : /\ pc'[p] \notin {"idle", "look"} => pc[p] \notin {"idle", "look"}
                         /\ plan'[p] \subseteq plan[p] /\ seen'[p] \subseteq seen[p]
    BY Zenon, <2>1
  <2>3. note_them(ledger, telling[Daemon]).restarts = ledger.restarts
    BY Zenon DEF note_them, TypeOK, Records
  <2>4. ledger'.restarts[c] = ledger.restarts[c] /\ faults <= faults'
    BY Zenon, <1>4, <1>f, <2>3 DEF WriteTold
  <2> QED
    BY Zenon, <1>c, <2>1, <2>2, <2>4, CountedSame
<1>5. ASSUME NEW p \in Clis, CliStart(p)
      PROVE  Counted(c)'
  <2>1. /\ \A q \in Procs \ {p} : pc'[q] = pc[q]
        /\ pc'[p] = "look" /\ UNCHANGED <<plan, seen, done, unseen, ledger, faults>>
    BY Zenon, <1>5, <1>d DEF CliStart, TypeOK, ghosts
  <2>2. \A q \in Procs : /\ pc'[q] \notin {"idle", "look"} => pc[q] \notin {"idle", "look"}
                         /\ plan'[q] \subseteq plan[q] /\ seen'[q] \subseteq seen[q]
    BY Zenon, <2>1
  <2>3. ledger'.restarts[c] = ledger.restarts[c] /\ faults <= faults'
    BY Zenon, <1>f, <2>1
  <2> QED
    BY Zenon, <1>c, <2>1, <2>2, <2>3, CountedSame
<1>6. ASSUME NEW p \in Clis, NEW d \in Trees, CliLook(p, d)
      PROVE  Counted(c)'
  <2>1. /\ Observe(p, d, ledger, plan_build(d, ledger))
        /\ UNCHANGED <<done, ledger, faults>> /\ done[p] = {}
    BY Zenon, <1>6, <1>d DEF CliLook, Locks, NoUpdateIsLost, bounds
  <2>2. \A q \in Procs \ {p} : pc'[q] = pc[q]
    BY Zenon, <1>6 DEF CliLook, TypeOK
  <2>3. PICK up \in SUBSET running(ledger) : seen' = [seen EXCEPT ![p] = up]
    BY Zenon, <1>6 DEF CliLook, NoUpdateIsLost
  <2>4. plan_build(d, ledger) \in SUBSET plan_build(d, ledger)
    OBVIOUS
  <2> QED
    BY Zenon, <1>c, <1>d, <2>1, <2>2, <2>3, <2>4, CountedObserve
<1>7. ASSUME NEW p \in Procs, NEW a \in plan[p], Execute(p, a)
      PROVE  Counted(c)'
  BY Zenon, <1>c, <1>7, CountedExecute
<1>8. ASSUME NEW p \in Procs, NEW a \in plan[p], ExecuteFails(p, a)
      PROVE  Counted(c)'
  <2>1. /\ \A q \in Procs \ {p} : pc'[q] = pc[q] /\ plan'[q] = plan[q]
        /\ pc[p] = "run" /\ plan'[p] = {} /\ UNCHANGED <<seen, done, unseen, ledger>>
    BY Zenon, <1>8 DEF ExecuteFails, Executes, TypeOK, ghosts
  <2>2. \A q \in Procs : /\ pc'[q] \notin {"idle", "look"} => pc[q] \notin {"idle", "look"}
                         /\ plan'[q] \subseteq plan[q] /\ seen'[q] \subseteq seen[q]
    BY Zenon, <2>1
  <2>3. ledger'.restarts[c] = ledger.restarts[c] /\ faults <= faults'
    BY Zenon, <1>8, <1>f, <2>1 DEF ExecuteFails
  <2> QED
    BY Zenon, <1>c, <2>1, <2>2, <2>3, CountedSame
<1>9. ASSUME NEW p \in Procs, TakeRecord(p)
      PROVE  Counted(c)'
  <2>1. /\ \A q \in Procs \ {p} : pc'[q] = pc[q]
        /\ pc[p] \in {"tell", "record"} /\ UNCHANGED <<plan, seen, done, unseen, ledger, faults>>
    BY Zenon, <1>9 DEF TakeRecord, TypeOK, ghosts, bounds
  <2>2. \A q \in Procs : /\ pc'[q] \notin {"idle", "look"} => pc[q] \notin {"idle", "look"}
                         /\ plan'[q] \subseteq plan[q] /\ seen'[q] \subseteq seen[q]
    BY Zenon, <2>1
  <2>3. ledger'.restarts[c] = ledger.restarts[c] /\ faults <= faults'
    BY Zenon, <1>f, <2>1
  <2> QED
    BY Zenon, <1>c, <2>1, <2>2, <2>3, CountedSame
<1>10. ASSUME NEW p \in Procs, WriteRecord(p)
       PROVE  Counted(c)'
  <2>1. /\ pc[p] = "recording" /\ Idle(p) /\ UNCHANGED unseen
        /\ \/ ledger' = fold(ledger, done[p], seen[p]) /\ UNCHANGED faults
           \/ ledger' = ledger /\ faults' = faults + 1
    BY Zenon, <1>10 DEF WriteRecord
  <2> QED
    BY Zenon, <1>c, <2>1, CountedRecord, CountedLost
<1>11. ASSUME NEW p \in Procs, Die(p)
       PROVE  Counted(c)'
  BY Zenon, <1>c, <1>11, CountedLost DEF Die
<1>12. CASE Reboot
  <2>1. /\ unseen'[c] = 0 /\ ledger'.restarts[c] = 0 /\ faults' = faults + 1
        /\ \A p \in Procs : pc'[p] = "idle" /\ plan'[p] = {} /\ done'[p] = {}
    BY Zenon, <1>12 DEF Reboot, NoRecord
  <2>2. Pending(done', c) = 0
    BY Zenon, <2>1 DEF Pending
  <2>3. \A p \in Procs : /\ ~ Clears(pc'[p], seen'[p], plan'[p], done'[p], c)
                         /\ Begin(c) \notin plan'[p]
    BY Zenon, <2>1 DEF Clears
  <2>4. /\ unseen'[c] <= ledger'.restarts[c] + Pending(done', c) + RestartLimit + faults'
        /\ ledger'.restarts[c] + Pending(done', c) <= RestartLimit + 1
    BY <1>f, <2>1, <2>2
  <2> QED
    BY Zenon, <1>d, <2>3, <2>4 DEF Counted
<1>13. ASSUME UNCHANGED <<local, faults, ghosts>>
       PROVE  Counted(c)'
  BY Zenon, <1>c, <1>13 DEF local, ghosts, Counted
<1>14. CASE Edit \/ (\E l \in Links : OutsideLink(l)) \/ (\E k \in Clients : ClientEnds(k))
  <2>1. UNCHANGED <<done, unseen, ledger, faults, pc, plan, seen>>
    BY Zenon, <1>14 DEF Edit, OutsideLink, ClientEnds, local, ghosts
  <2> QED
    BY Zenon, <1>c, <2>1 DEF Counted
<1>15. CASE UNCHANGED vars
  BY Zenon, <1>13, <1>15 DEF vars, bounds
<1> QED
  BY Zenon, <1>1, <1>2, <1>3, <1>4, <1>5, <1>6, <1>7, <1>8, <1>9, <1>10, <1>11, <1>12, <1>14, <1>15
     DEF Next, DaemonSteps, ProcSteps, Environment

\* A client that does not stay up is not started for ever, whoever starts it
\* and whoever dies in between (ncfg_plan_backend and 0079's three clears).
THEOREM StartsCorrect == Spec => []StartsAreLimited
<1>1. Init => Hands
  BY Zenon DEF Init, Hands, Hand, Clears
<1>2. Init => Counts
  <2> SUFFICES ASSUME Init, NEW c \in Clients PROVE Counted(c)
    BY Zenon DEF Counts
  <2>1. /\ unseen[c] = 0 /\ ledger.restarts[c] = 0 /\ faults = 0
        /\ \A p \in Procs : pc[p] = "idle" /\ plan[p] = {} /\ done[p] = {}
    BY Zenon DEF Init, NoRecord
  <2>2. Pending(done, c) = 0
    BY Zenon, <2>1 DEF Pending
  <2>3. \A p \in Procs : ~ Clears(pc[p], seen[p], plan[p], done[p], c) /\ Begin(c) \notin plan[p]
    BY Zenon, <2>1 DEF Clears
  <2>4. /\ unseen[c] <= ledger.restarts[c] + Pending(done, c) + RestartLimit + faults
        /\ ledger.restarts[c] + Pending(done, c) <= RestartLimit + 1
    BY <2>1, <2>2
  <2>5. Daemon \in Procs /\ Clis \subseteq Procs
    OBVIOUS
  <2> QED
    BY Zenon, <2>3, <2>4, <2>5 DEF Counted
<1>3. OwnershipInv /\ OwnershipInv' /\ Hands /\ Counts /\ [Next]_vars => Hands' /\ Counts'
  BY Zenon, HandsStep, CountsStep DEF OwnershipInv
<1>4. OwnershipInv /\ Counts => StartsAreLimited
  <2> SUFFICES ASSUME OwnershipInv, Counts, NEW c \in Clients
               PROVE  unseen[c] <= 2 * RestartLimit + 1 + faults
    BY Zenon DEF StartsAreLimited
  <2>1. /\ unseen[c] <= ledger.restarts[c] + Pending(done, c) + RestartLimit + faults
        /\ ledger.restarts[c] + Pending(done, c) <= RestartLimit + 1
    BY Zenon DEF Counts, Counted
  <2>2. unseen[c] \in Nat /\ ledger.restarts[c] \in Nat /\ faults \in Nat /\ Pending(done, c) \in {0, 1}
    BY DEF OwnershipInv, TypeOK, Records, Pending
  <2> QED
    BY <2>1, <2>2
<1> QED
  BY <1>1, <1>2, <1>3, <1>4, OwnershipInvariant, PTL DEF Spec
====
