------------------------ MODULE CommitConfirmProofs --------------------------
(***************************************************************************)
(* The types and the safety of CommitConfirm, for every set of documents,  *)
(* every machine and every bound.                                          *)
(***************************************************************************)
EXTENDS CommitConfirm, TLAPS

(***************************************************************************)
(* What the operators of the model return                                  *)
(***************************************************************************)

\* Observing keeps the daemon's state well typed (ncfg_daemon_state_reobserve).
LEMMA ReobserveType ==
    ASSUME NEW st \in States, NEW m \in Machines, NEW ok \in BOOLEAN
    PROVE  /\ reobserve(st, m, ok) \in States
           /\ reobserve(st, m, ok).desired = st.desired
           /\ reobserve(st, m, ok).rejected = st.rejected
BY Zenon DEF reobserve, States

\* Reloading keeps it well typed whatever is on disk
\* (ncfg_daemon_state_reload).
LEMMA ReloadType ==
    ASSUME NEW st \in States, files \in Docs \cup {Broken}
    PROVE  state_reload(st) \in States
BY Zenon DEF state_reload, States

\* Running any part of a plan leaves a value in every item: a planned action
\* always carries one (run_plan).
LEMMA AppliedType ==
    ASSUME NEW d \in Docs, NEW m \in Machines, NEW seen,
           NEW plan \in SUBSET plan_build(d, seen),
           NEW done \in run_plan(plan)
    PROVE  Applied(m, d, done) \in Machines
<1>1. done \subseteq plan_build(d, seen)
  BY Zenon DEF run_plan
<1>2. \A i \in done : i \in Items /\ Want[d][i] # Unset
  BY Zenon, <1>1 DEF plan_build, Agrees
<1>3. \A i \in Items : Want[d][i] \in Values \cup {Unset}
  BY ConstantsAssumption
<1>. QED
  BY Zenon, <1>2, <1>3 DEF Applied, Machines

\* Undoing any part of what the window recorded leaves a value in every item.
LEMMA UndoneType ==
    ASSUME TypeOK, NEW undone \in apply_revert
    PROVE  Undone(machine, undone) \in Machines
<1>1. \A i \in undone : armed.undo[i] # None
  BY Zenon DEF apply_revert, Undoable
<1>2. \A i \in Items : armed.undo[i] \in Values \cup {None}
  BY Zenon DEF TypeOK, Records
<1>. QED
  BY Zenon, <1>1, <1>2 DEF Undone, TypeOK, Machines

\* What is left of the machine once some backends are stopped is a machine,
\* and the same one where none is (hand_back).
LEMMA HandBackType ==
    ASSUME machine \in Machines, NEW given
    PROVE  hand_back(given) \in Machines /\ (given = {} => hand_back(given) = machine)
<1>1. hand_back(given) \in Machines
  BY Zenon, ConstantsAssumption DEF hand_back, Machines
<1>2. ASSUME given = {} PROVE hand_back(given) = machine
  <2>1. hand_back({}) = [i \in Items |-> machine[i]]
    BY Zenon DEF hand_back
  <2>. QED
    BY Zenon, <1>2, <2>1 DEF Machines
<1>. QED
  BY Zenon, <1>1, <1>2

(***************************************************************************)
(* What a pass and an apply do to everything but the data                  *)
(***************************************************************************)

\* A pass writes neither file and either ends the round's own work or goes on
\* to arm a window that may be armed (reconcile_drift, decide_arming).
LEMMA PassControl ==
    ASSUME Pass
    PROVE  /\ pc = "pass"
           /\ UNCHANGED <<files, dirty, disk, clock, cont, reqs, disowned>>
           /\ \/ pc' = "settle" /\ armed' = armed
              \/ pc' = "arm" /\ may_arm /\ arming'.good = lastGood
<1>1. ASSUME NEW st, NEW m, reconcile_drift(st, m)
      PROVE  \/ pc' = "settle" /\ armed' = armed
             \/ pc' = "arm" /\ may_arm /\ arming'.good = lastGood
  <2>1. CASE decide_arming(st)
    <3>1. pc' = "arm" /\ arming' = Arming(ConfirmDefault[st.desired])
      BY <1>1, <2>1, Zenon DEF reconcile_drift
    <3>2. may_arm
      BY <2>1, Zenon DEF decide_arming, arms
    <3>. QED
      BY Zenon, <3>1, <3>2 DEF Arming
  <2>2. CASE ~decide_arming(st)
    BY <1>1, <2>2, Zenon DEF reconcile_drift
  <2>. QED
    BY Zenon, <2>1, <2>2
<1>. QED
  BY <1>1, Zenon DEF Pass

\* An apply writes neither file, is refused, or goes on to arm a window that
\* may be armed, or to record last-good with no window open
\* (ncfg_daemon_apply_request, settle_without_a_window).
LEMMA ApplyControl ==
    ASSUME ApplyRequest
    PROVE  /\ pc = "settle"
           /\ UNCHANGED <<disk, holding, clock, disowned, wake, outside>>
           /\ \/ pc' = "settle" /\ armed' = armed
              \/ pc' = "arm" /\ may_arm /\ arming'.good = lastGood
              \/ pc' = "record" /\ ~Open /\ armed' = NoArmed
<1>1. pc = "settle" /\ UNCHANGED <<wake, outside>>
  BY Zenon DEF ApplyRequest, Answering
<1>2. CASE Refused
  BY Zenon, <1>1, <1>2 DEF Refused, disk, clock
<1>3. CASE ~Refused
  <2>1. ~refuses_apply(Head(reqs)) /\ UNCHANGED <<disk, holding, clock, disowned>>
    BY <1>3, Zenon DEF ApplyRequest
  <2>2. PICK ok \in Observations :
          \/ UNCHANGED <<machine, armed, pc, cont, arming, reached>>
          \/ apply_now(reobserve(state, machine, ok), Head(reqs).seconds)
    BY <1>3, Zenon DEF ApplyRequest
  <2>3. CASE UNCHANGED <<machine, armed, pc, cont, arming, reached>>
    BY Zenon, <1>1, <2>1, <2>3
  <2>4. CASE apply_now(reobserve(state, machine, ok), Head(reqs).seconds)
    <3>1. CASE Head(reqs).seconds > 0
      <4>1. pc' = "arm" /\ arming' = Arming(Head(reqs).seconds)
        BY <2>4, <3>1, Zenon DEF apply_now
      <4>2. may_arm
        BY <2>1, <3>1, Zenon DEF refuses_apply
      <4>. QED
        BY Zenon, <1>1, <2>1, <4>1, <4>2 DEF Arming
    <3>2. CASE ~(Head(reqs).seconds > 0)
      <4>1. \/ settles /\ armed' = NoArmed /\ pc' = "record"
            \/ ~settles /\ armed' = armed /\ pc' = pc
        BY <2>4, <3>2, Zenon DEF apply_now
      <4>. QED
        BY Zenon, <1>1, <2>1, <4>1 DEF settles
    <3>. QED
      BY Zenon, <3>1, <3>2
  <2>. QED
    BY Zenon, <2>2, <2>3, <2>4
<1>. QED
  BY Zenon, <1>2, <1>3

\* ncfg_reconcile_converge touches neither file and no window, and ends in the
\* record of last-good or in the loop.
LEMMA ConvergeControl ==
    ASSUME Converge
    PROVE  /\ pc = "converge"
           /\ pc' \in {"idle", "record"}
           /\ cont' \in {cont, "idle"}
           /\ UNCHANGED <<disk, armed, holding, clock, arming, round, outside, disowned>>
<1>1. /\ pc = "converge"
      /\ UNCHANGED <<disk, armed, holding, clock, arming, round, outside, disowned>>
  BY Zenon DEF Converge
<1>2. pc' = "idle" \/ pc' = "record"
  BY Zenon DEF Converge
<1>3. cont' = cont \/ cont' = "idle"
  BY Zenon DEF Converge
<1>. QED
  BY Zenon, <1>1, <1>2, <1>3

\* The three callers of ncfg_confirm_revert leave a window that is not to be
\* reverted alone, drop one with nothing to revert to, or run the revert and
\* go on to clear the window; the record is freed in both of the last.
LEMMA RevertControl ==
    ASSUME ResolveAnyWindow \/ ResolveWindow \/ RevertRequest
    PROVE  /\ pc \in {"boot", "resolve", "settle"}
           /\ UNCHANGED <<lastGood, holding, clock, arming, outside>>
           /\ \/ /\ UNCHANGED <<state, window, armed, disowned>>
                 /\ \/ pc' \in {"pass", "settle"}
                    \/ pc' = "establish" /\ (~Open \/ "startlock" \in Faults)
              \/ /\ armed' = NoArmed /\ window' = NoWindow
                 /\ UNCHANGED <<state, disowned>>
                 /\ pc' \in {"pass", "settle", "establish"}
              \/ armed' = NoArmed /\ window' = window /\ pc' = "clear"
<1>1. ASSUME NEW onDone, NEW onFail, confirm_revert(onDone, onFail)
      PROVE  /\ UNCHANGED <<lastGood, holding, clock, arming>>
             /\ armed' = NoArmed
             /\ \/ window' = NoWindow /\ pc' = onFail /\ UNCHANGED <<state, disowned>>
                \/ window' = window /\ pc' = "clear"
  BY <1>1, Zenon DEF confirm_revert
<1>2. CASE ResolveAnyWindow
  <2>1. UNCHANGED outside /\ pc = "boot"
    BY <1>2, Zenon DEF ResolveAnyWindow
  <2>2. \/ confirm_revert("reverted", "establish")
        \/ /\ ~Open \/ "startlock" \in Faults
           /\ pc' = "establish"
           /\ UNCHANGED <<state, disk, armed, holding, clock, arming, disowned>>
    BY <1>2, Zenon DEF ResolveAnyWindow
  <2>. QED
    BY Zenon, <1>1, <2>1, <2>2 DEF disk
<1>3. CASE ResolveWindow
  <2>1. UNCHANGED outside /\ pc = "resolve"
    BY <1>3, Zenon DEF ResolveWindow
  <2>2. \/ confirm_revert("pass", "pass")
        \/ /\ pc' = "pass"
           /\ UNCHANGED <<state, disk, armed, holding, clock, arming, disowned>>
    BY <1>3, Zenon DEF ResolveWindow
  <2>. QED
    BY Zenon, <1>1, <2>1, <2>2 DEF disk
<1>4. CASE RevertRequest
  <2>1. UNCHANGED outside /\ pc = "settle"
    BY <1>4, Zenon DEF RevertRequest, Answering
  <2>2. \/ confirm_revert("settle", "settle")
        \/ UNCHANGED <<state, disk, armed, holding, clock, pc, arming, disowned>>
    BY <1>4, Zenon DEF RevertRequest, Refused
  <2>. QED
    BY Zenon, <1>1, <2>1, <2>2 DEF disk
<1>. QED
  BY Zenon, <1>2, <1>3, <1>4

(***************************************************************************)
(* Type correctness                                                        *)
(***************************************************************************)

\* A window about to be written has a document to revert to: may_arm answered
\* one before the machine was touched.
TypeInv == TypeOK /\ (pc = "arm" => arming.good # None)

\* The values the model starts from and returns to are in their types.
LEMMA TypeFacts ==
    /\ NoArmed \in Records /\ NotArming \in Armings
    /\ Asleep \in Woken /\ Blank \in States /\ <<>> \in Queues
    /\ Returns \subseteq PCs /\ "arm" \notin Returns
    /\ PCs = {"down", "boot", "reverted", "establish", "converge", "record", "idle",
              "resolve", "pass", "arm", "settle", "clear"}
    /\ Returns = {"idle", "pass", "reverted", "settle"}
<1>1. NoArmed \in Records
  BY Zenon DEF NoArmed, Records
<1>2. NotArming \in Armings
  BY ConstantsAssumption DEF NotArming, Armings
<1>3. Asleep \in Woken
  BY Zenon DEF Asleep, Woken
<1>4. Blank \in States
  BY Zenon DEF Blank, States
<1>5. <<>> \in Queues
  BY DEF Queues
<1>6. Returns \subseteq PCs /\ "arm" \notin Returns
  BY Zenon DEF Returns, PCs
<1>. QED
  BY Zenon, <1>1, <1>2, <1>3, <1>4, <1>5, <1>6 DEF PCs, Returns

\* Taking the head of the requests leaves a list of requests.
LEMMA TakeRequest ==
    ASSUME reqs \in Queues, reqs # <<>>, reqs' = Tail(reqs)
    PROVE  reqs' \in Queues /\ Head(reqs).seconds \in 0 .. MaxSeconds
<1>1. reqs' \in Queues /\ Head(reqs) \in Requests
  BY DEF Queues
<1>2. Seconds \subseteq 0 .. MaxSeconds /\ MaxSeconds \in Nat
  BY Zenon, ConstantsAssumption
<1>3. \A q \in [kind : {"apply"}, seconds : Seconds] : q.seconds \in 0 .. MaxSeconds
  BY <1>2, Zenon
<1>4. \A q \in [kind : {"stand", "confirm", "revert", "reload"}, seconds : {0}] :
        q.seconds \in 0 .. MaxSeconds
  BY <1>2
<1>. QED
  BY Zenon, <1>1, <1>3, <1>4 DEF Requests

\* A revert keeps the types, wherever it is called from.
LEMMA RevertKeepsTypes ==
    ASSUME TypeInv,
           NEW onDone \in {"pass", "reverted", "settle"},
           NEW onFail \in {"pass", "establish", "settle"},
           confirm_revert(onDone, onFail),
           UNCHANGED outside, wake' = wake, reqs' \in Queues
    PROVE  TypeInv'
<1>1. CASE lastGood = None
  <2>1. /\ armed' = NoArmed /\ window' = NoWindow /\ pc' = onFail
        /\ UNCHANGED <<state, machine, cont, reached, disowned, lastGood, holding, clock,
                       arming>>
    BY Zenon, <1>1 DEF confirm_revert
  <2>2. armed' \in Records
    BY Zenon, <2>1, TypeFacts
  <2>3. pc' \in PCs /\ pc' # "arm"
    BY Zenon, <2>1, TypeFacts
  <2>. QED
    BY Zenon, <2>1, <2>2, <2>3 DEF TypeInv, TypeOK, outside, clock
<1>2. CASE lastGood # None
  <2>1. PICK undone \in apply_revert, ok \in Observations :
          LET m  == Undone(machine, undone)
              st == [state EXCEPT !.rejected = rejecting, !.desired = lastGood]
              s2 == IF Undoable = {} THEN st ELSE reobserve(st, m, ok)
          IN  /\ state' = s2
              /\ \/ s2.observed = None /\ machine' = m
                 \/ /\ s2.observed # None
                    /\ \E done \in run_plan(plan_build(lastGood, s2.observed)) :
                         machine' = Applied(m, lastGood, done)
    BY Zenon, <1>2 DEF confirm_revert
  <2>2. lastGood \in Docs
    BY Zenon, <1>2 DEF TypeInv, TypeOK
  <2>3. Undone(machine, undone) \in Machines
    BY Zenon, UndoneType DEF TypeInv
  <2>4. machine' \in Machines
    BY Zenon, <2>1, <2>2, <2>3, AppliedType
  <2>5. rejecting \in Docs \cup {None}
    BY Zenon DEF TypeInv, TypeOK, rejecting, States, Records
  <2>6. [state EXCEPT !.rejected = rejecting, !.desired = lastGood] \in States
    BY <2>2, <2>5, Zenon DEF TypeInv, TypeOK, States
  <2>7. ok \in BOOLEAN
    BY Zenon DEF Observations
  <2>8. state' \in States
    BY Zenon, <2>1, <2>3, <2>6, <2>7, ReobserveType
  <2>9. disowned' \in Docs \cup {None}
    <3>1. disowned' = Disowning
      BY Zenon, <1>2 DEF confirm_revert
    <3>2. files \in Docs \cup {Broken}
      BY Zenon DEF TypeInv, TypeOK
    <3>. QED
      BY Zenon, <2>5, <3>1, <3>2 DEF Disowning
  <2>10. reached' \subseteq Docs
    BY Zenon, <1>2 DEF confirm_revert, Reaching, TypeInv, TypeOK
  <2>11. /\ armed' = NoArmed /\ pc' = "clear" /\ cont' = onDone
         /\ UNCHANGED <<window, lastGood, holding, clock, arming>>
    BY Zenon, <1>2 DEF confirm_revert
  <2>12. armed' \in Records /\ pc' \in PCs /\ cont' \in Returns
    BY Zenon, <2>11, TypeFacts
  <2>. QED
    BY Zenon, <2>4, <2>8, <2>9, <2>10, <2>11, <2>12 DEF TypeInv, TypeOK, outside, clock
<1>. QED
  BY Zenon, <1>1, <1>2

\* The daemon starts with every variable in its type.
LEMMA TypeInit ==
    ASSUME Init
    PROVE  TypeInv
<1>1. dirty \in BOOLEAN /\ holding \in BOOLEAN /\ fired \in BOOLEAN
  BY Zenon DEF Init
<1>2. budget \in Budgets
  BY ConstantsAssumption DEF Init, Budgets
<1>3. timer \in 0 .. MaxSeconds
  BY ConstantsAssumption DEF Init
<1>4. machine \in Machines /\ files \in Docs \cup {Broken} /\ reached \subseteq Docs
  BY Zenon DEF Init, Machines
<1>. QED
  BY Zenon, <1>1, <1>2, <1>3, <1>4, TypeFacts DEF Init, TypeInv, TypeOK

\* Spending one unit of a bound leaves the bounds within theirs.
LEMMA Spending ==
    ASSUME TypeOK
    PROVE  /\ budget.edit > 0 => [budget EXCEPT !.edit = @ - 1] \in Budgets
           /\ budget.drift > 0 => [budget EXCEPT !.drift = @ - 1] \in Budgets
           /\ budget.crash > 0 => [budget EXCEPT !.crash = @ - 1] \in Budgets
<1>1. MaxEdits \in Nat /\ MaxDrift \in Nat /\ MaxCrash \in Nat
  BY Zenon, ConstantsAssumption
<1>2. budget \in Budgets
  BY Zenon DEF TypeOK
<1>. QED
  BY <1>1, <1>2 DEF Budgets

\* A window to be armed has a length within the bound and a target.
LEMMA ArmingType ==
    ASSUME NEW s \in 0 .. MaxSeconds, lastGood \in Docs \cup {None}, lastGood # None
    PROVE  /\ Arming(s) \in Armings
           /\ Arming(s).good # None
BY Zenon DEF Arming, Armings

\* What a plan run on the machine leaves is well typed, and so is the record
\* kept of it (ncfg_apply, ncfg_confirm_armed_from).
LEMMA RanType ==
    ASSUME NEW st \in States, st.desired \in Docs, st.observed \in Machines,
           NEW m \in Machines,
           NEW plan \in SUBSET plan_build(st.desired, st.observed),
           NEW done \in run_plan(plan)
    PROVE  /\ Applied(m, st.desired, done) \in Machines
           /\ armed_from(st.desired, st.observed, done) \in Records
<1>1. Applied(m, st.desired, done) \in Machines
  BY Zenon, AppliedType
<1>2. armed_from(st.desired, st.observed, done) \in Records
  BY Zenon DEF armed_from, Records, Machines
<1>. QED
  BY Zenon, <1>1, <1>2

\* reconcile_drift keeps what it writes in its type.
LEMMA DriftType ==
    ASSUME TypeOK, NEW st \in States, NEW m \in Machines, drifted(st) # {},
           reconcile_drift(st, m)
    PROVE  /\ machine' \in Machines /\ state' \in States /\ armed' \in Records
           /\ arming' \in Armings /\ pc' \in {"arm", "settle"}
           /\ reached' \subseteq Docs
<1>1. PICK done \in run_plan(drifted(st)), ok \in Observations :
         /\ machine' = Applied(m, st.desired, done)
         /\ state' = reobserve(st, machine', ok)
         /\ armed' = IF decide_arming(st)
                     THEN armed_from(st.desired, st.observed, done)
                     ELSE armed
  BY Zenon DEF reconcile_drift
<1>2. /\ st.desired \in Docs /\ st.observed \in Machines
      /\ drifted(st) \in SUBSET plan_build(st.desired, st.observed)
  BY Zenon DEF drifted, restrict, States
<1>3. ok \in BOOLEAN
  BY Zenon DEF Observations
<1>4. /\ machine \in Machines /\ armed \in Records /\ arming \in Armings
      /\ reached \subseteq Docs /\ lastGood \in Docs \cup {None}
  BY Zenon DEF TypeOK
<1>5. machine' \in Machines /\ armed' \in Records
  BY Zenon, <1>1, <1>2, <1>4, RanType
<1>6. state' \in States
  BY Zenon, <1>1, <1>3, <1>5, ReobserveType
<1>7. arming' \in Armings /\ pc' \in {"arm", "settle"}
  <2>1. CASE decide_arming(st)
    <3>1. pc' = "arm" /\ arming' = Arming(ConfirmDefault[st.desired])
      BY <2>1, Zenon DEF reconcile_drift
    <3>2. lastGood # None
      BY <2>1, Zenon DEF decide_arming, arms, may_arm
    <3>3. ConfirmDefault[st.desired] \in 0 .. MaxSeconds
      BY Zenon, <1>2, ConstantsAssumption
    <3>. QED
      BY Zenon, <1>4, <3>1, <3>2, <3>3, ArmingType
  <2>2. CASE ~decide_arming(st)
    <3>1. pc' = "settle" /\ arming' = arming
      BY <2>2, Zenon DEF reconcile_drift
    <3>. QED
      BY Zenon, <1>4, <3>1
  <2>. QED
    BY Zenon, <2>1, <2>2
<1>8. reached' \subseteq Docs
  BY Zenon, <1>4 DEF reconcile_drift, Reaching
<1>. QED
  BY Zenon, <1>5, <1>6, <1>7, <1>8

\* apply_now keeps what it writes in its type.
LEMMA ApplyNowType ==
    ASSUME TypeOK, NEW st \in States, st.desired \in Docs, st.observed \in Machines,
           NEW s \in 0 .. MaxSeconds, s > 0 => lastGood # None, apply_now(st, s)
    PROVE  /\ machine' \in Machines /\ state' \in States /\ armed' \in Records
           /\ arming' \in Armings /\ pc' \in PCs /\ cont' \in Returns
           /\ reached' \subseteq Docs
<1>1. PICK done \in run_plan(plan_build(st.desired, st.observed)), ok \in Observations :
         /\ machine' = Applied(machine, st.desired, done)
         /\ state' = reobserve(st, machine', ok)
         /\ armed' = IF s > 0 THEN armed_from(st.desired, st.observed, done)
                     ELSE IF settles THEN NoArmed ELSE armed
  BY Zenon DEF apply_now
<1>2. ok \in BOOLEAN
  BY Zenon DEF Observations
<1>3. /\ machine \in Machines /\ armed \in Records /\ arming \in Armings
      /\ reached \subseteq Docs /\ lastGood \in Docs \cup {None}
      /\ pc \in PCs /\ cont \in Returns
  BY Zenon DEF TypeOK
<1>4. machine' \in Machines /\ armed' \in Records
  BY Zenon, <1>1, <1>3, RanType, TypeFacts
<1>5. state' \in States
  BY Zenon, <1>1, <1>2, <1>4, ReobserveType
<1>6. arming' \in Armings /\ pc' \in PCs /\ cont' \in Returns
  <2>1. CASE s > 0
    <3>1. pc' = "arm" /\ arming' = Arming(s) /\ cont' = cont
      BY <2>1, Zenon DEF apply_now
    <3>. QED
      BY Zenon, <1>3, <2>1, <3>1, ArmingType, TypeFacts
  <2>2. CASE ~(s > 0)
    <3>1. /\ arming' = arming
          /\ (pc' = "record" /\ cont' = "settle") \/ (pc' = pc /\ cont' = cont)
      BY <2>2, Zenon DEF apply_now
    <3>. QED
      BY Zenon, <1>3, <3>1, TypeFacts
  <2>. QED
    BY Zenon, <2>1, <2>2
<1>7. reached' \subseteq Docs
  BY Zenon, <1>3 DEF apply_now, Reaching
<1>. QED
  BY Zenon, <1>4, <1>5, <1>6, <1>7

\* Every step of the daemon and of what surrounds it keeps every variable in
\* its type.
LEMMA TypeStep ==
    ASSUME TypeInv, [Next]_vars
    PROVE  TypeInv'
<1>. USE DEF TypeInv
<1>0. /\ state \in States /\ machine \in Machines
      /\ files \in Docs \cup {Broken}
      /\ Observations \subseteq BOOLEAN
  BY Zenon DEF TypeOK, Observations
<1>1. CASE Boot
  <2>2. state' \in States
    BY <1>0, <1>1, TypeFacts, ReloadType, ReobserveType DEF Boot
  <2>3. dirty' \in BOOLEAN
    BY <1>1, Zenon DEF Boot
  <2>. QED
    BY Zenon, <1>1, <2>2, <2>3, TypeFacts DEF Boot, TypeOK, disk, clock, round
<1>2. CASE Rounds
  <2>1. PICK w \in Wakes, rs \in RequestLists : Round(w, rs)
    BY Zenon, <1>2 DEF Rounds
  <2>2. rs \in Queues
    <3>1. PICK n \in 0 .. MaxReqs : rs \in [1 .. n -> Requests]
      BY Zenon DEF RequestLists
    <3>2. n \in Nat
      BY ConstantsAssumption
    <3>. QED
      BY <3>1, <3>2 DEF Queues
  <2>3. /\ dirty' \in BOOLEAN /\ fired' \in BOOLEAN
        /\ wake' \in Woken
    BY <2>1, Zenon DEF Round, looks, Wakes, Woken
  <2>. QED
    BY Zenon, <2>1, <2>2, <2>3, TypeFacts DEF Round, TypeOK, disk
<1>3. CASE ResolveAnyWindow
  <2>1. CASE confirm_revert("reverted", "establish")
    BY Zenon, <1>3, <2>1, RevertKeepsTypes DEF ResolveAnyWindow, round, TypeOK
  <2>2. CASE ~confirm_revert("reverted", "establish")
    BY Zenon, <1>3, <2>2, TypeFacts DEF ResolveAnyWindow, TypeOK, disk, clock, round, outside
  <2>. QED
    BY Zenon, <2>1, <2>2
<1>4. CASE EstablishLastGood
  <2>1. holding' \in BOOLEAN
    BY <1>4, Zenon DEF EstablishLastGood
  <2>2. lastGood' \in Docs \cup {None}
    BY Zenon, <1>4, ConstantsAssumption DEF EstablishLastGood, TypeOK
  <2>3. pc' \in {"converge", "idle"}
    BY Zenon, <1>4 DEF EstablishLastGood
  <2>. QED
    BY Zenon, <1>4, <2>1, <2>2, <2>3, TypeFacts DEF EstablishLastGood, TypeOK, clock, round, outside
<1>5. CASE Converge
  <2>1. PICK ok \in Observations :
          LET st == reobserve(state, machine, ok)
          IN  \/ /\ state' = IF state.desired = None THEN state ELSE st
                 /\ pc' = "idle"
                 /\ UNCHANGED <<machine, cont, reached>>
              \/ /\ state.desired # None
                 /\ LET plan == plan_build(st.desired, st.observed)
                    IN \E done \in run_plan(plan), ok2 \in Observations :
                         /\ machine' = Applied(machine, st.desired, done)
                         /\ state' = reobserve(st, machine', ok2)
                         /\ pc' = IF done = plan THEN "record" ELSE "idle"
                 /\ cont' = "idle"
                 /\ Reaching(machine')
    BY Zenon, <1>5 DEF Converge
  <2>2. reobserve(state, machine, ok) \in States
    BY Zenon, <1>0, ReobserveType
  <2>3. machine' \in Machines
    BY <1>0, <2>1, <2>2, AppliedType, ReobserveType DEF States
  <2>4. state' \in States
    BY <1>0, <2>1, <2>2, <2>3, ReobserveType
  <2>5. /\ pc' \in {"idle", "record"} /\ (cont' = cont \/ cont' = "idle")
        /\ reached' = reached \/ Reaching(machine')
    BY Zenon, <2>1
  <2>6. UNCHANGED <<disk, armed, holding, clock, arming, round, outside, disowned>>
    BY Zenon, <1>5 DEF Converge
  <2>. QED
    BY <2>3, <2>4, <2>5, <2>6, TypeFacts
    DEF TypeOK, disk, clock, round, outside, Reaching
<1>6. CASE ResolveWindow
  <2>1. CASE confirm_revert("pass", "pass")
    BY Zenon, <1>6, <2>1, RevertKeepsTypes DEF ResolveWindow, round, TypeOK
  <2>2. CASE ~confirm_revert("pass", "pass")
    BY Zenon, <1>6, <2>2, TypeFacts DEF ResolveWindow, TypeOK, disk, clock, round, outside
  <2>. QED
    BY Zenon, <2>1, <2>2

<1>7. CASE Pass
  <2>1. UNCHANGED <<files, dirty, disk, clock, cont, reqs, disowned>>
    BY Zenon, <1>7, PassControl
  <2>2. holding' \in BOOLEAN /\ wake' \in Woken
    BY <1>7, TypeFacts, Zenon DEF Pass
  <2>3. pc' = "arm" => arming'.good # None
    BY Zenon, <1>7, PassControl DEF may_arm
  <2>4. PICK ok \in Observations : \E given \in SUBSET contended(looked(ok)) :
          /\ budget' = IF given = {} THEN budget ELSE [budget EXCEPT !.drift = @ - 1]
          /\ \/ /\ state' = looked(ok)
                /\ machine' = hand_back(given)
                /\ Reaching(machine')
                /\ pc' = "settle"
                /\ UNCHANGED <<armed, arming>>
             \/ reconciles(looked(ok)) /\ reconcile_drift(looked(ok), hand_back(given))
    BY Zenon, <1>7 DEF Pass
  <2>5. looked(ok) \in States
    <3>1. reloaded \in States
      BY Zenon, <1>0, ReloadType DEF reloaded
    <3>. QED
      BY Zenon, <1>0, <3>1, ReobserveType DEF looked
  <2>6. PICK given \in SUBSET contended(looked(ok)) :
          /\ budget' = IF given = {} THEN budget ELSE [budget EXCEPT !.drift = @ - 1]
          /\ \/ /\ state' = looked(ok)
                /\ machine' = hand_back(given)
                /\ Reaching(machine')
                /\ pc' = "settle"
                /\ UNCHANGED <<armed, arming>>
             \/ reconciles(looked(ok)) /\ reconcile_drift(looked(ok), hand_back(given))
    BY Zenon, <2>4
  <2>7. hand_back(given) \in Machines
    BY Zenon, HandBackType DEF TypeOK
  <2>8. /\ machine' \in Machines /\ state' \in States /\ armed' \in Records
        /\ arming' \in Armings /\ pc' \in {"arm", "settle"}
        /\ reached' \subseteq Docs
    <3>1. CASE reconciles(looked(ok)) /\ reconcile_drift(looked(ok), hand_back(given))
      <4>1. drifted(looked(ok)) # {}
        BY <3>1, Zenon DEF reconciles
      <4>. QED
        BY Zenon, <2>5, <2>7, <3>1, <4>1, DriftType
    <3>2. CASE /\ state' = looked(ok)
               /\ machine' = hand_back(given)
               /\ Reaching(machine')
               /\ pc' = "settle"
               /\ UNCHANGED <<armed, arming>>
      BY Zenon, <2>5, <2>7, <3>2 DEF TypeOK, Reaching
    <3>. QED
      BY Zenon, <2>6, <3>1, <3>2
  <2>9. budget' \in Budgets
    <3>1. given # {} => budget.drift > 0
      BY Zenon DEF contended
    <3>2. budget \in Budgets
      BY Zenon DEF TypeOK
    <3>. QED
      BY Zenon, <2>6, <3>1, <3>2, Spending
  <2>. QED
    BY Zenon, <2>1, <2>2, <2>3, <2>8, <2>9, TypeFacts DEF TypeOK, disk, clock
<1>8. CASE ApplyRequest
  <2>1. reqs' \in Queues /\ Head(reqs).seconds \in 0 .. MaxSeconds
    <3>1. reqs # <<>> /\ reqs' = Tail(reqs)
      BY <1>8, Zenon DEF ApplyRequest, Answering
    <3>. QED
      BY Zenon, <3>1, TakeRequest DEF TypeOK
  <2>2. UNCHANGED <<disk, holding, clock, disowned, wake, outside>>
    BY Zenon, <1>8, ApplyControl
  <2>3. pc' = "arm" => arming'.good # None
    BY Zenon, <1>8, ApplyControl DEF may_arm
  <2>4. /\ machine' \in Machines /\ state' \in States /\ armed' \in Records
        /\ arming' \in Armings /\ pc' \in PCs /\ cont' \in Returns
        /\ reached' \subseteq Docs
    <3>1. CASE Refused
      BY Zenon, <3>1 DEF Refused, TypeOK
    <3>2. CASE ~Refused
      <4>1. ~refuses_apply(Head(reqs))
        BY <1>8, <3>2, Zenon DEF ApplyRequest
      <4>2. PICK ok \in Observations :
              \/ /\ state' = reobserve(state, machine, ok)
                 /\ UNCHANGED <<machine, armed, pc, cont, arming, reached>>
              \/ apply_now(reobserve(state, machine, ok), Head(reqs).seconds)
        BY <1>8, <3>2, Zenon DEF ApplyRequest
      <4>3. /\ reobserve(state, machine, ok) \in States
            /\ reobserve(state, machine, ok).desired = state.desired
        BY Zenon, <1>0, ReobserveType
      <4>4. /\ reobserve(state, machine, ok).desired \in Docs
            /\ reobserve(state, machine, ok).observed \in Machines
        <5>1. state.desired # None /\ state.observed # None
          BY <4>1, Zenon DEF refuses_apply
        <5>. QED
          BY Zenon, <1>0, <4>3, <5>1 DEF reobserve, States
      <4>5. CASE apply_now(reobserve(state, machine, ok), Head(reqs).seconds)
        <5>1. Head(reqs).seconds > 0 => lastGood # None
          BY <4>1, Zenon DEF refuses_apply, may_arm
        <5>. QED
          BY Zenon, <2>1, <4>3, <4>4, <4>5, <5>1, ApplyNowType
      <4>6. CASE /\ state' = reobserve(state, machine, ok)
                 /\ UNCHANGED <<machine, armed, pc, cont, arming, reached>>
        BY Zenon, <4>3, <4>6 DEF TypeOK
      <4>. QED
        BY Zenon, <4>2, <4>5, <4>6
    <3>. QED
      BY Zenon, <3>1, <3>2
  <2>. QED
    BY Zenon, <2>1, <2>2, <2>3, <2>4 DEF TypeOK, disk, clock, outside
<1>9. CASE ConfirmRequest
  <2>1. reqs' \in Queues /\ pc = "settle" /\ UNCHANGED <<wake, outside>>
    BY Zenon, <1>9, TakeRequest DEF ConfirmRequest, Answering, TypeOK
  <2>2. /\ window' = window \/ window' = NoWindow
        /\ armed' = armed \/ armed' = NoArmed
        /\ pc' = pc \/ pc' = "record"
        /\ cont' = cont \/ cont' = "settle"
        /\ UNCHANGED <<state, lastGood, holding, machine, clock, arming, reached, disowned>>
    BY Zenon, <1>9 DEF ConfirmRequest, Refused, disk
  <2>. QED
    BY <2>1, <2>2, TypeFacts DEF TypeOK, clock, outside
<1>10. CASE RevertRequest
  <2>1. reqs' \in Queues /\ UNCHANGED <<wake, outside>>
    BY Zenon, <1>10, TakeRequest DEF RevertRequest, Answering, TypeOK
  <2>2. CASE confirm_revert("settle", "settle")
    BY Zenon, <2>1, <2>2, RevertKeepsTypes
  <2>3. CASE Refused
    BY <2>1, <2>3 DEF Refused, TypeOK, disk, clock, outside
  <2>. QED
    BY Zenon, <1>10, <2>2, <2>3 DEF RevertRequest
<1>11. CASE ReloadRequest
  <2>1. reqs' \in Queues /\ UNCHANGED <<wake, outside>>
    BY Zenon, <1>11, TakeRequest DEF ReloadRequest, Answering, TypeOK
  <2>2. state' \in States
    BY Zenon, <1>0, <1>11, ReloadType DEF ReloadRequest
  <2>3. UNCHANGED <<disk, armed, holding, machine, clock, pc, cont, arming, reached,
                    disowned>>
    BY Zenon, <1>11 DEF ReloadRequest
  <2>. QED
    BY <2>1, <2>2, <2>3 DEF TypeOK, disk, clock, outside
<1>12. CASE EndRound
  BY Zenon, <1>12, TypeFacts DEF EndRound, TypeOK, disk, clock, round, outside
<1>13. CASE ArmWindow
  <2>1. fired' \in BOOLEAN
    BY <1>13, Zenon DEF ArmWindow, arm_failed, expiry, TypeOK, clock
  <2>2. window' \in Windows \cup {NoWindow}
    <3>1. window' \in {window, [left |-> arming.seconds, good |-> arming.good]}
      BY Zenon, <1>13 DEF ArmWindow, arm_failed
    <3>2. arming \in Armings /\ arming.good # None /\ window \in Windows \cup {NoWindow}
      BY Zenon, <1>13 DEF ArmWindow, TypeOK
    <3>3. MaxSeconds \in Nat /\ MaxStep \in Nat
      BY Zenon, ConstantsAssumption
    <3>. QED
      BY <3>1, <3>2, <3>3 DEF Windows, Armings
  <2>3. timer' \in 0 .. MaxSeconds
    <3>1. arming.seconds \in 0 .. MaxSeconds /\ timer \in 0 .. MaxSeconds
      BY Zenon DEF TypeOK, Armings
    <3>. QED
      BY Zenon, <1>13, <3>1 DEF ArmWindow, arm_failed, expiry, clock
  <2>4. armed' \in {armed, NoArmed} /\ arming' = NotArming
    BY Zenon, <1>13 DEF ArmWindow, arm_failed
  <2>5. /\ pc' = "settle"
        /\ UNCHANGED <<state, lastGood, holding, machine, cont, round, outside,
                       reached, disowned>>
    BY Zenon, <1>13 DEF ArmWindow
  <2>. QED
    BY Zenon, <2>1, <2>2, <2>3, <2>4, <2>5, TypeFacts DEF TypeOK, round, outside
<1>14. CASE ClearWindow
  <2>1. state' \in States
    BY Zenon, <1>0, <1>14, ReobserveType DEF ClearWindow
  <2>2. /\ window' = NoWindow /\ pc' = cont /\ cont' = "idle"
        /\ UNCHANGED <<lastGood, armed, holding, machine, clock, arming, round, outside,
                       reached, disowned>>
    BY Zenon, <1>14 DEF ClearWindow
  <2>. QED
    BY Zenon, <2>1, <2>2, TypeFacts DEF TypeOK, clock, round, outside
<1>15. CASE RecordLastGood
  <2>1. lastGood' \in Docs \cup {None}
    BY Zenon, <1>0, <1>15 DEF RecordLastGood, States
  <2>. QED
    BY Zenon, <1>15, <2>1, TypeFacts DEF RecordLastGood, TypeOK, clock, round, outside
<1>16. CASE EditConfig
  <2>1. dirty' \in BOOLEAN
    BY <1>16, Zenon DEF EditConfig
  <2>2. budget' \in Budgets
    <3>1. budget' = [budget EXCEPT !.edit = @ - 1] /\ budget.edit > 0
      BY Zenon, <1>16 DEF EditConfig
    <3>. QED
      BY Zenon, <3>1, Spending
  <2>. QED
    BY Zenon, <1>16, <2>1, <2>2, TypeFacts DEF EditConfig, TypeOK, disk, clock, round
<1>17. CASE Drift
  <2>1. machine' \in Machines
    BY Zenon, <1>0, <1>17 DEF Drift, Machines
  <2>2. budget' \in Budgets
    <3>1. budget' = [budget EXCEPT !.drift = @ - 1] /\ budget.drift > 0
      BY Zenon, <1>17 DEF Drift
    <3>. QED
      BY Zenon, <3>1, Spending
  <2>3. reached' \subseteq Docs
    BY Zenon, <1>17 DEF Drift, Reaching, TypeOK
  <2>4. UNCHANGED <<files, dirty, state, disk, armed, holding, clock, pc, cont,
                    arming, round, disowned>>
    BY Zenon, <1>17 DEF Drift
  <2>. QED
    BY Zenon, <2>1, <2>2, <2>3, <2>4 DEF TypeOK, disk, clock, round
<1>18. CASE Second
  <2>1. fired' \in BOOLEAN
    BY <1>18, Zenon DEF Second
  <2>2. window' \in Windows \cup {NoWindow}
    <3>1. window' = [window EXCEPT !.left = Less(@)]
      BY Zenon, <1>18 DEF Second
    <3>2. CASE window = NoWindow
      BY Zenon, <3>1, <3>2 DEF Less, NoWindow
    <3>3. CASE window \in Windows
      <4>1. MaxSeconds \in Nat /\ MaxStep \in Nat
        BY Zenon, ConstantsAssumption
      <4>2. Less(window.left) \in 0 .. MaxSeconds + MaxStep
        BY <3>3, <4>1 DEF Less, Windows
      <4>. QED
        BY Zenon, <3>1, <3>3, <4>2 DEF Windows
    <3>. QED
      BY Zenon, <3>2, <3>3 DEF TypeOK
  <2>3. timer' \in 0 .. MaxSeconds
    <3>1. timer' = Less(timer) /\ timer \in 0 .. MaxSeconds
      BY Zenon, <1>18 DEF Second, TypeOK
    <3>2. MaxSeconds \in Nat
      BY Zenon, ConstantsAssumption
    <3>. QED
      BY <3>1, <3>2 DEF Less
  <2>. QED
    BY Zenon, <1>18, <2>1, <2>2, <2>3 DEF Second, TypeOK, round
<1>19. CASE StepClock
  <2>1. window \in Windows
    BY Zenon, <1>19 DEF StepClock, Open, TypeOK
  <2>2. window' \in Windows
    BY <1>19, <2>1, ConstantsAssumption DEF StepClock, Less, Windows
  <2>3. UNCHANGED <<files, dirty, state, lastGood, armed, holding, machine, clock, pc,
                    cont, arming, round, budget, reached, disowned>>
    BY Zenon, <1>19 DEF StepClock
  <2>. QED
    BY Zenon, <2>2, <2>3 DEF TypeOK, round, clock
<1>20. CASE LoseLastGood
  BY Zenon, <1>20 DEF LoseLastGood, TypeOK, round, clock
<1>21. CASE Crash
  <2>1. dirty' \in BOOLEAN /\ holding' \in BOOLEAN /\ fired' \in BOOLEAN
    BY <1>21, Zenon DEF Crash
  <2>2. budget' \in Budgets
    <3>1. budget' = [budget EXCEPT !.crash = @ - 1] /\ budget.crash > 0
      BY Zenon, <1>21 DEF Crash
    <3>. QED
      BY Zenon, <3>1, Spending
  <2>3. timer' \in 0 .. MaxSeconds
    BY <1>21, ConstantsAssumption DEF Crash
  <2>. QED
    BY Zenon, <1>21, <2>1, <2>2, <2>3, TypeFacts DEF Crash, TypeOK, disk
<1>22. CASE UNCHANGED vars
  BY Zenon, <1>22 DEF vars, TypeOK
<1>. QED
  BY Zenon, <1>1, <1>2, <1>3, <1>4, <1>5, <1>6, <1>7, <1>8, <1>9, <1>10, <1>11, <1>12,
     <1>13, <1>14, <1>15, <1>16, <1>17, <1>18, <1>19, <1>20, <1>21, <1>22
  DEF Next, Work

\* The types of the model hold in every behaviour of the daemon.
THEOREM TypeCorrect == Spec => []TypeOK
<1>1. Init => TypeInv
  BY Zenon, TypeInit
<1>2. TypeInv /\ [Next]_vars => TypeInv'
  BY Zenon, TypeStep
<1>3. TypeInv => TypeOK
  BY Zenon DEF TypeInv
<1>. QED
  BY <1>1, <1>2, <1>3, PTL DEF Spec

(***************************************************************************)
(* The record of what a window covers                                      *)
(***************************************************************************)

\* RecordBelongsToWindow, and what the step that closes a reverted window
\* relies on: the revert has freed the record already.
RecordInv ==
    /\ RecordBelongsToWindow
    /\ pc = "clear" => armed = NoArmed

\* No step leaves a record of a window that is not there: one case per action.
LEMMA RecordStep ==
    ASSUME TypeInv, RecordInv, [Next]_vars
    PROVE  RecordInv'
<1>. USE DEF RecordInv, RecordBelongsToWindow, Open
<1>0. window \in Windows => window.good # None
  BY Zenon, ConstantsAssumption DEF Windows
<1>1. CASE Boot \/ EstablishLastGood \/ RecordLastGood \/ ReloadRequest \/ EndRound
  <2>1. cont \notin {"arm", "clear"}
    BY Zenon, TypeFacts DEF TypeInv, TypeOK
  <2>. QED
    BY Zenon, <1>1, <2>1 DEF Boot, EstablishLastGood, RecordLastGood, ReloadRequest, EndRound,
                      Answering, disk
<1>2. CASE Rounds
  BY <1>2, Zenon DEF Rounds, Round, disk
<1>3. CASE ResolveAnyWindow \/ ResolveWindow \/ RevertRequest
  BY Zenon, <1>3, RevertControl
<1>4. CASE Converge
  BY Zenon, <1>4, ConvergeControl DEF disk
<1>5. CASE Pass
  BY Zenon, <1>5, PassControl DEF disk
<1>6. CASE ApplyRequest
  BY Zenon, <1>6, ApplyControl DEF disk
<1>7. CASE ConfirmRequest
  BY Zenon, <1>7 DEF ConfirmRequest, Answering, Refused, disk
<1>8. CASE ArmWindow
  <2>1. \/ armed' = NoArmed
        \/ window' = [left |-> arming.seconds, good |-> arming.good]
    BY Zenon, <1>8 DEF ArmWindow, arm_failed
  <2>2. arming.good # None /\ pc' = "settle"
    BY Zenon, <1>8 DEF ArmWindow, TypeInv
  <2>. QED
    BY <2>1, <2>2 DEF NoWindow
<1>9. CASE ClearWindow
  BY Zenon, <1>9 DEF ClearWindow, TypeInv, TypeOK
<1>10. CASE EditConfig \/ Drift \/ LoseLastGood \/ Crash
  BY Zenon, <1>10 DEF EditConfig, Drift, LoseLastGood, Crash, disk
<1>11. CASE Second \/ StepClock
  BY <1>0, <1>11 DEF Second, StepClock, NoWindow, TypeInv, TypeOK, Windows
<1>12. CASE UNCHANGED vars
  BY Zenon, <1>12 DEF vars
<1>. QED
  BY Zenon, <1>1, <1>2, <1>3, <1>4, <1>5, <1>6, <1>7, <1>8, <1>9, <1>10, <1>11, <1>12
  DEF Next, Work

\* The record of what a window covers never outlives the window, whatever
\* faults happen (ncfg_daemon_arm_window, ncfg_confirm_keep,
\* ncfg_confirm_revert).
THEOREM RecordCorrect == Spec => []RecordBelongsToWindow
<1>1. Init => TypeInv /\ RecordInv
  <2>1. Init => armed = NoArmed
    BY Zenon DEF Init
  <2>. QED
    BY Zenon, <2>1, TypeInit DEF RecordInv, RecordBelongsToWindow
<1>2. TypeInv /\ RecordInv /\ [Next]_vars => (TypeInv /\ RecordInv)'
  BY Zenon, TypeStep, RecordStep
<1>3. TypeInv /\ RecordInv => RecordBelongsToWindow
  BY Zenon DEF RecordInv
<1>. QED
  BY <1>1, <1>2, <1>3, PTL DEF Spec

(***************************************************************************)
(* What a window reverts to                                                *)
(***************************************************************************)

\* The last-good file became unreadable.
Lost == "unreadable" \in Faults /\ lastGood = None

\* WindowKeepsItsTarget unless the file is lost, and the two facts it rests
\* on: a window is armed over no other and against the last-good file as it
\* is, and the places that write last-good are reached only with no window
\* open.
TargetInv ==
    /\ Open => window.good = lastGood \/ Lost
    /\ pc = "arm" => ~Open /\ (arming.good = lastGood \/ Lost)
    /\ pc \in {"establish", "reverted", "converge", "record"} => ~Open

\* No step changes last-good under a window, or arms one for another target.
LEMMA TargetStep ==
    ASSUME "startlock" \notin Faults, TypeInv, TargetInv, [Next]_vars
    PROVE  TargetInv'
<1>. USE DEF TargetInv, Lost, Open
<1>1. CASE Boot \/ ReloadRequest \/ EndRound
  BY Zenon, <1>1 DEF Boot, ReloadRequest, EndRound, Answering, disk
<1>2. CASE Rounds
  BY <1>2, Zenon DEF Rounds, Round, disk
<1>3. CASE ResolveAnyWindow \/ ResolveWindow \/ RevertRequest
  BY Zenon, <1>3, RevertControl
<1>4. CASE EstablishLastGood
  BY Zenon, <1>4 DEF EstablishLastGood
<1>13. CASE Converge
  BY Zenon, <1>13, ConvergeControl DEF disk
<1>5. CASE Pass
  BY Zenon, <1>5, PassControl DEF may_arm, disk
<1>6. CASE ApplyRequest
  BY Zenon, <1>6, ApplyControl DEF may_arm, disk
<1>7. CASE ConfirmRequest
  BY Zenon, <1>7 DEF ConfirmRequest, Answering, Refused, disk
<1>8. CASE ArmWindow
  <2>1. \/ window' = window
        \/ window' = [left |-> arming.seconds, good |-> arming.good]
    BY Zenon, <1>8 DEF ArmWindow, arm_failed
  <2>2. pc = "arm" /\ pc' = "settle" /\ lastGood' = lastGood
    BY Zenon, <1>8 DEF ArmWindow
  <2>. QED
    BY <2>1, <2>2
<1>9. CASE ClearWindow \/ RecordLastGood
  <2>1. cont # "arm"
    BY Zenon, TypeFacts DEF TypeInv, TypeOK
  <2>. QED
    BY Zenon, <1>9, <2>1 DEF ClearWindow, RecordLastGood
<1>10. CASE EditConfig \/ Drift \/ LoseLastGood \/ Crash
  BY Zenon, <1>10 DEF EditConfig, Drift, LoseLastGood, Crash, disk
<1>11. CASE Second \/ StepClock
  <2>1. CASE Open
    BY Zenon, <1>11, <2>1 DEF Second, StepClock, NoWindow, TypeInv, TypeOK, Windows
  <2>2. CASE ~Open
    BY <1>11, <2>2 DEF Second, StepClock, Less, NoWindow
  <2>. QED
    BY Zenon, <2>1, <2>2
<1>12. CASE UNCHANGED vars
  BY Zenon, <1>12 DEF vars
<1>. QED
  BY Zenon, <1>1, <1>2, <1>3, <1>4, <1>5, <1>6, <1>7, <1>8, <1>9, <1>10, <1>11, <1>12,
     <1>13
  DEF Next, Work

\* Where the machine can be reached at startup and the last-good file stays
\* readable, nothing replaces the document an open window reverts to
\* (settle_without_a_window, ncfg_confirm_may_arm, ncfg_reconcile_converge).
THEOREM TargetCorrect ==
    ASSUME "startlock" \notin Faults, "unreadable" \notin Faults
    PROVE  Spec => []WindowKeepsItsTarget
<1>1. Init => TypeInv /\ TargetInv
  BY TypeInit, Zenon DEF Init, TargetInv, Open
<1>2. TypeInv /\ TargetInv /\ [Next]_vars => (TypeInv /\ TargetInv)'
  BY Zenon, TypeStep, TargetStep
<1>3. TypeInv /\ TargetInv => WindowKeepsItsTarget
  BY Zenon DEF TargetInv, Lost, WindowKeepsItsTarget
<1>. QED
  BY <1>1, <1>2, <1>3, PTL DEF Spec

(***************************************************************************)
(* When a window expires                                                   *)
(***************************************************************************)

\* Every step that arms, ends or counts down a window does so to its timer.
LEMMA ExpiryStep ==
    ASSUME "step" \notin Faults, TypeInv, ExpiryIsScheduled, [Next]_vars
    PROVE  ExpiryIsScheduled'
<1>. USE DEF ExpiryIsScheduled, Open, clock
<1>1. CASE Boot \/ EstablishLastGood \/ RecordLastGood \/ ReloadRequest \/ EndRound
  BY Zenon, <1>1 DEF Boot, EstablishLastGood, RecordLastGood, ReloadRequest, EndRound,
              Answering, disk
<1>2. CASE Rounds
  BY <1>2, Zenon DEF Rounds, Round, disk
<1>3. CASE ResolveAnyWindow \/ ResolveWindow \/ RevertRequest
  BY <1>3, RevertControl DEF NoArmed
<1>4. CASE Converge
  BY Zenon, <1>4, ConvergeControl DEF disk
<1>5. CASE Pass
  BY Zenon, <1>5, PassControl DEF may_arm, disk
<1>6. CASE ApplyRequest
  BY Zenon, <1>6, ApplyControl DEF may_arm, disk, NoArmed
<1>7. CASE ConfirmRequest
  BY Zenon, <1>7 DEF ConfirmRequest, Answering, Refused, disk
<1>8. CASE ArmWindow
  BY <1>8 DEF ArmWindow, arm_failed, expiry, NoArmed
<1>9. CASE ClearWindow
  BY Zenon, <1>9 DEF ClearWindow
<1>10. CASE EditConfig \/ Drift \/ LoseLastGood \/ Crash
  BY <1>10 DEF EditConfig, Drift, LoseLastGood, Crash, disk, NoArmed
<1>11. CASE Second \/ StepClock
  <2>1. CASE Open
    BY Zenon, <1>11, <2>1 DEF Second, StepClock, NoWindow, TypeInv, TypeOK, Windows
  <2>2. CASE ~Open
    BY <1>11, <2>2 DEF Second, StepClock, Less, NoWindow
  <2>. QED
    BY Zenon, <2>1, <2>2
<1>12. CASE UNCHANGED vars
  BY Zenon, <1>12 DEF vars
<1>. QED
  BY Zenon, <1>1, <1>2, <1>3, <1>4, <1>5, <1>6, <1>7, <1>8, <1>9, <1>10, <1>11, <1>12
  DEF Next, Work

\* With a wall clock nobody steps, the monotonic timer of the loop always has
\* exactly what is left of the window this process armed
\* (ncfg_daemon_arm_window and the expiry timer of the loop).
THEOREM ExpiryCorrect ==
    ASSUME "step" \notin Faults
    PROVE  Spec => []ExpiryIsScheduled
<1>1. Init => TypeInv /\ ExpiryIsScheduled
  BY TypeInit, Zenon DEF Init, ExpiryIsScheduled, Open
<1>2. TypeInv /\ ExpiryIsScheduled /\ [Next]_vars => (TypeInv /\ ExpiryIsScheduled)'
  BY Zenon, TypeStep, ExpiryStep
<1>. QED
  BY <1>1, <1>2, PTL DEF Spec

(***************************************************************************)
(* What a revert rejects                                                   *)
(***************************************************************************)

\* The configuration the last revert went away from is still the one on disk,
\* is the one the daemon remembers as rejected, and is not desired.
RejectedInv ==
    disowned # None =>
        /\ pc # "down"
        /\ files = disowned
        /\ state.rejected = disowned
        /\ state.desired # disowned

\* The documents the state holds.
Held(st) == <<st.desired, st.rejected>>

\* Observing leaves alone what the daemon's state holds of documents.
LEMMA ObserveKeeps ==
    \A st \in States, m \in Machines, ok \in Observations :
        /\ Held(reobserve(st, m, ok)) = Held(st)
        /\ reobserve(st, m, ok) \in States
<1>. SUFFICES ASSUME NEW st \in States, NEW m \in Machines, NEW ok \in Observations
              PROVE  /\ Held(reobserve(st, m, ok)) = Held(st)
                     /\ reobserve(st, m, ok) \in States
  OBVIOUS
<1>1. ok \in BOOLEAN
  BY Zenon DEF Observations
<1>2. /\ reobserve(st, m, ok) \in States
      /\ reobserve(st, m, ok).desired = st.desired
      /\ reobserve(st, m, ok).rejected = st.rejected
  BY Zenon, <1>1, ReobserveType
<1>. QED
  BY Zenon, <1>2 DEF Held

\* A reload leaves the document it refuses out.
LEMMA ReloadRefuses ==
    ASSUME TypeOK, RejectedInv, disowned # None
    PROVE  state_reload(state) = state
<1>1. disowned \in Docs
  BY Zenon DEF TypeOK
<1>. QED
  BY Zenon, <1>1, ConstantsAssumption DEF state_reload, RejectedInv

\* A revert keeps RejectedInv: it rejects what it goes away from.
LEMMA RevertRejects ==
    ASSUME TypeOK, RejectedInv, NEW onDone, NEW onFail, onFail # "down",
           confirm_revert(onDone, onFail), files' = files
    PROVE  RejectedInv'
<1>1. CASE lastGood = None
  BY Zenon, <1>1 DEF confirm_revert, RejectedInv
<1>2. CASE lastGood # None
  <2>. DEFINE st == [state EXCEPT !.rejected = rejecting, !.desired = lastGood]
  <2>1. PICK undone \in apply_revert, ok \in Observations :
          state' = IF Undoable = {} THEN st ELSE reobserve(st, Undone(machine, undone), ok)
    BY Zenon, <1>2 DEF confirm_revert
  <2>2. st \in States /\ st.rejected = rejecting /\ st.desired = lastGood
    <3>1. rejecting \in Docs \cup {None}
      BY Zenon DEF TypeOK, States, Records, rejecting
    <3>. QED
      BY <1>2, <3>1, Zenon DEF TypeOK, States
  <2>. HIDE DEF st
  <2>3. state'.rejected = rejecting /\ state'.desired = lastGood
    <3>1. Held(state') = Held(st)
      BY Zenon, <2>1, <2>2, UndoneType, ObserveKeeps
    <3>. QED
      BY Zenon, <2>2, <3>1 DEF Held
  <2>4. disowned' = Disowning /\ pc' = "clear"
    BY Zenon, <1>2 DEF confirm_revert
  <2>. QED
    BY Zenon, <2>3, <2>4 DEF RejectedInv, Disowning
<1>. QED
  BY Zenon, <1>1, <1>2

\* No reload, request or pass adopts what was rejected, unless it was edited.
LEMMA RejectedStep ==
    ASSUME TypeInv, RejectedInv, [Next]_vars
    PROVE  RejectedInv'
<1>. USE DEF TypeInv
<1>0. state \in States /\ cont # "down" /\ machine \in Machines /\ machine' \in Machines
  <2>1. TypeOK'
    BY Zenon, TypeStep
  <2>. QED
    BY Zenon, <2>1, TypeFacts DEF TypeOK
<1>1. CASE Boot
  BY <1>1, Zenon DEF Boot, RejectedInv
<1>2. CASE Rounds
  BY <1>2, Zenon DEF Rounds, Round, RejectedInv
<1>3. CASE ResolveAnyWindow \/ ResolveWindow \/ RevertRequest
  <2>1. CASE \E onDone, onFail \in {"reverted", "establish", "pass", "settle"} :
               confirm_revert(onDone, onFail)
    BY Zenon, <1>3, <2>1, RevertRejects
    DEF ResolveAnyWindow, ResolveWindow, RevertRequest, Answering, outside
  <2>2. CASE UNCHANGED <<state, disowned, files>> /\ pc' # "down"
    BY Zenon, <2>2 DEF RejectedInv
  <2>. QED
    BY Zenon, <1>3, <2>1, <2>2
    DEF ResolveAnyWindow, ResolveWindow, RevertRequest, Answering, Refused, outside
<1>4. CASE EstablishLastGood \/ RecordLastGood \/ ConfirmRequest \/ EndRound \/ ArmWindow
  BY Zenon, <1>0, <1>4
  DEF EstablishLastGood, RecordLastGood, ConfirmRequest, EndRound, ArmWindow, Answering,
      Refused, outside, RejectedInv
<1>5. CASE Converge
  <2>1. pc' # "down" /\ files' = files /\ disowned' = disowned
    BY Zenon, <1>5, ConvergeControl DEF outside
  <2>2. Held(state') = Held(state)
    <3>1. PICK ok \in Observations :
            \/ state' \in {state, reobserve(state, machine, ok)}
            \/ \E ok2 \in Observations :
                 state' = reobserve(reobserve(state, machine, ok), machine', ok2)
      BY <1>5, Zenon DEF Converge
    <3>. QED
      BY <1>0, <3>1, ObserveKeeps
  <2>. QED
    BY Zenon, <2>1, <2>2 DEF Held, RejectedInv
<1>6. CASE Pass
  <2>1. pc' # "down" /\ files' = files /\ disowned' = disowned
    BY Zenon, <1>6, PassControl
  <2>2. CASE disowned # None
    <3>1. reloaded = state
      BY Zenon, <2>2, ReloadRefuses DEF reloaded
    <3>2. \A ok \in Observations :
            Held(looked(ok)) = Held(state) /\ looked(ok) \in States
      BY Zenon, <1>0, <3>1, ObserveKeeps DEF looked
    <3>3. PICK ok \in Observations :
            \/ state' = looked(ok)
            \/ \E ok2 \in Observations : state' = reobserve(looked(ok), machine', ok2)
      BY <1>6, Zenon DEF Pass, reconcile_drift
    <3>4. Held(state') = Held(state)
      BY <1>0, <3>2, <3>3, ObserveKeeps
    <3>. QED
      BY Zenon, <2>1, <3>4 DEF Held, RejectedInv
  <2>3. CASE disowned = None
    BY Zenon, <2>1, <2>3 DEF RejectedInv
  <2>. QED
    BY Zenon, <2>2, <2>3
<1>7. CASE ApplyRequest
  <2>1. pc' # "down" /\ files' = files /\ disowned' = disowned
    BY Zenon, <1>7, ApplyControl DEF outside
  <2>2. Held(state') = Held(state)
    <3>1. \/ state' = state
          \/ \E ok, ok2 \in Observations :
               \/ state' = reobserve(state, machine, ok)
               \/ state' = reobserve(reobserve(state, machine, ok), machine', ok2)
      BY <1>7, Zenon DEF ApplyRequest, Refused, apply_now
    <3>. QED
      BY <1>0, <3>1, ObserveKeeps
  <2>. QED
    BY Zenon, <2>1, <2>2 DEF Held, RejectedInv
<1>8. CASE ReloadRequest
  BY Zenon, <1>8, ReloadRefuses DEF ReloadRequest, Answering, outside, RejectedInv
<1>9. CASE ClearWindow
  <2>1. pc' # "down" /\ files' = files /\ disowned' = disowned
    BY Zenon, <1>0, <1>9 DEF ClearWindow, outside
  <2>2. Held(state') = Held(state)
    BY Zenon, <1>0, <1>9, ObserveKeeps DEF ClearWindow
  <2>. QED
    BY Zenon, <2>1, <2>2 DEF Held, RejectedInv
<1>10. CASE EditConfig \/ Crash
  BY Zenon, <1>10 DEF EditConfig, Crash, RejectedInv
<1>11. CASE Drift \/ LoseLastGood \/ Second \/ StepClock
  BY Zenon, <1>11 DEF Drift, LoseLastGood, Second, StepClock, RejectedInv
<1>12. CASE UNCHANGED vars
  BY Zenon, <1>12 DEF vars, RejectedInv
<1>. QED
  BY Zenon, <1>1, <1>2, <1>3, <1>4, <1>5, <1>6, <1>7, <1>8, <1>9, <1>10, <1>11, <1>12
  DEF Next, Work

\* The configuration a window covered and a revert went away from is not
\* desired again by the same process until it is edited, whatever reloads,
\* requests and faults come between (ncfg_daemon_state_reload).
THEOREM RejectedCorrect == Spec => []RejectedStaysOut
<1>1. Init => TypeInv /\ RejectedInv
  <2>1. Init => disowned = None
    BY Zenon DEF Init
  <2>. QED
    BY Zenon, <2>1, TypeInit DEF RejectedInv
<1>2. TypeInv /\ RejectedInv /\ [Next]_vars => (TypeInv /\ RejectedInv)'
  BY Zenon, TypeStep, RejectedStep
<1>3. TypeInv /\ RejectedInv => RejectedStaysOut
  BY Zenon DEF RejectedInv, RejectedStaysOut
<1>. QED
  BY <1>1, <1>2, <1>3, PTL DEF Spec

(***************************************************************************)
(* What last-good records                                                  *)
(***************************************************************************)

\* A plan that runs to its end takes the machine it was made for into the
\* document, and leaves what the document has no opinion of (ncfg_plan_build).
LEMMA PlanReaches ==
    ASSUME NEW d, NEW m
    PROVE  LET after == Applied(m, d, plan_build(d, m))
           IN  /\ InEffect(d, after)
               /\ \A i \in Items : Want[d][i] = Unset => after[i] = m[i]
<1>. DEFINE after == Applied(m, d, plan_build(d, m))
<1>1. \A i \in Items : after[i] = IF i \in plan_build(d, m) THEN Want[d][i] ELSE m[i]
  BY Zenon DEF Applied
<1>2. \A i \in Items : i \in plan_build(d, m) <=> Want[d][i] \notin {Unset, m[i]}
  BY Zenon DEF plan_build, Agrees
<1>. HIDE DEF after
<1>3. InEffect(d, after)
  BY <1>1, <1>2 DEF InEffect, Agrees
<1>4. \A i \in Items : Want[d][i] = Unset => after[i] = m[i]
  BY <1>1, <1>2
<1>. QED
  BY Zenon, <1>3, <1>4 DEF after

\* Where observing does not fail, it shows the machine as it is.
LEMMA ObserveExact ==
    ASSUME "observe" \notin Faults, NEW st \in States, NEW m, NEW ok \in Observations
    PROVE  /\ reobserve(st, m, ok).observed = m
           /\ reobserve(st, m, ok).desired = st.desired
<1>1. ok = TRUE
  BY Zenon DEF Observations
<1>. QED
  BY <1>1, Zenon DEF reobserve, States

\* The whole plan runs where no action fails.
LEMMA RunsWhole ==
    ASSUME "apply" \notin Faults, NEW plan
    PROVE  run_plan(plan) = {plan}
BY Zenon DEF run_plan

\* A document whose whole plan ran is one the machine has been in.
LEMMA DocumentReached ==
    ASSUME NEW d \in Docs, machine' = Applied(machine, d, plan_build(d, machine)),
           Reaching(machine')
    PROVE  d \in reached'
<1>1. InEffect(d, machine')
  BY Zenon, PlanReaches
<1>. QED
  BY Zenon, <1>1 DEF Reaching

\* Where the documents that ask for a window of their own let the loop put
\* everything right, a pass that goes on to arm one has reached its document
\* (reconcile_drift, ncfg_reconcile_restrict).
LEMMA PassReaches ==
    ASSUME "observe" \notin Faults, "apply" \notin Faults,
           "contended" \notin Faults,
           \A d \in Docs : ConfirmDefault[d] > 0 => Reconciles[d] = Items,
           TypeOK, Pass
    PROVE  /\ reached \subseteq reached'
           /\ \/ pc' = "settle" /\ armed' = armed
              \/ pc' = "arm" /\ ~Open /\ armed'.doc \in Docs /\ armed'.doc \in reached'
<1>0. hand_back({}) = machine /\ \A st : contended(st) = {}
  BY Zenon, HandBackType DEF TypeOK, contended
<1>1. PICK ok \in Observations : \E given \in SUBSET contended(looked(ok)) :
        \/ pc' = "settle" /\ UNCHANGED <<armed, arming>> /\ Reaching(machine')
        \/ reconciles(looked(ok)) /\ reconcile_drift(looked(ok), hand_back(given))
  BY Zenon DEF Pass
<1>2. CASE pc' = "settle" /\ UNCHANGED <<armed, arming>> /\ Reaching(machine')
  BY Zenon, <1>2 DEF Reaching
<1>3. CASE reconciles(looked(ok)) /\ reconcile_drift(looked(ok), machine)
  <2>. DEFINE st == looked(ok)
  <2>1. state_reload(state) \in States
    BY Zenon, ReloadType DEF TypeOK
  <2>2. reloaded \in States
    BY Zenon, <2>1 DEF reloaded, TypeOK
  <2>3. wake.look /\ drifted(st) # {}
    BY Zenon, <1>3 DEF reconciles
  <2>4. st = reobserve(reloaded, machine, ok)
    BY Zenon, <2>3 DEF looked
  <2>5. st.observed = machine /\ st.desired = reloaded.desired
    <3>1. /\ reobserve(reloaded, machine, ok).observed = machine
          /\ reobserve(reloaded, machine, ok).desired = reloaded.desired
      BY Zenon, <2>2, ObserveExact
    <3>. QED
      BY Zenon, <2>4, <3>1
  <2>6. st.desired \in Docs \cup {None}
    BY Zenon, <2>2, <2>5 DEF States
  <2>7. reconcile_drift(st, machine)
    BY Zenon, <1>3
  <2>. HIDE DEF st
  <2>8. /\ st.desired # None /\ st.observed # None
        /\ drifted(st) = plan_build(st.desired, machine) \cap Reconciles[st.desired]
    BY Zenon, <2>3, <2>5 DEF drifted, restrict
  <2>9. reached \subseteq reached'
    BY Zenon, <2>7 DEF reconcile_drift, Reaching
  <2>10. CASE decide_arming(st)
    <3>1. ConfirmDefault[st.desired] > 0 /\ ~Open
      BY Zenon, <2>10 DEF decide_arming, arms, may_arm
    <3>2. drifted(st) = plan_build(st.desired, machine)
      BY Zenon, <2>6, <2>8, <3>1 DEF plan_build
    <3>3. PICK done \in run_plan(drifted(st)) :
            /\ machine' = Applied(machine, st.desired, done)
            /\ armed' = armed_from(st.desired, st.observed, done)
      BY Zenon, <2>7, <2>10 DEF reconcile_drift
    <3>4. done = plan_build(st.desired, machine)
      BY ZenonT(30), <3>2, <3>3, RunsWhole
    <3>5. Reaching(machine') /\ pc' = "arm"
      BY Zenon, <2>7, <2>10 DEF reconcile_drift
    <3>6. st.desired \in reached'
      BY Zenon, <2>6, <2>8, <3>3, <3>4, <3>5, DocumentReached
    <3>7. armed'.doc = st.desired
      BY Zenon, <3>3 DEF armed_from
    <3>. QED
      BY Zenon, <2>6, <2>8, <2>9, <3>1, <3>5, <3>6, <3>7
  <2>11. CASE ~decide_arming(st)
    BY Zenon, <2>7, <2>9, <2>11 DEF reconcile_drift
  <2>. QED
    BY Zenon, <2>10, <2>11
<1>4. \A given \in SUBSET contended(looked(ok)) : hand_back(given) = machine
  <2>1. \A given \in SUBSET contended(looked(ok)) : given = {}
    BY <1>0
  <2>. QED
    BY Zenon, <1>0, <2>1
<1>. QED
  BY Zenon, <1>1, <1>2, <1>3, <1>4

\* An apply that touches the machine reaches the document it applies
\* (ncfg_daemon_apply_request).
LEMMA ApplyReaches ==
    ASSUME "observe" \notin Faults, "apply" \notin Faults, TypeOK, ApplyRequest
    PROVE  /\ reached \subseteq reached'
           /\ \/ pc' = "settle" /\ armed' = armed
              \/ pc' = "arm" /\ ~Open /\ armed'.doc \in Docs /\ armed'.doc \in reached'
              \/ pc' = "record" /\ ~Open /\ armed' = NoArmed /\ state'.desired \in reached'
<1>1. pc = "settle"
  BY Zenon DEF ApplyRequest, Answering
<1>2. CASE Refused
  BY Zenon, <1>1, <1>2 DEF Refused
<1>3. CASE ~Refused
  <2>1. ~refuses_apply(Head(reqs))
    BY <1>3, Zenon DEF ApplyRequest
  <2>2. PICK ok \in Observations :
          \/ UNCHANGED <<machine, armed, pc, cont, arming, reached>>
          \/ apply_now(reobserve(state, machine, ok), Head(reqs).seconds)
    BY <1>3, Zenon DEF ApplyRequest
  <2>3. CASE UNCHANGED <<machine, armed, pc, cont, arming, reached>>
    BY Zenon, <1>1, <2>3
  <2>4. CASE apply_now(reobserve(state, machine, ok), Head(reqs).seconds)
    <3>. DEFINE st == reobserve(state, machine, ok)
    <3>1. state \in States /\ machine \in Machines
      BY Zenon, <1>3 DEF TypeOK
    <3>2. st.observed = machine /\ st.desired = state.desired /\ st \in States
      BY Zenon, <3>1, ObserveExact, ObserveKeeps
    <3>3. state.desired \in Docs
      BY Zenon, <2>1, <3>1 DEF refuses_apply, States
    <3>4. apply_now(st, Head(reqs).seconds)
      BY Zenon, <2>4
    <3>. HIDE DEF st
    <3>5. PICK done \in run_plan(plan_build(st.desired, st.observed)), ok2 \in Observations :
            /\ machine' = Applied(machine, st.desired, done)
            /\ state' = reobserve(st, machine', ok2)
            /\ armed' = IF Head(reqs).seconds > 0
                        THEN armed_from(st.desired, st.observed, done)
                        ELSE IF settles THEN NoArmed ELSE armed
      BY Zenon, <3>4 DEF apply_now
    <3>6. done = plan_build(state.desired, machine)
      BY Zenon, <3>2, <3>5, RunsWhole
    <3>7. Reaching(machine')
      BY Zenon, <3>4 DEF apply_now
    <3>8. state.desired \in reached' /\ reached \subseteq reached'
      <4>1. machine' = Applied(machine, state.desired, plan_build(state.desired, machine))
        BY Zenon, <3>2, <3>5, <3>6
      <4>. QED
        BY Zenon, <3>3, <3>7, <4>1, DocumentReached DEF Reaching
    <3>9. state'.desired = state.desired
      <4>1. /\ reobserve(st, machine', ok2).observed = machine'
            /\ reobserve(st, machine', ok2).desired = st.desired
        BY ZenonT(30), <3>2, ObserveExact
      <4>. QED
        BY Zenon, <3>2, <3>5, <4>1
    <3>10. CASE Head(reqs).seconds > 0
      <4>1. armed'.doc = state.desired
        BY Zenon, <3>2, <3>5, <3>10 DEF armed_from
      <4>2. pc' = "arm" /\ ~Open
        BY Zenon, <2>1, <3>4, <3>10 DEF apply_now, refuses_apply, may_arm
      <4>. QED
        BY Zenon, <3>3, <3>8, <4>1, <4>2
    <3>11. CASE ~(Head(reqs).seconds > 0)
      BY Zenon, <1>1, <3>4, <3>5, <3>8, <3>9, <3>11 DEF apply_now, settles
    <3>. QED
      BY Zenon, <3>10, <3>11
  <2>. QED
    BY Zenon, <2>2, <2>3, <2>4
<1>. QED
  BY Zenon, <1>2, <1>3

\* A startup apply that worked has reached the document it records
\* (ncfg_reconcile_converge).
LEMMA ConvergeReaches ==
    ASSUME "observe" \notin Faults, "apply" \notin Faults, TypeOK, Converge
    PROVE  reached \subseteq reached' /\ (pc' = "record" => state'.desired \in reached')
<1>1. CASE UNCHANGED <<machine, cont, reached>> /\ pc' = "idle"
  BY Zenon, <1>1
<1>2. CASE ~(UNCHANGED <<machine, cont, reached>> /\ pc' = "idle")
  <2>1. PICK ok \in Observations :
          LET st == reobserve(state, machine, ok)
          IN  /\ state.desired # None
              /\ \E done \in run_plan(plan_build(st.desired, st.observed)),
                    ok2 \in Observations :
                   /\ machine' = Applied(machine, st.desired, done)
                   /\ state' = reobserve(st, machine', ok2)
              /\ Reaching(machine')
    BY Zenon, <1>2 DEF Converge
  <2>. DEFINE st == reobserve(state, machine, ok)
  <2>2. state \in States /\ machine \in Machines
    BY Zenon DEF TypeOK
  <2>3. st.observed = machine /\ st.desired = state.desired /\ st \in States
    BY Zenon, <2>2, ObserveExact, ObserveKeeps
  <2>4. PICK done \in run_plan(plan_build(st.desired, st.observed)), ok2 \in Observations :
          /\ machine' = Applied(machine, st.desired, done)
          /\ state' = reobserve(st, machine', ok2)
    BY Zenon, <2>1
  <2>. HIDE DEF st
  <2>5. done = plan_build(state.desired, machine)
    BY Zenon, <2>3, <2>4, RunsWhole
  <2>6. machine' = Applied(machine, state.desired, plan_build(state.desired, machine))
    BY Zenon, <2>3, <2>4, <2>5
  <2>7. state.desired \in Docs /\ Reaching(machine')
    BY Zenon, <2>1, <2>2 DEF States
  <2>8. state.desired \in reached'
    BY Zenon, <2>6, <2>7, DocumentReached
  <2>9. reobserve(st, machine', ok2).desired = st.desired
    BY ZenonT(30), <2>3, ObserveExact
  <2>. QED
    BY Zenon, <2>3, <2>4, <2>7, <2>8, <2>9 DEF Reaching
<1>. QED
  BY Zenon, <1>1, <1>2

\* LastGoodWasInEffect, and what it rests on: what is about to be recorded
\* was in effect, and so was what a window covers; and a window that requests
\* can be answered under has a record of what it covers.
GoodInv ==
    /\ LastGoodWasInEffect
    /\ pc = "record" => state.desired \in reached
    /\ armed.doc # None => armed.doc \in reached
    /\ pc = "arm" => armed.doc # None /\ ~Open
    /\ Open /\ pc \notin {"down", "boot", "clear"} => armed.doc # None

\* Startup goes on with no window open, or to the end of a revert
\* (resolve_any_window).
LEMMA BootControl ==
    ASSUME "startlock" \notin Faults, ResolveAnyWindow
    PROVE  /\ pc = "boot" /\ UNCHANGED lastGood /\ reached \subseteq reached'
           /\ armed' \in {armed, NoArmed}
           /\ pc' = "clear" \/ (pc' = "establish" /\ window' = NoWindow)
<1>1. CASE confirm_revert("reverted", "establish")
  BY Zenon, <1>1 DEF ResolveAnyWindow, confirm_revert, Reaching
<1>2. CASE ~confirm_revert("reverted", "establish")
  BY Zenon, <1>2 DEF ResolveAnyWindow, Open, disk
<1>. QED
  BY Zenon, <1>1, <1>2

\* A look at the window and a request to revert leave it alone, or close it,
\* or go on to the end of a revert.
LEMMA TakeBackControl ==
    ASSUME ResolveWindow \/ RevertRequest
    PROVE  /\ UNCHANGED lastGood /\ reached \subseteq reached'
           /\ pc' \in {"pass", "settle", "clear"} /\ pc \in {"resolve", "settle"}
           /\ \/ armed' = armed /\ window' = window
              \/ armed' = NoArmed /\ (pc' = "clear" \/ window' = NoWindow)
<1>1. ASSUME NEW onDone, NEW onFail, confirm_revert(onDone, onFail)
      PROVE  /\ UNCHANGED lastGood /\ reached \subseteq reached'
             /\ pc' \in {onFail, "clear"}
             /\ armed' = NoArmed /\ (pc' = "clear" \/ window' = NoWindow)
  BY <1>1, Zenon DEF confirm_revert, Reaching
<1>2. CASE ResolveWindow
  BY Zenon, <1>1, <1>2 DEF ResolveWindow, disk
<1>3. CASE RevertRequest
  BY Zenon, <1>1, <1>3 DEF RevertRequest, Refused, Answering, disk
<1>. QED
  BY Zenon, <1>2, <1>3

\* Every step that records last-good records what the machine was in.
LEMMA GoodStep ==
    ASSUME {"apply", "observe", "startlock", "contended"} \cap Faults = {},
           \A d \in Docs : ConfirmDefault[d] > 0 => Reconciles[d] = Items,
           TypeInv, GoodInv, [Next]_vars
    PROVE  GoodInv'
<1>. USE DEF TypeInv, GoodInv, LastGoodWasInEffect, Open
<1>0. /\ "apply" \notin Faults /\ "observe" \notin Faults /\ "startlock" \notin Faults
      /\ "contended" \notin Faults /\ NoArmed.doc = None
  BY Zenon DEF NoArmed
<1>1. CASE Boot \/ EndRound
  BY Zenon, <1>1 DEF Boot, EndRound, disk
<1>2. CASE Rounds
  BY <1>2, Zenon DEF Rounds, Round, disk
<1>3. CASE ResolveAnyWindow
  BY Zenon, <1>0, <1>3, BootControl
<1>4. CASE ResolveWindow \/ RevertRequest
  BY Zenon, <1>0, <1>4, TakeBackControl
<1>5. CASE EstablishLastGood
  BY Zenon, <1>5 DEF EstablishLastGood
<1>6. CASE Converge
  <2>1. /\ pc = "converge" /\ pc' \in {"idle", "record"}
        /\ UNCHANGED <<lastGood, window, armed>>
    BY Zenon, <1>6, ConvergeControl DEF disk
  <2>2. reached \subseteq reached' /\ (pc' = "record" => state'.desired \in reached')
    BY <1>0, <1>6, ConvergeReaches
  <2>. QED
    BY Zenon, <2>1, <2>2
<1>7. CASE Pass
  <2>1. pc = "pass" /\ UNCHANGED <<lastGood, window>>
    BY Zenon, <1>7, PassControl DEF disk
  <2>2. /\ reached \subseteq reached'
        /\ \/ pc' = "settle" /\ armed' = armed
           \/ pc' = "arm" /\ ~Open /\ armed'.doc \in Docs /\ armed'.doc \in reached'
    BY Zenon, <1>0, <1>7, PassReaches
  <2>. QED
    BY Zenon, <2>1, <2>2, ConstantsAssumption
<1>8. CASE ApplyRequest
  <2>1. pc = "settle" /\ UNCHANGED <<lastGood, window>>
    BY Zenon, <1>8, ApplyControl DEF disk
  <2>2. /\ reached \subseteq reached'
        /\ \/ pc' = "settle" /\ armed' = armed
           \/ pc' = "arm" /\ ~Open /\ armed'.doc \in Docs /\ armed'.doc \in reached'
           \/ pc' = "record" /\ ~Open /\ armed' = NoArmed /\ state'.desired \in reached'
    BY Zenon, <1>0, <1>8, ApplyReaches
  <2>. QED
    BY Zenon, <1>0, <2>1, <2>2, ConstantsAssumption
<1>9. CASE ConfirmRequest
  <2>1. pc = "settle" /\ UNCHANGED <<lastGood, state, reached>>
    BY Zenon, <1>9 DEF ConfirmRequest, Answering, Refused, disk
  <2>2. CASE UNCHANGED <<window, armed, pc>>
    BY Zenon, <2>1, <2>2
  <2>3. CASE ~UNCHANGED <<window, armed, pc>>
    <3>1. /\ Open /\ window' = NoWindow /\ armed' = NoArmed
          /\ pc' = "settle" \/ (pc' = "record" /\ covered)
      BY Zenon, <1>9, <2>1, <2>3 DEF ConfirmRequest, Refused, disk
    <3>2. covered => state.desired \in reached
      BY Zenon, <2>1, <3>1 DEF covered
    <3>. QED
      BY Zenon, <1>0, <2>1, <3>1, <3>2
  <2>. QED
    BY Zenon, <2>2, <2>3
<1>10. CASE ReloadRequest
  BY Zenon, <1>10 DEF ReloadRequest, Answering, disk
<1>11. CASE ArmWindow
  BY Zenon, <1>0, <1>11 DEF ArmWindow, arm_failed
<1>12. CASE ClearWindow \/ RecordLastGood
  <2>1. cont \notin {"arm", "record"}
    BY Zenon, TypeFacts DEF TypeOK
  <2>2. CASE ClearWindow
    BY Zenon, <2>1, <2>2 DEF ClearWindow
  <2>3. CASE RecordLastGood
    BY Zenon, <2>1, <2>3 DEF RecordLastGood
  <2>. QED
    BY Zenon, <1>12, <2>2, <2>3
<1>13. CASE EditConfig \/ Drift \/ LoseLastGood \/ Crash
  BY Zenon, <1>0, <1>13 DEF EditConfig, Drift, LoseLastGood, Crash, Reaching, disk
<1>14. CASE Second \/ StepClock
  <2>1. UNCHANGED <<lastGood, state, reached, armed, pc>>
    BY Zenon, <1>14 DEF Second, StepClock
  <2>2. Open' => Open
    BY <1>14 DEF Second, StepClock, Less, NoWindow
  <2>. QED
    BY Zenon, <2>1, <2>2
<1>15. CASE UNCHANGED vars
  BY Zenon, <1>15 DEF vars
<1>. QED
  BY Zenon, <1>1, <1>2, <1>3, <1>4, <1>5, <1>6, <1>7, <1>8, <1>9, <1>10, <1>11, <1>12,
     <1>13, <1>14, <1>15
  DEF Next, Work

\* Where no action and no observation fails, no backend is given up to another
\* manager, a window found at startup can be taken back, and a document that asks for a window of its own leaves nothing
\* of itself out of the loop's reach, last-good only ever names a document
\* that was in effect, whatever is edited, reloaded, confirmed, lost or
\* crashed, and whoever else changes the machine (what_the_window_covered).
THEOREM LastGoodCorrect ==
    ASSUME {"apply", "observe", "startlock", "contended"} \cap Faults = {},
           \A d \in Docs : ConfirmDefault[d] > 0 => Reconciles[d] = Items
    PROVE  Spec => []LastGoodWasInEffect
<1>1. Init => TypeInv /\ GoodInv
  <2>1. Init => TypeInv
    BY TypeInit
  <2>2. NoArmed.doc = None
    BY DEF NoArmed
  <2>. QED
    BY Zenon, <2>1, <2>2 DEF Init, GoodInv, LastGoodWasInEffect, Open
<1>2. TypeInv /\ GoodInv /\ [Next]_vars => (TypeInv /\ GoodInv)'
  BY Zenon, TypeStep, GoodStep
<1>3. TypeInv /\ GoodInv => LastGoodWasInEffect
  BY Zenon DEF GoodInv
<1>. QED
  BY <1>1, <1>2, <1>3, PTL DEF Spec

(***************************************************************************)
(* What a revert restores                                                  *)
(***************************************************************************)

\* On a machine nobody else changes, the daemon's picture of it is exact
\* wherever a revert can start.
SeenInv == pc \notin {"down", "clear"} => state.observed = machine

\* Nobody else changes the machine.
LEMMA NoDrift ==
    ASSUME MaxDrift = 0, TypeOK
    PROVE  ~Drift
<1>1. budget.drift \in 0 .. MaxDrift
  BY Zenon DEF TypeOK, Budgets
<1>2. ~(budget.drift > 0)
  BY <1>1
<1>. QED
  BY Zenon, <1>2 DEF Drift

\* And nobody else claims a part of it.
LEMMA NothingGiven ==
    ASSUME MaxDrift = 0, TypeOK, NEW st, NEW given \in SUBSET contended(st)
    PROVE  given = {} /\ hand_back(given) = machine
<1>1. budget.drift \in 0 .. MaxDrift
  BY Zenon DEF TypeOK, Budgets
<1>2. ~(budget.drift > 0)
  BY <1>1
<1>3. contended(st) = {}
  BY Zenon, <1>2 DEF contended
<1>4. given = {}
  BY <1>3
<1>. QED
  BY Zenon, <1>4, HandBackType DEF TypeOK

\* A reload leaves the picture of the machine alone.
LEMMA ReloadSees ==
    ASSUME NEW st \in States
    PROVE  state_reload(st).observed = st.observed
BY Zenon DEF state_reload, States

\* Whatever changes the machine looks at it again afterwards.
LEMMA SeenStep ==
    ASSUME "observe" \notin Faults, MaxDrift = 0, TypeInv, SeenInv, [Next]_vars
    PROVE  SeenInv'
<1>. USE DEF TypeInv, SeenInv
<1>0. /\ state \in States /\ machine \in Machines /\ machine' \in Machines
      /\ state_reload(state) \in States /\ state_reload(Blank) \in States
  <2>1. TypeOK'
    BY Zenon, TypeStep
  <2>. QED
    BY Zenon, <2>1, ReloadType, TypeFacts DEF TypeOK
<1>1. CASE Boot
  <2>1. PICK ok \in Observations :
          state' = reobserve(state_reload(Blank), machine, ok) /\ machine' = machine
    BY Zenon, <1>1 DEF Boot
  <2>2. reobserve(state_reload(Blank), machine, ok).observed = machine
    BY Zenon, <1>0, ObserveExact
  <2>. QED
    BY Zenon, <2>1, <2>2
<1>2. CASE Rounds
  BY <1>2, Zenon DEF Rounds, Round
<1>3. CASE ResolveAnyWindow \/ ResolveWindow \/ RevertRequest
  <2>1. pc \in {"boot", "resolve", "settle"}
    BY Zenon, <1>3, RevertControl
  <2>2. UNCHANGED <<state, machine>> \/ pc' = "clear"
    BY Zenon, <1>3
    DEF ResolveAnyWindow, ResolveWindow, RevertRequest, Refused, confirm_revert
  <2>. QED
    BY Zenon, <2>1, <2>2
<1>4. CASE EstablishLastGood \/ RecordLastGood \/ ConfirmRequest \/ EndRound \/ ArmWindow
  BY Zenon, <1>4
  DEF EstablishLastGood, RecordLastGood, ConfirmRequest, EndRound, ArmWindow, Answering,
      Refused
<1>5. CASE Converge
  <2>1. PICK ok \in Observations, ok2 \in Observations :
          \/ UNCHANGED <<state, machine>>
          \/ state' = reobserve(state, machine, ok) /\ machine' = machine
          \/ state' = reobserve(reobserve(state, machine, ok), machine', ok2)
    BY <1>5, Zenon DEF Converge
  <2>2. reobserve(state, machine, ok) \in States
    BY Zenon, <1>0, ObserveKeeps
  <2>3. reobserve(state, machine, ok).observed = machine
    BY Zenon, <1>0, ObserveExact
  <2>4. reobserve(reobserve(state, machine, ok), machine', ok2).observed = machine'
    BY Zenon, <2>2, ObserveExact
  <2>5. pc = "converge"
    BY Zenon, <1>5 DEF Converge
  <2>. QED
    BY Zenon, <2>1, <2>3, <2>4, <2>5
<1>6. CASE Pass
  <2>1. PICK ok \in Observations, ok2 \in Observations :
          \/ state' = looked(ok) /\ machine' = machine
          \/ state' = reobserve(looked(ok), machine', ok2)
    <3>1. PICK ok \in Observations : \E given \in SUBSET contended(looked(ok)) :
            \/ state' = looked(ok) /\ machine' = hand_back(given)
            \/ \E ok2 \in Observations : state' = reobserve(looked(ok), machine', ok2)
      BY Zenon, <1>6 DEF Pass, reconcile_drift
    <3>. QED
      BY Zenon, <3>1, NothingGiven
  <2>2. reloaded \in States /\ reloaded.observed = machine
    <3>1. state.observed = machine
      BY Zenon, <1>6 DEF Pass
    <3>. QED
      BY Zenon, <1>0, <3>1, ReloadSees DEF reloaded
  <2>3. /\ reobserve(reloaded, machine, ok) \in States
        /\ reobserve(reloaded, machine, ok).observed = machine
    <3>1. reobserve(reloaded, machine, ok) \in States
      BY Zenon, <1>0, <2>2, ObserveKeeps
    <3>2. reobserve(reloaded, machine, ok).observed = machine
      BY Zenon, <2>2, ObserveExact
    <3>. QED
      BY Zenon, <3>1, <3>2
  <2>4. looked(ok) \in States /\ looked(ok).observed = machine
    BY Zenon, <2>2, <2>3 DEF looked
  <2>5. reobserve(looked(ok), machine', ok2).observed = machine'
    BY Zenon, <2>4, ObserveExact
  <2>. QED
    BY Zenon, <2>1, <2>4, <2>5
<1>7. CASE ApplyRequest
  <2>1. \/ UNCHANGED <<state, machine>>
        \/ \E ok, ok2 \in Observations :
             \/ state' = reobserve(state, machine, ok) /\ machine' = machine
             \/ state' = reobserve(reobserve(state, machine, ok), machine', ok2)
    BY <1>7, Zenon DEF ApplyRequest, Refused, apply_now
  <2>2. ASSUME NEW ok \in Observations, NEW ok2 \in Observations
        PROVE  /\ reobserve(state, machine, ok).observed = machine
               /\ reobserve(reobserve(state, machine, ok), machine', ok2).observed = machine'
    <3>1. reobserve(state, machine, ok) \in States
      BY Zenon, <1>0, ObserveKeeps
    <3>. QED
      BY ZenonT(30), <1>0, <3>1, ObserveExact
  <2>3. pc = "settle"
    BY Zenon, <1>7 DEF ApplyRequest, Answering
  <2>. QED
    BY Zenon, <2>1, <2>2, <2>3
<1>8. CASE ReloadRequest
  BY Zenon, <1>0, <1>8, ReloadSees DEF ReloadRequest, Answering
<1>9. CASE ClearWindow
  <2>1. PICK ok \in Observations : state' = reobserve(state, machine, ok) /\ machine' = machine
    BY Zenon, <1>9 DEF ClearWindow
  <2>2. reobserve(state, machine, ok).observed = machine
    BY Zenon, <1>0, ObserveExact
  <2>. QED
    BY Zenon, <2>1, <2>2
<1>10. CASE EditConfig \/ LoseLastGood \/ Second \/ StepClock \/ Crash
  BY Zenon, <1>10 DEF EditConfig, LoseLastGood, Second, StepClock, Crash
<1>11. CASE Drift
  BY Zenon, <1>11, NoDrift
<1>12. CASE UNCHANGED vars
  BY Zenon, <1>12 DEF vars
<1>. QED
  BY Zenon, <1>1, <1>2, <1>3, <1>4, <1>5, <1>6, <1>7, <1>8, <1>9, <1>10, <1>11, <1>12
  DEF Next, Work

\* The revert itself: the inverses put the items back, the plan made from what
\* is then on the machine puts the rest where last-good wants it.
LEMMA RevertLeaves ==
    ASSUME "apply" \notin Faults, "observe" \notin Faults, TypeOK,
           state.observed = machine, lastGood # None,
           NEW onDone, NEW onFail, confirm_revert(onDone, onFail)
    PROVE  /\ InEffect(lastGood, machine')
           /\ \A i \in Undoable :
                Want[lastGood][i] = Unset => machine'[i] = armed.undo[i]
<1>. DEFINE m  == Undone(machine, Undoable)
            st == [state EXCEPT !.rejected = rejecting, !.desired = lastGood]
<1>1. /\ state \in States /\ st \in States /\ st.observed = machine
      /\ machine \in Machines
  <2>1. rejecting \in Docs \cup {None}
    BY Zenon DEF TypeOK, States, Records, rejecting
  <2>2. lastGood \in Docs
    BY Zenon DEF TypeOK
  <2>. QED
    BY <2>1, <2>2, Zenon DEF TypeOK, States
<1>2. apply_revert = {Undoable}
  BY Zenon DEF apply_revert
<1>3. m \in Machines
  BY Zenon, <1>2, UndoneType
<1>4. m = machine \/ Undoable # {}
  <2>1. SUFFICES ASSUME Undoable = {} PROVE m = machine
    BY Zenon
  <2>2. m = [i \in Items |-> machine[i]]
    BY Zenon, <2>1 DEF Undone
  <2>. QED
    BY Zenon, <1>1, <2>2 DEF Machines
<1>5. \A i \in Undoable : i \in Items /\ m[i] = armed.undo[i]
  BY Zenon DEF Undone, Undoable
<1>6. PICK ok \in Observations :
        LET s2 == IF Undoable = {} THEN st ELSE reobserve(st, m, ok)
        IN  \/ s2.observed = None /\ machine' = m
            \/ \E done \in run_plan(plan_build(lastGood, s2.observed)) :
                 machine' = Applied(m, lastGood, done)
  BY Zenon, <1>2 DEF confirm_revert
<1>. HIDE DEF m, st
<1>7. reobserve(st, m, ok).observed = m
  BY Zenon, <1>1, <1>3, ObserveExact
<1>. DEFINE s2 == IF Undoable = {} THEN st ELSE reobserve(st, m, ok)
<1>8. s2.observed = m
  BY Zenon, <1>1, <1>4, <1>7
<1>9. \/ s2.observed = None /\ machine' = m
      \/ \E done \in run_plan(plan_build(lastGood, s2.observed)) :
           machine' = Applied(m, lastGood, done)
  BY Zenon, <1>6
<1>. HIDE DEF s2
<1>10. m # None
  BY Zenon, <1>3, ConstantsAssumption DEF Machines
<1>11. machine' = Applied(m, lastGood, plan_build(lastGood, m))
  BY Zenon, <1>8, <1>9, <1>10, RunsWhole
<1>12. /\ InEffect(lastGood, machine')
       /\ \A i \in Items : Want[lastGood][i] = Unset => machine'[i] = m[i]
  BY ZenonT(30), <1>11, PlanReaches
<1>. QED
  BY Zenon, <1>5, <1>12

\* The end of a revert is reached from a revert that had somewhere to go.
LEMMA ReachesClear ==
    ASSUME TypeOK, Next, pc # "clear", pc' = "clear"
    PROVE  /\ pc \in {"boot", "resolve", "settle"} /\ lastGood # None
           /\ \E onDone, onFail \in {"reverted", "establish", "pass", "settle"} :
                confirm_revert(onDone, onFail)
<1>0. cont # "clear"
  BY Zenon, TypeFacts DEF TypeOK
<1>1. ASSUME NEW onDone, NEW onFail \in {"establish", "pass", "settle"},
             confirm_revert(onDone, onFail)
      PROVE  lastGood # None
  BY Zenon, <1>1 DEF confirm_revert
<1>2. CASE ResolveAnyWindow
  BY Zenon, <1>1, <1>2 DEF ResolveAnyWindow
<1>3. CASE ResolveWindow
  BY Zenon, <1>1, <1>3 DEF ResolveWindow
<1>4. CASE RevertRequest
  BY Zenon, <1>1, <1>4 DEF RevertRequest, Answering, Refused
<1>5. CASE Boot \/ Rounds \/ EditConfig \/ Drift \/ Second \/ StepClock \/ LoseLastGood
                \/ Crash
  BY Zenon, <1>5
  DEF Boot, Rounds, Round, EditConfig, Drift, Second, StepClock, LoseLastGood, Crash
<1>6. CASE EstablishLastGood \/ ConfirmRequest \/ ReloadRequest \/ EndRound \/ ArmWindow
  BY Zenon, <1>6
  DEF EstablishLastGood, ConfirmRequest, ReloadRequest, EndRound, ArmWindow, Answering,
      Refused
<1>7. CASE ClearWindow \/ RecordLastGood
  BY Zenon, <1>0, <1>7 DEF ClearWindow, RecordLastGood
<1>8. CASE Converge
  BY Zenon, <1>8, ConvergeControl
<1>9. CASE Pass
  BY Zenon, <1>9, PassControl
<1>10. CASE ApplyRequest
  BY Zenon, <1>10, ApplyControl
<1>. QED
  BY Zenon, <1>2, <1>3, <1>4, <1>5, <1>6, <1>7, <1>8, <1>9, <1>10 DEF Next, Work

\* Where no action and no observation fails, nobody else changes the machine
\* and a window found at startup can be taken back, every revert (at startup,
\* at the deadline, on request) ends with the machine in the document the
\* window was armed against, and with what the window changed put back where
\* that document has no opinion, whatever is edited, crashed or lost on disk
\* (ncfg_confirm_revert).
THEOREM RevertCorrect ==
    ASSUME {"apply", "observe", "startlock"} \cap Faults = {}, MaxDrift = 0
    PROVE  Spec => RevertRestores
<1>0. "apply" \notin Faults /\ "observe" \notin Faults /\ "startlock" \notin Faults
  BY Zenon
<1>. DEFINE Inv  == TypeInv /\ TargetInv /\ SeenInv
            Step == pc # "clear" /\ pc' = "clear" =>
                      /\ InEffect(window.good, machine')
                      /\ \A i \in Undoable :
                           Want[window.good][i] = Unset => machine'[i] = armed.undo[i]
<1>1. Init => Inv
  BY TypeInit, Zenon DEF Init, TargetInv, Open, SeenInv
<1>2. Inv /\ [Next]_vars => Inv'
  BY Zenon, <1>0, TypeStep, TargetStep, SeenStep
<1>3. ASSUME Inv, Next PROVE Step
  <2>1. SUFFICES ASSUME pc # "clear", pc' = "clear"
                 PROVE  /\ InEffect(window.good, machine')
                        /\ \A i \in Undoable :
                             Want[window.good][i] = Unset => machine'[i] = armed.undo[i]
    BY Zenon
  <2>2. TypeOK
    BY Zenon, <1>3 DEF TypeInv
  <2>3. pc \in {"boot", "resolve", "settle"} /\ lastGood # None
    BY Zenon, <1>3, <2>1, <2>2, ReachesClear
  <2>4. PICK onDone, onFail : confirm_revert(onDone, onFail)
    BY Zenon, <1>3, <2>1, <2>2, ReachesClear
  <2>5. window.good = lastGood
    BY Zenon, <1>3, <2>3, <2>4 DEF confirm_revert, TargetInv, Lost
  <2>6. state.observed = machine
    BY Zenon, <1>3, <2>3 DEF SeenInv
  <2>7. /\ InEffect(lastGood, machine')
        /\ \A i \in Undoable :
             Want[lastGood][i] = Unset => machine'[i] = armed.undo[i]
    BY Zenon, <1>0, <2>2, <2>3, <2>4, <2>6, RevertLeaves
  <2>. QED
    BY Zenon, <2>5, <2>7
<1>4. Inv /\ [Next]_vars => [Step]_vars
  BY Zenon, <1>3
<1>. QED
  BY <1>1, <1>2, <1>4, PTL DEF Spec, RevertRestores

(***************************************************************************)
(* The promise of commit-confirm                                           *)
(***************************************************************************)

\* A machine that stays where it is agrees with the same documents.
LEMMA NothingMoves ==
    UNCHANGED machine =>
      {d \in Docs : InEffect(d, machine)}' = {d \in Docs : InEffect(d, machine)}
BY Zenon DEF InEffect

\* A step that leaves the machine, last-good and the window's target alone,
\* and neither starts nor ends a revert, is no step of the promise.
LEMMA NothingPromised ==
    ASSUME UNCHANGED <<machine, reached, lastGood>>, window'.good = window.good,
           pc = "clear" <=> pc' = "clear"
    PROVE  UNCHANGED Promise!promised
<1>1. (pc = "clear")' = (pc = "clear")
  BY Zenon
<1>. QED
  BY Zenon, <1>1, NothingMoves DEF Promise!promised

\* What the history of the machine says after a step that moved it.
LEMMA MovesOn == Reaching(machine') => Promise!Moves
BY Zenon DEF Reaching, Promise!Moves, InEffect

\* A step that moves the machine with no window open, or for a request to
\* apply, outside a revert; or somebody else does.
LEMMA ChangeIsPromised ==
    ASSUME Reaching(machine'), UNCHANGED <<window, lastGood>>, pc = "clear" <=> pc' = "clear",
           Alone => pc # "clear" /\ (window.good = None \/ acts_on = "apply")
    PROVE  Promise!Change
BY Zenon, MovesOn DEF Promise!Change

\* What a window goes back to is a document, and None says there is no window.
LEMMA PendingIsOpen ==
    ASSUME TypeOK
    PROVE  /\ Open <=> window.good # None
           /\ Open => window.good \in Docs
<1>1. NoWindow.good = None
  BY DEF NoWindow
<1>2. ASSUME Open PROVE window.good \in Docs
  BY Zenon, <1>2 DEF TypeOK, Open, Windows
<1>. QED
  BY Zenon, <1>1, <1>2, ConstantsAssumption DEF Open

\* What a revert acts on, for each of the three that run one.
LEMMA RevertActsOn ==
    /\ ResolveAnyWindow => acts_on = "restart"
    /\ ResolveWindow /\ Expired => acts_on = "expired"
    /\ RevertRequest => acts_on = "revert"
<1>1. ResolveAnyWindow => acts_on = "restart"
  BY Zenon DEF ResolveAnyWindow, acts_on
<1>2. ResolveWindow /\ Expired => acts_on = "expired"
  BY Zenon DEF ResolveWindow, Expired, acts_on
<1>3. RevertRequest => acts_on = "revert"
  <2>1. SUFFICES ASSUME RevertRequest PROVE acts_on = "revert"
    BY Zenon
  <2>2. pc = "settle" /\ reqs # <<>> /\ Head(reqs).kind = "revert"
    BY Zenon, <2>1 DEF RevertRequest, Answering
  <2>. QED
    BY Zenon, <2>2 DEF acts_on
<1>. QED
  BY Zenon, <1>1, <1>2, <1>3

\* A revert takes the window back, or abandons one with nothing to go back to.
LEMMA RevertIsPromised ==
    ASSUME TypeOK, TargetInv, Works /\ Alone => SeenInv,
           acts_on \in {"revert", "expired", "restart"}, pc \notin {"down", "clear"},
           NEW onDone, NEW onFail, onFail # "clear", confirm_revert(onDone, onFail)
    PROVE  Promise!Abandon \/ Promise!TakeBack
<1>1. /\ window.good \in Docs /\ window.good # None /\ UNCHANGED lastGood
      /\ lastGood = None \/ window.good = lastGood
  BY Zenon, PendingIsOpen DEF confirm_revert, TargetInv, Lost
<1>2. Promise!GoesBack
  BY Zenon, <1>1 DEF Promise!GoesBack
<1>3. CASE lastGood = None
  <2>1. window'.good = None
    BY <1>3 DEF confirm_revert, NoWindow
  <2>2. UNCHANGED <<machine, reached>> /\ pc' # "clear"
    BY Zenon, <1>3 DEF confirm_revert
  <2>. QED
    BY Zenon, <1>1, <1>2, <1>3, <2>1, <2>2, NothingMoves DEF Promise!Abandon
<1>4. CASE lastGood # None
  <2>1. Reaching(machine') /\ UNCHANGED window /\ pc' = "clear"
    BY Zenon, <1>4 DEF confirm_revert
  <2>2. Works /\ Alone => InEffect(lastGood, machine')
    BY Zenon, <1>4, RevertLeaves DEF SeenInv, Works
  <2>. QED
    BY Zenon, <1>1, <1>2, <1>4, <2>1, <2>2, MovesOn DEF Promise!TakeBack
<1>. QED
  BY Zenon, <1>3, <1>4

\* A pass that moves the machine has found no window open, unless somebody
\* else claims a part of it (reconcile_drift, ncfg_reconcile_defers).
LEMMA PassMoves ==
    ASSUME TypeOK, Pass
    PROVE  Reaching(machine') /\ (Alone /\ Open => machine' = machine)
<1>1. ASSUME NEW st, NEW m, reconcile_drift(st, m), reconciles(st)
      PROVE  Reaching(machine') /\ ~Open
  BY Zenon, <1>1 DEF reconcile_drift, reconciles, defers
<1>2. PICK ok \in Observations : \E given \in SUBSET contended(looked(ok)) :
        \/ machine' = hand_back(given) /\ Reaching(machine')
        \/ Reaching(machine') /\ ~Open
  BY Zenon, <1>1 DEF Pass
<1>. QED
  BY Zenon, <1>2, NothingGiven DEF Alone

\* A startup apply moves the machine, or does nothing.
LEMMA ConvergeMoves ==
    ASSUME Converge
    PROVE  UNCHANGED <<machine, reached>> \/ Reaching(machine')
BY Zenon DEF Converge

\* Under a window the machine is moved by an apply that may be taken back, not
\* by one told to stand (ncfg_daemon_apply_request).
LEMMA ApplyMoves ==
    ASSUME TypeOK, ApplyRequest
    PROVE  \/ UNCHANGED <<machine, reached>>
           \/ Reaching(machine') /\ (~Open \/ acts_on = "apply")
<1>1. CASE Refused
  BY Zenon, <1>1 DEF Refused
<1>2. CASE ~Refused
  <2>1. /\ pc = "settle" /\ reqs # <<>> /\ Head(reqs).kind \in {"apply", "stand"}
        /\ ~refuses_apply(Head(reqs))
    BY Zenon, <1>2 DEF ApplyRequest, Answering
  <2>2. Head(reqs).kind = "stand" => ~Open
    BY Zenon, <2>1 DEF refuses_apply
  <2>3. Head(reqs).kind = "apply" => acts_on = "apply"
    BY Zenon, <2>1 DEF acts_on
  <2>4. UNCHANGED <<machine, reached>> \/ Reaching(machine')
    BY Zenon, <1>2 DEF ApplyRequest, apply_now
  <2>. QED
    BY Zenon, <2>1, <2>2, <2>3, <2>4
<1>. QED
  BY Zenon, <1>1, <1>2

\* What is about to be recorded is a document, under every fault.
RecordsInv == pc = "record" => state.desired # None

\* Every step that goes on to record last-good has a document to record.
LEMMA RecordsStep ==
    ASSUME TypeInv, TypeInv', RecordsInv, [Next]_vars
    PROVE  RecordsInv'
<1>0. /\ state \in States /\ machine \in Machines /\ machine' \in Machines /\ cont # "record"
  BY Zenon, TypeFacts DEF TypeInv, TypeOK
<1>a. ASSUME NEW st \in States, st.desired # None, NEW ok \in Observations,
             state' = reobserve(st, machine', ok)
      PROVE  state'.desired # None
  <2>1. Held(reobserve(st, machine', ok)) = Held(st)
    BY Zenon, <1>0, <1>a, ObserveKeeps
  <2>. QED
    BY Zenon, <1>a, <2>1 DEF Held
<1>b. ASSUME NEW ok \in Observations, state.desired # None
      PROVE  reobserve(state, machine, ok) \in States /\ reobserve(state, machine, ok).desired # None
  <2>1. /\ Held(reobserve(state, machine, ok)) = Held(state)
        /\ reobserve(state, machine, ok) \in States
    BY Zenon, <1>0, <1>b, ObserveKeeps
  <2>. QED
    BY Zenon, <1>b, <2>1 DEF Held
<1>1. SUFFICES ASSUME pc' = "record", Next PROVE state'.desired # None
  BY Zenon DEF RecordsInv, vars
<1>2. CASE ApplyRequest
  <2>1. CASE Refused
    BY Zenon, <1>1, <2>1, <1>2, ApplyControl DEF Refused, RecordsInv, ApplyRequest, Answering
  <2>2. CASE ~Refused
    <3>1. state.desired # None /\ pc = "settle"
      BY Zenon, <1>2, <2>2 DEF ApplyRequest, Answering, refuses_apply
    <3>2. PICK ok \in Observations : apply_now(reobserve(state, machine, ok), Head(reqs).seconds)
      BY Zenon, <1>1, <1>2, <2>2, <3>1 DEF ApplyRequest
    <3>3. PICK ok2 \in Observations :
            state' = reobserve(reobserve(state, machine, ok), machine', ok2)
      BY Zenon, <3>2 DEF apply_now
    <3>. QED
      BY Zenon, <1>a, <1>b, <3>1, <3>3
  <2>. QED
    BY Zenon, <2>1, <2>2
<1>3. CASE Converge
  <2>1. state.desired # None
    BY Zenon, <1>1, <1>3 DEF Converge
  <2>2. PICK ok \in Observations, ok2 \in Observations :
          state' = reobserve(reobserve(state, machine, ok), machine', ok2)
    BY Zenon, <1>1, <1>3 DEF Converge
  <2>. QED
    BY Zenon, <1>a, <1>b, <2>1, <2>2
<1>4. CASE ConfirmRequest
  BY Zenon, <1>1, <1>4 DEF ConfirmRequest, Answering, Refused, covered
<1>5. CASE Pass
  BY Zenon, <1>1, <1>5, PassControl
<1>6. CASE ResolveAnyWindow \/ ResolveWindow \/ RevertRequest
  BY Zenon, <1>1, <1>6, RevertControl
<1>7. CASE Boot \/ Rounds \/ EstablishLastGood \/ EndRound \/ ArmWindow \/ ClearWindow
                \/ RecordLastGood \/ Crash
  BY Zenon, <1>0, <1>1, <1>7
  DEF Boot, Rounds, Round, EstablishLastGood, EndRound, ArmWindow, ClearWindow,
      RecordLastGood, Crash
<1>8. CASE ReloadRequest
  BY Zenon, <1>1, <1>8 DEF ReloadRequest, Answering
<1>9. CASE EditConfig \/ Drift \/ Second \/ StepClock \/ LoseLastGood
  BY Zenon, <1>1, <1>9 DEF EditConfig, Drift, Second, StepClock, LoseLastGood, RecordsInv
<1>. QED
  BY Zenon, <1>1, <1>2, <1>3, <1>4, <1>5, <1>6, <1>7, <1>8, <1>9 DEF Next, Work

\* What the machine agrees with is among what it has agreed with.
HeldInv == {d \in Docs : InEffect(d, machine)} \subseteq reached

\* The machine is back before a reverted window is closed.
BackInv == pc = "clear" => window.good \in {d \in Docs : InEffect(d, machine)}

\* What the promise rests on: what a window goes back to, what is recorded,
\* and, as far as it may be taken for granted, that the daemon's
\* picture of the machine is exact and where last-good comes from.
PromiseInv ==
    /\ TypeInv /\ TargetInv /\ RecordsInv /\ HeldInv
    /\ Works /\ Alone => SeenInv /\ BackInv
    /\ Works /\ Whole => GoodInv

\* Every step of the daemon is a step of the promise, or changes nothing in it.
LEMMA PromiseStep ==
    ASSUME "startlock" \notin Faults, PromiseInv, [Next]_vars
    PROVE  [Promise!Next]_(Promise!promised)
<1>a. /\ TypeInv /\ TypeOK /\ TargetInv /\ RecordsInv /\ HeldInv /\ cont # "clear"
      /\ Works /\ Alone => SeenInv
      /\ Works /\ Alone => BackInv
      /\ Works /\ Whole => GoodInv
  BY Zenon, TypeFacts DEF PromiseInv, TypeInv, TypeOK
<1>b. (Open <=> window.good # None) /\ (Open => window.good \in Docs)
  BY Zenon, <1>a, PendingIsOpen
<1>c. SUFFICES Promise!Next \/ UNCHANGED Promise!promised
  BY Zenon
<1>d. ASSUME Promise!Change \/ Promise!Abandon \/ Promise!TakeBack PROVE Promise!Next
  BY Zenon, <1>d DEF Promise!Next
<1>1. CASE Boot \/ ReloadRequest \/ EndRound \/ EditConfig
  BY Zenon, <1>1, NothingPromised
  DEF Boot, ReloadRequest, EndRound, EditConfig, Answering, disk
<1>2. CASE Rounds
  <2>1. /\ pc # "clear" /\ pc' # "clear"
        /\ UNCHANGED <<machine, reached, lastGood, window>>
    BY Zenon, <1>2 DEF Rounds, Round, disk
  <2>. QED
    BY Zenon, <2>1, NothingPromised
<1>3. CASE ResolveAnyWindow
  <2>1. CASE confirm_revert("reverted", "establish")
    BY Zenon, <1>3, <1>a, <1>d, <2>1, RevertActsOn, RevertIsPromised
    DEF ResolveAnyWindow
  <2>2. CASE ~confirm_revert("reverted", "establish")
    BY Zenon, <1>3, <2>2, NothingPromised DEF ResolveAnyWindow, disk
  <2>. QED
    BY Zenon, <2>1, <2>2
<1>4. CASE ResolveWindow
  <2>1. CASE Expired /\ confirm_revert("pass", "pass")
    BY Zenon, <1>4, <1>a, <1>d, <2>1, RevertActsOn, RevertIsPromised
    DEF ResolveWindow
  <2>2. CASE ~(Expired /\ confirm_revert("pass", "pass"))
    BY Zenon, <1>4, <2>2, NothingPromised DEF ResolveWindow, disk
  <2>. QED
    BY Zenon, <2>1, <2>2
<1>5. CASE RevertRequest
  <2>1. CASE confirm_revert("settle", "settle")
    BY Zenon, <1>5, <1>a, <1>d, <2>1, RevertActsOn, RevertIsPromised
    DEF RevertRequest, Answering
  <2>2. CASE ~confirm_revert("settle", "settle")
    BY Zenon, <1>5, <2>2, NothingPromised DEF RevertRequest, Answering, Refused, disk
  <2>. QED
    BY Zenon, <2>1, <2>2
<1>6. CASE EstablishLastGood
  <2>1. /\ pc # "clear" /\ pc' # "clear" /\ UNCHANGED <<machine, reached, window>>
        /\ lastGood' = IF lastGood = None THEN Empty ELSE lastGood
        /\ ~Open
    BY Zenon, <1>6, <1>a DEF EstablishLastGood, TargetInv
  <2>2. CASE lastGood = None
    BY Zenon, <1>b, <2>1, <2>2, NothingMoves, ConstantsAssumption
    DEF Promise!Next, Promise!Settle
  <2>3. CASE lastGood # None
    BY Zenon, <2>1, <2>3, NothingPromised
  <2>. QED
    BY Zenon, <2>2, <2>3
<1>7. CASE Converge
  <2>1. /\ pc # "clear" /\ pc' # "clear" /\ UNCHANGED <<lastGood, window>> /\ ~Open
    BY Zenon, <1>7, <1>a, ConvergeControl DEF TargetInv, disk
  <2>. QED
    BY Zenon, <1>7, <1>b, <1>d, <2>1, ConvergeMoves, ChangeIsPromised, NothingPromised
<1>8. CASE Pass
  <2>1. pc # "clear" /\ pc' # "clear" /\ UNCHANGED <<lastGood, window>>
    BY Zenon, <1>8, PassControl DEF disk
  <2>2. Reaching(machine') /\ (Alone /\ Open => machine' = machine)
    BY Zenon, <1>8, <1>a, PassMoves
  <2>3. CASE machine' = machine
    <3>1. reached' = reached
      BY Zenon, <1>a, <2>2, <2>3 DEF HeldInv, Reaching
    <3>. QED
      BY Zenon, <2>1, <2>3, <3>1, NothingPromised
  <2>4. CASE Alone => ~Open
    BY Zenon, <1>b, <1>d, <2>1, <2>2, <2>4, ChangeIsPromised
  <2>. QED
    BY Zenon, <2>2, <2>3, <2>4
<1>9. CASE ApplyRequest
  <2>1. pc # "clear" /\ pc' # "clear" /\ UNCHANGED <<lastGood, window>>
    BY Zenon, <1>9, ApplyControl DEF disk
  <2>. QED
    BY Zenon, <1>9, <1>a, <1>b, <1>d, <2>1, ApplyMoves, ChangeIsPromised, NothingPromised
<1>10. CASE ConfirmRequest
  <2>1. CASE Refused
    BY Zenon, <1>10, <2>1, NothingPromised DEF ConfirmRequest, Answering, Refused, disk
  <2>2. CASE ~Refused
    <3>1. /\ pc = "settle" /\ reqs # <<>> /\ Head(reqs).kind = "confirm" /\ Open
          /\ window' = NoWindow /\ pc' # "clear"
          /\ UNCHANGED <<lastGood, machine, reached>>
      BY Zenon, <1>10, <2>2 DEF ConfirmRequest, Answering
    <3>2. acts_on = "confirm"
      BY Zenon, <3>1 DEF acts_on
    <3>3. window'.good = None
      BY <3>1 DEF NoWindow
    <3>. QED
      BY Zenon, <1>b, <3>1, <3>2, <3>3, NothingMoves DEF Promise!Next, Promise!Keep
  <2>. QED
    BY Zenon, <2>1, <2>2
<1>11. CASE ArmWindow
  <2>1. CASE UNCHANGED window
    BY Zenon, <1>11, <2>1, NothingPromised DEF ArmWindow
  <2>2. CASE window' # window
    <3>1. /\ pc = "arm" /\ pc' = "settle" /\ UNCHANGED <<machine, reached, lastGood>>
          /\ window' = [left |-> arming.seconds, good |-> arming.good]
      BY Zenon, <1>11, <2>2 DEF ArmWindow, arm_failed
    <3>2. window'.good = arming.good
      BY <3>1
    <3>3. /\ arming.good \in Docs /\ ~Open
          /\ lastGood = arming.good \/ (lastGood = None /\ ~Readable)
      BY Zenon, <1>a, <3>1 DEF TypeInv, TypeOK, Armings, TargetInv, Lost, Readable
    <3>. QED
      BY Zenon, <1>b, <3>1, <3>2, <3>3, NothingMoves DEF Promise!Next, Promise!Offer
  <2>. QED
    BY Zenon, <2>1, <2>2
<1>12. CASE ClearWindow
  <2>1. /\ pc = "clear" /\ pc' # "clear" /\ window' = NoWindow
        /\ UNCHANGED <<machine, reached, lastGood>>
    BY Zenon, <1>12, <1>a DEF ClearWindow
  <2>2. window'.good = None
    BY <2>1 DEF NoWindow
  <2>. QED
    BY Zenon, <1>a, <2>1, <2>2, NothingMoves DEF Promise!Next, Promise!Close, BackInv
<1>13. CASE RecordLastGood
  <2>1. /\ pc # "clear" /\ pc' # "clear" /\ UNCHANGED <<machine, reached, window>>
        /\ lastGood' \in Docs /\ ~Open
        /\ Works /\ Whole => lastGood' \in reached
    BY Zenon, <1>13, <1>a
    DEF RecordLastGood, TargetInv, GoodInv, RecordsInv, TypeOK, States
  <2>. QED
    BY Zenon, <1>b, <2>1, NothingMoves DEF Promise!Next, Promise!Settle
<1>14. CASE Second \/ StepClock
  <2>1. UNCHANGED <<machine, reached, lastGood, pc>>
    BY Zenon, <1>14 DEF Second, StepClock
  <2>2. window'.good = window.good
    <3>1. window \in [left : 0 .. MaxSeconds + MaxStep, good : Docs] \cup {NoWindow}
      BY Zenon, <1>a DEF TypeOK, Windows
    <3>2. \E n : window' = [window EXCEPT !.left = n]
      BY Zenon, <1>14 DEF Second, StepClock
    <3>. QED
      BY <3>1, <3>2 DEF NoWindow
  <2>. QED
    BY Zenon, <2>1, <2>2, NothingPromised
<1>15. CASE LoseLastGood
  BY Zenon, <1>15, NothingMoves DEF LoseLastGood, Readable, Promise!Next, Promise!Lose
<1>16. CASE Crash
  <2>1. pc' # "clear" /\ UNCHANGED <<machine, reached, lastGood, window>>
    BY Zenon, <1>16 DEF Crash, disk
  <2>2. CASE pc = "clear"
    BY Zenon, <2>1, <2>2, NothingMoves DEF Promise!Next, Promise!Interrupt
  <2>3. CASE pc # "clear"
    BY Zenon, <2>1, <2>3, NothingPromised
  <2>. QED
    BY Zenon, <2>2, <2>3
<1>17. CASE UNCHANGED vars
  BY Zenon, <1>17, NothingPromised DEF vars
<1>18. CASE Drift
  <2>1. ~Alone
    BY Zenon, <1>18, <1>a, NoDrift DEF Alone
  <2>. QED
    BY Zenon, <1>18, <1>d, <2>1, ChangeIsPromised DEF Drift, disk
<1>. QED
  BY Zenon, <1>1, <1>2, <1>3, <1>4, <1>5, <1>6, <1>7, <1>8, <1>9, <1>10, <1>11, <1>12,
     <1>13, <1>14, <1>15, <1>16, <1>17, <1>18
  DEF Next, Work

\* The promise itself keeps the machine back until the window is closed.
LEMMA BackStep ==
    ASSUME Works, Alone, BackInv, [Promise!Next]_(Promise!promised)
    PROVE  BackInv'
<1>. DEFINE held == {d \in Docs : InEffect(d, machine)}
<1>1. pc = "clear" => window.good # None /\ window.good \in held
  BY Zenon, ConstantsAssumption DEF BackInv
<1>2. SUFFICES ASSUME pc' = "clear" PROVE window'.good \in held'
  BY Zenon DEF BackInv
<1>3. (pc = "clear")' = TRUE
  BY Zenon, <1>2
<1>4. CASE Promise!Change \/ Promise!Offer \/ Promise!Keep \/ Promise!Abandon
  BY Zenon, <1>1, <1>3, <1>4
  DEF Promise!Change, Promise!Offer, Promise!Keep, Promise!Abandon, Promise!GoesBack
<1>5. CASE Promise!TakeBack
  BY Zenon, <1>5 DEF Promise!TakeBack
<1>6. CASE Promise!Close \/ Promise!Interrupt
  BY Zenon, <1>3, <1>6 DEF Promise!Close, Promise!Interrupt
<1>7. CASE Promise!Settle \/ Promise!Lose \/ UNCHANGED Promise!promised
  BY Zenon, <1>1, <1>3, <1>7 DEF Promise!Settle, Promise!Lose, Promise!promised
<1>. QED
  BY Zenon, <1>4, <1>5, <1>6, <1>7 DEF Promise!Next

\* The promise itself keeps the history of the machine.
LEMMA HeldStep ==
    ASSUME HeldInv, [Promise!Next]_(Promise!promised)
    PROVE  HeldInv'
BY Zenon
DEF HeldInv, Promise!Next, Promise!promised, Promise!Change, Promise!Moves, Promise!Offer,
    Promise!Keep, Promise!TakeBack, Promise!Abandon, Promise!Close, Promise!Interrupt,
    Promise!Settle, Promise!Lose

\* Where the machine can be reached at startup, the daemon puts last-good back
\* unless somebody confirms, as ConfirmPromise says: with every other fault,
\* and what it says of a machine that works, of one that nobody else changes
\* and of a file that stays readable with those, whatever is edited, crashed
\* or stepped (ncfg_confirm_arm, ncfg_confirm_keep, ncfg_confirm_revert).
THEOREM PromiseCorrect ==
    ASSUME "startlock" \notin Faults
    PROVE  Spec => UnlessConfirmed
<1>0. Works => /\ {"apply", "observe", "startlock", "contended"} \cap Faults = {}
               /\ "observe" \notin Faults
  BY Zenon DEF Works
<1>1. Init => PromiseInv /\ Promise!Init
  <2>1. SUFFICES ASSUME Init PROVE PromiseInv /\ Promise!Init
    BY Zenon
  <2>2. NoArmed.doc = None /\ NoWindow.good = None
    BY DEF NoArmed, NoWindow
  <2>3. TypeInv
    BY Zenon, <2>1, TypeInit
  <2>4. TargetInv /\ SeenInv /\ GoodInv /\ BackInv /\ RecordsInv /\ HeldInv
    BY Zenon, <2>1, <2>2
    DEF Init, TargetInv, Open, SeenInv, GoodInv, LastGoodWasInEffect, BackInv, RecordsInv,
        HeldInv
  <2>. QED
    BY Zenon, <2>1, <2>2, <2>3, <2>4 DEF Init, PromiseInv, Promise!Init
<1>2. PromiseInv /\ [Next]_vars => [Promise!Next]_(Promise!promised)
  BY Zenon, PromiseStep
<1>3. PromiseInv /\ [Next]_vars => PromiseInv'
  <2>1. SUFFICES ASSUME PromiseInv, [Next]_vars PROVE PromiseInv'
    BY Zenon
  <2>2. TypeInv' /\ TargetInv'
    BY Zenon, <2>1, TypeStep, TargetStep DEF PromiseInv
  <2>3. RecordsInv' /\ HeldInv'
    BY Zenon, <1>2, <2>1, <2>2, RecordsStep, HeldStep DEF PromiseInv
  <2>4. Works /\ Alone => SeenInv' /\ BackInv'
    BY Zenon, <1>0, <1>2, <2>1, SeenStep, BackStep DEF PromiseInv, Alone
  <2>5. Works /\ Whole => GoodInv'
    BY Zenon, <1>0, <2>1, GoodStep DEF PromiseInv, Whole
  <2>. QED
    BY Zenon, <2>2, <2>3, <2>4, <2>5 DEF PromiseInv
<1>. QED
  BY <1>1, <1>2, <1>3, PTL DEF Spec, UnlessConfirmed, Promise!Spec
====
