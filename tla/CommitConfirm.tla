--------------------------- MODULE CommitConfirm ---------------------------
(***************************************************************************)
(* The core of netcfgd: one loop thread that reloads the configuration,   *)
(* observes the machine, plans, applies, and keeps a commit-confirm window *)
(* over a change until somebody confirms it or it is taken back.           *)
(*                                                                         *)
(* Translated from c/src/daemon/{confirm,request,state,reconcile,          *)
(* reconcile_pass}.c and the startup and round order of                    *)
(* c/src/main/{daemon_main,daemon_loop,daemon_answer}.c.                   *)
(*                                                                         *)
(* The loop is single threaded, so a handler is cut into several actions   *)
(* only where it writes something that outlives the process (the machine,  *)
(* the window file, the last-good file): a crash may fall between those.   *)
(*                                                                         *)
(* Data is abstracted to what the properties tell apart.  A document is a  *)
(* model value; what it asks of each item of the machine is Want.  A plan  *)
(* is the set of items whose observed value disagrees with the document,   *)
(* run in increasing order.  Clocks are countdowns: window.left is         *)
(* deadline_of(window) - now, saturating at 0, and timer is what is left   *)
(* on the monotonic timerfd.                                               *)
(***************************************************************************)
EXTENDS Integers, Sequences, FiniteSets

CONSTANTS
    Docs,            \* compiled documents (ncfg_document_t), by identity (hash)
    Empty,           \* the empty document establish_last_good writes
    None,            \* NULL
    Broken,          \* a configuration directory that does not compile
    Values,          \* what an item of the machine can be
    Unset,           \* a document that says nothing about an item
    N,               \* the machine has items 1 .. N, in plan order
    Want,            \* Want[d][i]: what document d asks of item i
    Reconciles,      \* Reconciles[d]: items d lets the loop reconcile
    ConfirmDefault,  \* ConfirmDefault[d]: globals.confirm_default, 0 for none
    Irreversible,    \* items whose actions declare no inverse
    Optional,        \* items whose actions are ncfg_apply_optional
    Backends,        \* items that are backends netcfgd runs
    Stopped,         \* what such an item is when it does not run
    Seconds,         \* what apply requests ask as confirm (0: absent or zero)
    MaxSeconds,      \* bound: the longest window anything asks for
    MaxReqs,         \* bound: requests taken in one round
    MaxEdits,        \* bound: writes to the configuration directory
    MaxDrift,        \* bound: changes made to the machine by somebody else, and
                     \* passes that find a backend contended
    MaxCrash,        \* bound: crashes of the daemon
    MaxStep,         \* bound: how far the wall clock is stepped
    Faults           \* which of FaultKinds may happen

Items == 1 .. N

FaultKinds == {"apply", "arm", "lock", "startlock", "observe", "unreadable", "step",
               "contended"}

ASSUME ConstantsAssumption ==
    /\ Empty \in Docs
    /\ None \notin Docs /\ Broken \notin Docs /\ None # Broken
    /\ None \notin Values /\ Unset \notin Values
    /\ N \in Nat
    /\ None \notin [Items -> Values]
    /\ Want \in [Docs -> [Items -> Values \cup {Unset}]]
    /\ Reconciles \in [Docs -> SUBSET Items]
    /\ Backends \subseteq Items /\ Stopped \in Values
    /\ MaxSeconds \in Nat
    /\ Seconds \subseteq 0 .. MaxSeconds
    /\ ConfirmDefault \in [Docs -> 0 .. MaxSeconds]
    /\ {MaxReqs, MaxEdits, MaxDrift, MaxCrash, MaxStep} \subseteq Nat
    /\ Faults \subseteq FaultKinds

\* The operations of the control socket that reach this machinery.
\* "stand" is an apply with no_rollback, whose confirm has to be 0.
Requests == [kind : {"apply"}, seconds : Seconds]
              \cup [kind : {"stand", "confirm", "revert", "reload"}, seconds : {0}]

VARIABLES
    files,     \* what the configuration directory compiles to
    dirty,     \* an inotify event for it is waiting to be read
    state,     \* ncfg_daemon_state_t: desired, diagnostics, rejected, observed
    window,    \* <run>-confirm/confirm.json, or NoWindow
    lastGood,  \* <run>-confirm/last-good.json, or None
    armed,     \* ncfg_confirm_armed_t: what the open window covers
    holding,   \* ncfg_reconcile_t.holding, the --no-apply-on-start latch
    machine,   \* the real machine: a value for each item
    timer,     \* seconds left on the expiry timerfd, 0 when disarmed
    fired,     \* the timerfd has expired and nobody has read it
    pc,        \* where the loop thread is
    cont,      \* where it goes after the write it is about to do
    arming,    \* arming_t: length and target of the window about to be armed
    wake,      \* what this round's pass was woken for
    reqs,      \* requests of this round still to be answered
    budget,    \* bounds left
    reached,   \* history: documents the machine has agreed with
    disowned   \* history: the configuration the last revert went away from

vars == <<files, dirty, state, window, lastGood, armed, holding, machine, timer,
          fired, pc, cont, arming, wake, reqs, budget, reached, disowned>>

disk     == <<window, lastGood>>
clock    == <<timer, fired>>
outside  == <<files, dirty, budget>>
round    == <<wake, reqs>>

NoWindow == [left |-> 0, good |-> None]
NoArmed  == [doc |-> None, undo |-> [i \in Items |-> None]]
NoWake   == [config |-> FALSE, kernel |-> FALSE, ticked |-> FALSE,
             expired |-> FALSE]
Asleep   == [config |-> FALSE, look |-> FALSE]
Blank    == [desired |-> None, diagnostics |-> FALSE, rejected |-> None,
             observed |-> None]
NotArming == [seconds |-> 0, good |-> None]

Windows == [left : 0 .. MaxSeconds + MaxStep, good : Docs]

PCs == {"down", "boot", "reverted", "establish", "converge", "record", "idle",
        "resolve", "pass", "arm", "settle", "clear"}

(***************************************************************************)
(* Observing, planning, applying                                           *)
(***************************************************************************)

\* ncfg_daemon_state_reobserve: on failure the previous observation stands.
reobserve(st, m, ok) == IF ok THEN [st EXCEPT !.observed = m] ELSE st

Observations == IF "observe" \in Faults THEN BOOLEAN ELSE {TRUE}

\* The document agrees with value v on item i.
Agrees(d, i, v) == Want[d][i] \in {Unset, v}

\* ncfg_plan_build: what has to change to take the observed machine to d.
plan_build(d, seen) == {i \in Items : ~Agrees(d, i, seen[i])}

\* The machine is in the configuration d.
InEffect(d, m) == \A i \in Items : Agrees(d, i, m[i])

\* run_plan: the actions run in order; a required one that fails stops the
\* plan, an optional one that fails is recorded unmet and the plan goes on.
run_plan(plan) ==
    IF "apply" \in Faults
    THEN {done \in SUBSET plan :
            \A i \in plan \ done : i \in Optional \/ \A j \in done : j < i}
    ELSE {plan}

Applied(m, d, done) == [i \in Items |-> IF i \in done THEN Want[d][i] ELSE m[i]]

\* ncfg_confirm_armed_from: the document, and the inverse of each action that
\* was done and declares one.  The inverse carries the observed value.
armed_from(d, seen, done) ==
    [doc  |-> d,
     undo |-> [i \in Items |-> IF i \in done \ Irreversible THEN seen[i] ELSE None]]

Undoable == {i \in Items : armed.undo[i] # None}

\* Mutant: the inverses are not run.
apply_revert_skipped == {{}}

\* ncfg_apply_revert: an inverse that fails is left and the others still run.
apply_revert == IF "apply" \in Faults THEN SUBSET Undoable ELSE {Undoable}

Undone(m, undone) == [i \in Items |-> IF i \in undone THEN armed.undo[i] ELSE m[i]]

\* History: which documents the machine has been in.
Reaching(m) == reached' = reached \cup {d \in Docs : InEffect(d, m)}

(***************************************************************************)
(* The configuration                                                       *)
(***************************************************************************)

\* Mutant: the rejected document is adopted like any other.
state_reload_unchecked(st) ==
    IF files = Broken THEN [st EXCEPT !.diagnostics = TRUE]
    ELSE [st EXCEPT !.desired = files, !.diagnostics = FALSE, !.rejected = None]

\* ncfg_daemon_state_reload: a directory that does not compile leaves the
\* desired document alone; the document a revert rejected is refused without
\* a diagnostic; anything else is adopted and clears both.
state_reload(st) ==
    IF files = Broken THEN [st EXCEPT !.diagnostics = TRUE]
    ELSE IF st.rejected = files THEN st
    ELSE [st EXCEPT !.desired = files, !.diagnostics = FALSE, !.rejected = None]

(***************************************************************************)
(* The confirm window                                                      *)
(***************************************************************************)

Open == window # NoWindow

\* Mutant: a second too early.
expired_early == window.left <= 1

\* Mutant: strict on a remainder that is clamped at zero.
expired_below_zero == window.left < 0

\* ncfg_confirm_expired_at
Expired == window.left = 0

\* ncfg_confirm_may_arm: no window open and something to revert to.
may_arm == ~Open /\ lastGood # None

\* ncfg_reconcile_arms, over decide_arming: a pass arms only for a document
\* that changed in it, that asks for a window, over a last-good configuration
\* that is not the placeholder.
arms(isNew, d) ==
    /\ isNew
    /\ ConfirmDefault[d] > 0
    /\ may_arm
    /\ lastGood # Empty

Arming(s) == [seconds |-> s, good |-> lastGood]

\* Mutant: whatever is desired by now.
covered_unchecked == state.desired # None

\* what_the_window_covered is desired, and not an edit adopted since.
covered == state.desired # None /\ armed.doc \in {None, state.desired}

\* The document a revert blacklists: what the window covered, or what is
\* desired where a restart has lost the record.
rejecting == IF armed.doc # None THEN armed.doc ELSE state.desired

\* History: the configuration on disk at a revert, where it is what the window
\* covered.
Disowning == IF files = rejecting /\ files # lastGood THEN files ELSE None

\* ncfg_confirm_revert up to the clearing of the window: the inverses, a
\* look, and a re-plan onto the last-good configuration where the machine has
\* been observed at all.  With no last-good to go to, the window is dropped
\* and the call fails.
confirm_revert(onDone, onFail) ==
    /\ Open
    /\ armed' = NoArmed
    /\ \/ /\ lastGood = None
          /\ window' = NoWindow
          /\ pc' = onFail
          /\ UNCHANGED <<state, machine, cont, reached, disowned>>
       \/ /\ lastGood # None
          /\ \E undone \in apply_revert, ok \in Observations :
               LET m  == Undone(machine, undone)
                   st == [state EXCEPT !.rejected = rejecting, !.desired = lastGood]
                   s2 == IF Undoable = {} THEN st ELSE reobserve(st, m, ok)
               IN  /\ state' = s2
                   /\ \/ s2.observed = None /\ machine' = m
                      \/ /\ s2.observed # None
                         /\ \E done \in run_plan(plan_build(lastGood, s2.observed)) :
                              machine' = Applied(m, lastGood, done)
          /\ Reaching(machine')
          /\ disowned' = Disowning
          /\ pc' = "clear"
          /\ cont' = onDone
          /\ UNCHANGED window
    /\ UNCHANGED <<lastGood, holding, clock, arming>>

\* The end of ncfg_confirm_revert: clear the window file, look again.  An
\* unlink that fails for a file that is there is left out.
ClearWindow ==
    /\ pc = "clear"
    /\ window' = NoWindow
    /\ \E ok \in Observations : state' = reobserve(state, machine, ok)
    /\ pc' = cont
    /\ cont' = "idle"
    /\ UNCHANGED <<lastGood, armed, holding, machine, clock, arming, round, outside,
                   reached, disowned>>

\* Mutant: a timer that is already running is left alone.
expiry_once(s) ==
    IF timer > 0 THEN UNCHANGED clock ELSE timer' = s /\ fired' = FALSE

\* ncfg_main_watchers_expiry: timerfd_settime replaces what was left.
expiry(s) == timer' = s /\ fired' = FALSE

\* Mutant: the record of a window that was never written stays.
arm_failed_silently == UNCHANGED <<window, clock, armed>>

\* ncfg_confirm_arm could not write the window: the record is dropped.
arm_failed == armed' = NoArmed /\ UNCHANGED <<window, clock>>

\* The rest of ncfg_daemon_arm_window: write the window, set the timer.  A
\* window that cannot be written leaves the change uncovered and drops the
\* record.
ArmWindow ==
    /\ pc = "arm"
    /\ \/ /\ window' = [left |-> arming.seconds, good |-> arming.good]
          /\ expiry(arming.seconds)
          /\ UNCHANGED armed
       \/ "arm" \in Faults /\ arm_failed
    /\ pc' = "settle"
    /\ arming' = NotArming
    /\ UNCHANGED <<state, lastGood, holding, machine, cont, round, outside,
                   reached, disowned>>

\* ncfg_confirm_write_last_good of the desired document, which is what ends
\* a confirmation, an apply with no window and a startup apply that worked.
RecordLastGood ==
    /\ pc = "record"
    /\ lastGood' = state.desired
    /\ pc' = cont
    /\ cont' = "idle"
    /\ UNCHANGED <<state, window, armed, holding, machine, clock, arming, round,
                   outside, reached, disowned>>

(***************************************************************************)
(* Starting                                                                *)
(***************************************************************************)

\* daemon_main up to the first observation, which may fail and is not fatal.
Boot ==
    /\ pc = "down"
    /\ \E ok \in Observations : state' = reobserve(state_reload(Blank), machine, ok)
    /\ dirty' = FALSE
    /\ pc' = "boot"
    /\ UNCHANGED <<files, disk, armed, holding, machine, clock, cont, arming, round,
                   budget, reached, disowned>>

\* resolve_any_window: a window found at startup is reverted whatever its
\* deadline, unless the machine cannot be reached, and then it stays open.
ResolveAnyWindow ==
    /\ pc = "boot"
    /\ \/ /\ ~Open \/ "startlock" \in Faults
          /\ pc' = "establish"
          /\ UNCHANGED <<state, disk, armed, holding, machine, clock, cont, arming,
                         reached, disowned>>
       \/ confirm_revert("reverted", "establish")
    /\ UNCHANGED <<outside, round>>

\* ncfg_reconcile_establish_last_good, then the decision of
\* ncfg_reconcile_start: hold, or converge unless a window was just reverted.
EstablishLastGood ==
    /\ pc \in {"establish", "reverted"}
    /\ lastGood' = IF lastGood = None THEN Empty ELSE lastGood
    /\ \E applyOnStart \in BOOLEAN :
         /\ holding' = ~applyOnStart
         /\ pc' = IF applyOnStart /\ pc = "establish" THEN "converge" ELSE "idle"
    /\ UNCHANGED <<state, window, armed, machine, clock, cont, arming, round,
                   outside, reached, disowned>>

\* ncfg_reconcile_converge: apply the whole plan; record it as last-good only
\* where every action was done.
Converge ==
    /\ pc = "converge"
    /\ \E ok \in Observations :
         LET st == reobserve(state, machine, ok)
         IN  \/ /\ \/ state.desired = None
                   \/ st.observed = None
                   \/ "lock" \in Faults
                /\ state' = IF state.desired = None THEN state ELSE st
                /\ pc' = "idle"
                /\ UNCHANGED <<machine, cont, reached>>
             \/ /\ state.desired # None
                /\ st.observed # None
                /\ LET plan == plan_build(st.desired, st.observed)
                   IN \E done \in run_plan(plan), ok2 \in Observations :
                        /\ machine' = Applied(machine, st.desired, done)
                        /\ state' = reobserve(st, machine', ok2)
                        /\ pc' = IF done = plan THEN "record" ELSE "idle"
                /\ cont' = "idle"
                /\ Reaching(machine')
    /\ UNCHANGED <<disk, armed, holding, clock, arming, round, outside, disowned>>

(***************************************************************************)
(* One round of the loop                                                   *)
(***************************************************************************)

\* Mutant: a tick alone is no reason to look.
looks_on_events(w) == w.kernel \/ w.config

\* ncfg_reconcile_looks
looks(w) == w.kernel \/ w.config \/ w.ticked

\* ncfg_reconcile_should_resolve_window
should_resolve_window(w) == w.expired \/ w.ticked

\* ncfg_main_round and round_end up to the pass: what woke the loop, the
\* requests taken from the mailbox, and whether the window is looked at.
\* ncfg_main_passes: with no reason to run there is no pass.  Of what
\* woke the loop the pass reads two things, and those are kept.
Round(w, rs) ==
    /\ pc = "idle"
    /\ w # NoWake \/ rs # <<>>
    /\ w.config => dirty
    /\ w.expired => fired
    /\ dirty' = (dirty /\ ~w.config)
    /\ fired' = (fired /\ ~w.expired)
    /\ wake' = [config |-> w.config, look |-> looks(w)]
    /\ reqs' = rs
    /\ pc' = IF should_resolve_window(w) THEN "resolve" ELSE "pass"
    /\ UNCHANGED <<files, state, disk, armed, holding, machine, timer, cont, arming,
                   budget, reached, disowned>>

\* resolve_window: the window's own deadline decides, not the timer that
\* woke the loop.
ResolveWindow ==
    /\ pc = "resolve"
    /\ \/ /\ ~Open \/ ~Expired \/ "lock" \in Faults
          /\ pc' = "pass"
          /\ UNCHANGED <<state, disk, armed, holding, machine, clock, cont, arming,
                         reached, disowned>>
       \/ /\ Expired
          /\ confirm_revert("pass", "pass")
    /\ UNCHANGED <<outside, round>>

\* ncfg_reconcile_window_requested
window_requested == \E k \in DOMAIN reqs : reqs[k].kind = "apply" /\ reqs[k].seconds > 0

\* Mutant: an open window does not hold the loop off.
defers_to_requests == window_requested

\* ncfg_reconcile_defers
defers == Open \/ window_requested

\* ncfg_reconcile_releases_hold
releases_hold == \E k \in DOMAIN reqs : reqs[k].kind \in {"apply", "stand"}

\* ncfg_reconcile_restrict: what the document lets the loop put right.  That
\* an action goes with one it depends on is left out.
restrict(plan, d) == plan \cap Reconciles[d]

\* reload, in a round the configuration directory woke.
reloaded == IF wake.config THEN state_reload(state) ELSE state

\* look: what the pass goes on from.
looked(ok) == IF wake.look THEN reobserve(reloaded, machine, ok) ELSE reloaded

\* What look would have reconcile_drift do.
drifted(st) ==
    IF st.desired = None \/ st.observed = None THEN {}
    ELSE restrict(plan_build(st.desired, st.observed), st.desired)

reconciles(st) == wake.look /\ drifted(st) # {} /\ ~holding /\ ~defers

\* config_is_new compares the document before and after the reload.
decide_arming(st) == arms(st.desired # state.desired, st.desired)

\* ncfg_main_world_release_contended: the backends seen running, any of which
\* may be on an interface another manager claims.
contended(st) ==
    IF /\ "contended" \in Faults /\ budget.drift > 0
       /\ wake.look /\ st.desired # None /\ st.observed # None
    THEN {i \in Backends : st.observed[i] # Stopped}
    ELSE {}

\* hand_back stops them, whoever holds the daemon off, and nobody looks again
\* before the plan of this pass runs.
hand_back(given) == [i \in Items |-> IF i \in given THEN Stopped ELSE machine[i]]

\* reconcile_drift on machine m, and arm_window up to the write of the window.
reconcile_drift(st, m) ==
    /\ \E done \in run_plan(drifted(st)), ok \in Observations :
         /\ machine' = Applied(m, st.desired, done)
         /\ state' = reobserve(st, machine', ok)
         /\ armed' = IF decide_arming(st)
                     THEN armed_from(st.desired, st.observed, done)
                     ELSE armed
    /\ Reaching(machine')
    /\ IF decide_arming(st)
       THEN pc' = "arm" /\ arming' = Arming(ConfirmDefault[st.desired])
       ELSE pc' = "settle" /\ UNCHANGED arming

\* ncfg_reconcile_pass from the reload on: reload, look, give back what is
\* contended, reconcile what the policy allows unless held or deferring to a
\* window, release the hold.
Pass ==
    /\ pc = "pass"
    /\ \E ok \in Observations : \E given \in SUBSET contended(looked(ok)) :
         /\ budget' = IF given = {} THEN budget ELSE [budget EXCEPT !.drift = @ - 1]
         /\ \/ /\ ~reconciles(looked(ok)) \/ "lock" \in Faults
               /\ state' = looked(ok)
               /\ machine' = hand_back(given)
               /\ Reaching(machine')
               /\ pc' = "settle"
               /\ UNCHANGED <<armed, arming>>
            \/ /\ reconciles(looked(ok))
               /\ reconcile_drift(looked(ok), hand_back(given))
    /\ holding' = (holding /\ ~releases_hold)
    /\ wake' = Asleep
    /\ UNCHANGED <<files, dirty, disk, clock, cont, reqs, disowned>>

(***************************************************************************)
(* ncfg_main_mailbox_settle: each request is answered by the loop, in      *)
(* order, after the pass                                                   *)
(***************************************************************************)

Answering(kinds) ==
    /\ pc = "settle"
    /\ reqs # <<>>
    /\ Head(reqs).kind \in kinds
    /\ reqs' = Tail(reqs)
    /\ UNCHANGED <<wake, outside>>

\* A request that is refused or finds nothing to do.
Refused ==
    UNCHANGED <<state, disk, armed, holding, machine, clock, pc, cont, arming,
                reached, disowned>>

\* Mutant: every apply without a window of its own settles.
settles_always == TRUE

\* settle_without_a_window: an apply that opens no window becomes last-good,
\* unless it ran inside a window somebody else has to answer for.
settles == ~Open

\* Everything that refuses an apply comes before the machine is touched.
refuses_apply(r) ==
    \/ r.kind = "stand" /\ Open
    \/ state.diagnostics
    \/ state.desired = None
    \/ state.observed = None
    \/ r.seconds > 0 /\ ~may_arm

\* ncfg_apply, a look, and what the apply leaves behind: a window to arm, or a
\* last-good to record.
apply_now(st, s) ==
    /\ \E done \in run_plan(plan_build(st.desired, st.observed)), ok \in Observations :
         /\ machine' = Applied(machine, st.desired, done)
         /\ state' = reobserve(st, machine', ok)
         /\ armed' = IF s > 0 THEN armed_from(st.desired, st.observed, done)
                     ELSE IF settles THEN NoArmed ELSE armed
    /\ Reaching(machine')
    /\ IF s > 0 THEN pc' = "arm" /\ arming' = Arming(s) /\ UNCHANGED cont
       ELSE /\ UNCHANGED arming
            /\ IF settles THEN pc' = "record" /\ cont' = "settle"
               ELSE UNCHANGED <<pc, cont>>

\* answer_apply and ncfg_daemon_apply_request.
ApplyRequest ==
    /\ Answering({"apply", "stand"})
    /\ \/ refuses_apply(Head(reqs)) /\ Refused
       \/ /\ ~refuses_apply(Head(reqs))
          /\ \E ok \in Observations :
               \/ /\ "lock" \in Faults
                  /\ state' = reobserve(state, machine, ok)
                  /\ UNCHANGED <<machine, armed, pc, cont, arming, reached>>
               \/ apply_now(reobserve(state, machine, ok), Head(reqs).seconds)
          /\ UNCHANGED <<disk, holding, clock, disowned>>

\* ncfg_daemon_confirm_request and ncfg_confirm_keep: close the window, drop
\* the record, and record as last-good what the window covered.
ConfirmRequest ==
    /\ Answering({"confirm"})
    /\ \/ ~Open /\ Refused
       \/ /\ Open
          /\ window' = NoWindow
          /\ armed' = NoArmed
          /\ IF covered THEN pc' = "record" /\ cont' = "settle"
             ELSE UNCHANGED <<pc, cont>>
          /\ UNCHANGED <<state, lastGood, holding, machine, clock, arming, reached,
                         disowned>>

\* ncfg_daemon_revert_request
RevertRequest ==
    /\ Answering({"revert"})
    /\ \/ (~Open \/ "lock" \in Faults) /\ Refused
       \/ confirm_revert("settle", "settle")

\* answer_reload: recompile, apply nothing.
ReloadRequest ==
    /\ Answering({"reload"})
    /\ state' = state_reload(state)
    /\ UNCHANGED <<disk, armed, holding, machine, clock, pc, cont, arming, reached,
                   disowned>>

EndRound ==
    /\ pc = "settle"
    /\ reqs = <<>>
    /\ pc' = "idle"
    /\ UNCHANGED <<state, disk, armed, holding, machine, clock, cont, arming, round,
                   outside, reached, disowned>>

(***************************************************************************)
(* What happens around the daemon                                          *)
(***************************************************************************)

\* Somebody writes the configuration directory.  Rewriting the same bytes is
\* an event too; the history of a revert ends at a real change.
EditConfig ==
    /\ budget.edit > 0
    /\ \E f \in (Docs \ {Empty}) \cup {Broken} :
         /\ files' = f
         /\ disowned' = IF f = files THEN disowned ELSE None
    /\ dirty' = (pc # "down")
    /\ budget' = [budget EXCEPT !.edit = @ - 1]
    /\ UNCHANGED <<state, disk, armed, holding, machine, clock, pc, cont, arming,
                   round, reached>>

\* Something other than this daemon changes the machine.
Drift ==
    /\ budget.drift > 0
    /\ \E i \in Items, v \in Values : machine' = [machine EXCEPT ![i] = v]
    /\ Reaching(machine')
    /\ budget' = [budget EXCEPT !.drift = @ - 1]
    /\ UNCHANGED <<files, dirty, state, disk, armed, holding, clock, pc, cont,
                   arming, round, disowned>>

\* What ncfg_confirm_remaining_at makes of a second: never below zero.
Less(n) == IF n = 0 THEN 0 ELSE n - 1

\* A second passes with the machine awake: the wall clock and the monotonic
\* timer both advance.  A second asleep moves neither countdown, because
\* deadline_of adds the time slept to the deadline and CLOCK_MONOTONIC stops.
Second ==
    /\ window.left > 0 \/ timer > 0
    /\ window' = [window EXCEPT !.left = Less(@)]
    /\ timer' = Less(timer)
    /\ fired' = (fired \/ timer = 1)
    /\ UNCHANGED <<files, dirty, state, lastGood, armed, holding, machine, pc, cont,
                   arming, round, budget, reached, disowned>>

\* The wall clock is stepped.  A window counts wall-clock seconds, so a step
\* moves its deadline; the monotonic timer is not affected.  How long ago a
\* window expired is not kept, so stepping back may or may not reopen it.
StepClock ==
    /\ "step" \in Faults
    /\ Open
    /\ \/ window' = [window EXCEPT !.left = Less(@)]
       \/ /\ window.left < MaxSeconds + MaxStep
          /\ window' = [window EXCEPT !.left = @ + 1]
    /\ UNCHANGED <<files, dirty, state, lastGood, armed, holding, machine, clock, pc,
                   cont, arming, round, budget, reached, disowned>>

\* last-good.json becomes unreadable.
LoseLastGood ==
    /\ "unreadable" \in Faults
    /\ lastGood # None
    /\ lastGood' = None
    /\ UNCHANGED <<files, dirty, state, window, armed, holding, machine, clock, pc,
                   cont, arming, round, budget, reached, disowned>>

\* The process dies, wherever it is.  What is on disk and what is on the
\* machine stays; everything else is gone.
Crash ==
    /\ budget.crash > 0
    /\ pc # "down"
    /\ state' = Blank
    /\ dirty' = FALSE
    /\ armed' = NoArmed
    /\ holding' = FALSE
    /\ timer' = 0
    /\ fired' = FALSE
    /\ pc' = "down"
    /\ cont' = "idle"
    /\ arming' = NotArming
    /\ wake' = Asleep
    /\ reqs' = <<>>
    /\ budget' = [budget EXCEPT !.crash = @ - 1]
    /\ disowned' = None
    /\ UNCHANGED <<files, disk, machine, reached>>

(***************************************************************************)
(* The specification                                                       *)
(***************************************************************************)

\* A machine netcfgd has never configured, a configuration on disk, the
\* daemon not started.
Init ==
    /\ files \in (Docs \ {Empty}) \cup {Broken}
    /\ dirty = FALSE
    /\ state = Blank
    /\ window = NoWindow
    /\ lastGood = None
    /\ armed = NoArmed
    /\ holding = FALSE
    /\ machine \in [Items -> Values]
    /\ InEffect(Empty, machine)
    /\ timer = 0
    /\ fired = FALSE
    /\ pc = "down"
    /\ cont = "idle"
    /\ arming = NotArming
    /\ wake = Asleep
    /\ reqs = <<>>
    /\ budget = [edit |-> MaxEdits, drift |-> MaxDrift, crash |-> MaxCrash]
    /\ reached = {d \in Docs : InEffect(d, machine)}
    /\ disowned = None

Wakes == [config : BOOLEAN, kernel : BOOLEAN, ticked : BOOLEAN, expired : BOOLEAN]

RequestLists == UNION {[1 .. n -> Requests] : n \in 0 .. MaxReqs}

Rounds == \E w \in Wakes, rs \in RequestLists : Round(w, rs)

\* What the loop thread does between two waits.
Work ==
    \/ ResolveAnyWindow \/ EstablishLastGood \/ Converge
    \/ ResolveWindow \/ Pass
    \/ ApplyRequest \/ ConfirmRequest \/ RevertRequest \/ ReloadRequest \/ EndRound
    \/ ArmWindow \/ ClearWindow \/ RecordLastGood

Next ==
    \/ Boot \/ Rounds \/ Work
    \/ EditConfig \/ Drift \/ Second \/ StepClock \/ LoseLastGood \/ Crash

Spec == Init /\ [][Next]_vars

\* Fairness.  The loop thread runs to its next wait; the kernel delivers the
\* five-second tick whatever else wakes the loop, and rounds with no request
\* in them keep happening; seconds pass; the service manager restarts the
\* daemon.
QuietTick == \E w \in Wakes : w.ticked /\ Round(w, <<>>)

Fairness ==
    /\ WF_vars(Boot)
    /\ WF_vars(Work)
    /\ WF_vars(Second)
    /\ SF_vars(QuietTick)

FairSpec == Spec /\ Fairness

(***************************************************************************)
(* Properties                                                              *)
(***************************************************************************)

Machines == [Items -> Values]

States == [desired : Docs \cup {None}, diagnostics : BOOLEAN,
           rejected : Docs \cup {None},
           observed : Machines \cup {None}]

Records  == [doc : Docs \cup {None}, undo : [Items -> Values \cup {None}]]
Armings  == [seconds : 0 .. MaxSeconds, good : Docs \cup {None}]
Woken    == [config : BOOLEAN, look : BOOLEAN]
Queues   == Seq(Requests)
Budgets  == [edit : 0 .. MaxEdits, drift : 0 .. MaxDrift, crash : 0 .. MaxCrash]
Returns  == {"idle", "pass", "reverted", "settle"}

\* Every variable holds a value of its type: the daemon's own state, its two
\* files, the machine, the two clocks and the round in hand.
TypeOK ==
    /\ files \in Docs \cup {Broken}
    /\ dirty \in BOOLEAN
    /\ state \in States
    /\ window \in Windows \cup {NoWindow}
    /\ lastGood \in Docs \cup {None}
    /\ armed \in Records
    /\ holding \in BOOLEAN
    /\ machine \in Machines
    /\ timer \in 0 .. MaxSeconds
    /\ fired \in BOOLEAN
    /\ pc \in PCs
    /\ cont \in Returns
    /\ arming \in Armings
    /\ wake \in Woken
    /\ reqs \in Queues
    /\ budget \in Budgets
    /\ reached \subseteq Docs
    /\ disowned \in Docs \cup {None}

\* While a window is open the last-good file names the document the window
\* was armed against: nothing an apply, a pass, a confirmation or a restart
\* does inside a window replaces what the window reverts to
\* (settle_without_a_window, ncfg_confirm_arm).
WindowKeepsItsTarget == Open => window.good = lastGood

\* The record of what a window covers never outlives the window and is never
\* there before it, except in the step that is about to write the window
\* (ncfg_daemon_arm_window, ncfg_confirm_keep, ncfg_confirm_revert).
RecordBelongsToWindow == armed # NoArmed => Open \/ pc = "arm"

\* A window this process armed has the loop's timer running for exactly what
\* is left of it, so the expiry is not left to the next tick: re-arming for a
\* second window replaces what was left of the first one's timer.
ExpiryIsScheduled == armed.doc # None /\ Open => timer = window.left

\* The last-good configuration is one the machine has been in, or the empty
\* placeholder: in particular a confirmation never records an edit that a
\* reload adopted inside the window and nothing applied
\* (what_the_window_covered).
LastGoodWasInEffect == lastGood \in reached \cup {None, Empty}

\* A configuration that was reverted away from and has not been edited since
\* is not desired again by the same process, whatever reloads happen
\* (ncfg_daemon_state_reload).
RejectedStaysOut == disowned # None => state.desired # disowned

\* A revert that ran leaves the machine in the last-good configuration, and
\* puts back what the window changed where that configuration has no opinion
\* (ncfg_confirm_revert: the inverses first, then the re-plan).
RevertRestores ==
    [][pc # "clear" /\ pc' = "clear" =>
         /\ InEffect(window.good, machine')
         /\ \A i \in Undoable :
              Want[window.good][i] = Unset => machine'[i] = armed.undo[i]]_vars

\* What the step in hand acts on, for ConfirmPromise: the request being
\* answered, the deadline of the window, or the start of the daemon.
acts_on ==
    CASE pc = "settle" /\ reqs # <<>>      -> Head(reqs).kind
      [] pc = "resolve" /\ window.left = 0 -> "expired"
      [] pc = "boot"                       -> "restart"
      [] OTHER                             -> "nothing"

\* What may be taken for granted, for the same.
Works    == {"apply", "observe", "contended"} \cap Faults = {}
Alone    == MaxDrift = 0
Whole    == \A d \in Docs : ConfirmDefault[d] > 0 => Reconciles[d] = Items
Readable == "unreadable" \notin Faults

Promise == INSTANCE ConfirmPromise
             WITH cause     <- acts_on,
                  held      <- {d \in Docs : InEffect(d, machine)},
                  been      <- reached,
                  good      <- lastGood,
                  pending   <- window.good,
                  returning <- (pc = "clear")

\* The last-good configuration is put back unless somebody confirms: a window
\* closes on a confirmation, or with the machine back in the document it was
\* opened against; under a window only a request to apply moves the machine,
\* and nothing replaces last-good (ncfg_confirm_arm, ncfg_confirm_keep,
\* ncfg_confirm_revert, ncfg_reconcile_defers).
UnlessConfirmed == Promise!Spec

\* Every window is eventually closed.
WindowsResolve == Open ~> ~Open

\* Again and again the machine agrees with the desired document on everything
\* the document lets the loop reconcile, unless the daemon is held or a
\* window is open.
DriftIsReconciled ==
    []<>(\/ Open \/ holding \/ state.desired = None
         \/ \A i \in Reconciles[state.desired] : Agrees(state.desired, i, machine[i]))
=============================================================================
