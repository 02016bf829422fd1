------------------------------ MODULE Failover ------------------------------
(***************************************************************************)
(* Probes, their verdicts, and the choice of a modem's SIM source that     *)
(* hangs off them: c/src/daemon/{probe,sim}.c, the part of a pass in       *)
(* reconcile_pass.c that drives both, and the same work in an apply        *)
(* request.  A modem is switched in four places: the selection moves in    *)
(* memory, it is published to a file, the link is taken down and up, and   *)
(* the pre_up hook reads the file and drives the hardware.                 *)
(*                                                                         *)
(* The loop is one thread.  A pass is one action up to its plan, since     *)
(* everything it reads there is its own; the plan is then run one action   *)
(* at a time, where links move by themselves, actions fail and the daemon  *)
(* dies.  Times are countdowns: due and settled are what is left of        *)
(* tally_t's due and settled_until, saturating at 0.                       *)
(***************************************************************************)
EXTENDS Integers, Sequences, FiniteSets

CONSTANTS
    Interfaces,     \* interfaces of the machine
    Order,          \* those interfaces, in the order a plan lists them
    Documents,      \* compiled documents
    Probe,          \* Probe[d][i]: its probe policy, or None
    Modem,          \* Modem[d][i]: its modem.sim list, or None
    Managed,        \* Managed[d]: interfaces that d manages and enables
    Reconciled,     \* Reconciled[d]: those whose drift d says to reconcile
    Sources,        \* names of SIM sources
    None,           \* NULL, and a device or a file that is not there
    StartFailures,  \* NCFG_PROBE_START_FAILURES_BEFORE_SET_ASIDE
    CountMax,       \* UINT32_MAX, lowered
    Answers,        \* Answers[i]: what running the probe of i may come to
    First,          \* bound: the documents a machine is first started with
    MaxTime,        \* bound: the longest interval and hold_down
    MaxEdits,       \* bound: writes to the configuration directory
    Flapping,       \* bound: the links that move by themselves
    MaxFaults       \* bound: moves of those, deaths of the daemon, actions that
                    \* fail, files that cannot be written, locks not to be had
                    \* and passes that a window holds off, all together

\* A probe block, and what probe.c and sim.c keep of an interface.
Policies ==
    [command : STRING, interval : 0 .. MaxTime, hold_down : 0 .. MaxTime,
     up_after : 1 .. CountMax, down_after : 1 .. CountMax]

Tallies ==
    [successes : 0 .. CountMax, failures : 0 .. CountMax, verdict : {"none", "up", "down"},
     due : 0 .. MaxTime, settled : 0 .. MaxTime, start_failures : 0 .. CountMax,
     set_aside : BOOLEAN]

Devices == [chosen : Nat, pending : BOOLEAN]

ASSUME ConstantsAssumption ==
    /\ None \notin Sources /\ None \notin Tallies /\ None \notin Devices
    /\ Order \in Seq(Interfaces)
    /\ \A i \in Interfaces : \E n \in DOMAIN Order : Order[n] = i
    /\ \A m, n \in DOMAIN Order : Order[m] = Order[n] => m = n
    /\ First \subseteq Documents
    /\ Probe \in [Documents -> [Interfaces -> Policies \cup {None}]]
    /\ Modem \in [Documents -> [Interfaces -> Seq(Sources) \cup {None}]]
    /\ Managed \in [Documents -> SUBSET Interfaces]
    /\ Reconciled \in [Documents -> SUBSET Interfaces]
    /\ {StartFailures, CountMax} \subseteq Nat \ {0}
    /\ Answers \in [Interfaces -> SUBSET {"ok", "failed", "unstarted"}]
    /\ Flapping \subseteq Interfaces
    /\ {MaxTime, MaxEdits, MaxFaults} \subseteq Nat

VARIABLES
    conf,      \* the document the configuration directory compiles to
    desired,   \* state->desired
    tally,     \* probes->at, by interface
    sims,      \* sims->at, by interface
    file,      \* <run>/modem/<device>: the published source, or None
    up,        \* whether a link is up
    hw,        \* the source a modem is really on
    loop,      \* what the loop thread is doing
    edits, faults,
    runs,      \* ghost: results of the probe of i, newest first
    unnoted,   \* ghost: modems whose file a reload or a start moved, or
               \* whose note died with the daemon
    tried      \* ghost: modems whose probe failed on the selected source

vars == <<conf, desired, tally, sims, file, up, hw, loop, edits, faults,
          runs, unnoted, tried>>
ghosts == <<runs, unnoted, tried>>

\* What probe.c keeps of an interface, made by tally_for.
NewTally == [successes |-> 0, failures |-> 0, verdict |-> "none", due |-> 0,
             settled |-> 0, start_failures |-> 0, set_aside |-> FALSE]

\* What sim.c keeps of a device, made by device_for.
NewDevice == [chosen |-> 0, pending |-> FALSE]

\* The loop thread between two passes, and with a plan to run: cycled are the
\* devices whose notes the plan may clear, done the actions that succeeded.
Idle == [pc |-> "idle", plan |-> {}, cycled |-> {}, done |-> {}, failed |-> FALSE]
Dead == [Idle EXCEPT !.pc = "dead"]
Planned(plan, cycled) == [Idle EXCEPT !.pc = "open", !.plan = plan, !.cycled = cycled]

-----------------------------------------------------------------------------
(* probe.c *)

\* one_more: never past the top.
one_more(n) == IF n = CountMax THEN n ELSE n + 1

\* The verdict v, where this run earned it and no dwell holds it off; dwell
\* then says how long it stands.
verdict_of(t, p, earned, v) ==
    IF t.settled = 0 /\ earned /\ t.verdict # v
    THEN [t EXCEPT !.verdict = v, !.settled = p.hold_down]
    ELSE t

\* A program that could not be started says nothing about the link.
not_started(t) ==
    LET n == one_more(t.start_failures)
    IN [t EXCEPT !.start_failures = n,
                 !.set_aside = n >= StartFailures,
                 !.verdict = IF n >= StartFailures THEN "none" ELSE @]

\* The failures are kept across a success: a link that alternates is judged.
answered_accumulating(t, p, ok) ==
    LET u == [t EXCEPT !.start_failures = 0]
        s == [u EXCEPT !.successes = one_more(@)]
        f == [u EXCEPT !.failures = one_more(@)]
    IN IF ok THEN verdict_of(s, p, s.successes >= p.up_after, "up")
             ELSE verdict_of(f, p, f.failures >= p.down_after, "down")

\* A program that ran, or a lease that is missing: a success ends the run of
\* failures and the other way about.
answered(t, p, ok) ==
    LET u == [t EXCEPT !.start_failures = 0]
        s == [u EXCEPT !.failures = 0, !.successes = one_more(@)]
        f == [u EXCEPT !.successes = 0, !.failures = one_more(@)]
    IN IF ok THEN verdict_of(s, p, s.successes >= p.up_after, "up")
             ELSE verdict_of(f, p, f.failures >= p.down_after, "down")

\* tally_for
tally_for(i) == IF tally[i] = None THEN NewTally ELSE tally[i]

\* Interfaces of document d whose program is asked now.
due(d) == {i \in Interfaces : /\ Probe[d][i] # None
                              /\ tally_for(i).due = 0
                              /\ ~tally_for(i).set_aside}

\* The loop body of ncfg_probes_run_due for interface i, answers[i] being
\* what its program came to.
asked(d, i, answers) ==
    LET p == Probe[d][i]
        t == tally_for(i)
        u == [t EXCEPT !.due = p.interval]
    IN CASE t.due > 0 -> t
         [] t.due = 0 /\ t.set_aside -> u
         [] i \in due(d) /\ answers[i] = "unstarted" -> not_started(u)
         [] OTHER -> answered(u, p, answers[i] = "ok")

\* ncfg_probes_run_due, with forget_the_unconfigured.
run_due(d, answers) ==
    [i \in Interfaces |-> IF Probe[d][i] = None THEN None ELSE asked(d, i, answers)]

\* ncfg_probes_verdict
verdict(t) == IF t = None THEN "none" ELSE t.verdict

\* Its *changed: a verdict that moved, or a tally that was dropped.
probes_changed(new) ==
    \E i \in Interfaces : \/ verdict(new[i]) # verdict(tally[i])
                          \/ tally[i] # None /\ new[i] = None

\* ncfg_probes_failing_at
failing(new) == {i \in Interfaces : verdict(new[i]) = "down"}

-----------------------------------------------------------------------------
(* sim.c *)

\* device_for
device_for(s, i) == IF s[i] = None THEN NewDevice ELSE s[i]

\* The source a device is on in document d, None where it lists none.
source(d, i, s) ==
    IF s.chosen < Len(Modem[d][i]) THEN Modem[d][i][s.chosen + 1] ELSE None

\* ncfg_sims_sync: a device keeps its place, or the last one there is.
sync(d) ==
    [i \in Interfaces |->
        IF Modem[d][i] = None THEN None
        ELSE LET s == device_for(sims, i)
                 last == IF Modem[d][i] = <<>> THEN 0 ELSE Len(Modem[d][i]) - 1
             IN [s EXCEPT !.chosen = IF @ > last THEN last ELSE @]]

\* ncfg_sims_sync's files, where the run directory takes them: a device
\* without a modem policy has its file removed.
sync_files(d, new, written) ==
    [i \in Interfaces |->
        CASE new[i] = None /\ sims[i] # None -> None
          [] new[i] # None /\ written -> source(d, i, new[i])
          [] OTHER -> file[i]]

\* Past the last source, to the first again.
advanced_wrapping(s, list) ==
    IF Len(list) > 1
    THEN [chosen |-> (s.chosen + 1) % Len(list), pending |-> TRUE]
    ELSE s

\* The next source, with no note of it.
advanced_unnoted(s, list) ==
    IF s.chosen + 1 < Len(list) THEN [s EXCEPT !.chosen = @ + 1] ELSE s

\* ncfg_sims_advance: the last source in the list is where it stops.
advanced(s, list) ==
    IF s.chosen + 1 < Len(list)
    THEN [chosen |-> s.chosen + 1, pending |-> TRUE]
    ELSE s

\* advance_failed_sims: every interface whose verdict is down, where one moved.
advance_failed_sims(d, s, new) ==
    [i \in Interfaces |->
        IF probes_changed(new) /\ i \in failing(new) /\ Modem[d][i] # None
        THEN advanced(device_for(s, i), Modem[d][i])
        ELSE s[i]]

\* publish, for the devices that ncfg_sims_advance moved: the note stays
\* whether or not the file could be written.
advance_files(d, s, new, files, written) ==
    [i \in Interfaces |->
        IF new[i] # None /\ new[i].chosen # device_for(s, i).chosen /\ written
        THEN source(d, i, new[i])
        ELSE files[i]]

\* ncfg_sims_pending_at
pending(s) == {i \in Interfaces : s[i] # None /\ s[i].pending}

-----------------------------------------------------------------------------
(* The plan *)

\* What a plan can hold: of each interface the link and the pre_up hook are
\* kept.
Actions == [op : {"link.down", "hook.run", "link.up"}, on : Interfaces]

\* Action a stands before action b in a plan.
Sooner(a, b) ==
    \E m, n \in DOMAIN Order :
        /\ Order[m] = a.on /\ Order[n] = b.on
        /\ \/ m < n
           \/ m = n /\ b.op # "link.down" /\ a.op \in {"link.down", "hook.run"} \ {b.op}

\* ncfg_plan_interface_contents: a cycle is declined for a link that is down
\* or not managed, and a link that is down is brought up.
contents(d, seen, wanted, a) ==
    LET cycling == seen[a.on] /\ a.on \in wanted
    IN a.on \in Managed[d] /\ (cycling \/ (~seen[a.on] /\ a.op # "link.down"))

\* ncfg_plan_build, with `wanted` as its option to cycle links.  Every interface is
\* taken to have a pre_up hook, which plan_hooks puts before its link comes up.
plan_build(d, seen, wanted) == {a \in Actions : contents(d, seen, wanted, a)}

\* Whatever waits, only what the drift policy names.
reconciles_by_policy(d, s, i) == i \in Reconciled[d]

\* ncfg_reconcile_reconciles
reconciles(d, s, i) == i \in pending(s) \/ i \in Reconciled[d]

\* ncfg_reconcile_restrict
restrict(plan, d, s) == {a \in plan : reconciles(d, s, a.on)}

\* ncfg_daemon_cycles_in
cycles_in(plan, s) == {i \in pending(s) : [op |-> "link.down", on |-> i] \in plan}

\* Whether anything of the device was done.
cycle_began(i) == \E a \in loop.done : a.on = i

\* the_cycle_happened: every record of the device says done.
the_cycle_happened(i) == \A a \in loop.plan : a.on = i => a \in loop.done

-----------------------------------------------------------------------------
(* The daemon *)

\* Something goes wrong, as often as the bound allows.
Fault == faults < MaxFaults /\ faults' = faults + 1

\* Whether the run directory takes the files, which it may not where it is
\* full for a moment, and whether a pass acts, which a window and the hold
\* keep it from.
Undisturbed(written, acts) == IF written /\ acts THEN UNCHANGED faults ELSE Fault

\* What the programs asked for document d come to.
Outcomes(d) ==
    {a \in [due(d) -> {"ok", "failed", "unstarted"}] : \A i \in due(d) : a[i] \in Answers[i]}

\* Ghost: the results of this pass, and the modems they were about.
record_runs(d, answers) ==
    runs' = [i \in Interfaces |->
        IF Probe[d][i] = None THEN <<>>
        ELSE IF i \in due(d) /\ answers[i] # "unstarted"
        THEN SubSeq(<<answers[i]>> \o runs[i], 1,
                    IF Len(runs[i]) < CountMax THEN Len(runs[i]) + 1 ELSE CountMax)
        ELSE runs[i]]

\* ncfg_reconcile_pass: the reload, the probes, the sources, and the look,
\* which plans and restricts the plan to what may be reconciled.  A wake is
\* a changed directory, a tick or the kernel, or something else.
Pass(wake, answers, written, acts) ==
    LET d      == IF wake = "config" THEN conf ELSE desired
        synced == IF wake = "config" THEN sync(d) ELSE sims
        files  == IF wake = "config" THEN sync_files(d, synced, written) ELSE file
        looks  == wake # "other" \/ probes_changed(tally')
        plan   == restrict(plan_build(d, up, pending(sims')), d, sims')
    IN /\ loop.pc = "idle"
       /\ Undisturbed(written, acts)
       /\ desired' = d
       /\ tally' = run_due(d, answers)
       /\ sims' = advance_failed_sims(d, synced, tally')
       /\ file' = advance_files(d, synced, sims', files, written)
       /\ loop' = IF looks /\ acts /\ plan # {}
                  THEN Planned(plan, cycles_in(plan, sims')) ELSE Idle
       /\ record_runs(d, answers)
       /\ unnoted' = unnoted \cup {i \in Interfaces : files[i] # file[i]}
       /\ tried' = tried \cup {i \in due(d) : answers[i] = "failed"}
       /\ UNCHANGED <<conf, up, hw, edits>>

\* ncfg_daemon_apply_request, as far as modems go: the plan is not restricted.
ApplyRequest ==
    LET plan == plan_build(desired, up, pending(sims))
    IN /\ loop.pc = "idle"
       /\ plan # {}
       /\ loop' = Planned(plan, cycles_in(plan, sims))
       /\ UNCHANGED <<conf, desired, tally, sims, file, up, hw, edits, faults, ghosts>>

\* answer_reload: the document moves and the selection does not follow yet.
ReloadRequest ==
    /\ loop.pc = "idle"
    /\ desired # conf
    /\ desired' = conf
    /\ UNCHANGED <<conf, tally, sims, file, up, hw, loop, edits, faults, ghosts>>

\* ncfg_daemon_open_executor: the lock may be somebody else's.
Open ==
    /\ loop.pc = "open"
    /\ \/ loop' = [loop EXCEPT !.pc = "run"] /\ UNCHANGED faults
       \/ Fault /\ loop' = Idle
    /\ UNCHANGED <<conf, desired, tally, sims, file, up, hw, edits, ghosts>>

\* What the pre_up hook leaves the modem on: it reads the published source.
driven(i) == IF file[i] = None THEN hw[i] ELSE file[i]

\* The action that ncfg_apply has come to.
Current(a) ==
    /\ loop.pc = "run" /\ ~loop.failed
    /\ a \in loop.plan \ loop.done
    /\ \A b \in loop.plan \ loop.done : ~Sooner(b, a)

\* ncfg_apply, one action that succeeds.
Execute ==
    \E a \in Actions :
       /\ Current(a)
       /\ loop' = [loop EXCEPT !.done = @ \cup {a}]
       /\ up' = [up EXCEPT ![a.on] = IF a.op = "hook.run" THEN @ ELSE a.op = "link.up"]
       /\ hw' = [hw EXCEPT ![a.on] = IF a.op = "hook.run" THEN driven(a.on) ELSE @]
       /\ unnoted' = IF a.op = "hook.run" THEN unnoted \ {a.on} ELSE unnoted
       /\ tried' = IF a.op = "hook.run" THEN tried \ {a.on} ELSE tried
       /\ UNCHANGED <<conf, desired, tally, sims, file, edits, runs, faults>>

\* ncfg_apply, one action that fails: the rest is skipped.  A hook that
\* failed may have driven the modem first.
Fail ==
    \E a \in Actions :
       /\ Fault
       /\ Current(a)
       /\ loop' = [loop EXCEPT !.failed = TRUE]
       /\ \/ UNCHANGED hw
          \/ a.op = "hook.run" /\ hw' = [hw EXCEPT ![a.on] = driven(a.on)]
       /\ UNCHANGED <<conf, desired, tally, sims, file, up, edits, ghosts>>

\* The apply is over: ncfg_sims_cycled forgets the notes it acted on.
Finish ==
    /\ loop.pc = "run" /\ (loop.failed \/ loop.done = loop.plan)
    /\ loop' = Idle
    /\ sims' = [i \in Interfaces |->
                   IF i \in loop.cycled /\ sims[i] # None /\ the_cycle_happened(i)
                   THEN [sims[i] EXCEPT !.pending = FALSE] ELSE sims[i]]
    /\ UNCHANGED <<conf, desired, tally, file, up, hw, edits, faults, ghosts>>

\* The daemon dies: what it kept in memory goes, the files stay.
Die ==
    /\ Fault
    /\ loop.pc # "dead"
    /\ loop' = Dead
    /\ tally' = [i \in Interfaces |-> None]
    /\ sims' = [i \in Interfaces |-> None]
    /\ runs' = [i \in Interfaces |-> <<>>]
    /\ unnoted' = unnoted \cup pending(sims)
    /\ UNCHANGED <<conf, desired, file, up, hw, edits, tried>>

\* ncfg_reconcile_start: published before the hold is decided, and then
\* ncfg_reconcile_converge, which asks for no cycle.
Start(written, acts) ==
    LET plan == plan_build(conf, up, {})
    IN /\ loop.pc = "dead"
       /\ Undisturbed(written, acts)
       /\ desired' = conf
       /\ sims' = sync(conf)
       /\ file' = sync_files(conf, sims', written)
       /\ loop' = IF acts /\ plan # {} THEN Planned(plan, {}) ELSE Idle
       /\ unnoted' = unnoted \cup {i \in Interfaces : file'[i] # file[i]}
       /\ UNCHANGED <<conf, tally, up, hw, edits, runs, tried>>

\* A second passes.
Second ==
    /\ \E i \in Interfaces : tally[i] # None /\ tally[i].due + tally[i].settled > 0
    /\ tally' = [i \in Interfaces |->
                    IF tally[i] = None THEN None
                    ELSE [tally[i] EXCEPT !.due = IF @ = 0 THEN 0 ELSE @ - 1,
                                          !.settled = IF @ = 0 THEN 0 ELSE @ - 1]]
    /\ UNCHANGED <<conf, desired, sims, file, up, hw, loop, edits, faults, ghosts>>

\* Somebody writes the configuration directory.
EditConfig ==
    /\ edits < MaxEdits
    /\ edits' = edits + 1
    /\ conf' \in Documents \ {conf}
    /\ UNCHANGED <<desired, tally, sims, file, up, hw, loop, faults, ghosts>>

\* A link goes down or comes up by itself.
Flap(i) ==
    /\ Fault
    /\ up' = [up EXCEPT ![i] = ~@]
    /\ UNCHANGED <<conf, desired, tally, sims, file, hw, loop, edits, ghosts>>

APass(wake) ==
    \E written \in BOOLEAN, acts \in BOOLEAN :
        \E answers \in Outcomes(IF wake = "config" THEN conf ELSE desired) :
            Pass(wake, answers, written, acts)

AStart == \E written \in BOOLEAN, acts \in BOOLEAN : Start(written, acts)

Init ==
    /\ conf \in First
    /\ desired = conf
    /\ tally = [i \in Interfaces |-> None]
    /\ sims = [i \in Interfaces |-> None]
    /\ file = [i \in Interfaces |-> None]
    /\ up = [i \in Interfaces |-> FALSE]
    /\ hw = [i \in Interfaces |-> None]
    /\ loop = Dead
    /\ edits = 0 /\ faults = 0
    /\ runs = [i \in Interfaces |-> <<>>]
    /\ unnoted = {} /\ tried = {}

Next ==
    \/ \E wake \in {"config", "tick", "other"} : APass(wake)
    \/ ApplyRequest \/ ReloadRequest
    \/ Open \/ Execute \/ Fail \/ Finish
    \/ Die \/ AStart
    \/ Second \/ EditConfig \/ \E i \in Flapping : Flap(i)

Spec == Init /\ [][Next]_vars

\* The daemon's thread goes on: a plan that is running is run to its end, and
\* the tick, which stays readable until a round takes it, gets its pass.
FairSpec ==
    /\ Spec
    /\ WF_vars(AStart) /\ WF_vars(Open) /\ WF_vars(Execute \/ Fail) /\ WF_vars(Finish)
    /\ SF_vars(APass("tick"))

-----------------------------------------------------------------------------
(* Properties *)

Loops ==
    [pc : {"dead", "idle", "open", "run"}, plan : SUBSET Actions,
     cycled : SUBSET Interfaces, done : SUBSET Actions, failed : BOOLEAN]

\* The types of the variables.
TypeOK ==
    /\ {conf, desired} \subseteq Documents
    /\ tally \in [Interfaces -> Tallies \cup {None}]
    /\ sims \in [Interfaces -> Devices \cup {None}]
    /\ file \in [Interfaces -> Sources \cup {None}]
    /\ up \in [Interfaces -> BOOLEAN]
    /\ hw \in [Interfaces -> Sources \cup {None}]
    /\ loop \in Loops /\ loop.done \subseteq loop.plan
    /\ edits \in 0 .. MaxEdits /\ faults \in 0 .. MaxFaults
    /\ runs \in [Interfaces -> Seq({"ok", "failed"})]
    /\ unnoted \subseteq Interfaces /\ tried \subseteq Interfaces

\* The newest n results of the probe of i, the one of this step included, all
\* say r.
Lately(n, i, r) == Len(runs'[i]) >= n /\ \A k \in 1 .. n : runs'[i][k] = r

\* A verdict is what the latest results say: up after up_after successes in a
\* row, down after down_after failures in a row, none while a dwell holds it
\* off, and otherwise what it was -- across reloads that change the policy
\* and attempts that could not be started.
VerdictFollowsRuns ==
    [][\A i \in Interfaces : runs'[i] # runs[i] /\ tally[i] # None /\ tally'[i] # None =>
          LET p == Probe[desired'][i]
              free == tally[i].settled = 0
          IN verdict(tally'[i]) =
                CASE free /\ Lately(p.up_after, i, "ok") -> "up"
                  [] free /\ Lately(p.down_after, i, "failed") -> "down"
                  [] OTHER -> verdict(tally[i])]_vars

\* A modem that is up on another source than the published one is waiting
\* for a cycle, unless it was a reload or a start that moved the file or the
\* daemon died since: ncfg_sims_cycled loses no note to an apply that
\* failed, stopped half-way or did not cycle the link.
SwitchIsRemembered ==
    \A i \in Interfaces :
        loop.pc = "idle" /\ up[i] /\ sims[i] # None /\ file[i] # None /\ hw[i] # file[i]
            => sims[i].pending \/ i \in unnoted

\* ncfg_sims_cycled forgets a note only where the hook has put the modem on
\* the published source.
NoteIsKeptUntilSwitched ==
    [][\A i \in Interfaces : /\ sims[i] # None /\ sims[i].pending
                             /\ sims'[i] # None /\ ~sims'[i].pending
          => hw'[i] = driven(i)]_vars

\* The selection goes down the list, one source at a time and never back,
\* but for a list that no longer reaches the source it was on.
NeverGoesBack ==
    [][\A i \in Interfaces : sims[i] # None /\ sims'[i] # None =>
          \/ sims'[i].chosen \in {sims[i].chosen, sims[i].chosen + 1}
          \/ sims[i].chosen >= Len(Modem[desired'][i])]_vars

\* A cycle that is waiting is carried out, or its device goes.
NotesAreCycled ==
    \A i \in Interfaces :
        (sims[i] # None /\ sims[i].pending) ~> (sims[i] = None \/ ~sims[i].pending)

\* doc/decision/0152: "A source that is selected stays selected until its
\* probe fails."  A selection is left only where a probe of the modem has
\* failed since the hook last drove it (advance_failed_sims).
SelectedUntilItsProbeFails ==
    [][\A i \in Interfaces :
          sims[i] # None /\ sims'[i] # None /\ sims'[i].chosen = sims[i].chosen + 1
          => i \in tried']_vars

=============================================================================
