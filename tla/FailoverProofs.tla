--------------------------- MODULE FailoverProofs ---------------------------
(***************************************************************************)
(* The probes and the modems for any interfaces, documents, policies and   *)
(* lists: the types; that a note of a switch is kept until the hook has    *)
(* carried it out, from FailoverInv; that the selection never goes back;   *)
(* and that a verdict is what the latest results say, from Counted.        *)
(***************************************************************************)
EXTENDS Failover, TLAPS

-----------------------------------------------------------------------------
(* The inductive invariants *)

\* What a modem waits for: it is on the published source, or its note is
\* kept, or the note is one that a reload, a start or a death took.  Unlike
\* SwitchIsRemembered this is said of every state, also of a link that is
\* down (it may come up by itself), of a plan half-way, and of a modem that
\* the document no longer lists.
Kept ==
    \A i \in Interfaces :
        hw[i] # driven(i) => i \in pending(sims) \/ i \in unnoted

\* A hook that has run has put its modem on the published source, which
\* nothing publishes anew until the plan is over.
Hooked == \A a \in loop.done : a.op = "hook.run" => hw[a.on] = driven(a.on)

\* A plan that takes a link down to cycle it also runs its hook.
Whole == \A i \in loop.cycled : [op |-> "hook.run", on |-> i] \in loop.plan

FailoverInv == TypeOK /\ Kept /\ Hooked /\ Whole

\* The newest n of the results s all say r.
AllSay(s, n, r) == Len(s) >= n /\ \A k \in 1 .. n : s[k] = r
Newest(n, i, r) == AllSay(runs[i], n, r)

\* The results t are x and then s, the oldest cut off at CountMax.
InFrontOf(x, s, t) ==
    /\ Len(t) = IF Len(s) < CountMax THEN Len(s) + 1 ELSE CountMax
    /\ t[1] = x /\ \A k \in 2 .. Len(t) : t[k] = s[k - 1]

\* The counters of a tally are the lengths of the runs that the newest
\* results end in, up to CountMax.
Counted ==
    \A i \in Interfaces :
        /\ Len(runs[i]) <= CountMax
        /\ \A n \in 1 .. CountMax :
              /\ tally_for(i).successes >= n <=> Newest(n, i, "ok")
              /\ tally_for(i).failures >= n <=> Newest(n, i, "failed")

-----------------------------------------------------------------------------
(* probe.c *)

\* The bounds are numbers, and a counter reaches 1.
LEMMA Bounds ==
    /\ CountMax \in Nat /\ CountMax >= 1 /\ StartFailures \in Nat
    /\ MaxTime \in Nat /\ MaxEdits \in Nat /\ MaxFaults \in Nat
  BY ConstantsAssumption

\* A saturating counter stays in its width, and passes every threshold that
\* a counter without one would pass.
LEMMA OneMore ==
    ASSUME NEW n \in 0 .. CountMax
    PROVE  /\ one_more(n) \in 0 .. CountMax
           /\ \A m \in 1 .. CountMax : one_more(n) >= m <=> n >= m - 1
  BY Bounds DEF one_more

\* A dwell or a threshold leaves the counters of a tally alone.
LEMMA VerdictOf ==
    ASSUME NEW t \in Tallies, NEW p \in Policies, NEW earned \in BOOLEAN, NEW v \in {"up", "down"}
    PROVE  LET u == verdict_of(t, p, earned, v)
           IN /\ u \in Tallies
              /\ u.successes = t.successes /\ u.failures = t.failures
              /\ u.verdict = IF t.settled = 0 /\ earned THEN v ELSE t.verdict
  BY Zenon, Bounds DEF verdict_of, Tallies, Policies

\* An attempt that could not be started counts as no result.
LEMMA NotStarted ==
    ASSUME NEW t \in Tallies
    PROVE  /\ not_started(t) \in Tallies
           /\ not_started(t).successes = t.successes
           /\ not_started(t).failures = t.failures
<1> DEFINE n == one_more(t.start_failures)
           aside == n >= StartFailures
           v == IF n >= StartFailures THEN "none" ELSE t.verdict
<1>1. n \in 0 .. CountMax /\ aside \in BOOLEAN /\ v \in {"none", "up", "down"}
  BY OneMore DEF Tallies
<1>2. not_started(t) = [t EXCEPT !.start_failures = n, !.set_aside = aside, !.verdict = v]
  BY Zenon DEF not_started
<1> HIDE DEF n, aside, v
<1> QED BY Zenon, <1>1, <1>2 DEF Tallies

\* A result goes to one counter and clears the other; the verdict is earned by
\* the counter it went to.
LEMMA Answered ==
    ASSUME NEW t \in Tallies, NEW p \in Policies, NEW ok \in BOOLEAN
    PROVE  LET u == answered(t, p, ok)
           IN /\ u \in Tallies
              /\ u.successes = IF ok THEN one_more(t.successes) ELSE 0
              /\ u.failures = IF ok THEN 0 ELSE one_more(t.failures)
              /\ u.verdict = IF t.settled # 0 THEN t.verdict
                             ELSE IF ok /\ u.successes >= p.up_after THEN "up"
                             ELSE IF ~ok /\ u.failures >= p.down_after THEN "down"
                             ELSE t.verdict
<1> DEFINE u == [t EXCEPT !.start_failures = 0]
           s == [u EXCEPT !.failures = 0, !.successes = one_more(@)]
           f == [u EXCEPT !.successes = 0, !.failures = one_more(@)]
<1>1. u \in Tallies /\ u.settled = t.settled /\ u.verdict = t.verdict
      /\ u.successes = t.successes /\ u.failures = t.failures
  BY Bounds DEF Tallies
<1>2. t.successes \in 0 .. CountMax /\ t.failures \in 0 .. CountMax
  BY Zenon DEF Tallies
<1>3. s \in Tallies /\ s.settled = t.settled /\ s.verdict = t.verdict
      /\ s.successes = one_more(t.successes) /\ s.failures = 0
  BY Zenon, <1>1, <1>2, OneMore, Bounds DEF Tallies
<1>4. f \in Tallies /\ f.settled = t.settled /\ f.verdict = t.verdict
      /\ f.failures = one_more(t.failures) /\ f.successes = 0
  BY Zenon, <1>1, <1>2, OneMore, Bounds DEF Tallies
<1> DEFINE up_of == s.successes >= p.up_after
           down_of == f.failures >= p.down_after
<1>5. answered(t, p, ok) = IF ok THEN verdict_of(s, p, up_of, "up")
                                 ELSE verdict_of(f, p, down_of, "down")
  BY Zenon DEF answered
<1>6. up_of \in BOOLEAN /\ down_of \in BOOLEAN
  OBVIOUS
<1> HIDE DEF u, s, f
<1>7. CASE ok
  <2> DEFINE w == verdict_of(s, p, up_of, "up")
  <2>1. /\ w \in Tallies
        /\ w.successes = s.successes /\ w.failures = s.failures
        /\ w.verdict = IF s.settled = 0 /\ up_of THEN "up" ELSE s.verdict
    BY Zenon, <1>3, <1>6, VerdictOf
  <2>2. answered(t, p, ok) = w
    BY Zenon, <1>5, <1>7
  <2> HIDE DEF w
  <2> QED BY Zenon, <1>3, <1>7, <2>1, <2>2
<1>8. CASE ~ok
  <2> DEFINE w == verdict_of(f, p, down_of, "down")
  <2>1. /\ w \in Tallies
        /\ w.successes = f.successes /\ w.failures = f.failures
        /\ w.verdict = IF f.settled = 0 /\ down_of THEN "down" ELSE f.verdict
    BY Zenon, <1>4, <1>6, VerdictOf
  <2>2. answered(t, p, ok) = w
    BY Zenon, <1>5, <1>8
  <2> HIDE DEF w
  <2> QED BY Zenon, <1>4, <1>8, <2>1, <2>2
<1> QED BY Zenon, <1>7, <1>8

\* The tally an interface has, or starts with, is a tally.
LEMMA TallyFor ==
    ASSUME TypeOK, NEW i \in Interfaces
    PROVE  tally_for(i) \in Tallies
<1>1. NewTally \in Tallies
  BY Bounds DEF NewTally, Tallies
<1> QED BY Zenon, <1>1 DEF tally_for, TypeOK

\* What the probes of document d leave of interface i: a tally that counts the
\* result there was, or none.
LEMMA Asked ==
    ASSUME TypeOK, NEW d \in Documents, NEW i \in Interfaces, Probe[d][i] # None,
           NEW answers \in Outcomes(d)
    PROVE  LET t == tally_for(i)
               u == asked(d, i, answers)
           IN /\ u \in Tallies
              /\ i \in due(d) => answers[i] \in {"ok", "failed", "unstarted"}
              /\ i \notin due(d) \/ answers[i] = "unstarted" =>
                    u.successes = t.successes /\ u.failures = t.failures
              /\ i \in due(d) /\ answers[i] # "unstarted" =>
                    \E v \in Tallies : /\ u = answered(v, Probe[d][i], answers[i] = "ok")
                                       /\ v = [t EXCEPT !.due = Probe[d][i].interval]
<1> DEFINE t == tally_for(i)
           p == Probe[d][i]
           v == [t EXCEPT !.due = p.interval]
<1>1. t \in Tallies
  BY Zenon, TallyFor
<1>2. p \in Policies
  BY ConstantsAssumption
<1>3. v \in Tallies /\ v.successes = t.successes /\ v.failures = t.failures
  BY Zenon, <1>1, <1>2 DEF Tallies, Policies
<1>4. i \in due(d) => answers[i] \in {"ok", "failed", "unstarted"}
  BY Zenon DEF Outcomes
<1>5. i \in due(d) <=> t.due = 0 /\ ~t.set_aside
  BY Zenon DEF due
<1>6. t.due \in Nat
  BY <1>1, Bounds DEF Tallies
<1>7. asked(d, i, answers) =
        CASE t.due > 0 -> t
          [] t.due = 0 /\ t.set_aside -> v
          [] i \in due(d) /\ answers[i] = "unstarted" -> not_started(v)
          [] OTHER -> answered(v, p, answers[i] = "ok")
  BY Zenon DEF asked
<1> HIDE DEF t, v, p
<1>8. CASE i \notin due(d)
  <2>1. asked(d, i, answers) = t \/ asked(d, i, answers) = v
    BY <1>5, <1>6, <1>7, <1>8
  <2> QED BY Zenon, <1>1, <1>3, <1>8, <2>1 DEF t
<1>9. CASE i \in due(d) /\ answers[i] = "unstarted"
  <2>1. asked(d, i, answers) = not_started(v)
    BY <1>5, <1>6, <1>7, <1>9
  <2> QED BY Zenon, <1>3, <1>9, <2>1, NotStarted DEF t
<1>10. CASE i \in due(d) /\ answers[i] # "unstarted"
  <2>1. asked(d, i, answers) = answered(v, p, answers[i] = "ok")
    BY <1>5, <1>6, <1>7, <1>10
  <2>2. asked(d, i, answers) \in Tallies
    BY Zenon, <1>2, <1>3, <2>1, Answered
  <2> QED BY Zenon, <1>3, <1>4, <1>10, <2>1, <2>2 DEF t, v, p
<1> QED BY Zenon, <1>8, <1>9, <1>10

-----------------------------------------------------------------------------
(* sim.c *)

\* A device that appears starts at the first source, with no note.
LEMMA DeviceFor ==
    ASSUME NEW s \in [Interfaces -> Devices \cup {None}], NEW i \in Interfaces
    PROVE  /\ device_for(s, i) \in Devices
           /\ s[i] # None => device_for(s, i) = s[i]
  BY Zenon DEF device_for, Devices, NewDevice

\* What ncfg_sims_sync leaves of a device: there is one where the document
\* lists one, its note is the one it had, and it has moved only where the list
\* no longer reaches it.
LEMMA Sync ==
    ASSUME TypeOK, NEW d \in Documents
    PROVE  /\ sync(d) \in [Interfaces -> Devices \cup {None}]
           /\ \A i \in Interfaces :
                 /\ sync(d)[i] # None <=> Modem[d][i] # None
                 /\ sims[i] # None /\ sync(d)[i] # None =>
                       /\ sync(d)[i].pending = sims[i].pending
                       /\ \/ sync(d)[i].chosen = sims[i].chosen
                          \/ sims[i].chosen >= Len(Modem[d][i])
<1> SUFFICES ASSUME NEW i \in Interfaces
             PROVE  /\ sync(d)[i] \in Devices \cup {None}
                    /\ sync(d)[i] # None <=> Modem[d][i] # None
                    /\ sims[i] # None /\ sync(d)[i] # None =>
                          /\ sync(d)[i].pending = sims[i].pending
                          /\ \/ sync(d)[i].chosen = sims[i].chosen
                             \/ sims[i].chosen >= Len(Modem[d][i])
  BY Zenon DEF sync
<1>1. CASE Modem[d][i] = None
  <2>1. sync(d)[i] = None
    BY Zenon, <1>1 DEF sync
  <2> QED BY Zenon, <1>1, <2>1
<1>2. CASE Modem[d][i] # None
  <2> DEFINE s == device_for(sims, i)
             list == Modem[d][i]
             last == IF list = <<>> THEN 0 ELSE Len(list) - 1
             to == IF s.chosen > last THEN last ELSE s.chosen
  <2>1. s \in Devices /\ (sims[i] # None => s = sims[i])
    BY Zenon, DeviceFor DEF TypeOK
  <2>2. list \in Seq(Sources) /\ Len(list) \in Nat /\ (list = <<>> <=> Len(list) = 0)
    BY <1>2, ConstantsAssumption
  <2>3. sync(d)[i] = [s EXCEPT !.chosen = to]
    BY Zenon, <1>2 DEF sync
  <2> HIDE DEF s, list
  <2>4. s.chosen \in Nat /\ last \in Nat /\ to \in Nat /\ (to = s.chosen \/ s.chosen >= Len(list))
    BY <2>1, <2>2 DEF Devices
  <2> HIDE DEF to
  <2>5. /\ sync(d)[i] \in Devices
        /\ sync(d)[i].chosen = to
        /\ sync(d)[i].pending = s.pending
    BY Zenon, <2>1, <2>3, <2>4 DEF Devices
  <2>6. sync(d)[i] # None
    BY Zenon, <2>5, ConstantsAssumption
  <2> QED BY Zenon, <1>2, <2>1, <2>4, <2>5, <2>6 DEF list
<1> QED BY Zenon, <1>1, <1>2

\* A step down the list goes one source on and leaves a note.
LEMMA Advanced ==
    ASSUME NEW s \in Devices, NEW list \in Seq(Sources)
    PROVE  /\ advanced(s, list) \in Devices
           /\ \/ advanced(s, list) = s
              \/ /\ advanced(s, list).chosen = s.chosen + 1
                 /\ advanced(s, list).pending
  BY DEF advanced, Devices

\* What advance_failed_sims leaves of a device: what there was, or the next
\* source and a note of it.
LEMMA AdvanceFailed ==
    ASSUME NEW d \in Documents, NEW s \in [Interfaces -> Devices \cup {None}], NEW new
    PROVE  LET r == advance_failed_sims(d, s, new)
           IN /\ r \in [Interfaces -> Devices \cup {None}]
              /\ \A i \in Interfaces :
                    \/ r[i] = s[i]
                    \/ /\ r[i] # None /\ Modem[d][i] # None
                       /\ \/ r[i] = device_for(s, i)
                          \/ /\ r[i].chosen = device_for(s, i).chosen + 1
                             /\ r[i].pending
<1> DEFINE r == advance_failed_sims(d, s, new)
<1>1. r = [i \in Interfaces |-> r[i]]
  BY Zenon DEF advance_failed_sims
<1>2. ASSUME NEW i \in Interfaces
      PROVE  /\ r[i] \in Devices \cup {None}
             /\ \/ r[i] = s[i]
                \/ /\ r[i] # None /\ Modem[d][i] # None
                   /\ \/ r[i] = device_for(s, i)
                      \/ /\ r[i].chosen = device_for(s, i).chosen + 1
                         /\ r[i].pending
  <2>1. r[i] = s[i] \/ (Modem[d][i] # None /\ r[i] = advanced(device_for(s, i), Modem[d][i]))
    BY Zenon DEF advance_failed_sims
  <2>2. device_for(s, i) \in Devices
    BY Zenon, DeviceFor
  <2>3. Modem[d][i] # None => Modem[d][i] \in Seq(Sources)
    BY ConstantsAssumption
  <2>4. None \notin Devices
    BY Zenon, ConstantsAssumption
  <2> HIDE DEF r
  <2> QED BY Zenon, <2>1, <2>2, <2>3, <2>4, Advanced
<1> HIDE DEF r
<1>3. r \in [Interfaces -> Devices \cup {None}]
  BY Zenon, <1>1, <1>2
<1> QED BY Zenon, <1>2, <1>3 DEF r

\* A published source is one of the list, or none.
LEMMA Source ==
    ASSUME NEW d \in Documents, NEW i \in Interfaces, Modem[d][i] # None, NEW s \in Devices
    PROVE  source(d, i, s) \in Sources \cup {None}
<1>1. Modem[d][i] \in Seq(Sources)
  BY ConstantsAssumption
<1> QED BY <1>1 DEF source, Devices

\* The files that a sync leaves are sources of the document's lists; a device
\* that goes has its file removed.
LEMMA SyncFiles ==
    ASSUME TypeOK, NEW d \in Documents, NEW written \in BOOLEAN
    PROVE  LET f == sync_files(d, sync(d), written)
           IN /\ f \in [Interfaces -> Sources \cup {None}]
              /\ \A i \in Interfaces : sims[i] # None /\ sync(d)[i] = None => f[i] = None
<1> DEFINE f == sync_files(d, sync(d), written)
<1>1. f = [i \in Interfaces |-> f[i]]
  BY Zenon DEF sync_files
<1>2. ASSUME NEW i \in Interfaces
      PROVE  /\ f[i] \in Sources \cup {None}
             /\ sims[i] # None /\ sync(d)[i] = None => f[i] = None
  <2>1. CASE sync(d)[i] = None
    <3>1. f[i] = IF sims[i] # None THEN None ELSE file[i]
      BY Zenon, <2>1 DEF sync_files
    <3>2. file[i] \in Sources \cup {None}
      BY Zenon DEF TypeOK
    <3> QED BY Zenon, <2>1, <3>1, <3>2
  <2>2. CASE sync(d)[i] # None
    <3>1. sync(d)[i] \in Devices /\ Modem[d][i] # None
      BY Zenon, <2>2, Sync
    <3>2. f[i] = source(d, i, sync(d)[i]) \/ f[i] = file[i]
      BY Zenon, <2>2 DEF sync_files
    <3>3. source(d, i, sync(d)[i]) \in Sources \cup {None}
      BY Zenon, <3>1, Source
    <3>4. file[i] \in Sources \cup {None}
      BY Zenon DEF TypeOK
    <3> QED BY Zenon, <2>2, <3>2, <3>3, <3>4
  <2> QED BY Zenon, <2>1, <2>2
<1> HIDE DEF f
<1>3. f \in [Interfaces -> Sources \cup {None}]
  BY Zenon, <1>1, <1>2
<1> QED BY Zenon, <1>2, <1>3 DEF f

\* The files that an advance leaves: only a device that was moved and noted
\* has another one.
LEMMA AdvanceFiles ==
    ASSUME NEW d \in Documents, NEW s \in [Interfaces -> Devices \cup {None}], NEW new,
           NEW files \in [Interfaces -> Sources \cup {None}], NEW written \in BOOLEAN
    PROVE  LET r == advance_failed_sims(d, s, new)
               f == advance_files(d, s, r, files, written)
           IN /\ f \in [Interfaces -> Sources \cup {None}]
              /\ \A i \in Interfaces : f[i] # files[i] => r[i] # None /\ r[i].pending
              /\ \A i \in Interfaces : r[i] = None => f[i] = files[i]
<1> DEFINE r == advance_failed_sims(d, s, new)
           f == advance_files(d, s, r, files, written)
<1>1. f = [i \in Interfaces |-> f[i]]
  BY Zenon DEF advance_files
<1>2. ASSUME NEW i \in Interfaces
      PROVE  /\ f[i] \in Sources \cup {None}
             /\ f[i] # files[i] => r[i] # None /\ r[i].pending
             /\ r[i] = None => f[i] = files[i]
  <2>1. f[i] = IF r[i] # None /\ r[i].chosen # device_for(s, i).chosen /\ written
               THEN source(d, i, r[i]) ELSE files[i]
    BY Zenon DEF advance_files
  <2>2. /\ r[i] \in Devices \cup {None}
        /\ \/ r[i] = s[i]
           \/ /\ r[i] # None /\ Modem[d][i] # None
              /\ \/ r[i] = device_for(s, i)
                 \/ /\ r[i].chosen = device_for(s, i).chosen + 1
                    /\ r[i].pending
    BY AdvanceFailed
  <2>3. s[i] # None => device_for(s, i) = s[i]
    BY Zenon, DeviceFor
  <2> HIDE DEF r, f
  <2>4. CASE r[i] # None /\ r[i].chosen # device_for(s, i).chosen
    <3>1. Modem[d][i] # None /\ r[i].pending
      BY Zenon, <2>2, <2>3, <2>4
    <3>2. source(d, i, r[i]) \in Sources \cup {None}
      BY Zenon, <2>2, <2>4, <3>1, Source
    <3> QED BY Zenon, <2>1, <2>4, <3>1, <3>2
  <2>5. CASE ~(r[i] # None /\ r[i].chosen # device_for(s, i).chosen)
    BY Zenon, <2>1, <2>5
  <2> QED BY Zenon, <2>4, <2>5
<1> HIDE DEF f, r
<1>3. f \in [Interfaces -> Sources \cup {None}]
  BY Zenon, <1>1, <1>2
<1> QED BY Zenon, <1>2, <1>3 DEF f, r

-----------------------------------------------------------------------------
(* The steps that move a selection or a file *)

\* What a pass does to the modems.
LEMMA PassMoves ==
    ASSUME TypeOK, NEW wake, NEW answers, NEW written \in BOOLEAN, NEW acts \in BOOLEAN,
           Pass(wake, answers, written, acts)
    PROVE  /\ desired' \in Documents
           /\ sims' \in [Interfaces -> Devices \cup {None}]
           /\ file' \in [Interfaces -> Sources \cup {None}]
           /\ \A i \in Interfaces :
                 /\ sims[i] # None /\ sims'[i] # None =>
                       /\ sims[i].pending => sims'[i].pending
                       /\ \/ sims'[i].chosen \in {sims[i].chosen, sims[i].chosen + 1}
                          \/ sims[i].chosen >= Len(Modem[desired'][i])
                 /\ sims[i] # None /\ sims'[i] = None => file'[i] = None
                 /\ file'[i] # file[i] => (sims'[i] # None /\ sims'[i].pending) \/ i \in unnoted'
<1> DEFINE d      == IF wake = "config" THEN conf ELSE desired
           synced == IF wake = "config" THEN sync(d) ELSE sims
           files  == IF wake = "config" THEN sync_files(d, synced, written) ELSE file
<1>1. /\ desired' = d
      /\ sims' = advance_failed_sims(d, synced, tally')
      /\ file' = advance_files(d, synced, sims', files, written)
      /\ unnoted' = unnoted \cup {i \in Interfaces : files[i] # file[i]}
  BY Zenon DEF Pass
<1>2. d \in Documents
  BY Zenon DEF TypeOK
<1>3. synced \in [Interfaces -> Devices \cup {None}]
  BY Zenon, <1>2, Sync DEF TypeOK
<1>4. files \in [Interfaces -> Sources \cup {None}]
  <2>1. CASE wake = "config"
    BY Zenon, <1>2, <2>1, SyncFiles
  <2>2. CASE wake # "config"
    BY Zenon, <2>2 DEF TypeOK
  <2> QED BY Zenon, <2>1, <2>2
<1>5. ASSUME NEW i \in Interfaces
      PROVE  /\ sims[i] # None /\ synced[i] # None =>
                   /\ synced[i].pending = sims[i].pending
                   /\ \/ synced[i].chosen = sims[i].chosen
                      \/ sims[i].chosen >= Len(Modem[d][i])
             /\ sims[i] # None /\ synced[i] = None => files[i] = None /\ Modem[d][i] = None
  <2>1. CASE wake = "config"
    BY Zenon, <1>2, <2>1, Sync, SyncFiles
  <2>2. CASE wake # "config"
    BY Zenon, <2>2
  <2> QED BY Zenon, <2>1, <2>2
<1> HIDE DEF d, synced, files
<1>6. /\ sims' \in [Interfaces -> Devices \cup {None}]
      /\ file' \in [Interfaces -> Sources \cup {None}]
  BY Zenon, <1>1, <1>2, <1>3, <1>4, AdvanceFailed, AdvanceFiles
<1>7. ASSUME NEW i \in Interfaces
      PROVE  /\ \/ sims'[i] = synced[i]
                \/ /\ sims'[i] # None /\ Modem[d][i] # None
                   /\ \/ sims'[i] = device_for(synced, i)
                      \/ /\ sims'[i].chosen = device_for(synced, i).chosen + 1
                         /\ sims'[i].pending
             /\ file'[i] # files[i] => sims'[i] # None /\ sims'[i].pending
             /\ sims'[i] = None => file'[i] = files[i]
             /\ synced[i] # None => device_for(synced, i) = synced[i]
  BY <1>1, <1>2, <1>3, <1>4, AdvanceFailed, AdvanceFiles, DeviceFor
<1>8. ASSUME NEW i \in Interfaces, sims[i] # None, sims'[i] # None
      PROVE  /\ sims[i].pending => sims'[i].pending
             /\ \/ sims'[i].chosen \in {sims[i].chosen, sims[i].chosen + 1}
                \/ sims[i].chosen >= Len(Modem[d][i])
  BY <1>5, <1>7, <1>8
<1>9. ASSUME NEW i \in Interfaces, sims[i] # None, sims'[i] = None
      PROVE  file'[i] = None
  BY Zenon, <1>5, <1>7, <1>9
<1>10. ASSUME NEW i \in Interfaces, file'[i] # file[i]
       PROVE  (sims'[i] # None /\ sims'[i].pending) \/ i \in unnoted'
  BY Zenon, <1>1, <1>7, <1>10
<1> QED BY Zenon, <1>1, <1>2, <1>6, <1>8, <1>9, <1>10

\* What a start does to the modems: none is in memory before it.
LEMMA StartMoves ==
    ASSUME TypeOK, NEW written \in BOOLEAN, NEW acts \in BOOLEAN, Start(written, acts)
    PROVE  /\ desired' \in Documents
           /\ sims' \in [Interfaces -> Devices \cup {None}]
           /\ file' \in [Interfaces -> Sources \cup {None}]
           /\ \A i \in Interfaces :
                 /\ sims[i] # None /\ sims'[i] # None =>
                       /\ sims[i].pending => sims'[i].pending
                       /\ \/ sims'[i].chosen \in {sims[i].chosen, sims[i].chosen + 1}
                          \/ sims[i].chosen >= Len(Modem[desired'][i])
                 /\ sims[i] # None /\ sims'[i] = None => file'[i] = None
                 /\ file'[i] # file[i] => i \in unnoted'
<1>1. /\ desired' = conf /\ conf \in Documents
      /\ sims' = sync(conf)
      /\ file' = sync_files(conf, sync(conf), written)
      /\ unnoted' = unnoted \cup {i \in Interfaces : file'[i] # file[i]}
  BY Zenon DEF Start, TypeOK
<1>2. /\ sims' \in [Interfaces -> Devices \cup {None}]
      /\ file' \in [Interfaces -> Sources \cup {None}]
  BY Zenon, <1>1, Sync, SyncFiles
<1>3. ASSUME NEW i \in Interfaces
      PROVE  /\ sims[i] # None /\ sims'[i] # None =>
                   /\ sims[i].pending => sims'[i].pending
                   /\ \/ sims'[i].chosen \in {sims[i].chosen, sims[i].chosen + 1}
                      \/ sims[i].chosen >= Len(Modem[desired'][i])
             /\ sims[i] # None /\ sims'[i] = None => file'[i] = None
  BY Zenon, <1>1, Sync, SyncFiles
<1> QED BY Zenon, <1>1, <1>2, <1>3

\* What the programs leave of the tallies is tallies.
LEMMA RunDue ==
    ASSUME TypeOK, NEW d \in Documents, NEW answers \in Outcomes(d)
    PROVE  run_due(d, answers) \in [Interfaces -> Tallies \cup {None}]
  BY Zenon, Asked DEF run_due

\* A result put in front of the earlier ones, of which the oldest go.
LEMMA InFront ==
    ASSUME NEW S, NEW s \in Seq(S), NEW x \in S, NEW m \in 1 .. Len(s) + 1
    PROVE  LET t == SubSeq(<<x>> \o s, 1, m)
           IN /\ t \in Seq(S) /\ Len(t) = m
              /\ t[1] = x /\ \A k \in 2 .. m : t[k] = s[k - 1]
<1> DEFINE w == <<x>> \o s
<1>1. w \in Seq(S) /\ Len(w) = Len(s) + 1
  OBVIOUS
<1>2. w[1] = x /\ \A k \in 2 .. Len(s) + 1 : w[k] = s[k - 1]
  OBVIOUS
<1> HIDE DEF w
<1>3. /\ SubSeq(w, 1, m) \in Seq(S) /\ Len(SubSeq(w, 1, m)) = m
      /\ \A k \in 1 .. m : SubSeq(w, 1, m)[k] = w[k]
  BY <1>1
<1> QED BY <1>2, <1>3 DEF w

\* The results of a pass: the new one in front, or what there was, or none.
LEMMA RecordRuns ==
    ASSUME TypeOK, NEW d \in Documents, NEW answers \in Outcomes(d), record_runs(d, answers)
    PROVE  /\ runs' \in [Interfaces -> Seq({"ok", "failed"})]
           /\ \A i \in Interfaces :
                 /\ Probe[d][i] = None => runs'[i] = <<>>
                 /\ Probe[d][i] # None /\ (i \notin due(d) \/ answers[i] = "unstarted") =>
                       runs'[i] = runs[i]
                 /\ Probe[d][i] # None /\ i \in due(d) /\ answers[i] # "unstarted" =>
                       /\ answers[i] \in {"ok", "failed"}
                       /\ Len(runs'[i]) = IF Len(runs[i]) < CountMax THEN Len(runs[i]) + 1
                                                                    ELSE CountMax
                       /\ runs'[i][1] = answers[i]
                       /\ \A k \in 2 .. Len(runs'[i]) : runs'[i][k] = runs[i][k - 1]
<1>1. runs' = [i \in Interfaces |-> runs'[i]]
  BY Zenon DEF record_runs
<1>2. ASSUME NEW i \in Interfaces, Probe[d][i] = None
      PROVE  runs'[i] = <<>> /\ runs'[i] \in Seq({"ok", "failed"})
  BY <1>2 DEF record_runs
<1>3. ASSUME NEW i \in Interfaces, Probe[d][i] # None, i \notin due(d) \/ answers[i] = "unstarted"
      PROVE  runs'[i] = runs[i] /\ runs'[i] \in Seq({"ok", "failed"})
  BY Zenon, <1>3 DEF record_runs, TypeOK
<1>4. ASSUME NEW i \in Interfaces, Probe[d][i] # None, i \in due(d), answers[i] # "unstarted"
      PROVE  /\ runs'[i] \in Seq({"ok", "failed"})
             /\ answers[i] \in {"ok", "failed"}
             /\ Len(runs'[i]) = IF Len(runs[i]) < CountMax THEN Len(runs[i]) + 1 ELSE CountMax
             /\ runs'[i][1] = answers[i]
             /\ \A k \in 2 .. Len(runs'[i]) : runs'[i][k] = runs[i][k - 1]
  <2> DEFINE m == IF Len(runs[i]) < CountMax THEN Len(runs[i]) + 1 ELSE CountMax
  <2>1. answers[i] \in {"ok", "failed"}
    BY Zenon, <1>4 DEF Outcomes
  <2>2. runs'[i] = SubSeq(<<answers[i]>> \o runs[i], 1, m)
    BY Zenon, <1>4 DEF record_runs
  <2>3. runs[i] \in Seq({"ok", "failed"})
    BY Zenon DEF TypeOK
  <2>4. m \in 1 .. Len(runs[i]) + 1
    BY <2>3, Bounds
  <2> HIDE DEF m
  <2>5. /\ runs'[i] \in Seq({"ok", "failed"}) /\ Len(runs'[i]) = m
        /\ runs'[i][1] = answers[i]
        /\ \A k \in 2 .. m : runs'[i][k] = runs[i][k - 1]
    BY SMTT(30), <2>1, <2>2, <2>3, <2>4, InFront
  <2> QED BY Zenon, <2>1, <2>5 DEF m
<1>5. \A i \in Interfaces : runs'[i] \in Seq({"ok", "failed"})
  BY Zenon, <1>2, <1>3, <1>4
<1> QED BY Zenon, <1>1, <1>2, <1>3, <1>4, <1>5

\* A plan that cycles a link runs its hook, also where it was restricted to
\* what may be reconciled: the restriction keeps or drops an interface whole.
LEMMA Plans ==
    ASSUME NEW d, NEW s
    PROVE  LET whole == plan_build(d, up, pending(s))
               some  == restrict(whole, d, s)
           IN /\ whole \subseteq Actions /\ some \subseteq Actions
              /\ cycles_in(whole, s) \subseteq Interfaces
              /\ cycles_in(some, s) \subseteq Interfaces
              /\ \A i \in cycles_in(whole, s) : [op |-> "hook.run", on |-> i] \in whole
              /\ \A i \in cycles_in(some, s) : [op |-> "hook.run", on |-> i] \in some
<1> DEFINE whole == plan_build(d, up, pending(s))
           some  == restrict(whole, d, s)
<1>1. whole \subseteq Actions /\ some \subseteq whole
  BY Zenon DEF plan_build, restrict
<1>2. cycles_in(whole, s) \subseteq Interfaces /\ cycles_in(some, s) \subseteq Interfaces
  BY Zenon DEF cycles_in, pending
<1>3. ASSUME NEW i \in Interfaces, [op |-> "link.down", on |-> i] \in whole
      PROVE  [op |-> "hook.run", on |-> i] \in whole
  BY Zenon, <1>3 DEF plan_build, contents, Actions
<1>4. ASSUME NEW i \in Interfaces, [op |-> "link.down", on |-> i] \in some
      PROVE  [op |-> "hook.run", on |-> i] \in some
  BY Zenon, <1>3, <1>4 DEF restrict
<1>5. \A i \in cycles_in(whole, s) : [op |-> "hook.run", on |-> i] \in whole
  BY Zenon, <1>2, <1>3 DEF cycles_in
<1>6. \A i \in cycles_in(some, s) : [op |-> "hook.run", on |-> i] \in some
  BY Zenon, <1>2, <1>4 DEF cycles_in
<1> QED BY Zenon, <1>1, <1>2, <1>5, <1>6

\* The loop thread without a plan.
LEMMA NoPlan ==
    /\ Idle \in Loops /\ Idle.done = {} /\ Idle.plan = {} /\ Idle.cycled = {}
    /\ Dead \in Loops /\ Dead.done = {} /\ Dead.plan = {} /\ Dead.cycled = {}
<1>1. Idle \in Loops /\ Idle.done = {} /\ Idle.plan = {} /\ Idle.cycled = {}
  BY Zenon DEF Idle, Loops
<1>2. Dead \in Loops /\ Dead.done = {} /\ Dead.plan = {} /\ Dead.cycled = {}
  BY Zenon DEF Dead, Idle, Loops
<1> QED BY Zenon, <1>1, <1>2

\* A fault is counted.
LEMMA Faults ==
    ASSUME TypeOK, Fault \/ UNCHANGED faults
    PROVE  faults' \in 0 .. MaxFaults
  BY Bounds DEF TypeOK, Fault

\* What a pass leaves for the loop thread to do.
LEMMA PassPlans ==
    ASSUME TypeOK, NEW wake, NEW answers, NEW written \in BOOLEAN, NEW acts \in BOOLEAN,
           Pass(wake, answers, written, acts)
    PROVE  /\ loop' \in Loops /\ loop'.done = {}
           /\ \A i \in loop'.cycled : [op |-> "hook.run", on |-> i] \in loop'.plan
<1> DEFINE d    == IF wake = "config" THEN conf ELSE desired
           plan == restrict(plan_build(d, up, pending(sims')), d, sims')
<1>1. loop' = Planned(plan, cycles_in(plan, sims')) \/ loop' = Idle
  BY Zenon DEF Pass
<1>2. /\ plan \subseteq Actions /\ cycles_in(plan, sims') \subseteq Interfaces
      /\ \A i \in cycles_in(plan, sims') : [op |-> "hook.run", on |-> i] \in plan
  BY Zenon, Plans
<1> HIDE DEF plan
<1>3. CASE loop' = Planned(plan, cycles_in(plan, sims'))
  <2>1. /\ loop' \in Loops /\ loop'.done = {}
        /\ loop'.plan = plan /\ loop'.cycled = cycles_in(plan, sims')
    <3> DEFINE cycled == cycles_in(plan, sims')
    <3>1. plan \in SUBSET Actions /\ cycled \in SUBSET Interfaces
      BY Zenon, <1>2
    <3>2. loop' = Planned(plan, cycled)
      BY Zenon, <1>3
    <3> HIDE DEF cycled
    <3>3. loop' \in Loops /\ loop'.done = {} /\ loop'.plan = plan /\ loop'.cycled = cycled
      BY Zenon, <3>1, <3>2 DEF Planned, Idle, Loops
    <3> QED BY Zenon, <3>3 DEF cycled
  <2> QED BY Zenon, <1>2, <2>1
<1>4. CASE loop' = Idle
  BY Zenon, <1>4, NoPlan
<1> QED BY Zenon, <1>1, <1>3, <1>4

\* The same of an apply request and of a start.
LEMMA OtherPlans ==
    ASSUME TypeOK, ApplyRequest \/ \E written \in BOOLEAN, acts \in BOOLEAN : Start(written, acts)
    PROVE  /\ loop' \in Loops /\ loop'.done = {}
           /\ \A i \in loop'.cycled : [op |-> "hook.run", on |-> i] \in loop'.plan
<1>1. CASE ApplyRequest
  <2> DEFINE plan == plan_build(desired, up, pending(sims))
  <2>1. loop' = Planned(plan, cycles_in(plan, sims))
    BY Zenon, <1>1 DEF ApplyRequest
  <2>2. /\ plan \subseteq Actions /\ cycles_in(plan, sims) \subseteq Interfaces
        /\ \A i \in cycles_in(plan, sims) : [op |-> "hook.run", on |-> i] \in plan
    BY Zenon, Plans
  <2> HIDE DEF plan
  <2>3. /\ loop' \in Loops /\ loop'.done = {}
        /\ loop'.plan = plan /\ loop'.cycled = cycles_in(plan, sims)
    <3> DEFINE cycled == cycles_in(plan, sims)
    <3>1. plan \in SUBSET Actions /\ cycled \in SUBSET Interfaces
      BY Zenon, <2>2
    <3>2. loop' = Planned(plan, cycled)
      BY Zenon, <2>1
    <3> HIDE DEF cycled
    <3>3. loop' \in Loops /\ loop'.done = {} /\ loop'.plan = plan /\ loop'.cycled = cycled
      BY Zenon, <3>1, <3>2 DEF Planned, Idle, Loops
    <3> QED BY Zenon, <3>3 DEF cycled
  <2> QED BY Zenon, <2>2, <2>3
<1>2. CASE \E written \in BOOLEAN, acts \in BOOLEAN : Start(written, acts)
  <2> DEFINE plan == plan_build(conf, up, {})
  <2>1. loop' = Planned(plan, {}) \/ loop' = Idle
    BY Zenon, <1>2 DEF Start
  <2>2. plan \subseteq Actions
    BY Zenon DEF plan_build
  <2> HIDE DEF plan
  <2>3. CASE loop' = Planned(plan, {})
    <3>1. loop' \in Loops /\ loop'.done = {} /\ loop'.cycled = {}
      BY Zenon, <2>2, <2>3 DEF Planned, Idle, Loops
    <3> QED BY Zenon, <3>1
  <2>4. CASE loop' = Idle
    BY Zenon, <2>4, NoPlan
  <2> QED BY Zenon, <2>1, <2>3, <2>4
<1> QED BY Zenon, <1>1, <1>2

-----------------------------------------------------------------------------
(* The types *)

\* The types hold of a machine that has not started the daemon yet.
LEMMA InitTypes == Init => TypeOK
<1> SUFFICES ASSUME Init
             PROVE  TypeOK
  BY Zenon
<1>1. conf \in Documents
  BY Zenon, ConstantsAssumption DEF Init
<1>2. loop \in Loops /\ loop.done \subseteq loop.plan
  BY Zenon, NoPlan DEF Init
<1>3. runs \in [Interfaces -> Seq({"ok", "failed"})]
  BY DEF Init
<1> QED BY <1>1, <1>2, <1>3, Bounds DEF Init, TypeOK

\* A pass keeps the types.
LEMMA PassTypes ==
    ASSUME TypeOK, NEW wake \in {"config", "tick", "other"}, APass(wake)
    PROVE  TypeOK'
<1>1. PICK written \in BOOLEAN, acts \in BOOLEAN :
         \E answers \in Outcomes(IF wake = "config" THEN conf ELSE desired) :
             Pass(wake, answers, written, acts)
  BY Zenon DEF APass
<1> DEFINE d == IF wake = "config" THEN conf ELSE desired
<1>2. PICK answers \in Outcomes(d) : Pass(wake, answers, written, acts)
  BY Zenon, <1>1
<1>3. d \in Documents
  BY Zenon DEF TypeOK
<1>4. /\ desired' \in Documents
      /\ sims' \in [Interfaces -> Devices \cup {None}]
      /\ file' \in [Interfaces -> Sources \cup {None}]
  BY Zenon, <1>2, PassMoves
<1>5. tally' \in [Interfaces -> Tallies \cup {None}]
  <2>1. tally' = run_due(d, answers)
    BY Zenon, <1>2 DEF Pass
  <2> QED BY Zenon, <1>3, <2>1, RunDue
<1>6. loop' \in Loops /\ loop'.done \subseteq loop'.plan
  BY Zenon, <1>2, PassPlans
<1>7. runs' \in [Interfaces -> Seq({"ok", "failed"})]
  <2>1. record_runs(d, answers)
    BY Zenon, <1>2 DEF Pass
  <2> QED BY Zenon, <1>3, <2>1, RecordRuns
<1>8. faults' \in 0 .. MaxFaults
  BY Zenon, <1>2, Faults DEF Pass, Undisturbed
<1>9. unnoted' \subseteq Interfaces
  BY Zenon, <1>2 DEF Pass, TypeOK
<1>10. tried' \subseteq Interfaces
  <2>1. tried' = tried \cup {i \in due(d) : answers[i] = "failed"}
    BY Zenon, <1>2 DEF Pass
  <2> QED BY Zenon, <2>1 DEF due, TypeOK
<1>11. UNCHANGED <<conf, up, hw, edits>>
  BY Zenon, <1>2 DEF Pass
<1> QED BY Zenon, <1>4, <1>5, <1>6, <1>7, <1>8, <1>9, <1>10, <1>11 DEF TypeOK

\* The steps of a plan that is run keep the types.
LEMMA RunTypes ==
    ASSUME TypeOK, Open \/ Execute \/ Fail \/ Finish
    PROVE  TypeOK'
<1>1. CASE Open
  <2>1. loop' = [loop EXCEPT !.pc = "run"] \/ loop' = Idle
    BY Zenon, <1>1 DEF Open
  <2>2. loop' \in Loops /\ loop'.done \subseteq loop'.plan
    <3>1. CASE loop' = [loop EXCEPT !.pc = "run"]
      BY Zenon, <3>1 DEF TypeOK, Loops
    <3>2. CASE loop' = Idle
      BY Zenon, <3>2, NoPlan
    <3> QED BY Zenon, <2>1, <3>1, <3>2
  <2>3. faults' \in 0 .. MaxFaults
    BY Zenon, <1>1, Faults DEF Open
  <2> QED BY Zenon, <1>1, <2>2, <2>3 DEF Open, TypeOK, ghosts
<1>2. CASE Execute
  <2>1. PICK a \in Actions :
          /\ Current(a)
          /\ loop' = [loop EXCEPT !.done = @ \cup {a}]
          /\ up' = [up EXCEPT ![a.on] = IF a.op = "hook.run" THEN @ ELSE a.op = "link.up"]
          /\ hw' = [hw EXCEPT ![a.on] = IF a.op = "hook.run" THEN driven(a.on) ELSE @]
          /\ unnoted' = IF a.op = "hook.run" THEN unnoted \ {a.on} ELSE unnoted
          /\ tried' = IF a.op = "hook.run" THEN tried \ {a.on} ELSE tried
          /\ UNCHANGED <<conf, desired, tally, sims, file, edits, runs, faults>>
    BY Zenon, <1>2 DEF Execute
  <2>2. a.on \in Interfaces
    BY Zenon DEF Actions
  <2>3. loop' \in Loops /\ loop'.done \subseteq loop'.plan
    BY Zenon, <2>1 DEF Current, TypeOK, Loops
  <2>4. up' \in [Interfaces -> BOOLEAN]
    BY Zenon, <2>1, <2>2 DEF TypeOK
  <2>5. hw' \in [Interfaces -> Sources \cup {None}]
    BY Zenon, <2>1, <2>2 DEF TypeOK, driven
  <2> QED BY Zenon, <2>1, <2>3, <2>4, <2>5 DEF TypeOK
<1>3. CASE Fail
  <2>1. PICK a \in Actions :
          /\ Fault /\ Current(a)
          /\ loop' = [loop EXCEPT !.failed = TRUE]
          /\ UNCHANGED hw \/ hw' = [hw EXCEPT ![a.on] = driven(a.on)]
          /\ UNCHANGED <<conf, desired, tally, sims, file, up, edits, ghosts>>
    BY Zenon, <1>3 DEF Fail
  <2>2. a.on \in Interfaces
    BY Zenon DEF Actions
  <2>3. loop' \in Loops /\ loop'.done \subseteq loop'.plan
    BY Zenon, <2>1 DEF TypeOK, Loops
  <2>4. hw' \in [Interfaces -> Sources \cup {None}]
    BY Zenon, <2>1, <2>2 DEF TypeOK, driven
  <2>5. faults' \in 0 .. MaxFaults
    BY Zenon, <2>1, Faults
  <2> QED BY Zenon, <2>1, <2>3, <2>4, <2>5 DEF TypeOK, ghosts
<1>4. CASE Finish
  <2>1. loop' \in Loops /\ loop'.done \subseteq loop'.plan
    BY Zenon, <1>4, NoPlan DEF Finish
  <2>2. ASSUME NEW i \in Interfaces
        PROVE  sims'[i] \in Devices \cup {None}
    <3>1. sims[i] # None => [sims[i] EXCEPT !.pending = FALSE] \in Devices
      BY Zenon DEF TypeOK, Devices
    <3> QED BY Zenon, <1>4, <3>1 DEF Finish, TypeOK
  <2>3. sims' \in [Interfaces -> Devices \cup {None}]
    BY Zenon, <1>4, <2>2 DEF Finish
  <2> QED BY Zenon, <1>4, <2>1, <2>3 DEF Finish, TypeOK, ghosts
<1> QED BY Zenon, <1>1, <1>2, <1>3, <1>4

\* A second takes from the times of a tally and leaves its counters alone.
LEMMA SecondTally ==
    ASSUME TypeOK, Second, NEW i \in Interfaces, tally[i] # None
    PROVE  /\ tally'[i] \in Tallies
           /\ tally'[i].successes = tally[i].successes
           /\ tally'[i].failures = tally[i].failures
<1> DEFINE less(n) == IF n = 0 THEN 0 ELSE n - 1
<1>1. tally[i] \in Tallies
  BY Zenon DEF TypeOK
<1>2. tally'[i] = [tally[i] EXCEPT !.due = less(@), !.settled = less(@)]
  BY Zenon DEF Second
<1>3. \A n \in 0 .. MaxTime : less(n) \in 0 .. MaxTime
  BY Bounds
<1>4. tally[i].due \in 0 .. MaxTime /\ tally[i].settled \in 0 .. MaxTime
  BY Zenon, <1>1 DEF Tallies
<1> HIDE DEF less
<1>5. less(tally[i].due) \in 0 .. MaxTime /\ less(tally[i].settled) \in 0 .. MaxTime
  BY Zenon, <1>3, <1>4
<1> QED BY Zenon, <1>1, <1>2, <1>5 DEF Tallies

\* What happens to the daemon from outside, and its start, keep the types.
LEMMA OtherTypes ==
    ASSUME TypeOK,
           \/ ApplyRequest \/ ReloadRequest \/ Die \/ AStart
           \/ Second \/ EditConfig \/ \E i \in Flapping : Flap(i)
    PROVE  TypeOK'
<1>1. CASE ApplyRequest
  BY Zenon, <1>1, OtherPlans DEF ApplyRequest, TypeOK, ghosts
<1>2. CASE ReloadRequest
  BY Zenon, <1>2 DEF ReloadRequest, TypeOK, ghosts
<1>3. CASE Die
  <2>1. loop' \in Loops /\ loop'.done \subseteq loop'.plan
    BY Zenon, <1>3, NoPlan DEF Die
  <2>2. runs' \in [Interfaces -> Seq({"ok", "failed"})]
    BY <1>3 DEF Die
  <2>3. faults' \in 0 .. MaxFaults
    BY Zenon, <1>3, Faults DEF Die
  <2>4. unnoted' \subseteq Interfaces
    BY Zenon, <1>3 DEF Die, TypeOK, pending
  <2> QED BY Zenon, <1>3, <2>1, <2>2, <2>3, <2>4 DEF Die, TypeOK
<1>4. CASE AStart
  <2>1. PICK written \in BOOLEAN, acts \in BOOLEAN : Start(written, acts)
    BY Zenon, <1>4 DEF AStart
  <2>2. /\ desired' \in Documents
        /\ sims' \in [Interfaces -> Devices \cup {None}]
        /\ file' \in [Interfaces -> Sources \cup {None}]
    BY Zenon, <2>1, StartMoves
  <2>3. loop' \in Loops /\ loop'.done \subseteq loop'.plan
    BY Zenon, <2>1, OtherPlans
  <2>4. faults' \in 0 .. MaxFaults
    BY Zenon, <2>1, Faults DEF Start, Undisturbed
  <2>5. unnoted' \subseteq Interfaces
    BY Zenon, <2>1 DEF Start, TypeOK
  <2>6. UNCHANGED <<conf, tally, up, hw, edits, runs, tried>>
    BY Zenon, <2>1 DEF Start
  <2> QED BY Zenon, <2>2, <2>3, <2>4, <2>5, <2>6 DEF TypeOK
<1>5. CASE Second
  <2>1. ASSUME NEW i \in Interfaces, tally[i] # None
        PROVE  tally'[i] \in Tallies
    BY Zenon, <1>5, <2>1, SecondTally
  <2>2. tally' \in [Interfaces -> Tallies \cup {None}]
    BY Zenon, <1>5, <2>1 DEF Second
  <2> QED BY Zenon, <1>5, <2>2 DEF Second, TypeOK, ghosts
<1>6. CASE EditConfig
  BY <1>6, Bounds DEF EditConfig, TypeOK, ghosts
<1>7. CASE \E i \in Flapping : Flap(i)
  <2>1. faults' \in 0 .. MaxFaults
    BY Zenon, <1>7, Faults DEF Flap
  <2> QED BY SMTT(30), <1>7, <2>1, ConstantsAssumption DEF Flap, TypeOK, ghosts
<1> QED BY Zenon, <1>1, <1>2, <1>3, <1>4, <1>5, <1>6, <1>7

\* Every step keeps the types.
LEMMA NextTypes == TypeOK /\ [Next]_vars => TypeOK'
<1>1. ASSUME TypeOK, UNCHANGED vars
      PROVE  TypeOK'
  BY Zenon, <1>1 DEF TypeOK, vars
<1> QED BY Zenon, <1>1, PassTypes, RunTypes, OtherTypes DEF Next

\* The variables of the probes and the modems have their types: no counter
\* of probe.c passes its width, and no selection or published source is one
\* that no list has.
THEOREM TypeCorrect == Spec => []TypeOK
  BY InitTypes, NextTypes, PTL DEF Spec

-----------------------------------------------------------------------------
(* The notes of switches *)

\* Where the file, the modem and the plan stay as they are, so does what they
\* say of each other.
LEMMA Undriven ==
    ASSUME UNCHANGED <<file, hw>>
    PROVE  \A i \in Interfaces : driven(i)' = driven(i) /\ hw'[i] = hw[i]
  BY Zenon DEF driven

\* A hook of interface j, whether or not it failed afterwards, puts j on the
\* published source and leaves the other modems alone.
LEMMA Drives ==
    ASSUME TypeOK, NEW j \in Interfaces, UNCHANGED file,
           hw' = [hw EXCEPT ![j] = driven(j)]
    PROVE  /\ hw'[j] = driven(j)'
           /\ \A i \in Interfaces : hw[i] = driven(i) => hw'[i] = driven(i)'
<1>1. hw'[j] = driven(j)
  BY Zenon DEF TypeOK
<1>2. \A i \in Interfaces \ {j} : hw'[i] = hw[i]
  BY Zenon DEF TypeOK
<1> QED BY Zenon, <1>1, <1>2 DEF driven

\* A pass and a start leave FailoverInv: every file they move is noted, in the
\* device or in unnoted, and a note they find is kept or its file removed.
LEMMA PassKeeps ==
    ASSUME FailoverInv, TypeOK',
           (\E wake \in {"config", "tick", "other"} : APass(wake)) \/ AStart
    PROVE  FailoverInv'
<1>1. /\ loop' \in Loops /\ loop'.done = {}
      /\ \A i \in loop'.cycled : [op |-> "hook.run", on |-> i] \in loop'.plan
  BY Zenon, PassPlans, OtherPlans DEF APass, AStart, FailoverInv
<1>2. UNCHANGED hw /\ unnoted \subseteq unnoted'
  BY DEF APass, AStart, Pass, Start
<1>3. \A i \in Interfaces :
         /\ sims[i] # None /\ sims'[i] # None => (sims[i].pending => sims'[i].pending)
         /\ sims[i] # None /\ sims'[i] = None => file'[i] = None
         /\ file'[i] # file[i] => (sims'[i] # None /\ sims'[i].pending) \/ i \in unnoted'
  BY Zenon, PassMoves, StartMoves DEF APass, AStart, FailoverInv
<1>4. Kept'
  <2> SUFFICES ASSUME NEW i \in Interfaces, hw'[i] # driven(i)'
               PROVE  (sims'[i] # None /\ sims'[i].pending) \/ i \in unnoted'
    BY Zenon DEF Kept, pending
  <2>1. CASE file'[i] # file[i]
    BY Zenon, <1>3, <2>1
  <2>2. CASE file'[i] = file[i]
    <3>1. file'[i] # None /\ hw[i] # driven(i)
      BY Zenon, <1>2, <2>2 DEF driven
    <3>2. (sims[i] # None /\ sims[i].pending) \/ i \in unnoted
      BY Zenon, <3>1 DEF FailoverInv, Kept, pending
    <3> QED BY Zenon, <1>2, <1>3, <3>1, <3>2
  <2> QED BY Zenon, <2>1, <2>2
<1> QED BY Zenon, <1>1, <1>4 DEF FailoverInv, Hooked, Whole

\* The steps of a plan: a hook settles what was noted of its modem, and only
\* a device whose hook has run loses its note.
LEMMA RunKeeps ==
    ASSUME FailoverInv, TypeOK', Open \/ Execute \/ Fail \/ Finish
    PROVE  FailoverInv'
<1> USE DEF FailoverInv
<1>1. CASE Open
  <2>1. UNCHANGED <<file, hw, sims, unnoted>>
    BY Zenon, <1>1 DEF Open, ghosts
  <2>2. Kept'
    BY Zenon, <2>1, Undriven DEF Kept, pending
  <2>3. loop' = [loop EXCEPT !.pc = "run"] \/ loop' = Idle
    BY Zenon, <1>1 DEF Open
  <2>4. \/ loop'.done = loop.done /\ loop'.cycled = loop.cycled /\ loop'.plan = loop.plan
        \/ loop'.done = {} /\ loop'.cycled = {}
    BY Zenon, <2>3, NoPlan DEF TypeOK, Loops
  <2>5. \A a \in loop.done : a.on \in Interfaces
    BY Zenon DEF TypeOK, Loops, Actions
  <2>6. Hooked' /\ Whole'
    BY Zenon, <2>1, <2>4, <2>5, Undriven DEF Hooked, Whole
  <2> QED BY Zenon, <2>2, <2>6
<1>2. CASE Execute
  <2>1. PICK a \in Actions :
          /\ loop' = [loop EXCEPT !.done = @ \cup {a}]
          /\ hw' = [hw EXCEPT ![a.on] = IF a.op = "hook.run" THEN driven(a.on) ELSE @]
          /\ unnoted' = IF a.op = "hook.run" THEN unnoted \ {a.on} ELSE unnoted
          /\ UNCHANGED <<sims, file>>
    BY Zenon, <1>2 DEF Execute
  <2>2. a.on \in Interfaces /\ \A b \in loop.done : b.on \in Interfaces
    BY Zenon DEF TypeOK, Loops, Actions
  <2>3. loop'.done = loop.done \cup {a} /\ loop'.cycled = loop.cycled /\ loop'.plan = loop.plan
    BY Zenon, <2>1 DEF TypeOK, Loops
  <2>4. CASE a.op = "hook.run"
    <3>1. /\ hw'[a.on] = driven(a.on)'
          /\ \A i \in Interfaces : hw[i] = driven(i) => hw'[i] = driven(i)'
      BY Zenon, <2>1, <2>2, <2>4, Drives
    <3>2. Hooked' /\ Whole'
      BY Zenon, <2>2, <2>3, <3>1 DEF Hooked, Whole
    <3>3. Kept'
      BY Zenon, <2>1, <2>4, <3>1 DEF Kept, pending
    <3> QED BY Zenon, <3>2, <3>3
  <2>5. CASE a.op # "hook.run"
    <3>1. UNCHANGED <<file, hw, sims, unnoted>>
      BY Zenon, <2>1, <2>5 DEF TypeOK
    <3>2. Hooked' /\ Whole'
      BY <2>2, <2>3, <2>5, <3>1, Undriven DEF Hooked, Whole
    <3>3. Kept'
      BY Zenon, <3>1, Undriven DEF Kept, pending
    <3> QED BY Zenon, <3>2, <3>3
  <2> QED BY Zenon, <2>4, <2>5
<1>3. CASE Fail
  <2>1. PICK a \in Actions :
          /\ loop' = [loop EXCEPT !.failed = TRUE]
          /\ UNCHANGED hw \/ hw' = [hw EXCEPT ![a.on] = driven(a.on)]
          /\ UNCHANGED <<sims, file, unnoted>>
    BY Zenon, <1>3 DEF Fail, ghosts
  <2>2. a.on \in Interfaces /\ \A b \in loop.done : b.on \in Interfaces
    BY Zenon DEF TypeOK, Loops, Actions
  <2>3. loop'.done = loop.done /\ loop'.cycled = loop.cycled /\ loop'.plan = loop.plan
    BY Zenon, <2>1 DEF TypeOK, Loops
  <2>4. \A i \in Interfaces : hw[i] = driven(i) => hw'[i] = driven(i)'
    BY Zenon, <2>1, <2>2, Drives, Undriven
  <2>5. Hooked' /\ Whole'
    BY Zenon, <2>2, <2>3, <2>4 DEF Hooked, Whole
  <2>6. Kept'
    BY Zenon, <2>1, <2>4 DEF Kept, pending
  <2> QED BY Zenon, <2>5, <2>6
<1>4. CASE Finish
  <2>1. /\ UNCHANGED <<file, hw, unnoted>>
        /\ sims' = [i \in Interfaces |->
                      IF i \in loop.cycled /\ sims[i] # None /\ the_cycle_happened(i)
                      THEN [sims[i] EXCEPT !.pending = FALSE] ELSE sims[i]]
        /\ loop' = Idle
    BY Zenon, <1>4 DEF Finish, ghosts
  <2>2. Hooked' /\ Whole'
    BY Zenon, <2>1, NoPlan DEF Hooked, Whole
  <2>3. ASSUME NEW i \in Interfaces, hw[i] # driven(i)
        PROVE  sims'[i] = sims[i]
    <3>1. ~(i \in loop.cycled /\ the_cycle_happened(i))
      <4>1. SUFFICES ASSUME i \in loop.cycled, the_cycle_happened(i)
                     PROVE  FALSE
        BY Zenon
      <4> DEFINE h == [op |-> "hook.run", on |-> i]
      <4>2. h \in loop.plan /\ h.on = i /\ h.op = "hook.run"
        BY Zenon, <4>1 DEF Whole
      <4> HIDE DEF h
      <4>3. h \in loop.done
        BY Zenon, <4>1, <4>2 DEF the_cycle_happened
      <4> QED BY Zenon, <2>3, <4>2, <4>3 DEF Hooked
    <3> QED BY Zenon, <2>1, <3>1
  <2>4. Kept'
    BY Zenon, <2>1, <2>3, Undriven DEF Kept, pending
  <2> QED BY Zenon, <2>2, <2>4
<1> QED BY Zenon, <1>1, <1>2, <1>3, <1>4

\* What happens from outside: only a death drops a note, and it is one of
\* unnoted then.
LEMMA OtherKeeps ==
    ASSUME FailoverInv, TypeOK',
           \/ ApplyRequest \/ ReloadRequest \/ Die
           \/ Second \/ EditConfig \/ \E i \in Flapping : Flap(i)
    PROVE  FailoverInv'
<1> USE DEF FailoverInv
<1>1. UNCHANGED <<file, hw>>
  BY Zenon DEF ApplyRequest, ReloadRequest, Die, Second, EditConfig, Flap
<1>2. \A a \in loop.done : a.on \in Interfaces
  BY Zenon DEF TypeOK, Loops, Actions
<1>3. CASE ApplyRequest
  <2>1. /\ loop'.done = {}
        /\ \A i \in loop'.cycled : [op |-> "hook.run", on |-> i] \in loop'.plan
    BY Zenon, <1>3, OtherPlans
  <2>2. UNCHANGED <<sims, unnoted>>
    BY Zenon, <1>3 DEF ApplyRequest, ghosts
  <2> QED BY Zenon, <1>1, <2>1, <2>2, Undriven DEF Kept, Hooked, Whole, pending
<1>4. CASE Die
  <2>1. loop'.done = {} /\ loop'.cycled = {}
    BY Zenon, <1>4, NoPlan DEF Die
  <2>2. unnoted' = unnoted \cup pending(sims)
    BY Zenon, <1>4 DEF Die
  <2> QED BY Zenon, <1>1, <2>1, <2>2, Undriven DEF Kept, Hooked, Whole
<1>5. CASE ReloadRequest \/ Second \/ EditConfig \/ \E i \in Flapping : Flap(i)
  <2>1. UNCHANGED <<sims, unnoted, loop>>
    BY Zenon, <1>5 DEF ReloadRequest, Second, EditConfig, Flap, ghosts
  <2> QED BY Zenon, <1>1, <1>2, <2>1, Undriven DEF Kept, Hooked, Whole, pending
<1> QED BY Zenon, <1>3, <1>4, <1>5

\* FailoverInv is inductive.
LEMMA Inductive ==
    /\ Init => FailoverInv
    /\ FailoverInv /\ [Next]_vars => FailoverInv'
<1>1. ASSUME Init
      PROVE  FailoverInv
  <2>1. Kept
    BY Zenon, <1>1 DEF Init, Kept, driven
  <2>2. Hooked /\ Whole
    BY Zenon, <1>1, NoPlan DEF Init, Hooked, Whole
  <2> QED BY Zenon, <1>1, <2>1, <2>2, InitTypes DEF FailoverInv
<1>2. ASSUME FailoverInv, UNCHANGED vars
      PROVE  FailoverInv'
  BY Zenon, <1>2 DEF vars, FailoverInv, TypeOK, Kept, Hooked, Whole, driven, pending
<1>3. ASSUME FailoverInv, Next
      PROVE  FailoverInv'
  <2>1. TypeOK'
    BY Zenon, <1>3, NextTypes DEF FailoverInv
  <2> QED BY Zenon, <1>3, <2>1, PassKeeps, RunKeeps, OtherKeeps DEF Next
<1> QED BY Zenon, <1>1, <1>2, <1>3

\* A modem that is up on another source than the published one is waiting for
\* a cycle: for any lists, policies and plans, an apply that failed, stopped
\* half-way or was restricted loses no note.
THEOREM SwitchCorrect == Spec => []SwitchIsRemembered
<1>1. FailoverInv => SwitchIsRemembered
  BY Zenon DEF FailoverInv, Kept, SwitchIsRemembered, driven, pending
<1> QED BY Inductive, <1>1, PTL DEF Spec

\* A note goes only where the hook has put the modem on the published source:
\* only the end of an apply clears one, and by Whole and Hooked the hook of a
\* device whose cycle happened has run.
THEOREM NotesCorrect == Spec => NoteIsKeptUntilSwitched
<1>1. ASSUME FailoverInv, [Next]_vars
      PROVE  [\A i \in Interfaces : /\ sims[i] # None /\ sims[i].pending
                                    /\ sims'[i] # None /\ ~sims'[i].pending
                 => hw'[i] = driven(i)]_vars
  <2> SUFFICES ASSUME Next, NEW i \in Interfaces, sims[i] # None, sims[i].pending,
                      sims'[i] # None, ~sims'[i].pending
               PROVE  hw'[i] = driven(i)
    BY Zenon, <1>1
  <2>1. TypeOK
    BY Zenon, <1>1 DEF FailoverInv
  <2>2. ~\E wake \in {"config", "tick", "other"} : APass(wake)
    BY Zenon, <2>1, PassMoves DEF APass
  <2>3. ~AStart
    BY Zenon, <2>1, StartMoves DEF AStart
  <2>4. ~Die
    BY Zenon DEF Die
  <2>5. sims'[i] # sims[i]
    BY Zenon
  <2>6. Finish
    BY Zenon, <2>2, <2>3, <2>4, <2>5
    DEF Next, ApplyRequest, ReloadRequest, Open, Execute, Fail, Second, EditConfig, Flap
  <2>7. i \in loop.cycled /\ the_cycle_happened(i) /\ UNCHANGED hw
    BY Zenon, <2>5, <2>6 DEF Finish
  <2> DEFINE h == [op |-> "hook.run", on |-> i]
  <2>8. h \in loop.plan /\ h.on = i /\ h.op = "hook.run"
    BY Zenon, <1>1, <2>7 DEF FailoverInv, Whole
  <2> HIDE DEF h
  <2>9. h \in loop.done
    BY Zenon, <2>7, <2>8 DEF the_cycle_happened
  <2> QED BY Zenon, <1>1, <2>7, <2>8, <2>9 DEF FailoverInv, Hooked
<1> QED BY Inductive, <1>1, PTL DEF Spec, NoteIsKeptUntilSwitched

\* The selection goes down the list, one source at a time and never back,
\* whatever is edited in between.
THEOREM SelectionCorrect == Spec => NeverGoesBack
<1>1. ASSUME TypeOK, [Next]_vars
      PROVE  [\A i \in Interfaces : sims[i] # None /\ sims'[i] # None =>
                \/ sims'[i].chosen \in {sims[i].chosen, sims[i].chosen + 1}
                \/ sims[i].chosen >= Len(Modem[desired'][i])]_vars
  <2> SUFFICES ASSUME Next, NEW i \in Interfaces, sims[i] # None, sims'[i] # None
               PROVE  \/ sims'[i].chosen \in {sims[i].chosen, sims[i].chosen + 1}
                      \/ sims[i].chosen >= Len(Modem[desired'][i])
    BY Zenon, <1>1
  <2>1. CASE \E wake \in {"config", "tick", "other"} : APass(wake)
    BY Zenon, <1>1, <2>1, PassMoves DEF APass
  <2>2. CASE AStart
    BY Zenon, <1>1, <2>2, StartMoves DEF AStart
  <2>3. CASE Die
    BY Zenon, <2>3 DEF Die
  <2>4. CASE Finish
    <3>1. sims'[i] = sims[i] \/ sims'[i] = [sims[i] EXCEPT !.pending = FALSE]
      BY Zenon, <2>4 DEF Finish
    <3>2. sims[i] \in Devices
      BY Zenon, <1>1 DEF TypeOK
    <3> QED BY Zenon, <3>1, <3>2 DEF Devices
  <2>5. CASE UNCHANGED sims
    BY Zenon, <2>5
  <2> QED BY Zenon, <2>1, <2>2, <2>3, <2>4, <2>5
      DEF Next, ApplyRequest, ReloadRequest, Open, Execute, Fail, Second, EditConfig, Flap
<1> QED BY TypeCorrect, <1>1, PTL DEF Spec, NeverGoesBack

-----------------------------------------------------------------------------
(* The verdicts *)

\* A run of results r that is n long with x in front is x = r before a run
\* that is one shorter; cutting the oldest off at CountMax does not show.
LEMMA Longer ==
    ASSUME NEW s \in Seq({"ok", "failed"}), NEW t \in Seq({"ok", "failed"}), NEW x, NEW r,
           NEW n \in 1 .. CountMax, Len(s) <= CountMax, InFrontOf(x, s, t)
    PROVE  AllSay(t, n, r) <=> x = r /\ (n - 1 = 0 \/ AllSay(s, n - 1, r))
<1> USE DEF AllSay, InFrontOf
<1>1. Len(s) \in Nat /\ Len(t) \in Nat /\ CountMax \in Nat
  BY Bounds
<1>2. Len(t) >= n <=> Len(s) >= n - 1
  BY <1>1
<1>3. ASSUME Len(t) >= n, \A k \in 1 .. n : t[k] = r
      PROVE  x = r /\ Len(s) >= n - 1 /\ \A k \in 1 .. n - 1 : s[k] = r
  <2>1. ASSUME NEW k \in 1 .. n - 1
        PROVE  s[k] = r
    <3>1. k + 1 \in 2 .. Len(t) /\ k + 1 \in 1 .. n
      BY <1>1, <1>3
    <3>2. t[k + 1] = s[(k + 1) - 1] /\ t[k + 1] = r
      BY Zenon, <1>3, <3>1
    <3>3. (k + 1) - 1 = k
      OBVIOUS
    <3> QED BY Zenon, <3>2, <3>3
  <2> QED BY <1>1, <1>2, <1>3, <2>1
<1>4. ASSUME x = r, n - 1 = 0 \/ (Len(s) >= n - 1 /\ \A k \in 1 .. n - 1 : s[k] = r)
      PROVE  Len(t) >= n /\ \A k \in 1 .. n : t[k] = r
  <2>1. Len(t) >= n
    BY <1>1, <1>2, <1>4
  <2>2. ASSUME NEW k \in 1 .. n
        PROVE  t[k] = r
    <3>1. CASE k = 1
      BY Zenon, <1>4, <3>1
    <3>2. CASE k # 1
      <4>1. k \in 2 .. Len(t) /\ k - 1 \in 1 .. n - 1 /\ n - 1 # 0
        BY <1>1, <2>1, <3>2
      <4>2. t[k] = s[k - 1]
        BY Zenon, <4>1
      <4>3. s[k - 1] = r
        BY Zenon, <1>4, <4>1
      <4> QED BY Zenon, <4>2, <4>3
    <3> QED BY Zenon, <3>1, <3>2
  <2> QED BY Zenon, <2>1, <2>2
<1> QED BY Zenon, <1>3, <1>4

\* A pass keeps the counters at what the results say.
LEMMA PassCounts ==
    ASSUME TypeOK, Counted, NEW d \in Documents, NEW answers \in Outcomes(d),
           tally' = run_due(d, answers), record_runs(d, answers), NEW i \in Interfaces
    PROVE  /\ Len(runs'[i]) <= CountMax
           /\ \A n \in 1 .. CountMax :
                 /\ tally_for(i)'.successes >= n <=> Newest(n, i, "ok")'
                 /\ tally_for(i)'.failures >= n <=> Newest(n, i, "failed")'
<1> DEFINE t == tally_for(i)
           u == tally_for(i)'
           p == Probe[d][i]
<1>1. t \in Tallies /\ t.successes \in 0 .. CountMax /\ t.failures \in 0 .. CountMax
  BY Zenon, TallyFor DEF Tallies
<1>2. /\ runs[i] \in Seq({"ok", "failed"}) /\ Len(runs[i]) \in Nat /\ Len(runs[i]) <= CountMax
      /\ \A n \in 1 .. CountMax : /\ t.successes >= n <=> Newest(n, i, "ok")
                                  /\ t.failures >= n <=> Newest(n, i, "failed")
  BY DEF TypeOK, Counted
<1>3. p # None => u = asked(d, i, answers)
  <2>1. ASSUME p # None
        PROVE  asked(d, i, answers) \in Tallies
    BY Zenon, <2>1, Asked
  <2> QED BY Zenon, <2>1, ConstantsAssumption DEF run_due, tally_for
<1>4. CASE p = None
  <2>1. u = NewTally /\ runs'[i] = <<>>
    BY Zenon, <1>4, RecordRuns DEF run_due, tally_for
  <2> QED BY <2>1, Bounds DEF NewTally, Newest, AllSay
<1>5. CASE p # None /\ (i \notin due(d) \/ answers[i] = "unstarted")
  <2>1. u.successes = t.successes /\ u.failures = t.failures
    BY Zenon, <1>3, <1>5, Asked
  <2>2. runs'[i] = runs[i]
    BY Zenon, <1>5, RecordRuns
  <2> HIDE DEF t, u
  <2>3. ASSUME NEW n \in 1 .. CountMax
        PROVE  /\ u.successes >= n <=> Newest(n, i, "ok")'
               /\ u.failures >= n <=> Newest(n, i, "failed")'
    <3>1. /\ Newest(n, i, "ok")' <=> Newest(n, i, "ok")
          /\ Newest(n, i, "failed")' <=> Newest(n, i, "failed")
      BY Zenon, <2>2 DEF Newest
    <3> QED BY Zenon, <1>2, <2>1, <3>1
  <2> QED BY Zenon, <1>2, <2>2, <2>3 DEF u
<1>6. CASE p # None /\ i \in due(d) /\ answers[i] # "unstarted"
  <2> DEFINE x == answers[i]
  <2>1. x \in {"ok", "failed"} /\ runs'[i] \in Seq({"ok", "failed"})
    BY Zenon, <1>6, RecordRuns
  <2>2. /\ Len(runs'[i]) = IF Len(runs[i]) < CountMax THEN Len(runs[i]) + 1 ELSE CountMax
        /\ runs'[i][1] = x
        /\ \A k \in 2 .. Len(runs'[i]) : runs'[i][k] = runs[i][k - 1]
    BY Zenon, <1>6, RecordRuns
  <2>3. /\ u.successes = IF x = "ok" THEN one_more(t.successes) ELSE 0
        /\ u.failures = IF x = "ok" THEN 0 ELSE one_more(t.failures)
    <3>1. PICK v \in Tallies : /\ u = answered(v, p, x = "ok")
                               /\ v = [t EXCEPT !.due = p.interval]
      BY <1>3, <1>6, Asked
    <3>2. v.successes = t.successes /\ v.failures = t.failures
      BY Zenon, <1>1, <3>1 DEF Tallies
    <3>3. p \in Policies /\ (x = "ok") \in BOOLEAN
      BY <1>6, ConstantsAssumption
    <3> DEFINE ok == x = "ok"
    <3> HIDE DEF t, u, p, x, ok
    <3>4. u = answered(v, p, ok) /\ ok \in BOOLEAN
      BY Zenon, <3>1, <3>3 DEF ok
    <3>5. /\ u.successes = IF ok THEN one_more(v.successes) ELSE 0
          /\ u.failures = IF ok THEN 0 ELSE one_more(v.failures)
      BY Zenon, <3>3, <3>4, Answered
    <3> QED BY Zenon, <3>2, <3>5 DEF ok
  <2> HIDE DEF t, u, p, x
  <2>4. ASSUME NEW n \in 1 .. CountMax, NEW r \in {"ok", "failed"}
        PROVE  Newest(n, i, r)' <=> x = r /\ (n - 1 = 0 \/ Newest(n - 1, i, r))
    <3>1. InFrontOf(x, runs[i], runs'[i])
      BY Zenon, <2>2 DEF InFrontOf
    <3> QED BY Zenon, <1>2, <2>1, <3>1, Longer DEF Newest
  <2>5. ASSUME NEW n \in 1 .. CountMax
        PROVE  /\ u.successes >= n <=> Newest(n, i, "ok")'
               /\ u.failures >= n <=> Newest(n, i, "failed")'
    <3>1. /\ one_more(t.successes) >= n <=> t.successes >= n - 1
          /\ one_more(t.failures) >= n <=> t.failures >= n - 1
      BY Zenon, <1>1, OneMore
    <3>2. n - 1 = 0 \/ n - 1 \in 1 .. CountMax
      BY Bounds
    <3>3. /\ t.successes >= n - 1 <=> n - 1 = 0 \/ Newest(n - 1, i, "ok")
          /\ t.failures >= n - 1 <=> n - 1 = 0 \/ Newest(n - 1, i, "failed")
      BY <1>1, <1>2, <3>2
    <3>4. /\ Newest(n, i, "ok")' <=> x = "ok" /\ (n - 1 = 0 \/ Newest(n - 1, i, "ok"))
          /\ Newest(n, i, "failed")' <=> x = "failed" /\ (n - 1 = 0 \/ Newest(n - 1, i, "failed"))
      BY Zenon, <2>4
    <3>5. CASE x = "ok"
      <4>1. u.successes = one_more(t.successes) /\ ~(u.failures >= n)
        BY <2>3, <3>5
      <4> QED BY Zenon, <3>1, <3>3, <3>4, <3>5, <4>1
    <3>6. CASE x = "failed"
      <4>1. u.failures = one_more(t.failures) /\ ~(u.successes >= n)
        BY <2>3, <3>6
      <4> QED BY Zenon, <3>1, <3>3, <3>4, <3>6, <4>1
    <3> QED BY Zenon, <2>1, <3>5, <3>6
  <2>6. Len(runs'[i]) <= CountMax
    BY <1>2, <2>2, Bounds
  <2> QED BY Zenon, <2>5, <2>6 DEF u
<1> QED BY Zenon, <1>4, <1>5, <1>6

\* A step that leaves the results and the counters alone.
LEMMA SameCounts ==
    ASSUME Counted, UNCHANGED runs,
           \A i \in Interfaces : /\ tally_for(i)'.successes = tally_for(i).successes
                                 /\ tally_for(i)'.failures = tally_for(i).failures
    PROVE  Counted'
<1> SUFFICES ASSUME NEW i \in Interfaces
             PROVE  /\ Len(runs'[i]) <= CountMax
                    /\ \A n \in 1 .. CountMax :
                          /\ tally_for(i)'.successes >= n <=> AllSay(runs'[i], n, "ok")
                          /\ tally_for(i)'.failures >= n <=> AllSay(runs'[i], n, "failed")
  BY Zenon DEF Counted, Newest
<1> QED BY Zenon DEF Counted, Newest

\* Every step keeps the counters at what the results say.
LEMMA CountedStep == TypeOK /\ Counted /\ [Next]_vars => Counted'
<1> SUFFICES ASSUME TypeOK, Counted, [Next]_vars
             PROVE  Counted'
  BY Zenon
<1>1. ASSUME NEW wake \in {"config", "tick", "other"}, APass(wake)
      PROVE  Counted'
  <2> DEFINE d == IF wake = "config" THEN conf ELSE desired
  <2>1. PICK written \in BOOLEAN, acts \in BOOLEAN : \E answers \in Outcomes(d) :
           Pass(wake, answers, written, acts)
    BY Zenon, <1>1 DEF APass
  <2>2. PICK answers \in Outcomes(d) : Pass(wake, answers, written, acts)
    BY Zenon, <2>1
  <2>3. d \in Documents
    BY Zenon DEF TypeOK
  <2>4. tally' = run_due(d, answers) /\ record_runs(d, answers)
    BY Zenon, <2>2 DEF Pass
  <2> HIDE DEF d
  <2> QED BY Zenon, <2>3, <2>4, PassCounts DEF Counted
<1>2. CASE Die
  <2>1. \A i \in Interfaces : tally_for(i)' = NewTally /\ runs'[i] = <<>>
    BY Zenon, <1>2 DEF Die, tally_for
  <2>2. NewTally.successes = 0 /\ NewTally.failures = 0
    BY Zenon DEF NewTally
  <2>3. ASSUME NEW i \in Interfaces, NEW n \in 1 .. CountMax, NEW r
        PROVE  ~(0 >= n) /\ ~AllSay(runs'[i], n, r)
    BY <2>1 DEF AllSay
  <2>4. \A i \in Interfaces : Len(runs'[i]) <= CountMax
    BY <2>1, Bounds
  <2> QED BY Zenon, <2>1, <2>2, <2>3, <2>4 DEF Counted, Newest
<1>3. CASE Second
  <2>1. ASSUME NEW i \in Interfaces
        PROVE  /\ tally_for(i)'.successes = tally_for(i).successes
               /\ tally_for(i)'.failures = tally_for(i).failures
    <3>1. CASE tally[i] = None
      BY Zenon, <1>3, <3>1 DEF Second, tally_for
    <3>2. CASE tally[i] # None
      <4>1. /\ tally'[i] \in Tallies
            /\ tally'[i].successes = tally[i].successes
            /\ tally'[i].failures = tally[i].failures
        BY Zenon, <1>3, <3>2, SecondTally
      <4>2. tally'[i] # None
        BY Zenon, <4>1, ConstantsAssumption
      <4> QED BY Zenon, <3>2, <4>1, <4>2 DEF tally_for
    <3> QED BY Zenon, <3>1, <3>2
  <2> QED BY Zenon, <1>3, <2>1, SameCounts DEF Second, ghosts
<1>4. CASE UNCHANGED <<tally, runs>>
  BY Zenon, <1>4, SameCounts DEF tally_for
<1> QED BY Zenon, <1>1, <1>2, <1>3, <1>4
    DEF Next, ApplyRequest, ReloadRequest, Open, Execute, Fail, Finish, AStart, Start,
        EditConfig, Flap, vars, ghosts

\* A verdict is what the latest results say, under any thresholds, dwells and
\* reloads that change them: the counters it is taken from are the lengths of
\* the runs the results end in.
THEOREM VerdictCorrect == Spec => VerdictFollowsRuns
<1>1. Init => Counted
  <2> SUFFICES ASSUME Init
               PROVE  Counted
    BY Zenon
  <2>1. \A i \in Interfaces : tally_for(i) = NewTally /\ runs[i] = <<>>
    BY Zenon DEF Init, tally_for
  <2>2. NewTally.successes = 0 /\ NewTally.failures = 0
    BY Zenon DEF NewTally
  <2>3. ASSUME NEW i \in Interfaces, NEW n \in 1 .. CountMax, NEW r
        PROVE  ~(0 >= n) /\ ~AllSay(runs[i], n, r)
    BY <2>1 DEF AllSay
  <2>4. \A i \in Interfaces : Len(runs[i]) <= CountMax
    BY <2>1, Bounds
  <2> QED BY Zenon, <2>1, <2>2, <2>3, <2>4 DEF Counted, Newest
<1>2. ASSUME TypeOK, Counted, Counted', [Next]_vars
      PROVE  [\A i \in Interfaces : runs'[i] # runs[i] /\ tally[i] # None /\ tally'[i] # None =>
                LET p == Probe[desired'][i]
                    free == tally[i].settled = 0
                IN verdict(tally'[i]) =
                      CASE free /\ Lately(p.up_after, i, "ok") -> "up"
                        [] free /\ Lately(p.down_after, i, "failed") -> "down"
                        [] OTHER -> verdict(tally[i])]_vars
  <2> SUFFICES ASSUME Next, NEW i \in Interfaces, runs'[i] # runs[i],
                      tally[i] # None, tally'[i] # None
               PROVE  LET p == Probe[desired'][i]
                          free == tally[i].settled = 0
                      IN verdict(tally'[i]) =
                            CASE free /\ Lately(p.up_after, i, "ok") -> "up"
                              [] free /\ Lately(p.down_after, i, "failed") -> "down"
                              [] OTHER -> verdict(tally[i])
    BY Zenon, <1>2
  <2>1. ~Die
    BY Zenon DEF Die
  <2>2. PICK wake \in {"config", "tick", "other"} : APass(wake)
    BY Zenon, <2>1
    DEF Next, ApplyRequest, ReloadRequest, Open, Execute, Fail, Finish, AStart, Start,
        Second, EditConfig, Flap, ghosts
  <2> DEFINE d == IF wake = "config" THEN conf ELSE desired
  <2>3. d \in Documents
    BY Zenon, <1>2 DEF TypeOK
  <2>4. PICK answers \in Outcomes(d) :
           desired' = d /\ tally' = run_due(d, answers) /\ record_runs(d, answers)
    BY Zenon, <2>2 DEF APass, Pass
  <2> HIDE DEF d
  <2> DEFINE p == Probe[d][i]
             t == tally[i]
             u == tally'[i]
             ok == answers[i] = "ok"
  <2>5. p # None /\ i \in due(d) /\ answers[i] # "unstarted"
    <3>1. p # None
      BY Zenon, <2>4 DEF run_due
    <3> QED BY Zenon, <1>2, <2>3, <2>4, <3>1, RecordRuns
  <2>6. u = asked(d, i, answers) /\ t = tally_for(i) /\ u = tally_for(i)'
    BY Zenon, <2>4, <2>5 DEF run_due, tally_for
  <2>7. PICK v \in Tallies : u = answered(v, p, ok) /\ v = [t EXCEPT !.due = p.interval]
    <3>1. \E v \in Tallies : /\ asked(d, i, answers) = answered(v, p, ok)
                             /\ v = [tally_for(i) EXCEPT !.due = p.interval]
      BY Zenon, <1>2, <2>3, <2>5, Asked
    <3> QED BY Zenon, <2>6, <3>1
  <2>8. t \in Tallies /\ v.settled = t.settled /\ v.verdict = t.verdict
    BY Zenon, <1>2, <2>7 DEF TypeOK, Tallies
  <2>9. p \in Policies /\ p.up_after \in 1 .. CountMax /\ p.down_after \in 1 .. CountMax
    <3>1. p \in Policies
      BY <2>3, <2>5, ConstantsAssumption
    <3> QED BY <3>1 DEF Policies
  <2>10. ok \in BOOLEAN
    BY Zenon
  <2>11. /\ u.successes >= p.up_after <=> AllSay(runs'[i], p.up_after, "ok")
         /\ u.failures >= p.down_after <=> AllSay(runs'[i], p.down_after, "failed")
    BY Zenon, <1>2, <2>6, <2>9 DEF Counted, Newest
  <2>12. /\ AllSay(runs'[i], p.up_after, "ok") <=> Lately(p.up_after, i, "ok")
         /\ AllSay(runs'[i], p.down_after, "failed") <=> Lately(p.down_after, i, "failed")
    BY Zenon DEF AllSay, Lately
  <2>13. verdict(u) = u.verdict /\ verdict(t) = t.verdict /\ desired' = d
    BY Zenon, <2>4 DEF verdict
  <2> HIDE DEF p, t, u, ok
  <2>14. /\ u.successes = IF ok THEN one_more(v.successes) ELSE 0
         /\ u.failures = IF ok THEN 0 ELSE one_more(v.failures)
         /\ u.verdict = IF v.settled # 0 THEN v.verdict
                        ELSE IF ok /\ u.successes >= p.up_after THEN "up"
                        ELSE IF ~ok /\ u.failures >= p.down_after THEN "down"
                        ELSE v.verdict
    BY ZenonT(30), <2>7, <2>9, <2>10, Answered
  <2>15. (u.successes >= p.up_after => ok) /\ (u.failures >= p.down_after => ~ok)
    BY <2>9, <2>10, <2>14
  <2> DEFINE free == t.settled = 0
             earned_up == Lately(p.up_after, i, "ok")
             earned_down == Lately(p.down_after, i, "failed")
  <2> HIDE DEF earned_up, earned_down
  <2>16. u.verdict = CASE free /\ earned_up -> "up"
                       [] free /\ earned_down -> "down"
                       [] OTHER -> t.verdict
    BY Zenon, <2>8, <2>11, <2>12, <2>14, <2>15 DEF earned_up, earned_down
  <2> QED BY Zenon, <2>13, <2>16 DEF p, t, u, earned_up, earned_down
<1> QED BY TypeCorrect, <1>1, <1>2, CountedStep, PTL DEF Spec, VerdictFollowsRuns

=============================================================================
