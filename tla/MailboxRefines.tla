--------------------------- MODULE MailboxRefines ---------------------------
(***************************************************************************)
(* Mailbox implements RequestPromise, for any number of sockets,           *)
(* connections and slots.                                                  *)
(***************************************************************************)
EXTENDS MailboxProofs, FiniteSetTheorems

phases == [c \in Conns |-> phase_of(c)]

\* One request moves, and the others stay where they are.
LEMMA OneMoves ==
    ASSUME NEW c \in Conns, \A d \in Conns : d # c => phase_of(d)' = phase_of(d)
    PROVE  /\ phase_of(c)' = phase_of(c) => UNCHANGED phases
           /\ phase_of(c) = "idle" /\ phase_of(c)' \in {"asked", "watching"} => Promise!Ask(c)
           /\ phase_of(c) \in {"asked", "watching"} /\ phase_of(c)' = "refused"
                => Promise!Refuse(c)
           /\ phase_of(c) \in {"seen", "watching"} /\ phase_of(c)' = "answered"
                => Promise!Answer(c)
           /\ phase_of(c) \in {"answered", "refused"} /\ phase_of(c)' = "idle"
                => Promise!Tell(c)
<1>1. phases'[c] = phase_of(c)' /\ phases[c] = phase_of(c)
  BY Zenon DEF phases
<1>2. ASSUME NEW v, phase_of(c)' = v PROVE phases' = [phases EXCEPT ![c] = v]
  BY ZenonT(30), <1>2 DEF phases
<1>3. phase_of(c)' = phase_of(c) => UNCHANGED phases
  BY Zenon DEF phases
<1> QED
  BY ZenonT(30), <1>1, <1>2, <1>3
     DEF Promise!Ask, Promise!Refuse, Promise!Answer, Promise!Tell, Promise!Move, phases

\* Every step of the mailbox is a step of the promise, or changes no phase.
LEMMA PhaseStep == PInv /\ [Next]_vars => [Promise!Next]_phases
<1> SUFFICES ASSUME PInv, [Next]_vars PROVE Promise!Next \/ UNCHANGED phases
  OBVIOUS
<1>i. Inv /\ SeenInv /\ WorkInv
  BY Zenon DEF PInv
<1>a. /\ at \in [Slots -> SlotRecords] /\ loop \in LoopRecords /\ loop.i \in Nat
      /\ conn \in [Conns -> ConnRecords] /\ conn' \in [Conns -> ConnRecords]
  BY Zenon, <1>i, TypeStep, LoopTypes DEF Inv, TypeOK
<1>b. \A d \in Conns : conn[d].pc \in {"nudge", "wait"} =>
        conn[d].slot \in Slots /\ at[conn[d].slot].by = d
  BY Zenon, <1>i DEF Inv, SlotInv
<1>n. None \notin Conns
  BY Zenon, MailboxAssumption
<1>e. ASSUME UNCHANGED <<at, conn>> PROVE UNCHANGED phases
  BY Zenon, <1>e DEF phases, phase_of
\* A thread whose record stays, in a slot that says the same, stays.
<1>f. ASSUME NEW d \in Conns, conn'[d] = conn[d],
             conn[d].pc \in {"nudge", "wait"} =>
               \/ at'[conn[d].slot] = at[conn[d].slot]
               \/ /\ at'[conn[d].slot].answered = at[conn[d].slot].answered
                  /\ at'[conn[d].slot].seen = at[conn[d].slot].seen
                  /\ at'[conn[d].slot].result = at[conn[d].slot].result
      PROVE  phase_of(d)' = phase_of(d)
  <2>1. phase_of(d) = how_far(conn[d], at[conn[d].slot])
    BY Zenon DEF phase_of
  <2>2. phase_of(d)' = how_far(conn[d], at'[conn[d].slot])
    BY Zenon, <1>f DEF phase_of
  <2>3. conn[d] \in ConnRecords /\ conn[d].pc \in ConnPCs
    BY Zenon, <1>a DEF ConnRecords
  <2>4. CASE conn[d].pc \in {"nudge", "wait"}
    BY <1>f, <2>1, <2>2, <2>3, <2>4, HowFar
  <2>5. CASE conn[d].pc \notin {"nudge", "wait"}
    BY <2>1, <2>2, <2>3, <2>5, HowFar DEF ConnPCs
  <2> QED
    BY Zenon, <2>4, <2>5
\* One thread moves, and the slots of the others stay as they are.
<1>o. ASSUME NEW c \in Conns, \A d \in Conns : d # c => conn'[d] = conn[d],
             \A i \in Slots : at[i].by # None /\ at[i].by # c => at'[i] = at[i]
      PROVE  \A d \in Conns : d # c => phase_of(d)' = phase_of(d)
  BY <1>b, <1>f, <1>n, <1>o
<1>p. \A c \in Conns : /\ phase_of(c) = how_far(conn[c], at[conn[c].slot])
                       /\ phase_of(c)' = how_far(conn'[c], at'[conn'[c].slot])
                       /\ conn[c] \in ConnRecords /\ conn'[c] \in ConnRecords
  BY Zenon, <1>a DEF phase_of
<1>x. \A c \in Conns : Promise!Ask(c) \/ Promise!Answer(c) \/ Promise!Refuse(c) \/ Promise!Tell(c)
                       => Promise!Next
  BY Zenon DEF Promise!Next
<1>q. ASSUME NEW c \in Conns, UNCHANGED at, \A d \in Conns : d # c => conn'[d] = conn[d],
             phase_of(c)' = phase_of(c)
      PROVE  UNCHANGED phases
  BY Zenon, <1>o, <1>q, OneMoves
<1>s. CASE Steps
  <2> USE DEF mailbox
  <2>1. ASSUME NEW s \in Servers,
               \/ Connect(s) \/ AcceptorChecks(s) \/ AcceptorDrops(s) \/ AcceptorMarks(s)
               \/ AcceptorLeaves(s)
        PROVE  UNCHANGED phases
    BY Zenon, <2>1, <1>e DEF Connect, AcceptorChecks, AcceptorDrops, AcceptorMarks, AcceptorLeaves
  <2>2. ASSUME NEW s \in Servers, AcceptorTakes(s) PROVE UNCHANGED phases
    <3>1. CASE UNCHANGED conn
      BY Zenon, <2>2, <3>1, <1>e DEF AcceptorTakes
    <3>2. ASSUME NEW c \in Conns, slot_take(s, c),
                 conn' = [conn EXCEPT ![c] = [Gone EXCEPT !.pc = "read"]]
          PROVE  UNCHANGED phases
      <4>1. /\ conn[c].pc = "none" /\ conn'[c].pc = "read"
            /\ \A d \in Conns : d # c => conn'[d] = conn[d]
        BY Zenon, <3>2, <1>a, ConnFields DEF slot_take
      <4>2. phase_of(c)' = phase_of(c)
        BY <4>1, <1>p, HowFar
      <4> QED
        BY Zenon, <2>2, <4>1, <4>2, <1>q DEF AcceptorTakes
    <3> QED
      BY <2>2, <3>1, <3>2, Zenon DEF AcceptorTakes
  <2>3. ASSUME NEW c \in Conns, Read(c) PROVE Promise!Next \/ UNCHANGED phases
    <3>0. conn[c].pc = "read" /\ phase_of(c) = "idle" /\ UNCHANGED at
      BY Zenon, <2>3, <1>p, HowFar DEF Read
    <3>1. CASE Go(c, "done")
      <4>1. conn'[c].pc = "done" /\ \A d \in Conns : d # c => conn'[d] = conn[d]
        BY Zenon, <3>1, <1>a, GoFields DEF ConnPCs
      <4> QED
        BY <3>0, <4>1, <1>p, <1>q, HowFar
    <3>2. CASE UNCHANGED conn
      BY Zenon, <3>0, <3>2, <1>e
    <3>3. ASSUME NEW k \in Kinds[c], conn' = [conn EXCEPT ![c] = asking(@, k)] PROVE Promise!Next
      <4>1. conn'[c].pc = "lock" /\ \A d \in Conns : d # c => conn'[d] = conn[d]
        BY <3>3, <1>a, ConnFields, KindsAssumption
      <4>2. phase_of(c)' \in {"asked", "watching"}
        BY <4>1, <1>p, HowFar
      <4>3. Promise!Ask(c)
        BY Zenon, <3>0, <4>1, <4>2, <1>o, OneMoves
      <4> QED
        BY Zenon, <4>3, <1>x
    <3> QED
      BY Zenon, <2>3, <3>1, <3>2, <3>3 DEF Read
  <2>4. ASSUME NEW c \in Conns, Ends(c) \/ Done(c) \/ Close(c) PROVE UNCHANGED phases
    <3>1. /\ conn[c].pc \in {"read", "done", "close"} /\ UNCHANGED at
          /\ \E p \in {"done", "close", "release"} : Go(c, p)
      BY Zenon, <2>4 DEF Ends, Done, Close
    <3>2. /\ conn'[c].pc \in {"done", "close", "release"}
          /\ \A d \in Conns : d # c => conn'[d] = conn[d]
      BY Zenon, <3>1, <1>a, GoFields DEF ConnPCs
    <3> QED
      BY <3>1, <3>2, <1>p, <1>q, HowFar
  <2>5. ASSUME NEW c \in Conns, Release(c) PROVE UNCHANGED phases
    <3>1. /\ conn[c].pc = "release" /\ UNCHANGED at
          /\ conn'[c].pc = "none" /\ \A d \in Conns : d # c => conn'[d] = conn[d]
      BY Zenon, <2>5, <1>a, ConnFields DEF Release
    <3> QED
      BY <3>1, <1>p, <1>q, HowFar
  <2>6. ASSUME NEW c \in Conns, Lock(c) \/ After(c) PROVE UNCHANGED phases
    <3>1. /\ UNCHANGED at
          /\ \/ conn[c].pc = "lock" /\ Go(c, "ask")
             \/ conn[c].pc = "after" /\ Go(c, "resume")
      BY Zenon, <2>6 DEF Lock, After
    <3>2. /\ conn'[c].kind = conn[c].kind /\ \A d \in Conns : d # c => conn'[d] = conn[d]
          /\ \/ conn[c].pc = "lock" /\ conn'[c].pc = "ask"
             \/ conn[c].pc = "after" /\ conn'[c].pc = "resume"
      BY Zenon, <3>1, <1>a, GoFields, GoMore DEF ConnPCs
    <3> QED
      BY <3>1, <3>2, <1>p, <1>q, HowFar
  <2>7. ASSUME NEW c \in Conns, Nudge(c) PROVE UNCHANGED phases
    <3>1. /\ UNCHANGED at /\ conn[c].pc = "nudge" /\ conn'[c].pc = "wait"
          /\ conn'[c].slot = conn[c].slot /\ conn'[c].kind = conn[c].kind
          /\ \A d \in Conns : d # c => conn'[d] = conn[d]
      BY Zenon, <2>7, <1>a, GoFields, GoMore DEF Nudge, ConnPCs
    <3> QED
      BY <3>1, <1>p, <1>q, HowFar
  <2>8. ASSUME NEW c \in Conns, Resume(c) PROVE UNCHANGED phases
    <3>1. /\ UNCHANGED at /\ conn[c].pc = "resume" /\ conn'[c].pc = "reply"
          /\ conn'[c].result = conn[c].result
          /\ \A d \in Conns : d # c => conn'[d] = conn[d]
      BY Zenon, <2>8, <1>a, GoFields, GoMore DEF Resume, ConnPCs
    <3>2. conn[c].result # "refused"
      BY Zenon, <3>1, <1>i DEF WorkInv
    <3> QED
      BY <3>1, <3>2, <1>p, <1>q, HowFar
  <2>9. ASSUME NEW c \in Conns, Reply(c) PROVE Promise!Next
    <3>1. /\ UNCHANGED at /\ conn[c].pc = "reply" /\ conn'[c].pc \in {"done", "read"}
          /\ \A d \in Conns : d # c => conn'[d] = conn[d]
      <4>1. CASE Go(c, "done")
        BY Zenon, <2>9, <4>1, <1>a, GoFields DEF Reply, ConnPCs
      <4>2. CASE conn' = [conn EXCEPT ![c] = [Gone EXCEPT !.pc = "read"]]
        BY <2>9, <4>2, <1>a, ConnFields DEF Reply
      <4> QED
        BY Zenon, <2>9, <4>1, <4>2 DEF Reply
    <3>2. phase_of(c) \in {"answered", "refused"} /\ phase_of(c)' = "idle"
      BY <3>1, <1>p, HowFar
    <3>3. Promise!Tell(c)
      BY Zenon, <3>1, <3>2, <1>o, OneMoves
    <3> QED
      BY Zenon, <3>3, <1>x
  <2>10. ASSUME NEW c \in Conns, Ask(c) PROVE Promise!Next \/ UNCHANGED phases
    <3>0. conn[c].pc = "ask"
      BY Zenon, <2>10 DEF Ask
    <3>1. CASE Leave(c, "refused") /\ UNCHANGED at
      <4>1. /\ conn'[c].pc = "reply" /\ conn'[c].result = "refused"
            /\ \A d \in Conns : d # c => conn'[d] = conn[d]
        BY <3>1, <1>a, ConnFields, ConnMore DEF Leave, ConnPCs, Results
      <4>2. phase_of(c) \in {"asked", "watching"} /\ phase_of(c)' = "refused"
        BY Zenon, <3>0, <4>1, <1>p, HowFar
      <4>3. Promise!Refuse(c)
        BY Zenon, <3>1, <4>1, <4>2, <1>o, OneMoves
      <4> QED
        BY Zenon, <4>3, <1>x
    <3>2. ASSUME NEW i \in Slots, ~in_use(i), at' = [at EXCEPT ![i] = waiting(c)],
                 conn' = [conn EXCEPT ![c] = entering(@, i)]
          PROVE  UNCHANGED phases
      <4>1. /\ conn'[c].pc = "nudge" /\ conn'[c].kind = conn[c].kind /\ conn'[c].slot = i
            /\ \A d \in Conns : d # c => conn'[d] = conn[d]
        BY SMTT(30), <3>2, <1>a, ConnFields, ConnMore
      <4>2. ~at'[i].answered /\ ~at'[i].seen /\ \A j \in Slots : j # i => at'[j] = at[j]
        BY SMTT(30), <3>2, <1>a, SlotFields, SlotMore
      <4>3. phase_of(c)' = phase_of(c)
        BY <3>0, <4>1, <4>2, <1>p, HowFar
      <4>4. \A j \in Slots : at[j].by # None /\ at[j].by # c => at'[j] = at[j]
        BY Zenon, <3>2, <4>2 DEF in_use
      <4> QED
        BY Zenon, <4>1, <4>3, <4>4, <1>o, OneMoves
    <3> QED
      BY Zenon, <2>10, <3>1, <3>2 DEF Ask
  <2>11. ASSUME NEW c \in Conns, Awake(c) PROVE UNCHANGED phases
    <3> DEFINE i == conn[c].slot
    <3>1. conn[c].pc = "wait" /\ i \in Slots /\ at[i].by = c /\ at[i].answered
      BY Zenon, <2>11, <1>b DEF Awake, answered
    <3>2. \A j \in Slots : j # i => at'[j] = at[j]
      BY Zenon, <2>11, <3>1, <1>a DEF Awake, leave_slot
    <3>3. /\ \A d \in Conns : d # c => conn'[d] = conn[d]
          /\ conn'[c].result = at[i].result
          /\ conn'[c].pc = "reply" \/ (conn'[c].pc = "after" /\ at[i].ready)
      <4>1. at[i].result \in Results
        BY Zenon, <3>1, <1>a, SlotTypes
      <4>2. CASE Leave(c, at[i].result)
        BY SMTT(30), <4>1, <4>2, <1>a, ConnFields, ConnMore DEF Leave, ConnPCs
      <4>3. CASE at[i].ready /\ conn' = [conn EXCEPT ![c] = leaving(@, "after", at[i].result)]
        BY SMTT(30), <4>1, <4>3, <1>a, ConnFields, ConnMore DEF ConnPCs
      <4> QED
        BY Zenon, <2>11, <4>2, <4>3 DEF Awake
    <3>4. at[i].ready => at[i].result # "refused"
      BY Zenon, <3>1, <1>i, <1>n DEF WorkInv, in_use
    <3>5. phase_of(c)' = phase_of(c)
      BY SMTT(30), <3>1, <3>3, <3>4, <1>p, HowFar
    <3>6. \A j \in Slots : at[j].by # None /\ at[j].by # c => at'[j] = at[j]
      BY Zenon, <3>1, <3>2
    <3> QED
      BY Zenon, <3>3, <3>5, <3>6, <1>o, OneMoves
  <2>12. CASE WakeUp \/ RoundEnds \/ StopServer \/ JoinAcceptor \/ CutConnections \/ JoinThreads
              \/ Signal
    BY Zenon, <2>12, <1>e
       DEF WakeUp, RoundEnds, StopServer, JoinAcceptor, CutConnections, JoinThreads, Signal
  <2>13. CASE Take
    <3> DEFINE given == {c \in Conns : phase_of(c) = "asked" /\ phase_of(c)' = "seen"}
    <3>1. UNCHANGED conn
      BY Zenon, <2>13 DEF Take
    <3>2. ASSUME NEW c \in Conns, phase_of(c)' # phase_of(c) PROVE c \in given
      <4>1. conn[c].pc \in {"nudge", "wait"} /\ at'[conn[c].slot] # at[conn[c].slot]
        BY Zenon, <3>1, <3>2, <1>f
      <4>2. conn[c].slot \in Slots /\ at[conn[c].slot].by = c
        BY Zenon, <4>1, <1>b
      <4>3. /\ ~at[conn[c].slot].taken /\ ~at[conn[c].slot].answered
            /\ at[conn[c].slot].kind # "stream"
            /\ at'[conn[c].slot] = giving(at[conn[c].slot])
        BY Zenon, <2>13, <4>1, <4>2, <1>a DEF Take
      <4>4. /\ ~at[conn[c].slot].seen /\ conn[c].kind # "stream"
        BY Zenon, <4>2, <4>3, <1>i, <1>n DEF SeenInv, WorkInv, in_use
      <4>5. ~at'[conn[c].slot].answered /\ at'[conn[c].slot].seen
        BY SMTT(30), <4>2, <4>3, <1>a, SlotFields, SlotMore
      <4> QED
        BY Zenon, <3>1, <4>1, <4>3, <4>4, <4>5, <1>p, HowFar
    <3>3. given \in SUBSET {c \in Conns : phases[c] = "asked"}
      BY Zenon DEF phases
    <3>4. phases' = [c \in Conns |-> IF c \in given THEN "seen" ELSE phases[c]]
      <4>1. \A c \in Conns : phase_of(c)' = IF c \in given THEN "seen" ELSE phase_of(c)
        BY Zenon, <3>2
      <4> HIDE DEF given
      <4> QED
        BY Zenon, <4>1 DEF phases
    <3>5. Promise!Look
      <4> HIDE DEF given
      <4> QED
        BY Zenon, <3>3, <3>4 DEF Promise!Look, phases
    <3> QED
      BY Zenon, <3>5 DEF Promise!Next
  <2>14. CASE Settle \/ Deliver
    <3>1. \A i \in Slots : at'[i] = at[i] \/ at'[i] = taking(at[i]) \/ at'[i] = deferring(at[i])
      BY Zenon, <2>14, <1>a DEF Settle, Deliver
    <3>2. \A i \in Slots : /\ at'[i].answered = at[i].answered /\ at'[i].seen = at[i].seen
                           /\ at'[i].result = at[i].result
      BY <3>1, <1>a, SlotFields, SlotMore
    <3>3. UNCHANGED conn
      BY Zenon, <2>14 DEF Settle, Deliver
    <3>4. \A c \in Conns : phase_of(c)' = phase_of(c)
      BY Zenon, <3>2, <3>3, <1>b, <1>f
    <3> QED
      BY Zenon, <3>4 DEF phases
  <2>15. CASE Answer
    <3>0. /\ loop.i \in Slots /\ at[loop.i].by # None /\ at[loop.i].taken /\ ~at[loop.i].answered
          /\ UNCHANGED conn
      BY Zenon, <2>15, <1>i DEF Answer, Inv, DeliverInv, in_use
    <3>c. PICK c \in Conns : c = at[loop.i].by
      BY Zenon, <3>0, <1>a, SlotTypes
    <3>1. /\ loop.i \in Slots /\ at[loop.i].by = c /\ c # None
          /\ at[loop.i].taken /\ ~at[loop.i].answered /\ UNCHANGED conn
      BY Zenon, <3>0, <3>c
    <3>2. c \in Conns /\ conn[c].pc \in {"nudge", "wait"} /\ conn[c].slot = loop.i
      BY ZenonT(30), <3>1, <1>i DEF Inv, SlotInv, WaiterIsThere, in_use
    <3>3. /\ \E x \in {"acted", "declined"} : at'[loop.i] = answering(at[loop.i], x)
          /\ \A i \in Slots : i # loop.i => at'[i] = at[i]
      BY Zenon, <2>15, <3>1, <1>a DEF Answer
    <3>4. at'[loop.i].answered /\ at'[loop.i].result # "refused"
      BY <3>1, <3>3, <1>a, SlotMore
    <3>5. phase_of(c)' = "answered"
      BY <3>1, <3>2, <3>4, <1>p, HowFar
    <3>6. at[loop.i].seen \/ (~at[loop.i].seen /\ conn[c].kind = "stream")
      BY Zenon, <3>1, <1>i DEF SeenInv, WorkInv, in_use
    <3>7. phase_of(c) \in {"seen", "watching"}
      BY <3>1, <3>2, <3>6, <1>p, HowFar
    <3>8. \A i \in Slots : at[i].by # None /\ at[i].by # c => at'[i] = at[i]
      BY Zenon, <3>1, <3>3
    <3>9. Promise!Answer(c)
      BY Zenon, <3>1, <3>2, <3>5, <3>7, <3>8, <1>o, OneMoves
    <3> QED
      BY Zenon, <3>2, <3>9, <1>x
  <2>16. CASE Shut
    <3> DEFINE left == {c \in Conns : /\ phase_of(c) \in {"asked", "watching"}
                                      /\ phase_of(c)' = "refused"}
    <3>1. loop.pc = "shut" /\ UNCHANGED conn
      BY Zenon, <2>16 DEF Shut
    <3>2. ASSUME NEW c \in Conns, phase_of(c)' # phase_of(c) PROVE c \in left
      <4>1. conn[c].pc \in {"nudge", "wait"} /\ at'[conn[c].slot] # at[conn[c].slot]
        BY Zenon, <3>1, <3>2, <1>f
      <4>2. conn[c].slot \in Slots /\ at[conn[c].slot].by = c
        BY Zenon, <4>1, <1>b
      <4>3. ~at[conn[c].slot].answered /\ at'[conn[c].slot] = refusing(at[conn[c].slot])
        BY Zenon, <2>16, <4>1, <4>2, <1>a DEF Shut, refused_waiters
      <4>4. ~at[conn[c].slot].seen
        BY Zenon, <3>1, <4>2, <4>3, <1>i, <1>n DEF SeenInv, in_use
      <4>5. at'[conn[c].slot].answered /\ at'[conn[c].slot].result = "refused"
        BY <4>2, <4>3, <1>a, SlotMore
      <4> QED
        BY SMTT(30), <3>1, <4>1, <4>3, <4>4, <4>5, <1>p, HowFar
    <3>3. left \in SUBSET {c \in Conns : phases[c] \in {"asked", "watching"}}
      BY Zenon DEF phases
    <3>4. phases' = [c \in Conns |-> IF c \in left THEN "refused" ELSE phases[c]]
      <4>1. \A c \in Conns : phase_of(c)' = IF c \in left THEN "refused" ELSE phase_of(c)
        BY Zenon, <3>2
      <4> HIDE DEF left
      <4> QED
        BY Zenon, <4>1 DEF phases
    <3>5. Promise!RefuseAll
      <4> HIDE DEF left
      <4> QED
        BY Zenon, <3>3, <3>4 DEF Promise!RefuseAll, phases
    <3> QED
      BY Zenon, <3>5 DEF Promise!Next
  <2>17. CASE CloseMailbox
    <3>1. \A c \in Conns : conn[c].pc = "none"
      BY ZenonT(30), <2>17, <1>i, StoppedIsQuiet, MailboxAssumption DEF CloseMailbox, Quiet
    <3>2. \A c \in Conns : phase_of(c)' = phase_of(c)
      BY Zenon, <2>17, <3>1, <1>f DEF CloseMailbox
    <3> QED
      BY Zenon, <3>2 DEF phases
  <2> QED
    BY Zenon, <1>s, <2>1, <2>2, <2>3, <2>4, <2>5, <2>6, <2>7, <2>8, <2>9, <2>10, <2>11,
       <2>12, <2>13, <2>14, <2>15, <2>16, <2>17 DEF Steps
<1>u. CASE UNCHANGED vars
  BY Zenon, <1>u, <1>e DEF vars
<1> QED
  BY Zenon, <1>s, <1>u, NextSteps

\* The mailbox keeps the promise of loop_internal.h: a pass was given every
\* request before it was acted on, a connection that asks to watch is handed
\* over without one, and a request that was refused was not acted on.
THEOREM RefinesPromise == Spec => KeepsPromise
<1>1. Init => Promise!Init
  <2> SUFFICES ASSUME Init, NEW c \in Conns PROVE phase_of(c) = "idle"
    BY Zenon DEF Promise!Init
  <2> QED
    BY Zenon DEF Init, Gone, phase_of, how_far
<1>2. PInv /\ [Next]_vars => [Promise!Next]_([c \in Conns |-> phase_of(c)])
  BY Zenon, PhaseStep DEF phases
<1> QED
  BY <1>1, <1>2, PInvCorrect, PTL DEF Spec, KeepsPromise, Promise!Spec

\* A connection with its server's lock finds a free slot where there are as many
\* slots as control sockets: the slots in use belong to as many other servers.
THEOREM NobodyCorrect == Cardinality(Servers) <= Pending => (Spec => []NobodyIsTurnedAway)
<1> SUFFICES ASSUME Cardinality(Servers) <= Pending PROVE Spec => []NobodyIsTurnedAway
  OBVIOUS
<1>1. ASSUME Inv PROVE NobodyIsTurnedAway
  <2> SUFFICES ASSUME NEW c \in Conns, conn[c].pc = "ask", \A i \in Slots : in_use(i)
               PROVE  FALSE
    BY Zenon DEF NobodyIsTurnedAway
  <2> DEFINE others == Servers \ {ServerOf[c]}
             f == [i \in Slots |-> ServerOf[at[i].by]]
  <2>1. IsFiniteSet(Servers)
    <3>1. IsFiniteSet(1 .. Len(StopOrder))
      BY FS_Interval, MailboxAssumption
    <3>2. StopOrder \in Surjection(1 .. Len(StopOrder), Servers)
      BY SMTT(30), MailboxAssumption DEF Surjection
    <3> QED
      BY Zenon, <3>1, <3>2, FS_Surjection
  <2>2. ServerOf[c] \in Servers
    BY Zenon, MailboxAssumption
  <2>3. IsFiniteSet(others) /\ Cardinality(others) = Cardinality(Servers) - 1
    BY ZenonT(30), <2>1, <2>2, FS_RemoveElement
  <2>4. IsFiniteSet(Slots) /\ Cardinality(Slots) = Pending
    BY FS_Interval, MailboxAssumption DEF Slots
  <2>5. Cardinality(others) < Cardinality(Slots)
    BY <2>1, <2>3, <2>4, FS_CardinalityType, MailboxAssumption
  <2>6. ASSUME NEW i \in Slots
        PROVE  /\ at[i].by \in Conns /\ conn[at[i].by].slot = i
               /\ lock[ServerOf[at[i].by]] = at[i].by /\ at[i].by # c
    BY SMTT(30), <1>1, SlotTypes DEF Inv, TypeOK, SlotInv, WaiterIsThere, in_use
  <2>7. lock[ServerOf[c]] = c
    BY Zenon, <1>1 DEF Inv, SlotInv
  <2>8. f \in [Slots -> others]
    BY <2>6, <2>7, MailboxAssumption
  <2>9. \E x, y \in Slots : x # y /\ f[x] = f[y]
    <3> HIDE DEF f, others
    <3> QED
      BY <2>3, <2>4, <2>5, <2>8, FS_PigeonHole
  <2> QED
    BY <2>6, <2>9
<1> QED
  BY InvCorrect, <1>1, PTL
====
