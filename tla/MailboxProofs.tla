--------------------------- MODULE MailboxProofs -----------------------------
(***************************************************************************)
(* Proofs about Mailbox: the inductive invariant and the types, who owns a *)
(* slot, what a stop leaves behind, and, of the threads, the descriptors   *)
(* they use, the contexts they owe and what they and the loop know of a    *)
(* request.                                                                *)
(***************************************************************************)
EXTENDS Mailbox, TLAPS

\* Who owns a slot: the request in it is that of a thread waiting on it with its
\* server locked, and every thread inside the mailbox has its own slot.  The
\* lock is kept only by a thread that is inside.
SlotInv ==
    /\ WaiterIsThere
    /\ \A c \in Conns : conn[c].pc \in {"nudge", "wait"} =>
         conn[c].slot \in Slots /\ at[conn[c].slot].by = c
    /\ \A c \in Conns : conn[c].pc = "ask" => lock[ServerOf[c]] = c
    /\ \A s \in Servers : lock[s] # None =>
         ServerOf[lock[s]] = s /\ conn[lock[s]].pc \in {"ask", "nudge", "wait"}

\* The slot the loop delivers to.
DeliverInv ==
    loop.pc \in {"deliver", "answer"} =>
        /\ loop.i \in Slots
        /\ in_use(loop.i) /\ at[loop.i].taken /\ ~at[loop.i].answered

\* Nothing of server s runs, and nothing of it can start.
Quiet(s) == acc[s].pc = "gone" /\ \A c \in Conns : ServerOf[c] = s => conn[c].pc = "none"

\* The servers stopped so far are quiet.  The stop waits for the threads that
\* has_thread names, so every other running thread has to be the one that its
\* acceptor is about to mark.
QuietInv ==
    /\ \A c \in Conns : conn[c].pc # "none" =>
         hasThread[c] \/ (acc[ServerOf[c]].pc = "mark" /\ acc[ServerOf[c]].slot = c)
    /\ loop.pc \in {"stop", "join", "cut", "threads"} => loop.i \in 1 .. Len(StopOrder) + 1
    /\ loop.pc \in {"join", "cut", "threads"} => loop.i <= Len(StopOrder)
    /\ loop.pc \in {"cut", "threads"} => acc[server].pc = "gone"
    /\ loop.pc \in {"stop", "join", "cut", "threads"} =>
         \A j \in 1 .. loop.i - 1 : Quiet(StopOrder[j])
    /\ loop.pc = "closed" => \A s \in Servers : Quiet(s)

Inv == TypeOK /\ SlotInv /\ DeliverInv /\ QuietInv

\* Every step is one of these.
Steps ==
    \/ \E s \in Servers : \/ Connect(s) \/ AcceptorChecks(s) \/ AcceptorTakes(s)
                          \/ AcceptorDrops(s) \/ AcceptorMarks(s) \/ AcceptorLeaves(s)
    \/ \E c \in Conns : \/ Read(c) \/ Ends(c) \/ Lock(c) \/ Ask(c) \/ Nudge(c)
                        \/ Awake(c) \/ After(c) \/ Resume(c) \/ Reply(c)
                        \/ Done(c) \/ Close(c) \/ Release(c)
    \/ WakeUp \/ Take \/ Settle \/ Deliver \/ Answer \/ RoundEnds \/ Shut
    \/ StopServer \/ JoinAcceptor \/ CutConnections \/ JoinThreads \/ CloseMailbox
    \/ Signal

\* The next-state relation, one disjunct per action.
LEMMA NextSteps == Next => Steps
BY Zenon DEF Next, Loop, Wake, Tick, Acceptor, AcceptorEnds, AcceptFails, Locks, Runs, Waits, Steps

\* The updates of records stay in their types.
LEMMA SlotTypes ==
    /\ Free \in SlotRecords
    /\ \A c \in Conns : conn[c] \in ConnRecords => waiting(c) \in SlotRecords
    /\ \A r \in SlotRecords :
         /\ taking(r) \in SlotRecords
         /\ giving(r) \in SlotRecords
         /\ deferring(r) \in SlotRecords
         /\ refusing(r) \in SlotRecords
         /\ \A x \in {"acted", "declined"} : answering(r, x) \in SlotRecords
         /\ r.result \in Results
         /\ r.by # None => r.by \in Conns
BY ZenonT(30) DEF SlotRecords, ConnRecords, Results, AllKinds, Free, waiting, taking, giving,
       deferring, refusing, answering

\* What the actions make of a connection has its type.
LEMMA ConnTypes ==
    /\ Gone \in ConnRecords
    /\ [Gone EXCEPT !.pc = "read"] \in ConnRecords
    /\ \A r \in ConnRecords :
         /\ \A p \in ConnPCs : [r EXCEPT !.pc = p] \in ConnRecords
         /\ \A k \in AllKinds : asking(r, k) \in ConnRecords
         /\ \A i \in Slots : entering(r, i) \in ConnRecords
         /\ \A p \in ConnPCs, x \in Results : leaving(r, p, x) \in ConnRecords
<1>1. Gone \in ConnRecords /\ [Gone EXCEPT !.pc = "read"] \in ConnRecords
  BY Zenon DEF ConnRecords, ConnPCs, Results, AllKinds, Gone
<1>2. ASSUME NEW r \in ConnRecords, NEW p \in ConnPCs PROVE [r EXCEPT !.pc = p] \in ConnRecords
  BY Zenon DEF ConnRecords
<1>3. ASSUME NEW r \in ConnRecords, NEW k \in AllKinds PROVE asking(r, k) \in ConnRecords
  BY Zenon DEF ConnRecords, ConnPCs, asking
<1>4. ASSUME NEW r \in ConnRecords, NEW i \in Slots PROVE entering(r, i) \in ConnRecords
  BY Zenon DEF ConnRecords, ConnPCs, entering
<1>5. ASSUME NEW r \in ConnRecords, NEW p \in ConnPCs, NEW x \in Results
      PROVE  leaving(r, p, x) \in ConnRecords
  BY Zenon DEF ConnRecords, leaving
<1> QED
  BY Zenon, <1>1, <1>2, <1>3, <1>4, <1>5

\* What the actions make of an acceptor has its type.
LEMMA AccTypes ==
    \A r \in AccRecords :
        /\ \A p \in {"accept", "check", "take", "gone"} : [r EXCEPT !.pc = p] \in AccRecords
        /\ \A c \in Conns : \A p \in {"mark", "drop"} : [pc |-> p, slot |-> c] \in AccRecords
        /\ [pc |-> "accept", slot |-> None] \in AccRecords
BY Zenon DEF AccRecords

\* Go keeps the type of the connections.
LEMMA GoType ==
    ASSUME conn \in [Conns -> ConnRecords], NEW c \in Conns, NEW p \in ConnPCs, Go(c, p)
    PROVE  conn' \in [Conns -> ConnRecords]
BY Zenon, ConnTypes DEF Go

\* Leave keeps the type of the connections.
LEMMA LeaveType ==
    ASSUME conn \in [Conns -> ConnRecords], lock \in [Servers -> Conns \cup {None}],
           NEW c \in Conns, NEW x \in Results, Leave(c, x)
    PROVE  conn' \in [Conns -> ConnRecords] /\ lock' \in [Servers -> Conns \cup {None}]
BY Zenon, ConnTypes DEF Leave, ConnPCs

\* LoopAt keeps the type of the loop.
LEMMA LoopAtType ==
    ASSUME loop \in LoopRecords, NEW p \in LoopPCs, NEW i \in Nat, LoopAt(p, i)
    PROVE  loop' \in LoopRecords
BY Zenon DEF LoopRecords, LoopAt

\* The types of the loop's fields.
LEMMA LoopTypes == loop \in LoopRecords => loop.i \in Nat /\ loop.stop \in BOOLEAN
BY Zenon DEF LoopRecords

\* Every step keeps the types: one case per action.
LEMMA TypeStep == Inv /\ [Next]_vars => TypeOK'
<1> SUFFICES ASSUME Inv, [Next]_vars PROVE TypeOK'
  OBVIOUS
<1> USE DEF Inv
<1>s. CASE Steps
  <2> USE DEF TypeOK, mailbox, sockets, clients
  <2>1. ASSUME NEW s \in Servers, Connect(s) PROVE TypeOK'
    BY Zenon, <2>1, AccTypes DEF Connect
  <2>2. ASSUME NEW s \in Servers, AcceptorChecks(s) PROVE TypeOK'
    BY Zenon, <2>2, AccTypes DEF AcceptorChecks
  <2>3. ASSUME NEW s \in Servers, AcceptorTakes(s) PROVE TypeOK'
    <3>1. acc' \in [Servers -> AccRecords]
      <4>1. CASE acc' = [acc EXCEPT ![s].pc = "accept"]
        BY Zenon, <4>1, AccTypes
      <4>2. CASE \E c \in Conns : acc' = [acc EXCEPT ![s] = [pc |-> "mark", slot |-> c]]
        BY ZenonT(30), <4>2, AccTypes
      <4>3. CASE \E c \in Conns : acc' = [acc EXCEPT ![s] = [pc |-> "drop", slot |-> c]]
        BY ZenonT(30), <4>3, AccTypes
      <4> QED
        BY Zenon, <2>3, <4>1, <4>2, <4>3 DEF AcceptorTakes
    <3>2. conn' \in [Conns -> ConnRecords]
      BY Zenon, <2>3, ConnTypes DEF AcceptorTakes
    <3>3. /\ fd' \in [Conns -> BOOLEAN]
          /\ open' \in [Conns -> BOOLEAN]
          /\ hasThread' \in [Conns -> BOOLEAN]
      BY Zenon, <2>3 DEF AcceptorTakes, slot_take
    <3> QED
      BY <2>3, <3>1, <3>2, <3>3 DEF AcceptorTakes
  <2>4. ASSUME NEW s \in Servers, AcceptorDrops(s) \/ AcceptorMarks(s) PROVE TypeOK'
    BY Zenon, <2>4, AccTypes DEF AcceptorDrops, AcceptorMarks
  <2>5. ASSUME NEW s \in Servers, AcceptorLeaves(s) PROVE TypeOK'
    BY Zenon, <2>5, AccTypes DEF AcceptorLeaves
  <2>6. ASSUME NEW c \in Conns, Read(c) PROVE TypeOK'
    <3>1. conn' \in [Conns -> ConnRecords]
      <4>1. CASE Go(c, "done")
        BY Zenon, <4>1, GoType DEF ConnPCs
      <4>2. CASE \E k \in Kinds[c] : conn' = [conn EXCEPT ![c] = asking(@, k)]
        <5>1. PICK k \in AllKinds : conn' = [conn EXCEPT ![c] = asking(@, k)]
          BY Zenon, <4>2, KindsAssumption
        <5> QED
          BY Zenon, <5>1, ConnTypes
      <4> QED
        BY Zenon, <2>6, <4>1, <4>2 DEF Read
    <3>2. inbox' \in [Conns -> 0 .. MaxQueued]
      BY <2>6, MailboxAssumption DEF Read
    <3> QED
      BY Zenon, <2>6, <3>1, <3>2 DEF Read
  <2>7. ASSUME NEW c \in Conns, Ends(c) PROVE TypeOK'
    BY Zenon, <2>7, GoType DEF Ends, ConnPCs
  <2>8. ASSUME NEW c \in Conns, Lock(c) PROVE TypeOK'
    BY Zenon, <2>8, GoType DEF Lock, ConnPCs
  <2>9. ASSUME NEW c \in Conns, Ask(c) PROVE TypeOK'
    <3>1. at' \in [Slots -> SlotRecords]
      BY Zenon, <2>9, SlotTypes DEF Ask
    <3>2. conn' \in [Conns -> ConnRecords] /\ lock' \in [Servers -> Conns \cup {None}]
      <4>1. CASE Leave(c, "refused")
        BY Zenon, <4>1, LeaveType DEF Results
      <4>2. CASE UNCHANGED lock /\ \E i \in Slots : conn' = [conn EXCEPT ![c] = entering(@, i)]
        BY <4>2, ConnTypes
      <4> QED
        BY Zenon, <2>9, <4>1, <4>2 DEF Ask
    <3> QED
      BY Zenon, <2>9, <3>1, <3>2 DEF Ask
  <2>10. ASSUME NEW c \in Conns, Nudge(c) PROVE TypeOK'
    BY Zenon, <2>10, GoType DEF Nudge, ConnPCs
  <2>11. ASSUME NEW c \in Conns, Awake(c) PROVE TypeOK'
    <3>1. conn[c].slot \in Slots
      BY Zenon, <2>11 DEF Awake, SlotInv
    <3>2. at[conn[c].slot].result \in Results
      BY Zenon, <3>1, SlotTypes
    <3>3. at' \in [Slots -> SlotRecords]
      BY Zenon, <2>11, <3>1, SlotTypes DEF Awake, leave_slot
    <3>4. conn' \in [Conns -> ConnRecords] /\ lock' \in [Servers -> Conns \cup {None}]
      <4>1. CASE Leave(c, at[conn[c].slot].result)
        BY Zenon, <3>2, <4>1, LeaveType
      <4>2. CASE /\ conn' = [conn EXCEPT ![c] = leaving(@, "after", at[conn[c].slot].result)]
                 /\ answer_park(c)
        BY ZenonT(30), <3>2, <4>2, ConnTypes DEF answer_park, ConnPCs
      <4> QED
        BY Zenon, <2>11, <4>1, <4>2 DEF Awake
    <3>5. owed' \subseteq Conns
      BY Zenon, <2>11 DEF Awake
    <3> QED
      BY Zenon, <2>11, <3>3, <3>4, <3>5 DEF Awake
  <2>12. ASSUME NEW c \in Conns, After(c) PROVE TypeOK'
    BY Zenon, <2>12, GoType DEF After, ConnPCs
  <2>13. ASSUME NEW c \in Conns, Resume(c) PROVE TypeOK'
    BY Zenon, <2>13, GoType DEF Resume, ConnPCs
  <2>14. ASSUME NEW c \in Conns, Reply(c) PROVE TypeOK'
    <3>1. conn' \in [Conns -> ConnRecords]
      BY Zenon, <2>14, GoType, ConnTypes DEF Reply, ConnPCs
    <3> QED
      BY Zenon, <2>14, <3>1 DEF Reply
  <2>15. ASSUME NEW c \in Conns, Done(c) PROVE TypeOK'
    BY Zenon, <2>15, GoType DEF Done, ConnPCs
  <2>16. ASSUME NEW c \in Conns, Close(c) PROVE TypeOK'
    BY Zenon, <2>16, GoType DEF Close, ConnPCs
  <2>17. ASSUME NEW c \in Conns, Release(c) PROVE TypeOK'
    <3>1. conn' \in [Conns -> ConnRecords] /\ cut' \in [Conns -> BOOLEAN]
      BY Zenon, <2>17, ConnTypes DEF Release
    <3>2. inbox' \in [Conns -> 0 .. MaxQueued]
      BY <2>17, MailboxAssumption DEF Release
    <3> QED
      BY Zenon, <2>17, <3>1, <3>2 DEF Release
  <2>18. CASE WakeUp
    BY Zenon, <2>18 DEF WakeUp, LoopRecords, LoopPCs
  <2>19. CASE Take
    BY Zenon, <2>19, LoopAtType, LoopTypes, SlotTypes DEF Take, LoopPCs, Slots
  <2>20. CASE Settle
    <3>1. loop' \in LoopRecords
      BY <2>20, LoopAtType, LoopTypes DEF Settle, LoopPCs
    <3>2. at' \in [Slots -> SlotRecords] /\ owed' \subseteq Conns
      BY <2>20, SlotTypes DEF Settle
    <3> QED
      BY Zenon, <2>20, <3>1, <3>2 DEF Settle
  <2>21. CASE Deliver
    <3>1. loop' \in LoopRecords
      BY Zenon, <2>21, LoopAtType, LoopTypes DEF Deliver, LoopPCs
    <3>2. at' \in [Slots -> SlotRecords] /\ owed' \subseteq Conns
      <4>1. loop.i \in Slots /\ at[loop.i].by # None
        BY Zenon, <2>21 DEF Deliver, DeliverInv, in_use
      <4>2. at[loop.i].by \in Conns
        BY Zenon, <4>1, SlotTypes
      <4> QED
        BY <2>21, <4>1, <4>2, SlotTypes DEF Deliver
    <3> QED
      BY Zenon, <2>21, <3>1, <3>2 DEF Deliver
  <2>22. CASE Answer
    <3>1. loop' \in LoopRecords
      BY <2>22, LoopAtType, LoopTypes DEF Answer, LoopPCs
    <3>2. at' \in [Slots -> SlotRecords] /\ owed' \subseteq Conns
      <4>1. loop.i \in Slots
        BY Zenon, <2>22 DEF Answer, DeliverInv
      <4> QED
        BY <2>22, <4>1, SlotTypes DEF Answer
    <3> QED
      BY Zenon, <2>22, <3>1, <3>2 DEF Answer
  <2>23. CASE RoundEnds
    BY Zenon, <2>23, LoopAtType, LoopTypes DEF RoundEnds, LoopPCs
  <2>24. CASE Shut
    BY Zenon, <2>24, LoopAtType, LoopTypes, SlotTypes DEF Shut, LoopPCs, refused_waiters
  <2>25. CASE StopServer
    BY Zenon, <2>25, LoopAtType, LoopTypes DEF StopServer, LoopPCs
  <2>26. CASE JoinAcceptor
    BY Zenon, <2>26, LoopAtType, LoopTypes DEF JoinAcceptor, LoopPCs
  <2>27. CASE CutConnections
    BY Zenon, <2>27, LoopAtType, LoopTypes DEF CutConnections, LoopPCs
  <2>28. CASE JoinThreads
    BY <2>28, LoopAtType, LoopTypes DEF JoinThreads, LoopPCs
  <2>29. CASE CloseMailbox
    BY Zenon, <2>29, LoopAtType, LoopTypes, SlotTypes DEF CloseMailbox, LoopPCs
  <2>30. CASE Signal
    BY Zenon, <2>30 DEF Signal
  <2> QED
    BY Zenon, <1>s, <2>1, <2>2, <2>3, <2>4, <2>5, <2>6, <2>7, <2>8, <2>9, <2>10, <2>11,
       <2>12, <2>13, <2>14, <2>15, <2>16, <2>17, <2>18, <2>19, <2>20, <2>21, <2>22,
       <2>23, <2>24, <2>25, <2>26, <2>27, <2>28, <2>29, <2>30 DEF Steps
<1>u. CASE UNCHANGED vars
  BY Zenon, <1>u DEF vars, TypeOK
<1> QED
  BY Zenon, <1>s, <1>u, NextSteps

\* The fields that the updates keep and change.
LEMMA SlotFields ==
    /\ Free.by = None
    /\ \A c \in Conns : /\ waiting(c).by = c /\ ~waiting(c).taken /\ ~waiting(c).answered
                        /\ ~waiting(c).after
    /\ \A r \in SlotRecords :
         /\ taking(r).by = r.by /\ taking(r).taken /\ taking(r).answered = r.answered
         /\ taking(r).after = r.after
         /\ giving(r).by = r.by /\ giving(r).taken /\ giving(r).answered = r.answered
         /\ giving(r).after = r.after
         /\ deferring(r).by = r.by /\ deferring(r).taken = r.taken
         /\ deferring(r).answered = r.answered /\ deferring(r).after
         /\ refusing(r).by = r.by /\ refusing(r).taken = r.taken
         /\ refusing(r).after = r.after
         /\ \A x \in {"acted", "declined"} :
              /\ answering(r, x).by = r.by /\ answering(r, x).taken = r.taken
              /\ answering(r, x).after = r.after
BY Zenon DEF SlotRecords, Free, waiting, taking, giving, deferring, refusing, answering

\* The fields of what the actions make of a connection.
LEMMA ConnFields ==
    /\ Gone.pc = "none"
    /\ [Gone EXCEPT !.pc = "read"].pc = "read"
    /\ \A r \in ConnRecords :
         /\ \A k \in AllKinds : asking(r, k).pc = "lock"
         /\ \A i \in Slots : entering(r, i).pc = "nudge" /\ entering(r, i).slot = i
         /\ \A p \in ConnPCs, x \in Results : leaving(r, p, x).pc = p
BY Zenon DEF ConnRecords, Gone, asking, entering, leaving

\* What the loop leaves of a slot that it takes,
LEMMA Takes ==
    \A r \in SlotRecords :
        /\ taking(r).by = r.by /\ taking(r).kind = r.kind
        /\ taking(r).taken /\ taking(r).answered = r.answered
        /\ taking(r).result = r.result /\ taking(r).after = r.after
        /\ taking(r).ready = r.ready /\ taking(r).seen = r.seen
BY Zenon DEF SlotRecords, taking

\* that it gives to the pass,
LEMMA Gives ==
    \A r \in SlotRecords :
        /\ giving(r).by = r.by /\ giving(r).kind = r.kind
        /\ giving(r).taken /\ giving(r).answered = r.answered
        /\ giving(r).result = r.result /\ giving(r).after = r.after
        /\ giving(r).ready = r.ready /\ giving(r).seen
BY Zenon DEF SlotRecords, giving

\* whose answer has more to come,
LEMMA Defers ==
    \A r \in SlotRecords :
        /\ deferring(r).by = r.by /\ deferring(r).kind = r.kind
        /\ deferring(r).taken = r.taken /\ deferring(r).answered = r.answered
        /\ deferring(r).result = r.result /\ deferring(r).after
        /\ deferring(r).ready = r.ready /\ deferring(r).seen = r.seen
BY Zenon DEF SlotRecords, deferring

\* that it refuses,
LEMMA Refuses ==
    \A r \in SlotRecords :
        /\ refusing(r).by = r.by /\ refusing(r).kind = r.kind
        /\ refusing(r).taken = r.taken /\ refusing(r).answered
        /\ refusing(r).result = "refused" /\ refusing(r).after = r.after
        /\ refusing(r).ready = r.ready /\ refusing(r).seen = r.seen
BY Zenon DEF SlotRecords, refusing

\* and that it answers.
LEMMA Answered ==
    \A r \in SlotRecords, x \in {"acted", "declined"} :
        /\ answering(r, x).by = r.by /\ answering(r, x).kind = r.kind
        /\ answering(r, x).taken = r.taken /\ answering(r, x).answered
        /\ answering(r, x).result = x /\ answering(r, x).after = r.after
        /\ answering(r, x).ready = r.after /\ answering(r, x).seen = r.seen
BY Zenon DEF SlotRecords, answering

\* The fields of the connections after Go.
LEMMA GoFields ==
    ASSUME conn \in [Conns -> ConnRecords], NEW c \in Conns, NEW p \in ConnPCs, Go(c, p)
    PROVE  /\ conn'[c].pc = p /\ conn'[c].slot = conn[c].slot
           /\ \A d \in Conns : d # c => conn'[d] = conn[d]
BY Zenon DEF Go, ConnRecords

\* The fields of the loop after LoopAt.
LEMMA LoopAtFields ==
    ASSUME loop \in LoopRecords, NEW p \in LoopPCs, NEW i \in Nat, LoopAt(p, i)
    PROVE  loop'.pc = p /\ loop'.i = i /\ loop'.stop = loop.stop
BY Zenon DEF LoopAt, LoopRecords

Inside == {"ask", "nudge", "wait"}

\* A thread that moves outside the mailbox disturbs no slot.
LEMMA OutsideMove ==
    ASSUME Inv, NEW c \in Conns, conn[c].pc \notin Inside, conn'[c].pc \notin Inside,
           \A d \in Conns : d # c => conn'[d] = conn[d], UNCHANGED <<at, lock>>
    PROVE  SlotInv'
<1>1. WaiterIsThere'
  <2> SUFFICES ASSUME NEW i \in Slots, in_use(i)
               PROVE  /\ conn'[at[i].by].pc \in {"nudge", "wait"}
                      /\ conn'[at[i].by].slot = i
                      /\ lock[ServerOf[at[i].by]] = at[i].by
    BY Zenon DEF WaiterIsThere, in_use
  <2>1. at[i].by \in Conns
    BY Zenon, SlotTypes DEF in_use, Inv, TypeOK
  <2> QED
    BY <2>1 DEF Inv, SlotInv, WaiterIsThere, Inside
<1>2. \A d \in Conns : conn'[d].pc \in Inside => conn'[d] = conn[d]
  OBVIOUS
<1>3. ASSUME NEW s \in Servers, lock'[s] # None
      PROVE  ServerOf[lock'[s]] = s /\ conn'[lock'[s]].pc \in Inside
  <2>1. lock[s] \in Conns
    BY Zenon, <1>3 DEF Inv, TypeOK
  <2> QED
    BY Zenon, <1>3, <2>1 DEF Inv, SlotInv, Inside
<1> QED
  BY <1>1, <1>2, <1>3 DEF Inv, SlotInv, Inside

\* Nor does the loop, which never changes whose a slot is.
LEMMA SameOwners ==
    ASSUME Inv, at' \in [Slots -> SlotRecords], \A i \in Slots : at'[i].by = at[i].by,
           UNCHANGED <<conn, lock>>
    PROVE  SlotInv'
BY DEF Inv, SlotInv, WaiterIsThere, in_use

\* A thread that leaves the mailbox, or was refused, and puts down the lock.
LEMMA LeavesSlot ==
    ASSUME Inv, TypeOK', NEW c \in Conns, lock[ServerOf[c]] = c, conn'[c].pc \notin Inside,
           \A d \in Conns : d # c => conn'[d] = conn[d],
           lock' = [lock EXCEPT ![ServerOf[c]] = None],
           \A j \in Slots : at'[j].by # c /\ (at'[j] = at[j] \/ (at[j].by = c /\ at'[j].by = None))
    PROVE  SlotInv'
<1>0. ServerOf \in [Conns -> Servers] /\ None \notin Conns
  BY Zenon, MailboxAssumption
<1>1. ASSUME NEW d \in Conns, d # c, conn[d].pc \in Inside
      PROVE  lock'[ServerOf[d]] = d
  <2>1. lock[ServerOf[d]] = d
    BY <1>0, <1>1 DEF Inv, SlotInv, WaiterIsThere, in_use, Inside
  <2> QED
    BY Zenon, <1>0, <1>1, <2>1 DEF Inv, TypeOK
<1>2. WaiterIsThere'
  <2> SUFFICES ASSUME NEW i \in Slots, at'[i].by # None
               PROVE  /\ conn'[at'[i].by].pc \in {"nudge", "wait"}
                      /\ conn'[at'[i].by].slot = i
                      /\ lock'[ServerOf[at'[i].by]] = at'[i].by
    BY Zenon DEF WaiterIsThere, in_use
  <2>1. at'[i] = at[i] /\ at[i].by \in Conns /\ at[i].by # c
    BY Zenon, SlotTypes DEF Inv, TypeOK
  <2> QED
    BY <1>1, <2>1 DEF Inv, SlotInv, WaiterIsThere, in_use, Inside
<1>3. ASSUME NEW d \in Conns, conn'[d].pc \in {"nudge", "wait"}
      PROVE  conn'[d].slot \in Slots /\ at'[conn'[d].slot].by = d
  BY <1>3 DEF Inv, SlotInv, Inside
<1>4. ASSUME NEW s \in Servers, lock'[s] # None
      PROVE  ServerOf[lock'[s]] = s /\ conn'[lock'[s]].pc \in Inside
  <2>1. lock'[s] = lock[s] /\ lock[s] \in Conns /\ s # ServerOf[c]
    BY Zenon, <1>4 DEF Inv, TypeOK
  <2>2. conn[lock[s]].pc \in Inside
    BY Zenon, <1>4, <2>1 DEF Inv, SlotInv, Inside
  <2>3. ServerOf[lock[s]] = s
    BY Zenon, <1>4, <2>1 DEF Inv, SlotInv
  <2> QED
    BY Zenon, <2>1, <2>2, <2>3
<1> QED
  BY <1>1, <1>2, <1>3, <1>4 DEF SlotInv, Inside

\* When the stop has gone through all servers, all are quiet.
LEMMA StoppedIsQuiet ==
    ASSUME Inv, loop.pc = "stop", loop.i > Len(StopOrder), NEW s \in Servers
    PROVE  Quiet(s)
<1>1. PICK j \in 1 .. Len(StopOrder) : s = StopOrder[j]
  BY MailboxAssumption
<1>2. j \in 1 .. loop.i - 1
  BY LoopTypes, MailboxAssumption DEF Inv, TypeOK
<1> QED
  BY Zenon, <1>1, <1>2 DEF Inv, QuietInv

(***************************************************************************)
(* Slots and stopping                                                      *)
(***************************************************************************)

\* No step parts a slot in use from its thread and the lock of its server.
LEMMA SlotStep == Inv /\ [Next]_vars => SlotInv'
<1> SUFFICES ASSUME Inv, [Next]_vars PROVE SlotInv'
  OBVIOUS
<1>t. TypeOK /\ TypeOK'
  BY Zenon, TypeStep DEF Inv
<1>k. conn \in [Conns -> ConnRecords] /\ conn' \in [Conns -> ConnRecords]
  BY Zenon, <1>t DEF TypeOK
<1>a. at \in [Slots -> SlotRecords] /\ at' \in [Slots -> SlotRecords]
  BY Zenon, <1>t DEF TypeOK
<1>s. CASE Steps
  <2> USE DEF mailbox, sockets
  <2>1. ASSUME NEW s \in Servers, Connect(s) PROVE SlotInv'
    BY Zenon, <2>1, <1>a, SameOwners DEF Connect
  <2>2. ASSUME NEW s \in Servers, AcceptorChecks(s) PROVE SlotInv'
    BY Zenon, <2>2, <1>a, SameOwners DEF AcceptorChecks
  <2>3. ASSUME NEW s \in Servers, AcceptorTakes(s) PROVE SlotInv'
    <3>1. CASE UNCHANGED conn
      BY Zenon, <2>3, <3>1, <1>a, SameOwners DEF AcceptorTakes
    <3>2. ASSUME NEW c \in Conns, slot_take(s, c),
                 conn' = [conn EXCEPT ![c] = [Gone EXCEPT !.pc = "read"]]
          PROVE  SlotInv'
      <4>1. conn[c].pc = "none" /\ conn'[c].pc = "read"
        BY Zenon, <3>2, <1>k, ConnFields DEF slot_take
      <4>2. \A d \in Conns : d # c => conn'[d] = conn[d]
        BY Zenon, <3>2, <1>k
      <4> QED
        BY Zenon, <2>3, <4>1, <4>2, OutsideMove DEF AcceptorTakes, Inside
    <3> QED
      BY <2>3, <3>1, <3>2, Zenon DEF AcceptorTakes
  <2>4. ASSUME NEW s \in Servers, AcceptorDrops(s) \/ AcceptorMarks(s) PROVE SlotInv'
    BY Zenon, <2>4, <1>a, SameOwners DEF AcceptorDrops, AcceptorMarks
  <2>5. ASSUME NEW s \in Servers, AcceptorLeaves(s) PROVE SlotInv'
    BY Zenon, <2>5, <1>a, SameOwners DEF AcceptorLeaves
  <2>6. ASSUME NEW c \in Conns, Read(c) PROVE SlotInv'
    <3>1. conn'[c].pc \notin Inside
      <4>1. \A k \in Kinds[c] : k \in AllKinds
        BY Zenon, KindsAssumption
      <4> QED
        BY <2>6, <4>1, <1>k, GoFields, ConnFields DEF Read, Inside, ConnPCs
    <3>2. \A d \in Conns : d # c => conn'[d] = conn[d]
      BY Zenon, <2>6, <1>k, GoFields DEF Read, ConnPCs
    <3> QED
      BY Zenon, <2>6, <3>1, <3>2, OutsideMove DEF Read, Inside
  <2>7. ASSUME NEW c \in Conns, Ends(c) PROVE SlotInv'
    BY Zenon, <2>7, <1>k, GoFields, OutsideMove DEF Ends, Inside, ConnPCs
  <2>8. ASSUME NEW c \in Conns, Lock(c) PROVE SlotInv'
    <3>1. /\ conn[c].pc = "lock" /\ conn'[c].pc = "ask"
          /\ \A d \in Conns : d # c => conn'[d] = conn[d]
      BY Zenon, <2>8, <1>k, GoFields DEF Lock, ConnPCs
    <3>2. ServerOf[c] \in Servers /\ None \notin Conns
      BY Zenon, MailboxAssumption
    <3>3. lock[ServerOf[c]] = None /\ lock' = [lock EXCEPT ![ServerOf[c]] = c] /\ at' = at
      BY Zenon, <2>8 DEF Lock, Unlocked
    <3>4. \A d \in Conns : conn[d].pc \in Inside => d # c /\ ServerOf[d] # ServerOf[c]
      BY <3>1, <3>2, <3>3 DEF Inv, SlotInv, WaiterIsThere, in_use, Inside
    <3>5. WaiterIsThere'
      <4> SUFFICES ASSUME NEW i \in Slots, at[i].by # None
                   PROVE  /\ conn'[at[i].by].pc \in {"nudge", "wait"}
                          /\ conn'[at[i].by].slot = i
                          /\ lock'[ServerOf[at[i].by]] = at[i].by
        BY Zenon, <3>3 DEF WaiterIsThere, in_use
      <4>1. at[i].by \in Conns
        BY Zenon, <1>a, SlotTypes
      <4>2. /\ conn[at[i].by].pc \in {"nudge", "wait"} /\ conn[at[i].by].slot = i
            /\ lock[ServerOf[at[i].by]] = at[i].by
        BY Zenon DEF Inv, SlotInv, WaiterIsThere, in_use
      <4>3. at[i].by # c /\ ServerOf[at[i].by] # ServerOf[c]
        BY Zenon, <3>4, <4>1, <4>2 DEF Inside
      <4> QED
        BY Zenon, <1>t, <3>1, <3>3, <4>1, <4>2, <4>3, MailboxAssumption DEF TypeOK
    <3>6. \A d \in Conns : conn'[d].pc = "ask" => lock'[ServerOf[d]] = d
      <4> TAKE d \in Conns
      <4> HAVE conn'[d].pc = "ask"
      <4>1. CASE d = c
        BY Zenon, <1>t, <3>2, <3>3, <4>1 DEF TypeOK
      <4>2. CASE d # c
        <5>1. conn[d].pc = "ask" /\ lock[ServerOf[d]] = d
          BY <3>1, <4>2 DEF Inv, SlotInv
        <5>2. ServerOf[d] # ServerOf[c] /\ ServerOf[d] \in Servers
          BY Zenon, <3>4, <5>1, MailboxAssumption DEF Inside
        <5> QED
          BY Zenon, <1>t, <3>3, <5>1, <5>2 DEF TypeOK
      <4> QED
        BY Zenon, <4>1, <4>2
    <3>7. \A d \in Conns : conn'[d].pc \in {"nudge", "wait"} =>
            conn'[d].slot \in Slots /\ at'[conn'[d].slot].by = d
      BY <3>1, <3>3 DEF Inv, SlotInv
    <3>8. ASSUME NEW s \in Servers, lock'[s] # None
          PROVE  ServerOf[lock'[s]] = s /\ conn'[lock'[s]].pc \in {"ask", "nudge", "wait"}
      <4>1. CASE s = ServerOf[c]
        BY Zenon, <1>t, <3>1, <3>3, <4>1 DEF TypeOK
      <4>2. CASE s # ServerOf[c]
        <5>1. lock'[s] = lock[s] /\ lock[s] \in Conns
          BY Zenon, <1>t, <3>3, <3>8, <4>2 DEF TypeOK
        <5>2. ServerOf[lock[s]] = s /\ conn[lock[s]].pc \in {"ask", "nudge", "wait"}
          BY Zenon, <3>8, <5>1 DEF Inv, SlotInv
        <5> QED
          BY Zenon, <3>1, <5>1, <5>2
      <4> QED
        BY Zenon, <4>1, <4>2
    <3> QED
      BY Zenon, <3>5, <3>6, <3>7, <3>8 DEF SlotInv
  <2>9. ASSUME NEW c \in Conns, Ask(c) PROVE SlotInv'
    <3>0. conn[c].pc = "ask" /\ lock[ServerOf[c]] = c
      BY Zenon, <2>9 DEF Ask, Inv, SlotInv
    <3>1. \A i \in Slots : at[i].by # c
      BY <3>0, MailboxAssumption DEF Inv, SlotInv, WaiterIsThere, in_use
    <3>2. CASE Leave(c, "refused") /\ UNCHANGED at
      <4>1. conn'[c].pc = "reply" /\ \A d \in Conns : d # c => conn'[d] = conn[d]
        BY <1>k, <3>2, ConnFields DEF Leave, ConnPCs, Results
      <4>2. lock' = [lock EXCEPT ![ServerOf[c]] = None]
        BY Zenon, <3>2 DEF Leave
      <4>3. \A j \in Slots : at'[j].by # c /\ (at'[j] = at[j] \/ (at[j].by = c /\ at'[j].by = None))
        BY Zenon, <3>1, <3>2
      <4> QED
        BY Zenon, <1>t, <3>0, <4>1, <4>2, <4>3, LeavesSlot DEF Inside
    <3>3. ASSUME NEW i \in Slots, ~in_use(i), at' = [at EXCEPT ![i] = waiting(c)],
                 conn' = [conn EXCEPT ![c] = entering(@, i)], UNCHANGED lock
          PROVE  SlotInv'
      <4>1. /\ conn'[c].pc = "nudge" /\ conn'[c].slot = i
            /\ \A d \in Conns : d # c => conn'[d] = conn[d]
        BY <3>3, <1>k, ConnFields
      <4>2. at'[i].by = c /\ \A j \in Slots : j # i => at'[j] = at[j]
        BY Zenon, <3>3, <1>a, SlotFields
      <4>3. \A j \in Slots : at[j].by # None => at[j].by \in Conns
        BY Zenon, <1>a, SlotTypes
      <4>4. WaiterIsThere'
        <5> SUFFICES ASSUME NEW j \in Slots, at'[j].by # None
                     PROVE  /\ conn'[at'[j].by].pc \in {"nudge", "wait"}
                            /\ conn'[at'[j].by].slot = j
                            /\ lock[ServerOf[at'[j].by]] = at'[j].by
          BY Zenon, <3>3 DEF WaiterIsThere, in_use
        <5>1. CASE j = i
          BY Zenon, <3>0, <4>1, <4>2, <5>1
        <5>2. CASE j # i
          BY <3>1, <4>1, <4>2, <4>3, <5>2 DEF Inv, SlotInv, WaiterIsThere, in_use
        <5> QED
          BY Zenon, <5>1, <5>2
      <4>5. \A d \in Conns : conn'[d].pc \in {"nudge", "wait"} =>
              conn'[d].slot \in Slots /\ at'[conn'[d].slot].by = d
        BY <3>3, <4>1, <4>2, MailboxAssumption DEF Inv, SlotInv, in_use
      <4>6. \A d \in Conns : conn'[d].pc = "ask" => lock[ServerOf[d]] = d
        BY <4>1 DEF Inv, SlotInv
      <4>7. \A s \in Servers : lock[s] # None =>
              ServerOf[lock[s]] = s /\ conn'[lock[s]].pc \in {"ask", "nudge", "wait"}
        BY <1>t, <4>1 DEF Inv, SlotInv, TypeOK
      <4> QED
        BY Zenon, <3>3, <4>4, <4>5, <4>6, <4>7 DEF SlotInv
    <3> QED
      BY Zenon, <2>9, <3>2, <3>3 DEF Ask
  <2>10. ASSUME NEW c \in Conns, Nudge(c) PROVE SlotInv'
    <3>1. /\ conn[c].pc = "nudge" /\ conn'[c].pc = "wait" /\ conn'[c].slot = conn[c].slot
          /\ \A d \in Conns : d # c => conn'[d] = conn[d]
          /\ at' = at /\ lock' = lock
      BY Zenon, <2>10, <1>k, GoFields DEF Nudge, ConnPCs
    <3>2. \A j \in Slots : at[j].by # None => at[j].by \in Conns
      BY Zenon, <1>a, SlotTypes
    <3>3. WaiterIsThere'
      BY <3>1, <3>2 DEF Inv, SlotInv, WaiterIsThere, in_use
    <3>4. \A d \in Conns : conn'[d].pc \in {"nudge", "wait"} =>
            conn'[d].slot \in Slots /\ at'[conn'[d].slot].by = d
      BY <3>1 DEF Inv, SlotInv
    <3>5. \A s \in Servers : lock[s] # None =>
            ServerOf[lock[s]] = s /\ conn'[lock[s]].pc \in {"ask", "nudge", "wait"}
      BY <1>t, <3>1 DEF Inv, SlotInv, TypeOK
    <3> QED
      BY <3>1, <3>3, <3>4, <3>5 DEF Inv, SlotInv
  <2>11. ASSUME NEW c \in Conns, Awake(c) PROVE SlotInv'
    <3>1. conn[c].pc = "wait" /\ conn[c].slot \in Slots /\ at[conn[c].slot].by = c
      BY Zenon, <2>11 DEF Awake, Inv, SlotInv
    <3>2. lock[ServerOf[c]] = c
      BY <3>1, MailboxAssumption DEF Inv, SlotInv, WaiterIsThere, in_use
    <3>3. conn'[c].pc \notin Inside /\ \A d \in Conns : d # c => conn'[d] = conn[d]
      BY <2>11, <3>1, <1>k, <1>a, ConnFields, SlotTypes DEF Awake, Leave, Inside, ConnPCs
    <3>4. lock' = [lock EXCEPT ![ServerOf[c]] = None]
      BY Zenon, <2>11 DEF Awake, Leave, answer_park
    <3>5. at'[conn[c].slot].by = None /\ \A j \in Slots : j # conn[c].slot => at'[j] = at[j]
      <4>1. at' = [at EXCEPT ![conn[c].slot] = Free] /\ Free.by = None
        BY Zenon, <2>11, SlotFields DEF Awake, leave_slot
      <4> QED
        BY Zenon, <3>1, <4>1, <1>a
    <3>6. \A j \in Slots : at'[j].by # c
      BY <3>1, <3>5, MailboxAssumption DEF Inv, SlotInv, WaiterIsThere, in_use
    <3>7. \A j \in Slots : at'[j].by # c /\ (at'[j] = at[j] \/ (at[j].by = c /\ at'[j].by = None))
      BY Zenon, <3>1, <3>5, <3>6
    <3> QED
      BY ZenonT(30), <1>t, <3>2, <3>3, <3>4, <3>7, LeavesSlot
  <2>12. ASSUME NEW c \in Conns, After(c) PROVE SlotInv'
    BY Zenon, <2>12, <1>k, GoFields, OutsideMove DEF After, Inside, ConnPCs
  <2>13. ASSUME NEW c \in Conns, Resume(c) PROVE SlotInv'
    BY Zenon, <2>13, <1>k, GoFields, OutsideMove DEF Resume, Inside, ConnPCs
  <2>14. ASSUME NEW c \in Conns, Reply(c) PROVE SlotInv'
    <3>1. conn'[c].pc \notin Inside
      <4>1. CASE Go(c, "done")
        BY Zenon, <4>1, <1>k, GoFields DEF Inside, ConnPCs
      <4>2. CASE conn' = [conn EXCEPT ![c] = [Gone EXCEPT !.pc = "read"]]
        BY Zenon, <4>2, <1>k, ConnFields DEF Inside
      <4> QED
        BY Zenon, <2>14, <4>1, <4>2 DEF Reply
    <3>2. \A d \in Conns : d # c => conn'[d] = conn[d]
      BY Zenon, <2>14, <1>k, GoFields DEF Reply, ConnPCs
    <3> QED
      BY Zenon, <2>14, <3>1, <3>2, OutsideMove DEF Reply, Inside
  <2>15. ASSUME NEW c \in Conns, Done(c) PROVE SlotInv'
    BY Zenon, <2>15, <1>k, GoFields, OutsideMove DEF Done, Inside, ConnPCs
  <2>16. ASSUME NEW c \in Conns, Close(c) PROVE SlotInv'
    BY Zenon, <2>16, <1>k, GoFields, OutsideMove DEF Close, Inside, ConnPCs
  <2>17. ASSUME NEW c \in Conns, Release(c) PROVE SlotInv'
    BY <2>17, <1>k, ConnFields, OutsideMove DEF Release, Inside
  <2>18. CASE WakeUp
    BY Zenon, <2>18, <1>a, SameOwners DEF WakeUp
  <2>19. CASE Take
    <3>1. \A i \in Slots : at'[i].by = at[i].by
      BY Zenon, <2>19, <1>a, SlotFields DEF Take
    <3> QED
      BY Zenon, <2>19, <1>a, <3>1, SameOwners DEF Take
  <2>20. CASE Settle
    <3>1. \A i \in Slots : at'[i].by = at[i].by
      BY SMTT(30), <2>20, <1>a, Takes DEF Settle
    <3> QED
      BY Zenon, <2>20, <1>a, <3>1, SameOwners DEF Settle
  <2>21. CASE Deliver
    <3>1. \A i \in Slots : at'[i].by = at[i].by
      BY SMTT(30), <2>21, <1>a, Defers DEF Deliver
    <3> QED
      BY Zenon, <2>21, <1>a, <3>1, SameOwners DEF Deliver
  <2>22. CASE Answer
    <3>1. \A i \in Slots : at'[i].by = at[i].by
      BY <2>22, <1>a, SlotFields DEF Answer
    <3> QED
      BY Zenon, <2>22, <1>a, <3>1, SameOwners DEF Answer
  <2>23. CASE RoundEnds
    BY Zenon, <2>23, <1>a, SameOwners DEF RoundEnds
  <2>24. CASE Shut
    <3>1. \A i \in Slots : at'[i].by = at[i].by
      BY Zenon, <2>24, <1>a, SlotFields DEF Shut, refused_waiters
    <3> QED
      BY Zenon, <2>24, <1>a, <3>1, SameOwners DEF Shut
  <2>25. CASE StopServer
    BY Zenon, <2>25, <1>a, SameOwners DEF StopServer
  <2>26. CASE JoinAcceptor
    BY Zenon, <2>26, <1>a, SameOwners DEF JoinAcceptor
  <2>27. CASE CutConnections
    BY Zenon, <2>27, <1>a, SameOwners DEF CutConnections
  <2>28. CASE JoinThreads
    BY Zenon, <2>28, <1>a, SameOwners DEF JoinThreads
  <2>29. CASE CloseMailbox
    <3>1. \A c \in Conns : conn[c].pc = "none"
      BY Zenon, <2>29, StoppedIsQuiet, MailboxAssumption DEF CloseMailbox, Quiet
    <3>2. \A i \in Slots : at'[i].by = None
      BY Zenon, <2>29, SlotFields DEF CloseMailbox
    <3>3. ASSUME NEW s \in Servers, lock[s] # None
          PROVE  FALSE
      <4>1. lock[s] \in Conns
        BY Zenon, <1>t, <3>3 DEF TypeOK
      <4>2. conn[lock[s]].pc \in {"ask", "nudge", "wait"}
        BY Zenon, <3>3 DEF Inv, SlotInv
      <4> QED
        BY Zenon, <3>1, <4>1, <4>2
    <3> QED
      BY Zenon, <2>29, <3>1, <3>2, <3>3 DEF CloseMailbox, SlotInv, WaiterIsThere, in_use
  <2>30. CASE Signal
    BY Zenon, <2>30, <1>a, SameOwners DEF Signal
  <2> QED
    BY Zenon, <1>s, <2>1, <2>2, <2>3, <2>4, <2>5, <2>6, <2>7, <2>8, <2>9, <2>10, <2>11,
       <2>12, <2>13, <2>14, <2>15, <2>16, <2>17, <2>18, <2>19, <2>20, <2>21, <2>22,
       <2>23, <2>24, <2>25, <2>26, <2>27, <2>28, <2>29, <2>30 DEF Steps
<1>u. CASE UNCHANGED vars
  BY Zenon, <1>u, <1>a, SameOwners DEF vars
<1> QED
  BY Zenon, <1>s, <1>u, NextSteps

\* No step takes away the slot that the loop is answering.
LEMMA DeliverStep == Inv /\ [Next]_vars => DeliverInv'
<1> SUFFICES ASSUME Inv, [Next]_vars PROVE DeliverInv'
  OBVIOUS
<1>t. TypeOK
  BY Zenon DEF Inv
<1>a. at \in [Slots -> SlotRecords] /\ loop \in LoopRecords
  BY Zenon, <1>t DEF TypeOK
<1>d. DeliverInv
  BY Zenon DEF Inv
\* Threads leave the slot of the loop alone.
<1>o. ASSUME UNCHANGED loop, \A i \in Slots : in_use(i) /\ ~at[i].answered => at'[i] = at[i]
      PROVE  DeliverInv'
  BY Zenon, <1>o, <1>d DEF DeliverInv, in_use
<1>s. CASE Steps
  <2> USE DEF mailbox
  <2>1. ASSUME NEW s \in Servers,
               Connect(s) \/ AcceptorChecks(s) \/ AcceptorTakes(s) \/ AcceptorDrops(s)
                 \/ AcceptorMarks(s) \/ AcceptorLeaves(s)
        PROVE  DeliverInv'
    BY Zenon, <2>1, <1>o DEF Connect, AcceptorChecks, AcceptorTakes, AcceptorDrops, AcceptorMarks, AcceptorLeaves
  <2>2. ASSUME NEW c \in Conns,
               Read(c) \/ Ends(c) \/ Lock(c) \/ Nudge(c) \/ After(c) \/ Resume(c) \/ Reply(c)
                 \/ Done(c) \/ Close(c) \/ Release(c)
        PROVE  DeliverInv'
    BY Zenon, <2>2, <1>o DEF Read, Ends, Lock, Nudge, After, Resume, Reply, Done, Close, Release
  <2>3. ASSUME NEW c \in Conns, Ask(c) PROVE DeliverInv'
    BY Zenon, <2>3, <1>a, <1>o DEF Ask
  <2>4. ASSUME NEW c \in Conns, Awake(c) PROVE DeliverInv'
    BY Zenon, <2>4, <1>a, <1>o DEF Awake, answered, leave_slot
  <2>5. CASE WakeUp
    BY Zenon, <2>5 DEF WakeUp, DeliverInv
  <2>6. CASE Take
    BY Zenon, <2>6, <1>a, LoopAtFields DEF Take, DeliverInv, LoopPCs
  <2>7. CASE Settle
    <3>1. CASE LoopAt("settle", loop.i + 1)
      BY <3>1, <1>a, LoopTypes, LoopAtFields DEF DeliverInv, LoopPCs
    <3>2. CASE /\ settles(loop.i) /\ LoopAt("deliver", loop.i)
               /\ at' = [at EXCEPT ![loop.i] = taking(@)]
      <4>1. loop.i \in Slots /\ at[loop.i].by # None /\ ~at[loop.i].answered
        BY Zenon, <2>7, <3>2 DEF Settle, settles, in_use
      <4>2. loop'.pc = "deliver" /\ loop'.i = loop.i
        BY Zenon, <3>2, <1>a, LoopTypes, LoopAtFields DEF LoopPCs
      <4>3. at'[loop.i] = taking(at[loop.i])
        BY Zenon, <3>2, <4>1, <1>a
      <4>4. at'[loop.i].by # None /\ at'[loop.i].taken /\ ~at'[loop.i].answered
        BY <4>1, <4>3, <1>a, SlotFields
      <4> QED
        BY Zenon, <4>1, <4>2, <4>4 DEF DeliverInv, in_use
    <3> QED
      BY Zenon, <2>7, <3>1, <3>2 DEF Settle
  <2>8. CASE Deliver
    <3>1. loop.i \in Slots /\ at[loop.i].by # None /\ at[loop.i].taken /\ ~at[loop.i].answered
      BY Zenon, <2>8, <1>d DEF Deliver, DeliverInv, in_use
    <3>2. loop'.pc = "answer" /\ loop'.i = loop.i
      BY Zenon, <2>8, <1>a, LoopTypes, LoopAtFields DEF Deliver, LoopPCs
    <3>3. at'[loop.i] = at[loop.i] \/ at'[loop.i] = deferring(at[loop.i])
      BY Zenon, <2>8, <3>1, <1>a DEF Deliver
    <3>4. at'[loop.i].by # None /\ at'[loop.i].taken /\ ~at'[loop.i].answered
      BY <3>1, <3>3, <1>a, SlotFields
    <3> QED
      BY Zenon, <3>1, <3>2, <3>4 DEF DeliverInv, in_use
  <2>9. CASE Answer
    BY <2>9, <1>a, LoopTypes, LoopAtFields DEF Answer, DeliverInv, LoopPCs
  <2>10. CASE RoundEnds
    BY Zenon, <2>10, <1>a, LoopAtFields DEF RoundEnds, DeliverInv, LoopPCs
  <2>11. CASE Shut
    BY Zenon, <2>11, <1>a, LoopAtFields DEF Shut, DeliverInv, LoopPCs
  <2>12. CASE StopServer
    BY Zenon, <2>12, <1>a, LoopTypes, LoopAtFields DEF StopServer, DeliverInv, LoopPCs
  <2>13. CASE JoinAcceptor
    BY Zenon, <2>13, <1>a, LoopTypes, LoopAtFields DEF JoinAcceptor, DeliverInv, LoopPCs
  <2>14. CASE CutConnections
    BY Zenon, <2>14, <1>a, LoopTypes, LoopAtFields DEF CutConnections, DeliverInv, LoopPCs
  <2>15. CASE JoinThreads
    BY <2>15, <1>a, LoopTypes, LoopAtFields DEF JoinThreads, DeliverInv, LoopPCs
  <2>16. CASE CloseMailbox
    BY Zenon, <2>16, <1>a, LoopAtFields DEF CloseMailbox, DeliverInv, LoopPCs
  <2>17. CASE Signal
    BY Zenon, <2>17, <1>o DEF Signal
  <2> QED
    BY Zenon, <1>s, <2>1, <2>2, <2>3, <2>4, <2>5, <2>6, <2>7, <2>8, <2>9, <2>10, <2>11,
       <2>12, <2>13, <2>14, <2>15, <2>16, <2>17 DEF Steps
<1>u. CASE UNCHANGED vars
  BY Zenon, <1>u, <1>o DEF vars
<1> QED
  BY Zenon, <1>s, <1>u, NextSteps

\* A thread that runs is not one of a server that is quiet.
LEMMA ThreadMoves ==
    ASSUME Inv, NEW c \in Conns, conn[c].pc # "none",
           \A d \in Conns : d # c => conn'[d] = conn[d], UNCHANGED <<acc, hasThread, loop>>
    PROVE  QuietInv'
<1>1. \A s \in Servers : Quiet(s) => Quiet(s)'
  BY Zenon DEF Quiet
<1>2. \A j \in 1 .. Len(StopOrder) : StopOrder[j] \in Servers
  BY MailboxAssumption
<1>3. \A d \in Conns : conn'[d].pc # "none" =>
        hasThread[d] \/ (acc[ServerOf[d]].pc = "mark" /\ acc[ServerOf[d]].slot = d)
  BY Zenon DEF Inv, QuietInv
<1>4. Len(StopOrder) \in Nat /\ loop.i \in Nat
  BY MailboxAssumption, LoopTypes DEF Inv, TypeOK
<1> QED
  BY <1>1, <1>2, <1>3, <1>4 DEF Inv, QuietInv, server

\* Nor is an acceptor that has not ended.
LEMMA AcceptorMoves ==
    ASSUME Inv, NEW s \in Servers, acc[s].pc # "gone",
           \A r \in Servers : r # s => acc'[r] = acc[r], UNCHANGED loop,
           \A d \in Conns : ServerOf[d] # s => conn'[d] = conn[d],
           \A d \in Conns : conn'[d].pc # "none" =>
             hasThread'[d] \/ (acc'[ServerOf[d]].pc = "mark" /\ acc'[ServerOf[d]].slot = d)
    PROVE  QuietInv'
<1>1. \A r \in Servers : Quiet(r) => Quiet(r)'
  BY DEF Quiet
<1>2. \A j \in 1 .. Len(StopOrder) : StopOrder[j] \in Servers
  BY MailboxAssumption
<1>4. Len(StopOrder) \in Nat /\ loop.i \in Nat
  BY MailboxAssumption, LoopTypes DEF Inv, TypeOK
<1>5. loop.pc \in {"cut", "threads"} => acc'[StopOrder[loop.i]].pc = "gone"
  BY <1>2, <1>4 DEF Inv, QuietInv, server
<1> QED
  BY <1>1, <1>2, <1>4, <1>5 DEF Inv, QuietInv, server

\* No step leaves a running thread that the stop will not join.
LEMMA QuietStep == Inv /\ [Next]_vars => QuietInv'
<1> SUFFICES ASSUME Inv, [Next]_vars PROVE QuietInv'
  OBVIOUS
<1>t. TypeOK
  BY Zenon DEF Inv
<1>k. conn \in [Conns -> ConnRecords] /\ acc \in [Servers -> AccRecords]
      /\ hasThread \in [Conns -> BOOLEAN] /\ loop \in LoopRecords
  BY Zenon, <1>t DEF TypeOK
<1>q. QuietInv
  BY Zenon DEF Inv
<1>i. loop.i \in Nat /\ Len(StopOrder) \in Nat
      /\ \A j \in 1 .. Len(StopOrder) : StopOrder[j] \in Servers
  BY <1>k, LoopTypes, MailboxAssumption
<1>v. ServerOf \in [Conns -> Servers]
  BY Zenon, MailboxAssumption
\* The loop in a round.
<1>l. ASSUME UNCHANGED <<acc, conn, hasThread>>,
             loop'.pc \notin {"stop", "join", "cut", "threads", "closed"}
      PROVE  QuietInv'
  BY Zenon, <1>l, <1>q DEF QuietInv
<1>s. CASE Steps
  <2> USE DEF mailbox, sockets
  <2>1. ASSUME NEW s \in Servers,
               Connect(s) \/ AcceptorChecks(s) \/ AcceptorDrops(s) \/ AcceptorLeaves(s)
        PROVE  QuietInv'
    <3>1. /\ acc[s].pc \in {"accept", "check", "drop"} /\ UNCHANGED <<conn, hasThread, loop>>
          /\ \A r \in Servers : r # s => acc'[r] = acc[r]
      BY Zenon, <2>1, <1>k DEF Connect, AcceptorChecks, AcceptorDrops, AcceptorLeaves
    <3>2. \A d \in Conns : conn'[d].pc # "none" =>
            hasThread'[d] \/ (acc'[ServerOf[d]].pc = "mark" /\ acc'[ServerOf[d]].slot = d)
      BY <3>1, <1>q, <1>v DEF QuietInv
    <3> QED
      BY Zenon, <3>1, <3>2, AcceptorMoves
  <2>2. ASSUME NEW s \in Servers, AcceptorTakes(s) PROVE QuietInv'
    <3>1. /\ acc[s].pc = "take" /\ UNCHANGED loop
          /\ \A r \in Servers : r # s => acc'[r] = acc[r]
      BY Zenon, <2>2, <1>k DEF AcceptorTakes
    <3>2. CASE UNCHANGED <<conn, sockets>>
      BY <3>1, <3>2, <1>q, <1>v, AcceptorMoves DEF QuietInv
    <3>3. ASSUME NEW c \in Conns, slot_take(s, c), UNCHANGED conn PROVE QuietInv'
      BY <3>1, <3>3, <1>q, <1>v, <1>k, AcceptorMoves DEF QuietInv, slot_take
    <3>4. ASSUME NEW c \in Conns, slot_take(s, c),
                 acc' = [acc EXCEPT ![s] = [pc |-> "mark", slot |-> c]],
                 conn' = [conn EXCEPT ![c] = [Gone EXCEPT !.pc = "read"]]
          PROVE  QuietInv'
      <4>1. acc'[s].pc = "mark" /\ acc'[s].slot = c /\ ServerOf[c] = s
        BY Zenon, <3>4, <1>k DEF slot_take
      <4>2. \A d \in Conns : d # c => conn'[d] = conn[d] /\ hasThread'[d] = hasThread[d]
        BY Zenon, <3>4, <1>k DEF slot_take
      <4>3. \A d \in Conns : conn'[d].pc # "none" =>
              hasThread'[d] \/ (acc'[ServerOf[d]].pc = "mark" /\ acc'[ServerOf[d]].slot = d)
        BY <3>1, <4>1, <4>2, <1>q, <1>v DEF QuietInv
      <4> QED
        BY Zenon, <3>1, <4>1, <4>2, <4>3, AcceptorMoves
    <3> QED
      BY <2>2, <3>2, <3>3, <3>4, Zenon DEF AcceptorTakes
  <2>3. ASSUME NEW s \in Servers, AcceptorMarks(s) PROVE QuietInv'
    <3>1. /\ acc[s].pc = "mark" /\ UNCHANGED <<conn, loop>>
          /\ \A r \in Servers : r # s => acc'[r] = acc[r]
          /\ \A d \in Conns : hasThread[d] \/ d = acc[s].slot => hasThread'[d]
      BY Zenon, <2>3, <1>k DEF AcceptorMarks
    <3>2. \A d \in Conns : conn'[d].pc # "none" =>
            hasThread'[d] \/ (acc'[ServerOf[d]].pc = "mark" /\ acc'[ServerOf[d]].slot = d)
      BY <3>1, <1>q, <1>v DEF QuietInv
    <3> QED
      BY Zenon, <3>1, <3>2, AcceptorMoves
  <2>4. ASSUME NEW c \in Conns,
               Ends(c) \/ Lock(c) \/ Nudge(c) \/ After(c) \/ Resume(c) \/ Done(c) \/ Close(c)
        PROVE  QuietInv'
    <3>1. /\ conn[c].pc # "none" /\ UNCHANGED <<acc, hasThread, loop>>
          /\ \E p \in ConnPCs : Go(c, p)
      BY Zenon, <2>4 DEF Ends, Lock, Nudge, After, Resume, Done, Close, ConnPCs
    <3> QED
      BY Zenon, <3>1, <1>k, GoFields, ThreadMoves
  <2>5. ASSUME NEW c \in Conns, Read(c) \/ Reply(c) \/ Release(c) PROVE QuietInv'
    <3>1. conn[c].pc # "none" /\ UNCHANGED <<acc, hasThread, loop>>
      BY Zenon, <2>5 DEF Read, Reply, Release
    <3>2. \A d \in Conns : d # c => conn'[d] = conn[d]
      BY Zenon, <2>5, <1>k, GoFields DEF Read, Reply, Release, ConnPCs
    <3> QED
      BY Zenon, <3>1, <3>2, ThreadMoves
  <2>6. ASSUME NEW c \in Conns, Ask(c) PROVE QuietInv'
    BY Zenon, <2>6, <1>k, ThreadMoves DEF Ask, Leave
  <2>7. ASSUME NEW c \in Conns, Awake(c) PROVE QuietInv'
    BY Zenon, <2>7, <1>k, ThreadMoves DEF Awake, Leave
  <2>8. CASE WakeUp
    BY Zenon, <2>8, <1>l DEF WakeUp
  <2>9. CASE Take \/ Settle \/ Deliver \/ Answer
    <3>1. /\ UNCHANGED <<acc, conn, hasThread>>
          /\ \E p \in {"settle", "deliver", "answer"}, i \in Nat : LoopAt(p, i)
      BY <2>9, <1>i DEF Take, Settle, Deliver, Answer
    <3> QED
      BY Zenon, <3>1, <1>k, <1>l, LoopAtFields DEF LoopPCs
  <2>10. CASE RoundEnds
    BY Zenon, <2>10, <1>k, <1>l, LoopAtFields DEF RoundEnds, LoopPCs
  <2>11. CASE Shut
    <3>1. loop'.pc = "stop" /\ loop'.i = 1 /\ UNCHANGED <<acc, conn, hasThread>>
      BY Zenon, <2>11, <1>k, LoopAtFields DEF Shut, LoopPCs
    <3> QED
      BY <3>1, <1>q, <1>i DEF QuietInv
  <2>12. CASE StopServer
    <3>1. /\ loop.pc = "stop" /\ loop'.pc = "join" /\ loop'.i = loop.i
          /\ loop.i <= Len(StopOrder) /\ UNCHANGED <<acc, conn, hasThread>>
      BY Zenon, <2>12, <1>k, <1>i, LoopAtFields DEF StopServer, LoopPCs
    <3> QED
      BY <3>1, <1>q, <1>i DEF QuietInv, Quiet
  <2>13. CASE JoinAcceptor
    <3>1. /\ loop.pc = "join" /\ loop'.pc = "cut" /\ loop'.i = loop.i
          /\ acc[StopOrder[loop.i]].pc = "gone" /\ UNCHANGED <<acc, conn, hasThread>>
      BY Zenon, <2>13, <1>k, <1>i, LoopAtFields DEF JoinAcceptor, LoopPCs, server
    <3> QED
      BY <3>1, <1>q, <1>i DEF QuietInv, Quiet, server
  <2>14. CASE CutConnections
    <3>1. /\ loop.pc = "cut" /\ loop'.pc = "threads" /\ loop'.i = loop.i
          /\ UNCHANGED <<acc, conn, hasThread>>
      BY Zenon, <2>14, <1>k, <1>i, LoopAtFields DEF CutConnections, LoopPCs
    <3> QED
      BY <3>1, <1>q, <1>i DEF QuietInv, Quiet, server
  <2>15. CASE JoinThreads
    <3>1. /\ loop.pc = "threads" /\ loop'.pc = "stop" /\ loop'.i = loop.i + 1
          /\ UNCHANGED <<acc, conn>>
      BY <2>15, <1>k, <1>i, LoopAtFields DEF JoinThreads, LoopPCs
    <3>2. Quiet(server)
      <4>1. acc[server].pc = "gone"
        BY Zenon, <3>1, <1>q DEF QuietInv
      <4>2. \A c \in Conns : ServerOf[c] = server /\ hasThread[c] => conn[c].pc = "none"
        BY Zenon, <2>15 DEF JoinThreads
      <4> QED
        BY Zenon, <4>1, <4>2, <1>q DEF QuietInv, Quiet
    <3>3. \A c \in Conns : ServerOf[c] # server => hasThread'[c] = hasThread[c]
      BY Zenon, <2>15, <1>k DEF JoinThreads
    <3>4. \A c \in Conns : conn'[c].pc # "none" =>
            hasThread'[c] \/ (acc'[ServerOf[c]].pc = "mark" /\ acc'[ServerOf[c]].slot = c)
      BY Zenon, <3>1, <3>2, <3>3, <1>q DEF QuietInv, Quiet
    <3>5. \A j \in 1 .. loop.i : Quiet(StopOrder[j])'
      BY <3>1, <3>2, <1>q, <1>i DEF QuietInv, Quiet, server
    <3> QED
      BY <3>1, <3>4, <3>5, <1>q, <1>i DEF QuietInv
  <2>16. CASE CloseMailbox
    <3>1. /\ loop.pc = "stop" /\ loop.i > Len(StopOrder) /\ loop'.pc = "closed"
          /\ UNCHANGED <<acc, conn, hasThread>>
      BY Zenon, <2>16, <1>k, LoopAtFields DEF CloseMailbox, LoopPCs
    <3>2. \A s \in Servers : Quiet(s)'
      BY Zenon, <3>1, StoppedIsQuiet DEF Quiet
    <3> QED
      BY Zenon, <3>1, <3>2, <1>q DEF QuietInv
  <2>17. CASE Signal
    BY <2>17, <1>q DEF Signal, QuietInv, Quiet, server
  <2> QED
    BY Zenon, <1>s, <2>1, <2>2, <2>3, <2>4, <2>5, <2>6, <2>7, <2>8, <2>9, <2>10, <2>11,
       <2>12, <2>13, <2>14, <2>15, <2>16, <2>17 DEF Steps
<1>u. CASE UNCHANGED vars
  BY <1>u, <1>q DEF vars, QuietInv, Quiet, server
<1> QED
  BY Zenon, <1>s, <1>u, NextSteps

\* The invariant holds when the servers have been started.
LEMMA InvInit == Init => Inv
<1> SUFFICES ASSUME Init PROVE Inv
  OBVIOUS
<1> USE DEF Init, MailboxOpened
<1>1. TypeOK
  <2>1. /\ at \in [Slots -> SlotRecords] /\ conn \in [Conns -> ConnRecords]
        /\ acc \in [Servers -> AccRecords]
    BY Zenon, SlotTypes, ConnTypes, AccTypes DEF AccRecords
  <2>2. loop \in LoopRecords
    BY Zenon DEF LoopRecords, LoopPCs
  <2>3. inbox \in [Conns -> 0 .. MaxQueued]
    BY MailboxAssumption
  <2> QED
    BY Zenon, <2>1, <2>2, <2>3 DEF TypeOK
<1>2. SlotInv
  BY Zenon, SlotFields, ConnFields DEF SlotInv, WaiterIsThere, in_use
<1>3. DeliverInv
  BY Zenon DEF DeliverInv
<1>4. QuietInv
  BY Zenon, ConnFields DEF QuietInv
<1> QED
  BY Zenon, <1>1, <1>2, <1>3, <1>4 DEF Inv

\* The inductive invariant: types, the ownership of slots, the slot being
\* delivered to and the progress of the stop need each other.
THEOREM InvCorrect == Spec => []Inv
<1>1. Inv /\ [Next]_vars => Inv'
  BY Zenon, TypeStep, SlotStep, DeliverStep, QuietStep DEF Inv
<1> QED
  BY InvInit, <1>1, PTL DEF Spec

\* Every variable of the mailbox and the servers keeps its type.
THEOREM MailboxTypeCorrect == Spec => []TypeOK
<1>1. Inv => TypeOK
  BY Zenon DEF Inv
<1> QED
  BY InvCorrect, <1>1, PTL

\* The thread whose buffers a request borrows is inside the mailbox, on that
\* slot and with its server locked, for any number of sockets, connections and
\* slots.
THEOREM WaiterCorrect == Spec => []WaiterIsThere
<1>1. Inv => WaiterIsThere
  BY Zenon DEF Inv, SlotInv
<1> QED
  BY InvCorrect, <1>1, PTL

\* While ncfg_main_mailbox_settle has let go of the mutex to deliver, nobody
\* else empties or answers the slot.
THEOREM DeliveryCorrect == Spec => []DeliveryIsExclusive
<1>1. Inv => DeliveryIsExclusive
  BY Zenon DEF Inv, DeliverInv, DeliveryIsExclusive
<1> QED
  BY InvCorrect, <1>1, PTL

\* The stop of every server leaves no thread to use the mailbox's mutex when
\* it is destroyed.
THEOREM ClosedCorrect == Spec => []ClosedIsQuiet
<1>1. Inv => ClosedIsQuiet
  BY MailboxAssumption DEF Inv, QuietInv, Quiet, ClosedIsQuiet
<1> QED
  BY InvCorrect, <1>1, PTL

(***************************************************************************)
(* The threads                                                             *)
(***************************************************************************)

\* The acceptor has closed the connection it was to put in slot c.
Dropped(c) == acc[ServerOf[c]].pc = "drop" /\ acc[ServerOf[c]].slot = c

\* A slot lets go of its descriptor before the descriptor is closed, unless the
\* acceptor has it.
FdInv ==
    \A c \in Conns :
        /\ fd[c] => open[c] \/ Dropped(c)
        /\ conn[c].pc \in {"none", "close", "release"} => ~fd[c] \/ Dropped(c)

\* No step closes a descriptor that a slot still names.
LEMMA FdStep == Inv /\ FdInv /\ [Next]_vars => FdInv'
<1> SUFFICES ASSUME Inv, FdInv, [Next]_vars PROVE FdInv'
  OBVIOUS
<1>k. /\ conn \in [Conns -> ConnRecords] /\ at \in [Slots -> SlotRecords]
      /\ fd \in [Conns -> BOOLEAN] /\ open \in [Conns -> BOOLEAN]
  BY Zenon DEF Inv, TypeOK
<1>v. acc \in [Servers -> AccRecords] /\ ServerOf \in [Conns -> Servers]
  BY Zenon, MailboxAssumption DEF Inv, TypeOK
<1>e. ASSUME UNCHANGED <<conn, fd, open>>, \A c \in Conns : Dropped(c) => Dropped(c)' PROVE FdInv'
  BY Zenon, <1>e DEF FdInv
<1>f. acc' = acc => \A c \in Conns : Dropped(c) => Dropped(c)'
  BY Zenon DEF Dropped
\* A thread that moves with its descriptor.
<1>o. ASSUME NEW c \in Conns, \A d \in Conns : d # c => conn'[d] = conn[d],
             conn'[c].pc \notin {"none", "close", "release"}, UNCHANGED <<acc, fd, open>>
      PROVE  FdInv'
  BY Zenon, <1>o, <1>f DEF FdInv
<1>s. CASE Steps
  <2> USE DEF sockets
  <2>1. ASSUME NEW s \in Servers,
               Connect(s) \/ AcceptorChecks(s) \/ AcceptorMarks(s) \/ AcceptorLeaves(s)
        PROVE  FdInv'
    <3>1. acc[s].pc # "drop" /\ UNCHANGED <<conn, fd, open>> /\ \A r \in Servers : r # s => acc'[r] = acc[r]
      BY Zenon, <2>1, <1>v DEF Connect, AcceptorChecks, AcceptorMarks, AcceptorLeaves
    <3>2. \A c \in Conns : Dropped(c) => Dropped(c)'
      BY Zenon, <3>1, <1>v DEF Dropped
    <3> QED
      BY Zenon, <3>1, <3>2, <1>e
  <2>2. ASSUME NEW s \in Servers, AcceptorTakes(s) PROVE FdInv'
    <3>1. acc[s].pc # "drop" /\ \A r \in Servers : r # s => acc'[r] = acc[r]
      BY Zenon, <2>2, <1>v DEF AcceptorTakes
    <3>2. \A c \in Conns : Dropped(c) => Dropped(c)'
      BY Zenon, <3>1, <1>v DEF Dropped
    <3>3. CASE UNCHANGED <<conn, fd, open>>
      BY Zenon, <3>2, <3>3, <1>e
    <3>4. ASSUME NEW c \in Conns, conn' = [conn EXCEPT ![c] = [Gone EXCEPT !.pc = "read"]],
                 fd' = [fd EXCEPT ![c] = TRUE], open' = [open EXCEPT ![c] = TRUE]
          PROVE  FdInv'
      <4>1. conn'[c].pc = "read" /\ \A d \in Conns : d # c => conn'[d] = conn[d]
        BY Zenon, <3>4, <1>k, ConnFields
      <4> QED
        BY Zenon, <3>2, <3>4, <4>1, <1>k DEF FdInv
    <3>5. ASSUME NEW c \in Conns, slot_take(s, c), acc' = [acc EXCEPT ![s] = [pc |-> "drop", slot |-> c]],
                 fd' = [fd EXCEPT ![c] = TRUE], UNCHANGED <<conn, open>>
          PROVE  FdInv'
      <4>1. Dropped(c)'
        BY Zenon, <3>5, <1>v DEF Dropped, slot_take
      <4>2. \A d \in Conns : d # c => fd'[d] = fd[d]
        BY Zenon, <3>5, <1>k
      <4> QED
        BY Zenon, <3>2, <3>5, <4>1, <4>2 DEF FdInv
    <3> QED
      BY Zenon, <2>2, <3>3, <3>4, <3>5 DEF AcceptorTakes
  <2>13. ASSUME NEW s \in Servers, AcceptorDrops(s) PROVE FdInv'
    <3>1. /\ UNCHANGED <<conn, open>> /\ fd' = [fd EXCEPT ![acc[s].slot] = FALSE]
          /\ \A r \in Servers : r # s => acc'[r] = acc[r]
      BY Zenon, <2>13, <1>v DEF AcceptorDrops
    <3>2. \A c \in Conns : c # acc[s].slot /\ Dropped(c) => Dropped(c)'
      BY Zenon, <3>1, <1>v DEF Dropped
    <3>3. \A c \in Conns : IF c = acc[s].slot THEN fd'[c] = FALSE ELSE fd'[c] = fd[c]
      BY Zenon, <3>1, <1>k
    <3> QED
      BY Zenon, <3>1, <3>2, <3>3 DEF FdInv
  <2>3. ASSUME NEW c \in Conns, Read(c) PROVE FdInv'
    <3>1. CASE Go(c, "done")
      BY Zenon, <2>3, <3>1, <1>k, <1>o, GoFields DEF Read, ConnPCs
    <3>2. CASE UNCHANGED conn
      BY Zenon, <2>3, <3>2, <1>e, <1>f DEF Read
    <3>3. ASSUME NEW k \in AllKinds, conn' = [conn EXCEPT ![c] = asking(@, k)] PROVE FdInv'
      <4>1. conn'[c].pc = "lock" /\ \A d \in Conns : d # c => conn'[d] = conn[d]
        BY <3>3, <1>k, ConnFields
      <4> QED
        BY Zenon, <2>3, <4>1, <1>o DEF Read
    <3>4. \A k \in Kinds[c] : k \in AllKinds
      BY Zenon, KindsAssumption
    <3> QED
      BY Zenon, <2>3, <3>1, <3>2, <3>3, <3>4 DEF Read
  <2>4. ASSUME NEW c \in Conns,
               Ends(c) \/ Lock(c) \/ Nudge(c) \/ After(c) \/ Resume(c)
        PROVE  FdInv'
    <3>1. /\ UNCHANGED <<acc, fd, open>>
          /\ \E p \in {"done", "ask", "wait", "resume", "reply"} : Go(c, p)
      BY Zenon, <2>4 DEF Ends, Lock, Nudge, After, Resume
    <3> QED
      BY Zenon, <3>1, <1>k, <1>o, GoFields DEF ConnPCs
  <2>5. ASSUME NEW c \in Conns, Ask(c) PROVE FdInv'
    <3>1. /\ conn'[c].pc \in {"reply", "nudge"}
          /\ \A d \in Conns : d # c => conn'[d] = conn[d]
      BY <2>5, <1>k, ConnFields DEF Ask, Leave, ConnPCs, Results
    <3> QED
      BY Zenon, <2>5, <3>1, <1>o DEF Ask
  <2>6. ASSUME NEW c \in Conns, Awake(c) PROVE FdInv'
    <3>1. at[conn[c].slot].result \in Results
      BY Zenon, <2>6, <1>k, SlotTypes DEF Awake, Inv, SlotInv
    <3>2. /\ conn'[c].pc \in {"reply", "after"}
          /\ \A d \in Conns : d # c => conn'[d] = conn[d]
      BY <2>6, <3>1, <1>k, ConnFields DEF Awake, Leave, ConnPCs
    <3> QED
      BY Zenon, <2>6, <3>2, <1>o DEF Awake
  <2>7. ASSUME NEW c \in Conns, Reply(c) PROVE FdInv'
    <3>1. CASE Go(c, "done")
      BY Zenon, <2>7, <3>1, <1>k, <1>o, GoFields DEF Reply, ConnPCs
    <3>2. CASE conn' = [conn EXCEPT ![c] = [Gone EXCEPT !.pc = "read"]]
      BY <2>7, <3>2, <1>k, <1>o, ConnFields DEF Reply
    <3> QED
      BY Zenon, <2>7, <3>1, <3>2 DEF Reply
  <2>8. ASSUME NEW c \in Conns, Done(c) PROVE FdInv'
    <3>1. conn'[c].pc = "close" /\ \A d \in Conns : d # c => conn'[d] = conn[d]
      BY Zenon, <2>8, <1>k, GoFields DEF Done, ConnPCs
    <3> QED
      BY Zenon, <2>8, <3>1, <1>f, <1>k DEF Done, FdInv
  <2>9. ASSUME NEW c \in Conns, Close(c) PROVE FdInv'
    <3>1. /\ conn[c].pc = "close" /\ conn'[c].pc = "release"
          /\ \A d \in Conns : d # c => conn'[d] = conn[d]
      BY Zenon, <2>9, <1>k, GoFields DEF Close, ConnPCs
    <3> QED
      BY Zenon, <2>9, <3>1, <1>f, <1>k DEF Close, FdInv
  <2>10. ASSUME NEW c \in Conns, Release(c) PROVE FdInv'
    <3>1. /\ conn[c].pc = "release" /\ conn'[c].pc = "none"
          /\ \A d \in Conns : d # c => conn'[d] = conn[d]
      BY Zenon, <2>10, <1>k, ConnFields DEF Release
    <3> QED
      BY Zenon, <2>10, <3>1, <1>f DEF Release, FdInv
  <2>11. CASE WakeUp \/ Take \/ Settle \/ Deliver \/ Answer \/ RoundEnds \/ Shut
    BY Zenon, <2>11, <1>e, <1>f DEF WakeUp, Take, Settle, Deliver, Answer, RoundEnds, Shut
  <2>12. CASE StopServer \/ JoinAcceptor \/ CutConnections \/ JoinThreads \/ CloseMailbox \/ Signal
    BY Zenon, <2>12, <1>e, <1>f
       DEF StopServer, JoinAcceptor, CutConnections, JoinThreads, CloseMailbox, Signal
  <2> QED
    BY Zenon, <1>s, <2>1, <2>2, <2>3, <2>4, <2>5, <2>6, <2>7, <2>8, <2>9, <2>10, <2>11, <2>12, <2>13
       DEF Steps
<1>u. CASE UNCHANGED vars
  BY Zenon, <1>u, <1>e, <1>f DEF vars
<1> QED
  BY Zenon, <1>s, <1>u, NextSteps

\* The stop shuts down descriptors by number.  One that it finds in a slot is
\* open: connection takes it out under the lock before it closes it, and the
\* acceptor, which does not where it gets no thread, has been joined.
THEOREM DescriptorCorrect == Spec => []DescriptorIsLive
<1>1. Init => FdInv
  BY Zenon DEF Init, FdInv
<1>2. Inv /\ FdInv /\ [Next]_vars => FdInv'
  BY Zenon, FdStep
<1>3. Inv /\ FdInv => DescriptorIsLive
  BY Zenon DEF Inv, QuietInv, FdInv, Dropped, DescriptorIsLive
<1> QED
  BY <1>1, <1>2, <1>3, InvCorrect, PTL DEF Spec

Working == {"after", "resume"}

\* Every step that hands a context on, frees it or drops it counts it once.
LEMMA OwedStep == Inv /\ ContextsAreFreed /\ [Next]_vars => ContextsAreFreed'
<1> SUFFICES ASSUME Inv, ContextsAreFreed, [Next]_vars PROVE ContextsAreFreed'
  OBVIOUS
<1>k. /\ conn \in [Conns -> ConnRecords] /\ at \in [Slots -> SlotRecords]
      /\ None \notin Conns
  BY Zenon, MailboxAssumption DEF Inv, TypeOK
<1>b. \A i \in Slots, c \in Conns : at[i].by = c =>
        conn[c].pc \in {"nudge", "wait"} /\ conn[c].slot = i
  BY <1>k DEF Inv, SlotInv, WaiterIsThere, in_use
<1>e. ASSUME UNCHANGED <<conn, owed>>,
             \A i \in Slots : at'[i].by = at[i].by /\ at'[i].after = at[i].after
      PROVE  ContextsAreFreed'
  BY <1>e DEF ContextsAreFreed
\* A thread that neither starts nor ends work.
<1>o. ASSUME NEW c \in Conns, \A d \in Conns : d # c => conn'[d] = conn[d],
             conn'[c].pc \in Working <=> conn[c].pc \in Working, UNCHANGED <<at, owed>>
      PROVE  ContextsAreFreed'
  BY Zenon, <1>o DEF ContextsAreFreed, Working
<1>s. CASE Steps
  <2> USE DEF mailbox
  <2>1. ASSUME NEW s \in Servers,
               \/ Connect(s) \/ AcceptorChecks(s) \/ AcceptorDrops(s) \/ AcceptorMarks(s)
               \/ AcceptorLeaves(s)
        PROVE  ContextsAreFreed'
    BY Zenon, <2>1, <1>e DEF Connect, AcceptorChecks, AcceptorDrops, AcceptorMarks, AcceptorLeaves
  <2>2. ASSUME NEW s \in Servers, AcceptorTakes(s) PROVE ContextsAreFreed'
    <3>1. CASE UNCHANGED conn
      BY Zenon, <2>2, <3>1, <1>e DEF AcceptorTakes
    <3>2. ASSUME NEW c \in Conns, slot_take(s, c),
                 conn' = [conn EXCEPT ![c] = [Gone EXCEPT !.pc = "read"]]
          PROVE  ContextsAreFreed'
      <4>1. /\ conn[c].pc = "none" /\ conn'[c].pc = "read"
            /\ \A d \in Conns : d # c => conn'[d] = conn[d]
        BY Zenon, <3>2, <1>k, ConnFields DEF slot_take
      <4> QED
        BY Zenon, <2>2, <4>1, <1>o DEF AcceptorTakes, Working
    <3> QED
      BY <2>2, <3>1, <3>2, Zenon DEF AcceptorTakes
  <2>3. ASSUME NEW c \in Conns, Read(c) PROVE ContextsAreFreed'
    <3>1. CASE UNCHANGED conn
      BY Zenon, <2>3, <3>1, <1>e DEF Read
    <3>2. CASE Go(c, "done")
      <4>1. conn'[c].pc = "done" /\ \A d \in Conns : d # c => conn'[d] = conn[d]
        BY Zenon, <3>2, <1>k, GoFields DEF ConnPCs
      <4> QED
        BY Zenon, <2>3, <4>1, <1>o DEF Read, Working
    <3>3. ASSUME NEW k \in AllKinds, conn' = [conn EXCEPT ![c] = asking(@, k)]
          PROVE  ContextsAreFreed'
      <4>1. conn'[c].pc = "lock" /\ \A d \in Conns : d # c => conn'[d] = conn[d]
        BY <3>3, <1>k, ConnFields
      <4> QED
        BY Zenon, <2>3, <4>1, <1>o DEF Read, Working
    <3>4. \A k \in Kinds[c] : k \in AllKinds
      BY Zenon, KindsAssumption
    <3> QED
      BY Zenon, <2>3, <3>1, <3>2, <3>3, <3>4 DEF Read
  <2>4. ASSUME NEW c \in Conns,
               Ends(c) \/ Lock(c) \/ Nudge(c) \/ After(c) \/ Done(c) \/ Close(c)
        PROVE  ContextsAreFreed'
    <3>1. /\ UNCHANGED <<at, owed>>
          /\ \E p \in ConnPCs : Go(c, p) /\ (p \in Working <=> conn[c].pc \in Working)
      BY Zenon, <2>4 DEF Ends, Lock, Nudge, After, Done, Close, ConnPCs, Working
    <3> QED
      BY Zenon, <3>1, <1>k, <1>o, GoFields
  <2>5. ASSUME NEW c \in Conns, Release(c) PROVE ContextsAreFreed'
    <3>1. /\ conn[c].pc = "release" /\ conn'[c].pc = "none"
          /\ \A d \in Conns : d # c => conn'[d] = conn[d]
      BY Zenon, <2>5, <1>k, ConnFields DEF Release
    <3> QED
      BY Zenon, <2>5, <3>1, <1>o DEF Release, Working
  <2>6. ASSUME NEW c \in Conns, Reply(c) PROVE ContextsAreFreed'
    <3>1. /\ conn[c].pc = "reply" /\ conn'[c].pc \in {"done", "read"}
          /\ \A d \in Conns : d # c => conn'[d] = conn[d]
      <4>1. CASE Go(c, "done")
        BY Zenon, <2>6, <4>1, <1>k, GoFields DEF Reply, ConnPCs
      <4>2. CASE conn' = [conn EXCEPT ![c] = [Gone EXCEPT !.pc = "read"]]
        BY <2>6, <4>2, <1>k, ConnFields DEF Reply
      <4> QED
        BY Zenon, <2>6, <4>1, <4>2 DEF Reply
    <3> QED
      BY Zenon, <2>6, <3>1, <1>o DEF Reply, Working
  \* The context is freed when the work is done ...
  <2>7. ASSUME NEW c \in Conns, Resume(c) PROVE ContextsAreFreed'
    <3>1. /\ conn[c].pc = "resume" /\ conn'[c].pc = "reply" /\ UNCHANGED at
          /\ \A d \in Conns : d # c => conn'[d] = conn[d]
          /\ owed' = owed \ {c}
      BY Zenon, <2>7, <1>k, GoFields DEF Resume, ConnPCs
    <3>2. \A i \in Slots : at[i].by # c
      BY Zenon, <3>1, <1>b
    <3> QED
      BY Zenon, <3>1, <3>2 DEF ContextsAreFreed
  <2>8. ASSUME NEW c \in Conns, Ask(c) PROVE ContextsAreFreed'
    <3>0. conn[c].pc = "ask" /\ UNCHANGED owed /\ \A i \in Slots : at[i].by # c
      BY Zenon, <2>8, <1>b DEF Ask
    <3>1. CASE Leave(c, "refused") /\ UNCHANGED at
      <4>1. conn'[c].pc = "reply" /\ \A d \in Conns : d # c => conn'[d] = conn[d]
        BY <3>1, <1>k, ConnFields DEF Leave, ConnPCs, Results
      <4> QED
        BY Zenon, <3>0, <3>1, <4>1, <1>o DEF Working
    <3>2. ASSUME NEW i \in Slots, ~in_use(i), at' = [at EXCEPT ![i] = waiting(c)],
                 conn' = [conn EXCEPT ![c] = entering(@, i)]
          PROVE  ContextsAreFreed'
      <4>1. conn'[c].pc = "nudge" /\ \A d \in Conns : d # c => conn'[d] = conn[d]
        BY <3>2, <1>k, ConnFields
      <4>2. /\ at'[i].by = c /\ ~at'[i].after /\ at[i].by = None
            /\ \A j \in Slots : j # i => at'[j] = at[j]
        BY Zenon, <3>2, <1>k, SlotFields DEF in_use
      <4> QED
        BY <3>0, <4>1, <4>2, <1>k DEF ContextsAreFreed
    <3> QED
      BY Zenon, <2>8, <3>1, <3>2 DEF Ask
  \* ... or goes on to the thread that leaves the slot, or is freed by it.
  <2>9. ASSUME NEW c \in Conns, Awake(c) PROVE ContextsAreFreed'
    <3> DEFINE i == conn[c].slot
    <3>1. conn[c].pc = "wait" /\ i \in Slots /\ at[i].by = c
      BY Zenon, <2>9 DEF Awake, Inv, SlotInv
    <3>2. at'[i].by = None /\ \A j \in Slots : j # i => at'[j] = at[j] /\ at[j].by # c
      <4>1. at' = [at EXCEPT ![i] = Free] /\ Free.by = None
        BY Zenon, <2>9, SlotFields DEF Awake, leave_slot
      <4>2. \A j \in Slots : j # i => at[j].by # c
        BY Zenon, <3>1, <1>b
      <4> QED
        BY Zenon, <3>1, <4>1, <4>2, <1>k
    <3>3. at[i].result \in Results
      BY Zenon, <3>1, <1>k, SlotTypes
    <3>4. \A d \in Conns : d # c => conn'[d] = conn[d]
      BY Zenon, <2>9, <1>k DEF Awake, Leave
    <3>5. CASE at[i].after /\ conn' = [conn EXCEPT ![c] = leaving(@, "after", at[i].result)]
               /\ UNCHANGED owed
      <4>1. conn'[c].pc = "after"
        BY <3>3, <3>5, <1>k, ConnFields DEF ConnPCs
      <4> QED
        BY <3>1, <3>2, <3>4, <3>5, <4>1, <1>k DEF ContextsAreFreed
    <3>6. CASE Leave(c, at[i].result) /\ owed' = IF at[i].after THEN owed \ {c} ELSE owed
      <4>1. conn'[c].pc = "reply"
        BY <3>3, <3>6, <1>k, ConnFields DEF ConnPCs, Leave
      <4>2. c \notin owed'
        BY Zenon, <3>1, <3>2, <3>6 DEF ContextsAreFreed
      <4> QED
        BY <3>1, <3>2, <3>4, <3>6, <4>1, <4>2, <1>k DEF ContextsAreFreed
    <3> QED
      BY Zenon, <2>9, <3>5, <3>6 DEF Awake
  <2>10. CASE WakeUp \/ RoundEnds \/ StopServer \/ JoinAcceptor \/ CutConnections \/ JoinThreads
              \/ Signal
    BY Zenon, <2>10, <1>e
       DEF WakeUp, RoundEnds, StopServer, JoinAcceptor, CutConnections, JoinThreads, Signal
  <2>11. CASE Take \/ Settle
    <3>1. \A i \in Slots : at'[i] = at[i] \/ at'[i] = giving(at[i]) \/ at'[i] = taking(at[i])
      BY Zenon, <2>11, <1>k DEF Take, Settle
    <3>2. \A i \in Slots : at'[i].by = at[i].by /\ at'[i].after = at[i].after
      BY <3>1, <1>k, SlotFields
    <3> QED
      BY Zenon, <2>11, <3>2, <1>e DEF Take, Settle
  <2>12. CASE Answer \/ Shut
    <3>1. \A i \in Slots : \/ at'[i] = at[i] \/ at'[i] = refusing(at[i])
                           \/ \E x \in {"acted", "declined"} : at'[i] = answering(at[i], x)
      BY Zenon, <2>12, <1>k DEF Answer, Shut, refused_waiters
    <3>2. \A i \in Slots : at'[i].by = at[i].by /\ at'[i].after = at[i].after
      BY <3>1, <1>k, SlotFields
    <3> QED
      BY Zenon, <2>12, <3>2, <1>e DEF Answer, Shut
  <2>13. CASE Deliver
    <3>1. CASE UNCHANGED <<at, owed>>
      BY Zenon, <2>13, <3>1, <1>e DEF Deliver
    <3>2. CASE at' = [at EXCEPT ![loop.i] = deferring(@)] /\ owed' = owed \cup {at[loop.i].by}
      <4>1. loop.i \in Slots /\ UNCHANGED conn
        BY Zenon, <2>13 DEF Deliver, Inv, DeliverInv
      <4>2. /\ at'[loop.i].by = at[loop.i].by /\ at'[loop.i].after
            /\ \A j \in Slots : j # loop.i => at'[j] = at[j]
        BY <3>2, <4>1, <1>k, Defers
      <4> QED
        BY <3>2, <4>1, <4>2 DEF ContextsAreFreed
    <3> QED
      BY Zenon, <2>13, <3>1, <3>2 DEF Deliver
  <2>14. CASE CloseMailbox
    <3>1. \A c \in Conns : conn[c].pc = "none"
      BY Zenon, <2>14, StoppedIsQuiet, MailboxAssumption DEF CloseMailbox, Quiet
    <3>2. \A i \in Slots : at'[i].by = None
      BY Zenon, <2>14, SlotFields DEF CloseMailbox
    <3>3. \A i \in Slots, c \in Conns : at[i].by # c
      BY Zenon, <3>1, <1>b
    <3> QED
      BY <2>14, <3>2, <3>3, <1>k DEF CloseMailbox, ContextsAreFreed
  <2> QED
    BY Zenon, <1>s, <2>1, <2>2, <2>3, <2>4, <2>5, <2>6, <2>7, <2>8, <2>9, <2>10, <2>11, <2>12,
       <2>13, <2>14 DEF Steps
<1>u. CASE UNCHANGED vars
  BY Zenon, <1>u, <1>e DEF vars
<1> QED
  BY Zenon, <1>s, <1>u, NextSteps

\* A context of deferred work is owed exactly while the slot, or the thread that
\* took it over, still has it: it is neither leaked nor freed twice.
THEOREM ContextsCorrect == Spec => []ContextsAreFreed
<1>1. Init => ContextsAreFreed
  <2> SUFFICES ASSUME Init, NEW c \in Conns
               PROVE  /\ c \notin owed /\ conn[c].pc \notin Working
                      /\ \A i \in Slots : at[i].by # c
    BY Zenon DEF ContextsAreFreed, Working
  <2> QED
    BY Zenon, MailboxAssumption, ConnFields, SlotFields DEF Init, MailboxOpened, Working
<1>2. Inv /\ ContextsAreFreed /\ [Next]_vars => ContextsAreFreed'
  BY Zenon, OwedStep
<1> QED
  BY <1>1, <1>2, InvCorrect, PTL DEF Spec

\* What the loop knows of a request: a pass was given what is taken, unless it
\* asks to watch, and between rounds nothing is left that a pass was given.
SeenInv ==
    /\ \A i \in Slots : in_use(i) =>
         /\ at[i].kind = "stream" => ~at[i].seen
         /\ at[i].kind # "stream" => (at[i].taken <=> at[i].seen)
    /\ \A i \in Slots : in_use(i) /\ at[i].seen /\ ~at[i].answered =>
         loop.pc \in {"settle", "deliver", "answer"} /\ i >= loop.i

\* The slot says what the thread asked for, and work is started only for an
\* answer that is not a refusal.
WorkInv ==
    /\ \A i \in Slots : in_use(i) => at[i].kind = conn[at[i].by].kind
    /\ \A i \in Slots : in_use(i) /\ at[i].ready => at[i].answered /\ at[i].result # "refused"
    /\ \A c \in Conns : conn[c].pc \in {"after", "resume"} => conn[c].result # "refused"

\* The fields of the records that the phase of a request depends on.
LEMMA SlotMore ==
    /\ \A c \in Conns : /\ waiting(c).kind = conn[c].kind /\ ~waiting(c).seen
                        /\ ~waiting(c).ready
    /\ \A r \in SlotRecords :
         /\ taking(r).kind = r.kind /\ taking(r).seen = r.seen /\ taking(r).ready = r.ready
         /\ taking(r).result = r.result
         /\ giving(r).kind = r.kind /\ giving(r).seen /\ giving(r).ready = r.ready
         /\ giving(r).result = r.result
         /\ deferring(r).kind = r.kind /\ deferring(r).seen = r.seen
         /\ deferring(r).ready = r.ready /\ deferring(r).result = r.result
         /\ refusing(r).kind = r.kind /\ refusing(r).seen = r.seen
         /\ refusing(r).ready = r.ready /\ refusing(r).result = "refused"
         /\ refusing(r).answered
         /\ \A x \in {"acted", "declined"} :
              /\ answering(r, x).kind = r.kind /\ answering(r, x).seen = r.seen
              /\ answering(r, x).result = x /\ answering(r, x).answered
BY Zenon DEF SlotRecords, Free, waiting, taking, giving, deferring, refusing, answering

\* Kind and result of what the actions make of a connection.
LEMMA ConnMore ==
    \A r \in ConnRecords :
      /\ \A k \in AllKinds : asking(r, k).kind = k
      /\ \A i \in Slots : entering(r, i).kind = r.kind /\ entering(r, i).result = r.result
      /\ \A p \in ConnPCs, x \in Results : leaving(r, p, x).kind = r.kind
                                          /\ leaving(r, p, x).result = x
BY Zenon DEF ConnRecords, asking, entering, leaving

\* Go leaves the kind and the result of a connection alone.
LEMMA GoMore ==
    ASSUME conn \in [Conns -> ConnRecords], NEW c \in Conns, NEW p \in ConnPCs, Go(c, p)
    PROVE  conn'[c].kind = conn[c].kind /\ conn'[c].result = conn[c].result
BY Zenon DEF Go, ConnRecords

\* The phase, case by case.
LEMMA HowFar ==
    ASSUME NEW r \in ConnRecords, NEW slot
    PROVE  /\ r.pc \in {"lock", "ask"} =>
                how_far(r, slot) = IF r.kind = "stream" THEN "watching" ELSE "asked"
           /\ r.pc \in {"nudge", "wait"} /\ slot.answered =>
                how_far(r, slot) = IF slot.result = "refused" THEN "refused" ELSE "answered"
           /\ r.pc \in {"nudge", "wait"} /\ ~slot.answered /\ slot.seen =>
                how_far(r, slot) = "seen"
           /\ r.pc \in {"nudge", "wait"} /\ ~slot.answered /\ ~slot.seen =>
                how_far(r, slot) = IF r.kind = "stream" THEN "watching" ELSE "asked"
           /\ r.pc \in {"after", "resume"} => how_far(r, slot) = "answered"
           /\ r.pc = "reply" =>
                how_far(r, slot) = IF r.result = "refused" THEN "refused" ELSE "answered"
           /\ r.pc \in {"none", "read", "done", "close", "release"} =>
                how_far(r, slot) = "idle"
BY Zenon DEF how_far

\* A slot after slot n is one of those from n + 1 on.
LEMMA SlotOrder ==
    ASSUME NEW n \in Nat
    PROVE  \A i \in Slots : i >= n /\ i # n => i >= n + 1
BY DEF Slots

\* No step takes, answers or refuses a request in a way that contradicts what a pass saw.
LEMMA SeenStep == Inv /\ SeenInv /\ [Next]_vars => SeenInv'
<1> SUFFICES ASSUME Inv, SeenInv, [Next]_vars PROVE SeenInv'
  OBVIOUS
<1>a. at \in [Slots -> SlotRecords] /\ loop \in LoopRecords /\ loop.i \in Nat
  BY Zenon, LoopTypes DEF Inv, TypeOK
\* Threads fill and empty slots, and change nothing else.
<1>e. ASSUME UNCHANGED <<at, loop>> PROVE SeenInv'
  BY Zenon, <1>e DEF SeenInv, in_use
<1>o. ASSUME NEW j \in Slots, UNCHANGED loop, \A i \in Slots : i # j => at'[i] = at[i],
             at'[j].by # None => ~at'[j].taken /\ ~at'[j].seen
      PROVE  SeenInv'
  BY Zenon, <1>o DEF SeenInv, in_use
\* Between rounds nothing that a pass was given is left.
<1>n. ASSUME UNCHANGED at, loop.pc \notin {"settle", "deliver", "answer"} PROVE SeenInv'
  BY Zenon, <1>n DEF SeenInv, in_use
<1>s. CASE Steps
  <2> USE DEF mailbox
  <2>1. ASSUME NEW s \in Servers,
               Connect(s) \/ AcceptorChecks(s) \/ AcceptorTakes(s) \/ AcceptorDrops(s)
                 \/ AcceptorMarks(s) \/ AcceptorLeaves(s)
        PROVE  SeenInv'
    BY Zenon, <2>1, <1>e DEF Connect, AcceptorChecks, AcceptorTakes, AcceptorDrops, AcceptorMarks, AcceptorLeaves
  <2>2. ASSUME NEW c \in Conns,
               Read(c) \/ Ends(c) \/ Lock(c) \/ Nudge(c) \/ After(c) \/ Resume(c) \/ Reply(c)
                 \/ Done(c) \/ Close(c) \/ Release(c)
        PROVE  SeenInv'
    BY Zenon, <2>2, <1>e DEF Read, Ends, Lock, Nudge, After, Resume, Reply, Done, Close, Release
  <2>3. ASSUME NEW c \in Conns, Ask(c) PROVE SeenInv'
    <3>1. CASE UNCHANGED at
      BY Zenon, <2>3, <3>1, <1>e DEF Ask
    <3>2. ASSUME NEW j \in Slots, at' = [at EXCEPT ![j] = waiting(c)] PROVE SeenInv'
      <4>1. at'[j] = waiting(c) /\ \A i \in Slots : i # j => at'[i] = at[i]
        BY Zenon, <3>2, <1>a
      <4>2. ~at'[j].taken /\ ~at'[j].seen
        BY Zenon, <4>1 DEF waiting, Free
      <4> QED
        BY Zenon, <2>3, <4>1, <4>2, <1>o DEF Ask
    <3> QED
      BY Zenon, <2>3, <3>1, <3>2 DEF Ask
  <2>4. ASSUME NEW c \in Conns, Awake(c) PROVE SeenInv'
    <3>1. conn[c].slot \in Slots /\ UNCHANGED loop
      BY Zenon, <2>4 DEF Awake, Inv, SlotInv
    <3>2. at'[conn[c].slot] = Free /\ \A i \in Slots : i # conn[c].slot => at'[i] = at[i]
      BY Zenon, <2>4, <3>1, <1>a DEF Awake, leave_slot
    <3> QED
      BY Zenon, <3>1, <3>2, <1>o, SlotFields
  <2>5. CASE WakeUp
    BY Zenon, <2>5, <1>n DEF WakeUp
  <2>6. CASE Take
    <3>1. loop'.pc = "settle" /\ loop'.i = 1 /\ \A i \in Slots : i >= 1
      <4>1. LoopAt("settle", 1) /\ "settle" \in LoopPCs /\ 1 \in Nat
        BY Zenon, <2>6 DEF Take, LoopPCs
      <4>2. loop'.pc = "settle" /\ loop'.i = 1
        BY Zenon, <4>1, <1>a, LoopAtFields
      <4>3. \A i \in Slots : i >= 1
        BY DEF Slots
      <4> QED
        BY Zenon, <4>2, <4>3
    <3>2. ASSUME NEW i \in Slots, at'[i].by # None
          PROVE  /\ at'[i].kind = "stream" => ~at'[i].seen
                 /\ at'[i].kind # "stream" => (at'[i].taken <=> at'[i].seen)
      <4>1. CASE at'[i] = at[i]
        BY Zenon, <3>2, <4>1 DEF SeenInv, in_use
      <4>2. CASE at'[i] = giving(at[i]) /\ at[i].kind # "stream"
        BY Zenon, <1>a, <4>2, Gives
      <4> QED
        BY Zenon, <2>6, <4>1, <4>2 DEF Take
    <3> QED
      BY Zenon, <3>1, <3>2 DEF SeenInv, in_use
  <2>7. CASE Settle
    <3>1. CASE LoopAt("settle", loop.i + 1)
      <4>1. loop'.pc = "settle" /\ loop'.i = loop.i + 1
        BY <3>1, <1>a, LoopAtFields DEF LoopPCs
      <4>2. loop.pc = "settle" /\ loop.i \in Slots
        BY Zenon, <2>7 DEF Settle
      <4>3. ~settles(loop.i) /\ UNCHANGED at
        BY Zenon, <2>7, <4>1, <1>a, LoopAtFields DEF Settle, LoopPCs
      <4>4. ~(in_use(loop.i) /\ at[loop.i].seen /\ ~at[loop.i].answered)
        BY Zenon, <4>2, <4>3 DEF settles, SeenInv
      <4>5. \A i \in Slots : i >= loop.i /\ i # loop.i => i >= loop.i + 1
        BY Zenon, <1>a, SlotOrder
      <4> QED
        BY Zenon, <4>1, <4>3, <4>4, <4>5 DEF SeenInv, in_use
    <3>2. CASE /\ settles(loop.i) /\ LoopAt("deliver", loop.i)
               /\ at' = [at EXCEPT ![loop.i] = taking(@)]
      <4>1. loop.pc = "settle" /\ loop'.pc = "deliver" /\ loop'.i = loop.i /\ loop.i \in Slots
        BY Zenon, <2>7, <3>2, <1>a, LoopAtFields DEF Settle, LoopPCs
      <4>2. /\ at'[loop.i] = taking(at[loop.i])
            /\ \A i \in Slots : i # loop.i => at'[i] = at[i]
        BY Zenon, <3>2, <4>1, <1>a
      <4>3. /\ at'[loop.i].kind = at[loop.i].kind /\ at'[loop.i].seen = at[loop.i].seen
            /\ at'[loop.i].by = at[loop.i].by /\ at'[loop.i].taken
            /\ at'[loop.i].answered = at[loop.i].answered
        BY <4>1, <4>2, <1>a, Takes
      <4>4. at[loop.i].kind = "stream" \/ at[loop.i].taken
        BY Zenon, <3>2 DEF settles
      <4> QED
        BY <4>1, <4>2, <4>3, <4>4 DEF SeenInv, in_use
    <3> QED
      BY Zenon, <2>7, <3>1, <3>2 DEF Settle
  <2>8. CASE Deliver
    <3>1. loop.pc = "deliver" /\ loop'.pc = "answer" /\ loop'.i = loop.i
      BY Zenon, <2>8, <1>a, LoopAtFields DEF Deliver, LoopPCs
    <3>2. \A i \in Slots : at'[i] = at[i] \/ at'[i] = deferring(at[i])
      BY Zenon, <2>8, <1>a DEF Deliver
    <3>3. \A i \in Slots : /\ at'[i].kind = at[i].kind /\ at'[i].seen = at[i].seen
                           /\ at'[i].by = at[i].by /\ at'[i].taken = at[i].taken
                           /\ at'[i].answered = at[i].answered
      BY SMTT(30), <3>2, <1>a, Defers
    <3> QED
      BY <3>1, <3>3 DEF SeenInv, in_use
  <2>9. CASE Answer
    <3>1. /\ loop.pc = "answer" /\ loop'.pc = "settle" /\ loop'.i = loop.i + 1
          /\ loop.i \in Slots
      BY <2>9, <1>a, LoopAtFields DEF Answer, LoopPCs, Inv, DeliverInv
    <3>2. /\ \E x \in {"acted", "declined"} : at'[loop.i] = answering(at[loop.i], x)
          /\ \A i \in Slots : i # loop.i => at'[i] = at[i]
      BY Zenon, <2>9, <3>1, <1>a DEF Answer
    <3>3. /\ at'[loop.i].kind = at[loop.i].kind /\ at'[loop.i].seen = at[loop.i].seen
          /\ at'[loop.i].by = at[loop.i].by /\ at'[loop.i].taken = at[loop.i].taken
          /\ at'[loop.i].answered
      BY <3>1, <3>2, <1>a, Answered
    <3>4. \A i \in Slots : i >= loop.i /\ i # loop.i => i >= loop.i + 1
      BY Zenon, <1>a, SlotOrder
    <3> QED
      BY ZenonT(30), <3>1, <3>2, <3>3, <3>4 DEF SeenInv, in_use
  <2>10. CASE RoundEnds
    <3>1. loop.pc = "settle" /\ UNCHANGED at /\ \A i \in Slots : ~(i >= loop.i)
      BY <2>10, <1>a, MailboxAssumption DEF RoundEnds, Slots
    <3> QED
      BY Zenon, <3>1 DEF SeenInv, in_use
  <2>11. CASE Shut
    <3>1. loop.pc = "shut"
      BY Zenon, <2>11 DEF Shut
    <3>2. \A i \in Slots : \/ at'[i] = at[i] /\ (in_use(i) => at[i].answered)
                           \/ at'[i] = refusing(at[i])
      BY Zenon, <2>11 DEF Shut, refused_waiters
    <3>3. ASSUME NEW i \in Slots, at'[i].by # None
          PROVE  /\ at'[i].kind = "stream" => ~at'[i].seen
                 /\ at'[i].kind # "stream" => (at'[i].taken <=> at'[i].seen)
                 /\ at'[i].answered
      <4>1. CASE at'[i] = at[i] /\ (in_use(i) => at[i].answered)
        BY Zenon, <3>3, <4>1 DEF SeenInv, in_use
      <4>2. CASE at'[i] = refusing(at[i])
        <5>1. /\ at'[i].kind = at[i].kind /\ at'[i].seen = at[i].seen
              /\ at'[i].by = at[i].by /\ at'[i].taken = at[i].taken /\ at'[i].answered
          BY <4>2, <1>a, Refuses
        <5> QED
          BY Zenon, <3>3, <5>1 DEF SeenInv, in_use
      <4> QED
        BY Zenon, <3>2, <4>1, <4>2
    <3> QED
      BY Zenon, <3>3 DEF SeenInv, in_use
  <2>12. CASE StopServer \/ JoinAcceptor \/ CutConnections \/ JoinThreads
    BY Zenon, <2>12, <1>n DEF StopServer, JoinAcceptor, CutConnections, JoinThreads
  <2>13. CASE CloseMailbox
    BY Zenon, <2>13, SlotFields DEF CloseMailbox, SeenInv, in_use
  <2>14. CASE Signal
    BY Zenon, <2>14, <1>e DEF Signal
  <2> QED
    BY Zenon, <1>s, <2>1, <2>2, <2>3, <2>4, <2>5, <2>6, <2>7, <2>8, <2>9, <2>10, <2>11,
       <2>12, <2>13, <2>14 DEF Steps
<1>u. CASE UNCHANGED vars
  BY Zenon, <1>u, <1>e DEF vars
<1> QED
  BY Zenon, <1>s, <1>u, NextSteps

\* No step gives a thread deferred work together with a refusal.
LEMMA WorkStep == Inv /\ WorkInv /\ [Next]_vars => WorkInv'
<1> SUFFICES ASSUME Inv, WorkInv, [Next]_vars PROVE WorkInv'
  OBVIOUS
<1>a. /\ at \in [Slots -> SlotRecords] /\ loop \in LoopRecords /\ loop.i \in Nat
      /\ conn \in [Conns -> ConnRecords]
  BY Zenon, LoopTypes DEF Inv, TypeOK
<1>b. \A i \in Slots : at[i].by # None =>
        at[i].by \in Conns /\ conn[at[i].by].pc \in {"nudge", "wait"} /\ conn[at[i].by].slot = i
  BY Zenon, <1>a, SlotTypes DEF Inv, SlotInv, WaiterIsThere, in_use
<1>e. ASSUME UNCHANGED <<at, conn>> PROVE WorkInv'
  BY Zenon, <1>e DEF WorkInv, in_use
\* A thread that is in no slot, or keeps its kind.
<1>o. ASSUME NEW c \in Conns, UNCHANGED at, \A d \in Conns : d # c => conn'[d] = conn[d],
             conn[c].pc \in {"nudge", "wait"} => conn'[c].kind = conn[c].kind,
             conn'[c].pc \in {"after", "resume"} => conn'[c].result # "refused"
      PROVE  WorkInv'
  BY <1>b, <1>o DEF WorkInv, in_use
\* The loop.
<1>l. ASSUME UNCHANGED conn,
             \A i \in Slots : at'[i].by # None =>
               /\ at'[i].by = at[i].by /\ at'[i].kind = at[i].kind
               /\ at'[i].ready => at'[i].answered /\ at'[i].result # "refused"
      PROVE  WorkInv'
  BY Zenon, <1>l DEF WorkInv, in_use
<1>s. CASE Steps
  <2> USE DEF mailbox
  <2>1. ASSUME NEW s \in Servers,
               \/ Connect(s) \/ AcceptorChecks(s) \/ AcceptorDrops(s) \/ AcceptorMarks(s)
               \/ AcceptorLeaves(s)
        PROVE  WorkInv'
    BY Zenon, <2>1, <1>e DEF Connect, AcceptorChecks, AcceptorDrops, AcceptorMarks, AcceptorLeaves
  <2>2. ASSUME NEW s \in Servers, AcceptorTakes(s) PROVE WorkInv'
    <3>1. CASE UNCHANGED conn
      BY Zenon, <2>2, <3>1, <1>e DEF AcceptorTakes
    <3>2. ASSUME NEW c \in Conns, slot_take(s, c),
                 conn' = [conn EXCEPT ![c] = [Gone EXCEPT !.pc = "read"]]
          PROVE  WorkInv'
      <4>1. conn[c].pc = "none" /\ conn'[c].pc = "read"
        BY Zenon, <3>2, <1>a, ConnFields DEF slot_take
      <4> QED
        BY Zenon, <2>2, <3>2, <4>1, <1>a, <1>o DEF AcceptorTakes
    <3> QED
      BY <2>2, <3>1, <3>2, Zenon DEF AcceptorTakes
  <2>3. ASSUME NEW c \in Conns, Read(c) PROVE WorkInv'
    <3>1. CASE Go(c, "done")
      BY Zenon, <2>3, <3>1, <1>a, <1>o, GoFields DEF Read, ConnPCs
    <3>2. CASE UNCHANGED conn
      BY Zenon, <2>3, <3>2, <1>e DEF Read
    <3>3. ASSUME NEW k \in Kinds[c], conn' = [conn EXCEPT ![c] = asking(@, k)] PROVE WorkInv'
      <4>1. conn'[c].pc = "lock" /\ \A d \in Conns : d # c => conn'[d] = conn[d]
        BY <3>3, <1>a, ConnFields, KindsAssumption
      <4> QED
        BY Zenon, <2>3, <4>1, <1>o DEF Read
    <3> QED
      BY Zenon, <2>3, <3>1, <3>2, <3>3 DEF Read
  <2>4. ASSUME NEW c \in Conns, Ends(c) \/ Lock(c) \/ Nudge(c) \/ Resume(c) \/ Done(c) \/ Close(c)
        PROVE  WorkInv'
    <3>1. UNCHANGED at /\ \E p \in ConnPCs : Go(c, p) /\ p \notin {"after", "resume"}
      BY Zenon, <2>4 DEF Ends, Lock, Nudge, Resume, Done, Close, ConnPCs
    <3> QED
      BY Zenon, <3>1, <1>a, <1>o, GoFields, GoMore
  <2>5. ASSUME NEW c \in Conns, After(c) PROVE WorkInv'
    <3>1. UNCHANGED at /\ Go(c, "resume") /\ "resume" \in ConnPCs /\ conn[c].pc = "after"
      BY Zenon, <2>5 DEF After, ConnPCs
    <3>2. conn'[c].result # "refused"
      BY Zenon, <3>1, <1>a, GoMore DEF WorkInv
    <3> QED
      BY Zenon, <3>1, <3>2, <1>a, <1>o, GoFields
  <2>6. ASSUME NEW c \in Conns, Reply(c) PROVE WorkInv'
    <3>1. CASE Go(c, "done")
      BY Zenon, <2>6, <3>1, <1>a, <1>o, GoFields DEF Reply, ConnPCs
    <3>2. CASE conn' = [conn EXCEPT ![c] = [Gone EXCEPT !.pc = "read"]]
      BY <2>6, <3>2, <1>a, <1>o, ConnFields DEF Reply
    <3> QED
      BY Zenon, <2>6, <3>1, <3>2 DEF Reply
  <2>7. ASSUME NEW c \in Conns, Release(c) PROVE WorkInv'
    BY <2>7, <1>a, <1>o, ConnFields DEF Release
  <2>8. ASSUME NEW c \in Conns, Ask(c) PROVE WorkInv'
    <3>1. CASE Leave(c, "refused") /\ UNCHANGED at
      <4>1. conn'[c].pc = "reply" /\ \A d \in Conns : d # c => conn'[d] = conn[d]
        BY <3>1, <1>a, ConnFields DEF Leave, ConnPCs, Results
      <4> QED
        BY Zenon, <2>8, <3>1, <4>1, <1>o DEF Ask
    <3>2. ASSUME NEW i \in Slots, at' = [at EXCEPT ![i] = waiting(c)],
                 conn' = [conn EXCEPT ![c] = entering(@, i)]
          PROVE  WorkInv'
      <4>1. /\ conn[c].pc = "ask" /\ conn'[c].pc = "nudge" /\ conn'[c].kind = conn[c].kind
            /\ \A d \in Conns : d # c => conn'[d] = conn[d]
        BY <2>8, <3>2, <1>a, ConnFields, ConnMore DEF Ask
      <4>2. /\ at'[i].by = c /\ at'[i].kind = conn[c].kind /\ ~at'[i].ready
            /\ \A j \in Slots : j # i => at'[j] = at[j]
        <5>1. at'[i] = waiting(c) /\ \A j \in Slots : j # i => at'[j] = at[j]
          BY Zenon, <3>2, <1>a
        <5>2. waiting(c).by = c /\ waiting(c).kind = conn[c].kind /\ ~waiting(c).ready
          BY Zenon DEF waiting, Free
        <5> QED
          BY Zenon, <5>1, <5>2
      <4>3. \A j \in Slots : at'[j].by # None => at'[j].kind = conn'[at'[j].by].kind
        BY <4>1, <4>2, <1>b DEF WorkInv, in_use
      <4>4. \A j \in Slots : at'[j].by # None /\ at'[j].ready =>
              at'[j].answered /\ at'[j].result # "refused"
        BY Zenon, <4>2 DEF WorkInv, in_use
      <4>5. \A d \in Conns : conn'[d].pc \in {"after", "resume"} => conn'[d].result # "refused"
        BY Zenon, <4>1 DEF WorkInv
      <4> QED
        BY Zenon, <4>3, <4>4, <4>5 DEF WorkInv, in_use
    <3> QED
      BY Zenon, <2>8, <3>1, <3>2 DEF Ask
  <2>9. ASSUME NEW c \in Conns, Awake(c) PROVE WorkInv'
    <3> DEFINE i == conn[c].slot
    <3>1. conn[c].pc = "wait" /\ i \in Slots /\ at[i].by = c /\ c # None
      BY Zenon, <2>9, MailboxAssumption DEF Awake, Inv, SlotInv
    <3>2. at'[i].by = None /\ \A j \in Slots : j # i => at'[j] = at[j]
      <4>1. at' = [at EXCEPT ![i] = Free] /\ Free.by = None
        BY Zenon, <2>9, SlotFields DEF Awake, leave_slot
      <4> QED
        BY Zenon, <3>1, <4>1, <1>a
    <3>3. /\ conn'[c].pc \in {"after", "reply"} /\ \A d \in Conns : d # c => conn'[d] = conn[d]
          /\ conn'[c].pc = "after" => conn'[c].result = at[i].result /\ at[i].ready
      <4>1. at[i].result \in Results
        BY Zenon, <3>1, <1>a, SlotTypes
      <4>2. CASE Leave(c, at[i].result)
        BY <4>1, <4>2, <1>a, ConnFields DEF Leave, ConnPCs
      <4>3. CASE at[i].ready /\ conn' = [conn EXCEPT ![c] = leaving(@, "after", at[i].result)]
        BY <4>1, <4>3, <1>a, ConnFields, ConnMore DEF ConnPCs
      <4> QED
        BY Zenon, <2>9, <4>2, <4>3 DEF Awake
    <3>4. conn'[c].pc = "after" => conn'[c].result # "refused"
      BY Zenon, <3>1, <3>3 DEF WorkInv, in_use
    <3>5. \A j \in Slots : at'[j].by # None => at'[j] = at[j] /\ at[j].by \in Conns /\ at[j].by # c
      BY Zenon, <3>1, <3>2, <1>b
    <3> HIDE DEF i
    <3>6. \A j \in Slots : at'[j].by # None => at'[j].kind = conn'[at'[j].by].kind
      BY <3>3, <3>5 DEF WorkInv, in_use
    <3>7. \A d \in Conns : conn'[d].pc \in {"after", "resume"} => conn'[d].result # "refused"
      BY Zenon, <3>3, <3>4 DEF WorkInv
    <3> QED
      BY Zenon, <3>5, <3>6, <3>7 DEF WorkInv, in_use
  <2>10. CASE WakeUp \/ RoundEnds \/ StopServer \/ JoinAcceptor \/ CutConnections \/ JoinThreads
              \/ Signal
    BY Zenon, <2>10, <1>e
       DEF WakeUp, RoundEnds, StopServer, JoinAcceptor, CutConnections, JoinThreads, Signal
  <2>11. CASE Take
    <3>1. \A i \in Slots : at'[i] = at[i] \/ at'[i] = giving(at[i])
      BY Zenon, <2>11 DEF Take
    <3>2. \A i \in Slots : /\ at'[i].by = at[i].by /\ at'[i].kind = at[i].kind
                           /\ at'[i].ready = at[i].ready /\ at'[i].answered = at[i].answered
                           /\ at'[i].result = at[i].result
      BY <3>1, <1>a, Gives
    <3> QED
      BY Zenon, <2>11, <3>2, <1>l DEF Take, WorkInv, in_use
  <2>12. CASE Settle \/ Deliver
    <3>1. \A i \in Slots : at'[i] = at[i] \/ at'[i] = taking(at[i]) \/ at'[i] = deferring(at[i])
      BY Zenon, <2>12, <1>a DEF Settle, Deliver
    <3>2. \A i \in Slots : /\ at'[i].by = at[i].by /\ at'[i].kind = at[i].kind
                           /\ at'[i].ready = at[i].ready /\ at'[i].answered = at[i].answered
                           /\ at'[i].result = at[i].result
      BY <3>1, <1>a, Takes, Defers
    <3>3. UNCHANGED conn
      BY Zenon, <2>12 DEF Settle, Deliver
    <3> QED
      BY Zenon, <3>2, <3>3, <1>l DEF WorkInv, in_use
  <2>13. CASE Answer
    <3>1. \A i \in Slots : \/ at'[i] = at[i]
                           \/ \E x \in {"acted", "declined"} : at'[i] = answering(at[i], x)
      BY Zenon, <2>13, <1>a DEF Answer
    <3>2. ASSUME NEW i \in Slots, at'[i].by # None
          PROVE  /\ at'[i].by = at[i].by /\ at'[i].kind = at[i].kind
                 /\ at'[i].ready => at'[i].answered /\ at'[i].result # "refused"
      <4>1. CASE at'[i] = at[i]
        BY Zenon, <3>2, <4>1 DEF WorkInv, in_use
      <4>2. ASSUME NEW x \in {"acted", "declined"}, at'[i] = answering(at[i], x)
            PROVE  /\ at'[i].by = at[i].by /\ at'[i].kind = at[i].kind
                   /\ at'[i].answered /\ at'[i].result # "refused"
        BY <4>2, <1>a, Answered
      <4> QED
        BY Zenon, <3>1, <4>1, <4>2
    <3> QED
      BY Zenon, <2>13, <3>2, <1>l DEF Answer
  <2>14. CASE Shut
    <3>1. \A i \in Slots : \/ at'[i] = at[i]
                           \/ in_use(i) /\ ~at[i].answered /\ at'[i] = refusing(at[i])
      BY Zenon, <2>14 DEF Shut, refused_waiters, in_use
    <3>2. ASSUME NEW i \in Slots, at'[i].by # None
          PROVE  /\ at'[i].by = at[i].by /\ at'[i].kind = at[i].kind
                 /\ at'[i].ready => at'[i].answered /\ at'[i].result # "refused"
      <4>1. CASE at'[i] = at[i]
        BY Zenon, <3>2, <4>1 DEF WorkInv, in_use
      <4>2. CASE in_use(i) /\ ~at[i].answered /\ at'[i] = refusing(at[i])
        <5>1. at'[i].by = at[i].by /\ at'[i].kind = at[i].kind /\ at'[i].ready = at[i].ready
          BY ZenonT(30), <4>2, <1>a, Refuses
        <5>2. ~at[i].ready
          BY Zenon, <4>2 DEF WorkInv
        <5> QED
          BY Zenon, <5>1, <5>2
      <4> QED
        BY Zenon, <3>1, <4>1, <4>2
    <3> QED
      BY Zenon, <2>14, <3>2, <1>l DEF Shut
  <2>15. CASE CloseMailbox
    BY Zenon, <2>15, SlotFields DEF CloseMailbox, WorkInv, in_use
  <2> QED
    BY Zenon, <1>s, <2>1, <2>2, <2>3, <2>4, <2>5, <2>6, <2>7, <2>8, <2>9, <2>10, <2>11,
       <2>12, <2>13, <2>14, <2>15 DEF Steps
<1>u. CASE UNCHANGED vars
  BY Zenon, <1>u, <1>e DEF vars
<1> QED
  BY Zenon, <1>s, <1>u, NextSteps

PInv == Inv /\ SeenInv /\ WorkInv

\* Both hold when the servers have been started.
LEMMA PInvInit == Init => SeenInv /\ WorkInv
<1> SUFFICES ASSUME Init PROVE SeenInv /\ WorkInv
  OBVIOUS
<1>1. \A i \in Slots : ~in_use(i)
  BY Zenon DEF Init, MailboxOpened, in_use, Free
<1>2. \A c \in Conns : conn[c].pc = "none"
  BY Zenon DEF Init, Gone
<1> QED
  BY Zenon, <1>1, <1>2 DEF SeenInv, WorkInv

\* What the simulation rests on holds throughout.
THEOREM PInvCorrect == Spec => []PInv
<1>1. Init => SeenInv /\ WorkInv
  BY Zenon, PInvInit
<1>2. Inv /\ SeenInv /\ [Next]_vars => SeenInv'
  BY Zenon, SeenStep
<1>3. Inv /\ WorkInv /\ [Next]_vars => WorkInv'
  BY Zenon, WorkStep
<1> QED
  BY <1>1, <1>2, <1>3, InvCorrect, PTL DEF Spec, PInv
====
