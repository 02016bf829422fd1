------------------------------- MODULE Mailbox -------------------------------
(***************************************************************************)
(* How a request gets from a connection to the loop and back, and how all  *)
(* of it is stopped: the control sockets of c/src/daemon/server.c (an      *)
(* acceptor and a thread per connection each) and the mailbox and rounds   *)
(* of c/src/main/daemon_loop.c, in the order of daemon_main.c.             *)
(*                                                                         *)
(* Threads: the loop, one acceptor per server, one thread per connection.  *)
(* A section under the mailbox's mutex is one action.  A server's lock is  *)
(* a variable, because a connection keeps it while it waits for the loop.  *)
(***************************************************************************)
EXTENDS Naturals, Sequences, FiniteSets

CONSTANTS
    Conns,      \* connection slots of all servers (ncfg_daemon_slot_t)
    Servers,    \* the control sockets: local, and remote where there is one
    ServerOf,   \* ServerOf[c]: the server a connection slot belongs to
    StopOrder,  \* the servers, in the order daemon_main stops them
    Pending,    \* NCFG_MAIN_PENDING_MAX
    Kinds,      \* Kinds[c]: which of the kinds below the client of c sends
    MaxQueued,  \* bound: requests sent on a connection and not yet read
    AcceptErrors, \* whether accept may fail with the listener still open
    None

\* "plain" is answered by the loop, "slow" is a scan whose wait the loop hands
\* back, "stream" is monitor.
AllKinds == {"plain", "slow", "stream"}

Slots == 1 .. Pending

ASSUME MailboxAssumption ==
    /\ ServerOf \in [Conns -> Servers]
    /\ StopOrder \in Seq(Servers)
    /\ Servers = {StopOrder[i] : i \in DOMAIN StopOrder}
    /\ Pending \in Nat
    /\ MaxQueued \in Nat
    /\ AcceptErrors \in BOOLEAN
    /\ None \notin Conns

ASSUME KindsAssumption == Kinds \in [Conns -> SUBSET AllKinds]

VARIABLES
    at,        \* ncfg_main_mailbox_t.at
    shut,      \* ncfg_main_mailbox_t.shut
    nudged,    \* a byte is in the pipe that announces requests
    loop,      \* where the loop's thread is
    signalled, \* a signal has asked the daemon to stop
    lock,      \* lock[s]: the connection that keeps server s locked
    stopping,  \* stopping[s]
    acc,       \* acc[s]: where the acceptor of server s is
    conn,      \* conn[c]: where the thread of connection c is
    fd,        \* fd[c]: slot->fd is not -1
    open,      \* the descriptor accept returned is open
    hasThread, \* slot->has_thread
    cut,       \* the stop has shut the connection down
    inbox,     \* requests received before that and not yet read
    owed       \* contexts of deferred work that have not been freed

mailbox == <<at, shut>>
sockets == <<fd, open, hasThread>>
clients == <<cut, inbox>>

vars == <<at, shut, nudged, loop, signalled, lock, stopping, acc, conn, fd,
          open, hasThread, cut, inbox, owed>>

\* An empty ncfg_main_waiting_t.  seen is history: a pass was given the request.
Free == [by |-> None, kind |-> "plain", taken |-> FALSE, answered |-> FALSE,
         result |-> "none", after |-> FALSE, ready |-> FALSE, seen |-> FALSE]

Gone == [pc |-> "none", kind |-> "plain", slot |-> 0, result |-> "none"]

\* A slot of the mailbox is in use.
in_use(i) == at[i].by # None

Unlocked(s) == lock[s] = None

Go(c, pc) == conn' = [conn EXCEPT ![c].pc = pc]

\* What becomes of the record of a slot: the round takes it, the pass is given
\* it, its answer hands work back, it is answered, it is refused.
taking(r)       == [r EXCEPT !.taken = TRUE]
giving(r)       == [r EXCEPT !.taken = TRUE, !.seen = TRUE]
deferring(r)    == [r EXCEPT !.after = TRUE]
answering(r, x) == [r EXCEPT !.result = x, !.ready = r.after, !.answered = TRUE]
refusing(r)     == [r EXCEPT !.result = "refused", !.answered = TRUE]

\* And of a connection: it has read a request, waits in a slot, is out of it.
asking(r, k)      == [r EXCEPT !.pc = "lock", !.kind = k]
entering(r, i)    == [r EXCEPT !.pc = "nudge", !.slot = i]
leaving(r, pc, x) == [r EXCEPT !.pc = pc, !.slot = 0, !.result = x]

\* The answer seam returns: the server's lock goes and the client is told.
Leave(c, result) ==
    /\ conn' = [conn EXCEPT ![c] = leaving(@, "reply", result)]
    /\ lock' = [lock EXCEPT ![ServerOf[c]] = None]

(***************************************************************************)
(* Clients                                                                 *)
(***************************************************************************)

\* A client connects and the acceptor's accept returns.
Connect(s) ==
    /\ acc[s].pc = "accept"
    /\ acc' = [acc EXCEPT ![s].pc = "check"]
    /\ UNCHANGED <<mailbox, nudged, loop, signalled, lock, stopping, conn, sockets,
                   clients, owed>>

Signal ==
    /\ ~signalled
    /\ signalled' = TRUE
    /\ UNCHANGED <<mailbox, nudged, loop, lock, stopping, acc, conn, sockets,
                   clients, owed>>

(***************************************************************************)
(* The acceptor of a server                                                *)
(***************************************************************************)

\* Having accepted, it looks at stopping, under the lock.
AcceptorChecks(s) ==
    /\ acc[s].pc = "check"
    /\ Unlocked(s)
    /\ acc' = [acc EXCEPT ![s].pc = IF stopping[s] THEN "gone" ELSE "take"]
    /\ UNCHANGED <<mailbox, nudged, loop, signalled, lock, stopping, conn, sockets,
                   clients, owed>>

\* A free slot is taken, and the thread it had is joined.
slot_take(s, c) ==
    /\ ServerOf[c] = s
    /\ conn[c].pc = "none"
    /\ hasThread' = [hasThread EXCEPT ![c] = FALSE]

\* slot_take and pthread_create.  With no free slot the connection is refused;
\* with no thread it is closed, and the slot still names it.
AcceptorTakes(s) ==
    /\ acc[s].pc = "take"
    /\ Unlocked(s)
    /\ \/ /\ \A c \in Conns : ServerOf[c] = s => conn[c].pc # "none"
          /\ acc' = [acc EXCEPT ![s].pc = "accept"]
          /\ UNCHANGED <<conn, sockets, clients>>
       \/ \E c \in Conns :
            /\ slot_take(s, c)
            /\ fd' = [fd EXCEPT ![c] = TRUE]
            /\ \/ /\ acc' = [acc EXCEPT ![s] = [pc |-> "drop", slot |-> c]]
                  /\ UNCHANGED <<conn, open>>
               \/ /\ acc' = [acc EXCEPT ![s] = [pc |-> "mark", slot |-> c]]
                  /\ conn' = [conn EXCEPT ![c] = [Gone EXCEPT !.pc = "read"]]
                  /\ open' = [open EXCEPT ![c] = TRUE]
            /\ UNCHANGED clients
    /\ UNCHANGED <<mailbox, nudged, loop, signalled, lock, stopping, owed>>

\* The slot of a connection that got no thread is emptied and released.
AcceptorDrops(s) ==
    /\ acc[s].pc = "drop"
    /\ Unlocked(s)
    /\ fd' = [fd EXCEPT ![acc[s].slot] = FALSE]
    /\ acc' = [acc EXCEPT ![s] = [pc |-> "accept", slot |-> None]]
    /\ UNCHANGED <<mailbox, nudged, loop, signalled, lock, stopping, conn, open,
                   hasThread, clients, owed>>

\* The thread is running before has_thread says that there is one.
AcceptorMarks(s) ==
    /\ acc[s].pc = "mark"
    /\ Unlocked(s)
    /\ hasThread' = [hasThread EXCEPT ![acc[s].slot] = TRUE]
    /\ acc' = [acc EXCEPT ![s] = [pc |-> "accept", slot |-> None]]
    /\ UNCHANGED <<mailbox, nudged, loop, signalled, lock, stopping, conn, fd, open,
                   clients, owed>>

\* Where accept fails the acceptor ends, whatever the reason: the listener has
\* been shut down, or there is an error such as a full descriptor table.
AcceptorLeaves(s) ==
    /\ acc[s].pc = "accept"
    /\ acc' = [acc EXCEPT ![s].pc = "gone"]
    /\ UNCHANGED <<mailbox, nudged, loop, signalled, lock, stopping, conn, sockets,
                   clients, owed>>

AcceptorEnds(s) == stopping[s] /\ AcceptorLeaves(s)

AcceptFails(s) == AcceptErrors /\ ~stopping[s] /\ AcceptorLeaves(s)

Acceptor(s) == AcceptorChecks(s) \/ AcceptorTakes(s) \/ AcceptorDrops(s)
                 \/ AcceptorMarks(s) \/ AcceptorEnds(s)

(***************************************************************************)
(* The thread of a connection                                              *)
(***************************************************************************)

\* connection reads a line: one that is malformed ends the connection, one
\* that is not permitted, or is hello, is answered here, and the rest go on.
Read(c) ==
    /\ conn[c].pc = "read"
    /\ cut[c] => inbox[c] > 0
    /\ inbox' = [inbox EXCEPT ![c] = IF cut[c] THEN @ - 1 ELSE 0]
    /\ \/ Go(c, "done")
       \/ UNCHANGED conn
       \/ \E k \in Kinds[c] : conn' = [conn EXCEPT ![c] = asking(@, k)]
    /\ UNCHANGED <<mailbox, nudged, loop, signalled, lock, stopping, acc, sockets, cut,
                   owed>>

\* recv returns nothing more: the client hung up or was not identified, the
\* time for its first request is over, or the stop shut the connection down.
Ends(c) ==
    /\ conn[c].pc = "read"
    /\ inbox[c] = 0
    /\ Go(c, "done")
    /\ UNCHANGED <<mailbox, nudged, loop, signalled, lock, stopping, acc, sockets,
                   clients, owed>>

\* Mutant: the answer seam is entered without the lock.
LockUnchecked(c) ==
    /\ conn[c].pc = "lock"
    /\ lock' = [lock EXCEPT ![ServerOf[c]] = c]
    /\ Go(c, "ask")
    /\ UNCHANGED <<mailbox, nudged, loop, signalled, stopping, acc, sockets, clients,
                   owed>>

\* serve_one and serve_monitor take the server's lock.
Lock(c) ==
    /\ conn[c].pc = "lock"
    /\ Unlocked(ServerOf[c])
    /\ lock' = [lock EXCEPT ![ServerOf[c]] = c]
    /\ Go(c, "ask")
    /\ UNCHANGED <<mailbox, nudged, loop, signalled, stopping, acc, sockets, clients,
                   owed>>

\* What ncfg_main_mailbox_answer and ncfg_main_mailbox_stream put in a slot.
waiting(c) == [Free EXCEPT !.by = c, !.kind = conn[c].kind]

\* slot_to_wait_in refuses where the mailbox is shut or full, else the first
\* free slot is filled.
Ask(c) ==
    /\ conn[c].pc = "ask"
    /\ \/ /\ shut \/ \A i \in Slots : in_use(i)
          /\ Leave(c, "refused")
          /\ UNCHANGED at
       \/ /\ ~shut
          /\ \E i \in Slots :
               /\ ~in_use(i)
               /\ \A j \in Slots : j < i => in_use(j)
               /\ at' = [at EXCEPT ![i] = waiting(c)]
               /\ conn' = [conn EXCEPT ![c] = entering(@, i)]
          /\ UNCHANGED lock
    /\ UNCHANGED <<shut, nudged, loop, signalled, stopping, acc, sockets, clients, owed>>

\* Mutant: the loop is not told.
NudgeMissing(c) ==
    /\ conn[c].pc = "nudge"
    /\ Go(c, "wait")
    /\ UNCHANGED <<mailbox, nudged, loop, signalled, lock, stopping, acc, sockets,
                   clients, owed>>

\* wait_for_the_loop first writes to the pipe the loop polls.
Nudge(c) ==
    /\ conn[c].pc = "nudge"
    /\ nudged' = TRUE
    /\ Go(c, "wait")
    /\ UNCHANGED <<mailbox, loop, signalled, lock, stopping, acc, sockets, clients, owed>>

\* Mutant: a request that the loop has taken counts as answered.
answered_taken(c) == at[conn[c].slot].taken

\* The condition is broadcast, so a thread looks at its own slot again.
answered(c) == at[conn[c].slot].answered

\* Mutant: in_use is not reset.
leave_slot_used(i) == at' = [at EXCEPT ![i].after = FALSE, ![i].ready = FALSE]

\* The slot is emptied under the mutex.
leave_slot(i) == at' = [at EXCEPT ![i] = Free]

\* ncfg_daemon_answer_park
answer_park(c) == lock' = [lock EXCEPT ![ServerOf[c]] = None]

\* The rest of wait_for_the_loop: out of the slot, and where the loop handed
\* work back, the lock is parked to do it.  A context that came with no work to
\* start is freed at once.
Awake(c) ==
    LET slot == at[conn[c].slot]
    IN  /\ conn[c].pc = "wait"
        /\ answered(c)
        /\ leave_slot(conn[c].slot)
        /\ \/ /\ slot.after /\ slot.ready
              /\ conn' = [conn EXCEPT ![c] = leaving(@, "after", slot.result)]
              /\ answer_park(c)
              /\ UNCHANGED owed
           \/ /\ ~(slot.after /\ slot.ready)
              /\ Leave(c, slot.result)
              /\ owed' = IF slot.after THEN owed \ {c} ELSE owed
        /\ UNCHANGED <<shut, nudged, loop, signalled, stopping, acc, sockets, clients>>

\* The deferred work, with no lock.
After(c) ==
    /\ conn[c].pc = "after"
    /\ Go(c, "resume")
    /\ UNCHANGED <<mailbox, nudged, loop, signalled, lock, stopping, acc, sockets,
                   clients, owed>>

\* Mutant: the context is not freed.
ResumeLeaking(c) ==
    /\ conn[c].pc = "resume"
    /\ Unlocked(ServerOf[c])
    /\ Go(c, "reply")
    /\ UNCHANGED <<mailbox, nudged, loop, signalled, lock, stopping, acc, sockets,
                   clients, owed>>

\* Take the lock back, free the context, return.
Resume(c) ==
    /\ conn[c].pc = "resume"
    /\ Unlocked(ServerOf[c])
    /\ owed' = owed \ {c}
    /\ Go(c, "reply")
    /\ UNCHANGED <<mailbox, nudged, loop, signalled, lock, stopping, acc, sockets, clients>>

\* The reply is written, or cannot be because the client is gone.  The write has
\* no deadline: a client that does not read keeps its own thread, with no lock.  A
\* connection that was handed over ends; a refusal does not end it.
Reply(c) ==
    /\ conn[c].pc = "reply"
    /\ \/ Go(c, "done")
       \/ /\ ~(conn[c].kind = "stream" /\ conn[c].result = "acted")
          /\ conn' = [conn EXCEPT ![c] = [Gone EXCEPT !.pc = "read"]]
    /\ UNCHANGED <<mailbox, nudged, loop, signalled, lock, stopping, acc, sockets,
                   clients, owed>>

\* Mutant: the descriptor is closed with the slot still naming it.
DoneNamed(c) ==
    /\ conn[c].pc = "done"
    /\ Unlocked(ServerOf[c])
    /\ Go(c, "close")
    /\ UNCHANGED <<mailbox, nudged, loop, signalled, lock, stopping, acc, sockets,
                   clients, owed>>

\* The end of connection: out of the slot first, under the lock ...
Done(c) ==
    /\ conn[c].pc = "done"
    /\ Unlocked(ServerOf[c])
    /\ fd' = [fd EXCEPT ![c] = FALSE]
    /\ Go(c, "close")
    /\ UNCHANGED <<mailbox, nudged, loop, signalled, lock, stopping, acc, open,
                   hasThread, clients, owed>>

\* ... then closed ...
Close(c) ==
    /\ conn[c].pc = "close"
    /\ open' = [open EXCEPT ![c] = FALSE]
    /\ Go(c, "release")
    /\ UNCHANGED <<mailbox, nudged, loop, signalled, lock, stopping, acc, fd,
                   hasThread, clients, owed>>

\* ... then slot_release.  Nothing is queued on the next connection yet.
Release(c) ==
    /\ conn[c].pc = "release"
    /\ Unlocked(ServerOf[c])
    /\ conn' = [conn EXCEPT ![c] = Gone]
    /\ inbox' = [inbox EXCEPT ![c] = 0]
    /\ cut' = [cut EXCEPT ![c] = FALSE]
    /\ UNCHANGED <<mailbox, nudged, loop, signalled, lock, stopping, acc, sockets, owed>>

\* The steps that wait for the server's lock, those that wait for nothing, and
\* those that wait for a client or for a radio until the stop.
Locks(c) == Lock(c) \/ Resume(c) \/ Done(c) \/ Release(c)
Runs(c)  == Ask(c) \/ Nudge(c) \/ Awake(c) \/ Close(c)
Waits(c) == Read(c) \/ Ends(c) \/ Reply(c) \/ After(c)

(***************************************************************************)
(* A round of the loop                                                     *)
(***************************************************************************)

server == StopOrder[loop.i]

LoopAt(pc, i) == loop' = [loop EXCEPT !.pc = pc, !.i = i]

\* poll returns for the pipes; what is in them is read before the mailbox is.
WakeUp ==
    /\ loop.pc = "poll"
    /\ nudged' = FALSE
    /\ loop' = [pc |-> "take", i |-> 1, stop |-> signalled]
    /\ UNCHANGED <<mailbox, signalled, lock, stopping, acc, conn, sockets,
                   clients, owed>>

Wake == (nudged \/ signalled) /\ WakeUp

\* Or for the tick, or another source.
Tick == ~nudged /\ ~signalled /\ WakeUp

\* ncfg_main_mailbox_take marks the requests the pass is given.
Take ==
    /\ loop.pc = "take"
    /\ at' = [i \in Slots |->
                IF in_use(i) /\ ~at[i].taken /\ ~at[i].answered /\ at[i].kind # "stream"
                THEN giving(at[i]) ELSE at[i]]
    /\ LoopAt("settle", 1)
    /\ UNCHANGED <<shut, nudged, signalled, lock, stopping, acc, conn, sockets, clients,
                   owed>>

\* Mutant: a request the pass has not seen is answered too.
settles_unseen(i) == in_use(i) /\ ~at[i].answered

\* Whether ncfg_main_mailbox_settle answers a slot: a request that came after
\* the pass was given its list waits for the next round.
settles(i) ==
    /\ in_use(i) /\ ~at[i].answered
    /\ at[i].kind = "stream" \/ at[i].taken

\* ncfg_main_mailbox_settle, one slot: skip it, or mark it and let go of the
\* mutex.
Settle ==
    /\ loop.pc = "settle"
    /\ loop.i \in Slots
    /\ \/ ~settles(loop.i) /\ LoopAt("settle", loop.i + 1) /\ UNCHANGED at
       \/ /\ settles(loop.i)
          /\ at' = [at EXCEPT ![loop.i] = taking(@)]
          /\ LoopAt("deliver", loop.i)
    /\ UNCHANGED <<shut, nudged, signalled, lock, stopping, acc, conn, sockets,
                   clients, owed>>

\* The answer runs with no mutex held and writes the buffers of the thread
\* that waits.  A scan hands its wait back (ncfg_main_answer_after_the_loop).
Deliver ==
    /\ loop.pc = "deliver"
    /\ LoopAt("answer", loop.i)
    /\ \/ UNCHANGED <<at, owed>>
       \/ /\ at[loop.i].kind = "slow"
          /\ at' = [at EXCEPT ![loop.i] = deferring(@)]
          /\ owed' = owed \cup {at[loop.i].by}
    /\ UNCHANGED <<shut, nudged, signalled, lock, stopping, acc, conn, sockets,
                   clients>>

\* The end of the slot's turn, under the mutex again.
Answer ==
    /\ loop.pc = "answer"
    /\ \E r \in IF at[loop.i].kind = "stream" THEN {"acted", "declined"} ELSE {"acted"} :
         at' = [at EXCEPT ![loop.i] = answering(@, r)]
    /\ LoopAt("settle", loop.i + 1)
    /\ UNCHANGED <<shut, nudged, signalled, lock, stopping, acc, conn, sockets,
                   clients, owed>>

\* ncfg_main_serve goes round again until a signal was read.
RoundEnds ==
    /\ loop.pc = "settle"
    /\ loop.i > Pending
    /\ LoopAt(IF loop.stop THEN "shut" ELSE "poll", 1)
    /\ UNCHANGED <<mailbox, nudged, signalled, lock, stopping, acc, conn, sockets,
                   clients, owed>>

(***************************************************************************)
(* The end of daemon_main: shut the mailbox, stop each server, close it    *)
(***************************************************************************)

\* Mutant: what waits is left waiting.
refused_waiters_left == at

\* What waits is answered, with a refusal.
refused_waiters ==
    [i \in Slots |->
       IF in_use(i) /\ ~at[i].answered
       THEN refusing(at[i]) ELSE at[i]]

\* ncfg_main_mailbox_shut refuses what waits and what comes later.
Shut ==
    /\ loop.pc = "shut"
    /\ shut' = TRUE
    /\ at' = refused_waiters
    /\ LoopAt("stop", 1)
    /\ UNCHANGED <<nudged, signalled, lock, stopping, acc, conn, sockets,
                   clients, owed>>

\* ncfg_daemon_server_stop: the flag, and the listener shut down ...
StopServer ==
    /\ loop.pc = "stop"
    /\ loop.i <= Len(StopOrder)
    /\ Unlocked(server)
    /\ stopping' = [stopping EXCEPT ![server] = TRUE]
    /\ LoopAt("join", loop.i)
    /\ UNCHANGED <<mailbox, nudged, signalled, lock, acc, conn, sockets,
                   clients, owed>>

\* Mutant: the acceptor is not waited for.
JoinAcceptorEarly ==
    /\ loop.pc = "join"
    /\ LoopAt("cut", loop.i)
    /\ UNCHANGED <<mailbox, nudged, signalled, lock, stopping, acc, conn, sockets,
                   clients, owed>>

\* ... its acceptor joined ...
JoinAcceptor ==
    /\ loop.pc = "join"
    /\ acc[server].pc = "gone"
    /\ LoopAt("cut", loop.i)
    /\ UNCHANGED <<mailbox, nudged, signalled, lock, stopping, acc, conn,
                   sockets, clients, owed>>

\* ... every connection shut down ...
CutConnections ==
    /\ loop.pc = "cut"
    /\ Unlocked(server)
    /\ cut' = [c \in Conns |-> cut[c] \/ (ServerOf[c] = server /\ fd[c])]
    /\ \E unread \in [Conns -> 0 .. MaxQueued] :
         inbox' = [c \in Conns |-> IF cut'[c] /\ ~cut[c] THEN unread[c] ELSE inbox[c]]
    /\ LoopAt("threads", loop.i)
    /\ UNCHANGED <<mailbox, nudged, signalled, lock, stopping, acc, conn,
                   sockets, owed>>

\* ... every thread joined, and the server freed.
JoinThreads ==
    /\ loop.pc = "threads"
    /\ Unlocked(server)
    /\ \A c \in Conns : ServerOf[c] = server /\ hasThread[c] => conn[c].pc = "none"
    /\ hasThread' = [c \in Conns |-> hasThread[c] /\ ServerOf[c] # server]
    /\ LoopAt("stop", loop.i + 1)
    /\ UNCHANGED <<mailbox, nudged, signalled, lock, stopping, acc, conn, fd,
                   open, clients, owed>>

\* ncfg_main_mailbox_close: the mutex and the condition are destroyed.
CloseMailbox ==
    /\ loop.pc = "stop"
    /\ loop.i > Len(StopOrder)
    /\ at' = [i \in Slots |-> Free]
    /\ shut' = FALSE
    /\ LoopAt("closed", 1)
    /\ UNCHANGED <<nudged, signalled, lock, stopping, acc, conn, sockets,
                   clients, owed>>

Loop == \/ Wake \/ Take \/ Settle \/ Deliver \/ Answer \/ RoundEnds
        \/ Shut \/ StopServer \/ JoinAcceptor \/ CutConnections \/ JoinThreads
        \/ CloseMailbox

(***************************************************************************)
(* The specification                                                       *)
(***************************************************************************)

\* ncfg_main_mailbox_open
MailboxOpened ==
    /\ at = [i \in Slots |-> Free]
    /\ shut = FALSE
    /\ nudged = FALSE

\* The servers are bound and their acceptors run.
Init ==
    /\ MailboxOpened
    /\ loop = [pc |-> "poll", i |-> 1, stop |-> FALSE]
    /\ signalled = FALSE
    /\ lock = [s \in Servers |-> None]
    /\ stopping = [s \in Servers |-> FALSE]
    /\ acc = [s \in Servers |-> [pc |-> "accept", slot |-> None]]
    /\ conn = [c \in Conns |-> Gone]
    /\ fd = [c \in Conns |-> FALSE]
    /\ open = [c \in Conns |-> FALSE]
    /\ hasThread = [c \in Conns |-> FALSE]
    /\ inbox = [c \in Conns |-> 0]
    /\ cut = [c \in Conns |-> FALSE]
    /\ owed = {}

Next ==
    \/ Loop \/ Tick \/ Signal
    \/ \E s \in Servers : Connect(s) \/ AcceptFails(s) \/ Acceptor(s)
    \/ \E c \in Conns : Locks(c) \/ Runs(c) \/ Waits(c)

Spec == Init /\ [][Next]_vars

\* Fairness.  Threads run; a thread that keeps finding a lock free gets it.
\* Nothing is assumed of the tick: the nudge has to be enough.  Nothing is assumed
\* of the clients either, which may never send, hang up or read a reply, nor of
\* how long deferred work takes, until the stop has shut the connection down: that
\* ends a recv or a send that blocks, and the work has a deadline.
Fairness ==
    /\ SF_vars(Loop)
    /\ \A s \in Servers : SF_vars(Acceptor(s))
    /\ \A c \in Conns : /\ SF_vars(Locks(c))
                         /\ WF_vars(Runs(c))
                         /\ WF_vars(cut[c] /\ Waits(c))

FairSpec == Spec /\ Fairness

(***************************************************************************)
(* Properties                                                              *)
(***************************************************************************)

Results == {"none", "acted", "declined", "refused"}

SlotRecords == [by : Conns \cup {None}, kind : AllKinds, taken : BOOLEAN,
                answered : BOOLEAN, result : Results, after : BOOLEAN, ready : BOOLEAN,
                seen : BOOLEAN]

ConnPCs == {"none", "read", "lock", "ask", "nudge", "wait", "after", "resume", "reply",
            "done", "close", "release"}

ConnRecords == [pc : ConnPCs, kind : AllKinds, slot : Slots \cup {0}, result : Results]

LoopPCs == {"poll", "take", "settle", "deliver", "answer", "shut", "stop", "join",
            "cut", "threads", "closed"}

LoopRecords == [pc : LoopPCs, i : Nat, stop : BOOLEAN]

AccRecords == [pc : {"accept", "check", "take", "drop", "mark", "gone"}, slot : Conns \cup {None}]

\* Every variable holds a value of its type.
TypeOK ==
    /\ at \in [Slots -> SlotRecords]
    /\ shut \in BOOLEAN /\ nudged \in BOOLEAN /\ signalled \in BOOLEAN
    /\ loop \in LoopRecords
    /\ lock \in [Servers -> Conns \cup {None}]
    /\ stopping \in [Servers -> BOOLEAN]
    /\ acc \in [Servers -> AccRecords]
    /\ conn \in [Conns -> ConnRecords]
    /\ fd \in [Conns -> BOOLEAN] /\ open \in [Conns -> BOOLEAN]
    /\ hasThread \in [Conns -> BOOLEAN]
    /\ inbox \in [Conns -> 0 .. MaxQueued]
    /\ cut \in [Conns -> BOOLEAN]
    /\ owed \subseteq Conns

\* A request in the mailbox borrows the buffers of the thread that put it
\* there, and that thread is inside ncfg_main_mailbox_answer for the whole of
\* the request's stay, waiting on that slot with its server locked.
WaiterIsThere ==
    \A i \in Slots : in_use(i) =>
        LET c == at[i].by
        IN  /\ conn[c].pc \in {"nudge", "wait"}
            /\ conn[c].slot = i
            /\ lock[ServerOf[c]] = c

\* While the loop delivers an answer, the slot is still the one it read: in
\* use, taken, and answered by nobody else.
DeliveryIsExclusive ==
    loop.pc \in {"deliver", "answer"} =>
        in_use(loop.i) /\ at[loop.i].taken /\ ~at[loop.i].answered

\* When the mailbox's mutex is destroyed no other thread is left to lock it,
\* of either server: every acceptor has ended and every connection thread.
ClosedIsQuiet ==
    loop.pc = "closed" =>
        /\ \A s \in Servers : acc[s].pc = "gone"
        /\ \A c \in Conns : conn[c].pc = "none"

\* The context of deferred work is freed, once: it is owed exactly while the
\* slot that carries it, or the thread that took it, still has it.
ContextsAreFreed ==
    \A c \in Conns : c \in owed <=>
        \/ conn[c].pc \in {"after", "resume"}
        \/ \E i \in Slots : at[i].by = c /\ at[i].after

\* ncfg_daemon_server_stop shuts down the descriptors it finds in the slots of a
\* server; one that is there is open, and so is still that connection's.  The
\* acceptor, which leaves a closed one in a slot for a moment, is joined first.
DescriptorIsLive ==
    loop.pc = "cut" => \A c \in Conns : ServerOf[c] = server /\ fd[c] => open[c]

\* A connection that has its server's lock and asks always finds a slot, where
\* there are as many slots as control sockets: the lock lets one connection of
\* a socket into the mailbox, and deferred work is done outside it.
NobodyIsTurnedAway ==
    \A c \in Conns : conn[c].pc = "ask" => \E i \in Slots : ~in_use(i)

\* How far the request of a connection has come, for RequestPromise.
how_far(r, slot) ==
    LET fresh == IF r.kind = "stream" THEN "watching" ELSE "asked"
        told(result) == IF result = "refused" THEN "refused" ELSE "answered"
    IN  CASE r.pc \in {"lock", "ask"} -> fresh
          [] r.pc \in {"nudge", "wait"} ->
               IF slot.answered THEN told(slot.result)
               ELSE IF slot.seen THEN "seen" ELSE fresh
          [] r.pc \in {"after", "resume"} -> "answered"
          [] r.pc = "reply" -> told(r.result)
          [] OTHER -> "idle"

phase_of(c) == how_far(conn[c], at[conn[c].slot])

Promise == INSTANCE RequestPromise WITH phase <- [c \in Conns |-> phase_of(c)]

\* The mailbox keeps what is promised to a client: only what a pass was given
\* is acted on, and what is refused was not acted on.
KeepsPromise == Promise!Spec

\* Every request comes to its answer, a refusal included, or to the work that is
\* done for it with the lock put down, without the tick and whatever other clients
\* do: one that does not read its reply, or whose scan goes on, holds up nobody else.
\* Work that is done gets the lock back and comes to its answer.
EveryRequestIsAnswered ==
    \A c \in Conns :
        /\ conn[c].pc \in {"lock", "ask", "nudge", "wait"} ~> conn[c].pc \in {"after", "reply"}
        /\ conn[c].pc = "resume" ~> conn[c].pc = "reply"

\* A signal stops the daemon: every thread ends and the mailbox is closed.
ShutdownEnds == signalled ~> loop.pc = "closed"
====
