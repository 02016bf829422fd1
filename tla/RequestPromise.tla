--------------------------- MODULE RequestPromise ---------------------------
(***************************************************************************)
(* What the daemon promises a client that sent a request, as               *)
(* c/src/main/loop_internal.h puts it: the pass has looked at a request    *)
(* before anything acts on it; what is refused was not acted on; a          *)
(* connection that asks to watch is handed over without a pass looking.    *)
(***************************************************************************)
CONSTANT Conns

VARIABLE phase   \* phase[c]: how far the request of connection c has come

Phases == {"idle", "asked", "watching", "seen", "answered", "refused"}

Init == phase = [c \in Conns |-> "idle"]

Move(c, from, to) == phase[c] \in from /\ phase' = [phase EXCEPT ![c] = to]

\* A client asks for something to be done, or to watch.
Ask(c)    == Move(c, {"idle"}, "asked") \/ Move(c, {"idle"}, "watching")

\* A pass is given the requests that wait.
Look      == \E seen \in SUBSET {c \in Conns : phase[c] = "asked"} :
               phase' = [c \in Conns |-> IF c \in seen THEN "seen" ELSE phase[c]]

Answer(c) == Move(c, {"seen", "watching"}, "answered")

Refuse(c) == Move(c, {"asked", "watching"}, "refused")

\* Everything still waiting is refused at once.
RefuseAll == \E refused \in SUBSET {c \in Conns : phase[c] \in {"asked", "watching"}} :
               phase' = [c \in Conns |-> IF c \in refused THEN "refused" ELSE phase[c]]

\* The client has been told.
Tell(c)   == Move(c, {"answered", "refused"}, "idle")

Next == Look \/ RefuseAll \/ \E c \in Conns : Ask(c) \/ Answer(c) \/ Refuse(c) \/ Tell(c)

Spec == Init /\ [][Next]_phase
=============================================================================
