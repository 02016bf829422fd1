--------------------------- MODULE ConfirmPromise ---------------------------
(***************************************************************************)
(* What commit-confirm promises, as c/include/ncfg/daemon.h puts it: apply, *)
(* start a timer, and put the last-good configuration back unless somebody *)
(* confirms.  A window is closed by a confirmation, or by going back, and  *)
(* going back has arrived before the window is closed; what there is to go *)
(* back to stays what it was while the window is open, and is only ever a  *)
(* configuration the machine was in.                                       *)
(***************************************************************************)
CONSTANTS
    Docs,       \* the documents
    Empty,      \* the one that asks for nothing
    None,       \* none of them
    Works,      \* no action and no observation fails, no backend is given up
    Alone,      \* nobody else changes the machine or claims a part of it
    Whole,      \* what opens a window by itself is applied as a whole
    Readable    \* the last-good file can always be read

VARIABLES
    cause,      \* what the daemon is acting on: a request, a deadline, a start
    held,       \* the documents the machine agrees with
    been,       \* the documents it has agreed with
    good,       \* the last-good document, None where there is none to read
    pending,    \* what the open window goes back to, None with no window open
    returning   \* the machine is back, and the window is about to be closed

promised == <<held, been, good, pending, returning>>

Init ==
    /\ held \in SUBSET Docs /\ been = held
    /\ good = None /\ pending = None /\ returning = FALSE

\* The machine is somewhere else now.
Moves == held' \in SUBSET Docs /\ been' = been \cup held'

\* Under a window only a request to apply moves the machine.
Change ==
    /\ Alone => ~returning /\ (pending = None \/ cause = "apply")
    /\ Moves
    /\ UNCHANGED <<good, pending, returning>>

\* A window is opened over no other, to go back to last-good as it was read.
Offer ==
    /\ pending = None
    /\ pending' \in Docs
    /\ good = pending' \/ (good = None /\ ~Readable)
    /\ UNCHANGED <<held, been, good, returning>>

\* Somebody confirms.
Keep ==
    /\ cause = "confirm"
    /\ pending # None /\ ~returning
    /\ pending' = None
    /\ UNCHANGED <<held, been, good, returning>>

\* Nobody did: asked to, at the deadline, or found again at a start.
GoesBack == cause \in {"revert", "expired", "restart"} /\ pending # None /\ ~returning

TakeBack ==
    /\ GoesBack
    /\ Moves
    /\ Works /\ Alone => pending \in held'
    /\ returning' = TRUE
    /\ UNCHANGED <<good, pending>>

\* A window with nothing to go back to is closed anyway.
Abandon ==
    /\ GoesBack
    /\ good = None
    /\ pending' = None
    /\ UNCHANGED <<held, been, good, returning>>

Close ==
    /\ returning
    /\ Works /\ Alone => pending \in held
    /\ pending' = None
    /\ returning' = FALSE
    /\ UNCHANGED <<held, been, good>>

\* The daemon stops before it has closed the window.
Interrupt == returning /\ returning' = FALSE /\ UNCHANGED <<held, been, good, pending>>

\* Last-good is written with no window open, and is where the machine was; on
\* a machine with none it is the empty document.
Settle ==
    /\ pending = None
    /\ good' \in Docs
    /\ Works /\ Whole => good' \in been \/ (good = None /\ good' = Empty)
    /\ UNCHANGED <<held, been, pending, returning>>

Lose == ~Readable /\ good' = None /\ UNCHANGED <<held, been, pending, returning>>

Next ==
    \/ Change \/ Offer \/ Keep \/ TakeBack \/ Abandon \/ Close \/ Interrupt
    \/ Settle \/ Lose

Spec == Init /\ [][Next]_promised
=============================================================================
