------------------------------ MODULE MCMailbox ------------------------------
(***************************************************************************)
(* Two control sockets with a connection each, or one with two.            *)
(***************************************************************************)
EXTENDS Mailbox

CONSTANTS local, remote, l1, l2, r1

MCServers   == {local, remote}
MCConns     == {l1, r1}
MCServerOf  == [c \in MCConns |-> IF c = r1 THEN remote ELSE local]
MCStopOrder == <<remote, local>>
MCKinds     == [c \in MCConns |-> IF c = r1 THEN {"slow"} ELSE {"slow", "stream"}]

MCLocalConns    == {l1, l2}
MCLocalServers  == {local}
MCLocalServerOf == [c \in MCLocalConns |-> local]
MCLocalOrder    == <<local>>
MCLocalKinds    == [c \in MCLocalConns |-> IF c = l1 THEN {"slow"} ELSE {"stream"}]
=============================================================================
