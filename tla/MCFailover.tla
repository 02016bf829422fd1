----------------------------- MODULE MCFailover -----------------------------
(* Two interfaces: an Ethernet link, and a modem with a list of SIM sources. *)
EXTENDS Failover

MCInterfaces == {"eth", "lte"}
MCOrder == <<"eth", "lte">>
MCSources == {"s1", "s2", "s3"}
MCDocuments == {"A", "B", "C"}

Plain == [command |-> "ping", interval |-> 0, hold_down |-> 0, up_after |-> 1, down_after |-> 1]
Slow == [command |-> "curl", interval |-> 1, hold_down |-> 1, up_after |-> 1, down_after |-> 2]

\* A is the machine's document; B shortens the modem's list and changes its
\* probe; C takes both away.
MCProbe == [A |-> [eth |-> None, lte |-> Slow],
            B |-> [eth |-> None, lte |-> Plain],
            C |-> [eth |-> None, lte |-> None]]
MCModem == [A |-> [eth |-> None, lte |-> <<"s1", "s2", "s3">>],
            B |-> [eth |-> None, lte |-> <<"s1", "s2">>],
            C |-> [eth |-> None, lte |-> None]]
MCManaged == [d \in MCDocuments |-> {"eth", "lte"}]
MCReconciled == [d \in MCDocuments |-> {"eth"}]
MCAnswers == [i \in MCInterfaces |-> {"ok", "failed", "unstarted"}]

\* Both interfaces are probed.
BothProbe == [d \in MCDocuments |-> [eth |-> Plain, lte |-> Plain]]
=============================================================================
