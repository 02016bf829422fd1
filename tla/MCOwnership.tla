---------------------------- MODULE MCOwnership ----------------------------
(* Two links, one of which cannot be marked, two clients, one of which       *)
(* cannot be asked about, the daemon and one command line.  The first two    *)
(* documents reconcile what they want and do not name what the other wants;  *)
(* the third wants nothing, and of the three interfaces it still names       *)
(* one is only reported.                                                     *)
EXTENDS Ownership

MCLinks == {"br0", "gre1"}
MCUnmarkable == {"gre1"}
MCClients == {"eth0", "eth1"}
MCUnanswerable == {"eth1"}
MCClis == {"ncfg"}
Reconciling(wants) == [wants |-> wants, reports |-> wants, reconciles |-> wants]
MCFirst == Reconciling({"gre1", "eth0"})
MCTrees == {MCFirst, Reconciling({"br0", "eth1"}),
            [wants |-> {}, reports |-> {"br0", "gre1", "eth0"},
             reconciles |-> {"br0", "eth0"}]}
=============================================================================
