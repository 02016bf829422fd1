---------------------------- MODULE MCSupplicant ----------------------------
(* A name with two credentials and another network; the documents differ in *)
(* a credential, in what joins by itself and in whether the radio does; one *)
(* has two blocks of one name, the first of which does not join by itself.  *)
EXTENDS Supplicant

MCNetworks == {"home1", "home2", "work"}
MCSsid == [n \in MCNetworks |-> IF n = "work" THEN "w" ELSE "h"]
MCFirst == [nets |-> <<"home1", "work">>, auto |-> {"home1", "work"}, joins |-> TRUE]
MCDocuments == {MCFirst,
                [nets |-> <<"home1", "home2">>, auto |-> {"home2"}, joins |-> TRUE],
                [nets |-> <<"work">>, auto |-> {"work"}, joins |-> FALSE],
                [nets |-> <<>>, auto |-> {}, joins |-> TRUE]}
=============================================================================
