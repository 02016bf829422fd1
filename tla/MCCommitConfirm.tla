--------------------------- MODULE MCCommitConfirm ---------------------------
(***************************************************************************)
(* A small machine for TLC.  Item 1 is an address, item 2 an MTU or a      *)
(* backend: the empty document takes the address away and has no opinion   *)
(* of item 2.                                                              *)
(***************************************************************************)
EXTENDS CommitConfirm

CONSTANTS A, B, off, x, y

MCDocs   == {Empty, A, B}
MCValues == {off, x, y}

Asks ==
    [d \in MCDocs |->
       CASE d = Empty -> <<off, Unset>>
         [] d = A     -> <<x, Unset>>
         [] d = B     -> <<y, y>>]

MCWant == [d \in MCDocs |-> [i \in Items |-> Asks[d][i]]]

MCReconciles == [d \in MCDocs |-> Items]

MCConfirmDefault == [d \in MCDocs |-> IF d = B THEN MaxSeconds ELSE 0]
=============================================================================
