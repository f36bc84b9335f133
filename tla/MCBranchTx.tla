------------------------------ MODULE MCBranchTx ------------------------------
(***************************************************************************)
(* Instances of BranchTx for TLC.                                          *)
(***************************************************************************)
EXTENDS BranchTx, TLC

CONSTANT MaxSeq      \* bound on the sequence numbers

MCSeqNos == 1..MaxSeq

\* Clients write any single file.
MCPatches == {[p \in {q} |-> v] : q \in Paths, v \in Versions}
=============================================================================
