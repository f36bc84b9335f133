---------------------------- MODULE MCBranchStore ----------------------------
(***************************************************************************)
(* Instances of BranchStore for TLC.                                       *)
(***************************************************************************)
EXTENDS BranchStore, TLC

CONSTANT MaxSeq      \* bound on the sequence numbers

MCSeqNos == 1..MaxSeq

\* Commits of one or several files.
MCPatches == FileSets

\* Branches, paths and versions are interchangeable.
Symmetry == Permutations(Branches) \cup Permutations(Paths) \cup Permutations(Versions)
=============================================================================
