------------------------------- MODULE MCCIJobs -------------------------------
(***************************************************************************)
(* Instances of CIJobs for TLC.                                            *)
(***************************************************************************)
EXTENDS CIJobs, TLC

\* A commit on a branch with an open proposal.
MCWants == [e \in Events |-> <<"push", "proposal_synchronized">>]
\* Every check runs on every trigger.
MCNoSkips == [t \in Triggers |-> {}]
\* Pods are interchangeable.
Symmetry == Permutations(Pods)
=============================================================================
