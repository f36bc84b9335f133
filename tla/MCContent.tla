----------------------------- MODULE MCContent -----------------------------
(***************************************************************************)
(* Where file contents live and how they are read: documents, blobs and     *)
(* releases, images in the CI registry, listings and pages.  part, chosen   *)
(* at the start, names the one that takes the steps; they share no          *)
(* variable, except that releases name the commits of the documents and are *)
(* checked with these, without faults of the blob store.  The pure          *)
(* functions take no step: their inputs are initial states.                 *)
(***************************************************************************)
EXTENDS Registry, DocBlobs, Reads, Algorithms, TLC
CONSTANTS m1, m2, b1, b2
VARIABLE part

MCLayers == (m1 :> {b1, b2}) @@ (m2 :> {b1})
ContentSymmetry == Permutations(DocRepos) \cup Permutations(Committers)
                   \cup Permutations(Replicas) \cup Permutations(Clients)

Init == /\ RegInit /\ DocInit /\ ReadsInit
        /\ \/ part \in {"registry", "documents", "releases", "reads"} /\ probe = NoProbe
           \/ part = "algorithms" /\ probe \in Probes
Next == /\ UNCHANGED <<part, probe>>
        /\ \/ part = "registry" /\ RegNext /\ UNCHANGED <<docVars, readVars>>
           \/ part = "documents" /\ ContentNext /\ UNCHANGED <<regVars, readVars>>
           \/ part = "releases" /\ DocNext /\ UNCHANGED <<docFaults, regVars, readVars>>
           \/ part = "reads" /\ ReadsNext /\ UNCHANGED <<regVars, docVars>>
Spec == Init /\ [][Next]_<<part, probe, regVars, docVars, readVars>>
=============================================================================
