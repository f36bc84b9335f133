------------------------------ MODULE MCService ------------------------------
(***************************************************************************)
(* The server's handlers around the branch store: organisations and access, *)
(* issues, proposals with their reviews.  They share no variable; part,     *)
(* chosen at the start, names the component that takes the steps.           *)
(***************************************************************************)
EXTENDS Access, Issues, Proposals, TLC
CONSTANTS alice, bob, acme, site, q1, q2, plain, both
VARIABLE part

RequestSymmetry == Permutations({q1, q2})
MCOwnerOf == (site :> acme)
MCMentions == (plain :> {<<"commit", 1>>})
              @@ (both :> {<<"commit", 1>>, <<"proposal", "p">>})
MCIssueMentions == (plain :> {}) @@ (both :> {1, 2})

Init == /\ AccessInit /\ IssuesInit /\ PropInit
        /\ part \in {"access", "issues", "proposals"}
Next == \/ part = "access" /\ AccessNext /\ UNCHANGED <<part, issueVars, propVars>>
        \/ part = "issues" /\ IssuesNext /\ UNCHANGED <<part, accessVars, propVars>>
        \/ part = "proposals" /\ PropNext /\ UNCHANGED <<part, accessVars, issueVars>>
Spec == Init /\ [][Next]_<<part, accessVars, issueVars, propVars>>
=============================================================================
