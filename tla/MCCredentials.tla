--------------------------- MODULE MCCredentials ---------------------------
(***************************************************************************)
(* Secrets and job tokens share no variable; one instance checks both: part *)
(* is chosen at the start and names the component that takes the steps.     *)
(***************************************************************************)
EXTENDS Secrets, JobTokens, TLC
CONSTANTS j1, j2, A, B, build, lib, site
VARIABLE part

MCTriggerOf == (j1 :> "proposal") @@ (j2 :> "push")
MCAuthorOf == (j1 :> "ann") @@ (j2 :> "ann")
MCConfig == (j1 :> {<<"build", "X", A>>, <<"test", "Y", B>>})
            @@ (j2 :> {<<"build", "X", A>>, <<"test", "X", B>>})
MCJobRepo == (build :> site)
MCDeclared == (build :> {})

Init == SecretsInit /\ TokensInit /\ part \in {"secrets", "tokens"}

Next == /\ UNCHANGED part
        /\ \/ part = "secrets" /\ SecretsNext /\ UNCHANGED tokenVars
           \/ part = "tokens" /\ TokensNext /\ UNCHANGED secretsVars

Spec ==
    /\ Init /\ [][Next]_<<part, secretsVars, tokenVars>>
    /\ WF_tokenVars(part = "tokens" /\ Tick)
    /\ \A v \in Verifiers :
          SF_tokenVars(part = "tokens" /\ ~Fresh(v) /\ VerifySome(v))
=============================================================================
