------------------------------ MODULE MCClients ------------------------------
(***************************************************************************)
(* The two clients that keep state between requests: the working directory  *)
(* of the command line and the screens of the terminal interface.  They     *)
(* share no variable; part, chosen at the start, names the one that takes   *)
(* the steps.                                                               *)
(***************************************************************************)
EXTENDS Workspace, Tui
VARIABLE part

Init == /\ WsInit /\ TuiInit
        /\ \/ part = "workspace" /\ view = "branches"
           \/ part = "terminal" /\ cfg = NoBranch
Next == \/ part = "workspace" /\ WsNext /\ UNCHANGED <<part, tuiVars>>
        \/ part = "terminal" /\ TuiNext /\ UNCHANGED <<part, wsVars>>
Spec == Init /\ [][Next]_<<part, wsVars, tuiVars>>
=============================================================================
