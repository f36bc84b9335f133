------------------------------ MODULE MCEvents ------------------------------
(***************************************************************************)
(* The two ways an event leaves the server.  Once Emit has begun they share *)
(* no variable; part, chosen at the start, names the one that takes the     *)
(* steps.                                                                   *)
(***************************************************************************)
EXTENDS EventLog, Outbox, TLC
CONSTANTS e1, e2, i1, i2, sse, admin, user
VARIABLE part

MCHomeOf == (e1 :> i1) @@ (e2 :> i2)
MCSeatOf == (sse :> i1)
MCWants == (sse :> {e1, e2})
MCEventRepo == (e1 :> "repo") @@ (e2 :> "repo")
MCEventType == (e1 :> "check") @@ (e2 :> "check")
MCFilters == {[repo |-> AnyRepo, types |-> AllTypes], [repo |-> "repo", types |-> {"review"}]}
MCCanRead == (admin :> {}) @@ (user :> {"repo"})

EventsInit == LogInit /\ Init /\ part \in {"log", "outbox"}
EventsNext == \/ part = "log" /\ LogNext /\ UNCHANGED <<part, vars>>
              \/ part = "outbox" /\ Next /\ UNCHANGED <<part, logVars>>
EventsSpec == EventsInit /\ [][EventsNext]_<<part, logVars, vars>>

(* The log: Emit finishes once started, readers run, timers fire, and what  *)
(* is written to an open connection arrives; notifications need not arrive. *)
(* The outbox: processes run, time passes, and the order by next_attempt    *)
(* lets every due row be claimed; requests and endpoints need not do        *)
(* anything.                                                                *)
FairSpec ==
    /\ EventsSpec
    /\ \A e \in LogEvents : WF_logVars(part = "log" /\ EmitCommit(e))
    /\ \A r \in Readers : /\ WF_logVars(part = "log" /\ ReaderStep(r))
                          /\ WF_logVars(part = "log" /\ WaitTimeout(r))
                          /\ WF_logVars(part = "log" /\ Receive(r))
    /\ \A p \in Pollers : WF_vars(part = "outbox" /\ PollerStep(p))
    /\ \A r \in Rows : /\ WF_vars(part = "outbox" /\ Elapse(r))
                       /\ SF_vars(part = "outbox" /\ \E p \in Pollers, B \in SUBSET Rows :
                                    r \in B /\ claimOutboxBatch(p, B))
=============================================================================
