------------------------------ MODULE Delivery ------------------------------
(***************************************************************************)
(* What webhook delivery promises, without tables, pollers or leases: a    *)
(* queued delivery stays owed until its endpoint has accepted it, until    *)
(* the sender gives it up, or until its subscription, here its channel, is *)
(* closed.  The endpoint may get it more than once.                        *)
(***************************************************************************)
CONSTANTS Deliveries, Channels, ChannelOf
VARIABLES
    status,    \* "absent", "owed", "dead" (given up) or "done"
    accepted,  \* the deliveries some endpoint has answered with success
    closed     \* the channels that are closed for good

dvars == <<status, accepted, closed>>

DInit == status = [d \in Deliveries |-> "absent"] /\ accepted = {} /\ closed = {}

Enqueue(d) ==
    /\ status[d] = "absent" /\ d \notin accepted /\ ChannelOf[d] \notin closed
    /\ status' = [status EXCEPT ![d] = "owed"]
    /\ UNCHANGED <<accepted, closed>>

Accept(d) == accepted' = accepted \cup {d} /\ UNCHANGED <<status, closed>>

Settle(d) ==
    /\ status[d] \in {"owed", "dead"}
    /\ d \in accepted
    /\ status' = [status EXCEPT ![d] = "done"]
    /\ UNCHANGED <<accepted, closed>>

(* A late report of an earlier failure may also take the giving up back. *)
GiveUp(d) == status[d] = "owed" /\ status' = [status EXCEPT ![d] = "dead"]
             /\ UNCHANGED <<accepted, closed>>
Revive(d) == status[d] = "dead" /\ status' = [status EXCEPT ![d] = "owed"]
             /\ UNCHANGED <<accepted, closed>>

(* What is done is forgotten, and nothing else. *)
Forget(F) ==
    /\ \A d \in F : status[d] = "done"
    /\ status' = [d \in Deliveries |-> IF d \in F THEN "absent" ELSE status[d]]
    /\ UNCHANGED <<accepted, closed>>

Close(c) ==
    /\ closed' = closed \cup {c}
    /\ status' = [d \in Deliveries |-> IF ChannelOf[d] = c THEN "absent" ELSE status[d]]
    /\ UNCHANGED accepted

DNext ==
    \/ \E d \in Deliveries : Enqueue(d) \/ Accept(d) \/ Settle(d) \/ GiveUp(d) \/ Revive(d)
    \/ \E F \in SUBSET Deliveries : Forget(F)
    \/ \E c \in Channels : Close(c)

DSpec == DInit /\ [][DNext]_dvars
=============================================================================
