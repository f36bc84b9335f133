------------------------------- MODULE Outbox -------------------------------
(***************************************************************************)
(* Webhook subscriptions and the outbox.  Emit selects the subscriptions   *)
(* that match an event and inserts one outbox row for each, without a      *)
(* transaction.  Every server process has a poller: it claims due rows by  *)
(* moving next_attempt five minutes ahead, posts them one after the other, *)
(* and records success or failure in statements of their own.  Time is the *)
(* action Elapse, which makes a row due; how long a poller takes is not    *)
(* bounded, since a batch of 50 posts of up to 10 s outlives a lease.      *)
(***************************************************************************)
EXTENDS Naturals, Sequences, FiniteSets

CONSTANTS
    Events, Subs, Pollers, Users,
    Admin,         \* globalAdmin
    EventRepo,     \* EventRepo[e]: repoFromSource of the event
    EventType,     \* EventType[e]
    CanRead,       \* CanRead[u]: the repos requireRepoReadAccess lets u read
    AnyRepo,       \* repo IS NULL: a subscription to every repo
    AllTypes,      \* event_types IS NULL
    Filters,       \* the [repo, types] filters that requests ask for
    BatchSize,     \* rows claimed at once (50)
    MaxAttempts,   \* attempts of one row (10)
    MaxFaults      \* failed statements and processes that end

ASSUME OutboxAssumption ==
    /\ BatchSize \in Nat \ {0} /\ MaxAttempts \in Nat \ {0} /\ MaxFaults \in Nat
    /\ AnyRepo \notin {EventRepo[e] : e \in Events}

VARIABLES
    subs,       \* event_subscriptions
    outbox,     \* event_outbox, a partial function of Rows
    emit,       \* emit[e]: subscription ids Emit has selected and not yet inserted
    poller,     \* what each process is doing
    accepted,   \* rows whose endpoint answered 2xx (history)
    expired,    \* claims held beyond their lease (history)
    resumed,    \* subscriptions resumed since their last suspension (history)
    unreported, \* rows given up without the suspension being written (history)
    faults

vars == <<subs, outbox, emit, poller, accepted, expired, resumed, unreported, faults>>
history == <<accepted, expired, resumed, unreported>>

Rows == Events \X Subs

NoSub == [state |-> "none", repo |-> AnyRepo, types |-> AllTypes, by |-> Admin]
Idle == [pc |-> "idle", batch |-> {}, row |-> <<>>]
HeldBy(w) == {c.row : c \in w.batch} \cup (IF w.row = <<>> THEN {} ELSE {w.row[1].row})
Holds(p) == HeldBy(poller[p])

Init ==
    /\ subs = [s \in Subs |-> NoSub]
    /\ outbox = << >>
    /\ emit = [e \in Events |-> [pc |-> "new", ids |-> {}]]
    /\ poller = [p \in Pollers |-> Idle]
    /\ accepted = {} /\ expired = {} /\ resumed = {} /\ unreported = {}
    /\ faults = 0

Fault == faults < MaxFaults /\ faults' = faults + 1

-----------------------------------------------------------------------------
(* Requests.  An admin may subscribe to anything, a user to a repo they can *)
(* read; delete and resume are for the admin and the creator.               *)
MaySubscribe(u, repo) == u = Admin \/ (repo # AnyRepo /\ repo \in CanRead[u])
GetSubscription(s) == subs[s].state \in {"active", "suspended"}
MayManage(u, s) == u = Admin \/ (GetSubscription(s) /\ subs[s].by = u)

CreateSubscription(u, s, f) ==
    subs' = [subs EXCEPT ![s] =
               [state |-> "active", repo |-> f.repo, types |-> f.types, by |-> u]]

handleCreateSubscription(u, s, f) ==
    /\ subs[s].state = "none"
    /\ MaySubscribe(u, f.repo)
    /\ CreateSubscription(u, s, f)
    /\ UNCHANGED <<outbox, emit, poller, history, faults>>

(* The outbox rows go with the subscription (ON DELETE CASCADE). *)
DeleteSubscription(s) ==
    /\ GetSubscription(s)
    /\ subs' = [subs EXCEPT ![s].state = "deleted"]
    /\ outbox' = [r \in {x \in DOMAIN outbox : x[2] # s} |-> outbox[r]]

handleDeleteSubscription(u, s) ==
    /\ MayManage(u, s)
    /\ DeleteSubscription(s)
    /\ UNCHANGED <<emit, poller, history, faults>>

(* suspended_at becomes NULL; the rows keep their attempts. *)
ResumeSubscription(s) ==
    /\ GetSubscription(s)
    /\ subs' = [subs EXCEPT ![s].state = "active"]
    /\ resumed' = resumed \cup {s}

handleResumeSubscription(u, s) ==
    /\ MayManage(u, s)
    /\ ResumeSubscription(s)
    /\ UNCHANGED <<outbox, emit, poller, accepted, expired, unreported, faults>>

-----------------------------------------------------------------------------
Matches(e, s) ==
    /\ subs[s].state = "active"
    /\ subs[s].repo \in {AnyRepo, EventRepo[e]}
    /\ subs[s].types = AllTypes \/ EventType[e] \in subs[s].types

(* insertOutboxForEvent: the query, then one insert per subscription. *)
SelectSubscriptions(e) ==
    /\ emit[e].pc = "new"
    /\ emit' = [emit EXCEPT ![e] = [pc |-> "insert", ids |-> {s \in Subs : Matches(e, s)}]]
    /\ UNCHANGED <<subs, outbox, poller, history, faults>>

(* A subscription deleted since fails the foreign key; the error is logged. *)
InsertRow(e, s) ==
    /\ emit[e].pc = "insert" /\ s \in emit[e].ids
    /\ emit' = [emit EXCEPT ![e].ids = @ \ {s}]
    /\ outbox' = IF subs[s].state = "deleted" THEN outbox
                 ELSE [r \in DOMAIN outbox \cup {<<e, s>>} |->
                         IF r = <<e, s>>
                         THEN [attempts |-> 0, due |-> TRUE, delivered |-> FALSE]
                         ELSE outbox[r]]
    /\ UNCHANGED <<subs, poller, history, faults>>

(* The process ends in the middle, or an insert fails. *)
EmitFails(e) ==
    /\ emit[e].pc = "insert" /\ emit[e].ids # {} /\ Fault
    /\ \E left \in SUBSET emit[e].ids : left # emit[e].ids
                                        /\ emit' = [emit EXCEPT ![e].ids = left]
    /\ UNCHANGED <<subs, outbox, poller, history>>

-----------------------------------------------------------------------------
Claimable ==
    {r \in DOMAIN outbox : /\ ~outbox[r].delivered
                           /\ outbox[r].due
                           /\ outbox[r].attempts < MaxAttempts
                           /\ subs[r[2]].state = "active"}

(* Mutant. *)
claimOutboxBatch_nolease(p, B) ==
    /\ poller[p].pc = "idle"
    /\ B # {} /\ B \subseteq Claimable
    /\ Cardinality(B) <= BatchSize
    /\ Cardinality(B) = BatchSize \/ B = Claimable
    /\ poller' = [poller EXCEPT ![p] =
         [Idle EXCEPT !.pc = "deliver",
                      !.batch = {[row |-> r, attempts |-> outbox[r].attempts] : r \in B}]]
    /\ UNCHANGED <<subs, outbox, emit, history, faults>>

(* One transaction: read the rows with their attempts, move next_attempt.   *)
claimOutboxBatch(p, B) ==
    /\ poller[p].pc = "idle"
    /\ B # {} /\ B \subseteq Claimable
    /\ Cardinality(B) <= BatchSize
    /\ Cardinality(B) = BatchSize \/ B = Claimable
    /\ outbox' = [r \in DOMAIN outbox |->
                    IF r \in B THEN [outbox[r] EXCEPT !.due = FALSE] ELSE outbox[r]]
    /\ poller' = [poller EXCEPT ![p] =
         [Idle EXCEPT !.pc = "deliver",
                      !.batch = {[row |-> r, attempts |-> outbox[r].attempts] : r \in B}]]
    /\ UNCHANGED <<subs, emit, history, faults>>

(* next_attempt passes: the end of a back-off, or of a lease. *)
Elapse(r) ==
    /\ r \in DOMAIN outbox /\ ~outbox[r].due
    /\ outbox' = [outbox EXCEPT ![r].due = TRUE]
    /\ expired' = expired \cup {<<p, r>> : p \in {q \in Pollers : r \in Holds(q)}}
    /\ UNCHANGED <<subs, emit, poller, accepted, resumed, unreported, faults>>

(* Mutant. *)
deliverWebhook_early(p, c, answer) ==
    /\ poller[p].pc = "deliver" /\ c \in poller[p].batch
    /\ poller' = [poller EXCEPT ![p] =
         [pc |-> "ok", batch |-> @.batch \ {c}, row |-> <<c>>]]
    /\ accepted' = IF answer = "2xx" THEN accepted \cup {c.row} ELSE accepted
    /\ UNCHANGED <<subs, outbox, emit, expired, resumed, unreported, faults>>

(* The post: 2xx, or anything else (refused, status, timeout). *)
deliverWebhook(p, c, answer) ==
    /\ poller[p].pc = "deliver" /\ c \in poller[p].batch
    /\ poller' = [poller EXCEPT ![p] =
         [pc |-> IF answer = "2xx" THEN "ok" ELSE "failed",
          batch |-> @.batch \ {c}, row |-> <<c>>]]
    /\ accepted' = IF answer = "2xx" THEN accepted \cup {c.row} ELSE accepted
    /\ UNCHANGED <<subs, outbox, emit, expired, resumed, unreported, faults>>

(* The poller is done with the row it holds. *)
Proceed(p) ==
    /\ poller' = [poller EXCEPT ![p] =
                   IF @.batch = {} THEN Idle ELSE [@ EXCEPT !.pc = "deliver", !.row = <<>>]]
    /\ expired' = expired \ {<<p, poller[p].row[1].row>>}

(* UPDATE ... WHERE id: no effect when the row has been deleted. *)
UpdateRow(r, f(_)) == outbox' = [x \in DOMAIN outbox |-> IF x = r THEN f(outbox[x]) ELSE outbox[x]]

markDelivered(p) ==
    /\ poller[p].pc = "ok"
    /\ UpdateRow(poller[p].row[1].row, LAMBDA o : [o EXCEPT !.delivered = TRUE])
    /\ Proceed(p)
    /\ UNCHANGED <<subs, emit, accepted, resumed, unreported, faults>>

(* attempts becomes the value read by the claim, plus one. *)
NewAttempts(c) == c.attempts + 1

(* Mutant. *)
markFailed_norow(p) ==
    LET c == poller[p].row[1] IN
    /\ poller[p].pc = "failed"
    /\ IF NewAttempts(c) >= MaxAttempts
       THEN poller' = [poller EXCEPT ![p].pc = "suspend"] /\ UNCHANGED expired
       ELSE Proceed(p)
    /\ UNCHANGED <<subs, outbox, emit, accepted, resumed, unreported, faults>>

markFailed(p) ==
    LET c == poller[p].row[1] IN
    /\ poller[p].pc = "failed"
    /\ UpdateRow(c.row, LAMBDA o : [o EXCEPT !.attempts = NewAttempts(c), !.due = FALSE])
    /\ IF NewAttempts(c) >= MaxAttempts
       THEN poller' = [poller EXCEPT ![p].pc = "suspend"] /\ UNCHANGED expired
       ELSE Proceed(p)
    /\ UNCHANGED <<subs, emit, accepted, resumed, unreported, faults>>

suspend(p) ==
    LET s == poller[p].row[1].row[2] IN
    /\ poller[p].pc = "suspend"
    /\ subs' = IF subs[s].state = "deleted" THEN subs
               ELSE [subs EXCEPT ![s].state = "suspended"]
    /\ resumed' = resumed \ {s}
    /\ Proceed(p)
    /\ UNCHANGED <<outbox, emit, accepted, unreported, faults>>

(* A statement fails and is only logged. *)
Reported(p) == unreported' = IF poller[p].pc = "suspend"
                             THEN unreported \cup {poller[p].row[1].row} ELSE unreported

StatementFails(p) ==
    /\ poller[p].pc \in {"ok", "failed", "suspend"} /\ Fault
    /\ IF poller[p].pc = "failed" /\ NewAttempts(poller[p].row[1]) >= MaxAttempts
       THEN poller' = [poller EXCEPT ![p].pc = "suspend"] /\ UNCHANGED expired
       ELSE Proceed(p)
    /\ Reported(p)
    /\ UNCHANGED <<subs, outbox, emit, accepted, resumed>>

(* The process ends; its claims end with their leases. *)
Crash(p) ==
    /\ poller[p].pc # "idle" /\ Fault
    /\ poller' = [poller EXCEPT ![p] = Idle]
    /\ expired' = {x \in expired : x[1] # p}
    /\ Reported(p)
    /\ UNCHANGED <<subs, outbox, emit, accepted, resumed>>

(* Delivered rows of more than seven days. *)
cleanupOutbox ==
    \E R \in SUBSET {r \in DOMAIN outbox : outbox[r].delivered} :
        /\ R # {}
        /\ outbox' = [r \in DOMAIN outbox \ R |-> outbox[r]]
        /\ UNCHANGED <<subs, emit, poller, history, faults>>

-----------------------------------------------------------------------------
PollerStep(p) ==
    \/ \E c \in poller[p].batch, a \in {"2xx", "error"} : deliverWebhook(p, c, a)
    \/ markDelivered(p) \/ markFailed(p) \/ suspend(p)

Next ==
    \/ \E u \in Users, s \in Subs :
         \/ \E f \in Filters : handleCreateSubscription(u, s, f)
         \/ handleDeleteSubscription(u, s) \/ handleResumeSubscription(u, s)
    \/ \E e \in Events : \/ SelectSubscriptions(e) \/ EmitFails(e)
                         \/ \E s \in Subs : InsertRow(e, s)
    \/ \E p \in Pollers : \/ \E B \in SUBSET Rows : claimOutboxBatch(p, B)
                          \/ PollerStep(p) \/ StatementFails(p) \/ Crash(p)
    \/ \E r \in Rows : Elapse(r)
    \/ cleanupOutbox

Spec == Init /\ [][Next]_vars

-----------------------------------------------------------------------------
Claim == [row : Rows, attempts : 0..(MaxAttempts - 1)]

SubRecords == [state : {"none", "active", "suspended", "deleted"},
               repo : {AnyRepo} \cup {f.repo : f \in Filters},
               types : {AllTypes} \cup {f.types : f \in Filters}, by : {Admin} \cup Users]
RowRecords == [attempts : 0..MaxAttempts, due : BOOLEAN, delivered : BOOLEAN]
PollerRecords == [pc : {"idle", "deliver", "ok", "failed", "suspend"},
                  batch : SUBSET Claim, row : Seq(Claim)]

(* Rows belong to subscriptions that exist, with attempts up to the limit;  *)
(* an event is on its way only to subscriptions that were there.            *)
TypeOK ==
    /\ subs \in [Subs -> SubRecords]
    /\ DOMAIN outbox \subseteq {r \in Rows : subs[r[2]].state \in {"active", "suspended"}}
    /\ \A r \in DOMAIN outbox : outbox[r] \in RowRecords
    /\ emit \in [Events -> [pc : {"new", "insert"}, ids : SUBSET Subs]]
    /\ \A e \in Events : \A s \in emit[e].ids : subs[s].state # "none"
    /\ poller \in [Pollers -> PollerRecords]
    /\ accepted \subseteq Rows /\ unreported \subseteq Rows
    /\ expired \subseteq Pollers \X Rows /\ resumed \subseteq Subs
    /\ faults \in 0..MaxFaults

(* A poller holds a row for one claim only, and goes to markDelivered only  *)
(* with a row whose endpoint has accepted it.                               *)
PollerFits(w, done) ==
    /\ w.row = <<>> <=> w.pc \in {"idle", "deliver"}
    /\ w.pc = "idle" => w.batch = {}
    /\ \A c, d \in w.batch : c.row = d.row => c = d
    /\ w.row # <<>> => w.row[1] \in Claim /\ \A c \in w.batch : c.row # w.row[1].row
    /\ w.pc = "ok" => w.row[1].row \in done
PollersFit == \A p \in Pollers : PollerFits(poller[p], accepted)

(* An event is queued for a subscription at most once: what is in the       *)
(* outbox, with a poller or accepted is no longer in the list of the Emit   *)
(* that selected it.                                                        *)
SentRows == {r \in Rows : emit[r[1]].pc = "insert" /\ r[2] \notin emit[r[1]].ids}
QueuedOnce ==
    /\ DOMAIN outbox \subseteq SentRows /\ accepted \subseteq SentRows
    /\ \A p \in Pollers : Holds(p) \subseteq SentRows

(* Two processes work on the same row only when the lease of one of them    *)
(* ran out while it was still busy: SKIP LOCKED and the in-flight mark.  A   *)
(* row that is due again although somebody holds it is such a row.          *)
OneHolderWithinLease ==
    /\ \A p, q \in Pollers : \A r \in Holds(p) \cap Holds(q) :
         p # q => (<<p, r>> \in expired \/ <<q, r>> \in expired)
    /\ \A p \in Pollers : \A r \in Holds(p) \cap DOMAIN outbox :
         outbox[r].due => <<p, r>> \in expired

(* A delivery given up for good can be seen on its subscription, which is   *)
(* suspended, unless somebody resumed it, the process has yet to write the  *)
(* suspension, or failed to write it: markFailed is two statements.         *)
GiveUpIsVisible ==
    \A r \in DOMAIN outbox :
        (outbox[r].attempts = MaxAttempts /\ ~outbox[r].delivered)
        => \/ subs[r[2]].state = "suspended"
           \/ r[2] \in resumed
           \/ r \in unreported
           \/ \E p \in Pollers : poller[p].pc = "suspend" /\ r = poller[p].row[1].row

Status(r) == IF r \notin DOMAIN outbox THEN "absent"
             ELSE IF outbox[r].delivered THEN "done"
             ELSE IF outbox[r].attempts >= MaxAttempts THEN "dead" ELSE "owed"

Closed == {s \in Subs : subs[s].state = "deleted"}

D == INSTANCE Delivery WITH Deliveries <- Rows, Channels <- Subs, ChannelOf <- [r \in Rows |-> r[2]],
                            status <- [r \in Rows |-> Status(r)], closed <- Closed

(* The outbox implements the promise of Delivery: a row is marked delivered *)
(* only after its endpoint accepted it, is never owed again after that, and *)
(* disappears only with its subscription or after delivery.                 *)
ImplementsDelivery == D!DSpec

(* Every queued delivery is settled: delivered, given up, or stopped with   *)
(* its subscription; processes that end and statements that fail delay it.  *)
EveryRowSettles ==
    \A r \in Rows : Status(r) = "owed" ~> (Status(r) # "owed" \/ subs[r[2]].state = "suspended")

(* Of every row of the outbox it is known who works on it, and a row nobody *)
(* will work on again shows on its subscription.                            *)
RowsAccountedFor == TypeOK /\ PollersFit /\ QueuedOnce /\ OneHolderWithinLease /\ GiveUpIsVisible
=============================================================================
