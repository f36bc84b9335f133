---------------------------- MODULE EventProofs -----------------------------
(***************************************************************************)
(* Theorems about the two ways an event leaves the server: the outbox of   *)
(* webhook deliveries and the event log.                                   *)
(***************************************************************************)
EXTENDS EventLog, Outbox, TLAPS

USE OutboxAssumption

-----------------------------------------------------------------------------
(* The outbox: what one poller's step leaves in order.                     *)

\* The pollers but p stay as they are.
LEMMA PollerMoves ==
    ASSUME TypeOK, PollersFit, NEW p \in Pollers, NEW w \in PollerRecords,
           poller' = [poller EXCEPT ![p] = w], PollerFits(w, accepted'), accepted \subseteq accepted'
    PROVE  /\ PollersFit' /\ poller' \in [Pollers -> PollerRecords]
           /\ poller'[p] = w /\ \A q \in Pollers : q # p => poller'[q] = poller[q]
<1>1. poller \in [Pollers -> PollerRecords]
    BY DEF TypeOK
<1>2. /\ poller' \in [Pollers -> PollerRecords]
      /\ poller'[p] = w /\ \A q \in Pollers : q # p => poller'[q] = poller[q]
    BY <1>1
<1>3. \A q \in Pollers : PollerFits(poller[q], accepted')
    BY DEF PollersFit, PollerFits
<1>4. \A q \in Pollers : PollerFits(poller'[q], accepted')
    BY <1>2, <1>3
<1> QED BY <1>2, <1>4 DEF PollersFit

\* Nobody comes to hold a row, and a row that becomes due while it is held, or
\* was due, is on the record of expired leases.
LeasesGoOn ==
    /\ \A q \in Pollers : Holds(q)' \subseteq Holds(q)
    /\ \A q \in Pollers : \A r \in Holds(q)' : <<q, r>> \in expired => <<q, r>> \in expired'
    /\ \A q \in Pollers : \A r \in Holds(q)' \cap DOMAIN outbox' :
         outbox'[r].due => <<q, r>> \in expired' \/ (r \in DOMAIN outbox /\ outbox[r].due)

(* Leases stay apart in a step in which pollers only let go of rows. *)
LEMMA LeasesHold ==
    ASSUME OneHolderWithinLease, LeasesGoOn
    PROVE  OneHolderWithinLease'
<1>1. ASSUME NEW p \in Pollers, NEW q \in Pollers, NEW r \in Holds(p)' \cap Holds(q)', p # q
      PROVE  <<p, r>> \in expired' \/ <<q, r>> \in expired'
    BY <1>1 DEF OneHolderWithinLease, LeasesGoOn
<1>2. ASSUME NEW p \in Pollers, NEW r \in Holds(p)' \cap DOMAIN outbox', outbox'[r].due
      PROVE  <<p, r>> \in expired'
    BY <1>2 DEF OneHolderWithinLease, LeasesGoOn
<1> QED BY <1>1, <1>2 DEF OneHolderWithinLease

\* No queued delivery goes back to the list of its Emit.
LEMMA StillSent ==
    ASSUME QueuedOnce, SentRows \subseteq SentRows', DOMAIN outbox' \subseteq SentRows',
           accepted' \subseteq SentRows', \A q \in Pollers : Holds(q)' \subseteq SentRows'
    PROVE  QueuedOnce'
BY DEF QueuedOnce

\* The poller that has done with its row: it keeps the others of its batch.
LEMMA ProceedFits ==
    ASSUME TypeOK, PollersFit, NEW p \in Pollers, poller[p].row # <<>>, Proceed(p)
    PROVE  \E w \in PollerRecords :
             /\ poller' = [poller EXCEPT ![p] = w] /\ \A done : PollerFits(w, done)
             /\ w.pc \in {"idle", "deliver"} /\ HeldBy(w) \subseteq HeldBy(poller[p])
             /\ poller[p].row[1].row \notin HeldBy(w)
<1>1. PICK v : v = poller[p]
    OBVIOUS
<1>2. v \in PollerRecords /\ PollerFits(v, accepted) /\ v.row # <<>>
    BY <1>1 DEF TypeOK, PollersFit
<1>3. v.batch \subseteq Claim /\ \A c \in v.batch : c.row # v.row[1].row
    BY <1>2 DEF PollerFits, PollerRecords
<1>4. CASE v.batch = {}
    <2>1. PICK w : w = Idle
        OBVIOUS
    <2>2. w.pc = "idle" /\ w.batch = {} /\ w.row = <<>>
        BY <2>1 DEF Idle
    <2>3. w \in PollerRecords
        BY <2>1 DEF Idle, PollerRecords
    <2>4. poller' = [poller EXCEPT ![p] = w]
        BY <1>1, <1>4, <2>1 DEF Proceed
    <2>5. HeldBy(w) = {}
        BY <2>2 DEF HeldBy
    <2>6. \A done : PollerFits(w, done)
        BY <2>2 DEF PollerFits
    <2> QED BY <2>2, <2>3, <2>4, <2>5, <2>6
<1>5. CASE v.batch # {}
    <2>1. PICK w : w = [v EXCEPT !.pc = "deliver", !.row = <<>>]
        OBVIOUS
    <2>2. w.pc = "deliver" /\ w.batch = v.batch /\ w.row = <<>>
        BY <1>2, <2>1 DEF PollerRecords
    <2>3. w \in PollerRecords
        <3>1. <<>> \in Seq(Claim)
            OBVIOUS
        <3> QED BY <1>2, <2>1, <3>1 DEF PollerRecords
    <2>4. poller' = [poller EXCEPT ![p] = w]
        BY <1>1, <1>5, <2>1 DEF Proceed
    <2>5. HeldBy(w) = {c.row : c \in v.batch}
        BY <2>2 DEF HeldBy
    <2>6. \A done : PollerFits(w, done)
        BY <1>2, <2>2 DEF PollerFits
    <2>7. HeldBy(w) \subseteq HeldBy(poller[p])
        BY <1>1, <2>5 DEF HeldBy
    <2> QED BY <1>1, <1>3, <2>2, <2>3, <2>4, <2>5, <2>6, <2>7
<1> QED BY <1>4, <1>5

-----------------------------------------------------------------------------
(* Requests on subscriptions, and Emit.                                    *)

\* The invariant's parts, and the types they need.
LEMMA RowsParts ==
    ASSUME RowsAccountedFor
    PROVE  /\ TypeOK /\ PollersFit /\ QueuedOnce /\ OneHolderWithinLease /\ GiveUpIsVisible
           /\ subs \in [Subs -> SubRecords] /\ poller \in [Pollers -> PollerRecords]
           /\ \A r \in DOMAIN outbox :
                /\ r \in Rows /\ r[1] \in Events /\ r[2] \in Subs /\ outbox[r] \in RowRecords
                /\ subs[r[2]].state \in {"active", "suspended"}
BY DEF RowsAccountedFor, TypeOK, Rows

\* Pollers, their history and the outbox keep as they are but for rows that go.
LEMMA LeasesUnmoved ==
    ASSUME RowsAccountedFor, UNCHANGED <<poller, expired>>, DOMAIN outbox' \subseteq DOMAIN outbox,
           \A r \in DOMAIN outbox' : outbox'[r] = outbox[r]
    PROVE  OneHolderWithinLease'
<1>1. \A q \in Pollers : Holds(q)' = Holds(q)
    BY DEF Holds
<1>2. LeasesGoOn
    BY <1>1 DEF LeasesGoOn
<1> QED BY <1>2, LeasesHold DEF RowsAccountedFor

(* The pollers fit to their rows as long as both stay as they are. *)
LEMMA PollersUnmoved ==
    ASSUME RowsAccountedFor, UNCHANGED <<poller, accepted>>
    PROVE  PollersFit' /\ \A q \in Pollers : Holds(q)' = Holds(q)
BY DEF RowsAccountedFor, PollersFit, Holds

\* handleCreateSubscription, handleResumeSubscription: no row depended on the
\* subscription not being active.
LEMMA SubscribeSound ==
    ASSUME RowsAccountedFor, NEW u \in Users, NEW s \in Subs,
           \/ \E f \in Filters : handleCreateSubscription(u, s, f)
           \/ handleResumeSubscription(u, s)
    PROVE  RowsAccountedFor'
<1>p. /\ TypeOK /\ PollersFit /\ QueuedOnce /\ OneHolderWithinLease /\ GiveUpIsVisible
      /\ subs \in [Subs -> SubRecords] /\ poller \in [Pollers -> PollerRecords]
      /\ \A r \in DOMAIN outbox :
           /\ r \in Rows /\ r[1] \in Events /\ r[2] \in Subs /\ outbox[r] \in RowRecords
           /\ subs[r[2]].state \in {"active", "suspended"}
    BY RowsParts
<1>1. PICK row \in SubRecords :
        /\ subs' = [subs EXCEPT ![s] = row] /\ row.state = "active"
        /\ \/ subs[s].state = "none" /\ resumed' = resumed
           \/ resumed' = resumed \cup {s}
    <2>1. ASSUME NEW f \in Filters, handleCreateSubscription(u, s, f)
          PROVE  \E row \in SubRecords :
                    /\ subs' = [subs EXCEPT ![s] = row] /\ row.state = "active"
                    /\ subs[s].state = "none" /\ resumed' = resumed
        <3>1. PICK row : row = [state |-> "active", repo |-> f.repo, types |-> f.types, by |-> u]
            OBVIOUS
        <3>2. row \in SubRecords /\ row.state = "active"
            BY <3>1 DEF SubRecords
        <3> QED BY <2>1, <3>1, <3>2 DEF handleCreateSubscription, CreateSubscription, history
    <2>2. ASSUME handleResumeSubscription(u, s)
          PROVE  \E row \in SubRecords :
                    /\ subs' = [subs EXCEPT ![s] = row] /\ row.state = "active"
                    /\ resumed' = resumed \cup {s}
        <3>1. PICK row : row = [subs[s] EXCEPT !.state = "active"]
            OBVIOUS
        <3>2. row \in SubRecords
            BY <1>p, <3>1 DEF SubRecords
        <3>3. row.state = "active"
            BY <1>p, <3>1 DEF SubRecords
        <3> QED BY <2>2, <3>1, <3>2, <3>3 DEF handleResumeSubscription, ResumeSubscription
    <2> QED BY <2>1, <2>2
<1>2. UNCHANGED <<outbox, emit, poller, accepted, expired, unreported, faults>>
    BY DEF handleCreateSubscription, handleResumeSubscription, history
<1>3. /\ subs' \in [Subs -> SubRecords] /\ subs'[s].state = "active"
      /\ \A t \in Subs : t # s => subs'[t] = subs[t]
    BY <1>p, <1>1
<1>4. TypeOK'
    <2>1. DOMAIN outbox \subseteq {r \in Rows : subs'[r[2]].state \in {"active", "suspended"}}
        BY <1>p, <1>3
    <2>2. \A e \in Events : \A t \in emit[e].ids : subs'[t].state # "none"
        BY <1>p, <1>3 DEF TypeOK
    <2> QED BY <1>p, <1>1, <1>2, <1>3, <2>1, <2>2 DEF TypeOK
<1>5. GiveUpIsVisible'
    <2> SUFFICES ASSUME NEW r \in DOMAIN outbox, outbox[r].attempts = MaxAttempts, ~outbox[r].delivered
                 PROVE  \/ subs'[r[2]].state = "suspended" \/ r[2] \in resumed' \/ r \in unreported
                        \/ \E p \in Pollers : poller[p].pc = "suspend" /\ r = poller[p].row[1].row
        BY <1>2 DEF GiveUpIsVisible
    <2>1. \/ subs[r[2]].state = "suspended" \/ r[2] \in resumed \/ r \in unreported
          \/ \E p \in Pollers : poller[p].pc = "suspend" /\ r = poller[p].row[1].row
        BY <1>p DEF GiveUpIsVisible
    <2>2. r[2] \in Subs
        BY <1>p
    <2> QED BY <1>1, <1>3, <2>1, <2>2, <1>p
<1>6. PollersFit' /\ QueuedOnce' /\ OneHolderWithinLease'
    <2>1. PollersFit' /\ \A q \in Pollers : Holds(q)' = Holds(q)
        BY <1>2, PollersUnmoved
    <2>2. SentRows' = SentRows
        BY <1>2 DEF SentRows
    <2> QED BY <1>p, <1>2, <2>1, <2>2, LeasesUnmoved DEF QueuedOnce
<1> QED BY <1>4, <1>5, <1>6 DEF RowsAccountedFor

\* handleDeleteSubscription and cleanupOutbox: rows go, and none with a
\* subscription that stays, but for delivered ones.
LEMMA RowsGo ==
    ASSUME RowsAccountedFor,
           \/ \E u \in Users, s \in Subs : handleDeleteSubscription(u, s)
           \/ cleanupOutbox
    PROVE  RowsAccountedFor'
<1>p. /\ TypeOK /\ PollersFit /\ QueuedOnce /\ OneHolderWithinLease /\ GiveUpIsVisible
      /\ subs \in [Subs -> SubRecords] /\ poller \in [Pollers -> PollerRecords]
      /\ \A r \in DOMAIN outbox :
           /\ r \in Rows /\ r[1] \in Events /\ r[2] \in Subs /\ outbox[r] \in RowRecords
           /\ subs[r[2]].state \in {"active", "suspended"}
    BY RowsParts
<1>1. UNCHANGED <<emit, poller, accepted, expired, resumed, unreported, faults>>
    BY DEF handleDeleteSubscription, cleanupOutbox, history
<1>2. /\ subs' \in [Subs -> SubRecords] /\ DOMAIN outbox' \subseteq DOMAIN outbox
      /\ \A r \in DOMAIN outbox' : outbox'[r] = outbox[r] /\ subs'[r[2]].state = subs[r[2]].state
      /\ \A t \in Subs : subs[t].state # "none" => subs'[t].state # "none"
    <2>1. ASSUME NEW u \in Users, NEW s \in Subs, handleDeleteSubscription(u, s)
          PROVE  /\ subs' \in [Subs -> SubRecords] /\ DOMAIN outbox' \subseteq DOMAIN outbox
                 /\ \A r \in DOMAIN outbox' : outbox'[r] = outbox[r] /\ subs'[r[2]].state = subs[r[2]].state
                 /\ \A t \in Subs : subs[t].state # "none" => subs'[t].state # "none"
        <3>1. PICK row : row = [subs[s] EXCEPT !.state = "deleted"]
            OBVIOUS
        <3>2. row \in SubRecords
            BY <1>p, <3>1 DEF SubRecords
        <3>3. row.state = "deleted"
            BY <1>p, <3>1 DEF SubRecords
        <3>4. /\ subs' = [subs EXCEPT ![s] = row]
              /\ outbox' = [r \in {x \in DOMAIN outbox : x[2] # s} |-> outbox[r]]
            BY <2>1, <3>1 DEF handleDeleteSubscription, DeleteSubscription
        <3> QED BY <1>p, <3>2, <3>3, <3>4
    <2>2. ASSUME cleanupOutbox
          PROVE  /\ subs' \in [Subs -> SubRecords] /\ DOMAIN outbox' \subseteq DOMAIN outbox
                 /\ \A r \in DOMAIN outbox' : outbox'[r] = outbox[r] /\ subs'[r[2]].state = subs[r[2]].state
                 /\ \A t \in Subs : subs[t].state # "none" => subs'[t].state # "none"
        BY <1>p, <2>2 DEF cleanupOutbox
    <2> QED BY <2>1, <2>2
<1>3. TypeOK'
    BY <1>p, <1>1, <1>2 DEF TypeOK
<1>4. GiveUpIsVisible'
    BY <1>p, <1>1, <1>2 DEF GiveUpIsVisible
<1>5. PollersFit' /\ QueuedOnce' /\ OneHolderWithinLease'
    <2>1. PollersFit' /\ \A q \in Pollers : Holds(q)' = Holds(q)
        BY <1>1, PollersUnmoved
    <2>2. SentRows' = SentRows
        BY <1>1 DEF SentRows
    <2> QED BY <1>p, <1>1, <1>2, <2>1, <2>2, LeasesUnmoved DEF QueuedOnce
<1> QED BY <1>3, <1>4, <1>5 DEF RowsAccountedFor

\* Emit's list: SelectSubscriptions makes it, and an Emit that ends drops what
\* is left; it never comes back to what it has sent.
LEMMA SelectSound ==
    ASSUME RowsAccountedFor, NEW e \in Events, SelectSubscriptions(e) \/ EmitFails(e)
    PROVE  RowsAccountedFor'
<1>p. /\ TypeOK /\ PollersFit /\ QueuedOnce /\ OneHolderWithinLease /\ GiveUpIsVisible
    BY RowsParts
<1>1. /\ UNCHANGED <<subs, outbox, poller, accepted, expired, resumed, unreported>>
      /\ faults' \in 0..MaxFaults
    BY <1>p DEF SelectSubscriptions, EmitFails, history, Fault, TypeOK
<1>2. PICK m \in [pc : {"new", "insert"}, ids : SUBSET Subs] :
        /\ emit' = [emit EXCEPT ![e] = m] /\ m.pc = "insert"
        /\ emit[e].pc = "insert" => m.ids \subseteq emit[e].ids
        /\ \A s \in m.ids : subs[s].state # "none"
    <2>1. CASE SelectSubscriptions(e)
        <3>1. PICK m : m = [pc |-> "insert", ids |-> {s \in Subs : Matches(e, s)}]
            OBVIOUS
        <3>2. m \in [pc : {"new", "insert"}, ids : SUBSET Subs]
            BY <3>1
        <3>3. m.pc = "insert" /\ \A s \in m.ids : subs[s].state # "none"
            BY <3>1 DEF Matches
        <3> QED BY <2>1, <3>1, <3>2, <3>3 DEF SelectSubscriptions
    <2>2. CASE EmitFails(e)
        <3>1. PICK left \in SUBSET emit[e].ids : emit' = [emit EXCEPT ![e].ids = left]
            BY <2>2 DEF EmitFails
        <3>2. PICK m : m = [emit[e] EXCEPT !.ids = left]
            OBVIOUS
        <3>3. emit[e] \in [pc : {"new", "insert"}, ids : SUBSET Subs]
            BY <1>p DEF TypeOK
        <3>4. m \in [pc : {"new", "insert"}, ids : SUBSET Subs]
            BY <3>2, <3>3
        <3>5. m.pc = emit[e].pc /\ m.ids = left
            BY <3>2, <3>3
        <3>6. emit[e].pc = "insert" /\ emit' = [emit EXCEPT ![e] = m]
            BY <2>2, <3>1, <3>2 DEF EmitFails
        <3> QED BY <1>p, <3>4, <3>5, <3>6 DEF TypeOK
    <2> QED BY <2>1, <2>2
<1>3. /\ emit' \in [Events -> [pc : {"new", "insert"}, ids : SUBSET Subs]]
      /\ emit'[e] = m /\ \A d \in Events : d # e => emit'[d] = emit[d]
    BY <1>p, <1>2 DEF TypeOK
<1>4. TypeOK'
    <2>1. \A d \in Events : \A s \in emit'[d].ids : subs[s].state # "none"
        BY <1>p, <1>2, <1>3 DEF TypeOK
    <2> QED BY <1>p, <1>1, <1>3, <2>1 DEF TypeOK
<1>5. SentRows \subseteq SentRows'
    BY <1>2, <1>3 DEF SentRows, Rows
<1>6. PollersFit' /\ QueuedOnce' /\ OneHolderWithinLease'
    <2>1. PollersFit' /\ \A q \in Pollers : Holds(q)' = Holds(q)
        BY <1>1, PollersUnmoved
    <2> QED BY <1>p, <1>1, <1>5, <2>1, LeasesUnmoved DEF QueuedOnce
<1>7. GiveUpIsVisible'
    BY <1>p, <1>1 DEF GiveUpIsVisible
<1> QED BY <1>4, <1>6, <1>7 DEF RowsAccountedFor

\* InsertRow: the row is new, so nobody holds it although it is due.
LEMMA InsertSound ==
    ASSUME RowsAccountedFor, NEW e \in Events, NEW s \in Subs, InsertRow(e, s)
    PROVE  RowsAccountedFor'
<1>p. /\ TypeOK /\ PollersFit /\ QueuedOnce /\ OneHolderWithinLease /\ GiveUpIsVisible
      /\ subs \in [Subs -> SubRecords]
      /\ \A r \in DOMAIN outbox :
           /\ r \in Rows /\ r[1] \in Events /\ r[2] \in Subs /\ outbox[r] \in RowRecords
           /\ subs[r[2]].state \in {"active", "suspended"}
    BY RowsParts
<1>1. /\ UNCHANGED <<subs, poller, accepted, expired, resumed, unreported, faults>>
      /\ emit[e].pc = "insert" /\ s \in emit[e].ids
    BY DEF InsertRow, history
<1>2. PICK m : m = [emit[e] EXCEPT !.ids = @ \ {s}]
    OBVIOUS
<1>3. emit[e] \in [pc : {"new", "insert"}, ids : SUBSET Subs]
    BY <1>p DEF TypeOK
<1>4. m \in [pc : {"new", "insert"}, ids : SUBSET Subs]
    BY <1>2, <1>3
<1>5. m.pc = "insert" /\ m.ids = emit[e].ids \ {s}
    BY <1>1, <1>2, <1>3
<1>6. emit' = [emit EXCEPT ![e] = m]
    BY <1>2 DEF InsertRow
<1>7. /\ emit' \in [Events -> [pc : {"new", "insert"}, ids : SUBSET Subs]]
      /\ emit'[e] = m /\ \A d \in Events : d # e => emit'[d] = emit[d]
    BY <1>p, <1>4, <1>6 DEF TypeOK
<1>8. SentRows \subseteq SentRows' /\ <<e, s>> \in SentRows' /\ <<e, s>> \notin SentRows
    BY <1>1, <1>5, <1>7 DEF SentRows, Rows
<1>9. PICK row : row = [attempts |-> 0, due |-> TRUE, delivered |-> FALSE]
    OBVIOUS
<1>d. row \in RowRecords /\ row.attempts = 0
    BY <1>9 DEF RowRecords
<1>10. subs[s].state \in {"active", "suspended", "deleted"}
    BY <1>p, <1>1 DEF TypeOK, SubRecords
<1>11. PICK x : x = <<e, s>>
    OBVIOUS
<1>12. x \in Rows /\ x[2] = s /\ x \notin DOMAIN outbox /\ \A q \in Pollers : x \notin Holds(q)
    BY <1>p, <1>8, <1>11 DEF Rows, QueuedOnce
<1>13. \/ outbox' = outbox
       \/ /\ subs[s].state # "deleted"
          /\ outbox' = [r \in DOMAIN outbox \cup {x} |-> IF r = x THEN row ELSE outbox[r]]
    BY <1>9, <1>11 DEF InsertRow
<1>14. /\ DOMAIN outbox' \subseteq DOMAIN outbox \cup {x}
       /\ \A r \in DOMAIN outbox' : (r \in DOMAIN outbox /\ outbox'[r] = outbox[r]) \/ (r = x /\ outbox'[r] = row)
       /\ x \in DOMAIN outbox' => subs[s].state # "deleted"
    BY <1>12, <1>13
<1>15. TypeOK'
    <2>1. \A d \in Events : \A t \in emit'[d].ids : subs[t].state # "none"
        BY <1>p, <1>5, <1>7 DEF TypeOK
    <2>2. DOMAIN outbox' \subseteq {r \in Rows : subs[r[2]].state \in {"active", "suspended"}}
        BY <1>p, <1>10, <1>12, <1>14
    <2>3. \A r \in DOMAIN outbox' : outbox'[r] \in RowRecords
        BY <1>p, <1>d, <1>14
    <2> QED BY <1>p, <1>1, <1>7, <2>1, <2>2, <2>3 DEF TypeOK
<1>16. PollersFit' /\ \A q \in Pollers : Holds(q)' = Holds(q)
    BY <1>1, PollersUnmoved
<1>17. QueuedOnce'
    BY <1>p, <1>1, <1>8, <1>11, <1>14, <1>16 DEF QueuedOnce
<1>18. OneHolderWithinLease'
    <2>1. LeasesGoOn
        BY <1>1, <1>12, <1>14, <1>16 DEF LeasesGoOn
    <2> QED BY <1>p, <2>1, LeasesHold
<1>19. GiveUpIsVisible'
    <2>1. row.attempts # MaxAttempts
        BY <1>d
    <2> QED BY <1>p, <1>1, <1>14, <2>1 DEF GiveUpIsVisible
<1> QED BY <1>15, <1>16, <1>17, <1>18, <1>19 DEF RowsAccountedFor

\* Elapse: whoever holds the row goes on the record.
LEMMA ElapseSound ==
    ASSUME RowsAccountedFor, NEW r \in Rows, Elapse(r)
    PROVE  RowsAccountedFor'
<1>p. /\ TypeOK /\ PollersFit /\ QueuedOnce /\ OneHolderWithinLease /\ GiveUpIsVisible
      /\ \A x \in DOMAIN outbox :
           /\ x \in Rows /\ x[1] \in Events /\ x[2] \in Subs /\ outbox[x] \in RowRecords
           /\ subs[x[2]].state \in {"active", "suspended"}
    BY RowsParts
<1>1. /\ UNCHANGED <<subs, emit, poller, accepted, resumed, unreported, faults>>
      /\ expired' = expired \cup {<<p, r>> : p \in {q \in Pollers : r \in Holds(q)}}
      /\ r \in DOMAIN outbox
    BY DEF Elapse
<1>2. PICK row : row = [outbox[r] EXCEPT !.due = TRUE]
    OBVIOUS
<1>3. row \in RowRecords
    BY <1>p, <1>1, <1>2 DEF RowRecords
<1>4. row.attempts = outbox[r].attempts /\ row.delivered = outbox[r].delivered
    BY <1>p, <1>1, <1>2 DEF RowRecords
<1>5. outbox' = [outbox EXCEPT ![r] = row]
    BY <1>2 DEF Elapse
<1>6. /\ DOMAIN outbox' = DOMAIN outbox /\ outbox'[r] = row
      /\ \A x \in DOMAIN outbox : x # r => outbox'[x] = outbox[x]
    BY <1>1, <1>5
<1>7. TypeOK'
    <2>1. \A x \in DOMAIN outbox' : outbox'[x] \in RowRecords
        BY <1>p, <1>3, <1>6
    <2>2. expired' \subseteq Pollers \X Rows
        BY <1>p, <1>1 DEF TypeOK
    <2> QED BY <1>p, <1>1, <1>6, <2>1, <2>2 DEF TypeOK
<1>8. PollersFit' /\ \A q \in Pollers : Holds(q)' = Holds(q)
    BY <1>1, PollersUnmoved
<1>9. QueuedOnce'
    BY <1>p, <1>1, <1>6, <1>8 DEF QueuedOnce, SentRows
<1>10. OneHolderWithinLease'
    <2>1. \A q \in Pollers : r \in Holds(q) => <<q, r>> \in expired'
        BY <1>1
    <2>2. LeasesGoOn
        BY <1>1, <1>6, <1>8, <2>1 DEF LeasesGoOn
    <2> QED BY <1>p, <2>2, LeasesHold
<1>11. GiveUpIsVisible'
    BY <1>p, <1>1, <1>4, <1>6 DEF GiveUpIsVisible
<1> QED BY <1>7, <1>8, <1>9, <1>10, <1>11 DEF RowsAccountedFor

-----------------------------------------------------------------------------
(* The pollers.                                                            *)

\* claimOutboxBatch: the rows it takes are due, so whoever else holds one has
\* outlived its lease.
LEMMA ClaimSound ==
    ASSUME RowsAccountedFor, NEW p \in Pollers, NEW B \in SUBSET Rows, claimOutboxBatch(p, B)
    PROVE  RowsAccountedFor'
<1>p. /\ TypeOK /\ PollersFit /\ QueuedOnce /\ OneHolderWithinLease /\ GiveUpIsVisible
      /\ \A r \in DOMAIN outbox :
           /\ r \in Rows /\ r[1] \in Events /\ r[2] \in Subs /\ outbox[r] \in RowRecords
           /\ subs[r[2]].state \in {"active", "suspended"}
    BY RowsParts
<1>1. /\ poller[p].pc = "idle" /\ B \subseteq Claimable
      /\ UNCHANGED <<subs, emit, accepted, expired, resumed, unreported, faults>>
      /\ outbox' = [r \in DOMAIN outbox |->
                      IF r \in B THEN [outbox[r] EXCEPT !.due = FALSE] ELSE outbox[r]]
    BY DEF claimOutboxBatch, history
<1>2. \A r \in B : r \in DOMAIN outbox /\ outbox[r].due /\ outbox[r].attempts \in 0..(MaxAttempts - 1)
    <2> SUFFICES ASSUME NEW r \in B
                 PROVE  r \in DOMAIN outbox /\ outbox[r].due /\ outbox[r].attempts \in 0..(MaxAttempts - 1)
        OBVIOUS
    <2>1. r \in DOMAIN outbox /\ outbox[r].due /\ outbox[r].attempts < MaxAttempts
        BY <1>1 DEF Claimable
    <2>2. outbox[r].attempts \in 0..MaxAttempts
        BY <1>p, <2>1 DEF RowRecords
    <2> QED BY <2>1, <2>2
<1>3. PICK w : w = [Idle EXCEPT !.pc = "deliver",
                      !.batch = {[row |-> r, attempts |-> outbox[r].attempts] : r \in B}]
    OBVIOUS
<1>4. w.pc = "deliver" /\ w.row = <<>> /\ w.batch = {[row |-> r, attempts |-> outbox[r].attempts] : r \in B}
    BY <1>3 DEF Idle
<1>5. w.batch \subseteq Claim
    BY <1>2, <1>4 DEF Claim
<1>6. w \in PollerRecords
    <2>1. w.batch \in SUBSET Claim /\ w = [Idle EXCEPT !.pc = "deliver", !.batch = w.batch]
        BY <1>3, <1>4, <1>5
    <2>2. Idle \in PollerRecords
        BY DEF Idle, PollerRecords
    <2> QED BY <2>1, <2>2 DEF PollerRecords
<1>7. PollerFits(w, accepted')
    <2>1. \A c, d \in w.batch : c.row = d.row => c = d
        BY <1>4
    <2> QED BY <1>4, <2>1 DEF PollerFits
<1>8. poller' = [poller EXCEPT ![p] = w]
    BY <1>3 DEF claimOutboxBatch
<1>9. /\ PollersFit' /\ poller' \in [Pollers -> PollerRecords]
      /\ poller'[p] = w /\ \A q \in Pollers : q # p => poller'[q] = poller[q]
    <2>1. accepted \subseteq accepted'
        BY <1>1
    <2> QED BY <1>p, <1>6, <1>7, <1>8, <2>1, PollerMoves
<1>10. Holds(p)' = B /\ \A q \in Pollers : q # p => Holds(q)' = Holds(q)
    <2>1. HeldBy(w) = B
        <3>1. \A r \in B : \E c \in w.batch : c.row = r
            <4> SUFFICES ASSUME NEW r \in B PROVE \E c \in w.batch : c.row = r
                OBVIOUS
            <4>1. PICK c : c = [row |-> r, attempts |-> outbox[r].attempts]
                OBVIOUS
            <4>2. c \in w.batch /\ c.row = r
                BY <1>4, <4>1
            <4> QED BY <4>2
        <3>2. \A c \in w.batch : c.row \in B
            BY <1>4
        <3>3. HeldBy(w) = {c.row : c \in w.batch}
            BY <1>4 DEF HeldBy
        <3> QED BY <3>1, <3>2, <3>3
    <2> QED BY <1>9, <2>1 DEF Holds
<1>11. /\ DOMAIN outbox' = DOMAIN outbox
       /\ \A r \in DOMAIN outbox :
            /\ outbox'[r] \in RowRecords /\ outbox'[r].attempts = outbox[r].attempts
            /\ outbox'[r].delivered = outbox[r].delivered
            /\ r \in B => ~outbox'[r].due
            /\ r \notin B => outbox'[r] = outbox[r]
    <2>1. DOMAIN outbox' = DOMAIN outbox
        BY <1>1
    <2> SUFFICES ASSUME NEW r \in DOMAIN outbox
                 PROVE  /\ outbox'[r] \in RowRecords /\ outbox'[r].attempts = outbox[r].attempts
                        /\ outbox'[r].delivered = outbox[r].delivered
                        /\ r \in B => ~outbox'[r].due
                        /\ r \notin B => outbox'[r] = outbox[r]
        BY <2>1
    <2>2. CASE r \in B
        <3>1. PICK row : row = [outbox[r] EXCEPT !.due = FALSE]
            OBVIOUS
        <3>2. outbox'[r] = row /\ outbox[r] \in RowRecords
            BY <1>p, <1>1, <2>2, <3>1
        <3>3. row \in RowRecords
            BY <3>1, <3>2 DEF RowRecords
        <3>4. row.attempts = outbox[r].attempts /\ row.delivered = outbox[r].delivered /\ row.due = FALSE
            BY <3>1, <3>2 DEF RowRecords
        <3> QED BY <2>2, <3>2, <3>3, <3>4
    <2>3. CASE r \notin B
        BY <1>p, <1>1, <2>3
    <2> QED BY <2>2, <2>3
<1>12. TypeOK'
    <2>1. \A r \in DOMAIN outbox' : outbox'[r] \in RowRecords
        BY <1>11
    <2> QED BY <1>p, <1>1, <1>9, <1>11, <2>1 DEF TypeOK
<1>13. QueuedOnce'
    <2>1. SentRows' = SentRows
        BY <1>1 DEF SentRows
    <2> QED BY <1>p, <1>1, <1>2, <1>10, <1>11, <2>1 DEF QueuedOnce
<1>14. OneHolderWithinLease'
    <2>1. \A q \in Pollers : \A r \in B \cap Holds(q) : <<q, r>> \in expired
        BY <1>p, <1>2 DEF OneHolderWithinLease
    <2>2. ASSUME NEW x \in Pollers, NEW y \in Pollers, NEW r \in Holds(x)' \cap Holds(y)', x # y
          PROVE  <<x, r>> \in expired' \/ <<y, r>> \in expired'
        BY <1>p, <1>1, <1>10, <2>1, <2>2 DEF OneHolderWithinLease
    <2>3. ASSUME NEW x \in Pollers, NEW r \in Holds(x)' \cap DOMAIN outbox', outbox'[r].due
          PROVE  <<x, r>> \in expired'
        BY <1>p, <1>1, <1>10, <1>11, <2>3 DEF OneHolderWithinLease
    <2> QED BY <2>2, <2>3 DEF OneHolderWithinLease
<1>15. GiveUpIsVisible'
    <2>1. \A q \in Pollers : poller[q].pc = "suspend" => poller'[q] = poller[q]
        BY <1>1, <1>9
    <2> QED BY <1>p, <1>1, <1>11, <2>1 DEF GiveUpIsVisible
<1> QED BY <1>9, <1>12, <1>13, <1>14, <1>15 DEF RowsAccountedFor

\* deliverWebhook: the row moves from the batch to the one at hand.
LEMMA DeliverSound ==
    ASSUME RowsAccountedFor, NEW p \in Pollers, NEW c \in poller[p].batch, NEW answer \in {"2xx", "error"},
           deliverWebhook(p, c, answer)
    PROVE  RowsAccountedFor'
<1>p. /\ TypeOK /\ PollersFit /\ QueuedOnce /\ OneHolderWithinLease /\ GiveUpIsVisible
    BY RowsParts
<1>0. PICK v : v = poller[p]
    OBVIOUS
<1>1. /\ v \in PollerRecords /\ PollerFits(v, accepted) /\ v.pc = "deliver" /\ v.row = <<>>
      /\ v.batch \subseteq Claim /\ c \in v.batch /\ c \in Claim
    BY <1>p, <1>0 DEF TypeOK, PollerRecords, deliverWebhook, PollersFit, PollerFits
<1>2. /\ UNCHANGED <<subs, outbox, emit, expired, resumed, unreported, faults>>
      /\ accepted' = accepted \/ accepted' = accepted \cup {c.row}
      /\ answer = "2xx" => c.row \in accepted'
    BY DEF deliverWebhook
<1>3. PICK pc : pc = (IF answer = "2xx" THEN "ok" ELSE "failed")
    OBVIOUS
<1>4. PICK w : w = [pc |-> pc, batch |-> v.batch \ {c}, row |-> <<c>>]
    OBVIOUS
<1>5. w.pc = pc /\ w.batch = v.batch \ {c} /\ w.row = <<c>> /\ w.row # <<>> /\ w.row[1] = c
    BY <1>4
<1>6. w \in PollerRecords
    <2>1. <<c>> \in Seq(Claim) /\ (v.batch \ {c}) \in SUBSET Claim
        BY <1>1
    <2>2. pc \in {"ok", "failed"}
        BY <1>3
    <2> QED BY <1>4, <2>1, <2>2 DEF PollerRecords
<1>7. PollerFits(w, accepted')
    <2>1. \A d \in v.batch : d.row = c.row => d = c
        BY <1>1 DEF PollerFits
    <2> QED BY <1>1, <1>2, <1>3, <1>5, <2>1 DEF PollerFits
<1>8. poller' = [poller EXCEPT ![p] = w]
    BY <1>0, <1>3, <1>4 DEF deliverWebhook
<1>9. /\ PollersFit' /\ poller' \in [Pollers -> PollerRecords]
      /\ poller'[p] = w /\ \A q \in Pollers : q # p => poller'[q] = poller[q]
    <2>1. accepted \subseteq accepted'
        BY <1>2
    <2> QED BY <1>p, <1>6, <1>7, <1>8, <2>1, PollerMoves
<1>10. \A q \in Pollers : Holds(q)' \subseteq Holds(q)
    <2>1. HeldBy(w) \subseteq HeldBy(v)
        BY <1>1, <1>5 DEF HeldBy
    <2> QED BY <1>0, <1>9, <2>1 DEF Holds
<1>11. c.row \in Holds(p) /\ c.row \in Rows
    BY <1>0, <1>1 DEF Holds, HeldBy, Claim
<1>12. TypeOK'
    BY <1>p, <1>2, <1>9, <1>11 DEF TypeOK
<1>13. QueuedOnce'
    <2>1. SentRows' = SentRows
        BY <1>2 DEF SentRows
    <2> QED BY <1>p, <1>2, <1>10, <1>11, <2>1 DEF QueuedOnce
<1>14. OneHolderWithinLease'
    <2>1. LeasesGoOn
        BY <1>2, <1>10 DEF LeasesGoOn
    <2> QED BY <1>p, <2>1, LeasesHold
<1>15. GiveUpIsVisible'
    <2>1. \A q \in Pollers : poller[q].pc = "suspend" => poller'[q] = poller[q]
        BY <1>0, <1>1, <1>9
    <2> QED BY <1>p, <1>2, <2>1 DEF GiveUpIsVisible
<1> QED BY <1>9, <1>12, <1>13, <1>14, <1>15 DEF RowsAccountedFor

\* What is given up stays visible when poller p moves on to w: subscriptions are
\* suspended or stay as they are, and p leaves its suspension only written or
\* on the record.
GiveUpGoesOn(p, w) ==
    \A r \in DOMAIN outbox' :
        (outbox'[r].attempts = MaxAttempts /\ ~outbox'[r].delivered) =>
            \/ subs'[r[2]].state = "suspended"
            \/ w.pc = "suspend" /\ r = w.row[1].row
            \/ r \in unreported'
            \/ /\ r \in DOMAIN outbox /\ outbox[r].attempts = MaxAttempts /\ ~outbox[r].delivered
               /\ subs'[r[2]] = subs[r[2]] /\ (r[2] \in resumed => r[2] \in resumed')
               /\ ~(poller[p].pc = "suspend" /\ r = poller[p].row[1].row)

\* A step of poller p that has a row at hand: it keeps the rows of its batch, or
\* keeps them all while it goes on to the suspension.
LEMMA PollerSound ==
    ASSUME RowsAccountedFor, NEW p \in Pollers, NEW w \in PollerRecords,
           poller' = [poller EXCEPT ![p] = w], PollerFits(w, accepted),
           UNCHANGED <<emit, accepted>>,
           HeldBy(w) \subseteq HeldBy(poller[p]),
           \A x \in expired : x \in expired' \/ (x[1] = p /\ x[2] \notin HeldBy(w)),
           DOMAIN outbox' = DOMAIN outbox,
           \A r \in DOMAIN outbox : outbox'[r] \in RowRecords /\ (outbox'[r].due => outbox[r].due),
           subs' \in [Subs -> SubRecords],
           \A s \in Subs : subs'[s].state = subs[s].state \/ (subs'[s].state = "suspended" /\ subs[s].state # "deleted"),
           expired' \subseteq Pollers \X Rows, resumed' \subseteq Subs, unreported' \subseteq Rows,
           faults' \in 0..MaxFaults, unreported \subseteq unreported', GiveUpGoesOn(p, w)
    PROVE  RowsAccountedFor'
<1>p. /\ TypeOK /\ PollersFit /\ QueuedOnce /\ OneHolderWithinLease /\ GiveUpIsVisible
      /\ \A r \in DOMAIN outbox :
           /\ r \in Rows /\ r[1] \in Events /\ r[2] \in Subs /\ outbox[r] \in RowRecords
           /\ subs[r[2]].state \in {"active", "suspended"}
    BY RowsParts
<1>1. /\ PollersFit' /\ poller' \in [Pollers -> PollerRecords]
      /\ poller'[p] = w /\ \A q \in Pollers : q # p => poller'[q] = poller[q]
    <2>1. accepted \subseteq accepted' /\ PollerFits(w, accepted')
        OBVIOUS
    <2> QED BY <1>p, <2>1, PollerMoves
<1>2. Holds(p)' = HeldBy(w) /\ \A q \in Pollers : q # p => Holds(q)' = Holds(q)
    BY <1>1 DEF Holds
<1>3. OneHolderWithinLease'
    <2>1. \A q \in Pollers : Holds(q)' \subseteq Holds(q)
        BY <1>2 DEF Holds
    <2>2. \A q \in Pollers : \A r \in Holds(q)' : <<q, r>> \in expired => <<q, r>> \in expired'
        <3> SUFFICES ASSUME NEW q \in Pollers, NEW r \in Holds(q)', <<q, r>> \in expired
                     PROVE  <<q, r>> \in expired'
            OBVIOUS
        <3>1. <<q, r>> \in expired' \/ (q = p /\ r \notin HeldBy(w))
            OBVIOUS
        <3> QED BY <1>2, <3>1
    <2>3. LeasesGoOn
        BY <2>1, <2>2 DEF LeasesGoOn
    <2> QED BY <1>p, <2>3, LeasesHold
<1>4. QueuedOnce'
    <2>1. SentRows' = SentRows
        BY DEF SentRows
    <2>2. \A q \in Pollers : Holds(q)' \subseteq Holds(q)
        BY <1>2 DEF Holds
    <2> QED BY <1>p, <2>1, <2>2 DEF QueuedOnce
<1>5. TypeOK'
    <2>1. DOMAIN outbox' \subseteq {r \in Rows : subs'[r[2]].state \in {"active", "suspended"}}
        BY <1>p
    <2>2. \A e \in Events : \A s \in emit[e].ids : subs'[s].state # "none"
        <3> SUFFICES ASSUME NEW e \in Events, NEW s \in emit[e].ids PROVE subs'[s].state # "none"
            OBVIOUS
        <3>1. s \in Subs /\ subs[s].state # "none"
            BY <1>p DEF TypeOK
        <3> QED BY <3>1
    <2> QED BY <1>p, <1>1, <2>1, <2>2 DEF TypeOK
<1>6. GiveUpIsVisible'
    <2> SUFFICES ASSUME NEW r \in DOMAIN outbox', outbox'[r].attempts = MaxAttempts, ~outbox'[r].delivered
                 PROVE  \/ subs'[r[2]].state = "suspended" \/ r[2] \in resumed' \/ r \in unreported'
                        \/ \E q \in Pollers : poller'[q].pc = "suspend" /\ r = poller'[q].row[1].row
        BY DEF GiveUpIsVisible
    <2>1. CASE w.pc = "suspend" /\ r = w.row[1].row
        BY <1>1, <2>1
    <2>2. CASE /\ r \in DOMAIN outbox /\ outbox[r].attempts = MaxAttempts /\ ~outbox[r].delivered
               /\ subs'[r[2]] = subs[r[2]] /\ (r[2] \in resumed => r[2] \in resumed')
               /\ ~(poller[p].pc = "suspend" /\ r = poller[p].row[1].row)
        <3>1. \/ subs[r[2]].state = "suspended" \/ r[2] \in resumed \/ r \in unreported
              \/ \E q \in Pollers : poller[q].pc = "suspend" /\ r = poller[q].row[1].row
            BY <1>p, <2>2 DEF GiveUpIsVisible
        <3> QED BY <1>1, <2>2, <3>1
    <2> QED BY <2>1, <2>2 DEF GiveUpGoesOn
<1> QED BY <1>1, <1>3, <1>4, <1>5, <1>6 DEF RowsAccountedFor

\* The row at hand.
LEMMA AtHand ==
    ASSUME RowsAccountedFor, NEW p \in Pollers, poller[p].pc \in {"ok", "failed", "suspend"}
    PROVE  /\ poller[p].row # <<>> /\ poller[p].row[1] \in Claim /\ poller[p].row[1].row \in Rows
           /\ poller[p].row[1].row[2] \in Subs /\ poller[p].row[1].attempts \in 0..(MaxAttempts - 1)
           /\ poller[p] \in PollerRecords /\ PollerFits(poller[p], accepted)
<1>1. TypeOK /\ PollersFit
    BY RowsParts
<1>2. /\ poller[p].row # <<>> /\ poller[p].row[1] \in Claim
      /\ poller[p] \in PollerRecords /\ PollerFits(poller[p], accepted)
    BY <1>1 DEF TypeOK, PollersFit, PollerFits
<1>3. poller[p].row[1].row \in Rows /\ poller[p].row[1].attempts \in 0..(MaxAttempts - 1)
    BY <1>2 DEF Claim
<1> QED BY <1>2, <1>3 DEF Rows

\* Proceed, in the terms of PollerSound.
LEMMA ProceedMoves ==
    ASSUME RowsAccountedFor, NEW p \in Pollers, poller[p].pc \in {"ok", "failed", "suspend"}, Proceed(p)
    PROVE  /\ expired' \subseteq Pollers \X Rows
           /\ \E w \in PollerRecords :
                /\ poller' = [poller EXCEPT ![p] = w] /\ PollerFits(w, accepted)
                /\ w.pc # "suspend" /\ HeldBy(w) \subseteq HeldBy(poller[p])
                /\ \A x \in expired : x \in expired' \/ (x[1] = p /\ x[2] \notin HeldBy(w))
<1>1. TypeOK /\ PollersFit /\ poller[p].row # <<>>
    BY RowsParts, AtHand
<1>2. PICK w \in PollerRecords :
             /\ poller' = [poller EXCEPT ![p] = w] /\ \A done : PollerFits(w, done)
             /\ w.pc \in {"idle", "deliver"} /\ HeldBy(w) \subseteq HeldBy(poller[p])
             /\ poller[p].row[1].row \notin HeldBy(w)
    BY <1>1, ProceedFits
<1>3. PICK y : y = poller[p].row[1].row
    OBVIOUS
<1>4. expired' = expired \ {<<p, y>>} /\ y \notin HeldBy(w)
    BY <1>2, <1>3 DEF Proceed
<1>5. \A x \in expired : x \in expired' \/ (x[1] = p /\ x[2] \notin HeldBy(w))
    BY <1>4
<1>6. expired' \subseteq Pollers \X Rows
    BY <1>1, <1>4 DEF TypeOK
<1> QED BY <1>2, <1>5, <1>6

\* markFailed and its failure, on to the suspension.
LEMMA SuspendNext ==
    ASSUME RowsAccountedFor, NEW p \in Pollers, poller[p].pc = "failed",
           poller' = [poller EXCEPT ![p].pc = "suspend"]
    PROVE  \E w \in PollerRecords :
                /\ poller' = [poller EXCEPT ![p] = w] /\ PollerFits(w, accepted)
                /\ w.pc = "suspend" /\ w.row = poller[p].row /\ HeldBy(w) = HeldBy(poller[p])
<1>1. PICK v : v = poller[p]
    OBVIOUS
<1>2. v \in PollerRecords /\ PollerFits(v, accepted) /\ v.pc = "failed"
    BY <1>1, AtHand
<1>3. PICK w : w = [v EXCEPT !.pc = "suspend"]
    OBVIOUS
<1>4. w \in PollerRecords
    BY <1>2, <1>3 DEF PollerRecords
<1>5. w.pc = "suspend" /\ w.batch = v.batch /\ w.row = v.row
    BY <1>2, <1>3 DEF PollerRecords
<1>6. PollerFits(w, accepted)
    BY <1>2, <1>5 DEF PollerFits
<1>7. HeldBy(w) = HeldBy(v)
    BY <1>5 DEF HeldBy
<1>8. poller' = [poller EXCEPT ![p] = w]
    BY <1>1, <1>3
<1> QED BY <1>1, <1>4, <1>5, <1>6, <1>7, <1>8

\* markDelivered.
LEMMA MarkDeliveredSound ==
    ASSUME RowsAccountedFor, NEW p \in Pollers, markDelivered(p)
    PROVE  RowsAccountedFor'
<1>p. /\ TypeOK /\ subs \in [Subs -> SubRecords]
      /\ \A r \in DOMAIN outbox :
           /\ r \in Rows /\ r[1] \in Events /\ r[2] \in Subs /\ outbox[r] \in RowRecords
    BY RowsParts
<1>1. /\ poller[p].pc = "ok" /\ Proceed(p)
      /\ UNCHANGED <<subs, emit, accepted, resumed, unreported, faults>>
    BY DEF markDelivered
<1>2. PICK y : y = poller[p].row[1].row
    OBVIOUS
<1>3. outbox' = [x \in DOMAIN outbox |-> IF x = y THEN [outbox[x] EXCEPT !.delivered = TRUE] ELSE outbox[x]]
    BY <1>2 DEF markDelivered, UpdateRow
<1>4. DOMAIN outbox' = DOMAIN outbox
    BY <1>3
<1>5. \A r \in DOMAIN outbox :
        /\ outbox'[r] \in RowRecords /\ outbox'[r].due = outbox[r].due
        /\ outbox'[r].attempts = outbox[r].attempts
        /\ outbox'[r].delivered = outbox[r].delivered \/ outbox'[r].delivered = TRUE
    <2> SUFFICES ASSUME NEW r \in DOMAIN outbox
                 PROVE  /\ outbox'[r] \in RowRecords /\ outbox'[r].due = outbox[r].due
                        /\ outbox'[r].attempts = outbox[r].attempts
                        /\ outbox'[r].delivered = outbox[r].delivered \/ outbox'[r].delivered = TRUE
        OBVIOUS
    <2>1. CASE r = y
        <3>1. PICK row : row = [outbox[r] EXCEPT !.delivered = TRUE]
            OBVIOUS
        <3>2. outbox'[r] = row /\ outbox[r] \in RowRecords
            BY <1>p, <1>3, <2>1, <3>1
        <3>3. row \in RowRecords
            BY <3>1, <3>2 DEF RowRecords
        <3>4. row.attempts = outbox[r].attempts /\ row.due = outbox[r].due /\ row.delivered = TRUE
            BY <3>1, <3>2 DEF RowRecords
        <3> QED BY <3>2, <3>3, <3>4
    <2>2. CASE r # y
        BY <1>p, <1>3, <2>2
    <2> QED BY <2>1, <2>2
<1>6. /\ expired' \subseteq Pollers \X Rows
      /\ \E w \in PollerRecords :
            /\ poller' = [poller EXCEPT ![p] = w] /\ PollerFits(w, accepted)
            /\ w.pc # "suspend" /\ HeldBy(w) \subseteq HeldBy(poller[p])
            /\ \A x \in expired : x \in expired' \/ (x[1] = p /\ x[2] \notin HeldBy(w))
    BY <1>1, ProceedMoves
<1>7. PICK w \in PollerRecords :
            /\ poller' = [poller EXCEPT ![p] = w] /\ PollerFits(w, accepted)
            /\ w.pc # "suspend" /\ HeldBy(w) \subseteq HeldBy(poller[p])
            /\ \A x \in expired : x \in expired' \/ (x[1] = p /\ x[2] \notin HeldBy(w))
    BY <1>6
<1>8. GiveUpGoesOn(p, w)
    BY <1>1, <1>4, <1>5 DEF GiveUpGoesOn
<1>9. /\ resumed' \subseteq Subs /\ unreported' \subseteq Rows /\ faults' \in 0..MaxFaults
      /\ unreported \subseteq unreported' /\ subs' \in [Subs -> SubRecords] /\ subs' = subs
    BY <1>p, <1>1 DEF TypeOK
<1> QED BY <1>1, <1>4, <1>5, <1>6, <1>7, <1>8, <1>9, PollerSound

\* markFailed: the row whose attempts reach the limit is the one to suspend for.
LEMMA MarkFailedSound ==
    ASSUME RowsAccountedFor, NEW p \in Pollers, markFailed(p)
    PROVE  RowsAccountedFor'
<1>p. /\ TypeOK /\ subs \in [Subs -> SubRecords]
      /\ \A r \in DOMAIN outbox :
           /\ r \in Rows /\ r[1] \in Events /\ r[2] \in Subs /\ outbox[r] \in RowRecords
    BY RowsParts
<1>1. poller[p].pc = "failed" /\ UNCHANGED <<subs, emit, accepted, resumed, unreported, faults>>
    BY DEF markFailed
<1>2. PICK y, n : y = poller[p].row[1].row /\ n = NewAttempts(poller[p].row[1])
    OBVIOUS
<1>3. outbox' = [x \in DOMAIN outbox |->
                   IF x = y THEN [outbox[x] EXCEPT !.attempts = n, !.due = FALSE] ELSE outbox[x]]
    BY <1>2 DEF markFailed, UpdateRow
<1>4. DOMAIN outbox' = DOMAIN outbox
    BY <1>3
<1>5. n \in 1..MaxAttempts /\ n \in 0..MaxAttempts
    <2>1. poller[p].row[1].attempts \in 0..(MaxAttempts - 1)
        BY <1>1, AtHand
    <2> QED BY <1>2, <2>1 DEF NewAttempts
<1>6. \A r \in DOMAIN outbox :
        /\ outbox'[r] \in RowRecords /\ (outbox'[r].due => outbox[r].due)
        /\ r # y => outbox'[r] = outbox[r]
        /\ r = y => outbox'[r].attempts = n
    <2> SUFFICES ASSUME NEW r \in DOMAIN outbox
                 PROVE  /\ outbox'[r] \in RowRecords /\ (outbox'[r].due => outbox[r].due)
                        /\ r # y => outbox'[r] = outbox[r]
                        /\ r = y => outbox'[r].attempts = n
        OBVIOUS
    <2>1. CASE r = y
        <3>1. PICK row : row = [outbox[r] EXCEPT !.attempts = n, !.due = FALSE]
            OBVIOUS
        <3>2. outbox'[r] = row /\ outbox[r] \in RowRecords
            BY <1>p, <1>3, <2>1, <3>1
        <3>3. row \in RowRecords
            BY <1>5, <3>1, <3>2 DEF RowRecords
        <3>4. row.attempts = n /\ row.due = FALSE
            BY <3>1, <3>2 DEF RowRecords
        <3> QED BY <2>1, <3>2, <3>3, <3>4
    <2>2. CASE r # y
        BY <1>p, <1>3, <2>2
    <2> QED BY <2>1, <2>2
<1>7. /\ resumed' \subseteq Subs /\ unreported' \subseteq Rows /\ faults' \in 0..MaxFaults
      /\ unreported \subseteq unreported' /\ subs' \in [Subs -> SubRecords] /\ subs' = subs
    BY <1>p, <1>1 DEF TypeOK
<1>8. CASE n >= MaxAttempts
    <2>1. poller' = [poller EXCEPT ![p].pc = "suspend"] /\ expired' = expired
        BY <1>2, <1>8 DEF markFailed
    <2>2. PICK w \in PollerRecords :
                /\ poller' = [poller EXCEPT ![p] = w] /\ PollerFits(w, accepted)
                /\ w.pc = "suspend" /\ w.row = poller[p].row /\ HeldBy(w) = HeldBy(poller[p])
        BY <1>1, <2>1, SuspendNext
    <2>3. GiveUpGoesOn(p, w)
        BY <1>1, <1>2, <1>4, <1>6, <2>2 DEF GiveUpGoesOn
    <2>4. expired' \subseteq Pollers \X Rows /\ HeldBy(w) \subseteq HeldBy(poller[p])
        BY <1>p, <2>1, <2>2 DEF TypeOK
    <2>5. \A x \in expired : x \in expired' \/ (x[1] = p /\ x[2] \notin HeldBy(w))
        BY <2>1
    <2> QED BY <1>1, <1>4, <1>6, <1>7, <2>2, <2>3, <2>4, <2>5, PollerSound
<1>9. CASE ~(n >= MaxAttempts)
    <2>1. Proceed(p)
        BY <1>2, <1>9 DEF markFailed
    <2>2. /\ expired' \subseteq Pollers \X Rows
          /\ \E w \in PollerRecords :
                /\ poller' = [poller EXCEPT ![p] = w] /\ PollerFits(w, accepted)
                /\ w.pc # "suspend" /\ HeldBy(w) \subseteq HeldBy(poller[p])
                /\ \A x \in expired : x \in expired' \/ (x[1] = p /\ x[2] \notin HeldBy(w))
        BY <1>1, <2>1, ProceedMoves
    <2>3. PICK w \in PollerRecords :
                /\ poller' = [poller EXCEPT ![p] = w] /\ PollerFits(w, accepted)
                /\ w.pc # "suspend" /\ HeldBy(w) \subseteq HeldBy(poller[p])
                /\ \A x \in expired : x \in expired' \/ (x[1] = p /\ x[2] \notin HeldBy(w))
        BY <2>2
    <2>4. n # MaxAttempts
        BY <1>5, <1>9
    <2>5. GiveUpGoesOn(p, w)
        BY <1>1, <1>4, <1>6, <2>4 DEF GiveUpGoesOn
    <2> QED BY <1>1, <1>4, <1>6, <1>7, <2>2, <2>3, <2>5, PollerSound
<1> QED BY <1>8, <1>9

\* The suspension, which shows every delivery of the subscription given up.
LEMMA SuspendSound ==
    ASSUME RowsAccountedFor, NEW p \in Pollers, suspend(p)
    PROVE  RowsAccountedFor'
<1>p. /\ TypeOK /\ subs \in [Subs -> SubRecords]
      /\ \A r \in DOMAIN outbox :
           /\ r \in Rows /\ r[1] \in Events /\ r[2] \in Subs /\ outbox[r] \in RowRecords
           /\ subs[r[2]].state \in {"active", "suspended"}
    BY RowsParts
<1>1. /\ poller[p].pc = "suspend" /\ Proceed(p) /\ UNCHANGED <<outbox, emit, accepted, unreported, faults>>
    BY DEF suspend
<1>2. PICK y : y = poller[p].row[1].row
    OBVIOUS
<1>3. PICK s \in Subs : s = y[2]
    BY <1>1, <1>2, AtHand
<1>4. resumed' = resumed \ {s}
    BY <1>2, <1>3 DEF suspend
<1>5. /\ subs' \in [Subs -> SubRecords] /\ \A t \in Subs : t # s => subs'[t] = subs[t]
      /\ subs[s].state # "deleted" => subs'[s].state = "suspended"
      /\ subs[s].state = "deleted" => subs'[s] = subs[s]
    <2>1. PICK row : row = [subs[s] EXCEPT !.state = "suspended"]
        OBVIOUS
    <2>2. row \in SubRecords
        BY <1>p, <2>1 DEF SubRecords
    <2>3. row.state = "suspended"
        BY <1>p, <2>1 DEF SubRecords
    <2>4. subs' = IF subs[s].state = "deleted" THEN subs ELSE [subs EXCEPT ![s] = row]
        BY <1>2, <1>3, <2>1 DEF suspend
    <2> QED BY <1>p, <2>2, <2>3, <2>4
<1>6. /\ expired' \subseteq Pollers \X Rows
      /\ \E w \in PollerRecords :
            /\ poller' = [poller EXCEPT ![p] = w] /\ PollerFits(w, accepted)
            /\ w.pc # "suspend" /\ HeldBy(w) \subseteq HeldBy(poller[p])
            /\ \A x \in expired : x \in expired' \/ (x[1] = p /\ x[2] \notin HeldBy(w))
    BY <1>1, ProceedMoves
<1>7. PICK w \in PollerRecords :
            /\ poller' = [poller EXCEPT ![p] = w] /\ PollerFits(w, accepted)
            /\ w.pc # "suspend" /\ HeldBy(w) \subseteq HeldBy(poller[p])
            /\ \A x \in expired : x \in expired' \/ (x[1] = p /\ x[2] \notin HeldBy(w))
    BY <1>6
<1>8. GiveUpGoesOn(p, w)
    <2> SUFFICES ASSUME NEW r \in DOMAIN outbox, outbox[r].attempts = MaxAttempts, ~outbox[r].delivered
                 PROVE  \/ subs'[r[2]].state = "suspended"
                        \/ /\ subs'[r[2]] = subs[r[2]] /\ (r[2] \in resumed => r[2] \in resumed')
                           /\ ~(poller[p].pc = "suspend" /\ r = poller[p].row[1].row)
        BY <1>1 DEF GiveUpGoesOn
    <2>1. r[2] \in Subs /\ subs[r[2]].state # "deleted"
        BY <1>p
    <2> QED BY <1>2, <1>3, <1>4, <1>5, <2>1
<1>9. /\ resumed' \subseteq Subs /\ unreported' \subseteq Rows /\ faults' \in 0..MaxFaults
      /\ unreported \subseteq unreported'
    BY <1>p, <1>1, <1>4 DEF TypeOK
<1>10. \A t \in Subs : subs'[t].state = subs[t].state \/ (subs'[t].state = "suspended" /\ subs[t].state # "deleted")
    BY <1>5
<1>11. DOMAIN outbox' = DOMAIN outbox /\ \A r \in DOMAIN outbox : outbox'[r] \in RowRecords /\ (outbox'[r].due => outbox[r].due)
    BY <1>p, <1>1
<1> QED BY <1>1, <1>5, <1>6, <1>7, <1>8, <1>9, <1>10, <1>11, PollerSound

\* What a poller keeps after a failure.
FailureMoves(p) ==
    /\ expired' \subseteq Pollers \X Rows
    /\ \E w \in PollerRecords :
          /\ poller' = [poller EXCEPT ![p] = w] /\ PollerFits(w, accepted)
          /\ HeldBy(w) \subseteq HeldBy(poller[p])
          /\ \A x \in expired : x \in expired' \/ (x[1] = p /\ x[2] \notin HeldBy(w))

\* A statement that fails and a process that ends: what a suspension was owed
\* for goes on the record.
LEMMA FailureSound ==
    ASSUME RowsAccountedFor, NEW p \in Pollers, StatementFails(p) \/ Crash(p)
    PROVE  RowsAccountedFor'
<1>p. /\ TypeOK /\ subs \in [Subs -> SubRecords] /\ poller \in [Pollers -> PollerRecords]
      /\ \A r \in DOMAIN outbox :
           /\ r \in Rows /\ r[1] \in Events /\ r[2] \in Subs /\ outbox[r] \in RowRecords
    BY RowsParts
<1>1. /\ UNCHANGED <<subs, outbox, emit, accepted, resumed>> /\ faults' \in 0..MaxFaults /\ Reported(p)
    BY <1>p DEF StatementFails, Crash, Fault, TypeOK
<1>2. /\ unreported \subseteq unreported' /\ unreported' \subseteq Rows
      /\ poller[p].pc = "suspend" => poller[p].row[1].row \in unreported'
    <2>1. poller[p].pc = "suspend" => poller[p].row[1].row \in Rows
        BY AtHand
    <2>2. unreported \subseteq Rows
        BY <1>p DEF TypeOK
    <2> QED BY <1>1, <2>1, <2>2 DEF Reported
<1>3. \A w : GiveUpGoesOn(p, w)
    BY <1>1, <1>2 DEF GiveUpGoesOn
<1>4. FailureMoves(p)
    <2>1. ASSUME StatementFails(p), Proceed(p)
          PROVE  FailureMoves(p)
        BY <2>1, ProceedMoves DEF StatementFails, FailureMoves
    <2>2. ASSUME StatementFails(p), ~Proceed(p)
          PROVE  FailureMoves(p)
        <3>1. poller[p].pc = "failed" /\ poller' = [poller EXCEPT ![p].pc = "suspend"] /\ expired' = expired
            BY <2>2 DEF StatementFails
        <3> QED BY <1>p, <3>1, SuspendNext DEF TypeOK, FailureMoves
    <2>3. ASSUME Crash(p)
          PROVE  FailureMoves(p)
        <3>1. PICK w : w = Idle
            OBVIOUS
        <3>2. w \in PollerRecords
            BY <3>1 DEF Idle, PollerRecords
        <3>3. w.pc = "idle" /\ w.batch = {} /\ w.row = <<>>
            BY <3>1 DEF Idle
        <3>4. HeldBy(w) = {} /\ PollerFits(w, accepted)
            BY <3>3 DEF HeldBy, PollerFits
        <3>5. poller' = [poller EXCEPT ![p] = w] /\ expired' = {x \in expired : x[1] # p}
            BY <2>3, <3>1 DEF Crash
        <3>6. expired' \subseteq Pollers \X Rows
            BY <1>p, <3>5 DEF TypeOK
        <3> QED BY <3>2, <3>4, <3>5, <3>6 DEF FailureMoves
    <2> QED BY <2>1, <2>2, <2>3
<1>5. PICK w \in PollerRecords :
            /\ poller' = [poller EXCEPT ![p] = w] /\ PollerFits(w, accepted)
            /\ HeldBy(w) \subseteq HeldBy(poller[p])
            /\ \A x \in expired : x \in expired' \/ (x[1] = p /\ x[2] \notin HeldBy(w))
    BY <1>4 DEF FailureMoves
<1>6. GiveUpGoesOn(p, w)
    BY <1>3
<1>7. expired' \subseteq Pollers \X Rows /\ resumed' \subseteq Subs /\ subs' \in [Subs -> SubRecords] /\ subs' = subs /\ DOMAIN outbox' = DOMAIN outbox
    BY <1>p, <1>1, <1>4 DEF TypeOK, FailureMoves
<1>8. \A r \in DOMAIN outbox : outbox'[r] \in RowRecords /\ (outbox'[r].due => outbox[r].due)
    BY <1>p, <1>1
<1> QED BY <1>1, <1>2, <1>5, <1>6, <1>7, <1>8, PollerSound

-----------------------------------------------------------------------------
(* The theorems about the outbox.                                          *)

\* At the start there is no subscription and nothing to deliver.
LEMMA RowsInit == Init => RowsAccountedFor
<1> SUFFICES ASSUME Init PROVE RowsAccountedFor
    OBVIOUS
<1>1. DOMAIN outbox = {}
    BY DEF Init
<1>2. PICK w : w = Idle
    OBVIOUS
<1>3. w \in PollerRecords
    BY <1>2 DEF Idle, PollerRecords
<1>4. w.pc = "idle" /\ w.batch = {} /\ w.row = <<>>
    BY <1>2 DEF Idle
<1>5. HeldBy(w) = {} /\ PollerFits(w, accepted)
    BY <1>4 DEF HeldBy, PollerFits
<1>6. poller = [p \in Pollers |-> w]
    BY <1>2 DEF Init
<1>7. PollersFit /\ poller \in [Pollers -> PollerRecords] /\ \A p \in Pollers : Holds(p) = {}
    BY <1>3, <1>5, <1>6 DEF PollersFit, Holds
<1>8. subs \in [Subs -> SubRecords]
    BY DEF Init, NoSub, SubRecords
<1>9. PICK m : m = [pc |-> "new", ids |-> {}]
    OBVIOUS
<1>10. m \in [pc : {"new", "insert"}, ids : SUBSET Subs] /\ m.ids = {} /\ emit = [e \in Events |-> m]
    BY <1>9 DEF Init
<1>11. TypeOK
    <2>1. accepted = {} /\ unreported = {} /\ expired = {} /\ resumed = {} /\ faults \in 0..MaxFaults
        BY DEF Init
    <2>2. \A e \in Events : \A s \in emit[e].ids : subs[s].state # "none"
        BY <1>10
    <2> QED BY <1>1, <1>7, <1>8, <1>10, <2>1, <2>2 DEF TypeOK
<1>12. QueuedOnce /\ OneHolderWithinLease /\ GiveUpIsVisible
    BY <1>1, <1>7 DEF Init, QueuedOnce, OneHolderWithinLease, GiveUpIsVisible
<1> QED BY <1>7, <1>11, <1>12 DEF RowsAccountedFor

\* One lemma for each action of Next.
LEMMA RowsStep == RowsAccountedFor /\ [Next]_vars => RowsAccountedFor'
<1> SUFFICES ASSUME RowsAccountedFor, [Next]_vars PROVE RowsAccountedFor'
    OBVIOUS
<1>1. CASE UNCHANGED vars
    <2>1. PollersFit' /\ \A q \in Pollers : Holds(q)' = Holds(q)
        BY <1>1, PollersUnmoved DEF vars
    <2>2. OneHolderWithinLease'
        BY <1>1, LeasesUnmoved DEF vars
    <2>3. TypeOK' /\ QueuedOnce' /\ GiveUpIsVisible'
        BY <1>1, <2>1, RowsParts DEF vars, TypeOK, QueuedOnce, SentRows, GiveUpIsVisible
    <2> QED BY <2>1, <2>2, <2>3 DEF RowsAccountedFor
<1>2. ASSUME NEW u \in Users, NEW s \in Subs,
             \/ \E f \in Filters : handleCreateSubscription(u, s, f)
             \/ handleDeleteSubscription(u, s) \/ handleResumeSubscription(u, s)
      PROVE  RowsAccountedFor'
    BY <1>2, SubscribeSound, RowsGo
<1>3. ASSUME NEW e \in Events, SelectSubscriptions(e) \/ EmitFails(e) \/ \E s \in Subs : InsertRow(e, s)
      PROVE  RowsAccountedFor'
    BY <1>3, SelectSound, InsertSound
<1>4. ASSUME NEW p \in Pollers,
             (\E B \in SUBSET Rows : claimOutboxBatch(p, B)) \/ PollerStep(p) \/ StatementFails(p) \/ Crash(p)
      PROVE  RowsAccountedFor'
    BY <1>4, ClaimSound, DeliverSound, MarkDeliveredSound, MarkFailedSound, SuspendSound, FailureSound DEF PollerStep
<1> QED BY <1>1, <1>2, <1>3, <1>4, ElapseSound, RowsGo DEF Next

\* RowsAccountedFor: an event is queued for a subscription at most once; of two
\* pollers with the same row one has outlived its lease; a delivery given up
\* shows, but for the ways the two statements of markFailed leave open.
THEOREM RowsHold == Spec => []RowsAccountedFor
BY RowsInit, RowsStep, PTL DEF Spec

-----------------------------------------------------------------------------
(* The outbox implements Delivery.                                         *)

\* A row that keeps delivered and attempts keeps its status.
LEMMA SameStatus ==
    ASSUME UNCHANGED <<accepted, Closed>>, DOMAIN outbox' = DOMAIN outbox,
           \A r \in DOMAIN outbox : /\ outbox'[r].delivered = outbox[r].delivered
                                    /\ outbox'[r].attempts = outbox[r].attempts
    PROVE  UNCHANGED D!dvars
<1>1. \A r \in Rows : Status(r)' = Status(r)
    BY DEF Status
<1> QED BY <1>1 DEF D!dvars

\* One row's status changes.
LEMMA OneStatus ==
    ASSUME NEW d \in Rows, UNCHANGED <<accepted, Closed>>, \A r \in Rows : r # d => Status(r)' = Status(r),
           \/ Status(d)' = Status(d)
           \/ Status(d) = "absent" /\ Status(d)' = "owed" /\ d \notin accepted /\ d[2] \notin Closed
           \/ Status(d) \in {"owed", "dead"} /\ Status(d)' = "done" /\ d \in accepted
           \/ Status(d) = "owed" /\ Status(d)' = "dead"
           \/ Status(d) = "dead" /\ Status(d)' = "owed"
    PROVE  D!DNext \/ UNCHANGED D!dvars
<1>1. CASE Status(d)' = Status(d)
    <2>1. \A r \in Rows : Status(r)' = Status(r)
        BY <1>1
    <2> QED BY <2>1 DEF D!dvars
<1>2. CASE Status(d) = "absent" /\ Status(d)' = "owed" /\ d \notin accepted /\ d[2] \notin Closed
    <2>1. D!Enqueue(d)
        BY <1>2 DEF D!Enqueue
    <2> QED BY <2>1 DEF D!DNext
<1>3. CASE Status(d) \in {"owed", "dead"} /\ Status(d)' = "done" /\ d \in accepted
    <2>1. D!Settle(d)
        BY <1>3 DEF D!Settle
    <2> QED BY <2>1 DEF D!DNext
<1>4. CASE Status(d) = "owed" /\ Status(d)' = "dead"
    <2>1. D!GiveUp(d)
        BY <1>4 DEF D!GiveUp
    <2> QED BY <2>1 DEF D!DNext
<1>5. CASE Status(d) = "dead" /\ Status(d)' = "owed"
    <2>1. D!Revive(d)
        BY <1>5 DEF D!Revive
    <2> QED BY <2>1 DEF D!DNext
<1> QED BY <1>1, <1>2, <1>3, <1>4, <1>5

\* cleanupOutbox forgets deliveries that are done.
LEMMA CleanupImplements ==
    ASSUME RowsAccountedFor, cleanupOutbox
    PROVE  D!DNext
<1>1. PICK R \in SUBSET {r \in DOMAIN outbox : outbox[r].delivered} :
        outbox' = [r \in DOMAIN outbox \ R |-> outbox[r]] /\ UNCHANGED <<subs, accepted>>
    BY DEF cleanupOutbox, history
<1>2. R \in SUBSET Rows
    BY <1>1, RowsParts
<1>3. \A r \in Rows : Status(r)' = IF r \in R THEN "absent" ELSE Status(r)
    BY <1>1 DEF Status
<1>4. \A r \in R : Status(r) = "done"
    BY <1>1 DEF Status
<1>5. D!Forget(R)
    BY <1>1, <1>2, <1>3, <1>4 DEF D!Forget, Closed
<1> QED BY <1>2, <1>5 DEF D!DNext

\* handleDeleteSubscription closes the channel.
LEMMA DeleteImplements ==
    ASSUME RowsAccountedFor, NEW u \in Users, NEW s \in Subs, handleDeleteSubscription(u, s)
    PROVE  D!DNext
<1>1. /\ outbox' = [r \in {x \in DOMAIN outbox : x[2] # s} |-> outbox[r]] /\ UNCHANGED accepted
      /\ subs' = [subs EXCEPT ![s].state = "deleted"]
    BY DEF handleDeleteSubscription, DeleteSubscription, history
<1>2. \A r \in Rows : Status(r)' = IF r[2] = s THEN "absent" ELSE Status(r)
    BY <1>1 DEF Status
<1>3. Closed' = Closed \cup {s}
    <2>1. PICK row : row = [subs[s] EXCEPT !.state = "deleted"]
        OBVIOUS
    <2>2. subs \in [Subs -> SubRecords]
        BY RowsParts
    <2>3. row.state = "deleted"
        BY <2>1, <2>2 DEF SubRecords
    <2>4. subs' = [subs EXCEPT ![s] = row]
        BY <1>1, <2>1
    <2> QED BY <2>2, <2>3, <2>4 DEF Closed
<1>4. D!Close(s)
    BY <1>1, <1>2, <1>3 DEF D!Close
<1> QED BY <1>4 DEF D!DNext

\* The requests and steps that leave the rows of the outbox alone and delete no
\* subscription.
LEMMA SubscribeImplements ==
    ASSUME RowsAccountedFor, NEW s \in Subs, NEW state \in {"active", "suspended"}, UNCHANGED <<outbox, accepted>>,
           subs' = subs \/ (/\ subs[s].state # "deleted" /\ \E row : row.state = state /\ subs' = [subs EXCEPT ![s] = row])
    PROVE  UNCHANGED D!dvars
<1>1. subs \in [Subs -> SubRecords]
    BY RowsParts
<1>2. Closed' = Closed
    BY <1>1 DEF Closed
<1> QED BY <1>2, SameStatus

\* InsertRow queues a delivery that no endpoint has accepted.
LEMMA InsertImplements ==
    ASSUME RowsAccountedFor, NEW e \in Events, NEW s \in Subs, InsertRow(e, s)
    PROVE  D!DNext \/ UNCHANGED D!dvars
<1>1. PICK d : d = <<e, s>>
    OBVIOUS
<1>2. d \in Rows /\ d \notin SentRows
    BY <1>1 DEF Rows, SentRows, InsertRow
<1>3. d \notin DOMAIN outbox /\ d \notin accepted
    BY <1>2, RowsParts DEF QueuedOnce
<1>4. UNCHANGED <<accepted, Closed>>
    BY DEF InsertRow, history, Closed
<1>5. PICK row : row = [attempts |-> 0, due |-> TRUE, delivered |-> FALSE]
    OBVIOUS
<1>6. row.attempts = 0 /\ ~row.delivered
    BY <1>5
<1>7. CASE outbox' = outbox
    BY <1>4, <1>7, SameStatus
<1>8. CASE subs[s].state # "deleted" /\ outbox' = [r \in DOMAIN outbox \cup {d} |-> IF r = d THEN row ELSE outbox[r]]
    <2>1. d \in DOMAIN outbox' /\ outbox'[d] = row
        BY <1>8
    <2>3. Status(d) = "absent" /\ Status(d)' = "owed"
        BY <1>3, <1>6, <2>1 DEF Status
    <2>4. \A r \in Rows : r # d => Status(r)' = Status(r)
        BY <1>8 DEF Status
    <2>5. d[2] \notin Closed
        BY <1>1, <1>8 DEF Closed
    <2> QED BY <1>2, <1>3, <1>4, <2>3, <2>4, <2>5, OneStatus
<1> QED BY <1>1, <1>5, <1>7, <1>8 DEF InsertRow

\* markDelivered settles what its endpoint has accepted.
LEMMA MarkDeliveredImplements ==
    ASSUME RowsAccountedFor, NEW p \in Pollers, markDelivered(p)
    PROVE  D!DNext \/ UNCHANGED D!dvars
<1>1. poller[p].pc = "ok" /\ UNCHANGED <<accepted, Closed>>
    BY DEF markDelivered, Closed
<1>2. PICK d : d = poller[p].row[1].row
    OBVIOUS
<1>3. d \in Rows /\ d \in accepted
    BY <1>1, <1>2, AtHand DEF PollerFits
<1>4. outbox' = [x \in DOMAIN outbox |-> IF x = d THEN [outbox[x] EXCEPT !.delivered = TRUE] ELSE outbox[x]]
    BY <1>2 DEF markDelivered, UpdateRow
<1>5. \A r \in Rows : r # d => Status(r)' = Status(r)
    BY <1>4 DEF Status
<1>6. CASE d \notin DOMAIN outbox
    <2>1. Status(d)' = Status(d)
        BY <1>4, <1>6 DEF Status
    <2> QED BY <1>1, <1>3, <1>5, <2>1, OneStatus
<1>7. CASE d \in DOMAIN outbox
    <2>1. PICK row : row = [outbox[d] EXCEPT !.delivered = TRUE]
        OBVIOUS
    <2>2. outbox[d] \in RowRecords
        BY <1>7, RowsParts
    <2>3. row.delivered = TRUE
        BY <2>1, <2>2 DEF RowRecords
    <2>4. outbox'[d] = row /\ d \in DOMAIN outbox'
        BY <1>4, <1>7, <2>1
    <2>5. Status(d)' = "done"
        BY <2>3, <2>4 DEF Status
    <2>6. Status(d) \in {"owed", "dead", "done"}
        BY <1>7 DEF Status
    <2> QED BY <1>1, <1>3, <1>5, <2>5, <2>6, OneStatus
<1> QED BY <1>6, <1>7

\* markFailed gives a delivery up, or takes that back.
LEMMA MarkFailedImplements ==
    ASSUME RowsAccountedFor, NEW p \in Pollers, markFailed(p)
    PROVE  D!DNext \/ UNCHANGED D!dvars
<1>1. poller[p].pc = "failed" /\ UNCHANGED <<accepted, Closed>>
    BY DEF markFailed, Closed
<1>2. PICK d, n : d = poller[p].row[1].row /\ n = NewAttempts(poller[p].row[1])
    OBVIOUS
<1>3. d \in Rows
    BY <1>1, <1>2, AtHand
<1>4. outbox' = [x \in DOMAIN outbox |->
                   IF x = d THEN [outbox[x] EXCEPT !.attempts = n, !.due = FALSE] ELSE outbox[x]]
    BY <1>2 DEF markFailed, UpdateRow
<1>5. \A r \in Rows : r # d => Status(r)' = Status(r)
    BY <1>4 DEF Status
<1>6. CASE d \notin DOMAIN outbox
    <2>1. Status(d)' = Status(d)
        BY <1>4, <1>6 DEF Status
    <2> QED BY <1>1, <1>3, <1>5, <2>1, OneStatus
<1>7. CASE d \in DOMAIN outbox
    <2>1. PICK row : row = [outbox[d] EXCEPT !.attempts = n, !.due = FALSE]
        OBVIOUS
    <2>2. outbox[d] \in RowRecords
        BY <1>7, RowsParts
    <2>3. row.delivered = outbox[d].delivered
        BY <2>1, <2>2 DEF RowRecords
    <2>4. outbox'[d] = row /\ d \in DOMAIN outbox'
        BY <1>4, <1>7, <2>1
    <2>5. outbox[d].delivered => Status(d) = "done" /\ Status(d)' = "done"
        BY <1>7, <2>3, <2>4 DEF Status
    <2>6. ~outbox[d].delivered => Status(d) \in {"owed", "dead"} /\ Status(d)' \in {"owed", "dead"}
        BY <1>7, <2>3, <2>4 DEF Status
    <2> QED BY <1>1, <1>3, <1>5, <2>5, <2>6, OneStatus
<1> QED BY <1>6, <1>7

\* deliverWebhook: the endpoint may accept the delivery.
LEMMA DeliverImplements ==
    ASSUME RowsAccountedFor, NEW p \in Pollers, NEW c \in poller[p].batch, NEW answer \in {"2xx", "error"},
           deliverWebhook(p, c, answer)
    PROVE  D!DNext \/ UNCHANGED D!dvars
<1>1. UNCHANGED <<outbox, Closed>> /\ (accepted' = accepted \/ accepted' = accepted \cup {c.row})
    BY DEF deliverWebhook, Closed
<1>2. c.row \in Rows
    BY RowsParts DEF PollerRecords, Claim
<1>3. \A r \in Rows : Status(r)' = Status(r)
    BY <1>1 DEF Status
<1>4. CASE accepted' = accepted
    BY <1>1, <1>4, SameStatus
<1>5. CASE accepted' = accepted \cup {c.row}
    <2>1. D!Accept(c.row)
        BY <1>1, <1>3, <1>5 DEF D!Accept
    <2> QED BY <1>2, <2>1 DEF D!DNext
<1> QED BY <1>1, <1>4, <1>5

\* Every step of the outbox is one of Delivery, or changes nothing it sees.
LEMMA DeliveryStep == RowsAccountedFor /\ [Next]_vars => [D!DNext]_(D!dvars)
<1> SUFFICES ASSUME RowsAccountedFor, [Next]_vars PROVE D!DNext \/ UNCHANGED D!dvars
    OBVIOUS
<1>1. ASSUME UNCHANGED <<outbox, accepted, subs>>
      PROVE  D!DNext \/ UNCHANGED D!dvars
    BY <1>1, SameStatus DEF Closed
<1>2. CASE UNCHANGED vars
    BY <1>1, <1>2 DEF vars
<1>3. ASSUME NEW u \in Users, NEW s \in Subs,
             (\E f \in Filters : handleCreateSubscription(u, s, f)) \/ handleResumeSubscription(u, s)
      PROVE  D!DNext \/ UNCHANGED D!dvars
    <2>1. subs \in [Subs -> SubRecords] /\ UNCHANGED <<outbox, accepted>>
        BY <1>3, RowsParts DEF handleCreateSubscription, handleResumeSubscription, history
    <2>2. subs[s].state # "deleted" /\ \E row : row.state = "active" /\ subs' = [subs EXCEPT ![s] = row]
        <3>1. ASSUME NEW f \in Filters, handleCreateSubscription(u, s, f)
              PROVE  subs[s].state # "deleted" /\ \E row : row.state = "active" /\ subs' = [subs EXCEPT ![s] = row]
            <4>1. PICK row : row = [state |-> "active", repo |-> f.repo, types |-> f.types, by |-> u]
                OBVIOUS
            <4>2. row.state = "active"
                BY <4>1
            <4> QED BY <3>1, <4>1, <4>2 DEF handleCreateSubscription, CreateSubscription
        <3>2. ASSUME handleResumeSubscription(u, s)
              PROVE  subs[s].state # "deleted" /\ \E row : row.state = "active" /\ subs' = [subs EXCEPT ![s] = row]
            <4>1. PICK row : row = [subs[s] EXCEPT !.state = "active"]
                OBVIOUS
            <4>2. row.state = "active"
                BY <2>1, <4>1 DEF SubRecords
            <4> QED BY <3>2, <4>1, <4>2 DEF handleResumeSubscription, ResumeSubscription, GetSubscription
        <3> QED BY <1>3, <3>1, <3>2
    <2> QED BY <2>1, <2>2, SubscribeImplements
<1>4. ASSUME NEW u \in Users, NEW s \in Subs, handleDeleteSubscription(u, s)
      PROVE  D!DNext \/ UNCHANGED D!dvars
    BY <1>4, DeleteImplements
<1>5. CASE cleanupOutbox
    BY <1>5, CleanupImplements
<1>6. ASSUME NEW e \in Events, SelectSubscriptions(e) \/ EmitFails(e)
      PROVE  D!DNext \/ UNCHANGED D!dvars
    BY <1>1, <1>6 DEF SelectSubscriptions, EmitFails, history
<1>7. ASSUME NEW p \in Pollers, StatementFails(p) \/ Crash(p)
      PROVE  D!DNext \/ UNCHANGED D!dvars
    BY <1>1, <1>7 DEF StatementFails, Crash
<1>s. ASSUME NEW p \in Pollers, suspend(p)
      PROVE  D!DNext \/ UNCHANGED D!dvars
    <2>1. subs \in [Subs -> SubRecords] /\ UNCHANGED <<outbox, accepted>> /\ poller[p].pc = "suspend"
        BY <1>s, RowsParts DEF suspend
    <2>2. PICK s \in Subs : s = poller[p].row[1].row[2]
        BY <2>1, AtHand
    <2>3. PICK row : row = [subs[s] EXCEPT !.state = "suspended"]
        OBVIOUS
    <2>4. row.state = "suspended"
        BY <2>1, <2>3 DEF SubRecords
    <2>5. subs' = IF subs[s].state = "deleted" THEN subs ELSE [subs EXCEPT ![s] = row]
        BY <1>s, <2>2, <2>3 DEF suspend
    <2> QED BY <2>1, <2>4, <2>5, SubscribeImplements
<1>8. ASSUME NEW p \in Pollers, NEW B \in SUBSET Rows, claimOutboxBatch(p, B)
      PROVE  D!DNext \/ UNCHANGED D!dvars
    <2>1. UNCHANGED <<accepted, Closed>> /\ outbox' = [r \in DOMAIN outbox |->
                    IF r \in B THEN [outbox[r] EXCEPT !.due = FALSE] ELSE outbox[r]]
        BY <1>8 DEF claimOutboxBatch, history, Closed
    <2>2. \A r \in DOMAIN outbox : outbox[r] \in RowRecords
        BY RowsParts
    <2>3. \A r \in DOMAIN outbox : /\ outbox'[r].delivered = outbox[r].delivered
                                   /\ outbox'[r].attempts = outbox[r].attempts
        BY <2>1, <2>2 DEF RowRecords
    <2>4. DOMAIN outbox' = DOMAIN outbox
        BY <2>1
    <2> QED BY <2>1, <2>3, <2>4, SameStatus
<1>9. ASSUME NEW r \in Rows, Elapse(r)
      PROVE  D!DNext \/ UNCHANGED D!dvars
    <2>1. UNCHANGED <<accepted, Closed>> /\ r \in DOMAIN outbox /\ outbox' = [outbox EXCEPT ![r].due = TRUE]
        BY <1>9 DEF Elapse, Closed
    <2>2. outbox[r] \in RowRecords
        BY <2>1, RowsParts
    <2>3. PICK row : row = [outbox[r] EXCEPT !.due = TRUE]
        OBVIOUS
    <2>4. row.delivered = outbox[r].delivered /\ row.attempts = outbox[r].attempts
        BY <2>2, <2>3 DEF RowRecords
    <2>5. outbox' = [outbox EXCEPT ![r] = row]
        BY <2>1, <2>3
    <2>6. DOMAIN outbox' = DOMAIN outbox
        BY <2>5
    <2>7. \A x \in DOMAIN outbox : /\ outbox'[x].delivered = outbox[x].delivered
                                   /\ outbox'[x].attempts = outbox[x].attempts
        BY <2>1, <2>4, <2>5
    <2> QED BY <2>1, <2>6, <2>7, SameStatus
<1>10. ASSUME NEW p \in Pollers, PollerStep(p)
       PROVE  D!DNext \/ UNCHANGED D!dvars
    BY <1>s, <1>10, DeliverImplements, MarkDeliveredImplements, MarkFailedImplements DEF PollerStep
<1> QED BY <1>2, <1>3, <1>4, <1>5, <1>6, <1>7, <1>8, <1>9, <1>10, InsertImplements DEF Next

\* ImplementsDelivery: the outbox keeps the promise of Delivery.  A delivery is
\* marked done only after its endpoint accepted it, is never owed again after
\* that, and goes only with its subscription or, when done, by the clean-up.
THEOREM OutboxImplementsDelivery == Spec => ImplementsDelivery
<1>1. Init => D!DInit
    <2> SUFFICES ASSUME Init PROVE D!DInit
        OBVIOUS
    <2>1. DOMAIN outbox = {} /\ accepted = {}
        BY DEF Init
    <2>2. \A r \in Rows : Status(r) = "absent"
        BY <2>1 DEF Status
    <2>3. Closed = {}
        BY DEF Init, NoSub, Closed
    <2> QED BY <2>1, <2>2, <2>3 DEF D!DInit
<1> QED BY <1>1, RowsInit, RowsStep, DeliveryStep, PTL DEF Spec, ImplementsDelivery, D!DSpec

-----------------------------------------------------------------------------
(* The event log: what a step of the log leaves in order for one reader.   *)

\* The parts of StreamIsLog that one reader r sees.
LEMMA StreamParts ==
    ASSUME StreamIsLog, NEW r \in Readers
    PROVE  /\ LogTypeOK /\ NumbersOnce /\ TookCommitted(r) /\ InOrder(r) /\ NoGap(r)
           /\ seqOf \in [LogEvents -> Nat] /\ nextSeq \in Nat /\ log \subseteq LogEvents
           /\ reader[r] \in ReaderType /\ reader[r].cursor \in Nat /\ reader[r].batch \in Seq(LogEvents)
           /\ wire[r] \in Seq(LogEvents) /\ received[r] \in Seq(LogEvents) /\ start[r] \in Nat
           /\ Taken(r) \subseteq LogEvents
<1>1. LogTypeOK /\ NumbersOnce /\ TookCommitted(r) /\ InOrder(r) /\ NoGap(r)
    BY DEF StreamIsLog, DeletedBelow, ReceivedInOrder, NoGapButOvertaken
<1>2. /\ reader[r] \in ReaderType /\ wire[r] \in Seq(LogEvents) /\ received[r] \in Seq(LogEvents) /\ start[r] \in Nat
      /\ seqOf \in [LogEvents -> Nat] /\ nextSeq \in Nat /\ log \subseteq LogEvents
    BY <1>1 DEF LogTypeOK
<1>3. reader[r].cursor \in Nat /\ reader[r].batch \in Seq(LogEvents)
    BY <1>2 DEF ReaderType
<1>4. Taken(r) \subseteq LogEvents
    BY <1>2, <1>3 DEF Taken, Range
<1> QED BY <1>1, <1>2, <1>3, <1>4

\* A reader has reached its cursor and every row of its batch.
LEMMA BatchReached ==
    ASSUME StreamIsLog, NEW r \in Readers
    PROVE  /\ Reached(r) \in Nat /\ reader[r].cursor <= Reached(r)
           /\ \A i \in DOMAIN reader[r].batch : seqOf[reader[r].batch[i]] <= Reached(r)
<1>1. /\ InOrder(r) /\ seqOf \in [LogEvents -> Nat]
      /\ reader[r].cursor \in Nat /\ reader[r].batch \in Seq(LogEvents)
    BY StreamParts
<1>2. PICK b, c : b = reader[r].batch /\ c = reader[r].cursor
    OBVIOUS
<1>3. CASE b = <<>>
    BY <1>1, <1>2, <1>3 DEF Reached
<1>4. CASE b # <<>>
    <2>1. Len(b) \in DOMAIN b /\ b[Len(b)] \in LogEvents /\ \A i \in DOMAIN b : i \in Nat /\ i <= Len(b) /\ b[i] \in LogEvents
        BY <1>1, <1>2, <1>4
    <2>2. Reached(r) = seqOf[b[Len(b)]]
        BY <1>2, <1>4 DEF Reached, Last
    <2>3. \A i \in DOMAIN b : i < Len(b) => seqOf[b[i]] < seqOf[b[Len(b)]]
        BY <1>1, <1>2, <2>1 DEF InOrder, Rising
    <2>4. \A i \in DOMAIN b : seqOf[b[i]] <= seqOf[b[Len(b)]]
        BY <1>1, <2>1, <2>3
    <2>5. c < seqOf[b[Len(b)]]
        BY <1>1, <1>2, <2>1 DEF InOrder, Range
    <2> QED BY <1>1, <1>2, <2>1, <2>2, <2>4, <2>5
<1> QED BY <1>3, <1>4

\* The log goes on: numbers stay, new ones are higher, rows go from the low end,
\* and a reader that has passed a row when it is committed is on the record.
LogGoesOn ==
    /\ \A d \in LogEvents : emitting[d] # "idle" => seqOf'[d] = seqOf[d]
    /\ \A d \in LogEvents : emitting[d] \notin {"idle", "insert"} => emitting'[d] \notin {"idle", "insert"}
    /\ \A e \in log' \cup Inserting' : e \in log \cup Inserting \/ seqOf'[e] >= nextSeq
    /\ \A e \in Inserting' : e \in Inserting \/ seqOf'[e] >= nextSeq
    /\ \A d \in log : d \in log' \/ \A e \in log' \cup Inserting' : seqOf'[e] > seqOf[d]
    /\ \A e \in log' : e \in log \/ (e \in Inserting /\ \A r \in Readers :
           Reached(r) > seqOf[e] \/ LastId(r) > seqOf[e] => <<r, e>> \in overtaken')
    /\ nextSeq' >= nextSeq /\ nextSeq' \in Nat /\ overtaken \subseteq overtaken'
    /\ seqOf' \in [LogEvents -> Nat] /\ log' \subseteq LogEvents
    /\ UNCHANGED readerVars

(* The numbers given so far stay as they are while Emit takes new ones. *)
LEMMA NumbersKept ==
    ASSUME StreamIsLog, LogGoesOn, NEW r \in Readers
    PROVE  /\ \A d \in Taken(r) : seqOf'[d] = seqOf[d] /\ seqOf[d] < nextSeq
           /\ \A e \in log \cup Inserting : e \in LogEvents /\ seqOf'[e] = seqOf[e]
           /\ Taken(r)' = Taken(r)
<1>p. /\ LogTypeOK /\ NumbersOnce /\ TookCommitted(r) /\ Taken(r) \subseteq LogEvents
    BY StreamParts
<1>1. \A d \in Taken(r) : emitting[d] # "idle" /\ seqOf[d] < nextSeq
    BY <1>p DEF TookCommitted, NumbersOnce
<1>2. \A e \in log \cup Inserting : e \in LogEvents /\ emitting[e] # "idle"
    BY <1>p DEF Inserting, LogTypeOK, NumbersOnce
<1>3. Taken(r)' = Taken(r)
    BY DEF LogGoesOn, readerVars, Taken
<1> QED BY <1>p, <1>1, <1>2, <1>3 DEF LogGoesOn

\* What a reader took stays below the rows that are to come.
LEMMA TookGoesOn ==
    ASSUME StreamIsLog, LogGoesOn, NEW r \in Readers
    PROVE  TookCommitted(r)'
<1>p. TookCommitted(r) /\ seqOf \in [LogEvents -> Nat] /\ nextSeq \in Nat /\ Taken(r) \subseteq LogEvents
    BY StreamParts
<1>1. /\ \A d \in Taken(r) : seqOf'[d] = seqOf[d] /\ seqOf[d] < nextSeq
      /\ \A e \in log \cup Inserting : e \in LogEvents /\ seqOf'[e] = seqOf[e]
      /\ Taken(r)' = Taken(r)
    BY NumbersKept
<1> SUFFICES ASSUME NEW d \in Taken(r)
             PROVE  /\ emitting'[d] \notin {"idle", "insert"}
                    /\ d \in log' \/ \A e \in log' \cup Inserting' : seqOf'[e] > seqOf'[d]
    BY <1>1 DEF TookCommitted
<1>2. emitting'[d] \notin {"idle", "insert"}
    BY <1>p DEF TookCommitted, LogGoesOn
<1>3. CASE d \in log
    BY <1>1, <1>2, <1>3 DEF LogGoesOn
<1>4. CASE \A e \in log \cup Inserting : seqOf[e] > seqOf[d]
    <2>1. ASSUME NEW e \in log' \cup Inserting'
          PROVE  seqOf'[e] > seqOf'[d]
        <3>1. CASE e \in log \cup Inserting
            BY <1>1, <1>4, <3>1
        <3>2. CASE seqOf'[e] >= nextSeq
            <4>1. e \in LogEvents
                BY DEF LogGoesOn, Inserting
            <4>2. seqOf'[e] \in Nat /\ seqOf[d] \in Nat /\ seqOf[d] < nextSeq /\ seqOf'[d] = seqOf[d]
                BY <1>p, <1>1, <4>1 DEF LogGoesOn
            <4> QED BY <1>p, <3>2, <4>2
        <3> QED BY <3>1, <3>2 DEF LogGoesOn
    <2> QED BY <1>2, <2>1
<1> QED BY <1>p, <1>3, <1>4 DEF TookCommitted

\* The order of one stream.
LEMMA OrderGoesOn ==
    ASSUME StreamIsLog, LogGoesOn, NEW r \in Readers
    PROVE  InOrder(r)'
<1>p. /\ InOrder(r) /\ seqOf \in [LogEvents -> Nat] /\ nextSeq \in Nat /\ Taken(r) \subseteq LogEvents
      /\ reader[r].cursor \in Nat /\ reader[r].batch \in Seq(LogEvents)
      /\ wire[r] \in Seq(LogEvents) /\ received[r] \in Seq(LogEvents)
    BY StreamParts
<1>1. /\ \A d \in Taken(r) : seqOf'[d] = seqOf[d] /\ seqOf[d] < nextSeq
      /\ \A e \in log \cup Inserting : e \in LogEvents /\ seqOf'[e] = seqOf[e]
    BY NumbersKept
<1>2. UNCHANGED <<reader, wire, received>>
    BY DEF LogGoesOn, readerVars
<1>3. PICK R, W, B, c, pc : /\ R = received[r] /\ W = wire[r] /\ B = reader[r].batch
                            /\ c = reader[r].cursor /\ pc = reader[r].pc
    OBVIOUS
<1>4. /\ Range(R) \subseteq Taken(r) /\ Range(W) \subseteq Taken(r) /\ Range(B) \subseteq Taken(r)
    BY <1>3 DEF Taken
<1>5. /\ \A i \in DOMAIN R : R[i] \in Range(R)
      /\ \A i \in DOMAIN W : W[i] \in Range(W)
      /\ \A i \in DOMAIN B : B[i] \in Range(B)
    BY DEF Range
<1>6. Rising(received[r])' /\ Rising(wire[r])' /\ Rising(reader[r].batch)'
    <2>1. Rising(R) /\ Rising(W) /\ Rising(B)
        BY <1>p, <1>3 DEF InOrder
    <2>2. Rising(R)' /\ Rising(W)' /\ Rising(B)'
        BY <1>1, <1>4, <1>5, <2>1 DEF Rising
    <2> QED BY <1>2, <1>3, <2>2 DEF Rising
<1>7. \A e \in log' \cup Inserting' : e \in LogEvents /\ seqOf'[e] \in Nat
    BY DEF LogGoesOn, Inserting
<1>8. /\ \A d \in Range(R), e \in Range(W) : seqOf'[d] < seqOf'[e]
      /\ \A d \in Range(R) \cup Range(W) : \A e \in Range(B) : seqOf'[d] < seqOf'[e]
      /\ \A e \in Range(B) : seqOf'[e] > c
    BY <1>p, <1>1, <1>3, <1>4 DEF InOrder
<1>9. ASSUME NEW d \in Range(R) \cup Range(W), NEW e \in log' \cup Inserting', pc # "off", seqOf'[e] > c
      PROVE  seqOf'[d] < seqOf'[e]
    <2>1. d \in Taken(r) /\ seqOf'[d] = seqOf[d] /\ seqOf[d] < nextSeq /\ seqOf[d] \in Nat
        BY <1>p, <1>1, <1>4
    <2>2. CASE e \in log \cup Inserting
        BY <1>p, <1>1, <1>3, <1>9, <2>1, <2>2 DEF InOrder
    <2>3. CASE seqOf'[e] >= nextSeq
        BY <1>p, <1>7, <2>1, <2>3
    <2> QED BY <2>2, <2>3 DEF LogGoesOn
<1>10. c < nextSeq' /\ c \in Nat
    BY <1>p, <1>3 DEF InOrder, LogGoesOn
<1>11. \A e \in Inserting' : seqOf'[e] # c
    <2> SUFFICES ASSUME NEW e \in Inserting' PROVE seqOf'[e] # c
        OBVIOUS
    <2>1. CASE e \in Inserting
        BY <1>p, <1>1, <1>3, <2>1 DEF InOrder
    <2>2. CASE seqOf'[e] >= nextSeq
        <3>1. c < nextSeq /\ seqOf'[e] \in Nat
            BY <1>p, <1>3, <1>7 DEF InOrder
        <3> QED BY <1>p, <1>10, <2>2, <3>1
    <2> QED BY <2>1, <2>2 DEF LogGoesOn
<1>12. (pc = "off" => c = 0 /\ W = <<>>) /\ (pc # "send" => B = <<>>)
    BY <1>p, <1>3 DEF InOrder
<1> QED BY <1>2, <1>3, <1>6, <1>8, <1>9, <1>10, <1>11, <1>12 DEF InOrder

\* A row that is new in the log was passed by readers on the record only.
LEMMA GapGoesOn ==
    ASSUME StreamIsLog, LogGoesOn, NEW r \in Readers
    PROVE  NoGap(r)'
<1>p. /\ InOrder(r) /\ NoGap(r) /\ seqOf \in [LogEvents -> Nat] /\ nextSeq \in Nat /\ Taken(r) \subseteq LogEvents
      /\ reader[r].cursor \in Nat /\ reader[r].batch \in Seq(LogEvents) /\ received[r] \in Seq(LogEvents)
    BY StreamParts
<1>1. /\ \A d \in Taken(r) : seqOf'[d] = seqOf[d] /\ seqOf[d] < nextSeq
      /\ \A e \in log \cup Inserting : e \in LogEvents /\ seqOf'[e] = seqOf[e]
    BY NumbersKept
<1>2. UNCHANGED <<reader, wire, received, start>>
    BY DEF LogGoesOn, readerVars
<1>3. LastId(r)' = LastId(r)
    <2>1. CASE received[r] = <<>>
        BY <1>2, <2>1 DEF LastId
    <2>2. CASE received[r] # <<>>
        <3>1. Last(received[r]) \in Range(received[r])
            BY <1>p, <2>2 DEF Range, Last
        <3>2. seqOf'[Last(received[r])] = seqOf[Last(received[r])]
            BY <1>1, <3>1 DEF Taken
        <3> QED BY <1>2, <2>2, <3>2 DEF LastId
    <2> QED BY <2>1, <2>2
<1>4. \A i \in DOMAIN reader[r].batch : seqOf'[reader[r].batch[i]] = seqOf[reader[r].batch[i]]
    BY <1>1 DEF Taken, Range
<1> SUFFICES ASSUME NEW e \in log' \cap Wants[r], seqOf'[e] > start[r], <<r, e>> \notin overtaken'
             PROVE  /\ seqOf'[e] < LastId(r) => e \in Range(received[r])
                    /\ reader[r].pc # "off" /\ seqOf'[e] <= reader[r].cursor =>
                         e \in Range(received[r]) \cup Range(wire[r])
                    /\ \A i \in DOMAIN reader[r].batch :
                         reader[r].cursor < seqOf'[e] /\ seqOf'[e] < seqOf[reader[r].batch[i]] =>
                             e \in Range(reader[r].batch)
    BY <1>2, <1>3, <1>4 DEF NoGap
<1>5. CASE e \in log
    <2>1. seqOf'[e] = seqOf[e] /\ <<r, e>> \notin overtaken
        BY <1>1, <1>5 DEF LogGoesOn
    <2> QED BY <1>p, <1>5, <2>1 DEF NoGap
<1>6. CASE e \notin log
    <2>1. /\ e \in Inserting /\ seqOf'[e] = seqOf[e] /\ seqOf[e] \in Nat
          /\ ~(Reached(r) > seqOf[e]) /\ ~(LastId(r) > seqOf[e])
        BY <1>p, <1>1, <1>6 DEF LogGoesOn
    <2>2. /\ Reached(r) \in Nat /\ reader[r].cursor <= Reached(r)
          /\ \A i \in DOMAIN reader[r].batch : seqOf[reader[r].batch[i]] <= Reached(r)
        BY BatchReached
    <2>3. reader[r].cursor < seqOf[e]
        <3>1. seqOf[e] # reader[r].cursor
            BY <1>p, <2>1 DEF InOrder
        <3> QED BY <1>p, <2>1, <2>2, <3>1
    <2>4. LastId(r) \in Nat
        <3>1. start[r] \in Nat
            BY StreamParts
        <3>2. received[r] # <<>> => Last(received[r]) \in LogEvents
            BY <1>p DEF Last
        <3> QED BY <1>p, <3>1, <3>2 DEF LastId
    <2>5. \A i \in DOMAIN reader[r].batch : seqOf[reader[r].batch[i]] \in Nat
        BY <1>p
    <2> QED BY <1>p, <2>1, <2>2, <2>3, <2>4, <2>5
<1> QED BY <1>5, <1>6

\* A step of the log leaves every stream as it should be.
LEMMA LogSide ==
    ASSUME StreamIsLog, LogGoesOn, LogTypeOK', NumbersOnce'
    PROVE  StreamIsLog'
<1>1. \A r \in Readers : TookCommitted(r)' /\ InOrder(r)' /\ NoGap(r)'
    BY TookGoesOn, OrderGoesOn, GapGoesOn
<1> QED BY <1>1 DEF StreamIsLog, DeletedBelow, ReceivedInOrder, NoGapButOvertaken

(* The insert of Emit takes the next number. *)
LEMMA EmitInsertStream ==
    ASSUME StreamIsLog, NEW e \in LogEvents, EmitInsert(e)
    PROVE  StreamIsLog'
<1>p. LogTypeOK /\ NumbersOnce
    BY DEF StreamIsLog
<1>1. /\ emitting[e] = "idle" /\ emitting' = [emitting EXCEPT ![e] = "insert"]
      /\ seqOf' = [seqOf EXCEPT ![e] = nextSeq]
      /\ UNCHANGED <<log, pending, readerVars, overtaken, logFaults>>
    BY DEF EmitInsert
<1>2. nextSeq \in Nat \ {0} /\ nextSeq' = nextSeq + 1
    BY <1>p DEF EmitInsert, LogTypeOK
<1>3. nextSeq' \in Nat \ {0} /\ nextSeq' > nextSeq
    BY <1>2
<1>4. seqOf[e] = 0 /\ e \notin log /\ seqOf'[e] = nextSeq /\ emitting'[e] = "insert"
    BY <1>p, <1>1 DEF LogTypeOK, NumbersOnce
<1>5. \A d \in LogEvents : d # e => seqOf'[d] = seqOf[d] /\ emitting'[d] = emitting[d]
    BY <1>p, <1>1 DEF LogTypeOK
<1>6. LogTypeOK'
    <2>1. seqOf' \in [LogEvents -> Nat] /\ emitting' \in [LogEvents -> {"idle", "insert", "notify", "wake", "done"}]
        BY <1>p, <1>1, <1>2 DEF LogTypeOK
    <2>2. log' \subseteq {d \in LogEvents : seqOf'[d] # 0}
        BY <1>p, <1>1, <1>4, <1>5 DEF LogTypeOK
    <2> QED BY <1>p, <1>1, <1>3, <2>1, <2>2 DEF LogTypeOK, readerVars
<1>7. NumbersOnce'
    <2>1. \A d \in LogEvents : seqOf[d] \in Nat /\ seqOf[d] < nextSeq
        BY <1>p DEF LogTypeOK, NumbersOnce
    <2>2. \A d \in LogEvents : (seqOf'[d] = 0 <=> emitting'[d] = "idle") /\ seqOf'[d] < nextSeq'
        BY <1>p, <1>2, <1>3, <1>4, <1>5, <2>1 DEF NumbersOnce
    <2>3. \A d, f \in LogEvents : d # f /\ seqOf'[d] = seqOf'[f] => seqOf'[d] = 0
        BY <1>p, <1>2, <1>4, <1>5, <2>1 DEF NumbersOnce
    <2>4. \A d \in log' : emitting'[d] \notin {"idle", "insert"}
        BY <1>p, <1>1, <1>4, <1>5 DEF NumbersOnce, LogTypeOK
    <2> QED BY <2>2, <2>3, <2>4 DEF NumbersOnce
<1>8. Inserting' = Inserting \cup {e}
    BY <1>4, <1>5 DEF Inserting
<1>9. LogGoesOn
    <2>1. seqOf'[e] >= nextSeq
        BY <1>2, <1>4
    <2>2. \A d \in LogEvents : emitting[d] # "idle" => seqOf'[d] = seqOf[d] /\ emitting'[d] = emitting[d]
        BY <1>1, <1>5
    <2>3. seqOf' \in [LogEvents -> Nat] /\ log' \subseteq LogEvents
        BY <1>6 DEF LogTypeOK
    <2>4. nextSeq' >= nextSeq /\ nextSeq' \in Nat
        BY <1>2
    <2>5. \A d \in log' \cup Inserting' : d \in log \cup Inserting \/ seqOf'[d] >= nextSeq
        BY <1>1, <1>8, <2>1
    <2>6. \A d \in Inserting' : d \in Inserting \/ seqOf'[d] >= nextSeq
        BY <1>8, <2>1
    <2> QED BY <1>1, <2>2, <2>3, <2>4, <2>5, <2>6 DEF LogGoesOn
<1> QED BY <1>6, <1>7, <1>9, LogSide

(* The commit of Emit makes a row visible, which may be overtaken by then. *)
LEMMA EmitCommitStream ==
    ASSUME StreamIsLog, NEW e \in LogEvents, EmitCommit(e)
    PROVE  StreamIsLog'
<1>p. LogTypeOK /\ NumbersOnce
    BY DEF StreamIsLog
<1>1. /\ emitting[e] = "insert" /\ emitting' = [emitting EXCEPT ![e] = "notify"]
      /\ log' = log \cup {e}
      /\ UNCHANGED <<nextSeq, seqOf, pending, readerVars, logFaults>>
    BY DEF EmitCommit
<1>2. /\ overtaken \subseteq overtaken' /\ overtaken' \subseteq Readers \X LogEvents
      /\ \A r \in Readers : Reached(r) > seqOf[e] \/ LastId(r) > seqOf[e] => <<r, e>> \in overtaken'
    BY <1>p DEF EmitCommit, LogTypeOK
<1>3. seqOf[e] # 0 /\ emitting'[e] = "notify"
    BY <1>p, <1>1 DEF LogTypeOK, NumbersOnce
<1>4. \A d \in LogEvents : d # e => emitting'[d] = emitting[d]
    BY <1>p, <1>1 DEF LogTypeOK
<1>5. Inserting' = Inserting \ {e} /\ e \in Inserting
    BY <1>1, <1>3, <1>4 DEF Inserting
<1>6. LogTypeOK'
    <2>1. emitting' \in [LogEvents -> {"idle", "insert", "notify", "wake", "done"}]
        BY <1>p, <1>1 DEF LogTypeOK
    <2>2. log' \subseteq {d \in LogEvents : seqOf'[d] # 0}
        BY <1>p, <1>1, <1>3 DEF LogTypeOK
    <2> QED BY <1>p, <1>1, <1>2, <2>1, <2>2 DEF LogTypeOK, readerVars
<1>7. NumbersOnce'
    BY <1>p, <1>1, <1>3, <1>4 DEF NumbersOnce, LogTypeOK
<1>8. LogGoesOn
    <2>1. nextSeq' >= nextSeq /\ nextSeq' \in Nat
        BY <1>p, <1>1 DEF LogTypeOK
    <2>2. seqOf' \in [LogEvents -> Nat] /\ log' \subseteq LogEvents
        BY <1>6 DEF LogTypeOK
    <2>3. \A d \in LogEvents : emitting[d] \notin {"idle", "insert"} => emitting'[d] \notin {"idle", "insert"}
        BY <1>3, <1>4
    <2>4. \A d \in log' : d \in log \/ (d \in Inserting /\ \A r \in Readers :
              Reached(r) > seqOf[d] \/ LastId(r) > seqOf[d] => <<r, d>> \in overtaken')
        BY <1>1, <1>2, <1>5
    <2> QED BY <1>1, <1>2, <1>5, <2>1, <2>2, <2>3, <2>4 DEF LogGoesOn
<1> QED BY <1>6, <1>7, <1>8, LogSide

\* The log's other steps change neither rows nor numbers.
LEMMA EmitOnStream ==
    ASSUME StreamIsLog, UNCHANGED <<nextSeq, seqOf, log, readerVars, overtaken>>,
           pending' \in [Listening -> Nat], logFaults' \in 0..MaxLogFaults,
           emitting' \in [LogEvents -> {"idle", "insert", "notify", "wake", "done"}],
           \A d \in LogEvents : /\ emitting'[d] = "idle" <=> emitting[d] = "idle"
                                /\ emitting'[d] = "insert" => emitting[d] = "insert"
    PROVE  StreamIsLog'
<1>p. LogTypeOK /\ NumbersOnce
    BY DEF StreamIsLog
<1>1. LogTypeOK'
    BY <1>p DEF LogTypeOK, readerVars
<1>2. NumbersOnce'
    BY <1>p DEF NumbersOnce, LogTypeOK
<1>3. LogGoesOn
    <2>1. nextSeq' >= nextSeq /\ nextSeq' \in Nat
        BY <1>p DEF LogTypeOK
    <2>2. Inserting' \subseteq Inserting
        BY DEF Inserting
    <2>3. seqOf' \in [LogEvents -> Nat] /\ log' \subseteq LogEvents
        BY <1>1 DEF LogTypeOK
    <2> QED BY <2>1, <2>2, <2>3 DEF LogGoesOn
<1> QED BY <1>1, <1>2, <1>3, LogSide

(* What Emit does after its commit sends notifications only. *)
LEMMA EmitTailStream ==
    ASSUME StreamIsLog, NEW e \in LogEvents, EmitInsertFails(e) \/ EmitPgNotify(e)
    PROVE  StreamIsLog'
<1>p. LogTypeOK
    BY DEF StreamIsLog
<1>1. CASE EmitInsertFails(e)
    <2>1. /\ emitting[e] = "insert" /\ emitting' = [emitting EXCEPT ![e] = "notify"]
          /\ UNCHANGED <<nextSeq, seqOf, log, pending, readerVars, overtaken>>
        BY <1>1 DEF EmitInsertFails
    <2>2. logFaults' \in 0..MaxLogFaults
        BY <1>p, <1>1, EventLogAssumption DEF EmitInsertFails, LogFault, LogTypeOK
    <2>3. /\ emitting' \in [LogEvents -> {"idle", "insert", "notify", "wake", "done"}]
          /\ \A d \in LogEvents : /\ emitting'[d] = "idle" <=> emitting[d] = "idle"
                                  /\ emitting'[d] = "insert" => emitting[d] = "insert"
          /\ pending' \in [Listening -> Nat]
        BY <1>p, <2>1 DEF LogTypeOK
    <2> QED BY <2>1, <2>2, <2>3, EmitOnStream
<1>2. CASE EmitPgNotify(e)
    <2>1. /\ emitting[e] = "notify" /\ emitting' = [emitting EXCEPT ![e] = "wake"]
          /\ pending' = [i \in Listening |-> pending[i] + 1]
          /\ UNCHANGED <<nextSeq, seqOf, log, readerVars, overtaken, logFaults>>
        BY <1>2 DEF EmitPgNotify
    <2>2. pending' \in [Listening -> Nat]
        BY <1>p, <2>1 DEF LogTypeOK
    <2>3. /\ emitting' \in [LogEvents -> {"idle", "insert", "notify", "wake", "done"}]
          /\ \A d \in LogEvents : /\ emitting'[d] = "idle" <=> emitting[d] = "idle"
                                  /\ emitting'[d] = "insert" => emitting[d] = "insert"
          /\ logFaults' \in 0..MaxLogFaults
        BY <1>p, <2>1 DEF LogTypeOK
    <2> QED BY <2>1, <2>2, <2>3, EmitOnStream
<1> QED BY <1>1, <1>2

(* A notification arrives or is lost. *)
LEMMA ListenerStream ==
    ASSUME StreamIsLog, NEW i \in Listening, ListenerReconnects(i)
    PROVE  StreamIsLog'
<1>p. LogTypeOK
    BY DEF StreamIsLog
<1>1. UNCHANGED <<emitVars, readerVars, overtaken>> /\ pending' = [pending EXCEPT ![i] = 0]
    BY DEF ListenerReconnects
<1>2. logFaults' \in 0..MaxLogFaults
    BY <1>p, EventLogAssumption DEF ListenerReconnects, LogFault, LogTypeOK
<1>3. pending' \in [Listening -> Nat] /\ emitting' \in [LogEvents -> {"idle", "insert", "notify", "wake", "done"}]
    BY <1>p, <1>1 DEF LogTypeOK, emitVars
<1> QED BY <1>1, <1>2, <1>3, EmitOnStream DEF emitVars

(* The cleanup deletes old rows of the log. *)
LEMMA CleanupStream ==
    ASSUME StreamIsLog, cleanupEventLog
    PROVE  StreamIsLog'
<1>p. LogTypeOK /\ NumbersOnce
    BY DEF StreamIsLog
<1>1. PICK k \in {seqOf[e] : e \in log} :
        /\ \A e \in LogEvents : emitting[e] = "insert" => seqOf[e] > k
        /\ log' = {e \in log : seqOf[e] > k}
        /\ UNCHANGED <<nextSeq, seqOf, emitting, pending, readerVars, overtaken, logFaults>>
    BY DEF cleanupEventLog
<1>2. k \in Nat /\ \A e \in log : e \in LogEvents /\ seqOf[e] \in Nat
    BY <1>p DEF LogTypeOK
<1>3. LogTypeOK'
    BY <1>p, <1>1 DEF LogTypeOK, readerVars
<1>4. NumbersOnce'
    BY <1>p, <1>1 DEF NumbersOnce
<1>5. Inserting' = Inserting /\ log' \subseteq log
    BY <1>1 DEF Inserting
<1>6. ASSUME NEW d \in log, d \notin log', NEW e \in log' \cup Inserting' PROVE seqOf'[e] > seqOf[d]
    <2>1. seqOf[d] <= k /\ seqOf[d] \in Nat
        BY <1>1, <1>2, <1>6
    <2>2. seqOf[e] > k /\ seqOf[e] \in Nat
        BY <1>p, <1>1, <1>5, <1>6 DEF Inserting, LogTypeOK
    <2> QED BY <1>1, <1>2, <2>1, <2>2
<1>7. LogGoesOn
    <2>1. nextSeq' >= nextSeq /\ nextSeq' \in Nat
        BY <1>p, <1>1 DEF LogTypeOK
    <2>3. seqOf' \in [LogEvents -> Nat] /\ log' \subseteq LogEvents
        BY <1>3 DEF LogTypeOK
    <2> QED BY <1>1, <1>5, <1>6, <2>1, <2>3 DEF LogGoesOn
<1> QED BY <1>3, <1>4, <1>7, LogSide

-----------------------------------------------------------------------------
(* The event log: what a reader's step leaves in order.                    *)

\* A step that leaves the rows of the log and their numbers alone.
RowsStay ==
    /\ UNCHANGED <<nextSeq, seqOf, log, overtaken>> /\ Inserting' = Inserting
    /\ \A d \in LogEvents : emitting[d] \notin {"idle", "insert"} => emitting'[d] \notin {"idle", "insert"}

\* A step that moves none of reader r's rows.
StreamKept(r) ==
    /\ reader'[r].cursor = reader[r].cursor /\ reader'[r].batch = reader[r].batch
    /\ reader'[r].pc = "off" <=> reader[r].pc = "off"
    /\ reader'[r].pc # "send" => reader[r].batch = <<>>
    /\ wire'[r] = wire[r] /\ received'[r] = received[r] /\ start'[r] = start[r]

(* A reader whose record stays the same keeps its order and its gaps. *)
LEMMA ReaderKept ==
    ASSUME StreamIsLog, RowsStay, NEW r \in Readers, StreamKept(r)
    PROVE  TookCommitted(r)' /\ InOrder(r)' /\ NoGap(r)'
<1>p. TookCommitted(r) /\ InOrder(r) /\ NoGap(r) /\ Taken(r) \subseteq LogEvents
    BY StreamParts
<1>1. TookCommitted(r)'
    BY <1>p DEF TookCommitted, Taken, RowsStay, StreamKept
<1>2. InOrder(r)'
    <2>1. /\ Rising(received[r])' /\ Rising(wire[r])' /\ Rising(reader[r].batch)'
        BY <1>p DEF InOrder, RowsStay, StreamKept, Rising
    <2> QED BY <1>p, <2>1 DEF InOrder, RowsStay, StreamKept
<1>3. NoGap(r)'
    <2>1. LastId(r)' = LastId(r)
        BY DEF LastId, RowsStay, StreamKept
    <2> QED BY <1>p, <2>1 DEF NoGap, RowsStay, StreamKept
<1> QED BY <1>1, <1>2, <1>3

\* It is enough to look at the reader that steps.
LEMMA OneReader ==
    ASSUME StreamIsLog, RowsStay, UNCHANGED emitting, UNCHANGED pending, logFaults' \in 0..MaxLogFaults,
           NEW r \in Readers, NEW q \in ReaderType, NEW w \in Seq(LogEvents),
           NEW g \in Seq(LogEvents), NEW n \in Nat,
           reader' = [reader EXCEPT ![r] = q], wire' = [wire EXCEPT ![r] = w],
           received' = [received EXCEPT ![r] = g], start' = [start EXCEPT ![r] = n],
           TookCommitted(r)' /\ InOrder(r)' /\ NoGap(r)'
    PROVE  StreamIsLog'
<1>p. LogTypeOK /\ NumbersOnce /\ ReceivedInOrder
    BY DEF StreamIsLog
<1>1. LogTypeOK'
    BY <1>p DEF LogTypeOK, RowsStay
<1>2. NumbersOnce'
    BY <1>p DEF NumbersOnce, RowsStay
<1>3. ASSUME NEW x \in Readers, x # r PROVE TookCommitted(x)' /\ InOrder(x)' /\ NoGap(x)'
    <2>1. StreamKept(x)
        BY <1>p, <1>3 DEF StreamKept, LogTypeOK, ReceivedInOrder, InOrder
    <2> QED BY <1>3, <2>1, ReaderKept
<1>4. \A x \in Readers : TookCommitted(x)' /\ InOrder(x)' /\ NoGap(x)'
    BY <1>3
<1> QED BY <1>1, <1>2, <1>4 DEF StreamIsLog, DeletedBelow, ReceivedInOrder, NoGapButOvertaken

\* The first of a sequence of rows and the rest.
LEMMA HeadAndTail ==
    ASSUME NEW S, NEW s \in Seq(S), s # <<>>
    PROVE  /\ 1 \in DOMAIN s /\ Head(s) = s[1] /\ Head(s) \in S /\ Tail(s) \in Seq(S)
           /\ \A i \in DOMAIN Tail(s) : i \in Nat /\ i + 1 \in DOMAIN s /\ Tail(s)[i] = s[i + 1]
           /\ \A i \in DOMAIN s : i \in Nat /\ (i = 1 \/ (1 < i /\ i - 1 \in DOMAIN Tail(s) /\ Tail(s)[i - 1] = s[i]))
           /\ Range(s) = {Head(s)} \cup Range(Tail(s))
<1>1. /\ 1 \in DOMAIN s /\ Head(s) = s[1] /\ Head(s) \in S /\ Tail(s) \in Seq(S)
    OBVIOUS
<1>2. \A i \in DOMAIN Tail(s) : i \in Nat /\ i + 1 \in DOMAIN s /\ Tail(s)[i] = s[i + 1]
    OBVIOUS
<1>3. \A i \in DOMAIN s : i \in Nat /\ (i = 1 \/ (1 < i /\ i - 1 \in DOMAIN Tail(s) /\ Tail(s)[i - 1] = s[i]))
    <2> SUFFICES ASSUME NEW i \in DOMAIN s, i # 1
                 PROVE  i \in Nat /\ 1 < i /\ i - 1 \in DOMAIN Tail(s) /\ Tail(s)[i - 1] = s[i]
        BY <1>1
    <2>1. i \in Nat /\ 1 < i /\ i - 1 \in 1..(Len(s) - 1)
        OBVIOUS
    <2> QED BY <2>1
<1>4. Range(s) = {Head(s)} \cup Range(Tail(s))
    <2>1. ASSUME NEW x \in Range(s) PROVE x \in {Head(s)} \cup Range(Tail(s))
        BY <1>1, <1>3, <2>1 DEF Range
    <2>2. ASSUME NEW x \in {Head(s)} \cup Range(Tail(s)) PROVE x \in Range(s)
        BY <1>1, <1>2, <2>2 DEF Range
    <2> QED BY <2>1, <2>2
<1> QED BY <1>1, <1>2, <1>3, <1>4

(* The elements of a sequence with one more at its end. *)
LEMMA AppendOne ==
    ASSUME NEW S, NEW s \in Seq(S), NEW x \in S
    PROVE  /\ Append(s, x) \in Seq(S) /\ Append(s, x) # <<>> /\ Last(Append(s, x)) = x
           /\ \A i \in DOMAIN Append(s, x) : i \in Nat /\ ((i \in DOMAIN s /\ i < Len(s) + 1 /\ Append(s, x)[i] = s[i])
                                              \/ (i = Len(s) + 1 /\ Append(s, x)[i] = x))
           /\ Range(Append(s, x)) = Range(s) \cup {x}
<1>1. /\ Append(s, x) \in Seq(S) /\ Len(Append(s, x)) = Len(s) + 1 /\ Len(s) \in Nat
      /\ DOMAIN Append(s, x) = 1..(Len(s) + 1) /\ DOMAIN s = 1..Len(s)
    OBVIOUS
<1>2. /\ \A i \in DOMAIN s : i \in DOMAIN Append(s, x) /\ Append(s, x)[i] = s[i]
      /\ Append(s, x)[Len(s) + 1] = x
    OBVIOUS
<1>3. \A i \in DOMAIN Append(s, x) : i \in Nat /\ ((i \in DOMAIN s /\ i < Len(s) + 1 /\ Append(s, x)[i] = s[i])
                                              \/ (i = Len(s) + 1 /\ Append(s, x)[i] = x))
    BY <1>1, <1>2
<1>4. Range(Append(s, x)) = Range(s) \cup {x}
    <2>1. ASSUME NEW y \in Range(Append(s, x)) PROVE y \in Range(s) \cup {x}
        BY <1>3, <2>1 DEF Range
    <2>2. Len(s) + 1 \in DOMAIN Append(s, x)
        BY <1>1
    <2>3. ASSUME NEW y \in Range(s) \cup {x} PROVE y \in Range(Append(s, x))
        BY <1>2, <2>2, <2>3 DEF Range
    <2> QED BY <2>1, <2>3
<1>5. Append(s, x) # <<>> /\ Last(Append(s, x)) = x
    BY <1>1, <1>2 DEF Last
<1> QED BY <1>1, <1>3, <1>4, <1>5

(* The tail of a rising sequence is rising. *)
LEMMA RisingTail ==
    ASSUME seqOf \in [LogEvents -> Nat], NEW s \in Seq(LogEvents), s # <<>>, Rising(s)
    PROVE  Rising(Tail(s)) /\ \A e \in Range(Tail(s)) : seqOf[Head(s)] < seqOf[e]
<1>1. /\ 1 \in DOMAIN s /\ Head(s) = s[1]
      /\ \A i \in DOMAIN Tail(s) : i \in Nat /\ i + 1 \in DOMAIN s /\ Tail(s)[i] = s[i + 1]
    BY HeadAndTail
<1>2. \A i \in DOMAIN Tail(s) : 0 < i
    OBVIOUS
<1>3. Rising(Tail(s))
    <2>1. ASSUME NEW i \in DOMAIN Tail(s), NEW j \in DOMAIN Tail(s), i < j
          PROVE  seqOf[Tail(s)[i]] < seqOf[Tail(s)[j]]
        <3>1. i + 1 < j + 1
            BY <1>1, <2>1
        <3>2. seqOf[s[i + 1]] < seqOf[s[j + 1]]
            BY <1>1, <3>1 DEF Rising
        <3> QED BY <1>1, <3>2
    <2> QED BY <2>1 DEF Rising
<1>4. \A i \in DOMAIN Tail(s) : seqOf[s[1]] < seqOf[Tail(s)[i]]
    BY <1>1, <1>2 DEF Rising
<1> QED BY <1>1, <1>3, <1>4 DEF Range

(* A rising sequence with a larger number at its end is rising. *)
LEMMA RisingAppend ==
    ASSUME seqOf \in [LogEvents -> Nat], NEW s \in Seq(LogEvents), Rising(s), NEW x \in LogEvents,
           \A d \in Range(s) : seqOf[d] < seqOf[x]
    PROVE  Rising(Append(s, x))
<1>1. /\ \A i \in DOMAIN Append(s, x) : i \in Nat /\ ((i \in DOMAIN s /\ i < Len(s) + 1 /\ Append(s, x)[i] = s[i])
                                              \/ (i = Len(s) + 1 /\ Append(s, x)[i] = x))
      /\ Len(s) \in Nat
    BY AppendOne
<1>2. \A i \in DOMAIN s : s[i] \in Range(s)
    BY DEF Range
<1> QED BY <1>1, <1>2 DEF Rising

\* A number stands for one event.
LEMMA OneNumber ==
    ASSUME StreamIsLog, NEW e \in LogEvents, NEW d \in LogEvents, emitting[d] \notin {"idle", "insert"}
    PROVE  /\ seqOf[d] \in Nat \ {0} /\ seqOf[d] < nextSeq
           /\ seqOf[e] = seqOf[d] => e = d
           /\ e \in Inserting => seqOf[e] # seqOf[d] /\ seqOf[e] # 0
<1>p. LogTypeOK /\ NumbersOnce
    BY DEF StreamIsLog
<1> QED BY <1>p DEF LogTypeOK, NumbersOnce, Inserting

\* Position n is above all that r has received; r, which asked to start from st,
\* lacks none of the rows up to n nor of those before the last it received.
AboveReceived(r, n) ==
    \A d \in Range(received[r]), e \in log \cup Inserting : seqOf[e] > n => seqOf[d] < seqOf[e]
NothingPassed(r, n, st) ==
    \A e \in log \cap Wants[r] : seqOf[e] > st /\ <<r, e>> \notin overtaken =>
        /\ received[r] # <<>> /\ seqOf[e] < LastId(r) => e \in Range(received[r])
        /\ seqOf[e] <= n => e \in Range(received[r])

\* A client's stream that starts at such a position.
LEMMA Connected ==
    ASSUME StreamIsLog, NEW r \in Readers, NEW n \in Nat, NEW st \in Nat, reader[r].pc = "off",
           UNCHANGED <<emitVars, pending, wire, received, overtaken, logFaults>>,
           reader' = [reader EXCEPT ![r] = [Off EXCEPT !.pc = "poll", !.cursor = n]],
           start' = [start EXCEPT ![r] = st],
           n < nextSeq, \A e \in Inserting : seqOf[e] # n,
           AboveReceived(r, n), NothingPassed(r, n, st)
    PROVE  StreamIsLog'
<1>p. /\ LogTypeOK /\ TookCommitted(r) /\ InOrder(r) /\ NoGap(r)
      /\ seqOf \in [LogEvents -> Nat] /\ log \subseteq LogEvents /\ Taken(r) \subseteq LogEvents
      /\ wire[r] \in Seq(LogEvents) /\ received[r] \in Seq(LogEvents)
    BY StreamParts
<1>1. PICK q : q = [Off EXCEPT !.pc = "poll", !.cursor = n]
    OBVIOUS
<1>2. q \in ReaderType /\ q.pc = "poll" /\ q.cursor = n /\ q.batch = <<>>
    <2>1. <<>> \in Seq(LogEvents)
        OBVIOUS
    <2> QED BY <1>1, <2>1 DEF ReaderType, Off
<1>3. reader' = [reader EXCEPT ![r] = q]
    BY <1>1
<1>4. reader'[r] = q /\ wire'[r] = wire[r] /\ received'[r] = received[r] /\ start'[r] = st
    BY <1>p, <1>3 DEF LogTypeOK
<1>5. wire[r] = <<>> /\ reader[r].batch = <<>>
    BY <1>p DEF InOrder
<1>6. RowsStay
    BY DEF RowsStay, emitVars, Inserting
<1>7. Range(<<>>) = {}
    BY DEF Range
<1>8. TookCommitted(r)'
    <2>1. Taken(r)' = Taken(r)
        BY <1>2, <1>4, <1>5 DEF Taken
    <2> QED BY <1>p, <1>6, <2>1 DEF TookCommitted, RowsStay
<1>9. InOrder(r)'
    <2>1. Rising(received[r])' /\ Rising(wire[r])' /\ Rising(reader[r].batch)'
        BY <1>p, <1>2, <1>4, <1>5, <1>6 DEF InOrder, Rising, RowsStay
    <2>2. \A d \in Range(received[r]), e \in log \cup Inserting : seqOf[e] > n => seqOf[d] < seqOf[e]
        BY DEF AboveReceived
    <2> QED BY <1>2, <1>4, <1>5, <1>6, <1>7, <2>1, <2>2 DEF InOrder, RowsStay
<1>10. NoGap(r)'
    <2> SUFFICES ASSUME NEW e \in log \cap Wants[r], seqOf[e] > st, <<r, e>> \notin overtaken
                 PROVE  /\ seqOf[e] < LastId(r)' => e \in Range(received[r])
                        /\ seqOf[e] <= n => e \in Range(received[r])
        <3>1. \A i \in DOMAIN reader'[r].batch : FALSE
            <4>1. reader'[r].batch = <<>>
                BY <1>2, <1>4
            <4>2. \A i \in DOMAIN <<>> : FALSE
                OBVIOUS
            <4> QED BY <4>1, <4>2, Zenon
        <3>2. reader'[r].cursor = n /\ received'[r] = received[r] /\ start'[r] = st
            BY <1>2, <1>4
        <3>3. UNCHANGED <<log, seqOf, overtaken>>
            BY <1>6 DEF RowsStay
        <3> QED BY <3>1, <3>2, <3>3 DEF NoGap
    <2>1. /\ received[r] # <<>> /\ seqOf[e] < LastId(r) => e \in Range(received[r])
          /\ seqOf[e] <= n => e \in Range(received[r])
        BY DEF NothingPassed
    <2>2. CASE received[r] = <<>>
        <3>1. LastId(r)' = st /\ seqOf[e] \in Nat
            BY <1>p, <1>4, <2>2 DEF LastId
        <3> QED BY <2>1, <3>1
    <2>3. CASE received[r] # <<>>
        <3>1. LastId(r)' = LastId(r)
            BY <1>4, <1>6, <2>3 DEF LastId, RowsStay
        <3> QED BY <2>1, <2>3, <3>1
    <2> QED BY <2>2, <2>3
<1>11. wire' = [wire EXCEPT ![r] = wire[r]] /\ received' = [received EXCEPT ![r] = received[r]]
    BY <1>p DEF LogTypeOK
<1>12. logFaults' \in 0..MaxLogFaults
    BY <1>p DEF LogTypeOK
<1> QED BY <1>p, <1>2, <1>3, <1>6, <1>8, <1>9, <1>10, <1>11, <1>12, OneReader DEF emitVars

(* A client connects without Last-Event-ID and starts at the newest event. *)
LEMMA ConnectStream ==
    ASSUME StreamIsLog, NEW r \in Readers, ConnectAtTail(r)
    PROVE  StreamIsLog'
<1>p. /\ LogTypeOK /\ NumbersOnce /\ TookCommitted(r)
      /\ seqOf \in [LogEvents -> Nat] /\ log \subseteq LogEvents /\ Taken(r) \subseteq LogEvents
    BY StreamParts
<1>1. PICK n \in CurrentSeq : Connect(r, n)
    BY DEF ConnectAtTail
<1>2. /\ n = 0 \/ \E d \in log : n = seqOf[d]
      /\ \A e \in log : seqOf[e] <= n
    BY DEF CurrentSeq
<1>3. n \in Nat /\ n < nextSeq /\ \A e \in Inserting : seqOf[e] # n
    <2>1. CASE n = 0
        <3>1. \A e \in Inserting : seqOf[e] # 0
            BY <1>p DEF NumbersOnce, Inserting
        <3>2. 0 < nextSeq
            BY <1>p DEF LogTypeOK
        <3> QED BY <2>1, <3>1, <3>2
    <2>2. ASSUME NEW d \in log, n = seqOf[d] PROVE n \in Nat /\ n < nextSeq /\ \A e \in Inserting : seqOf[e] # n
        <3>1. d \in LogEvents /\ emitting[d] \notin {"idle", "insert"}
            BY <1>p, <2>2 DEF NumbersOnce
        <3> QED BY <2>2, <3>1, OneNumber DEF Inserting
    <2> QED BY <1>2, <2>1, <2>2
<1>4. ASSUME NEW d \in Range(received[r]), NEW e \in log \cup Inserting, seqOf[e] > n
      PROVE  seqOf[d] < seqOf[e]
    <2>1. d \in Taken(r) /\ seqOf[d] \in Nat /\ seqOf[e] \in Nat
        BY <1>p DEF Taken, Inserting
    <2>2. CASE d \in log
        <3>1. seqOf[d] <= n
            BY <1>2, <2>2
        <3> QED BY <1>3, <1>4, <2>1, <3>1
    <2>3. CASE d \notin log
        BY <1>p, <2>1, <2>3 DEF TookCommitted
    <2> QED BY <2>2, <2>3
<1>5. \A e \in log \cap Wants[r] : ~(seqOf[e] > n)
    <2> SUFFICES ASSUME NEW e \in log PROVE ~(seqOf[e] > n)
        OBVIOUS
    <2>1. seqOf[e] \in Nat /\ seqOf[e] <= n
        BY <1>p, <1>2
    <2> QED BY <1>3, <2>1
<1>6. AboveReceived(r, n) /\ NothingPassed(r, n, n)
    BY <1>4, <1>5 DEF AboveReceived, NothingPassed
<1> QED BY <1>1, <1>3, <1>6, Connected DEF Connect

(* A client comes back with Last-Event-ID and starts behind it. *)
LEMMA ResumeStream ==
    ASSUME StreamIsLog, NEW r \in Readers, Resume(r)
    PROVE  StreamIsLog'
<1>p. /\ LogTypeOK /\ NumbersOnce /\ TookCommitted(r) /\ InOrder(r) /\ NoGap(r) /\ start[r] \in Nat
      /\ seqOf \in [LogEvents -> Nat] /\ log \subseteq LogEvents /\ Taken(r) \subseteq LogEvents
      /\ received[r] \in Seq(LogEvents)
    BY StreamParts
<1>1. /\ received[r] # <<>> /\ reader[r].pc = "off"
      /\ reader' = [reader EXCEPT ![r] = [Off EXCEPT !.pc = "poll", !.cursor = LastId(r)]]
      /\ UNCHANGED <<emitVars, pending, wire, received, start, overtaken, logFaults>>
    BY DEF Resume
<1>2. PICK R : R = received[r]
    OBVIOUS
<1>3. /\ Len(R) \in DOMAIN R /\ \A i \in DOMAIN R : i \in Nat /\ i <= Len(R) /\ R[i] \in LogEvents
      /\ Last(R) = R[Len(R)]
    BY <1>p, <1>1, <1>2 DEF Last
<1>4. PICK d \in LogEvents : d = R[Len(R)]
    BY <1>3
<1>5. d \in Range(received[r]) /\ LastId(r) = seqOf[d]
    BY <1>1, <1>2, <1>3, <1>4 DEF LastId, Range
<1>6. emitting[d] \notin {"idle", "insert"}
    BY <1>p, <1>5 DEF TookCommitted, Taken
<1>7. LastId(r) \in Nat /\ LastId(r) < nextSeq /\ \A e \in Inserting : seqOf[e] # LastId(r)
    <2>1. \A e \in Inserting : e \in LogEvents
        BY DEF Inserting
    <2> QED BY <1>5, <1>6, <2>1, OneNumber
<1>8. \A x \in Range(received[r]) : seqOf[x] <= seqOf[d] /\ seqOf[x] \in Nat
    <2>1. Rising(R)
        BY <1>p, <1>2 DEF InOrder
    <2>2. \A i \in DOMAIN R : i < Len(R) => seqOf[R[i]] < seqOf[d]
        BY <1>3, <1>4, <2>1 DEF Rising
    <2>3. \A i \in DOMAIN R : seqOf[R[i]] <= seqOf[d] /\ seqOf[R[i]] \in Nat
        BY <1>p, <1>3, <1>4, <2>2
    <2> QED BY <1>2, <2>3 DEF Range
<1>9. ASSUME NEW x \in Range(received[r]), NEW e \in log \cup Inserting, seqOf[e] > LastId(r)
      PROVE  seqOf[x] < seqOf[e]
    <2>1. seqOf[e] \in Nat /\ seqOf[d] \in Nat
        BY <1>p DEF Inserting
    <2> QED BY <1>5, <1>8, <1>9, <2>1
<1>10. ASSUME NEW e \in log \cap Wants[r], seqOf[e] > start[r], <<r, e>> \notin overtaken
       PROVE  /\ seqOf[e] < LastId(r) => e \in Range(received[r])
              /\ seqOf[e] <= LastId(r) => e \in Range(received[r])
    <2>1. seqOf[e] < LastId(r) => e \in Range(received[r])
        BY <1>p, <1>10 DEF NoGap
    <2>2. seqOf[e] = LastId(r) => e \in Range(received[r])
        BY <1>p, <1>5, <1>6, OneNumber
    <2>3. seqOf[e] \in Nat
        BY <1>p
    <2> QED BY <1>7, <2>1, <2>2, <2>3
<1>11. start' = [start EXCEPT ![r] = start[r]]
    BY <1>p, <1>1 DEF LogTypeOK
<1>12. AboveReceived(r, LastId(r)) /\ NothingPassed(r, LastId(r), start[r])
    BY <1>9, <1>10 DEF AboveReceived, NothingPassed
<1>13. PICK n \in Nat : n = LastId(r)
    BY <1>7
<1> QED BY <1>p, <1>1, <1>7, <1>11, <1>12, <1>13, Connected

(* A client that disconnects keeps what it has received. *)
LEMMA DisconnectStream ==
    ASSUME StreamIsLog, NEW r \in Readers, Disconnect(r)
    PROVE  StreamIsLog'
<1>p. /\ LogTypeOK /\ NumbersOnce /\ TookCommitted(r) /\ InOrder(r) /\ NoGap(r) /\ start[r] \in Nat
      /\ seqOf \in [LogEvents -> Nat] /\ log \subseteq LogEvents
      /\ received[r] \in Seq(LogEvents)
    BY StreamParts
<1>1. /\ reader' = [reader EXCEPT ![r] = Off] /\ wire' = [wire EXCEPT ![r] = <<>>]
      /\ UNCHANGED <<emitVars, pending, received, start, overtaken>>
    BY DEF Disconnect
<1>2. Off \in ReaderType /\ Off.pc = "off" /\ Off.cursor = 0 /\ Off.batch = <<>> /\ <<>> \in Seq(LogEvents)
    <2>1. <<>> \in Seq(LogEvents)
        OBVIOUS
    <2> QED BY <2>1 DEF Off, ReaderType
<1>3. reader'[r] = Off /\ wire'[r] = <<>> /\ received'[r] = received[r] /\ start'[r] = start[r]
    BY <1>p, <1>1 DEF LogTypeOK
<1>4. logFaults' \in 0..MaxLogFaults
    BY <1>p, EventLogAssumption DEF Disconnect, LogFault, LogTypeOK
<1>5. RowsStay
    BY <1>1 DEF RowsStay, emitVars, Inserting
<1>6. Range(<<>>) = {}
    BY DEF Range
<1>7. TookCommitted(r)'
    <2>1. Taken(r)' \subseteq Taken(r) /\ Taken(r) \subseteq LogEvents
        BY <1>2, <1>3, <1>6, StreamParts DEF Taken
    <2> QED BY <1>p, <1>5, <2>1 DEF TookCommitted, RowsStay
<1>8. InOrder(r)'
    <2>1. Rising(received[r])' /\ Rising(wire[r])' /\ Rising(reader[r].batch)'
        BY <1>p, <1>2, <1>3, <1>5 DEF InOrder, Rising, RowsStay
    <2>2. 0 < nextSeq /\ \A e \in Inserting : seqOf[e] # 0
        BY <1>p DEF LogTypeOK, NumbersOnce, Inserting
    <2> QED BY <1>2, <1>3, <1>5, <1>6, <2>1, <2>2 DEF InOrder, RowsStay
<1>9. NoGap(r)'
    <2>1. LastId(r)' = LastId(r)
        BY <1>3, <1>5 DEF LastId, RowsStay
    <2> QED BY <1>p, <1>2, <1>3, <1>5, <2>1 DEF NoGap, RowsStay
<1>10. received' = [received EXCEPT ![r] = received[r]] /\ start' = [start EXCEPT ![r] = start[r]]
    BY <1>p, <1>1 DEF LogTypeOK
<1> QED BY <1>p, <1>1, <1>2, <1>4, <1>5, <1>7, <1>8, <1>9, <1>10, OneReader DEF emitVars

\* A reader's step to another place of its loop, with the same rows in hand.
LEMMA LoopStream ==
    ASSUME StreamIsLog, NEW r \in Readers, ReaderPollFails(r) \/ WaitForEvent(r) \/ WaitTimeout(r)
    PROVE  StreamIsLog'
<1>p. /\ LogTypeOK /\ InOrder(r) /\ reader[r] \in ReaderType
      /\ wire[r] \in Seq(LogEvents) /\ received[r] \in Seq(LogEvents) /\ start[r] \in Nat
    BY StreamParts
<1>1. /\ UNCHANGED <<emitVars, pending, wire, received, start, overtaken>>
      /\ reader[r].pc # "off" /\ reader[r].batch = <<>>
    BY <1>p DEF ReaderPollFails, WaitForEvent, WaitTimeout, InOrder
<1>2. PICK k \in {"poll", "send", "wait"} : reader' = [reader EXCEPT ![r].pc = k]
    BY DEF ReaderPollFails, WaitForEvent, WaitTimeout
<1>3. logFaults' \in 0..MaxLogFaults
    BY <1>p, EventLogAssumption DEF ReaderPollFails, WaitForEvent, WaitTimeout, LogFault, LogTypeOK
<1>4. PICK q : q = [reader[r] EXCEPT !.pc = k]
    OBVIOUS
<1>5. q \in ReaderType /\ q.pc = k /\ q.cursor = reader[r].cursor /\ q.batch = reader[r].batch
    BY <1>p, <1>4 DEF ReaderType
<1>6. reader' = [reader EXCEPT ![r] = q] /\ reader'[r] = q
    BY <1>p, <1>2, <1>4 DEF LogTypeOK
<1>7. RowsStay
    BY <1>1 DEF RowsStay, emitVars, Inserting
<1>8. StreamKept(r)
    BY <1>1, <1>5, <1>6 DEF StreamKept
<1>9. TookCommitted(r)' /\ InOrder(r)' /\ NoGap(r)'
    BY <1>7, <1>8, ReaderKept
<1>10. /\ wire' = [wire EXCEPT ![r] = wire[r]] /\ received' = [received EXCEPT ![r] = received[r]]
       /\ start' = [start EXCEPT ![r] = start[r]]
    BY <1>p, <1>1 DEF LogTypeOK
<1>11. UNCHANGED emitting /\ UNCHANGED pending
    BY <1>1 DEF emitVars
<1> QED BY <1>p, <1>3, <1>5, <1>6, <1>7, <1>9, <1>10, <1>11, OneReader

\* Waking the waiters of an instance sends them to poll again.
LEMMA NotifyStream ==
    ASSUME StreamIsLog, NEW i \in Instances, Notify(i), RowsStay,
           UNCHANGED <<wire, received, start, logFaults>>, pending' \in [Listening -> Nat],
           emitting' \in [LogEvents -> {"idle", "insert", "notify", "wake", "done"}],
           \A d \in LogEvents : emitting'[d] = "idle" <=> emitting[d] = "idle"
    PROVE  StreamIsLog'
<1>p. LogTypeOK /\ NumbersOnce
    BY DEF StreamIsLog
<1>1. ASSUME NEW r \in Readers PROVE reader'[r] \in ReaderType /\ StreamKept(r)
    <2>1. InOrder(r) /\ reader[r] \in ReaderType
        BY StreamParts
    <2>2. CASE SeatOf[r] = i /\ reader[r].pc = "wait"
        <3>1. reader'[r] = [reader[r] EXCEPT !.pc = "poll"]
            BY <2>2 DEF Notify
        <3>2. /\ reader'[r] \in ReaderType /\ reader'[r].pc = "poll"
              /\ reader'[r].cursor = reader[r].cursor /\ reader'[r].batch = reader[r].batch
            BY <2>1, <3>1 DEF ReaderType
        <3> QED BY <2>1, <2>2, <3>2 DEF StreamKept, InOrder
    <2>3. CASE ~(SeatOf[r] = i /\ reader[r].pc = "wait")
        <3>1. reader'[r] = reader[r]
            BY <2>3 DEF Notify
        <3> QED BY <2>1, <3>1 DEF StreamKept, InOrder
    <2> QED BY <2>2, <2>3
<1>2. LogTypeOK'
    <2>1. reader' \in [Readers -> ReaderType]
        <3>1. reader' = [r \in Readers |-> reader'[r]]
            BY DEF Notify
        <3> QED BY <1>1, <3>1
    <2> QED BY <1>p, <2>1 DEF LogTypeOK, RowsStay
<1>3. NumbersOnce'
    BY <1>p DEF NumbersOnce, RowsStay, LogTypeOK
<1>4. \A r \in Readers : TookCommitted(r)' /\ InOrder(r)' /\ NoGap(r)'
    BY <1>1, ReaderKept
<1> QED BY <1>2, <1>3, <1>4 DEF StreamIsLog, DeletedBelow, ReceivedInOrder, NoGapButOvertaken

(* A reader is woken by a notification or by its timer. *)
LEMMA WakeStream ==
    ASSUME StreamIsLog, NEW e \in LogEvents, EmitWake(e)
    PROVE  StreamIsLog'
<1>p. LogTypeOK
    BY DEF StreamIsLog
<1>1. /\ emitting[e] = "wake" /\ emitting' = [emitting EXCEPT ![e] = "done"]
      /\ Notify(HomeOf[e]) /\ HomeOf[e] \in Instances
      /\ UNCHANGED <<nextSeq, seqOf, log, pending, wire, received, start, overtaken, logFaults>>
    BY EventLogAssumption DEF EmitWake
<1>2. /\ emitting' \in [LogEvents -> {"idle", "insert", "notify", "wake", "done"}]
      /\ \A d \in LogEvents : /\ emitting'[d] = "idle" <=> emitting[d] = "idle"
                              /\ emitting'[d] = "insert" <=> emitting[d] = "insert"
    BY <1>p, <1>1 DEF LogTypeOK
<1>3. RowsStay
    BY <1>1, <1>2 DEF RowsStay, Inserting
<1>4. pending' \in [Listening -> Nat]
    BY <1>p, <1>1 DEF LogTypeOK
<1> QED BY <1>1, <1>2, <1>3, <1>4, NotifyStream

(* A notification of PostgreSQL wakes the readers of the listener's process. *)
LEMMA PGListenerStream ==
    ASSUME StreamIsLog, NEW i \in Listening, startPGListener(i)
    PROVE  StreamIsLog'
<1>p. LogTypeOK
    BY DEF StreamIsLog
<1>1. i \in Instances /\ Notify(i) /\ UNCHANGED <<emitVars, wire, received, start, overtaken, logFaults>>
    BY EventLogAssumption DEF startPGListener, Listening
<1>2. pending' \in [Listening -> Nat]
    <2>1. pending[i] \in Nat /\ pending[i] > 0
        BY <1>p DEF startPGListener, LogTypeOK
    <2>2. pending[i] - 1 \in Nat
        BY <2>1
    <2> QED BY <1>p, <2>2 DEF startPGListener, LogTypeOK
<1>3. RowsStay /\ emitting' \in [LogEvents -> {"idle", "insert", "notify", "wake", "done"}]
    BY <1>p, <1>1 DEF RowsStay, Inserting, emitVars, LogTypeOK
<1> QED BY <1>1, <1>2, <1>3, NotifyStream DEF emitVars

\* A poll takes what comes next, up to its limit, and leaves out nothing before it.
LEMMA PollStream ==
    ASSUME StreamIsLog, NEW r \in Readers, ReaderPoll(r)
    PROVE  StreamIsLog'
<1>p. /\ LogTypeOK /\ NumbersOnce /\ TookCommitted(r) /\ InOrder(r) /\ NoGap(r)
      /\ seqOf \in [LogEvents -> Nat] /\ log \subseteq LogEvents /\ Taken(r) \subseteq LogEvents
      /\ reader[r] \in ReaderType /\ reader[r].cursor \in Nat
      /\ wire[r] \in Seq(LogEvents) /\ received[r] \in Seq(LogEvents) /\ start[r] \in Nat
    BY StreamParts
<1>1. /\ reader[r].pc = "poll"
      /\ UNCHANGED <<emitVars, pending, wire, received, start, overtaken, logFaults>>
    BY DEF ReaderPoll
<1>2. PICK rows \in Poll(r) : reader' = [reader EXCEPT ![r].pc = "send", ![r].batch = rows]
    BY DEF ReaderPoll
<1>3. rows \in Seq(log \cap Wants[r])
    BY DEF Poll, SeqOf
<1>4. /\ \A i \in DOMAIN rows : seqOf[rows[i]] > reader[r].cursor
      /\ Rising(rows)
      /\ \A e \in log \cap Wants[r] : seqOf[e] > reader[r].cursor =>
              \/ e \in Range(rows)
              \/ Len(rows) = PollLimit /\ \A i \in DOMAIN rows : seqOf[rows[i]] < seqOf[e]
    BY DEF Poll
<1>5. rows \in Seq(LogEvents) /\ \A i \in DOMAIN rows : rows[i] \in log /\ rows[i] \in Range(rows)
    BY <1>p, <1>3 DEF Range
<1>6. \A e \in Range(rows) : e \in log /\ e \in LogEvents /\ seqOf[e] > reader[r].cursor
    BY <1>p, <1>4, <1>5 DEF Range
<1>7. PICK q : q = [reader[r] EXCEPT !.pc = "send", !.batch = rows]
    OBVIOUS
<1>8. q \in ReaderType /\ q.pc = "send" /\ q.cursor = reader[r].cursor /\ q.batch = rows
    BY <1>p, <1>5, <1>7 DEF ReaderType
<1>9. reader' = [reader EXCEPT ![r] = q] /\ reader'[r] = q
    BY <1>p, <1>2, <1>7 DEF LogTypeOK
<1>10. RowsStay
    BY <1>1 DEF RowsStay, emitVars, Inserting
<1>11. reader[r].batch = <<>> /\ Range(<<>>) = {}
    BY <1>p, <1>1 DEF InOrder, Range
<1>12. TookCommitted(r)'
    <2>1. Taken(r)' = Taken(r) \cup Range(rows)
        BY <1>1, <1>8, <1>9, <1>11 DEF Taken
    <2>2. \A d \in Range(rows) : emitting[d] \notin {"idle", "insert"} /\ d \in log
        BY <1>p, <1>6 DEF NumbersOnce
    <2> QED BY <1>p, <1>1, <1>10, <2>1, <2>2 DEF TookCommitted, RowsStay, emitVars
<1>13. InOrder(r)'
    <2>1. Rising(received[r])' /\ Rising(wire[r])' /\ Rising(reader[r].batch)'
        BY <1>p, <1>1, <1>4, <1>8, <1>9, <1>10 DEF InOrder, Rising, RowsStay
    <2>2. \A d \in Range(received[r]) \cup Range(wire[r]) : \A e \in Range(rows) : seqOf[d] < seqOf[e]
        BY <1>p, <1>1, <1>6 DEF InOrder
    <2> QED BY <1>p, <1>1, <1>6, <1>8, <1>9, <1>10, <2>1, <2>2 DEF InOrder, RowsStay
<1>14. NoGap(r)'
    <2>1. LastId(r)' = LastId(r)
        BY <1>1, <1>10 DEF LastId, RowsStay
    <2>2. ASSUME NEW e \in log \cap Wants[r], NEW i \in DOMAIN rows,
                 reader[r].cursor < seqOf[e], seqOf[e] < seqOf[rows[i]]
          PROVE  e \in Range(rows)
        <3>1. seqOf[e] \in Nat /\ seqOf[rows[i]] \in Nat /\ seqOf[e] > reader[r].cursor
            BY <1>p, <1>5, <2>2
        <3> QED BY <1>4, <2>2, <3>1
    <2> QED BY <1>p, <1>1, <1>8, <1>9, <1>10, <2>1, <2>2 DEF NoGap, RowsStay
<1>15. /\ wire' = [wire EXCEPT ![r] = wire[r]] /\ received' = [received EXCEPT ![r] = received[r]]
       /\ start' = [start EXCEPT ![r] = start[r]] /\ logFaults' \in 0..MaxLogFaults
    BY <1>p, <1>1 DEF LogTypeOK
<1>16. UNCHANGED emitting /\ UNCHANGED pending
    BY <1>1 DEF emitVars
<1> QED BY <1>p, <1>8, <1>9, <1>10, <1>12, <1>13, <1>14, <1>15, <1>16, OneReader

\* The first row of the batch goes on the wire and the cursor moves to it.
LEMMA SendStream ==
    ASSUME StreamIsLog, NEW r \in Readers, ReaderSend(r)
    PROVE  StreamIsLog'
<1>p. /\ LogTypeOK /\ NumbersOnce /\ TookCommitted(r) /\ InOrder(r) /\ NoGap(r)
      /\ seqOf \in [LogEvents -> Nat] /\ log \subseteq LogEvents /\ Taken(r) \subseteq LogEvents
      /\ reader[r] \in ReaderType /\ reader[r].cursor \in Nat /\ reader[r].batch \in Seq(LogEvents)
      /\ wire[r] \in Seq(LogEvents) /\ received[r] \in Seq(LogEvents) /\ start[r] \in Nat
    BY StreamParts
<1>1. PICK R, W, B, c : R = received[r] /\ W = wire[r] /\ B = reader[r].batch /\ c = reader[r].cursor
    OBVIOUS
<1>2. R \in Seq(LogEvents) /\ W \in Seq(LogEvents) /\ B \in Seq(LogEvents) /\ c \in Nat
    BY <1>p, <1>1
<1>3. /\ reader[r].pc = "send" /\ B # <<>>
      /\ UNCHANGED <<emitVars, pending, received, start, overtaken, logFaults>>
    BY <1>1 DEF ReaderSend
<1>4. PICK e0 \in LogEvents : e0 = Head(B)
    BY <1>2, <1>3
<1>5. PICK B1, W1 : B1 = Tail(B) /\ W1 = Append(W, e0)
    OBVIOUS
<1>6. /\ B1 \in Seq(LogEvents) /\ W1 \in Seq(LogEvents) /\ seqOf[e0] \in Nat
      /\ Range(B) = {e0} \cup Range(B1) /\ Range(W1) = Range(W) \cup {e0}
      /\ 1 \in DOMAIN B /\ B[1] = e0
      /\ \A i \in DOMAIN B1 : i \in Nat /\ i + 1 \in DOMAIN B /\ B1[i] = B[i + 1]
    BY <1>p, <1>2, <1>3, <1>4, <1>5, HeadAndTail, AppendOne
<1>7. PICK q : q = [reader[r] EXCEPT !.batch = B1, !.cursor = seqOf[e0]]
    OBVIOUS
<1>8. q \in ReaderType /\ q.pc = "send" /\ q.cursor = seqOf[e0] /\ q.batch = B1
    BY <1>p, <1>3, <1>6, <1>7 DEF ReaderType
<1>9. /\ reader' = [reader EXCEPT ![r] = q] /\ wire' = [wire EXCEPT ![r] = W1]
    BY <1>1, <1>4, <1>5, <1>7 DEF ReaderSend
<1>10. reader'[r] = q /\ wire'[r] = W1 /\ received'[r] = R /\ start'[r] = start[r]
    BY <1>p, <1>1, <1>3, <1>9 DEF LogTypeOK
<1>11. RowsStay
    BY <1>3 DEF RowsStay, emitVars, Inserting
<1>12. /\ Rising(R) /\ Rising(W) /\ Rising(B)
       /\ \A d \in Range(R), e \in Range(W) : seqOf[d] < seqOf[e]
       /\ \A d \in Range(R) \cup Range(W) :
            /\ \A e \in Range(B) : seqOf[d] < seqOf[e]
            /\ \A e \in log \cup Inserting : seqOf[e] > c => seqOf[d] < seqOf[e]
       /\ \A e \in Range(B) : seqOf[e] > c
    BY <1>p, <1>1, <1>3 DEF InOrder
<1>13. Rising(B1) /\ \A e \in Range(B1) : seqOf[e0] < seqOf[e]
    BY <1>p, <1>2, <1>3, <1>4, <1>5, <1>12, RisingTail
<1>14. Rising(W1)
    BY <1>p, <1>2, <1>5, <1>6, <1>12, RisingAppend
<1>15. e0 \in Taken(r) /\ emitting[e0] \notin {"idle", "insert"} /\ seqOf[e0] > c
    BY <1>p, <1>1, <1>6, <1>12 DEF Taken, TookCommitted
<1>16. TookCommitted(r)'
    <2>1. Taken(r)' = Taken(r)
        BY <1>1, <1>6, <1>8, <1>10 DEF Taken
    <2> QED BY <1>p, <1>11, <2>1 DEF TookCommitted, RowsStay
<1>17. InOrder(r)'
    <2>1. Rising(received[r])' /\ Rising(wire[r])' /\ Rising(reader[r].batch)'
        BY <1>8, <1>10, <1>11, <1>12, <1>13, <1>14 DEF Rising, RowsStay
    <2>2. \A d \in Range(R), e \in Range(W1) : seqOf[d] < seqOf[e]
        BY <1>6, <1>12
    <2>3. \A d \in Range(R) \cup Range(W1) : \A e \in Range(B1) : seqOf[d] < seqOf[e]
        BY <1>6, <1>12, <1>13
    <2>4. ASSUME NEW d \in Range(R) \cup Range(W1), NEW e \in log \cup Inserting, seqOf[e] > seqOf[e0]
          PROVE  seqOf[d] < seqOf[e]
        <3>1. seqOf[e] \in Nat
            BY <1>p DEF Inserting
        <3>2. seqOf[e] > c
            BY <1>2, <1>6, <1>15, <2>4, <3>1
        <3>3. CASE d = e0
            BY <1>6, <2>4, <3>1, <3>3
        <3> QED BY <1>6, <1>12, <3>2, <3>3
    <2>5. \A e \in Range(B1) : e \in LogEvents /\ seqOf[e] \in Nat
        BY <1>p, <1>6 DEF Range
    <2>6. \A e \in Range(B1) : seqOf[e] > seqOf[e0]
        BY <1>6, <1>13, <2>5
    <2>7. seqOf[e0] < nextSeq /\ \A e \in Inserting : seqOf[e] # seqOf[e0]
        <3>1. \A e \in Inserting : e \in LogEvents
            BY DEF Inserting
        <3> QED BY <1>15, <3>1, OneNumber
    <2> QED BY <1>8, <1>10, <1>11, <2>1, <2>2, <2>3, <2>4, <2>6, <2>7 DEF InOrder, RowsStay
<1>18. NoGap(r)'
    <2>1. LastId(r)' = LastId(r)
        BY <1>1, <1>3, <1>10, <1>11 DEF LastId, RowsStay
    <2> SUFFICES ASSUME NEW e \in log \cap Wants[r], seqOf[e] > start[r], <<r, e>> \notin overtaken
                 PROVE  /\ seqOf[e] < LastId(r) => e \in Range(R)
                        /\ seqOf[e] <= seqOf[e0] => e \in Range(R) \cup Range(W1)
                        /\ \A i \in DOMAIN B1 : seqOf[e0] < seqOf[e] /\ seqOf[e] < seqOf[B1[i]] =>
                             e \in Range(B1)
        BY <1>8, <1>10, <1>11, <2>1 DEF NoGap, RowsStay
    <2>2. /\ seqOf[e] < LastId(r) => e \in Range(R)
          /\ seqOf[e] <= c => e \in Range(R) \cup Range(W)
          /\ \A i \in DOMAIN B : c < seqOf[e] /\ seqOf[e] < seqOf[B[i]] => e \in Range(B)
        BY <1>p, <1>1, <1>3 DEF NoGap
    <2>3. e \in LogEvents /\ seqOf[e] \in Nat
        BY <1>p
    <2>4. ASSUME seqOf[e] <= seqOf[e0] PROVE e \in Range(R) \cup Range(W1)
        <3>1. CASE seqOf[e] <= c
            BY <1>6, <2>2, <3>1
        <3>2. CASE seqOf[e] = seqOf[e0]
            BY <1>6, <1>15, <2>3, <3>2, OneNumber
        <3>3. CASE c < seqOf[e] /\ seqOf[e] < seqOf[e0]
            <4>1. e \in Range(B)
                BY <1>6, <2>2, <3>3
            <4>2. e = e0 \/ seqOf[e0] < seqOf[e]
                BY <1>6, <1>13, <4>1
            <4> QED BY <1>6, <2>3, <3>3, <4>2
        <3> QED BY <1>2, <1>6, <2>3, <2>4, <3>1, <3>2, <3>3
    <2>5. ASSUME NEW i \in DOMAIN B1, seqOf[e0] < seqOf[e], seqOf[e] < seqOf[B1[i]]
          PROVE  e \in Range(B1)
        <3>1. c < seqOf[e]
            BY <1>2, <1>6, <1>15, <2>3, <2>5
        <3>2. i + 1 \in DOMAIN B /\ seqOf[e] < seqOf[B[i + 1]]
            BY <1>6, <2>5
        <3>3. e \in Range(B) /\ e # e0
            BY <1>6, <2>2, <2>3, <2>5, <3>1, <3>2
        <3> QED BY <1>6, <3>3
    <2> QED BY <2>2, <2>4, <2>5
<1>19. /\ received' = [received EXCEPT ![r] = R] /\ start' = [start EXCEPT ![r] = start[r]]
       /\ logFaults' \in 0..MaxLogFaults
    BY <1>p, <1>1, <1>3 DEF LogTypeOK
<1>20. UNCHANGED emitting /\ UNCHANGED pending
    BY <1>3 DEF emitVars
<1> QED BY <1>p, <1>2, <1>6, <1>8, <1>9, <1>11, <1>16, <1>17, <1>18, <1>19, <1>20, OneReader

\* The client receives the first message of the wire.
LEMMA ReceiveStream ==
    ASSUME StreamIsLog, NEW r \in Readers, Receive(r)
    PROVE  StreamIsLog'
<1>p. /\ LogTypeOK /\ NumbersOnce /\ TookCommitted(r) /\ InOrder(r) /\ NoGap(r)
      /\ seqOf \in [LogEvents -> Nat] /\ log \subseteq LogEvents /\ Taken(r) \subseteq LogEvents
      /\ reader[r] \in ReaderType /\ reader[r].cursor \in Nat /\ reader[r].batch \in Seq(LogEvents)
      /\ wire[r] \in Seq(LogEvents) /\ received[r] \in Seq(LogEvents) /\ start[r] \in Nat
    BY StreamParts
<1>1. PICK R, W, B, c : R = received[r] /\ W = wire[r] /\ B = reader[r].batch /\ c = reader[r].cursor
    OBVIOUS
<1>2. R \in Seq(LogEvents) /\ W \in Seq(LogEvents) /\ B \in Seq(LogEvents) /\ c \in Nat
    BY <1>p, <1>1
<1>3. /\ W # <<>> /\ UNCHANGED <<emitVars, pending, reader, start, overtaken, logFaults>>
    BY <1>1 DEF Receive
<1>4. PICK h \in LogEvents : h = Head(W)
    BY <1>2, <1>3
<1>5. PICK W1, R1 : W1 = Tail(W) /\ R1 = Append(R, h)
    OBVIOUS
<1>6. /\ W1 \in Seq(LogEvents) /\ R1 \in Seq(LogEvents) /\ seqOf[h] \in Nat
      /\ Range(W) = {h} \cup Range(W1) /\ Range(R1) = Range(R) \cup {h}
      /\ R1 # <<>> /\ Last(R1) = h
    BY <1>p, <1>2, <1>3, <1>4, <1>5, HeadAndTail, AppendOne
<1>7. received' = [received EXCEPT ![r] = R1] /\ wire' = [wire EXCEPT ![r] = W1]
    BY <1>1, <1>4, <1>5 DEF Receive
<1>8. received'[r] = R1 /\ wire'[r] = W1 /\ reader'[r] = reader[r] /\ start'[r] = start[r]
    BY <1>p, <1>3, <1>7 DEF LogTypeOK
<1>9. RowsStay
    BY <1>3 DEF RowsStay, emitVars, Inserting
<1>10. reader[r].pc # "off"
    BY <1>p, <1>1, <1>3 DEF InOrder
<1>11. /\ Rising(R) /\ Rising(W) /\ Rising(B)
       /\ \A d \in Range(R), e \in Range(W) : seqOf[d] < seqOf[e]
       /\ \A d \in Range(R) \cup Range(W) :
            /\ \A e \in Range(B) : seqOf[d] < seqOf[e]
            /\ \A e \in log \cup Inserting : seqOf[e] > c => seqOf[d] < seqOf[e]
    BY <1>p, <1>1, <1>10 DEF InOrder
<1>12. Rising(W1) /\ \A e \in Range(W1) : seqOf[h] < seqOf[e]
    BY <1>p, <1>2, <1>3, <1>4, <1>5, <1>11, RisingTail
<1>13. Rising(R1)
    BY <1>p, <1>2, <1>5, <1>6, <1>11, RisingAppend
<1>14. Range(R1) \cup Range(W1) = Range(R) \cup Range(W)
    BY <1>6
<1>15. TookCommitted(r)'
    <2>1. Taken(r)' = Taken(r)
        BY <1>1, <1>8, <1>14 DEF Taken
    <2> QED BY <1>p, <1>9, <2>1 DEF TookCommitted, RowsStay
<1>16. InOrder(r)'
    <2>1. Rising(received[r])' /\ Rising(wire[r])' /\ Rising(reader[r].batch)'
        BY <1>1, <1>8, <1>9, <1>11, <1>12, <1>13 DEF Rising, RowsStay
    <2>2. \A d \in Range(R1), e \in Range(W1) : seqOf[d] < seqOf[e]
        BY <1>6, <1>11, <1>12
    <2>3. \A d \in Range(R1) \cup Range(W1) :
            /\ \A e \in Range(B) : seqOf[d] < seqOf[e]
            /\ \A e \in log \cup Inserting : seqOf[e] > c => seqOf[d] < seqOf[e]
        BY <1>11, <1>14
    <2> QED BY <1>p, <1>1, <1>8, <1>9, <1>10, <2>1, <2>2, <2>3 DEF InOrder, RowsStay
<1>17. NoGap(r)'
    <2>1. LastId(r)' = seqOf[h]
        BY <1>6, <1>8, <1>9 DEF LastId, RowsStay
    <2> SUFFICES ASSUME NEW e \in log \cap Wants[r], seqOf[e] > start[r], <<r, e>> \notin overtaken
                 PROVE  /\ seqOf[e] < seqOf[h] => e \in Range(R1)
                        /\ seqOf[e] <= c => e \in Range(R1) \cup Range(W1)
                        /\ \A i \in DOMAIN B : c < seqOf[e] /\ seqOf[e] < seqOf[B[i]] => e \in Range(B)
        BY <1>1, <1>8, <1>9, <2>1 DEF NoGap, RowsStay
    <2>2. /\ seqOf[e] <= c => e \in Range(R) \cup Range(W)
          /\ \A i \in DOMAIN B : c < seqOf[e] /\ seqOf[e] < seqOf[B[i]] => e \in Range(B)
        BY <1>p, <1>1, <1>10 DEF NoGap
    <2>3. e \in LogEvents /\ seqOf[e] \in Nat
        BY <1>p
    <2>4. ASSUME seqOf[e] < seqOf[h] PROVE e \in Range(R1)
        <3>1. CASE seqOf[e] <= c
            <4>1. e \in Range(R) \/ e = h \/ seqOf[h] < seqOf[e]
                BY <1>6, <1>12, <2>2, <3>1
            <4> QED BY <1>6, <2>3, <2>4, <4>1
        <3>2. CASE seqOf[e] > c
            <4>1. seqOf[h] < seqOf[e]
                BY <1>6, <1>11, <3>2
            <4> QED BY <1>6, <2>3, <2>4, <4>1
        <3> QED BY <1>2, <2>3, <3>1, <3>2
    <2> QED BY <1>14, <2>2, <2>4
<1>18. /\ reader' = [reader EXCEPT ![r] = reader[r]] /\ start' = [start EXCEPT ![r] = start[r]]
       /\ logFaults' \in 0..MaxLogFaults
    BY <1>p, <1>3 DEF LogTypeOK
<1>19. UNCHANGED emitting /\ UNCHANGED pending
    BY <1>3 DEF emitVars
<1> QED BY <1>p, <1>6, <1>7, <1>9, <1>15, <1>16, <1>17, <1>18, <1>19, OneReader

(* Every step of the log and its readers keeps StreamIsLog. *)
LEMMA StreamStep == StreamIsLog /\ [LogNext]_logVars => StreamIsLog'
<1> SUFFICES ASSUME StreamIsLog, [LogNext]_logVars PROVE StreamIsLog'
    OBVIOUS
<1>1. CASE UNCHANGED logVars
    <2>1. RowsStay /\ LogTypeOK' /\ NumbersOnce'
        BY <1>1 DEF logVars, RowsStay, Inserting, StreamIsLog, LogTypeOK, NumbersOnce
    <2>2. \A r \in Readers : InOrder(r)
        BY StreamParts
    <2>3. \A r \in Readers : StreamKept(r)
        BY <1>1, <2>2 DEF logVars, StreamKept, InOrder
    <2>4. \A r \in Readers : TookCommitted(r)' /\ InOrder(r)' /\ NoGap(r)'
        BY <2>1, <2>3, ReaderKept
    <2> QED BY <2>1, <2>4 DEF StreamIsLog, DeletedBelow, ReceivedInOrder, NoGapButOvertaken
<1>2. ASSUME NEW e \in LogEvents, \/ EmitInsert(e) \/ EmitCommit(e) \/ EmitInsertFails(e)
                                  \/ EmitPgNotify(e) \/ EmitWake(e)
      PROVE  StreamIsLog'
    BY <1>2, EmitInsertStream, EmitCommitStream, EmitTailStream, WakeStream
<1>3. ASSUME NEW i \in Listening, startPGListener(i) \/ ListenerReconnects(i)
      PROVE  StreamIsLog'
    BY <1>3, PGListenerStream, ListenerStream
<1>4. CASE cleanupEventLog
    BY <1>4, CleanupStream
<1>5. ASSUME NEW r \in Readers, \/ ConnectAtTail(r) \/ Resume(r) \/ ReaderStep(r)
                                \/ ReaderPollFails(r) \/ WaitTimeout(r) \/ Receive(r)
                                \/ Disconnect(r)
      PROVE  StreamIsLog'
    BY <1>5, ConnectStream, ResumeStream, PollStream, SendStream, LoopStream, ReceiveStream,
       DisconnectStream DEF ReaderStep
<1> QED BY <1>1, <1>2, <1>3, <1>4, <1>5 DEF LogNext

(* The empty log satisfies StreamIsLog. *)
LEMMA StreamInit == LogInit => StreamIsLog
<1> SUFFICES ASSUME LogInit PROVE StreamIsLog
    OBVIOUS
<1>1. <<>> \in Seq(LogEvents) /\ Off.pc = "off" /\ Off.cursor = 0 /\ Off.batch = <<>>
    BY DEF Off
<1>2. Off \in ReaderType
    BY <1>1 DEF Off, ReaderType
<1>3. LogTypeOK
    <2>1. nextSeq \in Nat \ {0} /\ logFaults \in 0..MaxLogFaults
        BY EventLogAssumption DEF LogInit
    <2> QED BY <1>1, <1>2, <2>1 DEF LogInit, LogTypeOK
<1>4. NumbersOnce /\ Inserting = {}
    BY DEF LogInit, NumbersOnce, Inserting
<1>5. ASSUME NEW r \in Readers PROVE TookCommitted(r) /\ InOrder(r) /\ NoGap(r)
    <2>1. reader[r] = Off /\ wire[r] = <<>> /\ received[r] = <<>> /\ log = {} /\ nextSeq = 1
        BY DEF LogInit
    <2>2. Range(<<>>) = {} /\ Rising(<<>>)
        BY DEF Range, Rising
    <2>3. Taken(r) = {}
        BY <1>1, <2>1, <2>2 DEF Taken
    <2> QED BY <1>1, <1>4, <2>1, <2>2, <2>3 DEF TookCommitted, InOrder, NoGap
<1> QED BY <1>3, <1>4, <1>5 DEF StreamIsLog, DeletedBelow, ReceivedInOrder, NoGapButOvertaken

\* StreamIsLog: with any number of processes, clients and events, any filters
\* and any limit of Poll, what a client receives over all its connections is in
\* the order of the log, nothing twice, and lacks only events that were
\* committed after its reader had polled past their number.
THEOREM StreamHolds == LogSpec => []StreamIsLog
<1> QED BY StreamInit, StreamStep, PTL DEF LogSpec
=============================================================================
