------------------------------ MODULE EventLog ------------------------------
(***************************************************************************)
(* The event broker: Emit writes event_log and wakes the waiters of its    *)
(* own process at once and those of the other processes through pg_notify; *)
(* readers (SSE connections and the auto-merge worker) poll the log from a *)
(* cursor and wait between two polls.  Sequence numbers are taken from a   *)
(* BIGSERIAL when a row is inserted and become visible when the insert     *)
(* commits, so the two orders may differ.                                  *)
(***************************************************************************)
EXTENDS Naturals, Sequences, FiniteSets, SequencesExt

CONSTANTS
    LogEvents,   \* the events that requests emit
    Instances,   \* server processes, each with one Broker
    Readers,     \* SSE clients and workers
    Workers,     \* the readers that are auto-merge workers: they never resume
    HomeOf,      \* HomeOf[e]: the instance whose request emits e
    SeatOf,      \* SeatOf[r]: the instance that serves reader r
    Wants,       \* Wants[r]: the events that pass r's repo and type filter
    PollLimit,   \* rows returned by one Poll (200)
    MaxLogFaults \* lost notifications, broken connections, restarts, failed inserts

ASSUME EventLogAssumption ==
    /\ Workers \subseteq Readers
    /\ HomeOf \in [LogEvents -> Instances]
    /\ SeatOf \in [Readers -> Instances]
    /\ Wants \in [Readers -> SUBSET LogEvents]
    /\ PollLimit \in Nat \ {0}
    /\ MaxLogFaults \in Nat

VARIABLES
    nextSeq,     \* event_log_seq_seq
    seqOf,       \* sequence number of an event, 0 before the insert
    emitting,    \* progress of Emit: "idle", "insert", "notify", "wake", "done"
    log,         \* committed rows of event_log
    pending,     \* notifications on their way to an instance's pq.Listener
    reader,      \* state of the reading loop
    wire,        \* messages written to the connection, not yet received
    received,    \* what the client has received, in order (history)
    start,       \* the position the client last asked to start from
    overtaken,   \* <<r, e>>: r had polled past e when e was committed (history)
    logFaults

logVars == <<nextSeq, seqOf, emitting, log, pending, reader, wire, received, start,
          overtaken, logFaults>>
readerVars == <<reader, wire, received, start>>
emitVars == <<nextSeq, seqOf, emitting, log>>

(* Instances whose listener has someone to wake. *)
Listening == {SeatOf[r] : r \in Readers}

Off == [pc |-> "off", cursor |-> 0, batch |-> <<>>]

LogInit ==
    /\ nextSeq = 1
    /\ seqOf = [e \in LogEvents |-> 0]
    /\ emitting = [e \in LogEvents |-> "idle"]
    /\ log = {}
    /\ pending = [i \in Listening |-> 0]
    /\ reader = [r \in Readers |-> Off]
    /\ wire = [r \in Readers |-> <<>>]
    /\ received = [r \in Readers |-> <<>>]
    /\ start = [r \in Readers |-> 0]
    /\ overtaken = {}
    /\ logFaults = 0

LogFault == logFaults < MaxLogFaults /\ logFaults' = logFaults + 1

(* SELECT COALESCE(MAX(seq), 0) FROM event_log: the set of its one answer. *)
CurrentSeq == {n \in {0} \cup {seqOf[e] : e \in log} : \A e \in log : seqOf[e] <= n}

(* The rows have rising numbers. *)
Rising(rows) == \A i, j \in DOMAIN rows : i < j => seqOf[rows[i]] < seqOf[rows[j]]

(* The last position a reader has taken rows up to, and the since_seq with  *)
(* which its client would reconnect.                                        *)
Reached(r) == IF reader[r].batch = <<>> THEN reader[r].cursor
              ELSE seqOf[Last(reader[r].batch)]
LastId(r) == IF received[r] = <<>> THEN start[r] ELSE seqOf[Last(received[r])]

-----------------------------------------------------------------------------

(* Emit: the insert takes a sequence number, then commits. *)
EmitInsert(e) ==
    /\ emitting[e] = "idle"
    /\ emitting' = [emitting EXCEPT ![e] = "insert"]
    /\ seqOf' = [seqOf EXCEPT ![e] = nextSeq]
    /\ nextSeq' = nextSeq + 1
    /\ UNCHANGED <<log, pending, readerVars, overtaken, logFaults>>

EmitCommit(e) ==
    /\ emitting[e] = "insert"
    /\ emitting' = [emitting EXCEPT ![e] = "notify"]
    /\ log' = log \cup {e}
    /\ overtaken' = overtaken \cup
         {<<r, e>> : r \in {x \in Readers : \/ Reached(x) > seqOf[e]
                                      \/ LastId(x) > seqOf[e]}}
    /\ UNCHANGED <<nextSeq, seqOf, pending, readerVars, logFaults>>

(* A failed insert is only logged; Emit goes on with the notification. *)
EmitInsertFails(e) ==
    /\ emitting[e] = "insert" /\ LogFault
    /\ emitting' = [emitting EXCEPT ![e] = "notify"]
    /\ UNCHANGED <<nextSeq, seqOf, log, pending, readerVars, overtaken>>

EmitPgNotify(e) ==
    /\ emitting[e] = "notify"
    /\ emitting' = [emitting EXCEPT ![e] = "wake"]
    /\ pending' = [i \in Listening |-> pending[i] + 1]
    /\ UNCHANGED <<nextSeq, seqOf, log, readerVars, overtaken, logFaults>>

(* Notify closes the channel that the waiters of this process took; a      *)
(* reader that has polled and not yet called WaitForEvent is not woken.    *)
Notify(i) ==
    reader' = [r \in Readers |->
                 IF SeatOf[r] = i /\ reader[r].pc = "wait"
                 THEN [reader[r] EXCEPT !.pc = "poll"] ELSE reader[r]]

EmitWake(e) ==
    /\ emitting[e] = "wake"
    /\ emitting' = [emitting EXCEPT ![e] = "done"]
    /\ Notify(HomeOf[e])
    /\ UNCHANGED <<nextSeq, seqOf, log, pending, wire, received, start, overtaken,
                   logFaults>>

startPGListener(i) ==
    /\ pending[i] > 0
    /\ pending' = [pending EXCEPT ![i] = @ - 1]
    /\ Notify(i)
    /\ UNCHANGED <<emitVars, wire, received, start, overtaken, logFaults>>

(* The listener's connection breaks: what was sent to it is gone. *)
ListenerReconnects(i) ==
    /\ pending[i] > 0 /\ LogFault
    /\ pending' = [pending EXCEPT ![i] = 0]
    /\ UNCHANGED <<emitVars, readerVars, overtaken>>

(* Rows older than 30 days, oldest first; no insert takes that long. *)
cleanupEventLog ==
    \E k \in {seqOf[e] : e \in log} :
        /\ \A e \in LogEvents : emitting[e] = "insert" => seqOf[e] > k
        /\ log' = {e \in log : seqOf[e] > k}
        /\ UNCHANGED <<nextSeq, seqOf, emitting, pending, readerVars, overtaken, logFaults>>

-----------------------------------------------------------------------------
(* streamSSE: a client that reconnects passes since_seq, the id of the last *)
(* message it received; a new client and a worker start from the tail.      *)
Connect(r, from) ==
    /\ reader[r].pc = "off"
    /\ reader' = [reader EXCEPT ![r] = [Off EXCEPT !.pc = "poll", !.cursor = from]]
    /\ start' = [start EXCEPT ![r] = from]
    /\ UNCHANGED <<emitVars, pending, wire, received, overtaken, logFaults>>

ConnectAtTail(r) == \E n \in CurrentSeq : Connect(r, n)

Resume(r) ==
    /\ r \notin Workers
    /\ received[r] # <<>>
    /\ reader[r].pc = "off"
    /\ reader' = [reader EXCEPT ![r] = [Off EXCEPT !.pc = "poll", !.cursor = LastId(r)]]
    /\ UNCHANGED <<emitVars, pending, wire, received, start, overtaken, logFaults>>

(* Mutant. *)
Poll_unordered(r) ==
    {rows \in SeqOf(log \cap Wants[r], PollLimit) :
        /\ \A i \in DOMAIN rows : seqOf[rows[i]] > reader[r].cursor
        /\ \A i, j \in DOMAIN rows : rows[i] = rows[j] => i = j
        /\ \A e \in log \cap Wants[r] : seqOf[e] > reader[r].cursor =>
              e \in Range(rows) \/ Len(rows) = PollLimit}

(* Rows after the cursor that pass the filter, ORDER BY seq LIMIT: the set   *)
(* of its one answer.                                                       *)
Poll(r) ==
    {rows \in SeqOf(log \cap Wants[r], PollLimit) :
        /\ \A i \in DOMAIN rows : seqOf[rows[i]] > reader[r].cursor
        /\ Rising(rows)
        /\ \A e \in log \cap Wants[r] : seqOf[e] > reader[r].cursor =>
              \/ e \in Range(rows)
              \/ Len(rows) = PollLimit /\ \A i \in DOMAIN rows : seqOf[rows[i]] < seqOf[e]}

ReaderPoll(r) ==
    /\ reader[r].pc = "poll"
    /\ \E rows \in Poll(r) : reader' = [reader EXCEPT ![r].pc = "send", ![r].batch = rows]
    /\ UNCHANGED <<emitVars, pending, wire, received, start, overtaken, logFaults>>

(* A failed Poll returns no rows and goes on to the wait. *)
ReaderPollFails(r) ==
    /\ reader[r].pc = "poll" /\ LogFault
    /\ reader' = [reader EXCEPT ![r].pc = "send"]
    /\ UNCHANGED <<emitVars, pending, wire, received, start, overtaken>>

ReaderSend(r) ==
    /\ reader[r].pc = "send"
    /\ reader[r].batch # <<>>
    /\ LET e == Head(reader[r].batch)
       IN /\ wire' = [wire EXCEPT ![r] = Append(@, e)]
          /\ reader' = [reader EXCEPT ![r].batch = Tail(@), ![r].cursor = seqOf[e]]
    /\ UNCHANGED <<emitVars, pending, received, start, overtaken, logFaults>>

(* After the batch the loop waits, also when the log has more rows. *)
WaitForEvent(r) ==
    /\ reader[r].pc = "send"
    /\ reader[r].batch = <<>>
    /\ reader' = [reader EXCEPT ![r].pc = "wait"]
    /\ UNCHANGED <<emitVars, pending, wire, received, start, overtaken, logFaults>>

(* Mutant. *)
WaitTimeout_none(r) == FALSE /\ UNCHANGED logVars

(* The keepalive (15 s) or the worker's 30 s are over. *)
WaitTimeout(r) ==
    /\ reader[r].pc = "wait"
    /\ reader' = [reader EXCEPT ![r].pc = "poll"]
    /\ UNCHANGED <<emitVars, pending, wire, received, start, overtaken, logFaults>>

Receive(r) ==
    /\ wire[r] # <<>>
    /\ received' = [received EXCEPT ![r] = Append(@, Head(wire[r]))]
    /\ wire' = [wire EXCEPT ![r] = Tail(@)]
    /\ UNCHANGED <<emitVars, pending, reader, start, overtaken, logFaults>>

(* The connection breaks, or the worker's process ends. *)
Disconnect(r) ==
    /\ reader[r].pc # "off" /\ LogFault
    /\ reader' = [reader EXCEPT ![r] = Off]
    /\ wire' = [wire EXCEPT ![r] = <<>>]
    /\ UNCHANGED <<emitVars, pending, received, start, overtaken>>

-----------------------------------------------------------------------------
ReaderStep(r) == ReaderPoll(r) \/ ReaderSend(r) \/ WaitForEvent(r)

LogNext ==
    \/ \E e \in LogEvents : \/ EmitInsert(e) \/ EmitCommit(e) \/ EmitInsertFails(e)
                         \/ EmitPgNotify(e) \/ EmitWake(e)
    \/ \E i \in Listening : startPGListener(i) \/ ListenerReconnects(i)
    \/ cleanupEventLog
    \/ \E r \in Readers : \/ ConnectAtTail(r) \/ Resume(r) \/ ReaderStep(r)
                          \/ ReaderPollFails(r) \/ WaitTimeout(r) \/ Receive(r)
                          \/ Disconnect(r)

LogSpec == LogInit /\ [][LogNext]_logVars

-----------------------------------------------------------------------------
ReaderType == [pc : {"off", "poll", "send", "wait"}, cursor : Nat, batch : Seq(LogEvents)]

(* State of log, emitters and readers has its shape; a row has a number. *)
LogTypeOK ==
    /\ nextSeq \in Nat \ {0}
    /\ seqOf \in [LogEvents -> Nat]
    /\ emitting \in [LogEvents -> {"idle", "insert", "notify", "wake", "done"}]
    /\ log \subseteq {e \in LogEvents : seqOf[e] # 0}
    /\ pending \in [Listening -> Nat]
    /\ reader \in [Readers -> ReaderType]
    /\ wire \in [Readers -> Seq(LogEvents)]
    /\ received \in [Readers -> Seq(LogEvents)]
    /\ start \in [Readers -> Nat]
    /\ overtaken \subseteq Readers \X LogEvents
    /\ logFaults \in 0..MaxLogFaults

Inserting == {e \in LogEvents : emitting[e] = "insert"}
Taken(r) == Range(received[r]) \cup Range(wire[r]) \cup Range(reader[r].batch)

(* Numbers are given once, in the order of the inserts.                     *)
NumbersOnce ==
    /\ \A e \in LogEvents : (seqOf[e] = 0 <=> emitting[e] = "idle") /\ seqOf[e] < nextSeq
    /\ \A e, f \in LogEvents : e # f /\ seqOf[e] = seqOf[f] => seqOf[e] = 0
    /\ \A e \in log : emitting[e] \notin {"idle", "insert"}

(* Rows are deleted from the low end, and what a reader took was committed: *)
(* everything in the log or on its way there comes after a deleted row.     *)
TookCommitted(r) ==
    \A d \in Taken(r) :
        /\ emitting[d] \notin {"idle", "insert"}
        /\ d \in log \/ \A e \in log \cup Inserting : seqOf[e] > seqOf[d]
DeletedBelow == \A r \in Readers : TookCommitted(r)

(* What one client receives has rising ids, over all its connections: no    *)
(* event comes twice or late, whatever breaks (streamSSE's since_seq), and  *)
(* neither do the rows behind it, on the wire, in the batch, in the log.    *)
InOrder(r) ==
    /\ Rising(received[r]) /\ Rising(wire[r]) /\ Rising(reader[r].batch)
    /\ \A d \in Range(received[r]), e \in Range(wire[r]) : seqOf[d] < seqOf[e]
    /\ \A d \in Range(received[r]) \cup Range(wire[r]) :
         /\ \A e \in Range(reader[r].batch) : seqOf[d] < seqOf[e]
         /\ \A e \in log \cup Inserting :
              reader[r].pc # "off" /\ seqOf[e] > reader[r].cursor => seqOf[d] < seqOf[e]
    /\ \A e \in Range(reader[r].batch) : seqOf[e] > reader[r].cursor
    /\ reader[r].pc = "off" => reader[r].cursor = 0 /\ wire[r] = <<>>
    /\ reader[r].pc # "send" => reader[r].batch = <<>>
    /\ reader[r].cursor < nextSeq /\ \A e \in Inserting : seqOf[e] # reader[r].cursor
ReceivedInOrder == \A r \in Readers : InOrder(r)

(* Between the position it started from and the last id it received, a      *)
(* client that resumes with since_seq lacks only events that were committed *)
(* after the reader had polled past their number: losing a connection, a    *)
(* notification or a poll loses no event.  The rows a connected reader has  *)
(* passed and not yet delivered are on the wire or in its batch.            *)
NoGap(r) ==
    \A e \in log \cap Wants[r] :
        seqOf[e] > start[r] /\ <<r, e>> \notin overtaken =>
            /\ seqOf[e] < LastId(r) => e \in Range(received[r])
            /\ reader[r].pc # "off" /\ seqOf[e] <= reader[r].cursor =>
                 e \in Range(received[r]) \cup Range(wire[r])
            /\ \A i \in DOMAIN reader[r].batch :
                 reader[r].cursor < seqOf[e] /\ seqOf[e] < seqOf[reader[r].batch[i]] =>
                     e \in Range(reader[r].batch)
NoGapButOvertaken == \A r \in Readers : NoGap(r)

Got(r, e) == e \in Range(received[r])

(* A logged event reaches every reader that stays connected and had not     *)
(* polled past it, although notifications get lost and a reader is not      *)
(* woken when it is between Poll and WaitForEvent: the timeout polls again. *)
LoggedReachesReaders ==
    \A r \in Readers, e \in LogEvents :
        (/\ e \in log \cap Wants[r]
         /\ reader[r].pc # "off"
         /\ seqOf[e] > Reached(r))
        ~> (Got(r, e) \/ reader[r].pc = "off" \/ e \notin log)

(* What the clients of the stream have received is the log, in its order    *)
(* and without a hole but for events that were overtaken.                   *)
StreamIsLog == LogTypeOK /\ NumbersOnce /\ DeletedBelow /\ ReceivedInOrder /\ NoGapButOvertaken
=============================================================================
