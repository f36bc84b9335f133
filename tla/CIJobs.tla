-------------------------------- MODULE CIJobs --------------------------------
(***************************************************************************)
(* The CI job queue: the table ci_jobs (internal/db/ci_jobs.go), the       *)
(* scheduler that fills it, hands jobs out and reaps them                  *)
(* (cmd/ci-scheduler), the worker pods that run them (cmd/ci-worker) and   *)
(* the check runs they post (internal/server).  Every statement of the     *)
(* database is one step; a request that looks its token up and then writes *)
(* is two, because nothing ties the two statements together.               *)
(*                                                                         *)
(* All jobs test one commit: jobs of different commits meet only in the    *)
(* queue, jobs of one commit write the same rows of check_runs.  Of the    *)
(* timestamps of a job the age of the one the reaper compares with its 2   *)
(* minutes is kept: seen is COALESCE(last_heartbeat_at, claimed_at).  A    *)
(* request token is named after the pod it was handed to; Orphan is one    *)
(* that nobody received.  Left out is the check "ci/config", which         *)
(* reports a configuration that cannot be used.                            *)
(***************************************************************************)
EXTENDS Integers, Sequences, FiniteSets

CONSTANTS Pods,     \* worker pods; KEDA starts each of them for one job
          Checks,   \* the checks of .docstore/ci.yaml; {} when there is none
          Skips,    \* Skips[trigger]: the checks whose if: is false for it
          Events,   \* webhook events about the commit
          Wants,    \* Wants[event]: the triggers its handler enqueues, in order
          Timers,   \* triggers without an event: "schedule", "manual"
          Nobody,   \* a NULL worker_pod or request_token
          Orphan,   \* a token whose plaintext is lost
          Faults,   \* what may fail: subset of FaultKinds
          MaxJobs   \* bound on the rows of ci_jobs

Triggers == {"push", "proposal_synchronized", "proposal", "schedule", "manual"}
FaultKinds == {"crash", "claim", "setup", "post", "complete", "insert", "lookup"}

ASSUME CIJobsAssumption ==
    /\ Nobody \notin Pods /\ Orphan \notin Pods /\ Nobody # Orphan
    /\ Skips \in [Triggers -> SUBSET Checks]
    /\ Wants \in [Events -> Seq(Triggers)]
    /\ \A e \in Events : \A i \in DOMAIN Wants[e] :   \* the best-effort job comes last
          Wants[e][i] = "proposal_synchronized" => i = Len(Wants[e])
    /\ Timers \subseteq Triggers /\ Faults \subseteq FaultKinds
    /\ MaxJobs \in Nat

VARIABLES jobs,    \* ci_jobs in the order of created_at
          checks,  \* status of the check runs of the commit, attempt 1
          pods,    \* the state of every pod
          req,     \* the requests of a pod whose token was found valid
          beats,   \* the pods with such a heartbeat request
          hooks,   \* deliveries of the events: jobs enqueued so far, acknowledged
          mishap   \* history: a post was lost, or written after the claim was

vars == <<jobs, checks, pods, req, beats, hooks, mishap>>

Polling == [pc |-> "poll", job |-> 0, todo |-> {}, status |-> "passed"]

Init ==
    /\ jobs = <<>>
    /\ checks = [c \in Checks |-> "none"]
    /\ pods = [p \in Pods |-> Polling]
    /\ req = [p \in Pods |-> {}]
    /\ beats = {}
    /\ hooks = [e \in Events |-> [sent |-> 0, acked |-> FALSE]]
    /\ mishap = FALSE

Finished(j) == jobs[j].status \in {"passed", "failed"}
At(p, label) == pods[p].pc = label
Goto(p, label) == pods' = [pods EXCEPT ![p].pc = label]
Exit(p) == pods' = [pods EXCEPT ![p] = [Polling EXCEPT !.pc = "exited", !.job = pods[p].job]]

-----------------------------------------------------------------------------
(* Enqueueing.                                                             *)

InsertCIJob(trigger) ==
    /\ Len(jobs) < MaxJobs
    /\ jobs' = Append(jobs, [trigger |-> trigger, status |-> "queued", pod |-> Nobody,
                             token |-> Nobody, seen |-> "none"])

\* handleCommitCreated and handleProposalOpened: one insert after the other.
\* A delivery is not remembered, so that a repeated one enqueues again.
HookInsert(e) ==
    /\ hooks[e].sent < Len(Wants[e])
    /\ InsertCIJob(Wants[e][hooks[e].sent + 1])
    /\ hooks' = [hooks EXCEPT ![e].sent = @ + 1]
    /\ UNCHANGED <<checks, pods, req, beats, mishap>>

\* 200: the outbox marks the event delivered, or fails to and sends it again.
HookAck(e) ==
    /\ hooks[e].sent = Len(Wants[e])
    /\ hooks' = [hooks EXCEPT ![e] = [sent |-> 0, acked |-> TRUE]]
    /\ UNCHANGED <<jobs, checks, pods, req, beats, mishap>>

\* The open proposals cannot be listed: acknowledged without that job.
HookSkip(e) ==
    /\ "lookup" \in Faults /\ hooks[e].sent < Len(Wants[e])
    /\ Wants[e][hooks[e].sent + 1] = "proposal_synchronized"
    /\ hooks' = [hooks EXCEPT ![e] = [sent |-> 0, acked |-> TRUE]]
    /\ UNCHANGED <<jobs, checks, pods, req, beats, mishap>>

\* An insert fails: 500, and the outbox sends the event again.
HookFailsAcked(e) ==
    /\ "insert" \in Faults /\ hooks[e].sent < Len(Wants[e])
    /\ hooks' = [hooks EXCEPT ![e] = [sent |-> 0, acked |-> TRUE]]
    /\ UNCHANGED <<jobs, checks, pods, req, beats, mishap>>
HookFails(e) ==
    /\ "insert" \in Faults /\ hooks[e].sent < Len(Wants[e])
    /\ hooks' = [hooks EXCEPT ![e].sent = 0]
    /\ UNCHANGED <<jobs, checks, pods, req, beats, mishap>>

\* runScheduledJobs, and POST ci/run of the server.
Enqueue(trigger) ==
    /\ InsertCIJob(trigger)
    /\ UNCHANGED <<checks, pods, req, beats, hooks, mishap>>

-----------------------------------------------------------------------------
(* Claiming.                                                               *)

Queued == {j \in DOMAIN jobs : jobs[j].status = "queued"}
HeldBy(p) == {j \in DOMAIN jobs : jobs[j].status = "claimed" /\ jobs[j].pod = p}

\* claimed_at, unless a late heartbeat left a last_heartbeat_at behind.
ClaimedAtUnset(j) == jobs[j].seen
ClaimedAt(j) == IF jobs[j].seen = "none" THEN "fresh" ELSE jobs[j].seen

\* ClaimCIJob: the oldest queued job, for a pod that has no claimed one.
ClaimUnchecked(p) ==
    /\ At(p, "poll")
    /\ \E j \in Queued :
          /\ \A i \in Queued : j <= i
          /\ jobs' = [jobs EXCEPT ![j].status = "claimed", ![j].pod = p, ![j].seen = ClaimedAt(j)]
          /\ pods' = [pods EXCEPT ![p].pc = "store", ![p].job = j]
    /\ UNCHANGED <<checks, req, beats, hooks, mishap>>
Claim(p) ==
    /\ At(p, "poll") /\ HeldBy(p) = {}
    /\ \E j \in Queued :
          /\ \A i \in Queued : j <= i
          /\ jobs' = [jobs EXCEPT ![j].status = "claimed", ![j].pod = p, ![j].seen = ClaimedAt(j)]
          /\ pods' = [pods EXCEPT ![p].pc = "store", ![p].job = j]
    /\ UNCHANGED <<checks, req, beats, hooks, mishap>>

\* StoreRequestToken, whatever became of the job, and the answer to the pod.
StoreRequestToken(p) ==
    /\ At(p, "store")
    /\ jobs' = [jobs EXCEPT ![pods[p].job].token = p]
    /\ Goto(p, "config")
    /\ UNCHANGED <<checks, req, beats, hooks, mishap>>

\* The token is not stored or the answer is lost: the pod polls again.
ClaimLost(p) ==
    /\ "claim" \in Faults /\ At(p, "store")
    /\ \E token \in {jobs[pods[p].job].token, Orphan} :
          jobs' = [jobs EXCEPT ![pods[p].job].token = token]
    /\ pods' = [pods EXCEPT ![p] = Polling]
    /\ UNCHANGED <<checks, req, beats, hooks, mishap>>

-----------------------------------------------------------------------------
(* Running a job.                                                          *)

\* LookupRequestToken finds the job of the pod's token.
Valid(p) == LET j == jobs[pods[p].job] IN j.status = "claimed" /\ j.token = p

\* The configuration, the secrets and the archive URL need a valid token.
Prepare(p) ==
    /\ At(p, "config") /\ Valid(p)
    /\ pods' = [pods EXCEPT ![p].pc = "pending", ![p].todo = Checks]
    /\ UNCHANGED <<jobs, checks, req, beats, hooks, mishap>>

\* runJob gives up before it marks the checks pending.  A token that was
\* stored too late is refused here and may yet be accepted by completeJob, when
\* another pod has claimed the job in between.
PrepareFails(p) ==
    /\ At(p, "config")
    /\ ~Valid(p) \/ "setup" \in Faults
    /\ pods' = [pods EXCEPT ![p].pc = "complete", ![p].status = "failed"]
    /\ mishap' = (mishap \/ jobs[pods[p].job].token = p)
    /\ UNCHANGED <<jobs, checks, req, beats, hooks>>

\* postCheckRun of check c, and the lookup of handleCICheck: a refused post is
\* only logged by the worker.
PostCheckRun(p, c, status) ==
    /\ c \in pods[p].todo
    /\ req' = IF Valid(p) THEN [req EXCEPT ![p] = @ \cup {[kind |-> "check", check |-> c, status |-> status]}]
              ELSE req

\* Every check is marked pending, those the trigger skips too, in parallel.
PostPending(p, c) ==
    /\ At(p, "pending")
    /\ PostCheckRun(p, c, "pending")
    /\ pods' = [pods EXCEPT ![p].todo = @ \ {c}]
    /\ UNCHANGED <<jobs, checks, beats, hooks, mishap>>

\* Executor.Run returns the results of the checks whose if: holds.
RunNothing(p) ==
    /\ At(p, "pending") /\ pods[p].todo = {} /\ req[p] = {}
    /\ pods' = [pods EXCEPT ![p].pc = "results"]
    /\ UNCHANGED <<jobs, checks, req, beats, hooks, mishap>>
RunChecks(p) ==
    /\ At(p, "pending") /\ pods[p].todo = {} /\ req[p] = {}
    /\ pods' = [pods EXCEPT ![p].pc = "results",
                            ![p].todo = Checks \ Skips[jobs[pods[p].job].trigger]]
    /\ UNCHANGED <<jobs, checks, req, beats, hooks, mishap>>

PostResult(p, c, status) ==
    /\ At(p, "results") /\ req[p] = {}
    /\ PostCheckRun(p, c, status)
    /\ pods' = [pods EXCEPT ![p].todo = @ \ {c}, ![p].status = IF status = "failed" THEN "failed" ELSE @]
    /\ UNCHANGED <<jobs, checks, beats, hooks, mishap>>

AllPosted(p) ==
    /\ At(p, "results") /\ pods[p].todo = {} /\ req[p] = {}
    /\ Goto(p, "complete")
    /\ UNCHANGED <<jobs, checks, req, beats, hooks, mishap>>

\* completeJob and the lookup of handleComplete.  The pod exits whatever the
\* answer is.
Complete(p) ==
    /\ At(p, "complete") /\ req[p] = {}
    /\ req' = IF Valid(p) THEN [req EXCEPT ![p] = {[kind |-> "complete", status |-> pods[p].status]}] ELSE req
    /\ Exit(p)
    /\ UNCHANGED <<jobs, checks, beats, hooks, mishap>>

\* The pod is killed; its request may still be served.
Crash(p) ==
    /\ "crash" \in Faults /\ ~At(p, "exited")
    /\ Exit(p)
    /\ UNCHANGED <<jobs, checks, req, beats, hooks, mishap>>

-----------------------------------------------------------------------------
(* The writes of the requests, by the id found before.                     *)

\* CreateCheckRun: an upsert, the last writer wins.
WriteCheckRun(p) ==
    \E r \in req[p] :
        /\ r.kind = "check"
        /\ checks' = [checks EXCEPT ![r.check] = r.status]
        /\ req' = [req EXCEPT ![p] = @ \ {r}]
        /\ mishap' = (mishap \/ ~Valid(p))
        /\ UNCHANGED <<jobs, pods, beats, hooks>>

CompleteCIJob(p) ==
    \E r \in req[p] :
        /\ r.kind = "complete"
        /\ jobs' = [jobs EXCEPT ![pods[p].job].status = r.status, ![pods[p].job].token = Nobody]
        /\ req' = [req EXCEPT ![p] = @ \ {r}]
        /\ mishap' = (mishap \/ ~Valid(p))
        /\ UNCHANGED <<checks, pods, beats, hooks>>

\* The write fails or the request is cancelled.  A post of a living worker is
\* lost for good, a job that is not completed will be run again.
RequestFails(p) ==
    \E r \in req[p] :
        /\ \/ r.kind = "check" /\ ("post" \in Faults \/ At(p, "exited"))
           \/ r.kind = "complete" /\ "complete" \in Faults
        /\ mishap' = (mishap \/ (r.kind = "check" /\ ~At(p, "exited")))
        /\ req' = [req EXCEPT ![p] = @ \ {r}]
        /\ UNCHANGED <<jobs, checks, pods, beats, hooks>>

-----------------------------------------------------------------------------
(* Heartbeats and the reaper.                                              *)

\* heartbeat, every 30 s while the job runs: errors are only logged.
Heartbeat(p) ==
    /\ pods[p].pc \in {"config", "pending", "results"}
    /\ p \notin beats /\ Valid(p)
    /\ beats' = beats \cup {p}
    /\ UNCHANGED <<jobs, checks, pods, req, hooks, mishap>>

HeartbeatCIJob(p) ==
    /\ p \in beats
    /\ jobs' = [jobs EXCEPT ![pods[p].job].seen = "fresh"]
    /\ beats' = beats \ {p}
    /\ UNCHANGED <<checks, pods, req, hooks, mishap>>

\* 2 minutes pass since the heartbeat or the claim; the age of a finished job
\* is never looked at.
Age(j) ==
    /\ j \in DOMAIN jobs /\ ~Finished(j) /\ jobs[j].seen = "fresh"
    /\ jobs' = [jobs EXCEPT ![j].seen = "old"]
    /\ UNCHANGED <<checks, pods, req, beats, hooks, mishap>>

StaleAnyStatus(j) == j.seen = "old"
Stale(j) == j.status = "claimed" /\ j.seen = "old"

Requeued(j) == [j EXCEPT !.status = "queued", !.pod = Nobody, !.token = Nobody, !.seen = "none"]

\* ReapStaleCIJobs, one statement for all stale jobs.
Reap ==
    /\ \E j \in DOMAIN jobs : Stale(jobs[j])
    /\ jobs' = [j \in DOMAIN jobs |-> IF Stale(jobs[j]) THEN Requeued(jobs[j]) ELSE jobs[j]]
    /\ UNCHANGED <<checks, pods, req, beats, hooks, mishap>>

-----------------------------------------------------------------------------
Work(p) ==
    \/ Claim(p) \/ StoreRequestToken(p) \/ Prepare(p) \/ PrepareFails(p) \/ RunChecks(p)
    \/ AllPosted(p) \/ Complete(p)
    \/ \E c \in Checks : PostPending(p, c) \/ PostResult(p, c, "passed") \/ PostResult(p, c, "failed")

Serve(p) == WriteCheckRun(p) \/ CompleteCIJob(p) \/ RequestFails(p)

Next ==
    \/ \E p \in Pods : \/ Work(p) \/ Serve(p) \/ ClaimLost(p) \/ Crash(p)
                       \/ Heartbeat(p) \/ HeartbeatCIJob(p)
    \/ \E e \in Events : HookInsert(e) \/ HookAck(e) \/ HookSkip(e) \/ HookFails(e)
    \/ \E trigger \in Timers : Enqueue(trigger)
    \/ \E j \in 1..MaxJobs : Age(j)
    \/ Reap

Spec == Init /\ [][Next]_vars

\* A pod that is not killed goes on, the servers serve the requests they
\* started, time passes, the reaper's ticker ticks, and not every answer to a
\* claim is lost.
FairSpec ==
    /\ Spec
    /\ \A p \in Pods : WF_vars(Work(p)) /\ WF_vars(Serve(p)) /\ SF_vars(StoreRequestToken(p))
    /\ \A j \in 1..MaxJobs : WF_vars(Age(j))
    /\ WF_vars(Reap)

-----------------------------------------------------------------------------
(* Properties.                                                             *)

JobRows == [trigger : Triggers, status : {"queued", "claimed", "passed", "failed"},
            pod : Pods \cup {Nobody}, token : Pods \cup {Nobody, Orphan},
            seen : {"none", "fresh", "old"}]

PodRecords == [pc : {"poll", "store", "config", "pending", "results", "complete", "exited"},
               job : 0..MaxJobs, todo : SUBSET Checks, status : {"passed", "failed"}]
Posts == [kind : {"check"}, check : Checks, status : {"pending", "passed", "failed"}]
         \cup [kind : {"complete"}, status : {"passed", "failed"}]

\* Types of the rows and of the pods; a queued job belongs to no pod, and a
\* claimed one to one.
TypeOK ==
    /\ jobs \in Seq(JobRows) /\ Len(jobs) <= MaxJobs
    /\ \A j \in DOMAIN jobs :
          /\ jobs[j].status = "queued" => jobs[j].pod = Nobody
          /\ jobs[j].status = "claimed" => jobs[j].pod # Nobody /\ jobs[j].seen # "none"
    /\ checks \in [Checks -> {"none", "pending", "passed", "failed"}]
    /\ pods \in [Pods -> PodRecords]
    /\ req \in [Pods -> SUBSET Posts]
    /\ beats \subseteq Pods
    /\ hooks \in [Events -> [sent : 0..MaxJobs, acked : BOOLEAN]]
    /\ mishap \in BOOLEAN

\* Where a pod is says which requests of it can be under way: none before it
\* has its token, posts of "pending" until the checks run, and a completion only
\* of a pod that is gone and has nothing else to write.
PodsFit ==
    \A p \in Pods :
        /\ pods[p].pc \notin {"poll", "exited"} \/ req[p] # {} \/ p \in beats => pods[p].job \in DOMAIN jobs
        /\ pods[p].pc \in {"poll", "store"} => p \notin beats
        /\ pods[p].pc \in {"poll", "store", "config"} => req[p] = {}
        /\ pods[p].pc \in {"poll", "store", "config", "complete"} => pods[p].todo = {}
        /\ \A r \in req[p] :
              /\ r.kind = "complete" => At(p, "exited") /\ req[p] = {r}
              /\ r.kind = "check" /\ r.status = "pending" => pods[p].pc \in {"pending", "exited"}

\* "Each pod handles at most one job (enforced by job claiming semantics)": a
\* pod whose claim was answered too late or not at all gets no second job
\* while the first is claimed.
PodHoldsOneJob == \A p \in Pods : Cardinality(HeldBy(p)) <= 1

\* A job that passed or failed is never queued or claimed again, however late
\* the reaper, a worker or the claim handler comes.
FinishedStays ==
    [][\A j \in DOMAIN jobs : Finished(j) => jobs'[j].status \in {"passed", "failed"}]_vars

\* A delivery that has got to its n-th job has the jobs before it in the queue.
SentIsQueued ==
    \A e \in Events :
        /\ hooks[e].sent <= Len(jobs) /\ hooks[e].sent <= Len(Wants[e])
        /\ \A i \in 1..hooks[e].sent : \E j \in DOMAIN jobs : jobs[j].trigger = Wants[e][i]

\* An event the scheduler acknowledged has its job in the queue, although its
\* handler may fail between two inserts and be called again; only the second
\* job of a commit is best effort.
AckedIsQueued ==
    \A e \in Events : hooks[e].acked =>
        \A i \in DOMAIN Wants[e] :
            Wants[e][i] = "proposal_synchronized" \/ \E j \in DOMAIN jobs : jobs[j].trigger = Wants[e][i]

Skipped == UNION {Skips[t] : t \in Triggers}

\* Crashes, reaped jobs, repeated deliveries and jobs that run side by side
\* leave no check pending: once all jobs are finished every check that ran has
\* a result, unless a living worker's post was lost, a job failed before it
\* ran, or a write came after its job was taken away.
ChecksSettle ==
    (~mishap /\ (\A j \in DOMAIN jobs : Finished(j)) /\ (\A p \in Pods : req[p] = {}))
        => \A c \in Checks \ Skipped : checks[c] # "pending"

\* Why that is so.  A pod whose token counts has reported check c once its
\* result is written; the job of a pending check is one that nobody with a valid
\* token has reported it for; and a token that is refused once stays refused.
Reported(p, c) ==
    /\ Valid(p)
    /\ \/ /\ pods[p].pc \in {"results", "complete"} /\ c \notin pods[p].todo
          /\ ~\E r \in req[p] : r.kind = "check" /\ r.check = c
       \/ \E r \in req[p] : r.kind = "complete"
Owes(j, c) == ~Finished(j) /\ \A p \in Pods : pods[p].job = j => ~Reported(p, c)
PendingOwed ==
    ~mishap =>
        /\ \A c \in Checks \ Skipped : checks[c] = "pending" => \E j \in DOMAIN jobs : Owes(j, c)
        /\ \A p \in Pods :
              /\ pods[p].pc \in {"pending", "results", "complete"} \/ req[p] # {}
              /\ jobs[pods[p].job].token = p
              => jobs[pods[p].job].status = "claimed"

\* Every job gets done while there are pods: neither a lost claim, a killed
\* pod, a missed heartbeat nor a failed completion leaves it claimed forever.
EveryJobFinishes ==
    \A j \in 1..MaxJobs :
        j \in DOMAIN jobs ~> ((j \in DOMAIN jobs /\ Finished(j)) \/ \A p \in Pods : At(p, "exited"))

\* The rows of ci_jobs fit each other: a claimed job has its pod, a queued
\* one has none, and no pod has two; and they fit what the pods are doing.
QueueConsistent == TypeOK /\ PodsFit /\ SentIsQueued /\ PodHoldsOneJob
=============================================================================
