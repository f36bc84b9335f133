----------------------------- MODULE CIJobsProofs -----------------------------
(***************************************************************************)
(* Proofs about CI jobs, their tokens and their secrets: CIJobs, JobTokens *)
(* and Secrets, for any number of pods, jobs, checks, webhook events, keys *)
(* and secrets, and with every fault the models know.                      *)
(***************************************************************************)
EXTENDS CIJobs, JobTokens, Secrets, FiniteSetTheorems, TLAPS

USE CIJobsAssumption

-----------------------------------------------------------------------------
(* What a step does to the table ci_jobs.                                  *)

\* A row belongs to a pod exactly as long as it is claimed.
RowFits(w) ==
    /\ w.status = "queued" => w.pod = Nobody
    /\ w.status = "claimed" => w.pod # Nobody /\ w.seen # "none"

Holds(w, p) == w.status = "claimed" /\ w.pod = p

\* Rows keep their type and their trigger, a finished row stays finished, and a
\* pod comes to hold a row only when it held none.
JobsEffect ==
    /\ jobs' \in Seq(JobRows) /\ Len(jobs') <= MaxJobs /\ DOMAIN jobs \subseteq DOMAIN jobs'
    /\ \A j \in DOMAIN jobs' : RowFits(jobs'[j])
    /\ \A j \in DOMAIN jobs :
          /\ jobs'[j].trigger = jobs[j].trigger
          /\ Finished(j) => jobs'[j].status \in {"passed", "failed"}
    /\ \A p \in Pods, j \in DOMAIN jobs' : Holds(jobs'[j], p) =>
          \/ j \in DOMAIN jobs /\ Holds(jobs[j], p)
          \/ /\ \A i \in DOMAIN jobs : ~Holds(jobs[i], p)
             /\ \A i \in DOMAIN jobs' : Holds(jobs'[i], p) => i = j

\* A sequence with one element replaced.
LEMMA RowReplaced ==
    ASSUME NEW S, NEW s \in Seq(S), NEW j \in DOMAIN s, NEW w \in S, NEW t, t = [s EXCEPT ![j] = w]
    PROVE  /\ t \in Seq(S) /\ Len(t) = Len(s) /\ DOMAIN t = DOMAIN s /\ t[j] = w
           /\ \A i \in DOMAIN s : i # j => t[i] = s[i]
OBVIOUS

\* Statements that leave the table alone.
LEMMA NoRowChanges ==
    ASSUME TypeOK, jobs' = jobs
    PROVE  JobsEffect
BY DEF TypeOK, JobsEffect, RowFits, Finished, Holds

\* A statement on one row that does not claim it.
LEMMA OneRowChanges ==
    ASSUME TypeOK, NEW j \in DOMAIN jobs, NEW w \in JobRows, jobs' = [jobs EXCEPT ![j] = w],
           w.trigger = jobs[j].trigger, RowFits(w),
           Finished(j) => w.status \in {"passed", "failed"},
           w.status = "claimed" => jobs[j].status = "claimed" /\ jobs[j].pod = w.pod
    PROVE  JobsEffect
<1>1. jobs \in Seq(JobRows) /\ Len(jobs) <= MaxJobs /\ \A i \in DOMAIN jobs : RowFits(jobs[i])
    BY DEF TypeOK, RowFits
<1>2. /\ jobs' \in Seq(JobRows) /\ Len(jobs') = Len(jobs) /\ DOMAIN jobs' = DOMAIN jobs /\ jobs'[j] = w
      /\ \A i \in DOMAIN jobs : i # j => jobs'[i] = jobs[i]
    BY <1>1, RowReplaced
<1> QED BY <1>1, <1>2 DEF JobsEffect, Finished, Holds

\* InsertCIJob.
LEMMA RowInserted ==
    ASSUME TypeOK, NEW trigger \in Triggers, InsertCIJob(trigger)
    PROVE  /\ JobsEffect
           /\ Len(jobs') = Len(jobs) + 1 /\ jobs'[Len(jobs) + 1].trigger = trigger
           /\ \A j \in DOMAIN jobs : jobs'[j] = jobs[j]
<1>1. PICK w : w = [trigger |-> trigger, status |-> "queued", pod |-> Nobody, token |-> Nobody, seen |-> "none"]
    OBVIOUS
<1>2. w \in JobRows /\ RowFits(w) /\ w.trigger = trigger /\ w.status = "queued"
    BY <1>1 DEF JobRows, RowFits
<1>3. jobs \in Seq(JobRows) /\ Len(jobs) \in Nat /\ Len(jobs) < MaxJobs
    BY DEF TypeOK, InsertCIJob
<1>4. jobs' = Append(jobs, w)
    BY <1>1 DEF InsertCIJob
<1>5. /\ jobs' \in Seq(JobRows) /\ Len(jobs') = Len(jobs) + 1 /\ jobs'[Len(jobs) + 1] = w
      /\ \A j \in DOMAIN jobs : jobs'[j] = jobs[j]
      /\ DOMAIN jobs' = DOMAIN jobs \cup {Len(jobs) + 1} /\ DOMAIN jobs = 1..Len(jobs)
    BY <1>2, <1>3, <1>4
<1>6. JobsEffect
    BY <1>2, <1>3, <1>5 DEF JobsEffect, TypeOK, RowFits, Holds, Finished
<1> QED BY <1>2, <1>5, <1>6

\* ClaimCIJob, the one statement that gives a row to a pod.
LEMMA RowClaimed ==
    ASSUME TypeOK, NEW p \in Pods, Claim(p)
    PROVE  /\ JobsEffect
           /\ \E j \in DOMAIN jobs :
                 /\ jobs[j].status = "queued"
                 /\ jobs'[j].status = "claimed" /\ jobs'[j].token = jobs[j].token
                 /\ \A i \in DOMAIN jobs : i # j => jobs'[i] = jobs[i]
                 /\ DOMAIN jobs' = DOMAIN jobs
                 /\ pods' = [pods EXCEPT ![p].pc = "store", ![p].job = j]
<1>1. jobs \in Seq(JobRows) /\ Len(jobs) <= MaxJobs /\ \A i \in DOMAIN jobs : RowFits(jobs[i])
    BY DEF TypeOK, RowFits
<1>2. PICK j \in DOMAIN jobs :
         /\ jobs[j].status = "queued"
         /\ jobs' = [jobs EXCEPT ![j].status = "claimed", ![j].pod = p, ![j].seen = ClaimedAt(j)]
         /\ pods' = [pods EXCEPT ![p].pc = "store", ![p].job = j]
    BY DEF Claim, Queued
<1>3. \A i \in DOMAIN jobs : ~Holds(jobs[i], p)
    BY DEF Claim, HeldBy, Holds
<1>4. jobs[j] \in JobRows
    BY <1>1
<1>5. ClaimedAt(j) \in {"fresh", "old"}
    BY <1>4 DEF ClaimedAt, JobRows
<1>6. PICK w : w = [jobs[j] EXCEPT !.status = "claimed", !.pod = p, !.seen = ClaimedAt(j)]
    OBVIOUS
<1>7. w \in JobRows
    BY <1>4, <1>5, <1>6 DEF JobRows
<1>8. /\ w.status = "claimed" /\ w.pod = p /\ w.seen = ClaimedAt(j)
      /\ w.trigger = jobs[j].trigger /\ w.token = jobs[j].token
    BY <1>4, <1>6 DEF JobRows
<1>9. jobs' = [jobs EXCEPT ![j] = w]
    BY <1>2, <1>6
<1>10. /\ jobs' \in Seq(JobRows) /\ Len(jobs') = Len(jobs) /\ DOMAIN jobs' = DOMAIN jobs /\ jobs'[j] = w
       /\ \A i \in DOMAIN jobs : i # j => jobs'[i] = jobs[i]
    BY <1>1, <1>7, <1>9, RowReplaced
<1>11. RowFits(w)
    BY <1>5, <1>8 DEF RowFits
<1>12. JobsEffect
    <2>1. \A x \in Pods, i \in DOMAIN jobs' : Holds(jobs'[i], x) =>
            \/ i \in DOMAIN jobs /\ Holds(jobs[i], x)
            \/ /\ \A k \in DOMAIN jobs : ~Holds(jobs[k], x)
               /\ \A k \in DOMAIN jobs' : Holds(jobs'[k], x) => k = i
        BY <1>3, <1>8, <1>10 DEF Holds
    <2>2. \A i \in DOMAIN jobs :
            /\ jobs'[i].trigger = jobs[i].trigger
            /\ Finished(i) => jobs'[i].status \in {"passed", "failed"}
        BY <1>2, <1>8, <1>10 DEF Finished
    <2> QED BY <1>1, <1>10, <1>11, <2>1, <2>2 DEF JobsEffect
<1> QED BY <1>2, <1>8, <1>10, <1>12

\* StoreRequestToken and a claim whose answer is lost: only a token changes.
LEMMA TokenStored ==
    ASSUME TypeOK, NEW j \in DOMAIN jobs, NEW token \in Pods \cup {Nobody, Orphan},
           jobs' = [jobs EXCEPT ![j].token = token]
    PROVE  /\ JobsEffect /\ DOMAIN jobs' = DOMAIN jobs
           /\ jobs'[j].status = jobs[j].status /\ jobs'[j].token = token
           /\ \A i \in DOMAIN jobs : i # j => jobs'[i] = jobs[i]
<1>1. jobs \in Seq(JobRows) /\ jobs[j] \in JobRows /\ RowFits(jobs[j])
    BY DEF TypeOK, RowFits
<1>2. PICK w : w = [jobs[j] EXCEPT !.token = token]
    OBVIOUS
<1>3. w \in JobRows
    BY <1>1, <1>2 DEF JobRows
<1>4. /\ w.status = jobs[j].status /\ w.pod = jobs[j].pod /\ w.seen = jobs[j].seen
      /\ w.trigger = jobs[j].trigger /\ w.token = token
    BY <1>1, <1>2 DEF JobRows
<1>5. jobs' = [jobs EXCEPT ![j] = w]
    BY <1>2
<1>6. JobsEffect
    <2>1. RowFits(w)
        BY <1>1, <1>4 DEF RowFits
    <2>2. Finished(j) => w.status \in {"passed", "failed"}
        BY <1>4 DEF Finished
    <2> QED BY <1>3, <1>4, <1>5, <2>1, <2>2, OneRowChanges
<1> QED BY <1>1, <1>3, <1>4, <1>5, <1>6, RowReplaced

\* HeartbeatCIJob and the passing of time: only the age changes.
LEMMA AgeChanges ==
    ASSUME TypeOK, NEW j \in DOMAIN jobs, NEW age \in {"fresh", "old"},
           jobs' = [jobs EXCEPT ![j].seen = age]
    PROVE  /\ JobsEffect /\ DOMAIN jobs' = DOMAIN jobs
           /\ \A i \in DOMAIN jobs : jobs'[i].status = jobs[i].status /\ jobs'[i].token = jobs[i].token
<1>1. jobs \in Seq(JobRows) /\ jobs[j] \in JobRows /\ RowFits(jobs[j])
    BY DEF TypeOK, RowFits
<1>2. PICK w : w = [jobs[j] EXCEPT !.seen = age]
    OBVIOUS
<1>3. w \in JobRows
    BY <1>1, <1>2 DEF JobRows
<1>4. /\ w.status = jobs[j].status /\ w.pod = jobs[j].pod /\ w.seen = age
      /\ w.trigger = jobs[j].trigger /\ w.token = jobs[j].token
    BY <1>1, <1>2 DEF JobRows
<1>5. jobs' = [jobs EXCEPT ![j] = w]
    BY <1>2
<1>6. JobsEffect
    <2>1. RowFits(w)
        BY <1>1, <1>4 DEF RowFits
    <2>2. Finished(j) => w.status \in {"passed", "failed"}
        BY <1>4 DEF Finished
    <2> QED BY <1>3, <1>4, <1>5, <2>1, <2>2, OneRowChanges
<1>7. /\ DOMAIN jobs' = DOMAIN jobs /\ jobs'[j] = w
      /\ \A i \in DOMAIN jobs : i # j => jobs'[i] = jobs[i]
    BY <1>1, <1>3, <1>5, RowReplaced
<1> QED BY <1>4, <1>6, <1>7

\* CompleteCIJob.
LEMMA RowCompleted ==
    ASSUME TypeOK, NEW j \in DOMAIN jobs, NEW status \in {"passed", "failed"},
           jobs' = [jobs EXCEPT ![j].status = status, ![j].token = Nobody]
    PROVE  /\ JobsEffect /\ DOMAIN jobs' = DOMAIN jobs
           /\ jobs'[j].status = status /\ jobs'[j].token = Nobody
           /\ \A i \in DOMAIN jobs : i # j => jobs'[i] = jobs[i]
<1>1. jobs \in Seq(JobRows) /\ jobs[j] \in JobRows
    BY DEF TypeOK
<1>2. PICK w : w = [jobs[j] EXCEPT !.status = status, !.token = Nobody]
    OBVIOUS
<1>3. w \in JobRows
    BY <1>1, <1>2 DEF JobRows
<1>4. w.status = status /\ w.token = Nobody /\ w.trigger = jobs[j].trigger
    BY <1>1, <1>2 DEF JobRows
<1>5. jobs' = [jobs EXCEPT ![j] = w]
    BY <1>2
<1>6. JobsEffect
    BY <1>3, <1>4, <1>5, OneRowChanges DEF RowFits
<1> QED BY <1>1, <1>3, <1>4, <1>5, <1>6, RowReplaced

\* ReapStaleCIJobs.
LEMMA RowsReaped ==
    ASSUME TypeOK, Reap
    PROVE  /\ JobsEffect /\ DOMAIN jobs' = DOMAIN jobs
           /\ \A j \in DOMAIN jobs :
                 jobs'[j] = jobs[j] \/ (jobs'[j].status = "queued" /\ jobs'[j].token = Nobody)
<1>1. jobs \in Seq(JobRows) /\ Len(jobs) <= MaxJobs /\ \A i \in DOMAIN jobs : RowFits(jobs[i])
    BY DEF TypeOK, RowFits
<1>2. jobs' = [j \in DOMAIN jobs |-> IF Stale(jobs[j]) THEN Requeued(jobs[j]) ELSE jobs[j]]
    BY DEF Reap
<1>3. ASSUME NEW w \in JobRows
      PROVE  /\ Requeued(w) \in JobRows /\ Requeued(w).trigger = w.trigger
             /\ Requeued(w).status = "queued" /\ Requeued(w).pod = Nobody /\ Requeued(w).token = Nobody
    <2>1. PICK v : v = [w EXCEPT !.status = "queued", !.pod = Nobody, !.token = Nobody, !.seen = "none"]
        OBVIOUS
    <2>2. /\ v \in JobRows /\ v.trigger = w.trigger
          /\ v.status = "queued" /\ v.pod = Nobody /\ v.token = Nobody
        BY <2>1 DEF JobRows
    <2> QED BY <2>1, <2>2 DEF Requeued
<1>4. DOMAIN jobs = 1..Len(jobs) /\ Len(jobs) \in Nat /\ \A j \in DOMAIN jobs : jobs[j] \in JobRows
    BY <1>1
<1>5. \A j \in DOMAIN jobs : jobs'[j] = IF Stale(jobs[j]) THEN Requeued(jobs[j]) ELSE jobs[j]
    BY <1>2
<1>6. DOMAIN jobs' = DOMAIN jobs /\ \A j \in DOMAIN jobs : jobs'[j] \in JobRows
    BY <1>2, <1>3, <1>4, <1>5
<1>7. jobs' \in Seq(JobRows) /\ Len(jobs') = Len(jobs)
    <2>1. jobs' \in [1..Len(jobs) -> JobRows]
        BY <1>2, <1>4, <1>6
    <2> QED BY <1>4, <2>1
<1>8. \A j \in DOMAIN jobs : RowFits(jobs'[j])
    BY <1>1, <1>3, <1>4, <1>5 DEF RowFits
<1>9. \A j \in DOMAIN jobs :
        /\ jobs'[j].trigger = jobs[j].trigger
        /\ Finished(j) => jobs'[j].status \in {"passed", "failed"}
    BY <1>3, <1>4, <1>5 DEF Stale, Finished
<1>10. \A p \in Pods, j \in DOMAIN jobs' : Holds(jobs'[j], p) => Holds(jobs[j], p)
    BY <1>3, <1>4, <1>5, <1>6 DEF Holds
<1>11. JobsEffect
    BY <1>1, <1>6, <1>7, <1>8, <1>9, <1>10 DEF JobsEffect
<1> QED BY <1>3, <1>4, <1>5, <1>6, <1>11

\* Every step has the effect on the table that JobsEffect allows.
LEMMA JobsStep == TypeOK /\ PodsFit /\ [Next]_vars => JobsEffect
<1> SUFFICES ASSUME TypeOK, PodsFit, [Next]_vars PROVE JobsEffect
    OBVIOUS
<1>1. CASE jobs' = jobs
    BY <1>1, NoRowChanges
<1>2. ASSUME NEW p \in Pods, Claim(p)
      PROVE  JobsEffect
    BY <1>2, RowClaimed
<1>3. ASSUME NEW p \in Pods, StoreRequestToken(p)
      PROVE  JobsEffect
    <2>1. pods[p].job \in DOMAIN jobs
        BY <1>3 DEF PodsFit, StoreRequestToken, At
    <2> QED BY <1>3, <2>1, TokenStored DEF StoreRequestToken
<1>4. ASSUME NEW p \in Pods, ClaimLost(p)
      PROVE  JobsEffect
    <2>1. pods[p].job \in DOMAIN jobs
        BY <1>4 DEF PodsFit, ClaimLost, At
    <2>2. jobs[pods[p].job].token \in Pods \cup {Nobody, Orphan}
        <3>1. jobs[pods[p].job] \in JobRows
            BY <2>1 DEF TypeOK
        <3> QED BY <3>1 DEF JobRows
    <2> QED BY <1>4, <2>1, <2>2, TokenStored DEF ClaimLost
<1>5. ASSUME NEW p \in Pods, CompleteCIJob(p)
      PROVE  JobsEffect
    <2>1. PICK r \in req[p] :
             /\ r.kind = "complete"
             /\ jobs' = [jobs EXCEPT ![pods[p].job].status = r.status, ![pods[p].job].token = Nobody]
        BY <1>5 DEF CompleteCIJob
    <2>2. pods[p].job \in DOMAIN jobs
        BY <2>1 DEF PodsFit
    <2>3. r.status \in {"passed", "failed"}
        BY <2>1 DEF TypeOK, Posts
    <2> QED BY <2>1, <2>2, <2>3, RowCompleted
<1>6. ASSUME NEW p \in Pods, HeartbeatCIJob(p)
      PROVE  JobsEffect
    <2>1. pods[p].job \in DOMAIN jobs
        BY <1>6 DEF PodsFit, HeartbeatCIJob
    <2> QED BY <1>6, <2>1, AgeChanges DEF HeartbeatCIJob
<1>7. ASSUME NEW j \in 1..MaxJobs, Age(j)
      PROVE  JobsEffect
    BY <1>7, AgeChanges DEF Age
<1>8. CASE Reap
    BY <1>8, RowsReaped
<1>9. ASSUME NEW e \in Events, HookInsert(e)
      PROVE  JobsEffect
    <2>1. Wants[e][hooks[e].sent + 1] \in Triggers
        <3>1. Wants[e] \in Seq(Triggers)
            OBVIOUS
        <3>2. hooks[e].sent + 1 \in 1..Len(Wants[e])
            BY <1>9, <3>1 DEF HookInsert, TypeOK
        <3> QED BY <3>1, <3>2
    <2> QED BY <1>9, <2>1, RowInserted DEF HookInsert
<1>10. ASSUME NEW trigger \in Timers, Enqueue(trigger)
      PROVE  JobsEffect
    BY <1>10, RowInserted DEF Enqueue
<1>11. ASSUME NEW p \in Pods,
              \/ Prepare(p) \/ PrepareFails(p) \/ RunChecks(p) \/ AllPosted(p) \/ Complete(p)
              \/ \E c \in Checks : PostPending(p, c) \/ PostResult(p, c, "passed") \/ PostResult(p, c, "failed")
              \/ WriteCheckRun(p) \/ RequestFails(p) \/ Crash(p) \/ Heartbeat(p)
      PROVE  jobs' = jobs
    BY <1>11 DEF Prepare, PrepareFails, RunChecks, AllPosted, Complete, PostPending, PostResult,
                 WriteCheckRun, RequestFails, Crash, Heartbeat
<1>12. ASSUME NEW e \in Events, HookAck(e) \/ HookSkip(e) \/ HookFails(e)
      PROVE  jobs' = jobs
    BY <1>12 DEF HookAck, HookSkip, HookFails
<1>13. UNCHANGED vars => jobs' = jobs
    BY DEF vars
<1> QED
    BY <1>1, <1>2, <1>3, <1>4, <1>5, <1>6, <1>7, <1>8, <1>9, <1>10, <1>11, <1>12, <1>13
    DEF Next, Work, Serve

-----------------------------------------------------------------------------
(* What a step does to the pods and to their requests.                     *)

\* The part of PodsFit about one pod, as a formula of its values.
PodFit(p, r, posts, beat, rows) ==
    /\ r.pc \notin {"poll", "exited"} \/ posts # {} \/ beat => r.job \in rows
    /\ r.pc \in {"poll", "store"} => ~beat
    /\ r.pc \in {"poll", "store", "config"} => posts = {}
    /\ r.pc \in {"poll", "store", "config", "complete"} => r.todo = {}
    /\ \A q \in posts :
          /\ q.kind = "complete" => r.pc = "exited" /\ posts = {q}
          /\ q.kind = "check" /\ q.status = "pending" => r.pc \in {"pending", "exited"}

PodsEffect ==
    /\ pods' \in [Pods -> PodRecords]
    /\ req' \in [Pods -> SUBSET Posts]
    /\ beats' \subseteq Pods
    /\ PodsFit'

\* Where one pod moves, or its requests do, the others fit as before.
LEMMA OnePodMoves ==
    ASSUME TypeOK, PodsFit, DOMAIN jobs \subseteq DOMAIN jobs',
           NEW p \in Pods, NEW r \in PodRecords, NEW posts \in SUBSET Posts, NEW B \in SUBSET Pods,
           pods' = [pods EXCEPT ![p] = r], req' = [req EXCEPT ![p] = posts], beats' = B,
           \A x \in Pods : x # p => (x \in B <=> x \in beats),
           PodFit(p, r, posts, p \in B, DOMAIN jobs')
    PROVE  PodsEffect
<1>1. /\ pods'[p] = r /\ req'[p] = posts
      /\ \A x \in Pods : x # p => pods'[x] = pods[x] /\ req'[x] = req[x]
      /\ pods' \in [Pods -> PodRecords] /\ req' \in [Pods -> SUBSET Posts]
    BY DEF TypeOK
<1>2. \A x \in Pods : PodFit(x, pods[x], req[x], x \in beats, DOMAIN jobs)
    BY DEF PodsFit, PodFit, At
<1>3. \A x \in Pods : x # p => PodFit(x, pods'[x], req'[x], x \in beats', DOMAIN jobs')
    BY <1>1, <1>2 DEF PodFit
<1>4. \A x \in Pods : PodFit(x, pods'[x], req'[x], x \in beats', DOMAIN jobs')
    BY <1>1, <1>3
<1>5. PodsFit'
    BY <1>4 DEF PodsFit, PodFit, At
<1> QED BY <1>1, <1>5 DEF PodsEffect

\* A step of the table alone.
LEMMA NoPodMoves ==
    ASSUME TypeOK, PodsFit, DOMAIN jobs \subseteq DOMAIN jobs', UNCHANGED <<pods, req, beats>>
    PROVE  PodsEffect
BY DEF TypeOK, PodsFit, PodsEffect, At

\* The posts of a pod are records of one of two kinds.
LEMMA PostTypes ==
    ASSUME TypeOK, NEW p \in Pods
    PROVE  /\ req[p] \in SUBSET Posts
           /\ \A c \in Checks, s \in {"pending", "passed", "failed"} :
                 [kind |-> "check", check |-> c, status |-> s] \in Posts
           /\ \A s \in {"passed", "failed"} : [kind |-> "complete", status |-> s] \in Posts
BY DEF TypeOK, Posts

\* Every step keeps the pods typed and fitting.
LEMMA PodsStep == TypeOK /\ PodsFit /\ [Next]_vars => PodsEffect
<1> SUFFICES ASSUME TypeOK, PodsFit, [Next]_vars PROVE PodsEffect
    OBVIOUS
<1>d. /\ DOMAIN jobs \subseteq DOMAIN jobs'
      /\ DOMAIN jobs \subseteq 1..MaxJobs
    BY JobsStep DEF JobsEffect, TypeOK
<1>f. ASSUME NEW p \in Pods
      PROVE  /\ pods[p] \in PodRecords /\ req[p] \in SUBSET Posts /\ beats \in SUBSET Pods
             /\ PodFit(p, pods[p], req[p], p \in beats, DOMAIN jobs)
    BY DEF TypeOK, PodsFit, PodFit, At
<1>o. ASSUME NEW p \in Pods
      PROVE  /\ req = [req EXCEPT ![p] = req[p]] /\ pods = [pods EXCEPT ![p] = pods[p]]
    BY DEF TypeOK
<1>1. CASE UNCHANGED <<pods, req, beats>>
    BY <1>1, <1>d, NoPodMoves
<1>2. ASSUME NEW p \in Pods, NEW r \in PodRecords, pods' = [pods EXCEPT ![p] = r], UNCHANGED <<req, beats>>,
             PodFit(p, r, req[p], p \in beats, DOMAIN jobs)
      PROVE  PodsEffect
    <2>1. PodFit(p, r, req[p], p \in beats, DOMAIN jobs')
        BY <1>2, <1>d DEF PodFit
    <2> QED BY <1>2, <1>d, <1>f, <1>o, <2>1, OnePodMoves
<1>3. ASSUME NEW p \in Pods, Claim(p)
      PROVE  PodsEffect
    <2>1. PICK j \in DOMAIN jobs : pods' = [pods EXCEPT ![p].pc = "store", ![p].job = j]
        BY <1>3, RowClaimed
    <2>2. PICK r : r = [pods[p] EXCEPT !.pc = "store", !.job = j]
        OBVIOUS
    <2>3. j \in 0..MaxJobs
        BY <1>d
    <2>4. r \in PodRecords
        BY <2>2, <2>3, <1>f DEF PodRecords
    <2>5. r.pc = "store" /\ r.job = j /\ r.todo = pods[p].todo
        BY <2>2, <1>f DEF PodRecords
    <2>6. PodFit(p, r, req[p], p \in beats, DOMAIN jobs)
        BY <1>3, <2>5, <1>f DEF PodFit, Claim, At
    <2>7. pods' = [pods EXCEPT ![p] = r]
        BY <2>1, <2>2
    <2> QED BY <1>2, <1>3, <2>4, <2>6, <2>7 DEF Claim
<1>4. ASSUME NEW p \in Pods, StoreRequestToken(p)
      PROVE  PodsEffect
    <2>1. PICK r : r = [pods[p] EXCEPT !.pc = "config"]
        OBVIOUS
    <2>2. r \in PodRecords
        BY <2>1, <1>f DEF PodRecords
    <2>3. r.pc = "config" /\ r.job = pods[p].job /\ r.todo = pods[p].todo
        BY <2>1, <1>f DEF PodRecords
    <2>4. PodFit(p, r, req[p], p \in beats, DOMAIN jobs)
        BY <1>4, <2>3, <1>f DEF PodFit, StoreRequestToken, At
    <2>5. pods' = [pods EXCEPT ![p] = r]
        BY <1>4, <2>1 DEF StoreRequestToken, Goto
    <2> QED BY <1>2, <1>4, <2>2, <2>4, <2>5 DEF StoreRequestToken
<1>5. ASSUME NEW p \in Pods, ClaimLost(p)
      PROVE  PodsEffect
    <2>1. Polling \in PodRecords /\ Polling.pc = "poll" /\ Polling.todo = {}
        BY DEF Polling, PodRecords
    <2>2. PodFit(p, Polling, req[p], p \in beats, DOMAIN jobs)
        BY <1>5, <2>1, <1>f DEF PodFit, ClaimLost, At
    <2> QED BY <1>2, <1>5, <2>1, <2>2 DEF ClaimLost
<1>6. ASSUME NEW p \in Pods, Prepare(p)
      PROVE  PodsEffect
    <2>1. PICK r : r = [pods[p] EXCEPT !.pc = "pending", !.todo = Checks]
        OBVIOUS
    <2>2. r \in PodRecords
        BY <2>1, <1>f DEF PodRecords
    <2>3. r.pc = "pending" /\ r.job = pods[p].job
        BY <2>1, <1>f DEF PodRecords
    <2>4. PodFit(p, r, req[p], p \in beats, DOMAIN jobs)
        BY <1>6, <2>3, <1>f DEF PodFit, Prepare, At
    <2>5. pods' = [pods EXCEPT ![p] = r]
        BY <1>6, <2>1 DEF Prepare
    <2> QED BY <1>2, <1>6, <2>2, <2>4, <2>5 DEF Prepare
<1>7. ASSUME NEW p \in Pods, PrepareFails(p)
      PROVE  PodsEffect
    <2>1. PICK r : r = [pods[p] EXCEPT !.pc = "complete", !.status = "failed"]
        OBVIOUS
    <2>2. r \in PodRecords
        BY <2>1, <1>f DEF PodRecords
    <2>3. r.pc = "complete" /\ r.job = pods[p].job /\ r.todo = pods[p].todo
        BY <2>1, <1>f DEF PodRecords
    <2>4. PodFit(p, r, req[p], p \in beats, DOMAIN jobs)
        BY <1>7, <2>3, <1>f DEF PodFit, PrepareFails, At
    <2>5. pods' = [pods EXCEPT ![p] = r]
        BY <1>7, <2>1 DEF PrepareFails
    <2> QED BY <1>2, <1>7, <2>2, <2>4, <2>5 DEF PrepareFails
<1>8. ASSUME NEW p \in Pods, RunChecks(p)
      PROVE  PodsEffect
    <2>1. PICK T : T = Checks \ Skips[jobs[pods[p].job].trigger]
        OBVIOUS
    <2>2. PICK r : r = [pods[p] EXCEPT !.pc = "results", !.todo = T]
        OBVIOUS
    <2>3. r \in PodRecords
        BY <2>1, <2>2, <1>f DEF PodRecords
    <2>4. r.pc = "results" /\ r.job = pods[p].job
        BY <2>2, <1>f DEF PodRecords
    <2>5. PodFit(p, r, req[p], p \in beats, DOMAIN jobs)
        BY <1>8, <2>4, <1>f DEF PodFit, RunChecks, At
    <2>6. pods' = [pods EXCEPT ![p] = r]
        BY <1>8, <2>1, <2>2 DEF RunChecks
    <2> QED BY <1>2, <1>8, <2>3, <2>5, <2>6 DEF RunChecks
<1>9. ASSUME NEW p \in Pods, AllPosted(p)
      PROVE  PodsEffect
    <2>1. PICK r : r = [pods[p] EXCEPT !.pc = "complete"]
        OBVIOUS
    <2>2. r \in PodRecords
        BY <2>1, <1>f DEF PodRecords
    <2>3. r.pc = "complete" /\ r.job = pods[p].job /\ r.todo = pods[p].todo
        BY <2>1, <1>f DEF PodRecords
    <2>4. PodFit(p, r, req[p], p \in beats, DOMAIN jobs)
        BY <1>9, <2>3, <1>f DEF PodFit, AllPosted, At
    <2>5. pods' = [pods EXCEPT ![p] = r]
        BY <1>9, <2>1 DEF AllPosted, Goto
    <2> QED BY <1>2, <1>9, <2>2, <2>4, <2>5 DEF AllPosted
<1>10. ASSUME NEW p \in Pods, NEW c \in Checks, PostPending(p, c)
      PROVE  PodsEffect
    <2>1. PICK q : q = [kind |-> "check", check |-> c, status |-> "pending"]
        OBVIOUS
    <2>2. q \in Posts /\ q.kind = "check"
        BY <2>1, PostTypes
    <2>3. PICK posts : posts = IF Valid(p) THEN req[p] \cup {q} ELSE req[p]
        OBVIOUS
    <2>4. req' = [req EXCEPT ![p] = posts] /\ posts \in SUBSET Posts
        BY <1>10, <2>1, <2>2, <2>3, <1>f, <1>o DEF PostPending, PostCheckRun
    <2>5. PICK r : r = [pods[p] EXCEPT !.todo = @ \ {c}]
        OBVIOUS
    <2>6. r \in PodRecords
        BY <2>5, <1>f DEF PodRecords
    <2>7. r.pc = "pending" /\ r.job = pods[p].job
        BY <1>10, <2>5, <1>f DEF PodRecords, PostPending, At
    <2>8. pods' = [pods EXCEPT ![p] = r] /\ beats' = beats
        BY <1>10, <2>5 DEF PostPending
    <2>9. PodFit(p, r, posts, p \in beats, DOMAIN jobs')
        BY <1>10, <1>d, <2>2, <2>3, <2>7, <1>f DEF PodFit, PostPending, At
    <2> QED BY <1>d, <1>f, <2>4, <2>6, <2>8, <2>9, OnePodMoves
<1>11. ASSUME NEW p \in Pods, NEW c \in Checks, NEW status \in {"passed", "failed"}, PostResult(p, c, status)
      PROVE  PodsEffect
    <2>1. PICK q : q = [kind |-> "check", check |-> c, status |-> status]
        OBVIOUS
    <2>2. q \in Posts /\ q.kind = "check" /\ q.status # "pending"
        BY <2>1, PostTypes
    <2>3. PICK posts : posts = IF Valid(p) THEN req[p] \cup {q} ELSE req[p]
        OBVIOUS
    <2>4. req' = [req EXCEPT ![p] = posts] /\ posts \in SUBSET Posts
        BY <1>11, <2>1, <2>2, <2>3, <1>f, <1>o DEF PostResult, PostCheckRun
    <2>5. PICK r : r = [pods[p] EXCEPT !.todo = @ \ {c}, !.status = IF status = "failed" THEN "failed" ELSE @]
        OBVIOUS
    <2>6. r \in PodRecords
        BY <2>5, <1>f DEF PodRecords
    <2>7. r.pc = "results" /\ r.job = pods[p].job
        BY <1>11, <2>5, <1>f DEF PodRecords, PostResult, At
    <2>8. pods' = [pods EXCEPT ![p] = r] /\ beats' = beats
        BY <1>11, <2>5 DEF PostResult
    <2>9. PodFit(p, r, posts, p \in beats, DOMAIN jobs')
        BY <1>11, <1>d, <2>2, <2>3, <2>7, <1>f DEF PodFit, PostResult, At
    <2> QED BY <1>d, <1>f, <2>4, <2>6, <2>8, <2>9, OnePodMoves
<1>e. ASSUME NEW p \in Pods
      PROVE  \E r \in PodRecords : /\ r = [Polling EXCEPT !.pc = "exited", !.job = pods[p].job]
                                   /\ r.pc = "exited" /\ r.job = pods[p].job
    <2>1. PICK r : r = [Polling EXCEPT !.pc = "exited", !.job = pods[p].job]
        OBVIOUS
    <2>2. pods[p].job \in 0..MaxJobs
        BY <1>f DEF PodRecords
    <2>3. Polling \in PodRecords
        BY DEF Polling, PodRecords
    <2>4. r \in PodRecords
        BY <2>1, <2>2, <2>3 DEF PodRecords
    <2>5. r.pc = "exited" /\ r.job = pods[p].job
        BY <2>1, <2>3 DEF PodRecords
    <2> QED BY <2>1, <2>4, <2>5
<1>12. ASSUME NEW p \in Pods, Complete(p)
      PROVE  PodsEffect
    <2>1. PICK q : q = [kind |-> "complete", status |-> pods[p].status]
        OBVIOUS
    <2>2. q \in Posts /\ q.kind = "complete"
        <3>1. pods[p].status \in {"passed", "failed"}
            BY <1>f DEF PodRecords
        <3> QED BY <2>1, <3>1, PostTypes
    <2>3. PICK posts : posts = IF Valid(p) THEN {q} ELSE req[p]
        OBVIOUS
    <2>4. req' = [req EXCEPT ![p] = posts] /\ posts \in SUBSET Posts /\ beats' = beats
        BY <1>12, <2>1, <2>2, <2>3, <1>f, <1>o DEF Complete
    <2>5. PICK r \in PodRecords : pods' = [pods EXCEPT ![p] = r] /\ r.pc = "exited" /\ r.job = pods[p].job
        BY <1>12, <1>e DEF Complete, Exit
    <2>6. PodFit(p, r, posts, p \in beats, DOMAIN jobs')
        BY <1>12, <1>d, <2>2, <2>3, <2>5, <1>f DEF PodFit, Complete, At
    <2> QED BY <1>d, <1>f, <2>4, <2>5, <2>6, OnePodMoves
<1>13. ASSUME NEW p \in Pods, Crash(p)
      PROVE  PodsEffect
    <2>1. PICK r \in PodRecords : pods' = [pods EXCEPT ![p] = r] /\ r.pc = "exited" /\ r.job = pods[p].job
        BY <1>13, <1>e DEF Crash, Exit
    <2>2. PodFit(p, r, req[p], p \in beats, DOMAIN jobs)
        BY <2>1, <1>f DEF PodFit
    <2> QED BY <1>2, <1>13, <2>1, <2>2 DEF Crash
<1>14. ASSUME NEW p \in Pods, Serve(p)
      PROVE  PodsEffect
    <2>1. PICK q \in req[p] : req' = [req EXCEPT ![p] = @ \ {q}]
        BY <1>14 DEF Serve, WriteCheckRun, CompleteCIJob, RequestFails
    <2>2. UNCHANGED <<pods, beats>>
        BY <1>14 DEF Serve, WriteCheckRun, CompleteCIJob, RequestFails
    <2>3. PICK posts : posts = req[p] \ {q}
        OBVIOUS
    <2>4. req' = [req EXCEPT ![p] = posts] /\ posts \in SUBSET Posts
        BY <2>1, <2>3, <1>f
    <2>5. PodFit(p, pods[p], posts, p \in beats, DOMAIN jobs')
        BY <1>d, <2>3, <1>f DEF PodFit
    <2> QED BY <1>d, <1>f, <1>o, <2>2, <2>4, <2>5, OnePodMoves
<1>15. ASSUME NEW p \in Pods, Heartbeat(p) \/ HeartbeatCIJob(p)
      PROVE  PodsEffect
    <2>1. UNCHANGED <<pods, req>>
        BY <1>15 DEF Heartbeat, HeartbeatCIJob
    <2>2. PICK B \in SUBSET Pods : beats' = B /\ \A x \in Pods : x # p => (x \in B <=> x \in beats)
        BY <1>15, <1>f DEF Heartbeat, HeartbeatCIJob
    <2>3. PodFit(p, pods[p], req[p], p \in B, DOMAIN jobs')
        BY <1>15, <1>d, <2>2, <1>f DEF PodFit, Heartbeat, HeartbeatCIJob
    <2> QED BY <1>d, <1>f, <1>o, <2>1, <2>2, <2>3, OnePodMoves
<1>16. ASSUME NEW e \in Events, HookInsert(e) \/ HookAck(e) \/ HookSkip(e) \/ HookFails(e)
      PROVE  UNCHANGED <<pods, req, beats>>
    BY <1>16 DEF HookInsert, HookAck, HookSkip, HookFails
<1>17. ASSUME NEW trigger \in Timers, Enqueue(trigger)
      PROVE  UNCHANGED <<pods, req, beats>>
    BY <1>17 DEF Enqueue
<1>18. ASSUME NEW j \in 1..MaxJobs, Age(j)
      PROVE  UNCHANGED <<pods, req, beats>>
    BY <1>18 DEF Age
<1>19. Reap \/ UNCHANGED vars => UNCHANGED <<pods, req, beats>>
    BY DEF Reap, vars
<1> QED
    BY <1>1, <1>3, <1>4, <1>5, <1>6, <1>7, <1>8, <1>9, <1>10, <1>11, <1>12, <1>13, <1>14, <1>15, <1>16,
       <1>17, <1>18, <1>19
    DEF Next, Work

-----------------------------------------------------------------------------
(* What a step does to the deliveries of the webhook events.               *)

\* A job with this trigger is in the queue or was.
HasJob(rows, trigger) == \E j \in DOMAIN rows : rows[j].trigger = trigger

\* What SentIsQueued and AckedIsQueued say of one delivery.
SentQueued(n, e, rows) ==
    n <= Len(rows) /\ n <= Len(Wants[e]) /\ \A i \in 1..n : HasJob(rows, Wants[e][i])
AllQueued(e, rows) ==
    \A i \in DOMAIN Wants[e] : Wants[e][i] = "proposal_synchronized" \/ HasJob(rows, Wants[e][i])

HookRecords == [sent : 0..MaxJobs, acked : BOOLEAN]

\* No step takes a job out of the table.
LEMMA JobsStay ==
    ASSUME TypeOK, JobsEffect
    PROVE  /\ Len(jobs) <= Len(jobs')
           /\ \A trigger : HasJob(jobs, trigger) => HasJob(jobs', trigger)
<1>1. Len(jobs) \in Nat /\ DOMAIN jobs = 1..Len(jobs) /\ Len(jobs') \in Nat /\ DOMAIN jobs' = 1..Len(jobs')
    BY DEF TypeOK, JobsEffect
<1>2. DOMAIN jobs \subseteq DOMAIN jobs'
    BY DEF JobsEffect
<1>3. Len(jobs) <= Len(jobs')
    BY <1>1, <1>2
<1> QED BY <1>2, <1>3 DEF JobsEffect, HasJob

\* An event whose handler has inserted all it wants, or all but the job that is
\* best effort, may be acknowledged.
LEMMA AllSent ==
    ASSUME NEW e \in Events, NEW n \in Nat, NEW rows, SentQueued(n, e, rows),
           n = Len(Wants[e]) \/ Wants[e][n + 1] = "proposal_synchronized"
    PROVE  AllQueued(e, rows)
<1>1. /\ Len(Wants[e]) \in Nat /\ DOMAIN Wants[e] = 1..Len(Wants[e])
      /\ \A i \in DOMAIN Wants[e] : Wants[e][i] = "proposal_synchronized" => i = Len(Wants[e])
    OBVIOUS
<1> HIDE CIJobsAssumption
<1>2. n <= Len(Wants[e]) /\ \A i \in 1..n : HasJob(rows, Wants[e][i])
    BY DEF SentQueued
<1>3. CASE n = Len(Wants[e])
    BY <1>1, <1>2, <1>3 DEF AllQueued
<1>4. CASE n # Len(Wants[e]) /\ Wants[e][n + 1] = "proposal_synchronized"
    <2>1. n + 1 \in DOMAIN Wants[e]
        BY <1>1, <1>2, <1>4
    <2>2. n + 1 = Len(Wants[e])
        BY <1>1, <1>4, <2>1
    <2>3. \A i \in DOMAIN Wants[e] : i \in 1..n \/ i = n + 1
        BY <1>1, <2>2
    <2> QED BY <1>2, <1>4, <2>3 DEF AllQueued
<1> QED BY <1>3, <1>4

\* A step of the webhook handler moves one delivery on, and acknowledges it
\* only when its jobs are there.
LEMMA HooksStep ==
    ASSUME TypeOK, PodsFit, SentIsQueued, [Next]_vars
    PROVE  \/ hooks' = hooks
           \/ \E e \in Events : \E h \in HookRecords :
                 /\ hooks' = [hooks EXCEPT ![e] = h]
                 /\ SentQueued(h.sent, e, jobs')
                 /\ h.acked => hooks[e].acked \/ AllQueued(e, jobs')
<1>1. ASSUME NEW e \in Events
      PROVE  /\ hooks[e] \in HookRecords /\ hooks[e].sent \in Nat
             /\ SentQueued(hooks[e].sent, e, jobs) /\ SentQueued(0, e, jobs)
             /\ Len(Wants[e]) \in Nat /\ Len(jobs) \in Nat
    <2>1. hooks[e] \in HookRecords
        BY DEF TypeOK, HookRecords
    <2>2. Len(Wants[e]) \in Nat /\ Len(jobs) \in Nat
        BY DEF TypeOK
    <2> QED BY <2>1, <2>2 DEF HookRecords, SentIsQueued, SentQueued, HasJob
<1>2. ASSUME NEW e \in Events, HookInsert(e)
      PROVE  \E h \in HookRecords :
                 /\ hooks' = [hooks EXCEPT ![e] = h]
                 /\ SentQueued(h.sent, e, jobs')
                 /\ h.acked => hooks[e].acked
    <2>1. Wants[e][hooks[e].sent + 1] \in Triggers
        <3>1. Wants[e] \in Seq(Triggers)
            OBVIOUS
        <3>2. hooks[e].sent + 1 \in 1..Len(Wants[e])
            BY <1>1, <1>2 DEF HookInsert
        <3> QED BY <3>1, <3>2
    <2>2. /\ JobsEffect /\ Len(jobs') = Len(jobs) + 1
          /\ jobs'[Len(jobs) + 1].trigger = Wants[e][hooks[e].sent + 1]
        BY <1>2, <2>1, RowInserted DEF HookInsert
    <2>3. Len(jobs') <= MaxJobs /\ Len(jobs) + 1 \in DOMAIN jobs'
        BY <1>1, <2>2 DEF JobsEffect
    <2>4. PICK h : h = [hooks[e] EXCEPT !.sent = @ + 1]
        OBVIOUS
    <2>5. hooks[e].sent + 1 \in 0..MaxJobs
        BY <1>1, <2>2, <2>3 DEF SentQueued
    <2>6. h \in HookRecords
        BY <1>1, <2>4, <2>5 DEF HookRecords
    <2>7. h.sent = hooks[e].sent + 1 /\ h.acked = hooks[e].acked
        BY <1>1, <2>4 DEF HookRecords
    <2>8. HasJob(jobs', Wants[e][hooks[e].sent + 1])
        BY <2>2, <2>3 DEF HasJob
    <2>9. \A i \in 1..(hooks[e].sent + 1) : HasJob(jobs', Wants[e][i])
        BY <1>1, <2>2, <2>8, JobsStay DEF SentQueued
    <2>10. SentQueued(h.sent, e, jobs')
        BY <1>1, <1>2, <2>2, <2>7, <2>9 DEF SentQueued, HookInsert
    <2>11. hooks' = [hooks EXCEPT ![e] = h]
        BY <1>2, <2>4 DEF HookInsert
    <2> QED BY <2>6, <2>7, <2>10, <2>11
<1>3. ASSUME NEW e \in Events, HookAck(e) \/ HookSkip(e)
      PROVE  \E h \in HookRecords :
                 /\ hooks' = [hooks EXCEPT ![e] = h]
                 /\ SentQueued(h.sent, e, jobs')
                 /\ AllQueued(e, jobs')
    <2>1. PICK h : h = [sent |-> 0, acked |-> TRUE]
        OBVIOUS
    <2>2. h \in HookRecords /\ h.sent = 0
        BY <2>1 DEF HookRecords
    <2>3. hooks' = [hooks EXCEPT ![e] = h] /\ jobs' = jobs
        BY <1>3, <2>1 DEF HookAck, HookSkip
    <2>4. AllQueued(e, jobs)
        BY <1>1, <1>3, AllSent DEF HookAck, HookSkip
    <2> QED BY <1>1, <2>2, <2>3, <2>4
<1>4. ASSUME NEW e \in Events, HookFails(e)
      PROVE  \E h \in HookRecords :
                 /\ hooks' = [hooks EXCEPT ![e] = h]
                 /\ SentQueued(h.sent, e, jobs')
                 /\ h.acked => hooks[e].acked
    <2>1. PICK h : h = [hooks[e] EXCEPT !.sent = 0]
        OBVIOUS
    <2>2. h \in HookRecords
        <3>1. hooks[e] \in HookRecords /\ 0 \in 0..MaxJobs
            BY <1>1
        <3> QED BY <2>1, <3>1 DEF HookRecords
    <2>3. h.sent = 0 /\ h.acked = hooks[e].acked
        BY <1>1, <2>1 DEF HookRecords
    <2>4. hooks' = [hooks EXCEPT ![e] = h] /\ jobs' = jobs
        BY <1>4, <2>1 DEF HookFails
    <2> QED BY <1>1, <2>2, <2>3, <2>4
<1>5. ASSUME NEW p \in Pods,
             \/ Work(p) \/ Serve(p) \/ ClaimLost(p) \/ Crash(p) \/ Heartbeat(p) \/ HeartbeatCIJob(p)
      PROVE  hooks' = hooks
    BY <1>5 DEF Work, Claim, StoreRequestToken, Prepare, PrepareFails, RunChecks, AllPosted, Complete,
                PostPending, PostResult, Serve, WriteCheckRun, CompleteCIJob, RequestFails, ClaimLost,
                Crash, Heartbeat, HeartbeatCIJob
<1>6. ASSUME NEW trigger \in Timers, Enqueue(trigger)
      PROVE  hooks' = hooks
    BY <1>6 DEF Enqueue
<1>7. ASSUME NEW j \in 1..MaxJobs, Age(j)
      PROVE  hooks' = hooks
    BY <1>7 DEF Age
<1>8. Reap \/ UNCHANGED vars => hooks' = hooks
    BY DEF Reap, vars
<1>9. ASSUME NEW e \in Events, HookInsert(e) \/ HookAck(e) \/ HookSkip(e) \/ HookFails(e)
      PROVE  \E h \in HookRecords :
                 /\ hooks' = [hooks EXCEPT ![e] = h]
                 /\ SentQueued(h.sent, e, jobs')
                 /\ h.acked => hooks[e].acked \/ AllQueued(e, jobs')
    BY <1>2, <1>3, <1>4, <1>9
<1>10. CASE \E e \in Events : HookInsert(e) \/ HookAck(e) \/ HookSkip(e) \/ HookFails(e)
    BY <1>9, <1>10
<1>11. CASE ~\E e \in Events : HookInsert(e) \/ HookAck(e) \/ HookSkip(e) \/ HookFails(e)
    BY <1>5, <1>6, <1>7, <1>8, <1>11 DEF Next
<1> QED BY <1>10, <1>11

-----------------------------------------------------------------------------
(* The table, the pods and the deliveries fit each other.                  *)

\* PodHoldsOneJob without counting.
HeldOnce ==
    \A p \in Pods : \A i, j \in DOMAIN jobs : Holds(jobs[i], p) /\ Holds(jobs[j], p) => i = j

Queue == TypeOK /\ PodsFit /\ SentIsQueued /\ HeldOnce

(* A job held by one pod at most means that a pod holds one job at most. *)
LEMMA HeldIsOne == HeldOnce => PodHoldsOneJob
<1> SUFFICES ASSUME HeldOnce, NEW p \in Pods PROVE Cardinality(HeldBy(p)) <= 1
    BY DEF PodHoldsOneJob
<1>1. \A i, j \in HeldBy(p) : i = j
    BY DEF HeldOnce, HeldBy, Holds
<1>2. CASE HeldBy(p) = {}
    BY <1>2, FS_EmptySet
<1>3. ASSUME NEW j \in HeldBy(p)
      PROVE  Cardinality(HeldBy(p)) <= 1
    <2>1. HeldBy(p) = {j}
        BY <1>1
    <2>2. Cardinality({j}) = 1
        BY FS_Singleton
    <2> QED BY <2>1, <2>2
<1> QED BY <1>2, <1>3

\* The check runs and the history keep their types.
LEMMA ChecksStep ==
    ASSUME TypeOK, [Next]_vars
    PROVE  checks' \in [Checks -> {"none", "pending", "passed", "failed"}] /\ mishap' \in BOOLEAN
<1>1. checks \in [Checks -> {"none", "pending", "passed", "failed"}] /\ mishap \in BOOLEAN
    BY DEF TypeOK
<1>2. ASSUME NEW p \in Pods, WriteCheckRun(p)
      PROVE  checks' \in [Checks -> {"none", "pending", "passed", "failed"}] /\ mishap' \in BOOLEAN
    <2>1. PICK r \in req[p] : /\ r.kind = "check" /\ checks' = [checks EXCEPT ![r.check] = r.status]
                              /\ mishap' = (mishap \/ ~Valid(p))
        BY <1>2 DEF WriteCheckRun
    <2>2. r \in Posts
        BY DEF TypeOK
    <2>3. r.status \in {"pending", "passed", "failed"}
        BY <2>1, <2>2 DEF Posts
    <2> QED BY <1>1, <2>1, <2>3
<1>3. ASSUME NEW p \in Pods, PrepareFails(p) \/ CompleteCIJob(p) \/ RequestFails(p)
      PROVE  checks' = checks /\ mishap' \in BOOLEAN
    BY <1>1, <1>3 DEF PrepareFails, CompleteCIJob, RequestFails
<1>4. ASSUME NEW p \in Pods,
             \/ Claim(p) \/ StoreRequestToken(p) \/ Prepare(p) \/ RunChecks(p) \/ AllPosted(p) \/ Complete(p)
             \/ \E c \in Checks : PostPending(p, c) \/ PostResult(p, c, "passed") \/ PostResult(p, c, "failed")
             \/ ClaimLost(p) \/ Crash(p) \/ Heartbeat(p) \/ HeartbeatCIJob(p)
      PROVE  UNCHANGED <<checks, mishap>>
    BY <1>4 DEF Claim, StoreRequestToken, Prepare, RunChecks, AllPosted, Complete, PostPending, PostResult,
                ClaimLost, Crash, Heartbeat, HeartbeatCIJob
<1>5. ASSUME NEW e \in Events, HookInsert(e) \/ HookAck(e) \/ HookSkip(e) \/ HookFails(e)
      PROVE  UNCHANGED <<checks, mishap>>
    BY <1>5 DEF HookInsert, HookAck, HookSkip, HookFails
<1>6. ASSUME NEW trigger \in Timers, Enqueue(trigger)
      PROVE  UNCHANGED <<checks, mishap>>
    BY <1>6 DEF Enqueue
<1>7. ASSUME NEW j \in 1..MaxJobs, Age(j)
      PROVE  UNCHANGED <<checks, mishap>>
    BY <1>7 DEF Age
<1>8. Reap \/ UNCHANGED vars => UNCHANGED <<checks, mishap>>
    BY DEF Reap, vars
<1> QED BY <1>1, <1>2, <1>3, <1>4, <1>5, <1>6, <1>7, <1>8 DEF Next, Work, Serve

\* Queue is inductive.
LEMMA QueueStep == Queue /\ [Next]_vars => Queue'
<1> SUFFICES ASSUME Queue, [Next]_vars PROVE Queue'
    OBVIOUS
<1>1. TypeOK /\ PodsFit /\ SentIsQueued /\ HeldOnce
    BY DEF Queue
<1>2. JobsEffect /\ PodsEffect
    BY <1>1, JobsStep, PodsStep
<1>3. HeldOnce'
    BY <1>1, <1>2 DEF HeldOnce, JobsEffect
<1>4. /\ hooks' \in [Events -> HookRecords]
      /\ \A e \in Events : SentQueued(hooks'[e].sent, e, jobs')
    <2>1. hooks \in [Events -> HookRecords]
        BY <1>1 DEF TypeOK, HookRecords
    <2>2. \A e \in Events : SentQueued(hooks[e].sent, e, jobs')
        <3>1. \A e \in Events : hooks[e].sent \in Nat
            BY <2>1 DEF HookRecords
        <3>2. Len(jobs) \in Nat /\ Len(jobs') \in Nat
            BY <1>1, <1>2 DEF TypeOK, JobsEffect
        <3>3. \A e \in Events : /\ hooks[e].sent <= Len(jobs) /\ hooks[e].sent <= Len(Wants[e])
                                /\ \A i \in 1..hooks[e].sent : HasJob(jobs, Wants[e][i])
            BY <1>1 DEF SentIsQueued, HasJob
        <3>4. /\ Len(jobs) <= Len(jobs')
              /\ \A trigger : HasJob(jobs, trigger) => HasJob(jobs', trigger)
            BY <1>1, <1>2, JobsStay
        <3> QED BY <3>1, <3>2, <3>3, <3>4 DEF SentQueued
    <2>3. CASE hooks' = hooks
        BY <2>1, <2>2, <2>3
    <2>4. ASSUME NEW e \in Events, NEW h \in HookRecords, hooks' = [hooks EXCEPT ![e] = h],
                 SentQueued(h.sent, e, jobs')
          PROVE  /\ hooks' \in [Events -> HookRecords]
                 /\ \A x \in Events : SentQueued(hooks'[x].sent, x, jobs')
        <3>1. \A x \in Events : hooks'[x] = IF x = e THEN h ELSE hooks[x]
            BY <2>1, <2>4
        <3> QED BY <2>1, <2>2, <2>4, <3>1
    <2> QED BY <1>1, <2>3, <2>4, HooksStep
<1>5. SentIsQueued'
    BY <1>4 DEF SentIsQueued, SentQueued, HasJob
<1>6. TypeOK'
    BY <1>1, <1>2, <1>4, ChecksStep DEF TypeOK, JobsEffect, RowFits, PodsEffect, HookRecords
<1> QED BY <1>2, <1>3, <1>5, <1>6 DEF Queue, PodsEffect

(* The empty queue with idle pods satisfies the invariant. *)
LEMMA QueueInit == Init => Queue
<1> SUFFICES ASSUME Init PROVE Queue
    OBVIOUS
<1>1. /\ jobs \in Seq(JobRows) /\ Len(jobs) = 0 /\ DOMAIN jobs = {}
    BY DEF Init
<1>2. Polling \in PodRecords /\ Polling.pc = "poll" /\ Polling.todo = {}
    BY DEF Polling, PodRecords
<1>3. /\ pods \in [Pods -> PodRecords] /\ req \in [Pods -> SUBSET Posts] /\ beats \subseteq Pods
      /\ checks \in [Checks -> {"none", "pending", "passed", "failed"}]
    BY <1>2 DEF Init
<1>4. hooks \in [Events -> [sent : 0..MaxJobs, acked : BOOLEAN]] /\ mishap \in BOOLEAN
    <2>1. PICK h : h = [sent |-> 0, acked |-> FALSE]
        OBVIOUS
    <2>2. h \in [sent : 0..MaxJobs, acked : BOOLEAN]
        BY <2>1
    <2>3. hooks = [e \in Events |-> h] /\ mishap = FALSE
        BY <2>1 DEF Init
    <2> QED BY <2>2, <2>3
<1>5. TypeOK
    BY <1>1, <1>3, <1>4 DEF TypeOK
<1>6. PodsFit
    BY <1>2 DEF Init, PodsFit
<1>7. SentIsQueued
    <2>1. \A e \in Events : hooks[e].sent = 0 /\ Len(Wants[e]) \in Nat
        BY DEF Init
    <2> QED BY <1>1, <2>1 DEF SentIsQueued
<1>8. HeldOnce
    BY <1>1 DEF HeldOnce
<1> QED BY <1>5, <1>6, <1>7, <1>8 DEF Queue

(* The queue, the pods and the requests being served fit together in every
   reachable state: the inductive invariant of the worker protocol. *)
THEOREM QueueInvariant == Spec => []Queue
<1>1. Queue /\ UNCHANGED vars => Queue'
    BY QueueStep
<1> QED BY QueueInit, QueueStep, PTL DEF Spec

\* QueueConsistent: a job belongs to a pod exactly as long as it is claimed, a
\* pod never holds two jobs, whatever answers to a claim are lost and however
\* often the reaper takes a job back, and no request outlives what it needs.
THEOREM QueueHolds == Spec => []QueueConsistent
<1>1. Queue => QueueConsistent
    BY HeldIsOne DEF Queue, QueueConsistent
<1> QED BY <1>1, QueueInvariant, PTL

\* FinishedStays: neither the reaper, a late worker nor a late claim takes a job
\* up again that has its result.
THEOREM FinishedHolds == Spec => FinishedStays
<1>1. Queue /\ [Next]_vars => [\A j \in DOMAIN jobs : Finished(j) => jobs'[j].status \in {"passed", "failed"}]_vars
    BY JobsStep DEF Queue, JobsEffect
<1> QED BY <1>1, QueueInvariant, PTL DEF Spec, FinishedStays

\* AckedIsQueued: the handler of an event may fail between two inserts and be
\* called again, but it acknowledges the event only with its jobs in the queue.
THEOREM AcknowledgedIsQueued == Spec => []AckedIsQueued
<1> DEFINE Inv == \A e \in Events : hooks[e].acked => AllQueued(e, jobs)
<1>1. Init => Inv
    BY DEF Init
<1>2. Inv /\ Queue /\ [Next]_vars => Inv'
    <2> SUFFICES ASSUME Inv, Queue, [Next]_vars, NEW e \in Events, hooks'[e].acked
                 PROVE  AllQueued(e, jobs')
        OBVIOUS
    <2>1. TypeOK /\ PodsFit /\ SentIsQueued /\ JobsEffect /\ hooks \in [Events -> HookRecords]
        BY JobsStep DEF Queue, TypeOK, HookRecords
    <2>2. hooks[e].acked => AllQueued(e, jobs')
        BY <2>1, JobsStay DEF AllQueued
    <2>3. CASE hooks' = hooks
        BY <2>2, <2>3
    <2>4. ASSUME NEW x \in Events, NEW h \in HookRecords, hooks' = [hooks EXCEPT ![x] = h],
                 h.acked => hooks[x].acked \/ AllQueued(x, jobs')
          PROVE  AllQueued(e, jobs')
        <3>1. hooks'[e] = IF x = e THEN h ELSE hooks[e]
            BY <2>1, <2>4
        <3> QED BY <2>2, <2>4, <3>1
    <2> QED BY <2>1, <2>3, <2>4, HooksStep
<1>3. Inv => AckedIsQueued
    BY DEF AckedIsQueued, AllQueued, HasJob
<1> QED BY <1>1, <1>2, <1>3, QueueInvariant, PTL DEF Spec

-----------------------------------------------------------------------------
(* No check is left pending.                                               *)

\* Reported without the token: the pod has posted the result of c.
HasPosted(r, posts, c) ==
    \/ /\ r.pc \in {"results", "complete"} /\ c \notin r.todo
       /\ ~\E q \in posts : q.kind = "check" /\ q.check = c
    \/ \E q \in posts : q.kind = "complete"

\* The pod has shown its token and found it valid, or still has a request
\* under way.
Busy(r, posts) == r.pc \in {"pending", "results", "complete"} \/ posts # {}

(* A pod whose check posts are under way runs a job. *)
LEMMA PostedIsBusy ==
    ASSUME NEW r, NEW posts, NEW c, HasPosted(r, posts, c)
    PROVE  Busy(r, posts)
BY DEF HasPosted, Busy

\* The two halves of PendingOwed.
Owed == \A c \in Checks \ Skipped : checks[c] = "pending" => \E j \in DOMAIN jobs : Owes(j, c)
TokensCount ==
    \A p \in Pods : Busy(pods[p], req[p]) /\ jobs[pods[p].job].token = p => jobs[pods[p].job].status = "claimed"

(* What Reported says of a check run, in the current state. *)
LEMMA ReportedIs ==
    \A p \in Pods : \A c : Reported(p, c) <=> Valid(p) /\ HasPosted(pods[p], req[p], c)
BY DEF Reported, HasPosted

(* What Reported says of a check run, in the next state. *)
LEMMA ReportedIsNext ==
    \A p \in Pods : \A c : Reported(p, c)' <=> Valid(p)' /\ HasPosted(pods'[p], req'[p], c)
BY DEF Reported, HasPosted

\* Nobody owes less than before: the jobs that are not finished stay so, no
\* check becomes pending, and a pod that has reported a pending check had done
\* so before.
LEMMA StillOwed ==
    ASSUME Owed, DOMAIN jobs \subseteq DOMAIN jobs',
           \A c \in Checks \ Skipped : checks'[c] = "pending" => checks[c] = "pending",
           \A c \in Checks \ Skipped, j \in DOMAIN jobs :
               checks'[c] = "pending" /\ Owes(j, c) => jobs'[j].status \notin {"passed", "failed"},
           \A c \in Checks \ Skipped, p \in Pods :
               checks'[c] = "pending" /\ Valid(p)' /\ HasPosted(pods'[p], req'[p], c)
                   => pods[p].job = pods'[p].job /\ Valid(p) /\ HasPosted(pods[p], req[p], c)
    PROVE  Owed'
<1> SUFFICES ASSUME NEW c \in Checks \ Skipped, checks'[c] = "pending"
             PROVE  \E j \in DOMAIN jobs' : Owes(j, c)'
    BY DEF Owed
<1>1. PICK j \in DOMAIN jobs : Owes(j, c)
    BY DEF Owed
<1>2. ~Finished(j)'
    BY <1>1 DEF Finished
<1>3. ASSUME NEW p \in Pods, pods'[p].job = j, Reported(p, c)'
      PROVE  FALSE
    <2>1. Valid(p)' /\ HasPosted(pods'[p], req'[p], c)
        BY <1>3, ReportedIsNext
    <2>2. pods[p].job = j /\ Reported(p, c)
        BY <1>3, <2>1, ReportedIs
    <2> QED BY <1>1, <2>2 DEF Owes
<1> QED BY <1>1, <1>2, <1>3 DEF Owes

\* A step of one pod that leaves the table alone.
LEMMA PodOwes ==
    ASSUME TypeOK, Owed, TokensCount, jobs' = jobs,
           \A c \in Checks \ Skipped : checks'[c] = "pending" => checks[c] = "pending",
           NEW p \in Pods, NEW r, NEW posts, pods' = [pods EXCEPT ![p] = r], req' = [req EXCEPT ![p] = posts],
           r.job = pods[p].job,
           \A c \in Checks \ Skipped : checks'[c] = "pending" /\ Valid(p) /\ HasPosted(r, posts, c)
               => HasPosted(pods[p], req[p], c),
           Busy(r, posts) => Busy(pods[p], req[p]) \/ Valid(p) \/ jobs[pods[p].job].token # p
    PROVE  Owed' /\ TokensCount'
<1>1. /\ pods'[p] = r /\ req'[p] = posts
      /\ \A x \in Pods : x # p => pods'[x] = pods[x] /\ req'[x] = req[x]
    BY DEF TypeOK
<1>2. \A x \in Pods : pods'[x].job = pods[x].job /\ (Valid(x)' <=> Valid(x))
    BY <1>1 DEF Valid
<1>3. \A c \in Checks \ Skipped, x \in Pods :
        checks'[c] = "pending" /\ Valid(x)' /\ HasPosted(pods'[x], req'[x], c)
            => pods[x].job = pods'[x].job /\ Valid(x) /\ HasPosted(pods[x], req[x], c)
    BY <1>1, <1>2
<1>4. Owed'
    BY <1>3, StillOwed DEF Owes, Finished
<1>5. TokensCount'
    BY <1>1, <1>2 DEF TokensCount, Valid
<1> QED BY <1>4, <1>5

\* A step of the table, and of pods that are not busy after it.
LEMMA RowsOwe ==
    ASSUME TypeOK, PodsFit, Owed, TokensCount, DOMAIN jobs \subseteq DOMAIN jobs', checks' = checks,
           \A p \in Pods : (pods'[p] = pods[p] /\ req'[p] = req[p]) \/ ~Busy(pods'[p], req'[p]),
           \A j \in DOMAIN jobs : jobs'[j].status \in {"passed", "failed"} => Finished(j),
           \A p \in Pods, j \in DOMAIN jobs :
               jobs'[j].token = p /\ Busy(pods'[p], req'[p])
                   => jobs[j].token = p /\ (jobs[j].status = "claimed" => jobs'[j].status = "claimed")
    PROVE  Owed' /\ TokensCount'
<1>1. ASSUME NEW p \in Pods, Busy(pods'[p], req'[p]), jobs'[pods'[p].job].token = p
      PROVE  /\ pods'[p] = pods[p] /\ req'[p] = req[p] /\ Valid(p)
             /\ jobs'[pods'[p].job].status = "claimed"
    <2>1. pods'[p] = pods[p] /\ req'[p] = req[p]
        BY <1>1
    <2>2. pods[p].job \in DOMAIN jobs
        BY <1>1, <2>1 DEF PodsFit, Busy
    <2>3. jobs[pods[p].job].token = p
        BY <1>1, <2>1, <2>2
    <2>4. jobs[pods[p].job].status = "claimed"
        BY <1>1, <2>1, <2>3 DEF TokensCount
    <2> QED BY <1>1, <2>1, <2>2, <2>3, <2>4 DEF Valid
<1>2. \A c \in Checks \ Skipped, p \in Pods :
        checks'[c] = "pending" /\ Valid(p)' /\ HasPosted(pods'[p], req'[p], c)
            => pods[p].job = pods'[p].job /\ Valid(p) /\ HasPosted(pods[p], req[p], c)
    BY <1>1, PostedIsBusy DEF Valid
<1>3. Owed'
    BY <1>2, StillOwed DEF Owes
<1>4. TokensCount'
    BY <1>1 DEF TokensCount
<1> QED BY <1>3, <1>4

\* The steps of a pod that has its token.
LEMMA WorkOwes ==
    ASSUME Queue, Owed, TokensCount, ~mishap', NEW p \in Pods,
           \/ Prepare(p) \/ PrepareFails(p) \/ RunChecks(p) \/ AllPosted(p) \/ Complete(p) \/ Crash(p)
           \/ \E c \in Checks : PostPending(p, c) \/ PostResult(p, c, "passed") \/ PostResult(p, c, "failed")
    PROVE  Owed' /\ TokensCount'
<1>1. TypeOK /\ PodsFit
    BY DEF Queue
<1>f. /\ pods[p] \in PodRecords /\ req[p] \in SUBSET Posts
      /\ PodFit(p, pods[p], req[p], p \in beats, DOMAIN jobs)
    BY <1>1 DEF TypeOK, PodsFit, PodFit, At
<1>o. req = [req EXCEPT ![p] = req[p]]
    BY <1>1 DEF TypeOK
<1>2. CASE Prepare(p)
    <2>1. PICK r : r = [pods[p] EXCEPT !.pc = "pending", !.todo = Checks]
        OBVIOUS
    <2>2. r.pc = "pending" /\ r.job = pods[p].job
        BY <2>1, <1>f DEF PodRecords
    <2>3. pods' = [pods EXCEPT ![p] = r] /\ Valid(p) /\ req[p] = {}
        BY <1>2, <2>1, <1>f DEF Prepare, At, PodFit
    <2>4. UNCHANGED <<jobs, checks, req>>
        BY <1>2 DEF Prepare
    <2>5. \A c : ~HasPosted(r, req[p], c)
        BY <2>2, <2>3 DEF HasPosted
    <2> QED BY <1>1, <1>o, <2>2, <2>3, <2>4, <2>5, PodOwes
<1>3. CASE PrepareFails(p)
    <2>1. PICK r : r = [pods[p] EXCEPT !.pc = "complete", !.status = "failed"]
        OBVIOUS
    <2>2. r.pc = "complete" /\ r.job = pods[p].job
        BY <2>1, <1>f DEF PodRecords
    <2>3. pods' = [pods EXCEPT ![p] = r] /\ jobs[pods[p].job].token # p
        BY <1>3, <2>1 DEF PrepareFails
    <2>4. UNCHANGED <<jobs, checks, req>>
        BY <1>3 DEF PrepareFails
    <2>5. ~Valid(p)
        BY <2>3 DEF Valid
    <2> QED BY <1>1, <1>o, <2>2, <2>3, <2>4, <2>5, PodOwes
<1>4. CASE RunChecks(p)
    <2>1. PICK T : T = Checks \ Skips[jobs[pods[p].job].trigger]
        OBVIOUS
    <2>2. PICK r : r = [pods[p] EXCEPT !.pc = "results", !.todo = T]
        OBVIOUS
    <2>3. r.pc = "results" /\ r.todo = T /\ r.job = pods[p].job
        BY <2>2, <1>f DEF PodRecords
    <2>4. pods' = [pods EXCEPT ![p] = r] /\ req[p] = {} /\ At(p, "pending")
        BY <1>4, <2>1, <2>2 DEF RunChecks
    <2>5. UNCHANGED <<jobs, checks, req>>
        BY <1>4 DEF RunChecks
    <2>6. Checks \ Skipped \subseteq T
        <3>1. pods[p].job \in DOMAIN jobs
            BY <2>4, <1>f DEF PodFit, At
        <3>2. jobs[pods[p].job] \in JobRows
            BY <1>1, <3>1 DEF TypeOK
        <3>3. jobs[pods[p].job].trigger \in Triggers
            BY <3>2 DEF JobRows
        <3> QED BY <2>1, <3>3 DEF Skipped
    <2>7. \A c \in Checks \ Skipped : ~HasPosted(r, req[p], c)
        BY <2>3, <2>4, <2>6 DEF HasPosted
    <2>8. Busy(pods[p], req[p])
        BY <2>4 DEF Busy, At
    <2> QED BY <1>1, <1>o, <2>3, <2>4, <2>5, <2>7, <2>8, PodOwes
<1>5. CASE AllPosted(p)
    <2>1. PICK r : r = [pods[p] EXCEPT !.pc = "complete"]
        OBVIOUS
    <2>2. r.pc = "complete" /\ r.job = pods[p].job
        BY <2>1, <1>f DEF PodRecords
    <2>3. pods' = [pods EXCEPT ![p] = r] /\ req[p] = {} /\ pods[p].todo = {} /\ pods[p].pc = "results"
        BY <1>5, <2>1 DEF AllPosted, Goto, At
    <2>4. UNCHANGED <<jobs, checks, req>>
        BY <1>5 DEF AllPosted
    <2>5. Busy(pods[p], req[p]) /\ \A c : HasPosted(pods[p], req[p], c)
        BY <2>3 DEF HasPosted, Busy
    <2> QED BY <1>1, <1>o, <2>2, <2>3, <2>4, <2>5, PodOwes
<1>e. PICK r : /\ r = [Polling EXCEPT !.pc = "exited", !.job = pods[p].job]
               /\ r.pc = "exited" /\ r.job = pods[p].job
    <2>1. Polling \in PodRecords
        BY DEF Polling, PodRecords
    <2>2. PICK x : x = [Polling EXCEPT !.pc = "exited", !.job = pods[p].job]
        OBVIOUS
    <2>3. x.pc = "exited" /\ x.job = pods[p].job
        BY <2>1, <2>2 DEF PodRecords
    <2> QED BY <2>2, <2>3
<1>6. CASE Complete(p)
    <2>1. PICK posts : posts = IF Valid(p) THEN {[kind |-> "complete", status |-> pods[p].status]} ELSE req[p]
        OBVIOUS
    <2>2. req' = [req EXCEPT ![p] = posts] /\ pods' = [pods EXCEPT ![p] = r]
        BY <1>6, <2>1, <1>e, <1>o DEF Complete, Exit
    <2>3. UNCHANGED <<jobs, checks>> /\ pods[p].pc = "complete" /\ req[p] = {}
        BY <1>6 DEF Complete, At
    <2>4. Busy(pods[p], req[p]) /\ \A c : HasPosted(pods[p], req[p], c)
        BY <2>3, <1>f DEF HasPosted, Busy, PodFit
    <2> QED BY <1>1, <1>e, <2>2, <2>3, <2>4, PodOwes
<1>7. CASE Crash(p)
    <2>1. pods' = [pods EXCEPT ![p] = r] /\ UNCHANGED <<jobs, checks, req>> /\ pods[p].pc # "exited"
        BY <1>7, <1>e DEF Crash, Exit, At
    <2>2. \A c : ~HasPosted(r, req[p], c)
        BY <1>e, <1>f, <2>1 DEF HasPosted, PodFit
    <2>3. Busy(r, req[p]) => Busy(pods[p], req[p])
        BY <1>e DEF Busy
    <2> QED BY <1>1, <1>e, <1>o, <2>1, <2>2, <2>3, PodOwes
<1>8. ASSUME NEW c \in Checks, PostPending(p, c)
      PROVE  Owed' /\ TokensCount'
    <2>1. PICK q : q = [kind |-> "check", check |-> c, status |-> "pending"]
        OBVIOUS
    <2>2. PICK posts : posts = IF Valid(p) THEN req[p] \cup {q} ELSE req[p]
        OBVIOUS
    <2>3. PICK x : x = [pods[p] EXCEPT !.todo = @ \ {c}]
        OBVIOUS
    <2>4. x.pc = "pending" /\ x.job = pods[p].job
        BY <1>8, <2>3, <1>f DEF PodRecords, PostPending, At
    <2>5. req' = [req EXCEPT ![p] = posts] /\ pods' = [pods EXCEPT ![p] = x] /\ UNCHANGED <<jobs, checks>>
        BY <1>8, <2>1, <2>2, <2>3, <1>o DEF PostPending, PostCheckRun
    <2>6. \A d : ~HasPosted(x, posts, d)
        BY <1>8, <2>1, <2>2, <2>4, <1>f DEF HasPosted, PodFit, PostPending, At
    <2>7. Busy(pods[p], req[p])
        BY <1>8 DEF PostPending, At, Busy
    <2> QED BY <1>1, <2>4, <2>5, <2>6, <2>7, PodOwes
<1>9. ASSUME NEW c \in Checks, NEW status \in {"passed", "failed"}, PostResult(p, c, status)
      PROVE  Owed' /\ TokensCount'
    <2>1. PICK q : q = [kind |-> "check", check |-> c, status |-> status]
        OBVIOUS
    <2>2. PICK posts : posts = IF Valid(p) THEN req[p] \cup {q} ELSE req[p]
        OBVIOUS
    <2>3. PICK x : x = [pods[p] EXCEPT !.todo = @ \ {c}, !.status = IF status = "failed" THEN "failed" ELSE @]
        OBVIOUS
    <2>4. x.pc = "results" /\ x.job = pods[p].job /\ x.todo = pods[p].todo \ {c}
        BY <1>9, <2>3, <1>f DEF PodRecords, PostResult, At
    <2>51. req' = [req EXCEPT ![p] = posts]
        <3>1. PostCheckRun(p, c, status)
            BY <1>9 DEF PostResult
        <3>2. CASE Valid(p)
            BY <2>1, <2>2, <3>1, <3>2 DEF PostCheckRun
        <3>3. CASE ~Valid(p)
            BY <1>o, <2>2, <3>1, <3>3 DEF PostCheckRun
        <3> QED BY <3>2, <3>3
    <2>52. pods' = [pods EXCEPT ![p] = x]
        BY <1>9, <2>3 DEF PostResult
    <2>53. UNCHANGED <<jobs, checks>>
        BY <1>9 DEF PostResult
    <2>5. req' = [req EXCEPT ![p] = posts] /\ pods' = [pods EXCEPT ![p] = x] /\ UNCHANGED <<jobs, checks>>
        BY <2>51, <2>52, <2>53
    <2>6. q.kind = "check" /\ q.check = c /\ pods[p].pc = "results"
        BY <1>9, <2>1 DEF PostResult, At
    <2>7. \A d : Valid(p) /\ HasPosted(x, posts, d) => HasPosted(pods[p], req[p], d)
        BY <2>2, <2>4, <2>6 DEF HasPosted
    <2>8. Busy(pods[p], req[p])
        BY <2>6 DEF Busy
    <2> QED BY <1>1, <2>4, <2>5, <2>7, <2>8, PodOwes
<1> QED BY <1>2, <1>3, <1>4, <1>5, <1>6, <1>7, <1>8, <1>9

\* The writes of the requests.  Without a mishap the token still counts when
\* they are made.
LEMMA ServeOwes ==
    ASSUME Queue, Owed, TokensCount, ~mishap', NEW p \in Pods, Serve(p)
    PROVE  Owed' /\ TokensCount'
<1>1. TypeOK /\ PodsFit
    BY DEF Queue
<1>f. /\ pods[p] \in PodRecords /\ req[p] \in SUBSET Posts
      /\ PodFit(p, pods[p], req[p], p \in beats, DOMAIN jobs)
    BY <1>1 DEF TypeOK, PodsFit, PodFit, At
<1>o. pods = [pods EXCEPT ![p] = pods[p]]
    BY <1>1 DEF TypeOK
<1>2. CASE RequestFails(p)
    <2>1. PICK q \in req[p] :
            /\ q.kind = "check" => At(p, "exited")
            /\ req' = [req EXCEPT ![p] = @ \ {q}] /\ UNCHANGED <<jobs, checks, pods>>
        BY <1>2 DEF RequestFails
    <2>2. PICK posts : posts = req[p] \ {q}
        OBVIOUS
    <2>3. q.kind \in {"check", "complete"}
        BY <1>f DEF Posts
    <2>4. \A c : HasPosted(pods[p], posts, c) => HasPosted(pods[p], req[p], c)
        BY <2>1, <2>2, <2>3, <1>f DEF HasPosted, At, PodFit
    <2>5. Busy(pods[p], req[p])
        BY <2>1 DEF Busy
    <2>6. req' = [req EXCEPT ![p] = posts] /\ pods' = [pods EXCEPT ![p] = pods[p]]
        BY <1>o, <2>1, <2>2
    <2> QED BY <1>1, <2>1, <2>4, <2>5, <2>6, PodOwes
<1>3. CASE WriteCheckRun(p)
    <2>1. PICK q \in req[p] :
            /\ q.kind = "check" /\ Valid(p)
            /\ checks' = [checks EXCEPT ![q.check] = q.status]
            /\ req' = [req EXCEPT ![p] = @ \ {q}] /\ UNCHANGED <<jobs, pods>>
        BY <1>3 DEF WriteCheckRun
    <2>2. PICK posts : posts = req[p] \ {q}
        OBVIOUS
    <2>3. /\ req' = [req EXCEPT ![p] = posts] /\ pods' = [pods EXCEPT ![p] = pods[p]]
          /\ Busy(pods[p], req[p]) /\ pods[p].job \in DOMAIN jobs
        BY <1>o, <1>f, <2>1, <2>2 DEF Busy, PodFit
    <2>4. CASE q.status # "pending"
        <3>1. \A c \in Checks \ Skipped : checks'[c] = "pending" => checks[c] = "pending" /\ c # q.check
            BY <1>1, <2>1, <2>4 DEF TypeOK
        <3>2. \A c : c # q.check /\ HasPosted(pods[p], posts, c) => HasPosted(pods[p], req[p], c)
            BY <2>2 DEF HasPosted
        <3> QED BY <1>1, <2>1, <2>3, <3>1, <3>2, PodOwes
    <2>5. CASE q.status = "pending"
        <3>1. pods[p].pc \in {"pending", "exited"} /\ ~\E x \in req[p] : x.kind = "complete"
            BY <1>f, <2>1, <2>5 DEF PodFit
        <3>2. /\ req'[p] = posts
              /\ \A x \in Pods : x # p => req'[x] = req[x]
            BY <1>1, <2>3 DEF TypeOK
        <3>3. \A c : ~HasPosted(pods[p], posts, c)
            BY <2>2, <3>1 DEF HasPosted
        <3>4. \A x \in Pods : Valid(x)' <=> Valid(x)
            BY <2>1 DEF Valid
        <3>5. ASSUME NEW c \in Checks \ Skipped, checks'[c] = "pending"
              PROVE  \E j \in DOMAIN jobs' : Owes(j, c)'
            <4>1. CASE c = q.check
                <5>1. ~Finished(pods[p].job)'
                    BY <2>1 DEF Valid, Finished
                <5>2. ASSUME NEW x \in Pods, pods'[x].job = pods[p].job, Reported(x, c)'
                      PROVE  FALSE
                    <6>1. Valid(x)' /\ HasPosted(pods'[x], req'[x], c)
                        BY <5>2, ReportedIsNext
                    <6>2. x = p
                        BY <2>1, <3>4, <5>2, <6>1 DEF Valid
                    <6> QED BY <2>1, <3>2, <3>3, <6>1, <6>2
                <5> QED BY <2>1, <2>3, <5>1, <5>2 DEF Owes
            <4>2. CASE c # q.check
                <5>1. checks[c] = "pending"
                    BY <1>1, <2>1, <3>5, <4>2 DEF TypeOK
                <5>2. PICK j \in DOMAIN jobs : Owes(j, c)
                    BY <5>1 DEF Owed
                <5>3. ASSUME NEW x \in Pods, pods'[x].job = j, Reported(x, c)'
                      PROVE  FALSE
                    <6>1. Valid(x)' /\ HasPosted(pods'[x], req'[x], c)
                        BY <5>3, ReportedIsNext
                    <6>2. x # p
                        BY <2>1, <3>2, <3>3, <6>1
                    <6>3. Reported(x, c)
                        BY <2>1, <3>2, <3>4, <6>1, <6>2, ReportedIs
                    <6> QED BY <2>1, <5>2, <5>3, <6>3 DEF Owes
                <5>4. ~Finished(j)'
                    BY <2>1, <5>2 DEF Owes, Finished
                <5> QED BY <2>1, <5>2, <5>3, <5>4 DEF Owes
            <4> QED BY <4>1, <4>2
        <3>6. TokensCount'
            BY <2>1, <2>3, <3>2 DEF TokensCount
        <3> QED BY <3>5, <3>6 DEF Owed
    <2> QED BY <2>4, <2>5
<1>4. CASE CompleteCIJob(p)
    <2>1. PICK q \in req[p] :
            /\ q.kind = "complete" /\ Valid(p)
            /\ jobs' = [jobs EXCEPT ![pods[p].job].status = q.status, ![pods[p].job].token = Nobody]
            /\ req' = [req EXCEPT ![p] = @ \ {q}] /\ UNCHANGED <<checks, pods>>
        BY <1>4 DEF CompleteCIJob
    <2>2. pods[p].job \in DOMAIN jobs /\ q.status \in {"passed", "failed"}
        BY <1>f, <2>1 DEF PodFit, Posts
    <2>3. /\ DOMAIN jobs' = DOMAIN jobs /\ jobs'[pods[p].job].token = Nobody
          /\ \A i \in DOMAIN jobs : i # pods[p].job => jobs'[i] = jobs[i]
        BY <1>1, <2>1, <2>2, RowCompleted
    <2>4. \A x \in Pods : req'[x] \subseteq req[x]
        BY <1>1, <2>1 DEF TypeOK
    <2>5. req'[p] = {} /\ \A x \in Pods : x # p => req'[x] = req[x]
        BY <1>1, <1>f, <2>1 DEF TypeOK, PodFit
    <2>6. \A x \in Pods : Busy(pods[x], req[x]) => pods[x].job \in DOMAIN jobs
        BY <1>1 DEF PodsFit, Busy
    <2>7. ASSUME NEW x \in Pods, Busy(pods'[x], req'[x]), jobs'[pods'[x].job].token = x
          PROVE  /\ x # p /\ pods[x].job # pods[p].job
                 /\ jobs'[pods'[x].job] = jobs[pods[x].job] /\ Busy(pods[x], req[x])
        <3>1. Busy(pods[x], req[x])
            BY <2>1, <2>4, <2>7 DEF Busy
        <3>2. pods[x].job # pods[p].job
            BY <2>1, <2>3, <2>7
        <3> QED BY <2>1, <2>3, <2>6, <3>1, <3>2
    <2>8. TokensCount'
        BY <2>1, <2>7 DEF TokensCount
    <2>9. \A c \in Checks \ Skipped, x \in Pods :
            checks'[c] = "pending" /\ Valid(x)' /\ HasPosted(pods'[x], req'[x], c)
                => pods[x].job = pods'[x].job /\ Valid(x) /\ HasPosted(pods[x], req[x], c)
        BY <2>1, <2>5, <2>7, PostedIsBusy DEF Valid
    <2>10. \A c : Reported(p, c)
        BY <2>1, ReportedIs DEF HasPosted
    <2>11. \A c \in Checks \ Skipped, j \in DOMAIN jobs :
               checks'[c] = "pending" /\ Owes(j, c) => jobs'[j].status \notin {"passed", "failed"}
        BY <2>3, <2>10 DEF Owes, Finished
    <2>12. Owed'
        BY <2>1, <2>3, <2>9, <2>11, StillOwed
    <2> QED BY <2>8, <2>12
<1> QED BY <1>2, <1>3, <1>4 DEF Serve

\* The steps of the table: a claim makes no token count that a busy pod has,
\* and the reaper leaves a job unfinished.
LEMMA TableOwes ==
    ASSUME Queue, Owed, TokensCount,
           \/ \E p \in Pods : Claim(p) \/ StoreRequestToken(p) \/ ClaimLost(p) \/ HeartbeatCIJob(p)
           \/ \E e \in Events : HookInsert(e)
           \/ \E trigger \in Timers : Enqueue(trigger)
           \/ \E j \in 1..MaxJobs : Age(j)
           \/ Reap
    PROVE  Owed' /\ TokensCount'
<1>1. TypeOK /\ PodsFit /\ SentIsQueued
    BY DEF Queue
<1>f. ASSUME NEW p \in Pods
      PROVE  /\ pods[p] \in PodRecords
             /\ PodFit(p, pods[p], req[p], p \in beats, DOMAIN jobs)
    BY <1>1 DEF TypeOK, PodsFit, PodFit, At
<1>m. ASSUME NEW p \in Pods, NEW r, pods' = [pods EXCEPT ![p] = r], req' = req,
             ~(r.pc \in {"pending", "results", "complete"}), req[p] = {}
      PROVE  /\ ~Busy(pods'[p], req'[p])
             /\ \A x \in Pods : x # p => pods'[x] = pods[x] /\ req'[x] = req[x]
    BY <1>1, <1>m DEF TypeOK, Busy
<1>2. ASSUME NEW p \in Pods, Claim(p)
      PROVE  Owed' /\ TokensCount'
    <2>1. PICK j \in DOMAIN jobs :
             /\ jobs[j].status = "queued"
             /\ jobs'[j].status = "claimed" /\ jobs'[j].token = jobs[j].token
             /\ \A i \in DOMAIN jobs : i # j => jobs'[i] = jobs[i]
             /\ DOMAIN jobs' = DOMAIN jobs
             /\ pods' = [pods EXCEPT ![p].pc = "store", ![p].job = j]
        BY <1>1, <1>2, RowClaimed
    <2>2. PICK r : r = [pods[p] EXCEPT !.pc = "store", !.job = j]
        OBVIOUS
    <2>3. r.pc = "store" /\ pods' = [pods EXCEPT ![p] = r]
        BY <2>1, <2>2, <1>f DEF PodRecords
    <2>4. req[p] = {} /\ UNCHANGED <<req, checks>>
        BY <1>2, <1>f DEF Claim, PodFit, At
    <2>5. /\ ~Busy(pods'[p], req'[p])
          /\ \A x \in Pods : x # p => pods'[x] = pods[x] /\ req'[x] = req[x]
        BY <1>m, <2>3, <2>4
    <2>6. \A i \in DOMAIN jobs : jobs'[i].token = jobs[i].token
        BY <2>1
    <2>7. \A i \in DOMAIN jobs : jobs[i].status = "claimed" => jobs'[i].status = "claimed"
        BY <2>1
    <2>8. \A i \in DOMAIN jobs : jobs'[i].status \in {"passed", "failed"} => Finished(i)
        BY <2>1 DEF Finished
    <2> QED BY <1>1, <2>1, <2>4, <2>5, <2>6, <2>7, <2>8, RowsOwe
<1>3. ASSUME NEW p \in Pods, NEW r, NEW token \in Pods \cup {Nobody, Orphan}, pods[p].job \in DOMAIN jobs,
             jobs' = [jobs EXCEPT ![pods[p].job].token = token],
             pods' = [pods EXCEPT ![p] = r], UNCHANGED <<req, checks>>,
             token \in {jobs[pods[p].job].token, p, Orphan},
             ~(r.pc \in {"pending", "results", "complete"}), req[p] = {}
      PROVE  Owed' /\ TokensCount'
    <2>1. /\ DOMAIN jobs' = DOMAIN jobs
          /\ jobs'[pods[p].job].status = jobs[pods[p].job].status /\ jobs'[pods[p].job].token = token
          /\ \A i \in DOMAIN jobs : i # pods[p].job => jobs'[i] = jobs[i]
        BY <1>1, <1>3, TokenStored
    <2>2. /\ ~Busy(pods'[p], req'[p])
          /\ \A x \in Pods : x # p => pods'[x] = pods[x] /\ req'[x] = req[x]
        BY <1>m, <1>3
    <2>3. \A i \in DOMAIN jobs : jobs'[i].status = jobs[i].status
        BY <2>1
    <2>4. \A x \in Pods, i \in DOMAIN jobs : jobs'[i].token = x => jobs[i].token = x \/ x = p
        BY <1>3, <2>1
    <2>5. \A i \in DOMAIN jobs : jobs'[i].status \in {"passed", "failed"} => Finished(i)
        BY <2>3 DEF Finished
    <2> QED BY <1>1, <1>3, <2>1, <2>2, <2>3, <2>4, <2>5, RowsOwe
<1>4. ASSUME NEW p \in Pods, StoreRequestToken(p)
      PROVE  Owed' /\ TokensCount'
    <2>1. PICK r : r = [pods[p] EXCEPT !.pc = "config"]
        OBVIOUS
    <2>2. r.pc = "config" /\ pods' = [pods EXCEPT ![p] = r]
        BY <1>4, <2>1, <1>f DEF PodRecords, StoreRequestToken, Goto
    <2>3. req[p] = {} /\ pods[p].job \in DOMAIN jobs
        BY <1>4, <1>f DEF StoreRequestToken, PodFit, At
    <2> QED BY <1>3, <1>4, <2>2, <2>3 DEF StoreRequestToken
<1>5. ASSUME NEW p \in Pods, ClaimLost(p)
      PROVE  Owed' /\ TokensCount'
    <2>1. Polling.pc = "poll" /\ pods' = [pods EXCEPT ![p] = Polling]
        BY <1>5 DEF Polling, ClaimLost
    <2>2. req[p] = {} /\ pods[p].job \in DOMAIN jobs
        BY <1>5, <1>f DEF ClaimLost, PodFit, At
    <2>3. jobs[pods[p].job].token \in Pods \cup {Nobody, Orphan}
        <3>1. jobs[pods[p].job] \in JobRows
            BY <1>1, <2>2 DEF TypeOK
        <3> QED BY <3>1 DEF JobRows
    <2>4. PICK token \in {jobs[pods[p].job].token, Orphan} : jobs' = [jobs EXCEPT ![pods[p].job].token = token]
        BY <1>5 DEF ClaimLost
    <2>5. token \in Pods \cup {Nobody, Orphan} /\ UNCHANGED <<req, checks>>
        BY <1>5, <2>3, <2>4 DEF ClaimLost
    <2> QED BY <1>3, <2>1, <2>2, <2>4, <2>5
<1>6. ASSUME DOMAIN jobs \subseteq DOMAIN jobs', UNCHANGED <<pods, req, checks>>,
             \A i \in DOMAIN jobs :
                 \/ jobs'[i].status = jobs[i].status /\ jobs'[i].token = jobs[i].token
                 \/ jobs'[i].status = "queued" /\ jobs'[i].token = Nobody
      PROVE  Owed' /\ TokensCount'
    <2>1. \A i \in DOMAIN jobs : jobs'[i].status \in {"passed", "failed"} => Finished(i)
        BY <1>6 DEF Finished
    <2>2. \A x \in Pods, i \in DOMAIN jobs : jobs'[i].token = x =>
             jobs[i].token = x /\ jobs'[i].status = jobs[i].status
        BY <1>6
    <2> QED BY <1>1, <1>6, <2>1, <2>2, RowsOwe
<1>7. ASSUME NEW j \in DOMAIN jobs, NEW age \in {"fresh", "old"},
             jobs' = [jobs EXCEPT ![j].seen = age], UNCHANGED <<pods, req, checks>>
      PROVE  Owed' /\ TokensCount'
    BY <1>1, <1>6, <1>7, AgeChanges
<1>8. ASSUME NEW p \in Pods, HeartbeatCIJob(p)
      PROVE  Owed' /\ TokensCount'
    <2>1. pods[p].job \in DOMAIN jobs
        BY <1>8, <1>f DEF PodFit, HeartbeatCIJob
    <2> QED BY <1>7, <1>8, <2>1 DEF HeartbeatCIJob
<1>9. ASSUME NEW j \in 1..MaxJobs, Age(j)
      PROVE  Owed' /\ TokensCount'
    BY <1>7, <1>9 DEF Age
<1>10. CASE Reap
    <2>1. UNCHANGED <<pods, req, checks>>
        BY <1>10 DEF Reap
    <2> QED BY <1>1, <1>6, <1>10, <2>1, RowsReaped
<1>11. ASSUME NEW trigger \in Triggers, InsertCIJob(trigger), UNCHANGED <<pods, req, checks>>
      PROVE  Owed' /\ TokensCount'
    BY <1>1, <1>6, <1>11, RowInserted DEF JobsEffect
<1>12. ASSUME NEW e \in Events, HookInsert(e)
      PROVE  Owed' /\ TokensCount'
    <2>1. Wants[e][hooks[e].sent + 1] \in Triggers
        <3>1. Wants[e] \in Seq(Triggers)
            OBVIOUS
        <3>2. hooks[e].sent + 1 \in 1..Len(Wants[e])
            BY <1>1, <1>12, <3>1 DEF HookInsert, TypeOK
        <3> QED BY <3>1, <3>2
    <2> QED BY <1>11, <1>12, <2>1 DEF HookInsert
<1>13. ASSUME NEW trigger \in Timers, Enqueue(trigger)
      PROVE  Owed' /\ TokensCount'
    BY <1>11, <1>13 DEF Enqueue
<1> QED BY <1>2, <1>4, <1>5, <1>8, <1>9, <1>10, <1>12, <1>13

\* PendingOwed is inductive.
LEMMA PendingOwedStep == Queue /\ PendingOwed /\ [Next]_vars => PendingOwed'
<1>1. PendingOwed <=> (~mishap => Owed /\ TokensCount)
    BY DEF PendingOwed, Owed, TokensCount, Busy
<1>2. (PendingOwed <=> (~mishap => Owed /\ TokensCount))'
    BY <1>1, PTL
<1> SUFFICES ASSUME Queue, PendingOwed, [Next]_vars, ~mishap' PROVE Owed' /\ TokensCount'
    BY <1>2
<1>3. ASSUME NEW p \in Pods, Work(p) \/ Serve(p) \/ ClaimLost(p) \/ Crash(p) \/ Heartbeat(p) \/ HeartbeatCIJob(p)
      PROVE  ~mishap
    BY <1>3 DEF Work, Claim, StoreRequestToken, Prepare, PrepareFails, RunChecks, AllPosted, Complete,
                PostPending, PostResult, Serve, WriteCheckRun, CompleteCIJob, RequestFails, ClaimLost,
                Crash, Heartbeat, HeartbeatCIJob
<1>4. ASSUME NEW e \in Events, HookInsert(e) \/ HookAck(e) \/ HookSkip(e) \/ HookFails(e)
      PROVE  ~mishap
    BY <1>4 DEF HookInsert, HookAck, HookSkip, HookFails
<1>5. ASSUME NEW trigger \in Timers, Enqueue(trigger)
      PROVE  ~mishap
    BY <1>5 DEF Enqueue
<1>6. ASSUME NEW j \in 1..MaxJobs, Age(j)
      PROVE  ~mishap
    BY <1>6 DEF Age
<1>7. Reap \/ UNCHANGED vars => ~mishap
    BY DEF Reap, vars
<1>8. ~mishap
    BY <1>3, <1>4, <1>5, <1>6, <1>7 DEF Next
<1>9. Owed /\ TokensCount
    BY <1>1, <1>8
<1>10. CASE UNCHANGED <<jobs, checks, pods, req>>
    BY <1>9, <1>10 DEF Owed, Owes, Finished, Reported, Valid, TokensCount, Busy
<1>11. ASSUME NEW p \in Pods, Heartbeat(p)
       PROVE  UNCHANGED <<jobs, checks, pods, req>>
    BY <1>11 DEF Heartbeat
<1>12. ASSUME NEW e \in Events, HookAck(e) \/ HookSkip(e) \/ HookFails(e)
       PROVE  UNCHANGED <<jobs, checks, pods, req>>
    BY <1>12 DEF HookAck, HookSkip, HookFails
<1>13. UNCHANGED vars => UNCHANGED <<jobs, checks, pods, req>>
    BY DEF vars
<1>14. ASSUME NEW p \in Pods, Work(p) \/ Crash(p)
       PROVE  Claim(p) \/ StoreRequestToken(p) \/ (Owed' /\ TokensCount')
    BY <1>9, <1>14, WorkOwes DEF Work
<1>15. ASSUME NEW p \in Pods, Serve(p)
       PROVE  Owed' /\ TokensCount'
    BY <1>9, <1>15, ServeOwes
<1> QED BY <1>9, <1>10, <1>11, <1>12, <1>13, <1>14, <1>15, TableOwes DEF Next

\* ChecksSettle: whatever pods are killed, jobs reaped and deliveries repeated,
\* no check is left pending when all jobs are done, unless a post of a living
\* worker was lost, a job failed before it ran, or a write came after its job
\* was taken away.
THEOREM ChecksHolds == Spec => []ChecksSettle
<1>1. Init => PendingOwed
    BY DEF Init, PendingOwed, Polling
<1>2. PendingOwed => ChecksSettle
    BY DEF PendingOwed, ChecksSettle, Owes
<1> QED BY <1>1, <1>2, PendingOwedStep, QueueInvariant, PTL DEF Spec

HIDE CIJobsAssumption

-----------------------------------------------------------------------------
(* Tokens of jobs.                                                         *)

\* Two ages that grow together and stop at the same bound keep their order.
LEMMA AgesKeepOrder ==
    ASSUME NEW m \in Nat, NEW a \in 0..m
    PROVE  /\ Older(a, m) \in 0..m /\ a <= Older(a, m)
           /\ \A b \in 0..m : a <= b => Older(a, m) <= Older(b, m)
BY DEF Older

\* The parts of the invariant.
LEMMA TokenParts ==
    ASSUME TokenBounded
    PROVE  TokenTypeOK /\ TokensFit /\ CachesFit
BY DEF TokenBounded

\* A step that is no verification has no outcome to account for.
LEMMA NoOutcomeKeeps ==
    ASSUME TokenTypeOK', TokensFit', CachesFit', last' = NoOutcome
    PROVE  TokenBounded'
BY DEF TokenBounded, AcceptedSoonAfterJob, KeyChangeTakesEffect, ActsWithinConfig, NoOutcome

\* The tokens stay fit while neither they nor the jobs change.
LEMMA TokensUndisturbed ==
    ASSUME TokensFit, UNCHANGED <<job, endedAge, jwt>>
    PROVE  TokensFit'
BY DEF TokensFit

\* The caches stay fit while neither they nor the signing key change.
LEMMA CachesUndisturbed ==
    ASSUME CachesFit, UNCHANGED <<retiredAge, startAge, cache>>, signer'.key = signer.key
    PROVE  CachesFit'
BY DEF CachesFit

\* What a token says of its job.
LEMMA TokenTypes ==
    ASSUME TokenTypeOK, NEW s \in Slots, jwt[s] # NoJWT
    PROVE  /\ jwt[s] \in TokenRecords /\ jwt[s].job \in TokenJobs
           /\ jwt[s].key \in Keys /\ jwt[s].age \in 0..(TokenTTL + 1)
<1>1. jwt[s] \in TokenRecords
    BY DEF TokenTypeOK
<1> QED BY <1>1 DEF TokenRecords

\* Time passes.
LEMMA TickKeeps ==
    ASSUME TokenBounded, Tick
    PROVE  TokenBounded'
<1>p. TokenTypeOK /\ TokensFit /\ CachesFit
    BY TokenParts
<1>c. CacheTTL \in Nat /\ TokenTTL + 1 \in Nat
    BY JobTokensAssumption
<1>1. last' = NoOutcome /\ UNCHANGED <<job, signer, fetchFaults>>
    BY DEF Tick
<1>2. \A j \in TokenJobs : /\ endedAge[j] \in 0..(TokenTTL + 1) /\ endedAge'[j] \in 0..(TokenTTL + 1)
                           /\ job[j] # "ended" => endedAge'[j] = 0
                           /\ endedAge'[j] <= Older(endedAge[j], TokenTTL + 1)
    BY <1>c, <1>p, AgesKeepOrder DEF Tick, TokenTypeOK
<1>3. ASSUME NEW s \in Slots, jwt[s] # NoJWT
      PROVE  /\ jwt'[s] \in TokenRecords /\ jwt'[s].job = jwt[s].job /\ jwt'[s].repo = jwt[s].repo
             /\ jwt'[s].perms = jwt[s].perms /\ jwt'[s].age = Older(jwt[s].age, TokenTTL + 1)
    <2>1. PICK t, a : t = jwt[s] /\ a = Older(t.age, TokenTTL + 1)
        OBVIOUS
    <2>2. t \in TokenRecords /\ t.age \in 0..(TokenTTL + 1)
        BY <1>3, <1>p, <2>1, TokenTypes
    <2>3. a \in 0..(TokenTTL + 1)
        BY <1>c, <2>1, <2>2, AgesKeepOrder
    <2>4. jwt'[s] = [t EXCEPT !.age = a]
        BY <1>3, <2>1 DEF Tick
    <2>5. PICK P : P = {EffectivePermissions(j) : j \in TokenJobs}
        OBVIOUS
    <2>6. t \in [job : TokenJobs, repo : AllRepos, key : Keys, age : 0..(TokenTTL + 1), perms : P]
        BY <2>2, <2>5 DEF TokenRecords
    <2>7. /\ jwt'[s] \in [job : TokenJobs, repo : AllRepos, key : Keys, age : 0..(TokenTTL + 1), perms : P]
          /\ jwt'[s].job = t.job /\ jwt'[s].repo = t.repo /\ jwt'[s].perms = t.perms /\ jwt'[s].age = a
        BY <2>3, <2>4, <2>6
    <2> QED BY <2>1, <2>5, <2>7 DEF TokenRecords
<1>4. \A s \in Slots : jwt[s] = NoJWT => jwt'[s] = NoJWT
    BY DEF Tick
<1>5. jwt' \in [Slots -> TokenRecords \cup {NoJWT}]
    <2>1. jwt' = [s \in Slots |-> jwt'[s]]
        BY DEF Tick
    <2> QED BY <1>3, <1>4, <2>1
<1>6. TokensFit'
    <2>1. ASSUME NEW s \in Slots, jwt'[s] # NoJWT
          PROVE  /\ jwt'[s].repo = JobRepo[jwt'[s].job] /\ jwt'[s].perms = EffectivePermissions(jwt'[s].job)
                 /\ job'[jwt'[s].job] # "queued" /\ endedAge'[jwt'[s].job] <= jwt'[s].age
        <3>1. jwt[s] # NoJWT
            BY <1>4, <2>1
        <3>2. PICK j, a : j = jwt[s].job /\ a = jwt[s].age
            OBVIOUS
        <3>3. j \in TokenJobs /\ a \in 0..(TokenTTL + 1)
            BY <1>p, <3>1, <3>2, TokenTypes
        <3>4. jwt[s].repo = JobRepo[j] /\ jwt[s].perms = EffectivePermissions(j) /\ job[j] # "queued" /\ endedAge[j] <= a
            BY <1>p, <3>1, <3>2 DEF TokensFit
        <3>5. Older(endedAge[j], TokenTTL + 1) <= Older(a, TokenTTL + 1)
            BY <1>2, <1>c, <3>3, <3>4, AgesKeepOrder
        <3>6. endedAge'[j] <= Older(a, TokenTTL + 1)
            BY <1>2, <1>c, <3>3, <3>5 DEF Older
        <3> QED BY <1>1, <1>3, <3>1, <3>2, <3>4, <3>6
    <2> QED BY <1>1, <1>2, <2>1 DEF TokensFit
<1>7. /\ retiredAge' \in [Keys -> 0..CacheTTL] /\ startAge' \in 0..CacheTTL
      /\ \A k \in Keys : retiredAge[k] \in 0..CacheTTL /\ (k >= signer.key => retiredAge'[k] = 0)
      /\ \A k \in Keys : retiredAge'[k] <= Older(retiredAge[k], CacheTTL)
      /\ startAge \in 0..CacheTTL /\ startAge' = Older(startAge, CacheTTL)
    BY <1>c, <1>p, AgesKeepOrder, JobTokensAssumption DEF Tick, TokenTypeOK, Keys
<1>8. ASSUME NEW v \in Verifiers
      PROVE  /\ cache[v].age \in 0..CacheTTL /\ cache'[v].age = Older(cache[v].age, CacheTTL)
             /\ cache'[v].keys = cache[v].keys /\ cache'[v] \in [keys : SUBSET Keys, age : 0..CacheTTL]
             /\ cache[v].keys \subseteq Keys
    <2>1. PICK c, a : c = cache[v] /\ a = Older(c.age, CacheTTL)
        OBVIOUS
    <2>2. c \in [keys : SUBSET Keys, age : 0..CacheTTL]
        BY <1>p, <2>1 DEF TokenTypeOK
    <2>3. a \in 0..CacheTTL
        BY <1>c, <2>1, <2>2, AgesKeepOrder
    <2>4. cache'[v] = [c EXCEPT !.age = a]
        BY <2>1 DEF Tick
    <2> QED BY <2>1, <2>2, <2>3, <2>4
<1>9. cache' \in [Verifiers -> [keys : SUBSET Keys, age : 0..CacheTTL]]
    <2>1. cache' = [v \in Verifiers |-> cache'[v]]
        BY DEF Tick
    <2> QED BY <1>8, <2>1
<1>10. TokenTypeOK'
    <2>1. endedAge' \in [TokenJobs -> 0..(TokenTTL + 1)]
        <3>1. endedAge' = [j \in TokenJobs |-> endedAge'[j]]
            BY DEF Tick
        <3> QED BY <1>2, <3>1
    <2> QED BY <1>1, <1>7, <1>5, <1>9, <1>p, <2>1 DEF TokenTypeOK
<1>11. CachesFit'
    <2>1. ASSUME NEW v \in Verifiers, NEW k \in cache'[v].keys
          PROVE  k <= signer'.key /\ retiredAge'[k] <= cache'[v].age
        <3>1. k \in Keys /\ k <= signer.key /\ retiredAge[k] <= cache[v].age
            BY <1>8, <1>p, <2>1 DEF CachesFit
        <3>2. Older(retiredAge[k], CacheTTL) <= Older(cache[v].age, CacheTTL)
            BY <1>7, <1>8, <1>c, <3>1, AgesKeepOrder
        <3>3. retiredAge'[k] <= Older(retiredAge[k], CacheTTL) /\ retiredAge'[k] \in 0..CacheTTL
            BY <1>7, <3>1
        <3> QED BY <1>1, <1>7, <1>8, <1>c, <3>1, <3>2, <3>3 DEF Older
    <2>2. ASSUME NEW v \in Verifiers, signer'.key \notin cache'[v].keys
          PROVE  startAge' <= cache'[v].age
        <3>1. startAge <= cache[v].age
            BY <1>1, <1>8, <1>p, <2>2 DEF CachesFit
        <3> QED BY <1>7, <1>8, <1>c, <3>1, AgesKeepOrder
    <2> QED BY <1>1, <1>7, <2>1, <2>2 DEF CachesFit
<1> QED BY <1>1, <1>6, <1>10, <1>11, NoOutcomeKeeps

\* A job is claimed.
LEMMA ClaimJobKeeps ==
    ASSUME TokenBounded, NEW j \in TokenJobs, ClaimJob(j)
    PROVE  TokenBounded'
<1>p. TokenTypeOK /\ TokensFit /\ CachesFit
    BY TokenParts
<1>1. /\ job[j] = "queued" /\ job' = [job EXCEPT ![j] = "claimed"] /\ last' = NoOutcome
      /\ UNCHANGED <<endedAge, jwt, signer, retiredAge, startAge, cache>>
    BY DEF ClaimJob
<1>2. TokenTypeOK'
    BY <1>1, <1>p DEF TokenTypeOK
<1>3. \A i \in TokenJobs : (job'[i] = "ended" <=> job[i] = "ended") /\ (job'[i] = "queued" => job[i] = "queued")
    BY <1>1, <1>p DEF TokenTypeOK
<1>4. \A s \in Slots : jwt[s] # NoJWT => jwt[s].job \in TokenJobs
    BY <1>p, TokenTypes
<1>5. TokensFit'
    BY <1>1, <1>3, <1>4, <1>p DEF TokensFit
<1>6. CachesFit'
    BY <1>1, <1>p, CachesUndisturbed
<1> QED BY <1>1, <1>2, <1>5, <1>6, NoOutcomeKeeps

\* A job ends: its tokens are at least as old as its end from now on.
LEMMA EndJobKeeps ==
    ASSUME TokenBounded, NEW j \in TokenJobs, EndJob(j)
    PROVE  TokenBounded'
<1>p. TokenTypeOK /\ TokensFit /\ CachesFit
    BY TokenParts
<1>1. /\ job[j] = "claimed" /\ job' = [job EXCEPT ![j] = "ended"] /\ last' = NoOutcome
      /\ UNCHANGED <<endedAge, jwt, signer, retiredAge, startAge, cache>>
    BY DEF EndJob
<1>2. TokenTypeOK'
    BY <1>1, <1>p DEF TokenTypeOK
<1>3. \A i \in TokenJobs : (job'[i] # "ended" => job[i] # "ended") /\ (job'[i] = "queued" => job[i] = "queued")
    BY <1>1, <1>p DEF TokenTypeOK
<1>4. \A s \in Slots : jwt[s] # NoJWT => jwt[s].job \in TokenJobs
    BY <1>p, TokenTypes
<1>5. TokensFit'
    BY <1>1, <1>3, <1>4, <1>p DEF TokensFit
<1>6. CachesFit'
    BY <1>1, <1>p, CachesUndisturbed
<1> QED BY <1>1, <1>2, <1>5, <1>6, NoOutcomeKeeps

\* ci-oidc restarts with a new key: the old one retires and the new one is in
\* use from this moment.
LEMMA NewSignerKeeps ==
    ASSUME TokenBounded, NewSigner
    PROVE  TokenBounded'
<1>p. TokenTypeOK /\ TokensFit /\ CachesFit
    BY TokenParts
<1>1. PICK k : k = signer.key
    OBVIOUS
<1>2. /\ signer' = [key |-> k + 1, pub |-> "unread"] /\ k < MaxKeys /\ startAge' = 0 /\ last' = NoOutcome
      /\ UNCHANGED <<job, endedAge, jwt, retiredAge, cache>>
    BY <1>1 DEF NewSigner
<1>3. k \in Nat \ {0} /\ k + 1 \in Keys /\ signer'.key = k + 1
    BY <1>1, <1>2, <1>p, JobTokensAssumption DEF TokenTypeOK, Keys
<1>4. TokenTypeOK'
    BY <1>2, <1>3, <1>p, JobTokensAssumption DEF TokenTypeOK
<1>5. TokensFit'
    BY <1>2, <1>p, TokensUndisturbed
<1>6. \A v \in Verifiers : cache[v].keys \subseteq Keys /\ cache[v].age \in Nat
    BY <1>p DEF TokenTypeOK
<1>7. CachesFit'
    <2>1. \A i \in Keys : i >= k + 1 => retiredAge[i] = 0
        BY <1>1, <1>3, <1>p DEF CachesFit, Keys
    <2>2. \A v \in Verifiers : \A i \in cache[v].keys : i <= k + 1 /\ retiredAge[i] <= cache[v].age
        BY <1>1, <1>3, <1>6, <1>p DEF CachesFit, Keys
    <2> QED BY <1>2, <1>3, <1>6, <2>1, <2>2 DEF CachesFit
<1> QED BY <1>2, <1>4, <1>5, <1>7, NoOutcomeKeeps

\* ci-oidc restarts with the key it had.
LEMMA SignerRestartsKeeps ==
    ASSUME TokenBounded, SignerRestarts
    PROVE  TokenBounded'
<1>p. TokenTypeOK /\ TokensFit /\ CachesFit
    BY TokenParts
<1>1. /\ signer' = [signer EXCEPT !.pub = "unread"] /\ last' = NoOutcome
      /\ UNCHANGED <<job, endedAge, jwt, retiredAge, startAge, cache>>
    BY DEF SignerRestarts
<1>2. signer' \in [key : Keys, pub : {"unread", "read", "failed"}] /\ signer'.key = signer.key
    BY <1>1, <1>p DEF TokenTypeOK
<1>3. TokenTypeOK'
    BY <1>1, <1>2, <1>p DEF TokenTypeOK
<1> QED BY <1>1, <1>2, <1>3, <1>p, TokensUndisturbed, CachesUndisturbed, NoOutcomeKeeps

\* A read of the public key leaves the key itself alone.
LEMMA KeyRead ==
    ASSUME TokenTypeOK, fetchPublicKey
    PROVE  signer' \in [key : Keys, pub : {"unread", "read", "failed"}] /\ signer'.key = signer.key
<1>1. signer \in [key : Keys, pub : {"unread", "read", "failed"}]
    BY DEF TokenTypeOK
<1>2. signer' = signer \/ signer' = [signer EXCEPT !.pub = "read"] \/ signer' = [signer EXCEPT !.pub = "failed"]
    BY DEF fetchPublicKey
<1> QED BY <1>1, <1>2

\* The token of a claimed job is issued.
LEMMA handleTokenKeeps ==
    ASSUME TokenBounded, NEW s \in Slots, NEW j \in TokenJobs, handleToken(s, j)
    PROVE  TokenBounded'
<1>p. TokenTypeOK /\ TokensFit /\ CachesFit
    BY TokenParts
<1>1. /\ job[j] = "claimed" /\ fetchPublicKey /\ last' = NoOutcome
      /\ UNCHANGED <<job, endedAge, retiredAge, startAge, cache>>
    BY DEF handleToken
<1>2. signer' \in [key : Keys, pub : {"unread", "read", "failed"}] /\ signer'.key = signer.key
    BY <1>1, <1>p, KeyRead
<1>3. PICK t, P : t = IssueJWT(j) /\ P = {EffectivePermissions(i) : i \in TokenJobs}
    OBVIOUS
<1>4. jwt' = jwt \/ jwt' = [jwt EXCEPT ![s] = t]
    BY <1>3 DEF handleToken
<1>5. t.job = j /\ t.repo = JobRepo[j] /\ t.age = 0 /\ t.perms = EffectivePermissions(j)
    BY <1>3 DEF IssueJWT
<1>6. t \in TokenRecords
    <2>1. signer.key \in Keys /\ 0 \in 0..(TokenTTL + 1) /\ JobRepo[j] \in AllRepos
        BY <1>p, JobTokensAssumption DEF TokenTypeOK
    <2>2. PICK q, a : q = EffectivePermissions(j) /\ a = 0..(TokenTTL + 1)
        OBVIOUS
    <2>3. q \in P /\ t = [job |-> j, repo |-> JobRepo[j], key |-> signer.key, age |-> 0, perms |-> q]
        BY <1>3, <2>2 DEF IssueJWT
    <2>4. t \in [job : TokenJobs, repo : AllRepos, key : Keys, age : a, perms : P]
        BY <2>1, <2>2, <2>3
    <2> QED BY <1>3, <2>2, <2>4 DEF TokenRecords
<1>7. jwt' \in [Slots -> TokenRecords \cup {NoJWT}] /\ \A i \in Slots : jwt'[i] = jwt[i] \/ jwt'[i] = t
    BY <1>4, <1>6, <1>p DEF TokenTypeOK
<1>8. TokenTypeOK'
    BY <1>1, <1>2, <1>7, <1>p DEF TokenTypeOK
<1>9. TokensFit'
    <2>1. endedAge[j] = 0
        BY <1>1, <1>p DEF TokensFit
    <2>2. ASSUME NEW i \in Slots, jwt'[i] # NoJWT
          PROVE  /\ jwt'[i].repo = JobRepo[jwt'[i].job] /\ jwt'[i].perms = EffectivePermissions(jwt'[i].job)
                 /\ job[jwt'[i].job] # "queued" /\ endedAge[jwt'[i].job] <= jwt'[i].age
        <3>1. CASE jwt'[i] = jwt[i]
            BY <1>p, <2>2, <3>1 DEF TokensFit
        <3>2. CASE jwt'[i] = t
            BY <1>1, <1>5, <2>1, <3>2
        <3> QED BY <1>7, <3>1, <3>2
    <2> QED BY <1>1, <1>p, <2>2 DEF TokensFit
<1> QED BY <1>1, <1>2, <1>8, <1>9, <1>p, CachesUndisturbed, NoOutcomeKeeps

\* A verifier's cache after keyCache.get: untouched, or filled with the key that
\* is the signing key at this moment.
LEMMA keyCacheGetKeeps ==
    ASSUME TokenTypeOK, CachesFit, NEW v \in Verifiers, keyCacheGet(v), UNCHANGED <<retiredAge, startAge>>
    PROVE  /\ signer' \in [key : Keys, pub : {"unread", "read", "failed"}] /\ signer'.key = signer.key
           /\ cache' \in [Verifiers -> [keys : SUBSET Keys, age : 0..CacheTTL]] /\ CachesFit'
<1>1. CASE Fresh(v)
    <2>1. cache' = cache /\ signer' = signer
        BY <1>1 DEF keyCacheGet
    <2> QED BY <2>1 DEF TokenTypeOK, CachesFit
<1>2. CASE ~Fresh(v)
    <2>1. fetchPublicKey
        BY <1>2 DEF keyCacheGet, refresh
    <2>2. signer' \in [key : Keys, pub : {"unread", "read", "failed"}] /\ signer'.key = signer.key
        BY <2>1, KeyRead
    <2>3. PICK c : c = [keys |-> {signer.key}, age |-> 0]
        OBVIOUS
    <2>4. cache' = cache \/ cache' = [cache EXCEPT ![v] = c]
        BY <1>2, <2>3 DEF keyCacheGet, refresh
    <2>5. signer.key \in Keys /\ 0 \in 0..CacheTTL
        BY JobTokensAssumption DEF TokenTypeOK
    <2>6. c \in [keys : SUBSET Keys, age : 0..CacheTTL] /\ c.keys = {signer.key} /\ c.age = 0
        BY <2>3, <2>5
    <2>7. /\ cache' \in [Verifiers -> [keys : SUBSET Keys, age : 0..CacheTTL]]
          /\ \A w \in Verifiers : cache'[w] = cache[w] \/ cache'[w] = c
        BY <2>4, <2>6 DEF TokenTypeOK
    <2>8. retiredAge[signer.key] = 0
        BY <2>5 DEF CachesFit, Keys
    <2>9. ASSUME NEW w \in Verifiers
          PROVE  /\ \A k \in cache'[w].keys : k <= signer.key /\ retiredAge[k] <= cache'[w].age
                 /\ signer.key \notin cache'[w].keys => startAge <= cache'[w].age
        <3>1. CASE cache'[w] = cache[w]
            BY <3>1 DEF CachesFit
        <3>2. CASE cache'[w] = c
            BY <2>5, <2>6, <2>8, <3>2 DEF Keys
        <3> QED BY <2>7, <3>1, <3>2
    <2>10. CachesFit'
        BY <2>2, <2>9 DEF CachesFit
    <2> QED BY <2>2, <2>7, <2>10
<1> QED BY <1>1, <1>2

\* A verification: what it accepts is a token whose key was the signing key less
\* than a cache's lifetime ago, and that was issued no longer ago than a token's.
LEMMA VerifyKeeps ==
    ASSUME TokenBounded, NEW v \in Verifiers, NEW s \in Slots, NEW repo \in AllRepos, NEW ep,
           Verify(v, s, repo, ep)
    PROVE  TokenBounded'
<1>p. TokenTypeOK /\ TokensFit /\ CachesFit
    BY TokenParts
<1>1. PICK t, c, res, failed :
          /\ t = jwt[s] /\ c = cache'[v] /\ failed = (c.age >= CacheTTL)
          /\ res = IF ~(c.age < CacheTTL /\ t.key \in c.keys /\ t.age <= TokenTTL) THEN "unauthorized"
                   ELSE IF ~(IF v = "registry" THEN authMiddleware(t, repo) ELSE jobWriteAllowed(t, repo, ep))
                   THEN "forbidden" ELSE "ok"
    OBVIOUS
<1>2. /\ t # NoJWT /\ keyCacheGet(v) /\ UNCHANGED <<job, endedAge, jwt, retiredAge, startAge>>
      /\ last' = [res |-> res, tok |-> t, ver |-> v, repo |-> repo, ep |-> ep, failed |-> failed]
    BY <1>1 DEF Verify
<1>3. /\ signer' \in [key : Keys, pub : {"unread", "read", "failed"}] /\ signer'.key = signer.key
      /\ cache' \in [Verifiers -> [keys : SUBSET Keys, age : 0..CacheTTL]] /\ CachesFit'
    BY <1>2, <1>p, keyCacheGetKeeps
<1>4. TokenTypeOK'
    BY <1>2, <1>3, <1>p DEF TokenTypeOK
<1>5. TokensFit'
    BY <1>2, <1>p, TokensUndisturbed
<1>6. last'.res = res /\ last'.tok = t /\ last'.ver = v /\ last'.repo = repo /\ last'.ep = ep /\ last'.failed = failed
    BY <1>2
<1>7. /\ t.job \in TokenJobs /\ t.age \in 0..(TokenTTL + 1) /\ t.repo = JobRepo[t.job]
      /\ t.perms = EffectivePermissions(t.job) /\ endedAge[t.job] <= t.age /\ endedAge[t.job] \in 0..(TokenTTL + 1)
    <2>1. jwt[s] # NoJWT
        BY <1>1, <1>2
    <2>2. t.job \in TokenJobs /\ t.age \in 0..(TokenTTL + 1)
        BY <1>1, <1>p, <2>1, TokenTypes
    <2> QED BY <1>1, <1>p, <2>1, <2>2 DEF TokensFit, TokenTypeOK
<1>8. res \in {"ok", "forbidden"} => c.age < CacheTTL /\ t.key \in c.keys /\ t.age <= TokenTTL
    BY <1>1
<1>9. c \in [keys : SUBSET Keys, age : 0..CacheTTL]
    BY <1>1, <1>3
<1>10. AcceptedSoonAfterJob'
    BY <1>2, <1>6, <1>7, <1>8, JobTokensAssumption DEF AcceptedSoonAfterJob
<1>11. KeyChangeTakesEffect'
    <2>1. ASSUME res \in {"ok", "forbidden"}
          PROVE  retiredAge[t.key] < CacheTTL
        <3>1. t.key \in Keys /\ retiredAge'[t.key] <= c.age
            BY <1>1, <1>3, <1>8, <1>9, <2>1 DEF CachesFit
        <3>2. retiredAge[t.key] \in 0..CacheTTL /\ c.age \in 0..CacheTTL
            BY <1>9, <1>p, <3>1 DEF TokenTypeOK
        <3> QED BY <1>2, <1>8, <2>1, <3>1, <3>2, JobTokensAssumption
    <2>2. ASSUME res = "unauthorized", t.key = signer.key, t.age <= TokenTTL, ~failed
          PROVE  startAge < CacheTTL
        <3>0. ~(c.age >= CacheTTL)
            BY <1>1, <2>2, Zenon
        <3>1. c.age < CacheTTL
            BY <1>9, <3>0, JobTokensAssumption
        <3>2. signer.key \notin c.keys
            BY <1>1, <2>2, <3>1
        <3>3. startAge <= c.age
            BY <1>1, <1>2, <1>3, <3>2 DEF CachesFit
        <3>4. startAge \in 0..CacheTTL /\ c.age \in 0..CacheTTL
            BY <1>9, <1>p DEF TokenTypeOK
        <3> QED BY <3>1, <3>3, <3>4, JobTokensAssumption
    <2> QED BY <1>2, <1>3, <1>6, <2>1, <2>2 DEF KeyChangeTakesEffect
<1>12. ActsWithinConfig'
    <2>1. ASSUME res = "ok"
          PROVE  /\ repo = JobRepo[t.job]
                 /\ v = "api" => jobRequiredPermission(ep) \in Declared[t.job] \cup {"checks"}
        <3>1. IF v = "registry" THEN authMiddleware(t, repo) ELSE jobWriteAllowed(t, repo, ep)
            BY <1>1, <2>1
        <3>2. t.repo = repo
            BY <3>1 DEF authMiddleware, jobWriteAllowed
        <3>3. v = "api" => jobRequiredPermission(ep) = "checks" \/ jobRequiredPermission(ep) \in t.perms
            BY <3>1 DEF jobWriteAllowed, jobEndpointAllowed
        <3>4. t.perms \subseteq Declared[t.job] \cup {"checks"}
            BY <1>7 DEF EffectivePermissions
        <3> QED BY <1>7, <3>2, <3>3, <3>4
    <2> QED BY <1>6, <2>1 DEF ActsWithinConfig
<1> QED BY <1>3, <1>4, <1>5, <1>10, <1>11, <1>12 DEF TokenBounded

\* What a job's token can do is bounded through both verifiers, whatever they have
\* cached and whenever ci-oidc restarts: it is accepted no longer than its
\* lifetime after the job's end, a change of the signing key takes effect within
\* the lifetime of the caches, and it acts on its own repository within the
\* permissions of the job's configuration.
THEOREM TokensHold == TokensSpec => []TokenBounded
<1>1. TokensInit => TokenBounded
    <2>1. SUFFICES ASSUME TokensInit PROVE TokenBounded
        OBVIOUS
    <2>2. 1 \in Keys /\ 0 \in 0..(TokenTTL + 1) /\ 0 \in 0..CacheTTL /\ CacheTTL \in 0..CacheTTL
        BY JobTokensAssumption DEF Keys
    <2>3. TokenTypeOK
        BY <2>1, <2>2 DEF TokensInit, TokenTypeOK
    <2>4. TokensFit /\ CachesFit
        BY <2>1, <2>2 DEF TokensInit, TokensFit, CachesFit, Keys
    <2>5. last = NoOutcome
        BY <2>1 DEF TokensInit
    <2> QED BY <2>3, <2>4, <2>5
            DEF TokenBounded, AcceptedSoonAfterJob, KeyChangeTakesEffect, ActsWithinConfig, NoOutcome
<1>2. TokenBounded /\ [TokensNext]_tokenVars => TokenBounded'
    <2>1. SUFFICES ASSUME TokenBounded, [TokensNext]_tokenVars
                   PROVE  TokenBounded'
        OBVIOUS
    <2>2. CASE Tick \/ NewSigner \/ SignerRestarts
        BY <2>1, <2>2, TickKeeps, NewSignerKeeps, SignerRestartsKeeps
    <2>3. CASE \E j \in TokenJobs : ClaimJob(j) \/ EndJob(j) \/ \E s \in Slots : handleToken(s, j)
        BY <2>1, <2>3, ClaimJobKeeps, EndJobKeeps, handleTokenKeeps
    <2>4. CASE \E v \in Verifiers : VerifySome(v)
        BY <2>1, <2>4, VerifyKeeps DEF VerifySome
    <2>5. CASE UNCHANGED tokenVars
        BY <2>1, <2>5 DEF tokenVars, TokenBounded, TokenTypeOK, TokensFit, CachesFit,
                          AcceptedSoonAfterJob, KeyChangeTakesEffect, ActsWithinConfig
    <2> QED BY <2>1, <2>2, <2>3, <2>4, <2>5 DEF TokensNext
<1> QED BY <1>1, <1>2, PTL DEF TokensSpec

-----------------------------------------------------------------------------
(* Secrets *)

SealedInv == SecretsTypeOK /\ SealedUnderFile

LEMMA FailTyped ==
    ASSUME SecretsTypeOK, NEW j \in Jobs, Fail(j)
    PROVE  /\ reveal' \in [Jobs -> RevealRecords] /\ resolved' \in [Jobs -> ResolvedRecords]
           /\ reveal'[j] = [pc |-> "done", left |-> {}, values |-> {}, missing |-> {}]
           /\ resolved'[j] = [st |-> "failed", map |-> {}]
           /\ \A k \in Jobs \ {j} : reveal'[k] = reveal[k] /\ resolved'[k] = resolved[k]
<1>1. [NoReveal EXCEPT !.pc = "done"] = [pc |-> "done", left |-> {}, values |-> {}, missing |-> {}]
    BY DEF NoReveal
<1>2. [pc |-> "done", left |-> {}, values |-> {}, missing |-> {}] \in RevealRecords
    BY DEF RevealRecords
<1>3. Failed \in ResolvedRecords
    BY DEF Failed, ResolvedRecords
<1> QED BY <1>1, <1>2, <1>3 DEF SecretsTypeOK, Fail, Failed

LEMMA NewLocalEncryptorSealed ==
    ASSUME SealedInv, NewLocalEncryptor
    PROVE  SealedInv'
<1>1. CASE kekFile # 0
    BY <1>1 DEF SealedInv, SecretsTypeOK, SealedUnderFile, NewLocalEncryptor, loadOrCreateKEK
<1>2. CASE kekFile = 0
    <2>1. /\ kek' = keys + 1 /\ keys' = keys + 1 /\ kekFile' = keys + 1 /\ row' = row /\ put' = put
          /\ UNCHANGED <<reveal, resolved, accessed, unaudited, latest, window, memberSeen>>
        BY <1>2 DEF NewLocalEncryptor, loadOrCreateKEK
    <2>2. SecretsTypeOK'
        BY <2>1 DEF SealedInv, SecretsTypeOK
    <2>3. ASSUME NEW n \in Names, row[n] # NoSecret PROVE FALSE
        BY <1>2, <2>3 DEF SealedInv, SecretsTypeOK, SealedUnderFile, SealedRecords
    <2>4. ASSUME NEW w \in Writers, put[w].pc = "sealed" PROVE FALSE
        <3>1. put[w].sealed \in SealedRecords /\ put[w].sealed.key = 0
            BY <1>2, <2>4 DEF SealedInv, SecretsTypeOK, SealedUnderFile
        <3> QED BY <3>1 DEF SealedRecords
    <2> QED BY <2>1, <2>2, <2>3, <2>4 DEF SealedInv, SealedUnderFile
<1> QED BY <1>1, <1>2

LEMMA RestartSealed ==
    ASSUME SealedInv, Restart
    PROVE  SealedInv'
<1>1. [NoReveal EXCEPT !.pc = "done"] \in RevealRecords
    BY DEF NoReveal, RevealRecords
<1>2. Failed \in ResolvedRecords
    BY DEF Failed, ResolvedRecords
<1>3. reveal' \in [Jobs -> RevealRecords] /\ resolved' \in [Jobs -> ResolvedRecords]
    BY <1>1, <1>2 DEF SealedInv, SecretsTypeOK, Restart
<1>4. SecretsTypeOK'
    BY <1>3 DEF SealedInv, SecretsTypeOK, Restart
<1> QED BY <1>4 DEF SealedInv, SealedUnderFile, Restart

LEMMA NoteTyped ==
    ASSUME SecretsTypeOK, NEW n \in Names, NEW v \in Values \cup {NoSecret}, Note(n, v)
    PROVE  /\ latest' \in [Names -> Values \cup {NoSecret}]
           /\ window' \in [Jobs -> [Names -> SUBSET (Values \cup {NoSecret})]]
<1>1. Empty \in [Names -> SUBSET (Values \cup {NoSecret})]
    BY DEF Empty
<1>2. ASSUME NEW j \in Jobs
      PROVE  [window[j] EXCEPT ![n] = @ \cup {v}] \in [Names -> SUBSET (Values \cup {NoSecret})]
    <2>1. PICK f : f = window[j]
        OBVIOUS
    <2>2. f \in [Names -> SUBSET (Values \cup {NoSecret})]
        BY <2>1 DEF SecretsTypeOK
    <2>3. f[n] \cup {v} \in SUBSET (Values \cup {NoSecret})
        BY <2>2
    <2> QED BY <2>1, <2>2, <2>3
<1> QED BY <1>1, <1>2 DEF SecretsTypeOK, Note

LEMMA handleSetSecretSealed ==
    ASSUME SealedInv, NEW w \in Writers, handleSetSecret(w)
    PROVE  SealedInv'
<1>1. ASSUME NEW n \in Names, NEW v \in Values, Set(w, n, v)
      PROVE  SealedInv'
    <2>1. PICK s : s = [pc |-> "sealed", name |-> n, sealed |-> [val |-> v, key |-> kek]]
        OBVIOUS
    <2>2. put' = [put EXCEPT ![w] = s] /\ kek # 0
          /\ UNCHANGED <<row, kekFile, kek, keys, reveal, resolved, accessed, unaudited, latest, window, memberSeen>>
        BY <1>1, <2>1 DEF Set, Encrypt
    <2>3. s \in [pc : {"sealed"}, name : Names, sealed : SealedRecords] /\ s.sealed.key = kekFile
        BY <2>1, <2>2 DEF SealedInv, SecretsTypeOK, SealedUnderFile, SealedRecords
    <2>4. SecretsTypeOK'
        BY <2>2, <2>3 DEF SealedInv, SecretsTypeOK
    <2>5. SealedUnderFile'
        BY <2>2, <2>3 DEF SealedInv, SecretsTypeOK, SealedUnderFile
    <2> QED BY <2>4, <2>5 DEF SealedInv
<1>2. ASSUME SetRepoSecret(w)
      PROVE  SealedInv'
    <2>1. PICK n, s : n = put[w].name /\ s = put[w].sealed
        OBVIOUS
    <2>2. /\ put[w].pc = "sealed" /\ row' = [row EXCEPT ![n] = s] /\ Note(n, s.val)
          /\ put' = [put EXCEPT ![w] = [pc |-> "idle"]]
          /\ UNCHANGED <<kekFile, kek, keys, reveal, resolved, accessed, unaudited, memberSeen>>
        BY <1>2, <2>1 DEF SetRepoSecret
    <2>3. n \in Names /\ s \in SealedRecords /\ s.key = kekFile
        BY <2>1, <2>2 DEF SealedInv, SecretsTypeOK, SealedUnderFile
    <2>4. s.val \in Values \cup {NoSecret}
        BY <2>3 DEF SealedRecords
    <2>5. /\ latest' \in [Names -> Values \cup {NoSecret}]
          /\ window' \in [Jobs -> [Names -> SUBSET (Values \cup {NoSecret})]]
        BY <2>2, <2>3, <2>4, NoteTyped DEF SealedInv
    <2>6. SecretsTypeOK'
        BY <2>2, <2>3, <2>5 DEF SealedInv, SecretsTypeOK
    <2>7. SealedUnderFile'
        BY <2>2, <2>3 DEF SealedInv, SecretsTypeOK, SealedUnderFile
    <2> QED BY <2>6, <2>7 DEF SealedInv
<1> QED BY <1>1, <1>2 DEF handleSetSecret

LEMMA handleDeleteSecretSealed ==
    ASSUME SealedInv, NEW n \in Names, handleDeleteSecret(n)
    PROVE  SealedInv'
<1>1. /\ row' = [row EXCEPT ![n] = NoSecret] /\ Note(n, NoSecret)
      /\ UNCHANGED <<put, kekFile, kek, keys, reveal, resolved, accessed, unaudited, memberSeen>>
    BY DEF handleDeleteSecret, DeleteRepoSecret
<1>2. /\ latest' \in [Names -> Values \cup {NoSecret}]
      /\ window' \in [Jobs -> [Names -> SUBSET (Values \cup {NoSecret})]]
    BY <1>1, NoteTyped DEF SealedInv
<1>3. SecretsTypeOK'
    BY <1>1, <1>2 DEF SealedInv, SecretsTypeOK
<1> QED BY <1>1, <1>3 DEF SealedInv, SecretsTypeOK, SealedUnderFile

\* A step of a reveal leaves the keys, the rows and the writers alone.
LEMMA RevealSealed ==
    ASSUME SealedInv, UNCHANGED <<row, put, kekFile, kek, keys>>, SecretsTypeOK'
    PROVE  SealedInv'
BY DEF SealedInv, SealedUnderFile

\* A new record of one job's reveal.
LEMMA RevealTyped ==
    ASSUME SecretsTypeOK, NEW j \in Jobs, NEW r \in RevealRecords, reveal' = [reveal EXCEPT ![j] = r],
           UNCHANGED <<row, put, kekFile, kek, keys, latest>>,
           resolved' \in [Jobs -> ResolvedRecords], accessed' \subseteq Jobs \X Names, unaudited' \subseteq Jobs \X Names,
           window' \in [Jobs -> [Names -> SUBSET (Values \cup {NoSecret})]],
           memberSeen' \in [Jobs -> BOOLEAN]
    PROVE  SecretsTypeOK'
BY DEF SecretsTypeOK

\* What RevealSound says of one job, in the order of its parts.
JobSound(j) ==
    /\ RevealFits(j)
    /\ \A v \in reveal[j].values : reveal[j].pc \in {"respond", "done"} =>
          (<<j, v[1]>> \in accessed <=> <<j, v[1]>> \notin unaudited)
    /\ \A n \in reveal[j].missing : <<j, n>> \notin accessed
    /\ \A b \in Config[j], v \in Values :
          <<b[2], v>> \in resolved[j].map => <<b[3], v>> \in reveal[j].values
JobsSound == \A j \in Jobs : JobSound(j)

\* A job whose reveal, windows and access events a step leaves alone.
LEMMA JobUndisturbed ==
    ASSUME NEW k \in Jobs, JobSound(k), reveal'[k] = reveal[k], resolved'[k] = resolved[k],
           window'[k] = window[k], memberSeen'[k] = memberSeen[k],
           \A n \in Names : <<k, n>> \in accessed' <=> <<k, n>> \in accessed,
           \A n \in Names : <<k, n>> \in unaudited' <=> <<k, n>> \in unaudited,
           UNCHANGED <<latest, orgMember>>, SecretsTypeOK
    PROVE  JobSound(k)'
<1>1. RevealFits(k)'
    BY DEF JobSound, RevealFits, Running, LocalNamesAgree
<1>2. \A v \in reveal[k].values : v[1] \in Names
    BY DEF SecretsTypeOK, RevealRecords
<1>3. reveal[k].missing \subseteq Names
    BY DEF SecretsTypeOK, RevealRecords
<1> QED BY <1>1, <1>2, <1>3 DEF JobSound

\* A reveal that ended with nothing: refused, failed or cut off by a restart.
LEMMA JobCut ==
    ASSUME NEW j \in Jobs, SecretsTypeOK, SecretsTypeOK',
           reveal'[j] = [pc |-> "done", left |-> {}, values |-> {}, missing |-> {}],
           resolved'[j] = [st |-> "failed", map |-> {}]
    PROVE  JobSound(j)'
<1>1. reveal'[j].pc = "done" /\ reveal'[j].left = {} /\ reveal'[j].values = {} /\ reveal'[j].missing = {}
      /\ resolved'[j].map = {}
    OBVIOUS
<1>2. RevealFits(j)'
    BY <1>1 DEF RevealFits, Running
<1> QED BY <1>1, <1>2 DEF JobSound

LEMMA FailSound ==
    ASSUME SealedInv, JobsSound, NEW j \in Jobs, Fail(j),
           UNCHANGED <<row, put, kekFile, kek, keys, orgMember, accessed, unaudited, latest, window, memberSeen>>
    PROVE  SealedInv' /\ JobsSound'
<1>1. /\ reveal' \in [Jobs -> RevealRecords] /\ resolved' \in [Jobs -> ResolvedRecords]
      /\ reveal'[j] = [pc |-> "done", left |-> {}, values |-> {}, missing |-> {}]
      /\ resolved'[j] = [st |-> "failed", map |-> {}]
      /\ \A k \in Jobs \ {j} : reveal'[k] = reveal[k] /\ resolved'[k] = resolved[k]
    BY FailTyped DEF SealedInv
<1>2. SecretsTypeOK'
    BY <1>1 DEF SealedInv, SecretsTypeOK
<1>3. SealedInv'
    BY <1>2, RevealSealed
<1>4. JobSound(j)'
    BY <1>1, <1>2, JobCut DEF SealedInv
<1>5. ASSUME NEW k \in Jobs \ {j} PROVE JobSound(k)'
    BY <1>1, JobUndisturbed DEF SealedInv, JobsSound
<1> QED BY <1>3, <1>4, <1>5 DEF JobsSound

\* A step of one job's reveal that touches neither windows nor memberships.
LEMMA RevealStep ==
    ASSUME SealedInv, JobsSound, NEW j \in Jobs, NEW r \in RevealRecords,
           reveal' = [reveal EXCEPT ![j] = r],
           UNCHANGED <<row, put, kekFile, kek, keys, orgMember, latest, window, memberSeen>>,
           resolved' \in [Jobs -> ResolvedRecords], accessed' \subseteq Jobs \X Names, unaudited' \subseteq Jobs \X Names,
           \A k \in Jobs \ {j} : resolved'[k] = resolved[k],
           \A k \in Jobs \ {j} : \A n \in Names : <<k, n>> \in accessed' <=> <<k, n>> \in accessed,
           \A k \in Jobs \ {j} : \A n \in Names : <<k, n>> \in unaudited' <=> <<k, n>> \in unaudited,
           reveal'[j] = r => JobSound(j)'
    PROVE  SealedInv' /\ JobsSound'
<1>0. reveal \in [Jobs -> RevealRecords] /\ SecretsTypeOK
    BY DEF SealedInv, SecretsTypeOK
<1>1. SecretsTypeOK'
    BY <1>0, RevealTyped DEF SealedInv, SecretsTypeOK
<1>2. SealedInv'
    BY <1>1, RevealSealed
<1>3. reveal'[j] = r /\ \A k \in Jobs \ {j} : reveal'[k] = reveal[k]
    BY <1>0
<1>4. ASSUME NEW k \in Jobs \ {j} PROVE JobSound(k)'
    BY <1>0, <1>3, JobUndisturbed DEF JobsSound
<1> QED BY <1>2, <1>3, <1>4 DEF JobsSound

LEMMA LookupSound ==
    ASSUME SealedInv, JobsSound, NEW j \in Jobs, LookupRequestToken(j)
    PROVE  SealedInv' /\ JobsSound'
<1>0. UNCHANGED <<row, put, kekFile, kek, keys, orgMember, accessed, unaudited, latest, window, memberSeen>>
    BY DEF LookupRequestToken
<1>1. CASE j \notin claimed
    BY <1>0, <1>1, FailSound DEF LookupRequestToken
<1>2. CASE j \in claimed
    <2>1. PICK r : r = [reveal[j] EXCEPT !.pc = "gate"]
        OBVIOUS
    <2>2. reveal[j] \in RevealRecords /\ reveal[j].pc = "sent"
        BY DEF LookupRequestToken, SealedInv, SecretsTypeOK
    <2>3. /\ r \in RevealRecords /\ r.pc = "gate" /\ r.left = reveal[j].left
          /\ r.values = reveal[j].values /\ r.missing = reveal[j].missing
        BY <2>1, <2>2 DEF RevealRecords
    <2>4. reveal' = [reveal EXCEPT ![j] = r] /\ resolved' = resolved
        BY <1>2, <2>1 DEF LookupRequestToken
    <2>5. ASSUME reveal'[j] = r PROVE JobSound(j)'
        <3>1. JobSound(j)
            BY DEF JobsSound
        <3>2. RevealFits(j)'
            BY <1>0, <2>2, <2>3, <2>5, <3>1 DEF JobSound, RevealFits, Running, LocalNamesAgree
        <3> QED BY <1>0, <2>2, <2>3, <2>4, <2>5, <3>1, <3>2 DEF JobSound
    <2> QED BY <1>0, <2>3, <2>4, <2>5, RevealStep DEF SealedInv, SecretsTypeOK
<1> QED BY <1>1, <1>2

LEMMA GateSound ==
    ASSUME SealedInv, JobsSound, NEW j \in Jobs, RevealGate(j)
    PROVE  SealedInv' /\ JobsSound'
<1>0. UNCHANGED <<row, put, kekFile, kek, keys, orgMember, accessed, unaudited, latest, window, memberSeen>>
    BY DEF RevealGate
<1>1. CASE ~allowSecretsForJob(j)
    BY <1>0, <1>1, FailSound DEF RevealGate
<1>2. CASE allowSecretsForJob(j)
    <2>1. PICK r : r = [reveal[j] EXCEPT !.pc = "reading"]
        OBVIOUS
    <2>2. reveal[j] \in RevealRecords /\ reveal[j].pc = "gate"
        BY DEF RevealGate, SealedInv, SecretsTypeOK
    <2>3. /\ r \in RevealRecords /\ r.pc = "reading" /\ r.left = reveal[j].left
          /\ r.values = reveal[j].values /\ r.missing = reveal[j].missing
        BY <2>1, <2>2 DEF RevealRecords
    <2>4. reveal' = [reveal EXCEPT ![j] = r] /\ resolved' = resolved
        BY <1>2, <2>1 DEF RevealGate
    <2>5. ASSUME reveal'[j] = r PROVE JobSound(j)'
        <3>1. JobSound(j)
            BY DEF JobsSound
        <3>2. TriggerOf[j] # "other" /\ (TriggerOf[j] = "proposal" => memberSeen[j])
            BY <1>2, <2>2, <3>1 DEF allowSecretsForJob, JobSound, RevealFits, Running
        <3>3. RevealFits(j)'
            BY <1>0, <2>2, <2>3, <2>5, <3>1, <3>2 DEF JobSound, RevealFits, Running, LocalNamesAgree
        <3> QED BY <1>0, <2>2, <2>3, <2>4, <2>5, <3>1, <3>3 DEF JobSound
    <2> QED BY <1>0, <2>3, <2>4, <2>5, RevealStep DEF SealedInv, SecretsTypeOK
<1> QED BY <1>1, <1>2

LEMMA RevealOneSound ==
    ASSUME SealedInv, RowsFit, JobsSound, NEW j \in Jobs, NEW n \in Names, RevealOne(j, n)
    PROVE  SealedInv' /\ JobsSound'
<1>0. /\ UNCHANGED <<row, put, kekFile, kek, keys, orgMember, resolved, accessed, unaudited, latest, window, memberSeen>>
      /\ reveal[j].pc = "reading" /\ n \in reveal[j].left
    BY DEF RevealOne
<1>1. reveal \in [Jobs -> RevealRecords] /\ reveal[j] \in RevealRecords /\ row[n] \in SealedRecords \cup {NoSecret}
    BY DEF SealedInv, SecretsTypeOK
<1>2. PICK vals, miss :
         /\ vals = IF row[n] = NoSecret THEN reveal[j].values ELSE reveal[j].values \cup {<<n, row[n].val>>}
         /\ miss = IF row[n] = NoSecret THEN reveal[j].missing \cup {n} ELSE reveal[j].missing
    OBVIOUS
<1>3. PICK r : r = [pc |-> "reading", left |-> reveal[j].left \ {n}, values |-> vals, missing |-> miss]
    OBVIOUS
<1>4. reveal' = [reveal EXCEPT ![j] = r]
    BY <1>2, <1>3 DEF RevealOne, GetRepoSecret
<1>5. r \in RevealRecords
    BY <1>1, <1>2, <1>3 DEF RevealRecords, SealedRecords
<1>6. JobSound(j)
    BY DEF JobsSound
<1>7. ASSUME reveal'[j] = r PROVE JobSound(j)'
    <2>0. /\ reveal'[j].pc = "reading" /\ reveal'[j].left = reveal[j].left \ {n}
          /\ reveal'[j].values = vals /\ reveal'[j].missing = miss
        BY <1>3, <1>7
    <2>1. /\ {v[1] : v \in reveal[j].values} \cap reveal[j].missing = {}
          /\ reveal[j].left \cap ({v[1] : v \in reveal[j].values} \cup reveal[j].missing) = {}
          /\ \A x \in Names : <<j, x>> \notin accessed /\ <<j, x>> \notin unaudited
          /\ LocalNamesAgree(j)
          /\ {v[1] : v \in reveal[j].values} \cup reveal[j].missing \cup reveal[j].left = Requested(j)
          /\ \A x \in Names : latest[x] \in window[j][x]
          /\ \A v \in reveal[j].values : v[2] \in window[j][v[1]]
          /\ \A x \in reveal[j].missing : NoSecret \in window[j][x]
          /\ AuthorOf[j] \in orgMember => memberSeen[j]
          /\ TriggerOf[j] # "other" /\ (TriggerOf[j] = "proposal" => memberSeen[j])
        BY <1>0, <1>6 DEF JobSound, RevealFits, Running
    <2>2. CASE row[n] = NoSecret
        <3>1. vals = reveal[j].values /\ miss = reveal[j].missing \cup {n}
            BY <1>2, <2>2
        <3>2. NoSecret \in window[j][n]
            BY <2>1, <2>2 DEF RowsFit
        <3>3. RevealFits(j)'
            BY <1>0, <2>0, <2>1, <3>1, <3>2 DEF RevealFits, Running, LocalNamesAgree
        <3> QED BY <1>0, <1>6, <2>0, <2>1, <3>1, <3>3 DEF JobSound
    <2>3. CASE row[n] # NoSecret
        <3>1. vals = reveal[j].values \cup {<<n, row[n].val>>} /\ miss = reveal[j].missing
            BY <1>2, <2>3
        <3>2. row[n].val \in window[j][n]
            BY <2>1, <2>3 DEF RowsFit
        <3>3. {v[1] : v \in vals} = {v[1] : v \in reveal[j].values} \cup {n}
            <4>1. PICK p : p = <<n, row[n].val>>
                OBVIOUS
            <4>2. p[1] = n /\ vals = reveal[j].values \cup {p}
                BY <3>1, <4>1
            <4> QED BY <4>2
        <3>4. \A v \in vals : v[2] \in window[j][v[1]]
            BY <2>1, <3>1, <3>2
        <3>5. RevealFits(j)'
            BY <1>0, <2>0, <2>1, <3>1, <3>3, <3>4 DEF RevealFits, Running, LocalNamesAgree
        <3> QED BY <1>0, <1>6, <2>0, <2>1, <3>1, <3>5 DEF JobSound
    <2> QED BY <2>2, <2>3
<1> QED BY <1>0, <1>4, <1>5, <1>7, RevealStep DEF SealedInv, SecretsTypeOK

LEMMA AuditSound ==
    ASSUME SealedInv, JobsSound, NEW j \in Jobs, RevealAudit(j)
    PROVE  SealedInv' /\ JobsSound'
<1>0. PICK lost \in SUBSET {v[1] : v \in reveal[j].values} :
      /\ UNCHANGED <<row, put, kekFile, kek, keys, orgMember, resolved, latest, window, memberSeen>>
      /\ reveal[j].pc = "reading" /\ reveal[j].left = {}
      /\ accessed' = accessed \cup {<<j, n>> : n \in {v[1] : v \in reveal[j].values} \ lost}
      /\ unaudited' = unaudited \cup {<<j, n>> : n \in lost}
      /\ reveal' = [reveal EXCEPT ![j].pc = "respond"]
    BY DEF RevealAudit
<1>1. /\ reveal[j] \in RevealRecords /\ accessed \subseteq Jobs \X Names /\ unaudited \subseteq Jobs \X Names
      /\ resolved' \in [Jobs -> ResolvedRecords]
    BY <1>0 DEF SealedInv, SecretsTypeOK
<1>2. PICK r : r = [reveal[j] EXCEPT !.pc = "respond"]
    OBVIOUS
<1>3. /\ r \in RevealRecords /\ r.pc = "respond" /\ r.left = reveal[j].left
      /\ r.values = reveal[j].values /\ r.missing = reveal[j].missing
    BY <1>1, <1>2 DEF RevealRecords
<1>4. reveal' = [reveal EXCEPT ![j] = r]
    BY <1>0, <1>2
<1>5. \A v \in reveal[j].values : v[1] \in Names
    BY <1>1 DEF RevealRecords
<1>6. accessed' \subseteq Jobs \X Names /\ unaudited' \subseteq Jobs \X Names
    BY <1>0, <1>1, <1>5
<1>7. \A k \in Jobs \ {j} : \A n \in Names : /\ <<k, n>> \in accessed' <=> <<k, n>> \in accessed
                                           /\ <<k, n>> \in unaudited' <=> <<k, n>> \in unaudited
    BY <1>0
<1>8. ASSUME reveal'[j] = r PROVE JobSound(j)'
    <2>1. JobSound(j)
        BY DEF JobsSound
    <2>2. RevealFits(j)'
        BY <1>0, <1>3, <1>8, <2>1 DEF JobSound, RevealFits, Running, LocalNamesAgree
    <2>3. ASSUME NEW v \in reveal'[j].values
          PROVE  <<j, v[1]>> \in accessed' <=> <<j, v[1]>> \notin unaudited'
        <3>1. v \in reveal[j].values /\ v[1] \in Names
            BY <1>3, <1>5, <1>8, <2>3
        <3>2. <<j, v[1]>> \notin accessed /\ <<j, v[1]>> \notin unaudited
            BY <1>0, <2>1, <3>1 DEF JobSound, RevealFits
        <3> QED BY <1>0, <3>1, <3>2
    <2>4. \A n \in reveal'[j].missing : <<j, n>> \notin accessed'
        <3>1. {v[1] : v \in reveal[j].values} \cap reveal[j].missing = {}
            BY <2>1 DEF JobSound, RevealFits
        <3>2. \A n \in reveal[j].missing : <<j, n>> \notin accessed
            BY <2>1 DEF JobSound
        <3> QED BY <1>0, <1>3, <1>8, <3>1, <3>2
    <2> QED BY <1>0, <1>3, <1>8, <2>1, <2>2, <2>3, <2>4 DEF JobSound
<1> QED BY <1>0, <1>1, <1>3, <1>4, <1>6, <1>7, <1>8, RevealStep

LEMMA FetchDoneSound ==
    ASSUME SealedInv, JobsSound, NEW j \in Jobs, FetchDone(j)
    PROVE  SealedInv' /\ JobsSound'
<1>0. /\ UNCHANGED <<row, put, kekFile, kek, keys, orgMember, accessed, unaudited, latest, window, memberSeen>>
      /\ reveal[j].pc = "respond"
    BY DEF FetchDone
<1>1. reveal[j] \in RevealRecords /\ resolved \in [Jobs -> ResolvedRecords] /\ accessed \subseteq Jobs \X Names /\ unaudited \subseteq Jobs \X Names
    BY DEF SealedInv, SecretsTypeOK
<1>2. PICK r : r = [reveal[j] EXCEPT !.pc = "done"]
    OBVIOUS
<1>3. PICK mp : mp = {lv \in {b[2] : b \in Config[j]} \X Values :
                        \E b \in Config[j] : b[2] = lv[1] /\ <<b[3], lv[2]>> \in reveal[j].values}
    OBVIOUS
<1>4. /\ r \in RevealRecords /\ r.pc = "done" /\ r.left = reveal[j].left
      /\ r.values = reveal[j].values /\ r.missing = reveal[j].missing
    BY <1>1, <1>2 DEF RevealRecords
<1>5. /\ reveal' = [reveal EXCEPT ![j] = r]
      /\ resolved' = [resolved EXCEPT ![j] = [st |-> "ok", map |-> mp]]
    BY <1>2, <1>3 DEF FetchDone
<1>6. [st |-> "ok", map |-> mp] \in ResolvedRecords
    BY <1>3 DEF ResolvedRecords
<1>7. /\ resolved' \in [Jobs -> ResolvedRecords] /\ resolved'[j].map = mp
      /\ \A k \in Jobs \ {j} : resolved'[k] = resolved[k]
    BY <1>1, <1>5, <1>6
<1>8. ASSUME reveal'[j] = r PROVE JobSound(j)'
    <2>1. JobSound(j)
        BY DEF JobsSound
    <2>2. RevealFits(j)'
        BY <1>0, <1>4, <1>8, <2>1 DEF JobSound, RevealFits, Running
    <2>3. LocalNamesAgree(j)
        BY <1>0, <2>1 DEF JobSound, RevealFits, Running
    <2>4. ASSUME NEW b \in Config[j], NEW v \in Values, <<b[2], v>> \in mp
          PROVE  <<b[3], v>> \in reveal[j].values
        <3>1. PICK c \in Config[j] : c[2] = b[2] /\ <<c[3], v>> \in reveal[j].values
            BY <1>3, <2>4
        <3> QED BY <2>3, <3>1 DEF LocalNamesAgree
    <2> QED BY <1>0, <1>4, <1>7, <1>8, <2>1, <2>2, <2>4 DEF JobSound
<1> QED BY <1>0, <1>1, <1>4, <1>5, <1>7, <1>8, RevealStep

LEMMA SkipSound ==
    ASSUME SealedInv, JobsSound, NEW j \in Jobs, fetchSecretsSkips(j)
    PROVE  SealedInv' /\ JobsSound'
<1>0. /\ UNCHANGED <<row, put, kekFile, kek, keys, orgMember, accessed, unaudited, latest, window, memberSeen>>
      /\ reveal[j].pc = "idle"
    BY DEF fetchSecretsSkips
<1>1. reveal[j] \in RevealRecords /\ resolved \in [Jobs -> ResolvedRecords] /\ accessed \subseteq Jobs \X Names /\ unaudited \subseteq Jobs \X Names
    BY DEF SealedInv, SecretsTypeOK
<1>2. PICK r, o : /\ r = [reveal[j] EXCEPT !.pc = "done"]
                  /\ o = IF Config[j] = {} THEN [st |-> "ok", map |-> {}] ELSE Failed
    OBVIOUS
<1>3. /\ r \in RevealRecords /\ r.pc = "done" /\ r.left = reveal[j].left
      /\ r.values = reveal[j].values /\ r.missing = reveal[j].missing
    BY <1>1, <1>2 DEF RevealRecords
<1>4. reveal' = [reveal EXCEPT ![j] = r] /\ resolved' = [resolved EXCEPT ![j] = o]
    BY <1>2 DEF fetchSecretsSkips
<1>5. o \in ResolvedRecords /\ o.map = {}
    BY <1>2 DEF ResolvedRecords, Failed
<1>6. /\ resolved' \in [Jobs -> ResolvedRecords] /\ resolved'[j].map = {}
      /\ \A k \in Jobs \ {j} : resolved'[k] = resolved[k]
    BY <1>1, <1>4, <1>5
<1>7. ASSUME reveal'[j] = r PROVE JobSound(j)'
    <2>1. reveal[j].values = {} /\ reveal[j].missing = {}
        BY <1>0 DEF JobsSound, JobSound, RevealFits
    <2>2. RevealFits(j)'
        BY <1>0, <1>3, <1>7, <2>1 DEF RevealFits, Running
    <2> QED BY <1>3, <1>6, <1>7, <2>1, <2>2 DEF JobSound
<1> QED BY <1>0, <1>1, <1>3, <1>4, <1>6, <1>7, RevealStep

LEMMA FetchSound ==
    ASSUME SealedInv, JobsSound, NEW j \in Jobs, fetchSecrets(j)
    PROVE  SealedInv' /\ JobsSound'
<1>0. /\ UNCHANGED <<row, put, kekFile, kek, keys, orgMember, accessed, unaudited, latest, resolved>>
      /\ reveal[j].pc = "idle" /\ LocalNamesAgree(j)
      /\ window' = [window EXCEPT ![j] = [n \in Names |-> {latest[n]}]]
      /\ memberSeen' = [memberSeen EXCEPT ![j] = AuthorOf[j] \in orgMember]
    BY DEF fetchSecrets
<1>1. SecretsTypeOK /\ reveal \in [Jobs -> RevealRecords] /\ latest \in [Names -> Values \cup {NoSecret}]
      /\ window \in [Jobs -> [Names -> SUBSET (Values \cup {NoSecret})]] /\ memberSeen \in [Jobs -> BOOLEAN]
    BY DEF SealedInv, SecretsTypeOK
<1>2. PICK r : r = [pc |-> "sent", left |-> Requested(j), values |-> {}, missing |-> {}]
    OBVIOUS
<1>3. reveal' = [reveal EXCEPT ![j] = r]
    BY <1>2 DEF fetchSecrets
<1>4. r \in RevealRecords
    BY <1>2, SecretsAssumption DEF RevealRecords
<1>5. /\ window' \in [Jobs -> [Names -> SUBSET (Values \cup {NoSecret})]]
      /\ \A n \in Names : latest[n] \in window'[j][n]
      /\ \A k \in Jobs \ {j} : window'[k] = window[k]
    <2>1. [n \in Names |-> {latest[n]}] \in [Names -> SUBSET (Values \cup {NoSecret})]
        BY <1>1
    <2> QED BY <1>0, <1>1, <2>1
<1>6. /\ memberSeen' \in [Jobs -> BOOLEAN] /\ \A k \in Jobs \ {j} : memberSeen'[k] = memberSeen[k]
      /\ memberSeen'[j] = (AuthorOf[j] \in orgMember)
    BY <1>0, <1>1
<1>7. SecretsTypeOK'
    BY <1>0, <1>1, <1>3, <1>4, <1>5, <1>6, RevealTyped DEF SecretsTypeOK
<1>8. SealedInv'
    BY <1>0, <1>7, RevealSealed
<1>9. reveal'[j] = r /\ \A k \in Jobs \ {j} : reveal'[k] = reveal[k]
    BY <1>1, <1>3
<1>10. JobSound(j)'
    <2>1. JobSound(j)
        BY DEF JobsSound
    <2>2. /\ reveal'[j].pc = "sent" /\ reveal'[j].left = Requested(j)
          /\ reveal'[j].values = {} /\ reveal'[j].missing = {}
        BY <1>2, <1>9
    <2>3. reveal[j].values = {} /\ \A n \in Names : <<j, n>> \notin accessed /\ <<j, n>> \notin unaudited
        BY <1>0, <2>1 DEF JobSound, RevealFits
    <2>4. RevealFits(j)'
        BY <1>0, <1>5, <1>6, <2>2, <2>3 DEF RevealFits, Running, LocalNamesAgree, Requested
    <2> QED BY <1>0, <2>1, <2>2, <2>3, <2>4 DEF JobSound
<1>11. ASSUME NEW k \in Jobs \ {j} PROVE JobSound(k)'
    BY <1>0, <1>1, <1>5, <1>6, <1>9, JobUndisturbed DEF JobsSound
<1> QED BY <1>8, <1>10, <1>11 DEF JobsSound

LEMMA RestartSound ==
    ASSUME SealedInv, JobsSound, Restart
    PROVE  JobsSound'
<1>1. SecretsTypeOK /\ SecretsTypeOK'
    BY RestartSealed DEF SealedInv
<1>2. SUFFICES ASSUME NEW j \in Jobs PROVE JobSound(j)'
    BY DEF JobsSound
<1>3. UNCHANGED <<orgMember, accessed, unaudited, latest, window, memberSeen>>
    BY DEF Restart
<1>4. CASE Running(j)
    <2>1. reveal'[j] = [pc |-> "done", left |-> {}, values |-> {}, missing |-> {}]
        BY <1>4 DEF Restart, NoReveal
    <2>2. resolved'[j] = [st |-> "failed", map |-> {}]
        BY <1>4 DEF Restart, Failed
    <2> QED BY <1>1, <2>1, <2>2, JobCut
<1>5. CASE ~Running(j)
    <2>1. reveal'[j] = reveal[j] /\ resolved'[j] = resolved[j]
        BY <1>5 DEF Restart
    <2> QED BY <1>1, <1>3, <2>1, JobUndisturbed DEF JobsSound
<1> QED BY <1>4, <1>5

\* A new value of a name is added to the window of every running reveal.
LEMMA NoteSound ==
    ASSUME SealedInv, JobsSound, NEW n \in Names, NEW v \in Values \cup {NoSecret}, Note(n, v),
           UNCHANGED <<orgMember, reveal, resolved, accessed, unaudited, memberSeen>>
    PROVE  JobsSound'
<1>1. SUFFICES ASSUME NEW j \in Jobs PROVE JobSound(j)'
    BY DEF JobsSound
<1>2. /\ window[j] \in [Names -> SUBSET (Values \cup {NoSecret})] /\ latest \in [Names -> Values \cup {NoSecret}]
      /\ reveal[j] \in RevealRecords
    BY DEF SealedInv, SecretsTypeOK
<1>3. JobSound(j)
    BY DEF JobsSound
<1>4. ASSUME Running(j)
      PROVE  \A x \in Names : latest'[x] \in window'[j][x] /\ window[j][x] \subseteq window'[j][x]
    <2>1. PICK f : f = window[j]
        OBVIOUS
    <2>2. window'[j] = [f EXCEPT ![n] = f[n] \cup {v}] /\ latest' = [latest EXCEPT ![n] = v]
        BY <1>4, <2>1 DEF Note
    <2>3. \A x \in Names : latest[x] \in f[x]
        BY <1>3, <1>4, <2>1 DEF JobSound, RevealFits
    <2> QED BY <1>2, <2>1, <2>2, <2>3
<1>5. /\ \A w \in reveal[j].values : w[1] \in Names
      /\ reveal[j].missing \subseteq Names
    BY <1>2 DEF RevealRecords
<1>6. RevealFits(j)'
    BY <1>3, <1>4, <1>5 DEF JobSound, RevealFits, Running, LocalNamesAgree, Requested
<1> QED BY <1>3, <1>6 DEF JobSound

LEMMA JoinOrLeaveSound ==
    ASSUME SealedInv, JobsSound, NEW a \in Authors, JoinOrLeave(a)
    PROVE  SealedInv' /\ JobsSound'
<1>0. /\ UNCHANGED <<row, put, kekFile, kek, keys, reveal, resolved, accessed, unaudited, latest, window>>
      /\ orgMember' = IF a \in orgMember THEN orgMember \ {a} ELSE orgMember \cup {a}
      /\ memberSeen' = [j \in Jobs |-> memberSeen[j] \/ (Running(j) /\ AuthorOf[j] = a /\ a \notin orgMember)]
    BY DEF JoinOrLeave
<1>1. memberSeen' \in [Jobs -> BOOLEAN]
    BY <1>0, Zenon
<1>2. SecretsTypeOK'
    BY <1>0, <1>1 DEF SealedInv, SecretsTypeOK
<1>3. ASSUME NEW j \in Jobs PROVE JobSound(j)'
    <2>1. JobSound(j)
        BY DEF JobsSound
    <2>2. /\ memberSeen[j] => memberSeen'[j]
          /\ Running(j) /\ AuthorOf[j] = a /\ a \notin orgMember => memberSeen'[j]
        BY <1>0, Zenon
    <2>3. Running(j) /\ AuthorOf[j] \in orgMember' => memberSeen'[j]
        BY <1>0, <2>1, <2>2 DEF JobSound, RevealFits
    <2>4. RevealFits(j)'
        BY <1>0, <2>1, <2>2, <2>3 DEF JobSound, RevealFits, Running, LocalNamesAgree, Requested
    <2> QED BY <1>0, <2>1, <2>4 DEF JobSound
<1> QED BY <1>0, <1>2, <1>3, RevealSealed DEF JobsSound

SecretsInv == SealedInv /\ RowsFit /\ JobsSound

LEMMA RowsKept ==
    ASSUME RowsFit, UNCHANGED <<row, latest>>
    PROVE  RowsFit'
BY DEF RowsFit

LEMMA SetSound ==
    ASSUME SecretsInv, NEW w \in Writers, handleSetSecret(w)
    PROVE  SecretsInv'
<1>1. SealedInv'
    BY handleSetSecretSealed DEF SecretsInv
<1>2. ASSUME NEW n \in Names, NEW v \in Values, Set(w, n, v)
      PROVE  RowsFit' /\ JobsSound'
    <2>1. UNCHANGED <<row, orgMember, reveal, resolved, accessed, unaudited, latest, window, memberSeen>>
        BY <1>2 DEF Set
    <2>2. ASSUME NEW j \in Jobs PROVE JobSound(j)'
        BY <2>1, JobUndisturbed DEF SecretsInv, SealedInv, JobsSound
    <2> QED BY <2>1, <2>2, RowsKept DEF SecretsInv, JobsSound
<1>3. ASSUME SetRepoSecret(w)
      PROVE  RowsFit' /\ JobsSound'
    <2>1. PICK n, s : n = put[w].name /\ s = put[w].sealed
        OBVIOUS
    <2>2. /\ put[w].pc = "sealed" /\ row' = [row EXCEPT ![n] = s] /\ Note(n, s.val)
          /\ UNCHANGED <<orgMember, reveal, resolved, accessed, unaudited, memberSeen>>
        BY <1>3, <2>1 DEF SetRepoSecret
    <2>3. n \in Names /\ s \in SealedRecords
        BY <2>1, <2>2 DEF SecretsInv, SealedInv, SecretsTypeOK
    <2>4. s.val \in Values \cup {NoSecret} /\ s # NoSecret
        BY <2>3, SecretsAssumption DEF SealedRecords
    <2>5. JobsSound'
        BY <2>2, <2>3, <2>4, NoteSound DEF SecretsInv
    <2>6. latest' = [latest EXCEPT ![n] = s.val]
        BY <2>2 DEF Note
    <2>7. RowsFit'
        BY <2>2, <2>3, <2>4, <2>6 DEF SecretsInv, SealedInv, SecretsTypeOK, RowsFit
    <2> QED BY <2>5, <2>7
<1> QED BY <1>1, <1>2, <1>3 DEF handleSetSecret, SecretsInv

LEMMA DeleteSound ==
    ASSUME SecretsInv, NEW n \in Names, handleDeleteSecret(n)
    PROVE  SecretsInv'
<1>1. SealedInv'
    BY handleDeleteSecretSealed DEF SecretsInv
<1>2. /\ row' = [row EXCEPT ![n] = NoSecret] /\ Note(n, NoSecret)
      /\ UNCHANGED <<orgMember, reveal, resolved, accessed, unaudited, memberSeen>>
    BY DEF handleDeleteSecret, DeleteRepoSecret
<1>3. JobsSound'
    BY <1>2, NoteSound DEF SecretsInv
<1>4. latest' = [latest EXCEPT ![n] = NoSecret]
    BY <1>2 DEF Note
<1>5. RowsFit'
    BY <1>2, <1>4 DEF SecretsInv, SealedInv, SecretsTypeOK, RowsFit
<1> QED BY <1>1, <1>3, <1>5 DEF SecretsInv

LEMMA JobStepSound ==
    ASSUME SecretsInv, NEW j \in Jobs,
           \/ fetchSecrets(j) \/ fetchSecretsSkips(j) \/ handleRevealSecrets(j) \/ FetchDone(j)
           \/ JobEnds(j)
    PROVE  SecretsInv'
<1>0. SealedInv /\ RowsFit /\ JobsSound
    BY DEF SecretsInv
<1>1. CASE fetchSecrets(j)
    BY <1>0, <1>1, FetchSound, RowsKept DEF fetchSecrets, SecretsInv
<1>2. CASE fetchSecretsSkips(j)
    BY <1>0, <1>2, SkipSound, RowsKept DEF fetchSecretsSkips, SecretsInv
<1>3. CASE LookupRequestToken(j)
    BY <1>0, <1>3, LookupSound, RowsKept DEF LookupRequestToken, SecretsInv
<1>4. CASE RevealGate(j)
    BY <1>0, <1>4, GateSound, RowsKept DEF RevealGate, SecretsInv
<1>5. ASSUME NEW n \in Names, RevealOne(j, n) PROVE SecretsInv'
    BY <1>0, <1>5, RevealOneSound, RowsKept DEF RevealOne, SecretsInv
<1>6. CASE RevealFails(j)
    BY <1>0, <1>6, FailSound, RowsKept DEF RevealFails, SecretsInv
<1>7. CASE RevealAudit(j)
    BY <1>0, <1>7, AuditSound, RowsKept DEF RevealAudit, SecretsInv
<1>8. CASE FetchDone(j)
    BY <1>0, <1>8, FetchDoneSound, RowsKept DEF FetchDone, SecretsInv
<1>9. CASE JobEnds(j)
    <2>1. UNCHANGED <<row, put, kekFile, kek, keys, orgMember, reveal, resolved, accessed, unaudited, latest, window, memberSeen>>
        BY <1>9 DEF JobEnds
    <2>2. SealedInv'
        BY <1>0, <2>1 DEF SealedInv, SecretsTypeOK, SealedUnderFile
    <2>3. ASSUME NEW k \in Jobs PROVE JobSound(k)'
        BY <1>0, <2>1, JobUndisturbed DEF SealedInv, JobsSound
    <2> QED BY <1>0, <2>1, <2>2, <2>3, RowsKept DEF SecretsInv, JobsSound
<1> QED BY <1>1, <1>2, <1>3, <1>4, <1>5, <1>6, <1>7, <1>8, <1>9 DEF handleRevealSecrets

LEMMA SecretsKept ==
    ASSUME SecretsInv, [SecretsNext]_secretsVars
    PROVE  SecretsInv'
<1>0. SealedInv /\ RowsFit /\ JobsSound
    BY DEF SecretsInv
<1>1. ASSUME UNCHANGED <<orgMember, reveal, resolved, accessed, unaudited, latest, window, memberSeen>>
      PROVE  JobsSound'
    <2>1. ASSUME NEW j \in Jobs PROVE JobSound(j)'
        BY <1>0, <1>1, JobUndisturbed DEF SealedInv, JobsSound
    <2> QED BY <2>1 DEF JobsSound
<1>2. CASE NewLocalEncryptor
    BY <1>0, <1>1, <1>2, NewLocalEncryptorSealed, RowsKept DEF NewLocalEncryptor, SecretsInv
<1>3. CASE Restart
    BY <1>0, <1>3, RestartSealed, RestartSound, RowsKept DEF Restart, SecretsInv
<1>4. CASE \E w \in Writers : handleSetSecret(w)
    BY <1>4, SetSound
<1>5. CASE \E n \in Names : handleDeleteSecret(n)
    BY <1>5, DeleteSound
<1>6. CASE \E j \in Jobs : \/ fetchSecrets(j) \/ fetchSecretsSkips(j)
                           \/ handleRevealSecrets(j) \/ FetchDone(j) \/ JobEnds(j)
    BY <1>6, JobStepSound
<1>7. CASE \E a \in Authors : JoinOrLeave(a)
    BY <1>0, <1>7, JoinOrLeaveSound, RowsKept DEF JoinOrLeave, SecretsInv
<1>8. CASE UNCHANGED secretsVars
    <2>1. UNCHANGED <<row, put, kekFile, kek, keys, orgMember, reveal, resolved, accessed, unaudited, latest, window, memberSeen>>
        BY <1>8 DEF secretsVars
    <2>2. SealedInv'
        BY <1>0, <2>1 DEF SealedInv, SecretsTypeOK, SealedUnderFile
    <2> QED BY <1>0, <1>1, <2>1, <2>2, RowsKept DEF SecretsInv
<1> QED BY <1>2, <1>3, <1>4, <1>5, <1>6, <1>7, <1>8 DEF SecretsNext

LEMMA SecretsStart ==
    ASSUME SecretsInit
    PROVE  SecretsInv
<1>1. NoReveal \in RevealRecords /\ Unresolved \in ResolvedRecords
    BY DEF NoReveal, Unresolved, RevealRecords, ResolvedRecords
<1>2. Empty \in [Names -> SUBSET (Values \cup {NoSecret})]
    BY DEF Empty
<1>3. SecretsTypeOK
    BY <1>1, <1>2 DEF SecretsInit, SecretsTypeOK
<1>4. SealedUnderFile /\ RowsFit
    BY DEF SecretsInit, SealedUnderFile, RowsFit
<1>5. ASSUME NEW j \in Jobs PROVE JobSound(j)
    <2>1. /\ reveal[j].pc = "idle" /\ reveal[j].left = {} /\ reveal[j].values = {} /\ reveal[j].missing = {}
          /\ resolved[j].map = {} /\ accessed = {} /\ unaudited = {}
        BY DEF SecretsInit, NoReveal, Unresolved
    <2>2. RevealFits(j)
        BY <2>1 DEF RevealFits, Running
    <2> QED BY <2>1, <2>2 DEF JobSound
<1> QED BY <1>3, <1>4, <1>5 DEF SecretsInv, SealedInv, JobsSound

LEMMA SecretsAlways == SecretsSpec => []SecretsInv
<1>1. SecretsInit => SecretsInv
    BY SecretsStart
<1>2. SecretsInv /\ [SecretsNext]_secretsVars => SecretsInv'
    BY SecretsKept
<1> QED BY <1>1, <1>2, PTL DEF SecretsSpec

\* The server can open every row, whichever process sealed it and wherever a
\* restart fell: the key was in its file before anything was sealed with it.
THEOREM SealedHolds == SecretsSpec => []SealedStaysReadable
<1>1. SecretsInv => SealedStaysReadable
    BY DEF SecretsInv, SealedInv, SealedUnderFile, SealedStaysReadable, CanDecrypt
<1> QED BY <1>1, SecretsAlways, PTL

\* What a job is told when it asks for its secrets was current while it asked,
\* is complete, allowed by the gate and handed to the check that named it, and
\* is recorded unless the event could not be stored, for any configuration and
\* any interleaving with writers, members and restarts.
THEOREM RevealsHold == SecretsSpec => []RevealSound
<1>1. ASSUME SecretsInv PROVE RevealSound
    <2>1. RowsFit /\ \A j \in Jobs : RevealFits(j)
        BY <1>1 DEF SecretsInv, JobsSound, JobSound
    <2>2. ASSUME NEW j \in Jobs, Answered(j)
          PROVE  /\ \A v \in reveal[j].values : v[2] \in window[j][v[1]]
                 /\ \A n \in reveal[j].missing : NoSecret \in window[j][n]
                 /\ {v[1] : v \in reveal[j].values} \cup reveal[j].missing = Requested(j)
        <3>1. Running(j) /\ reveal[j].left = {}
            BY <2>1, <2>2 DEF Answered, Running, RevealFits
        <3> QED BY <2>1, <3>1 DEF RevealFits
    <2>3. RevealWasCurrent /\ RevealAllOrNothing
        BY <2>2 DEF RevealWasCurrent, RevealAllOrNothing
    <2>4. AccessAudited
        BY <1>1 DEF SecretsInv, JobsSound, JobSound, AccessAudited
    <2>5. ChecksGetTheirSecret
        BY <1>1 DEF SecretsInv, JobsSound, JobSound, ChecksGetTheirSecret
    <2>6. ASSUME NEW j \in Jobs, Running(j), reveal[j].values # {}
          PROVE  TriggerOf[j] # "other" /\ (TriggerOf[j] = "proposal" => memberSeen[j])
        <3>1. reveal[j].pc \in {"idle", "sent", "gate", "reading", "respond", "done"}
            BY <1>1 DEF SecretsInv, SealedInv, SecretsTypeOK, RevealRecords
        <3> QED BY <2>1, <2>6, <3>1 DEF RevealFits, Running
    <2>7. ValuesNeedMembership
        BY <2>6 DEF ValuesNeedMembership
    <2> QED BY <2>1, <2>3, <2>4, <2>5, <2>7 DEF RevealSound
<1> QED BY <1>1, SecretsAlways, PTL
=============================================================================
