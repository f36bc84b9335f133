------------------------------- MODULE MergeGate -------------------------------
(***************************************************************************)
(* How a branch gets into main: the policy cache (internal/policy), the    *)
(* evaluation of the merge policies (internal/merge), the merge handler    *)
(* (internal/server), the auto-merge worker (internal/automerge), and the  *)
(* reviews, check runs and proposals they look at.  The evaluation makes   *)
(* one query after the other outside any transaction; Merge itself is one  *)
(* transaction (module BranchTx), so it is one step here.                  *)
(*                                                                         *)
(* The policy files on main are abstracted to the set of what they require *)
(* of the head of a branch; no files, or files that require nothing, is    *)
(* {}.  A head is a per-branch number that every commit and rebase makes   *)
(* fresh.  One check name stands for all of them, and of its status only   *)
(* whether the latest attempt passed matters.                              *)
(***************************************************************************)
EXTENDS Integers, Sequences

CONSTANTS Branches,
          Clients,      \* concurrent HTTP requests
          Worker,       \* the auto-merge worker
          Policies,     \* the policies main can have, sets of Requirements
          Keep,         \* "the branch does not touch the policy files"
          NotLoaded,    \* no entry in the policy cache
          Evidence,     \* what the requests produce, a subset of Requirements
          Faults,       \* what may fail: subset of FaultKinds
          MaxHead,      \* bound on the commits of a branch
          MaxEvents     \* bound on the events the worker has not read

Requirements == {"review", "check", "proposal"}
FaultKinds == {"load", "merge", "conflict", "cleanup", "emit"}

ASSUME MergeGateAssumption ==
    /\ Worker \notin Clients
    /\ Policies \subseteq SUBSET Requirements
    /\ Keep \notin Policies /\ NotLoaded \notin Policies
    /\ Evidence \subseteq Requirements /\ Faults \subseteq FaultKinds
    /\ MaxHead \in Nat /\ MaxEvents \in Nat

VARIABLES policy,      \* what the policy files on main require
          cache,       \* Cache.entries and Cache.loaded of the repository
          status, draft, auto_merge, head,  \* columns of branches
          change,      \* the policy a merge of the branch would put on main
          approvals,   \* <<branch, sequence>> pairs with an approving review
          checks,      \* <<branch, sequence>> pairs whose latest check run passed
          proposal,    \* state of the branch's latest proposal
          events,      \* branches of the events the worker has still to read
          run,         \* the request or merge attempt of each actor
          merges,      \* history: what was merged and on which evaluation
          staleBy      \* history: why the cache may be stale since the last Invalidate

branchRows == <<status, draft, auto_merge, head, change>>
evidence == <<approvals, checks, proposal>>
vars == <<policy, cache, status, draft, auto_merge, head, change,
          approvals, checks, proposal, events, run, merges, staleBy>>

Actors == Clients \cup {Worker}
Heads == 0..MaxHead

Idle == [pc |-> "idle", for |-> "none", b |-> Worker, engine |-> {}, head |-> 0, met |-> {}]

Init ==
    /\ policy \in Policies
    /\ cache = NotLoaded
    /\ status = [b \in Branches |-> "active"]
    /\ draft = [b \in Branches |-> FALSE]
    /\ auto_merge = [b \in Branches |-> FALSE]
    /\ head = [b \in Branches |-> 0]
    /\ change = [b \in Branches |-> Keep]
    /\ approvals = {}
    /\ checks = {}
    /\ proposal = [b \in Branches |-> "none"]
    /\ events = <<>>
    /\ run = [a \in Actors |-> Idle]
    /\ merges = {}
    /\ staleBy = {}

At(a, label) == run[a].pc = label
Goto(a, label) == run' = [run EXCEPT ![a].pc = label]
Done(a) == run' = [run EXCEPT ![a] = Idle]

-----------------------------------------------------------------------------
(* Writers of branches.                                                    *)

\* Commit or Rebase on a branch: a new head, possibly new policy files.
CommitBranch(b, p) ==
    /\ status[b] = "active" /\ head[b] < MaxHead
    /\ head' = [head EXCEPT ![b] = @ + 1]
    /\ change' = [change EXCEPT ![b] = p]
    /\ UNCHANGED <<policy, cache, status, draft, auto_merge, evidence, events, run, merges, staleBy>>

\* handleUpdateBranch
UpdateBranchDraft(b, d) ==
    /\ draft' = [draft EXCEPT ![b] = d]
    /\ UNCHANGED <<policy, cache, status, auto_merge, head, change, evidence, events, run, merges, staleBy>>

\* handleEnableAutoMerge, handleDisableAutoMerge: only the flag changes.
SetBranchAutoMerge(b, on) ==
    /\ auto_merge' = [auto_merge EXCEPT ![b] = on]
    /\ UNCHANGED <<policy, cache, status, draft, head, change, evidence, events, run, merges, staleBy>>

DeleteBranch(b) ==
    /\ status[b] = "active"
    /\ status' = [status EXCEPT ![b] = "abandoned"]
    /\ UNCHANGED <<policy, cache, draft, auto_merge, head, change, evidence, events, run, merges, staleBy>>

\* A request of client c that goes on at the label.
Request(c, label, for, b) ==
    /\ At(c, "idle")
    /\ run' = [run EXCEPT ![c] = [Idle EXCEPT !.pc = label, !.for = for, !.b = b]]

\* A review is recorded at the head under the row lock, and is never taken
\* back; the event follows.
CreateReview(c, b, approve) ==
    /\ Request(c, "emit", "review", b)
    /\ approvals' = IF approve THEN approvals \cup {<<b, head[b]>>} ELSE approvals
    /\ UNCHANGED <<policy, cache, branchRows, checks, proposal, events, merges, staleBy>>

\* A check is reported for any sequence and any attempt, so it may not be the
\* latest; computeBranchStatus loads the policies before the event.
CreateCheckRun(c, b, s, pass) ==
    /\ Request(c, "load", "check", b)
    /\ checks' \in {checks, IF pass THEN checks \cup {<<b, s>>} ELSE checks \ {<<b, s>>}}
    /\ UNCHANGED <<policy, cache, branchRows, approvals, proposal, events, merges, staleBy>>

\* Emit appends to the event log; a failed insert is only logged.
Emit(a) ==
    /\ At(a, "emit")
    /\ \/ Len(events) < MaxEvents /\ events' = Append(events, run[a].b)
       \/ "emit" \in Faults /\ UNCHANGED events
    /\ Done(a)
    /\ UNCHANGED <<policy, cache, branchRows, evidence, merges, staleBy>>

\* A new attempt of the checks starts as pending; its event is not one the
\* worker reads.
RetryChecks(b, s) ==
    /\ checks' = checks \ {<<b, s>>}
    /\ UNCHANGED <<policy, cache, branchRows, approvals, proposal, events, run, merges, staleBy>>

\* A branch has at most one open proposal; its status is not looked at.
CreateProposal(b) ==
    /\ proposal[b] # "open"
    /\ proposal' = [proposal EXCEPT ![b] = "open"]
    /\ UNCHANGED <<policy, cache, branchRows, approvals, checks, events, run, merges, staleBy>>

\* The update has no condition on the state of the proposal.
CloseProposal(b) ==
    /\ proposal[b] # "none"
    /\ proposal' = [proposal EXCEPT ![b] = "closed"]
    /\ UNCHANGED <<policy, cache, branchRows, approvals, checks, events, run, merges, staleBy>>

-----------------------------------------------------------------------------
(* Main and the policy cache.                                              *)

\* Service.Commit on main: the transaction, and then the cache.
CommitMain(c, p) ==
    /\ Request(c, "invalidate", "commit", Worker)
    /\ policy' = p
    /\ UNCHANGED <<cache, branchRows, evidence, events, merges, staleBy>>

\* Cache.Invalidate, by Service.Commit or handleMerge.
InvalidateForgotten(a) ==
    /\ At(a, "invalidate")
    /\ IF run[a].for = "commit" THEN Done(a) ELSE Goto(a, "proposal")
    /\ UNCHANGED <<policy, cache, branchRows, evidence, events, merges, staleBy>>
Invalidate(a) ==
    /\ At(a, "invalidate")
    /\ cache' = NotLoaded
    /\ staleBy' = {}
    /\ IF run[a].for = "commit" THEN Done(a) ELSE Goto(a, "proposal")
    /\ UNCHANGED <<policy, branchRows, evidence, events, merges>>

\* Branch status, agent context and rebase load the policies too.
StatusRequest(c) ==
    /\ Request(c, "load", "status", Worker)
    /\ UNCHANGED <<policy, cache, branchRows, evidence, events, merges, staleBy>>

\* handleMerge for branch b.
MergeRequest(c, b) ==
    /\ Request(c, "load", "merge", b)
    /\ UNCHANGED <<policy, cache, branchRows, evidence, events, merges, staleBy>>

\* tryAutoMerge for the next event.
TakeEvent ==
    LET b == Head(events) IN
    /\ At(Worker, "idle") /\ events # <<>>
    /\ events' = Tail(events)
    /\ IF auto_merge[b] /\ ~draft[b] /\ status[b] = "active"
       THEN run' = [run EXCEPT ![Worker] = [Idle EXCEPT !.pc = "load", !.for = "merge", !.b = b]]
       ELSE UNCHANGED run
    /\ UNCHANGED <<policy, cache, branchRows, evidence, merges, staleBy>>

\* What follows Load: without an engine (bootstrap mode) the merge is allowed
\* at once.
AfterLoad(a, engine) ==
    CASE run[a].for = "status" -> Done(a)
      [] run[a].for = "check"  -> Goto(a, "emit")
      [] run[a].for = "merge"  ->
           run' = [run EXCEPT ![a].engine = engine, ![a].pc = IF engine = {} THEN "merge" ELSE "branch"]

\* Cache.Load, fast path.
LoadHit(a) ==
    /\ At(a, "load") /\ cache # NotLoaded
    /\ AfterLoad(a, cache)
    /\ UNCHANGED <<policy, cache, branchRows, evidence, events, merges, staleBy>>

\* Cache.Load, slow path: loadEntry reads main without holding the mutex ...
LoadMiss(a) ==
    /\ At(a, "load") /\ cache = NotLoaded
    /\ run' = [run EXCEPT ![a].engine = policy, ![a].pc = "store"]
    /\ UNCHANGED <<policy, cache, branchRows, evidence, events, merges, staleBy>>

\* ... and the entry is stored later, whatever happened in between.
LoadStore(a) ==
    /\ At(a, "store")
    /\ cache' = run[a].engine
    /\ staleBy' = staleBy \cup (IF run[a].engine # policy THEN {"fill"} ELSE {})
    /\ AfterLoad(a, run[a].engine)
    /\ UNCHANGED <<policy, branchRows, evidence, events, merges>>

\* Cache.Load, slow path: a query fails or the policies do not compile.  A
\* merge is given up, the event of a check is emitted all the same.
LoadFails(a) ==
    /\ "load" \in Faults
    /\ At(a, "load") /\ cache = NotLoaded
    /\ IF run[a].for = "check" THEN Goto(a, "emit") ELSE Done(a)
    /\ UNCHANGED <<policy, cache, branchRows, evidence, events, merges, staleBy>>

-----------------------------------------------------------------------------
(* AssembleInput and EvaluatePolicy, one query per step.                   *)

Met(a, requirement, holds) ==
    run[a].met \cup IF holds THEN {requirement} ELSE {}

\* The head at which the evidence is looked up.
AssembleAtBase(a) ==
    /\ At(a, "branch")
    /\ Goto(a, "reviews")
    /\ UNCHANGED <<policy, cache, branchRows, evidence, events, merges, staleBy>>
AssembleBranch(a) ==
    /\ At(a, "branch")
    /\ run' = [run EXCEPT ![a].head = head[run[a].b], ![a].pc = "reviews"]
    /\ UNCHANGED <<policy, cache, branchRows, evidence, events, merges, staleBy>>

\* ListReviews at the head read before.
ReviewsOfAnyHead(a) ==
    /\ At(a, "reviews")
    /\ run' = [run EXCEPT ![a].met = Met(a, "review", \E s \in Heads : <<run[a].b, s>> \in approvals),
                          ![a].pc = "checks"]
    /\ UNCHANGED <<policy, cache, branchRows, evidence, events, merges, staleBy>>
AssembleReviews(a) ==
    /\ At(a, "reviews")
    /\ run' = [run EXCEPT ![a].met = Met(a, "review", <<run[a].b, run[a].head>> \in approvals),
                          ![a].pc = "checks"]
    /\ UNCHANGED <<policy, cache, branchRows, evidence, events, merges, staleBy>>

\* ListCheckRuns at the head read before, latest attempt.
AssembleChecks(a) ==
    /\ At(a, "checks")
    /\ run' = [run EXCEPT ![a].met = Met(a, "check", <<run[a].b, run[a].head>> \in checks),
                          ![a].pc = "proposals"]
    /\ UNCHANGED <<policy, cache, branchRows, evidence, events, merges, staleBy>>

\* ListProposals in state open, and the verdict of the engine.
Evaluate(a) ==
    LET met == Met(a, "proposal", proposal[run[a].b] = "open") IN
    /\ At(a, "proposals")
    /\ IF run[a].engine \subseteq met
       THEN run' = [run EXCEPT ![a].met = {}, ![a].pc = "merge"]
       ELSE Done(a)
    /\ UNCHANGED <<policy, cache, branchRows, evidence, events, merges, staleBy>>

-----------------------------------------------------------------------------
(* Merge and what follows it.                                              *)

MergeRecord(a) ==
    [b |-> run[a].b, by |-> a, head |-> head[run[a].b], engine |-> run[a].engine, evaluated |-> run[a].head]

\* Store.Merge succeeds: the branch's policy files become main's.  Only the
\* handler goes on to invalidate the cache.
Merge(a) ==
    LET b == run[a].b IN
    /\ At(a, "merge")
    /\ status[b] = "active" /\ ~draft[b]
    /\ status' = [status EXCEPT ![b] = "merged"]
    /\ policy' = IF change[b] = Keep THEN policy ELSE change[b]
    /\ merges' = merges \cup {MergeRecord(a)}
    /\ staleBy' = staleBy \cup (IF a = Worker /\ policy' # policy THEN {"worker"} ELSE {})
    /\ Goto(a, IF a = Worker THEN "proposal" ELSE "invalidate")
    /\ UNCHANGED <<cache, draft, auto_merge, head, change, evidence, events>>

\* ErrBranchNotActive or ErrBranchDraft: the branch changed since the check.
MergeRefused(a) ==
    /\ At(a, "merge")
    /\ status[run[a].b] # "active" \/ draft[run[a].b]
    /\ Done(a)
    /\ UNCHANGED <<policy, cache, branchRows, evidence, events, merges, staleBy>>

\* Any other error of the transaction, or a dry run.
MergeFails(a) ==
    /\ "merge" \in Faults
    /\ At(a, "merge")
    /\ Done(a)
    /\ UNCHANGED <<policy, cache, branchRows, evidence, events, merges, staleBy>>

\* ErrMergeConflict: the worker turns auto-merge off, the handler answers 409.
MergeConflict(a) ==
    /\ "conflict" \in Faults
    /\ At(a, "merge")
    /\ status[run[a].b] = "active" /\ ~draft[run[a].b]
    /\ IF a = Worker THEN Goto(a, "disable") ELSE Done(a)
    /\ UNCHANGED <<policy, cache, branchRows, evidence, events, merges, staleBy>>

DisableAutoMerge(a) ==
    /\ At(a, "disable")
    /\ \/ auto_merge' = [auto_merge EXCEPT ![run[a].b] = FALSE]
       \/ "cleanup" \in Faults /\ UNCHANGED auto_merge
    /\ Done(a)
    /\ UNCHANGED <<policy, cache, status, draft, head, change, evidence, events, merges, staleBy>>

\* MergeProposal, best effort: the open proposal of the branch, if there is
\* one.  The handler then computes the branch status for its event.
MergeProposal(a) ==
    LET b == run[a].b IN
    /\ At(a, "proposal")
    /\ \/ proposal' = [proposal EXCEPT ![b] = IF @ = "open" THEN "merged" ELSE @]
       \/ "cleanup" \in Faults /\ UNCHANGED proposal
    /\ IF a = Worker THEN Done(a)
       ELSE run' = [run EXCEPT ![a] = [Idle EXCEPT !.pc = "load", !.for = "status"]]
    /\ UNCHANGED <<policy, cache, branchRows, approvals, checks, events, merges, staleBy>>

Advance(a) ==
    \/ Invalidate(a) \/ LoadHit(a) \/ LoadMiss(a) \/ LoadStore(a) \/ LoadFails(a)
    \/ AssembleBranch(a) \/ AssembleReviews(a) \/ AssembleChecks(a) \/ Evaluate(a)
    \/ Merge(a) \/ MergeRefused(a) \/ MergeFails(a) \/ MergeConflict(a) \/ DisableAutoMerge(a)
    \/ MergeProposal(a) \/ Emit(a)

Environment ==
    \/ \E b \in Branches :
          \/ \E p \in Policies \cup {Keep} : CommitBranch(b, p)
          \/ \E d \in BOOLEAN : UpdateBranchDraft(b, d) \/ SetBranchAutoMerge(b, d)
          \/ "check" \in Evidence /\ \E s \in Heads : RetryChecks(b, s)
          \/ "proposal" \in Evidence /\ (CreateProposal(b) \/ CloseProposal(b))
          \/ DeleteBranch(b)
    \/ \E c \in Clients :
          \/ \E p \in Policies : CommitMain(c, p)
          \/ \E b \in Branches :
                \/ MergeRequest(c, b)
                \/ "review" \in Evidence /\ \E approve \in BOOLEAN : CreateReview(c, b, approve)
                \/ "check" \in Evidence /\ \E s \in Heads, pass \in BOOLEAN : CreateCheckRun(c, b, s, pass)
          \/ StatusRequest(c)

Next == Environment \/ TakeEvent \/ \E a \in Actors : Advance(a)

Spec == Init /\ [][Next]_vars

\* Goroutines keep running: a request and the worker's loop do not stop
\* half-way.
FairSpec == Spec /\ WF_vars(TakeEvent) /\ \A a \in Actors : WF_vars(Advance(a))

-----------------------------------------------------------------------------
(* Properties.                                                             *)

Steps == {"idle", "load", "store", "branch", "reviews", "checks", "proposals", "merge",
          "invalidate", "proposal", "disable", "emit"}
MergeRecords == [b : Branches, by : Actors, head : Heads, engine : Policies, evaluated : Heads]
RequestRecords == [pc : Steps, for : {"none", "status", "merge", "commit", "review", "check"},
                   b : Branches \cup {Worker}, engine : Policies \cup {{}}, head : Heads,
                   met : SUBSET Requirements]

\* Types of the columns, of the cache and of the requests under way.
TypeOK ==
    /\ policy \in Policies
    /\ cache \in Policies \cup {NotLoaded}
    /\ status \in [Branches -> {"active", "merged", "abandoned"}]
    /\ draft \in [Branches -> BOOLEAN] /\ auto_merge \in [Branches -> BOOLEAN]
    /\ head \in [Branches -> Heads]
    /\ change \in [Branches -> Policies \cup {Keep}]
    /\ approvals \subseteq Branches \X Heads /\ checks \subseteq Branches \X Heads
    /\ proposal \in [Branches -> {"none", "open", "merged", "closed"}]
    /\ events \in Seq(Branches) /\ Len(events) <= MaxEvents
    /\ run \in [Actors -> RequestRecords]
    /\ merges \subseteq MergeRecords
    /\ staleBy \subseteq {"fill", "worker"}

\* However many requests and the worker race for a branch, Store.Merge lets
\* one of them through: a branch is merged once, and only a branch that is
\* "merged" has been.
MergedOnce ==
    /\ \A m, n \in merges : m.b = n.b => m = n
    /\ \A m \in merges : status[m.b] = "merged"

\* AssembleInput asks for the reviews of one sequence: a merge under a policy
\* that requires a review went ahead on an approval of the head it evaluated,
\* never of an older one, and a head that was evaluated is not a later one.
GateAtEvaluatedHead ==
    \A m \in merges : "review" \in m.engine =>
        <<m.b, m.evaluated>> \in approvals /\ m.evaluated <= m.head

\* The cached policies differ from main's only until a pending Invalidate, or
\* after one of the two known races: a fill that read main before a commit,
\* and a merge by the worker.
StaleOnlyByRace ==
    cache \in {NotLoaded, policy} \/ staleBy # {} \/ \E c \in Clients : At(c, "invalidate")

\* docs/concepts.md: policies can require that the current head has approving
\* reviews, "not stale ones".  Here: the head that was merged has one.
GateAtMergedHead ==
    \A m \in merges : "review" \in m.engine => <<m.b, m.head>> \in approvals

\* A branch the worker would merge under every one of the policies.
Qualifies(b) ==
    /\ status[b] = "active" /\ auto_merge[b] /\ ~draft[b]
    /\ \A p \in Policies :
          /\ "review" \in p => <<b, head[b]>> \in approvals
          /\ "check" \in p => <<b, head[b]>> \in checks
          /\ "proposal" \in p => proposal[b] = "open"

\* tryAutoMerge: a branch that qualifies when the worker has an event of it to
\* read is merged, unless it stops qualifying (a conflict turns auto-merge
\* off), although the worker reads the branch, the reviews, the checks and the
\* proposal one after the other.
AutoMergeAfterEvent ==
    \A b \in Branches :
        (Qualifies(b) /\ \E i \in DOMAIN events : events[i] = b) ~> (status[b] = "merged" \/ ~Qualifies(b))

\* What a request has established at each of its steps, whatever others do
\* meanwhile: it knows its branch, the engine it evaluates is a policy main had,
\* the head it looked up is not beyond the branch's, and an approval it counted
\* is one of that head.
RequestSound(r, heads, approved) ==
    /\ r.for \in {"merge", "review", "check"} => r.b \in Branches
    /\ r.pc \in {"branch", "reviews", "checks", "proposals", "merge", "proposal", "disable"}
          => r.for = "merge"
    /\ r.pc \in {"load", "store"} => r.for \in {"status", "check", "merge"}
    /\ r.pc = "invalidate" => r.for \in {"commit", "merge"}
    /\ r.pc = "emit" => r.for \in {"review", "check"}
    /\ r.pc \in {"store", "branch", "reviews", "checks", "proposals", "merge"} => r.engine \in Policies
    /\ r.for = "merge" => r.head <= heads[r.b]
    /\ r.pc \in {"load", "store", "branch", "reviews"} => r.met = {}
    /\ "review" \in r.met => <<r.b, r.head>> \in approved
    /\ r.pc = "merge" /\ "review" \in r.engine => <<r.b, r.head>> \in approved
RequestsSound == \A a \in Actors : RequestSound(run[a], head, approvals)

\* Every merge that was made, by a request or by the worker, was made once
\* and on the approval of the head it looked at.  With what the requests have
\* established this is inductive.
MergesGated == TypeOK /\ RequestsSound /\ MergedOnce /\ GateAtEvaluatedHead
=============================================================================
