# A TLA+ development of docstore

docstore is a version-control server for documents: a Go server over PostgreSQL
and an object store, a policy-gated merge, an event log with webhooks, and a CI
system (scheduler, worker pods, OIDC tokens, registry cache). This directory
holds TLA+ models of its parts, the TLC instances that check them, and proofs
that TLAPS checks for every value of the constants.

`PROJECT.json` lists the runs, the source lines of every definition, the
mutations that show each property can fail, the known hazards and the theorems.

## 1. Inventory

| Component | State | Operations | Hard behaviour | What makes it correct |
|---|---|---|---|---|
| Branch store (`internal/db/store.go`, `tx.go`) | `branches`, `commits`, `file_commits`, the counter of `commits.sequence` | Commit, CreateBranch, UpdateBranchDraft, Merge, Rebase, DeleteBranch, Purge | concurrent transactions at READ COMMITTED, numbers handed out before the commit, rollbacks, replays of replays | no update is lost, the past does not change, hashes form a chain, each transaction is atomic, none waits forever |
| Read store (`internal/store/store.go`) | none | MaterializeTree, GetFile, GetDiff, chain and history listings | one scan has to combine a branch with its base | what is read is the branch's changes over main as of its base |
| Documents and blobs (`internal/db`, `internal/blob`) | `documents`, object store | deduplicated insert, purge | select-then-insert without a unique key, blobs deleted inside a transaction that may roll back | a document row has its bytes |
| Reviews, checks, proposals (`internal/db`, `internal/service`, `internal/server`) | `reviews`, `check_runs`, `proposals` | submit, report, retry, open, close, merge | staleness with respect to the head, several attempts of a check | only evidence about the evaluated head counts |
| Policy engine and cache (`internal/policy`) | in-memory cache per repository | Load, Invalidate, Evaluate | fills race with invalidations | the cache has main's policies or none |
| Merge handler (`internal/server/handlers_proposals.go`, `internal/merge`) | none | handleMerge, EvaluatePolicy | many queries outside a transaction, then the merge | the merged branch satisfied the policy |
| Auto-merge worker (`internal/automerge`) | none | Run, tryAutoMerge | races with requests, driven by events only | a branch is merged once; one that qualifies is merged |
| Event log and SSE (`internal/events/broker.go`, `server/handlers_events.go`) | `event_log`, cursors, waiters | Emit, Notify, Poll, stream, resume | sequence order is not commit order, notifications get lost | readers get events in order and skip only what was overtaken |
| Webhook outbox (`internal/events/outbox.go`) | `event_outbox`, subscriptions | subscribe, insert, claim, post, mark, suspend, resume | leases, retries, several pollers | at-least-once, every row is settled, giving up shows |
| CI queue (`internal/db/ci_jobs.go`, `cmd/ci-scheduler`) | `ci_jobs` | enqueue, claim, heartbeat, complete, reap | lost answers, killed pods, late writes | every job is finished, by one pod at a time |
| CI worker and executor (`cmd/ci-worker`, `internal/executor`) | the pod's progress | poll, prepare, post, run, complete | dies anywhere, has its job taken away | no check stays pending |
| CI configuration (`internal/ciconfig`) | none | trigger matching, `if:` expressions | parser and evaluator | evaluates as documented |
| Tokens, OIDC (`internal/citoken`, `cmd/ci-oidc`, `server/middleware.go`) | request tokens, signing key, key caches | issue, exchange, verify, rotate | cached keys, failing fetches, expiry | a token acts for its job, within its configuration, not long after it |
| Organisations, members, invites, roles (`internal/db`, `server/handlers_orgs.go`, `middleware.go`) | `orgs`, `org_members`, `roles`, `org_invites`, `repos` | create, invite, accept, revoke, grant, delete | checks and writes are separate statements | an invite is used once, rows keep their parents, repositories stay administrable |
| Secrets (`internal/secrets`, `server/handlers_secrets.go`, `cmd/ci-worker/secrets.go`) | `repo_secrets`, the key file | set, delete, reveal, resolve | restarts, writes during a reveal | sealed values stay readable, a reveal is whole, current and recorded |
| Registry cache (`internal/registry`) | the bucket, size caches | push, pull, delete | replicas with their own caches, two writes per tag | an acknowledged push can be pulled |
| Issues (`internal/db/issues.go`, `internal/service`) | issues, comments, references | create, edit, close, reopen, comment | web form against API, best-effort references | numbers are dense, no edit is lost silently, mentions are linked |
| Releases | `releases` | create, delete | sequences looked up before the insert | a release of main names a commit |
| Command line client (`internal/cli`) | the directory, `.ds/` | init, checkout, pull, commit, merge, rebase, resolve, verify | interrupts, lost answers, others' commits | no local work is lost, nothing foreign is committed |
| Terminal interface (`internal/tui`) | the screens | keys and answers | answers in any order | nothing waits forever, actions go to what is shown |
| Web interface (`internal/ui`) | none | pages and forms | pages of several queries | a page agrees with one state of the store |
| Pure functions (`ui/diff.go`, `tui`, `ciconfig/expr.go`, `policy/owners.go`) | none | diff, hunks, `if:`, OWNERS | boundaries | they compute what they are defined to |

Interactions. The server and the services write to PostgreSQL; row locks of
`branches` are the only thing that orders concurrent writers of a branch. The
merge handler and the auto-merge worker read reviews, checks, proposals and the
policy cache without a lock and then call `Store.Merge`. Changes emit events;
the worker subscribes to them in the process, and the outbox delivers them as
webhooks, among others to the CI scheduler, which enqueues jobs. Worker pods
poll the scheduler over HTTP and post check runs to the server, which are
evidence for the next merge.

Hazards, each at its source line and with the properties aimed at it, are in
`PROJECT.json` under "hazards".

## 2. Modules

### BranchStore: committed transactions

State: one variable per column of `branches` (`status`, `head`, `base`,
`draft`; a branch without a row has status "absent"), the rows of `commits` and
`file_commits`, and `used`, the sequence numbers handed out. The hash of a
commit is represented by the commit it chains to (`prev`), which is all a chain
of hashes depends on. One action per function of `internal/db/store.go`; Merge
and Rebase have one more action each for a branch without changes. A
transaction that returns an error is rolled back and is no step.

The counter is global and not transactional. `NewSeq(s, B)` says what a
transaction that holds the locks of the rows `B` can rely on: a number never
handed out before and above the heads of `B`. Gaps (rollbacks, other
repositories) are covered because any such number may come. BranchTx, where the
counter is a counter, is checked and proved to implement this.

The queries are the operators `DistinctOn`, `latestChanges`, `VisibleRows`,
`MaterializeTree` and `MaterializeTreeAt`, written as the SQL is: one scan, the
newest row of a path wins, a deletion hides it.

Purge removes any non-empty set of merged or abandoned branches: which ones are
old enough is decided by BranchTx's `Expired` when the transaction looks for them
(age is that of the head commit, so branches with one head are found together),
and a branch that ends between that query and the commit is left out even if its
head is one that goes. A purge that fails on a foreign key is rolled back and is
no step.

### BranchTx: statements and locks

EXTENDS BranchStore with sessions. Every SELECT ... FOR UPDATE, query, INSERT
that takes a number, DELETE and COMMIT is a step; a transaction collects its
writes and applies them when it commits. A session waits for a row lock, can
fail where the code returns early, and can be rolled back anywhere (cancelled
request, lost connection, dry run). `ImplementsBranchStore` is BranchStore's
specification as a property (the refinement mapping is the identity on its
variables): BranchStore is the abstract specification, BranchTx the detailed
one. `TxsFit` says why: what a session has found in the rows it has locked is
still so (LocksFit), what Merge and Rebase have read is what the branch and main
still have (ReadsFit), the numbers a session was given rise with the commits they
replay, exceed the heads it has locked and are nobody else's (SeqsFit, SeqsApart),
and the branches of a running purge stay closed and get no rows (PurgeFits).
`SomeTxAdvances` says that open transactions never all wait for each other.
`CanAdvance` spells out what the next statement of a session, or its early return,
asks of the state; every action of `Advance` is such a guard and assignments, so it
is what ENABLED Advance says (TLC agrees on every state of the run), in a form the
proof system can reason about. `WorksFit` says what it takes: whoever locks main has
locked it first, a purge holds no row before its last statement, and an INSERT has a
commit to make.

### MergeGate: policy, cache, merge, worker

The policy files of main are abstracted to the set of what they require of a
head (an approval, a passing check, an open proposal), which is what the merge
decision depends on. A branch can carry a change of the policy files. Reviews
and checks are pairs of branch and head. Requests of clients and the worker
step through `Cache.Load` (hit; miss, read, store), `AssembleInput` (one query
per step), the verdict, `Store.Merge` (one step, by BranchTx), `Invalidate`,
`MergeProposal` and the event. `Faults` names the errors the code tolerates:
"load", "merge", "conflict", "cleanup" (best-effort statements after the
merge), "emit" (a lost event). `merges` and `staleBy` are history variables.

Abstractions: one server process, hence one cache; the queries of `loadEntry`
read as one; the head of a branch is a small number; a branch has at most one
open proposal, as the unique index demands.

### CIJobs: queue, scheduler, workers, check runs

State: `ci_jobs` in the order of creation, the check runs of one commit, the
progress of every pod, the requests whose token was found valid and whose write
is still to come, and the deliveries of webhook events. All jobs test one
commit: jobs of different commits meet only in the queue. Of the timestamps the
model keeps the age of the one the reaper compares with its two minutes; a
token is named after the pod it was given to, `Orphan` is one whose plaintext
was lost. `mishap` is a history variable: a post of a living worker was lost, a
job failed before it ran, or a write came after its job had been taken away.

A request looks its token up with one statement and writes with another
(`handleHeartbeat`, `handleComplete`, `handleCICheck`), so it is two steps and
the reaper, other pods and a kill get in between. Pending marks are posted in
parallel, results one after the other.

Not modelled here: the check "ci/config" that reports an unusable
configuration, the 24 h expiry of a token, a client that gives up on a request
which the server serves later, two claims of one pod at the same time, and the
empty pod name of a local set-up. Jobs have no time limit in the code, and none
here.

### EventLog: Emit, notifications, readers

State: the counter and the committed rows of `event_log`, the progress of each
Emit, the notifications on their way to each instance's listener, and per reader
the loop of `handleSSE` (cursor, polled batch, wait) with the connection and
what its client has received. `EmitInsert` takes a number, `EmitCommit` makes
the row visible; they are separate steps, because PostgreSQL orders the two
independently. A notification wakes the waiters of its own process at once and
those of another through `pg_notify`, which may be lost; a wait also ends by its
timer. A client disconnects and comes back with Last-Event-ID, or without.
`overtaken` records the events that were committed after a reader had polled
past their number: the one way a connected client misses an event.

### Outbox, and Delivery, which it implements

State: `event_subscriptions`, `event_outbox` (a row per event and
subscription), what Emit has selected and not yet inserted, and the batch and
position of every poller. `claimOutboxBatch` moves `next_attempt` ahead under
SKIP LOCKED; posting, `markDelivered`, the update of `markFailed` and the
suspension are separate steps that can fail. `Elapse` makes a row due, also
while a poller still holds it: the lease of five minutes is shorter than 50
posts of 10 s. `expired`, `resumed` and `unreported` say by which of the known
ways a claim was doubled or a suspension is missing.

Delivery is the promise without tables and pollers: owed, done, given up,
accepted perhaps more than once. Only what is done is forgotten (`Forget`), and
what is owed goes only with its channel, which stays closed (`Close`).
`ImplementsDelivery` maps a row to its state by its two columns `attempts` and
`delivered_at`.

### Access: organisations, members, invites, roles, the middleware

State: the five tables and one request per slot. A request is authorised in one
step by the operators that translate `RBACMiddleware`, `roleAllows` (the table
of endpoints) and the owner checks of the handlers, and written in another;
`DeleteOrg` and `AcceptInvite` take several. `grants` is a history variable. Who
invited a member is stored and never read by the code, and left out. Web forms that create, accept and delete are inputs of the same
actions where they run the same calls, actions of their own where not.

### Secrets and JobTokens

Secrets: the rows, the key file and the key of the running server, which may
stop anywhere; `Reveal` reads name after name; the gate, the events and the
answer are steps; `resolved` is what `fetchSecrets` gives the checks. The event of
a value that is returned may fail to be stored, which the handler does not learn;
`unaudited` records it. Sealing is abstracted to the pair of value and key.

JobTokens: a job's life, the tokens issued for it, the signer with its key (read
once, the failure kept until a restart, which nothing brings about), and two
verifiers that cache keys for an hour. Time is a
tick; ages saturate at the longest lifetime. The signature is the key's name.

### Registry, DocBlobs

Registry: one bucket, replicas with a cache of blob sizes, clients that HEAD,
upload and PUT a manifest. A tag's manifest is two writes. `ackedPut` records
what was promised, `cleared` what was deleted or overwritten since it was last
written.

DocBlobs: `documents`, `file_commits`, the blob store and `releases` of two
repositories that share contents. A commit looks a content up, uploads it and
inserts it in separate steps inside its transaction; a purge deletes blobs
inside a transaction that may fail afterwards. `excused` names the contents whose
blob a purge removed while something else used them: the one way bytes are lost.

### Workspace: the command line client

State: the server as one client sees it (heads, trees and the chain of hashes),
`.ds/config.json`, `.ds/state.json`, the files of the directory and the running
command. A step is a request with the local writes that follow it. A command can
be interrupted between two steps, its answer can be lost, a read can fail at the
server (a file is left out of an archive; the error answer to a download is written
as an empty file), and other people commit, merge and rebase at any moment.
`unsaved` records the paths that a command wrote, removed or posted without
state.json agreeing in the end, `missed` the files whose read failed in the last
sync. The hash of a commit is its sequence, since a
hash computed over another predecessor is another hash.

### Algorithms: pure functions

The longest-common-subsequence diffs of the web and terminal interfaces with
their hunks, the recursive-descent parser of `if:` conditions, and
the lookup of owners. A condition is given as its tokens, where a quote is a token
of its own, so that string literals end at the next quote of their kind as in the
code; white space and the characters of identifiers are left out. Each function is checked against a definition written
independently: shortest edit scripts, patches that turn the old text into the
new by the line numbers of their headers, a grammar given by its derivations, the nearest directory that lists an
owner. The inputs are initial states.

### Issues, Proposals

Issues: issues, comments, references and the pages users have open. Creation
holds the lock of the repository row, everything else is a sequence of
statements. `want`, `net`, `linked` record what was acknowledged.

Proposals: proposals, reviews, comments and the branch columns they depend on,
through the API, the web forms and requests with If-Match. A rebase replays the
branch's commits under the name of whoever rebases, and the self-approval check
looks at the names since the base; `renamed` records the people whose commits a
rebase of somebody else has taken over.

### Reads, Tui

Reads: a reader that answers by several queries while commits to main (a merge is
one write more there) and to the topic branch and rebases go on: paged trees, presigned archives, histories, the web log with its
cursor, `ds log`, the file page, the diff of a commit, the context of an agent. The
reader's record carries, as history, what it owes (`due`, the commits a log has to
show) and what moved under it (`touched`, the paths somebody changed, for which a
listing of several pages promises nothing), and what failed reads left out of an
archive (`skipped`: a file, or with a failed page all paths after it). A job's
archive is presigned at the job's sequence, the head or any earlier one.

Tui: the models of the screens and the results in the air. One Update runs at a
time; results come in any order and go to whatever is shown.

### How they are put together

BranchTx EXTENDS BranchStore. The proof modules EXTEND what they are about:
BranchStoreProofs, BranchTxProofs (BranchTx and BranchStoreProofs),
MergeGateProofs, CIJobsProofs (CIJobs, JobTokens, Secrets), ServiceProofs (Access,
Proposals, Issues), EventProofs (EventLog, Outbox), ContentProofs (Registry,
DocBlobs, Reads) and ClientProofs (Workspace, Tui). The modules
above that share no state are instantiated in groups: MCEvents (EventLog, Outbox), MCService (Access, Issues,
Proposals), MCCredentials (Secrets, JobTokens), MCContent (Registry, DocBlobs,
Reads, Algorithms) and MCClients (Workspace, Tui). A variable `part`, chosen at
the start, names the one that takes the steps, so that a run explores the sum,
never the product, of its parts. Releases name the commits of DocBlobs and
influence nothing there; MCContent takes them in a part of their own, without
faults of the blob store.

## 3. Runs

| Run | Result | What it shows | Bounds |
|---|---|---|---|
| branch_store | pass | Every order of commits, merges, rebases, deletions and purges keeps the store consistent (IInv), loses no change and rewrites no past | 2 branches, 2 paths, 1 content and deletion, 3 sequence numbers |
| branch_tx | pass | Statement interleavings of two sessions refine BranchStore; open transactions never all wait for each other | 2 sessions, 1 branch, 2 paths, 3 numbers |
| merge_gate | pass | Merged once, on approvals of the evaluated head; the cache is stale only through two known races | 1 branch, 1 client and the worker, 2 heads, all faults |
| auto_merge_live | pass | A branch that qualifies with an event to read is merged or stops qualifying | strictest policy, conflicts |
| gate_head | violation | A commit between evaluation and merge is merged without an approval of its own | no faults |
| ci_jobs | pass | One job per pod, finished is final, acknowledged is queued, nothing stays pending | 2 pods, 2 jobs of one commit, 1 check, all faults |
| ci_jobs_live | pass | Every job is finished while there are pods | 2 pods, 2 jobs, no checks |
| events | pass | Clients receive in order and miss only overtaken events; logged events arrive; rows are held once within a lease; deliveries refine Delivery; rows are settled; giving up shows on the subscription | 2 events, 2 instances, 1 reader, pages of 1, 2 faults; 1 subscription, 2 pollers, 2 attempts, 1 fault |
| service | pass | Invites grant once; rows keep their parents; a repository can be administered. Numbers of issues are dense, mentions linked, edits lost only to an old form, transitions alternate. Proposals agree with branches; approvals that count are by others, unless somebody's rebase took their commits over | 2 people, 1 organisation, 1 repository, 1 invite, 2 overlapping requests; 2 issues, 3 requests, 1 fault; 2 proposals, 4 handlers, 4 numbers, 1 fault |
| credentials | pass | Sealed values stay readable; a reveal is current, whole, gated and, unless the event could not be stored, recorded; every check gets its secret; a token acts within its job and configuration; a new key is learnt unless the signer is left with a failed read | 2 secrets, 2 values, 2 jobs, 1 fault; 2 keys, cache lifetime 2, token lifetime 1, 1 failing fetch |
| content | pass | Pushed images can be pulled; bytes are lost only to a purge; releases of main stay; listings, archives, histories and diffs agree with the store but for what failed reads leave out of an archive; the pure functions are right | 2 replicas, 2 clients, 1 fault, 1 deletion; 2 repositories, 2 documents, 2 commits, 1 fault; 2 paths, 3 commits, pages of 1, 1 failing read; texts of up to 4 lines, conditions of up to 5 tokens, with literals 7 |
| clients | pass | Only init and merge destroy edits; only edits and leftovers of broken commands are committed; pulls catch up but for failed reads and accept an honest chain; no screen waits for an answer that will not come unless a form took it, and keys act on what is shown, once | 2 paths, 1 topic branch, 3 commands, 1 edit, 2 writes of others, 1 interrupt or failing read; 5 keys, 2 branches, 2 issues |

Several invariants of a run are conjunctions, one per subject, of parts that are
defined and explained one by one in the module. The parts named ...Fit or ...Fits,
RequestsSound, NumbersOnce, DeletedBelow, QueuedOnce, SentIsQueued,
CachedWasStored, SealedUnderFile, OlderReplayed, EditsShow, DifferencesKnown,
SyncGoesOn, ChainLinked and SequencesKnown say what a request, pod, poller, command or
transaction that is under way rests on; they are what makes the conjunction
inductive:

| Property | Module | Parts |
|---|---|---|
| IInv | BranchStore | TypeOK, SeqNamesCommit, HeadCoversBranch, BranchRowsReplayed |
| TxSound | BranchTx | TxTypeOK, TxsFit (SeqsApart; LocksFit, ReadsFit, SeqsFit, PurgeFits of each session), WorksFit, SomeTxAdvances |
| MergesGated | MergeGate | TypeOK, RequestsSound, MergedOnce, GateAtEvaluatedHead |
| QueueConsistent | CIJobs | TypeOK, PodsFit, SentIsQueued, PodHoldsOneJob |
| StreamIsLog | EventLog | LogTypeOK, NumbersOnce, DeletedBelow, ReceivedInOrder, NoGapButOvertaken |
| RowsAccountedFor | Outbox | TypeOK, PollersFit, QueuedOnce, OneHolderWithinLease, GiveUpIsVisible |
| InvitesSound | Access | AccessTypeOK, RequestsFit, InviteGrantsOnce |
| SealedStaysReadable | Secrets | SecretsTypeOK, SealedUnderFile; the key of a running server opens every row |
| RevealSound | Secrets | RowsFit, RevealFits of each job, RevealWasCurrent, RevealAllOrNothing, AccessAudited, ValuesNeedMembership, ChecksGetTheirSecret |
| TokenBounded | JobTokens | TokenTypeOK, TokensFit, CachesFit, AcceptedSoonAfterJob, KeyChangeTakesEffect, ActsWithinConfig |
| PushedCanBePulled | Registry | RegTypeOK, CachedWasStored, PushesFit, PushedImageComplete, AckedManifestServed |
| ContentKept | DocBlobs | DocTypeOK, DocIdsOnce, CommitsFit, PurgeFits, BytesLostOnlyByPurge, VersionsExist, ReleaseOfMainStays |
| ListingsSound | Reads | ListingFits, SkippedFits, UrlFits, LogFits, ListedAsStored, ListingComplete, ArchiveMatchesChecksum |
| DiffsSound | Reads | ReadsTypeOK, StoreFits, PageFits, HistoryShowsFile, CommitDiffIsCommit, ContextDiffCoversCommits |
| FunctionsRight | Algorithms | EditScriptShortest, HunksPatchOldToNew, ConditionFollowsGrammar, OwnersAreNearest |
| IssueWritesKept | Issues | IssueTypeOK, IssueRequestsFit, NumbersDense, MentionsLinked, EditLostOnlyToForm, TransitionsAlternate |
| ProposalsMatchBranches | Proposals | PropTypeOK, HandlersFit, MergedProposalHasMergedBranch, OpenOnMergedExplained, IfMatchLostOnlyByRace |
| EditsKept | Workspace | WsTypeOK, EditsShow, DifferencesKnown, EditsSurvive, CommitsOwnChanges |
| PullsSound | Workspace | SyncGoesOn, SyncCatchesUp, ChainLinked, SequencesKnown, HonestChainPasses |
| ScreensSound | Tui | TuiTypeOK, FormsFit, NothingLeftWaiting, IssueActionOnShown, NoDoubleSubmit |

Why the bounds are enough. Conflicts and inheritance relate one branch, main and
two paths; the second branch is there for purges that share a head, for merges
that overtake each other, and for chains that must not mix. Three numbers allow
a commit on each side and a merge, or a commit, a commit of main and a replay.
Replays of replays need five; for them the properties rest on the theorems, which
have no bounds. Locks are held on at
most two rows, so two sessions produce every waiting situation of the lock
order. One session may purge at a time, because two purges interfere (see
below). In the merge gate one client and the worker are the two actors that
race; two heads make one stale. In CI, two pods and two jobs give a slow owner
with its successor, and a push job beside a proposal job. In the log, two events
are what it takes for one to overtake the other, and pages of one event make
every poll a partial one; in the outbox two attempts stand for ten, and two
pollers make a lease matter. Access needs two requests in flight to split a
check from its write. Ages compare with two lifetimes, so lifetimes of 2 and 1
ticks with saturation give all orders. In the workspace three commands and an
interrupt allow a broken command, its repetition and a commit of what it left
behind. Texts of four lines over two different ones reach hunks that merge,
that touch the start and the end, and that are alone.
Conditions of five tokens reach every operator with its neighbour; those of seven
tokens over quotes, a word and a comparison compare two literals; a list of
longer ones covers nested parentheses and mixed precedence. One failing read is
enough to cut an archive short or to empty a file that a pull downloads.

CHECK_DEADLOCK is off in events, service, content and clients: these systems may stop when
nobody asks for anything and their bounded requests are used up.

The violating run states what a comment says and `PROJECT.json` quotes it:
`handleMerge` evaluates the policy at one head, `Store.Merge` merges the head it
locks.

### Observations

Behaviours met while modelling, which the models exhibit, or whose absence the
properties are careful not to claim.

- Branches. A read at a past sequence shows more of main after the branch is
  rebased, since reads go by the current base; an archive pinned to such a
  sequence changes, and the web diff of a replayed commit is empty. `Purge` reads
  names without a lock and deletes by name, so a second purge and a re-created
  branch meet; a branch that is merged after this query stays although its head
  commit goes; it fails for branches that had a proposal or a review comment.
  Releases of branch sequences dangle after a purge. `DeleteRepo` leaves
  proposals, comments, issues and subscriptions, whose foreign keys make it fail,
  and secrets and blobs, which stay.
- Merging. `tryAutoMerge` does not call `Invalidate`, unlike `handleMerge`
  (`policy/cache.go:26` says any merge); a cache fill that started before a
  commit can store the old policies after `Invalidate`. `CloseProposal` closes a
  merged proposal. Enabling auto-merge after the last review and check triggers
  nothing, as the worker wakes on `check.reported` and `review.submitted` only.
  A rebase replays the commits of a branch under the name of whoever asks for it
  and moves the base past the originals, so that afterwards their author may
  approve them: `CreateReview` counts the reviewer's commits since the base
  (`db/store.go:1099`), where its comment (`db/store.go:1078`) refuses whoever
  "authored any commits on the branch".
  The branch's ETag is its head sequence, which a change of draft or auto-merge
  does not move.
- CI. `runJob` marks all checks pending and `Executor.Run` omits the skipped ones,
  so that a skipped check stays pending over another job's result. A claim answer
  that is slow to store its token can validate a pod whose job was reaped; a
  heartbeat written after the reaper makes the next claim stale at once.
  `RetryChecks` without names retries all checks, where its comment says the failed
  ones. `docs/ci.md:326` says 90 seconds where the reaper waits two minutes.
- Events. An empty `event_types` array matches nothing. Rows at ten attempts are
  not retried after the subscription is resumed. A backlog of more than a page
  waits for the next wake-up.
- Credentials. `KMSSigner` keeps the failure of its first fetch (`sync.Once`,
  `citoken.go:216`), and no probe sees it: `/healthz` always answers ok
  (`ci-oidc/main.go:219`, `ci-oidc-public/main.go:82`), so that a signer stays
  without a key until somebody restarts it. `handleRevealSecrets` emits
  secret.accessed before it answers "so the audit trail is consistent with the
  values the worker is about to receive" (`handlers_secrets.go:334`), and `Emit`
  only logs a failed insert (`broker.go:154`): values can be returned without an
  event.
- Archives. When the query of a page fails, `writeArchive` returns through the
  deferred Close of the tar writer and `handleArchive` only logs
  (`handlers_files.go:259`, `:334`): the client gets a well-formed archive that
  lacks the rest of the tree, after a 200. A presigned one then fails its checksum.
  A file that cannot be read is left out without an error, also of the archive the
  checksum is computed for.
- Diffs. The header of a range without lines gives the line after it
  (`@@ -1,0 +1,2 @@` for an empty old file), where a unified diff, which the comment
  of `opsToHunks` names (`ui/diff.go:101`), gives the line before it (`-0,0`).
- Access. `RevokeInvite` also deletes accepted invites; accepting an invite can
  lower an owner's role; two owners can remove each other.
- Registry. A manifest is read in two calls, attributes and content; a deleted
  blob's size stays cached on other replicas.
- Issues. Close and reopen check the state and then update unconditionally; the
  web form sends back every field; references of an edited comment go by the
  number in the URL. The web release form takes any sequence.
- Command line. `ds resolve` does not move the base, so the same conflict is
  reported at every later rebase; several commands move `Sequence` but not
  `CommitHash`, after which verification reports a broken chain; `syncTree` saves
  before it verifies, where `app.go:646` says before; checking out a branch that
  does not exist empties the directory and succeeds; the copies that a conflict
  leaves are committed as files; `checkout -b` on a topic bases the new branch on
  main with the topic's files. Files that an interrupted sync wrote, or that others
  changed between its listing and its downloads, differ from state.json like edits;
  the next `ds commit` posts them, over what others have committed to them since,
  and so it does after a commit whose answer was lost. `syncTree` does not look at
  the status of a download: an error answer in JSON becomes an empty file
  (`app.go:1006-1024`), and `syncArchive` lists the files that an archive lacked
  (`app.go:881-930`). Both are recorded as synced; the next pull is refused as
  dirty, and a commit posts the emptied or missing file.
- Terminal. The answer that loads a branch names no branch, so a late one can be
  shown for another; answers that arrive while a form is open are lost; each
  refresh adds a further tick. The web diff ignores a difference in the last
  newline.

## 4. Fairness

- `MergeGate!FairSpec`: weak fairness of the worker taking an event and of every
  started request: goroutines keep running. Requests themselves are not fair.
- `CIJobs!FairSpec`: weak fairness of each pod that is not killed, of the
  requests being served, of time passing and of the reaper's ticker; strong
  fairness of storing a token, which says that not every answer to a claim is
  lost. Heartbeats are not fair: the property must not depend on them. A crash
  may come at any time, so the property is conditional on pods being left (KEDA
  starts new ones).
- `MCEvents!FairSpec`: weak fairness of a begun commit of Emit, of each step of a
  reading loop and its timer, and of the connection; weak fairness of a poller's
  steps and of time passing; strong fairness of a due row being claimed, because
  a batch is limited and ordered by `next_attempt`, so a row that is due again and
  again comes first. Emitting, notifications, disconnecting, subscribing and
  resuming are not fair: no property depends on a notification arriving.
- `MCCredentials!Spec`: weak fairness of time; strong fairness of calls to a
  verifier whose cache has aged, which is the premise of the property ("a verifier
  that is called"). The restart of a signer is not fair, since nothing brings it
  about: VerifierLearnsKey is conditional on the signer not being left for good
  with the failure of its one fetch.

`SomeTxAdvances` is the safety side of progress in BranchTx: whenever a
transaction is open, one of them can take its next statement without a rollback.

## 5. Proofs

The theorems hold for every value of the constants that satisfies the named
assumption of the module: any number of branches, sessions, pods, readers,
pollers, replicas, requests, commands and keys, and any bound on faults. What TLC checks on a
small instance under the same name, a theorem states without it.

| Module | Theorem | Property | Assumption |
|---|---|---|---|
| BranchStoreProofs | TypeCorrect | TypeOK | main is no other branch's name, a deletion is no content, numbers are positive |
| | StoreConsistent | IInv | |
| | BranchIsOverlay | TreeIsOverlay | |
| | HashChain | ChainLinear | |
| | HeadsIdentifyTrees | HeadIdentifiesTree | |
| | PastIsPinned | HistoryPinned | |
| | MergesKeepChanges | MergeLosesNothing | |
| | RebasesKeepChanges | RebaseKeepsChanges | |
| BranchTxProofs | TxsHold | TxSound | one session purges at a time (`OnePurger`, a hypothesis of the theorems) |
| | TxImplementsStore | ImplementsBranchStore | |
| MergeGateProofs | GateHolds | MergesGated | distinct names; faults are among those listed |
| | CacheFresh | StaleOnlyByRace | |
| CIJobsProofs | QueueHolds | QueueConsistent | the best-effort job of an event is its last, as in the handler |
| | FinishedHolds | FinishedStays | |
| | AcknowledgedIsQueued | AckedIsQueued | |
| | ChecksHolds | ChecksSettle | |
| | TokensHold | TokenBounded | a job has a repository; the lifetime of caches is positive |
| | SealedHolds, RevealsHold | SealedStaysReadable, RevealSound | the value for "no row" is no sealed value; a job asks for secrets by name |
| ServiceProofs | InvitesHold, ParentsHold, AdministrableHolds | InvitesSound, RowsHaveTheirParent, RepoAdministrable | a repository has one owner, roles are the four of the code |
| | ProposalsHold, ApprovalsHold | ProposalsMatchBranches, CountedApprovalByOther | none |
| | IssuesHold | IssueWritesKept | the value for "nobody" is no user |
| EventProofs | RowsHold | RowsAccountedFor | batches and attempts are positive |
| | OutboxImplementsDelivery | ImplementsDelivery | |
| | StreamHolds | StreamIsLog | pages are positive |
| ContentProofs | PushesHold | PushedCanBePulled | names of blobs and manifests differ |
| | ContentHolds | ContentKept | none but the bound on faults |
| | ListingsHold, DiffsHold | ListingsSound, DiffsSound | there is a path; pages and limits are positive |
| ClientProofs | EditsHold, PullsHold | EditsKept, PullsSound | no document is named like the copy a conflict leaves; the values for "no file", "no hash" and "no branch" are none |
| | ScreensHold | ScreensSound | the value for "nothing" is no kind of answer |

How they are proved, component by component.

**Store.** The inductive invariant `IInv` is the conjunction of the type
invariant with SeqNamesCommit, HeadCoversBranch and BranchRowsReplayed;
ChainLinear is inductive relative to it. None of the parts is inductive alone:
that a new number exceeds everything a branch has (HeadCoversBranch) is what puts
a new commit at the end of its chain and replays after the new base; that a
number names one commit, and a row has a commit of its branch (SeqNamesCommit),
is what makes the commits that Purge keeps complete, so that no link of another
branch's chain goes with them. TreeIsOverlay follows from IInv: the branch's
rows up to the base are all shadowed by a later row of the same path
(BranchRowsReplayed), and main's rows up to the base are older than the branch's
rows after it. HeadIdentifiesTree and HistoryPinned follow from IInv and
`RowDelta`, which says that a step adds rows only above the head of their branch
and removes rows only of branches that disappear. "The newest row of a path
exists" rests on `GreatestExists`, which uses the well-foundedness of the
naturals. For MergeLosesNothing and RebaseKeepsChanges, `NewerRowsWin` says that
rows which are newer than all others win on their paths and change nothing
elsewhere; the rows a merge adds to main, and the rows a rebase adds to the
branch, are such rows, and a replay keeps which row of a path is newest because
its numbers rise with the commits (`ReplayKeepsNewest`).

**Transactions.** `TxInv` adds TxTypeOK and TxsFit to IInv. The step that ends a
transaction is a step of BranchStore because what the session read under its
locks still holds (the lemmas ...Refines). That it still holds is an argument
about the others: a step that writes only to branches somebody else has neither
locked nor purges, with numbers that are its own, leaves their sessions
undisturbed (`OthersFit`, `Finished`, `StatementFits`), and whatever is written
is written under a lock or by the insert of a free name (`WriteEnds`). A purge
takes no lock before its last statement; it is safe because nobody writes to a
closed branch or opens it again, and only another purge removes one, which is
why the theorems need `OnePurger`. That somebody can go on (`NoDeadlock`) follows
from the order of the locks: a session that holds a branch and not main asks for no
further row; one that holds main can wait for a branch, whose holder then does not
wait; a purge holds nothing until it takes all its rows at once. So a chain of
waits has at most two links.

**Merge gate.** MergesGated is inductive with RequestsSound, which relates what a
request has collected so far to the head it evaluates; reviews are not taken back
and heads grow, so it survives the steps of all others (`Monotone`).
StaleOnlyByRace is inductive relative to it.

**CI.** `Queue` is QueueConsistent with the count of a pod's jobs replaced by
"two jobs a pod holds are one". PodsFit ties a pod's progress and its requests to
the rows, SentIsQueued a half-handled event to the jobs it has queued. ChecksSettle
needs PendingOwed: a pending check has a job that is not finished and for which no
valid pod has reported it.

**Tokens.** Ages of tokens, keys, caches and the end of a job are compared and
never measured. A tick raises all of them, up to the longest lifetime, and raising
two numbers to a common limit keeps their order (TokensFit, CachesFit): a token is
at least as old as the end of its job, and a cache that still has a retired key is
at least as old as the change, so whatever is accepted is so within its lifetime.

**Secrets.** Everything sealed, in a row or in a request that has not stored it yet,
is sealed under the key in the file, because the file is written before its key is
used (SealedUnderFile). A reveal keeps the window of values each name has had since
it began; what it returns for a name is in the window, whatever is written between
two of its reads (RevealFits), and each name returned is in the audit trail or
among those whose event was lost.

**Requests of the service.** RequestsFit and HandlersFit say what a request
that has passed its check can still rely on when it writes; InvitesSound with
RowsHaveTheirParent, and ProposalsMatchBranches with CountedApprovalByOther, are
inductive together. The approvals need OlderReplayed: whoever committed before the
base has a replay after it, or lost their name to the rebase of somebody else.

**Issues.** IssueRequestsFit says the same of the requests on issues. Numbers are
dense because a creation that has read MAX(number) still holds the lock of the
repository row: the issues are then exactly the numbers below its own. An
acknowledged text has its references because what it owes and has been through
is in `refs`, which nothing shrinks. A transition that another one has not
overlapped finds the state it read, so that acknowledged closes and reopens
alternate.

**Events.** PollersFit and QueuedOnce tie the batch of a poller to the rows;
OutboxImplementsDelivery maps each statement to a step of Delivery or a stutter.
For the log, a reader's cursor, batch and receipts are compared with the
committed numbers: what is behind the cursor and not received was overtaken, or
deleted.

**Content.** A blob or manifest that was stored stays so until it is recorded as
cleared (`NothingUnrecorded`), which PushesFit and CachedWasStored turn into what
a push and a replica's cache rest on. For documents, CommitsFit and PurgeFits say
what an open commit and an open purge have found and that it still holds.

**Reads.** `StoreGrows` is to Reads what RowDelta is to the store: rows are added above
the head of their branch, none goes, and only a rebase moves a base. StoreFits makes
the row a page has found the one it still shows. A page of a listing is the first
part, in order, of the paths after the cursor, so that what precedes the cursor is
what was listed (ListingFits): a path that nobody touched has one version in all
pages. What failed reads left out is neither listed nor still to come, and lies
behind the cursor unless the archive was cut short (SkippedFits). The checksum of an archive is over the listing at a pinned sequence, which is
complete, and below the head nothing is added (UrlFits). A log has above its
cursor exactly the rows that were due, newest first, since new rows come above all
of them (LogFits).

**Workspace.** Directories are functions over paths; the lemmas on `Onto` and
`Without` say what a command that writes or removes files does to each path. Edits
show in the directory until they are posted (EditsShow), and what else differs from
state.json is the leftover of a command that was interrupted, overtaken or failed
(DifferencesKnown, which also looks ahead to the listing a sync is about to save),
so that what a commit posts is an edit or such a leftover. SyncGoesOn follows a pull
download by download, with the directory as the server gave it but for the files
whose read failed (`AsGiven`). The chain of a branch is linked and
its head is its last commit (ChainLinked, kept by every append, `ChainGrows`), so the
hash recomputed from any sequence the server gave (SequencesKnown) agrees.

**Terminal.** FormsFit relates a form that waits to its request among the answers in
the air: at most one is out, and its answer releases the form, wherever it arrives
between others.

Model-checked only:

- the liveness properties (AutoMergeAfterEvent, EveryJobFinishes, EveryRowSettles,
  LoggedReachesReaders, VerifierLearnsKey): fairness and ENABLED are out of the
  proof system's reach;
- FunctionsRight: recursive functions, whose results need induction over their
  data;
- that CanAdvance is ENABLED Advance, which is read off the actions.

Every other property of the passing runs is a theorem.

What the proofs showed about the models. The abstract purge was once asked to
take all branches with one head together; the attempt to prove the refinement,
and then TLC with two branches, showed that a branch which is merged after the
query of Purge stays behind. In CI, a third pod that claims the job in between
lets a token that was stored too late be refused by the configuration request and
accepted by the completion, so that a job can be completed as failed by a pod
that never ran it; `mishap` records it.

## 6. Not modelled, and the plan

Not modelled, and why:

- container builds, cryptography (sealing, signatures and hashes are abstracted
  to what was sealed, signed or hashed with which key), object storage, the Rego
  language: external;
- rendering of the web and terminal interfaces, metrics, the log store, the SDK,
  the commands that make one request and keep nothing: no state of their own;
- parsing of configuration and policy files, except conditions and owners: data
  the properties do not tell apart;
- the web forms for members, invites, roles and settings, which make the calls of
  Access one by one; inline review comments beyond their sequence; several attempts
  of one check name; the check "ci/config"; the 24 h expiry of request tokens;
- a crash inside the write of the key file (`secrets/local.go:86`), after which the
  short file is refused (`:67`); `handleToken`'s lookup of the job and the issue of
  the token (`ci-oidc/main.go:111`, `:165`) are one step; the JWKS that a second
  process serves (`ci-oidc-public`) is the signer's;
- splitting a text into lines; white space and identifiers of conditions;
- two purges at the same time (see Observations).

What is left, most important first:

1. Two purges that overlap: the interference is observed (section 3), the weaker
   promise that would still hold of the store is not stated.
2. The web forms for members, invites and roles as actions of Access.
3. Several attempts of one check name and the "ci/config" check in CIJobs.
