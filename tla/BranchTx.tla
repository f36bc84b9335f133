------------------------------- MODULE BranchTx -------------------------------
(***************************************************************************)
(* The transactions of internal/db/store.go as PostgreSQL runs them at     *)
(* READ COMMITTED: SELECT ... FOR UPDATE takes row locks of branches one   *)
(* at a time, every statement reads what is committed when it starts,      *)
(* the sequence number is taken before the commit and is never given back, *)
(* and a transaction that fails or is cancelled is rolled back.  The       *)
(* variables of BranchStore are the committed tables; a transaction        *)
(* collects its writes in its own state and applies them when it commits.  *)
(***************************************************************************)
EXTENDS BranchStore

CONSTANTS Txs,      \* database sessions, each running one transaction at a time
          NoTx,     \* the holder of a free lock
          Purgers   \* the sessions that may run Purge

ASSUME BranchTxAssumption ==
    /\ NoTx \notin Txs
    /\ Purgers \subseteq Txs

VARIABLES lock,  \* the transaction that holds the row lock of a branch
          tx,    \* the transaction of each session
          next   \* the next value of the commits.sequence counter

txVars == <<status, head, base, draft, commits, file_commits, used, lock, tx, next>>

NoPatch == [p \in {} |-> Deleted]

\* A session between two transactions.
Idle == [op |-> "none", pc |-> "idle", b |-> Main, files |-> NoPatch, author |-> "none",
         base |-> 0, mainHead |-> 0, changes |-> {}, groups |-> {}, seqs |-> NoPatch,
         gone |-> {}, rows |-> {}, oldCommits |-> {}]

TxInit ==
    /\ Init
    /\ lock = [b \in Names |-> NoTx]
    /\ tx = [t \in Txs |-> Idle]
    /\ next = 1

Free(b) == lock[b] = NoTx
Held(t) == {b \in Names : lock[b] = t}
Released(t) == [b \in Names |-> IF lock[b] = t THEN NoTx ELSE lock[b]]

Goto(t, label) == tx' = [tx EXCEPT ![t].pc = label]

-----------------------------------------------------------------------------
(* Statements.                                                             *)

\* The rows a transaction locks, and the one it locks next: main always first.
Rows(t) ==
    (IF tx[t].op \in {"Merge", "Rebase", "CreateBranch"} THEN {Main} ELSE {}) \cup
    (IF tx[t].op = "CreateBranch" THEN {} ELSE {tx[t].b})

RebaseLocksBranchFirst(t) ==
    IF Main \in Rows(t) \ Held(t) /\ (tx[t].op = "Rebase" => tx[t].b \in Held(t))
    THEN Main ELSE tx[t].b
NextRow(t) == IF Main \in Rows(t) \ Held(t) THEN Main ELSE tx[t].b

BeginTx(t, op, b, files, a) ==
    /\ tx[t].pc = "idle"
    /\ op = "Commit" \/ b # Main
    /\ tx' = [tx EXCEPT ![t] = [Idle EXCEPT !.op = op, !.b = b, !.files = files,
                                            !.author = a, !.pc = "lock"]]
    /\ UNCHANGED <<vars, lock, next>>

\* The checks on the row of the branch once it is locked; main's is only read.
Refused(t) ==
    LET b == tx[t].b IN
    /\ NextRow(t) = b /\ tx[t].op # "CreateBranch"
    /\ status[b] # "active" \/ (tx[t].op = "Merge" /\ draft[b])

\* The statement that follows the lock of row x.
AfterLock(t, x) ==
    IF Rows(t) \ Held(t) # {x} THEN "lock"
    ELSE IF tx[t].op \in {"Merge", "Rebase"} THEN "readBranch"
    ELSE IF tx[t].op = "Commit" THEN "alloc"
    ELSE "finish"

\* SELECT ... FROM branches WHERE name = ... FOR UPDATE
LockWithoutWaiting(t) ==
    LET x == NextRow(t) IN
    /\ tx[t].pc = "lock"
    /\ ~Refused(t)
    /\ lock' = [lock EXCEPT ![x] = t]
    /\ tx' = [tx EXCEPT ![t] = [tx[t] EXCEPT !.mainHead = IF x = Main THEN head[Main] ELSE tx[t].mainHead,
                                             !.base = IF x = tx[t].b THEN base[x] ELSE tx[t].base,
                                             !.pc = AfterLock(t, x)]]
    /\ UNCHANGED <<vars, next>>
Lock(t) ==
    LET x == NextRow(t) IN
    /\ tx[t].pc = "lock"
    /\ Free(x) /\ ~Refused(t)
    /\ lock' = [lock EXCEPT ![x] = t]
    /\ tx' = [tx EXCEPT ![t] = [tx[t] EXCEPT !.mainHead = IF x = Main THEN head[Main] ELSE tx[t].mainHead,
                                             !.base = IF x = tx[t].b THEN base[x] ELSE tx[t].base,
                                             !.pc = AfterLock(t, x)]]
    /\ UNCHANGED <<vars, next>>

\* The latest changes of the branch; without any there is nothing to replay.
ReadBranch(t) ==
    LET b == tx[t].b
        found == latestChanges(b, tx[t].base)
    IN  /\ tx[t].pc = "readBranch"
        /\ tx' = [tx EXCEPT ![t].changes = found,
                            ![t].pc = IF found = {} THEN "finish" ELSE "readMain"]
        /\ UNCHANGED <<vars, lock, next>>

\* The changes of main, the conflict check and, for Rebase, the commit groups.
ConflictsWith(t) ==
    {f.path : f \in tx[t].changes} \cap ChangedPaths(Main, tx[t].base)

ReadMain(t) ==
    /\ tx[t].pc = "readMain"
    /\ ConflictsWith(t) = {}
    /\ tx' = [tx EXCEPT ![t].groups = RowsSince(tx[t].b, tx[t].base),
                        ![t].pc = "alloc"]
    /\ UNCHANGED <<vars, lock, next>>

\* The groups that wait for their replay: Commit and Merge have a single one.
Groups(t) == IF tx[t].op = "Rebase" THEN {f.seq : f \in tx[t].groups} ELSE {0}
Waiting(t) == Groups(t) \ DOMAIN tx[t].seqs

\* INSERT INTO commits ... RETURNING sequence, for the oldest waiting group.
Allocate(t) ==
    /\ tx[t].pc = "alloc"
    /\ next \in SeqNos
    /\ \E g \in Waiting(t) :
          /\ \A h \in Waiting(t) : g <= h
          /\ tx' = [tx EXCEPT ![t].seqs = [q \in DOMAIN @ \cup {g} |-> IF q = g THEN next ELSE @[q]],
                              ![t].pc = IF Waiting(t) = {g} THEN "finish" ELSE "alloc"]
    /\ next' = next + 1
    /\ UNCHANGED <<vars, lock>>

\* The age of a branch is that of its head commit, so that branches with one
\* head go together; before the first commit it is that of the branch row.
Expired(gone) ==
    /\ gone # {}
    /\ \A b \in gone, c \in Terminal : head[b] = head[c] /\ head[b] # 0 => c \in gone

\* SELECT b.name FROM branches ...: no row is locked.
PurgeSelect(t, gone) ==
    /\ tx[t].pc = "idle"
    /\ gone \subseteq Terminal /\ Expired(gone)
    /\ tx' = [tx EXCEPT ![t] = [Idle EXCEPT !.op = "Purge", !.gone = gone, !.pc = "deleteRows"]]
    /\ UNCHANGED <<vars, lock, next>>

\* DELETE FROM file_commits waits for a transaction that deletes the same rows.
GoneRows(t) == {f \in file_commits : f.branch \in tx[t].gone}

PurgeRows(t) ==
    /\ tx[t].pc = "deleteRows"
    /\ \A u \in Txs \ {t} : tx[u].rows \cap GoneRows(t) = {}
    /\ tx' = [tx EXCEPT ![t].rows = GoneRows(t), ![t].pc = "deleteCommits"]
    /\ UNCHANGED <<vars, lock, next>>

\* The commits of the branches that no row names any longer.
GoneCommits(t) ==
    LET kept == {f.seq : f \in file_commits \ tx[t].rows}
    IN  {c \in commits : c.branch \in tx[t].gone /\ c.seq \notin kept}

PurgeCommits(t) ==
    /\ tx[t].pc = "deleteCommits"
    /\ \A u \in Txs \ {t} : tx[u].oldCommits \cap GoneCommits(t) = {}
    /\ tx' = [tx EXCEPT ![t].oldCommits = GoneCommits(t), ![t].pc = "deleteBranches"]
    /\ UNCHANGED <<vars, lock, next>>

PurgeBranches(t) ==
    /\ tx[t].pc = "deleteBranches"
    /\ \A b \in tx[t].gone : Free(b)
    /\ lock' = [b \in Names |-> IF b \in tx[t].gone /\ Exists(b) THEN t ELSE lock[b]]
    /\ Goto(t, "finish")
    /\ UNCHANGED <<vars, next>>

-----------------------------------------------------------------------------
(* The end of a transaction.                                               *)

Ready(t, op) == tx[t].pc = "finish" /\ tx[t].op = op

End(t) ==
    /\ lock' = Released(t)
    /\ tx' = [tx EXCEPT ![t] = Idle]
    /\ UNCHANGED next

FinishCommit(t) ==
    LET b == tx[t].b  files == tx[t].files  s == tx[t].seqs[0] IN
    /\ Ready(t, "Commit")
    /\ commits' = commits \cup {CommitRow(commits, s, b, tx[t].author)}
    /\ file_commits' = file_commits \cup
           {[seq |-> s, branch |-> b, path |-> p, ver |-> files[p]] : p \in DOMAIN files}
    /\ head' = [head EXCEPT ![b] = s]
    /\ used' = used \cup {s}
    /\ UNCHANGED <<status, base, draft>>
    /\ End(t)

\* The unique key (repo, name) makes the insert fail when the name is taken and
\* wait for a transaction that deletes the row.
FinishCreateBranch(t, d) ==
    LET b == tx[t].b IN
    /\ Ready(t, "CreateBranch")
    /\ Free(b) /\ ~Exists(b)
    /\ status' = [status EXCEPT ![b] = "active"]
    /\ head' = [head EXCEPT ![b] = tx[t].mainHead]
    /\ base' = [base EXCEPT ![b] = tx[t].mainHead]
    /\ draft' = [draft EXCEPT ![b] = d]
    /\ UNCHANGED <<commits, file_commits, used>>
    /\ End(t)

FinishDeleteBranch(t) ==
    /\ Ready(t, "DeleteBranch")
    /\ status' = [status EXCEPT ![tx[t].b] = "abandoned"]
    /\ UNCHANGED <<head, base, draft, commits, file_commits, used>>
    /\ End(t)

FinishMerge(t) ==
    /\ Ready(t, "Merge")
    /\ status' = [status EXCEPT ![tx[t].b] = "merged"]
    /\ \/ /\ tx[t].changes = {}
          /\ UNCHANGED <<head, commits, file_commits, used>>
       \/ /\ tx[t].changes # {}
          /\ LET s == tx[t].seqs[0] IN
             /\ commits' = commits \cup {CommitRow(commits, s, Main, tx[t].author)}
             /\ file_commits' = file_commits \cup
                    {[f EXCEPT !.seq = s, !.branch = Main] : f \in tx[t].changes}
             /\ head' = [head EXCEPT ![Main] = s]
             /\ used' = used \cup {s}
    /\ UNCHANGED <<base, draft>>
    /\ End(t)

FinishRebase(t) ==
    LET b == tx[t].b
        r == tx[t].seqs
        new == {r[q] : q \in DOMAIN r}
        seqs == BranchSeqs(commits, b) \cup new
    IN  /\ Ready(t, "Rebase")
        /\ base' = [base EXCEPT ![b] = tx[t].mainHead]
        /\ head' = [head EXCEPT ![b] = IF new = {} THEN tx[t].mainHead
                                       ELSE CHOOSE n \in new : \A m \in new : m <= n]
        /\ commits' = commits \cup
               {[seq |-> n, branch |-> b, author |-> tx[t].author, prev |-> NewestBelow(seqs, n)] : n \in new}
        /\ file_commits' = file_commits \cup {[f EXCEPT !.seq = r[f.seq]] : f \in tx[t].groups}
        /\ used' = used \cup new
        /\ UNCHANGED <<status, draft>>
        /\ End(t)

FinishPurge(t) ==
    LET gone == tx[t].gone IN
    /\ Ready(t, "Purge")
    /\ status' = [b \in Names |-> IF b \in gone THEN "absent" ELSE status[b]]
    /\ head' = [b \in Names |-> IF b \in gone THEN 0 ELSE head[b]]
    /\ base' = [b \in Names |-> IF b \in gone THEN 0 ELSE base[b]]
    /\ draft' = [b \in Names |-> IF b \in gone THEN FALSE ELSE draft[b]]
    /\ commits' = commits \ tx[t].oldCommits
    /\ file_commits' = file_commits \ tx[t].rows
    /\ UNCHANGED used
    /\ End(t)

\* The early returns: the row is missing, the branch is not active or a draft,
\* there are conflicts, the name is taken, or the counter is exhausted.
Fails(t) ==
    \/ tx[t].pc = "lock" /\ Free(NextRow(t)) /\ Refused(t)
    \/ tx[t].pc = "readMain" /\ ConflictsWith(t) # {}
    \/ Ready(t, "CreateBranch") /\ Free(tx[t].b) /\ Exists(tx[t].b)
    \/ tx[t].pc = "alloc" /\ next \notin SeqNos

Fail(t) == Fails(t) /\ End(t) /\ UNCHANGED vars

\* A cancelled request, a lost connection, a dry run: rolled back at any point.
Rollback(t) == tx[t].pc # "idle" /\ End(t) /\ UNCHANGED vars

\* One UPDATE statement is a transaction of its own.
UpdateDraftTx(b, d) ==
    /\ Free(b)
    /\ UpdateBranchDraft(b, d)
    /\ UNCHANGED <<lock, tx, next>>

\* A step a running transaction takes by itself.
Advance(t) ==
    \/ Lock(t) \/ ReadBranch(t) \/ ReadMain(t) \/ Allocate(t)
    \/ PurgeRows(t) \/ PurgeCommits(t) \/ PurgeBranches(t)
    \/ FinishCommit(t) \/ FinishDeleteBranch(t) \/ FinishMerge(t) \/ FinishRebase(t) \/ FinishPurge(t)
    \/ \E d \in BOOLEAN : FinishCreateBranch(t, d)
    \/ Fail(t)

TxNext ==
    \/ \E t \in Txs : Advance(t) \/ Rollback(t)
    \/ \E t \in Txs, b \in Names, files \in Patches, a \in Authors : BeginTx(t, "Commit", b, files, a)
    \/ \E t \in Txs, b \in Branches, a \in Authors, op \in {"Merge", "Rebase", "CreateBranch", "DeleteBranch"} :
          BeginTx(t, op, b, NoPatch, a)
    \/ \E t \in Purgers, gone \in SUBSET Terminal : PurgeSelect(t, gone)
    \/ \E b \in Branches, d \in BOOLEAN : UpdateDraftTx(b, d)

TxSpec == TxInit /\ [][TxNext]_txVars

-----------------------------------------------------------------------------
(* Properties.                                                             *)

WriteOps == {"Commit", "Merge", "Rebase", "CreateBranch", "DeleteBranch"}
Labels == {"idle", "lock", "readBranch", "readMain", "alloc", "finish",
           "deleteRows", "deleteCommits", "deleteBranches"}
Allotments == UNION {[G -> SeqNos] : G \in SUBSET (SeqNos \cup {0})}
TxRecords ==
    [op : WriteOps \cup {"none", "Purge"}, pc : Labels, b : Names, files : Patches \cup {NoPatch},
     author : Authors \cup {"none"}, base : Nat, mainHead : Nat, changes : SUBSET FileRows,
     groups : SUBSET FileRows, seqs : Allotments, gone : SUBSET Branches,
     rows : SUBSET FileRows, oldCommits : SUBSET CommitRows]

\* Type invariant of the transactions' own state: a row lock belongs to a
\* running transaction, and numbers handed out are below the counter.
TxTypeOK ==
    /\ lock \in [Names -> Txs \cup {NoTx}]
    /\ tx \in [Txs -> TxRecords]
    /\ next \in Nat
    /\ \A b \in Names : ~Free(b) => tx[lock[b]].pc # "idle"
    /\ \A n \in used : n < next

\* What a session has found in the rows it has locked is still so: nobody else
\* moves a branch, its head or its base under its lock.
LocksFit(t) ==
    tx[t].op \in WriteOps =>
        /\ tx[t].pc \in {"lock", "readBranch", "readMain", "alloc", "finish"}
        /\ tx[t].author \in Authors
        /\ IF tx[t].op = "Commit" THEN tx[t].files \in Patches ELSE tx[t].b \in Branches
        /\ Held(t) \subseteq Rows(t)
        /\ tx[t].pc = "lock" <=> ~(Rows(t) \subseteq Held(t))
        /\ tx[t].b \in Held(t) =>
             /\ status[tx[t].b] = "active" /\ tx[t].base = base[tx[t].b]
             /\ tx[t].op = "Merge" => ~draft[tx[t].b]
        /\ Main \in Held(t) => tx[t].mainHead = head[Main]

\* What Merge and Rebase have read of the branch is what the branch still has,
\* and main still has no conflicting change.
ReadsFit(t) ==
    IF tx[t].op \in {"Merge", "Rebase"}
    THEN /\ tx[t].pc \in {"readMain", "alloc", "finish"} =>
              tx[t].changes = latestChanges(tx[t].b, tx[t].base)
         /\ tx[t].pc \in {"readMain", "alloc"} => tx[t].changes # {}
         /\ IF tx[t].pc \in {"alloc", "finish"} /\ tx[t].changes # {}
            THEN ConflictsWith(t) = {} /\ tx[t].groups = RowsSince(tx[t].b, tx[t].base)
            ELSE tx[t].groups = {} /\ DOMAIN tx[t].seqs = {}
    ELSE tx[t].pc \notin {"readBranch", "readMain"} /\ (tx[t].pc = "alloc" => tx[t].op = "Commit")

\* The numbers a session was given rise with the commits they replay, are above
\* the heads of the rows it has locked and nobody else's.
SeqsFit(t) ==
    /\ DOMAIN tx[t].seqs # {} =>
         tx[t].pc \in {"alloc", "finish"} /\ tx[t].op \in {"Commit", "Merge", "Rebase"}
    /\ DOMAIN tx[t].seqs \subseteq Groups(t)
    /\ \A q \in DOMAIN tx[t].seqs :
          /\ tx[t].seqs[q] < next /\ tx[t].seqs[q] \notin used
          /\ \A d \in Rows(t) : head[d] < tx[t].seqs[q]
          /\ \A p \in DOMAIN tx[t].seqs : p < q => tx[t].seqs[p] < tx[t].seqs[q]
          /\ \A h \in Waiting(t) : q < h
    /\ /\ tx[t].pc = "finish"
       /\ tx[t].op = "Commit" \/ (tx[t].op \in {"Merge", "Rebase"} /\ tx[t].changes # {})
       => Waiting(t) = {}

SeqsApart ==
    \A t, u \in Txs : t # u =>
        \A p \in DOMAIN tx[t].seqs, q \in DOMAIN tx[u].seqs : tx[t].seqs[p] # tx[u].seqs[q]

\* Purge locks nothing when it looks, and yet its branches stay closed and get
\* no rows, for nobody works on a closed branch.
PurgeFits(t) ==
    tx[t].op = "Purge" =>
        /\ t \in Purgers /\ tx[t].gone # {} /\ tx[t].gone \subseteq Terminal /\ Held(t) \subseteq tx[t].gone
        /\ tx[t].pc \in {"deleteRows", "deleteCommits", "deleteBranches", "finish"}
        /\ tx[t].pc # "deleteRows" => tx[t].rows = {f \in file_commits : f.branch \in tx[t].gone}
        /\ tx[t].pc \in {"deleteBranches", "finish"} =>
             tx[t].oldCommits = {c \in commits : c.branch \in tx[t].gone}

TxFits(t) ==
    /\ tx[t].op = "none" <=> tx[t].pc = "idle"
    /\ LocksFit(t) /\ ReadsFit(t) /\ SeqsFit(t) /\ PurgeFits(t)
TxsFit == SeqsApart /\ \A t \in Txs : TxFits(t)

\* The row locks make every transaction atomic: whatever the interleaving of
\* statements, what is committed is a step of BranchStore.
ImplementsBranchStore == Spec

\* What keeps an open transaction from getting stuck by itself: an INSERT has a group
\* left, only a purge deletes rows, it locks none before its last statement, and
\* whoever locks main has locked it first.
WorkFits(t) ==
    /\ tx[t].pc = "alloc" => Waiting(t) # {}
    /\ tx[t].op # "Purge" => tx[t].rows = {} /\ tx[t].oldCommits = {}
    /\ tx[t].op = "Purge" /\ tx[t].pc # "finish" => Held(t) = {}
    /\ tx[t].op \in WriteOps /\ Main \in Rows(t) /\ Held(t) # {} => Main \in Held(t)
WorksFit == \A t \in Txs : WorkFits(t)

\* The next statement of t, or its early return, need not wait: what Advance(t)
\* asks of the state, statement by statement.
CanAdvance(t) ==
    \/ tx[t].pc = "lock" /\ Free(NextRow(t))
    \/ tx[t].pc \in {"readBranch", "readMain"}
    \/ /\ tx[t].pc = "alloc"
       /\ next \in SeqNos => \E g \in Waiting(t) : \A h \in Waiting(t) : g <= h
    \/ tx[t].pc = "deleteRows" /\ \A u \in Txs \ {t} : tx[u].rows \cap GoneRows(t) = {}
    \/ tx[t].pc = "deleteCommits" /\ \A u \in Txs \ {t} : tx[u].oldCommits \cap GoneCommits(t) = {}
    \/ tx[t].pc = "deleteBranches" /\ \A b \in tx[t].gone : Free(b)
    \/ \E op \in {"Commit", "DeleteBranch", "Merge", "Rebase", "Purge"} : Ready(t, op)
    \/ Ready(t, "CreateBranch") /\ Free(tx[t].b)

\* Locking main before the branch avoids deadlocks ("consistent ordering
\* prevents deadlocks"): of the transactions that are open one can always take
\* its next statement, so that nobody has to be rolled back to free the others.
SomeTxAdvances ==
    (\E t \in Txs : tx[t].pc # "idle") => \E t \in Txs : tx[t].pc # "idle" /\ CanAdvance(t)

\* What holds of the open transactions: locks belong to those that run, what
\* they have read holds until they commit, and one of them can always go on.
TxSound == TxTypeOK /\ TxsFit /\ WorksFit /\ SomeTxAdvances
=============================================================================
