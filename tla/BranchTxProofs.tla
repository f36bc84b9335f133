----------------------------- MODULE BranchTxProofs -----------------------------
(***************************************************************************)
(* The statements of BranchTx implement the transactions of BranchStore,   *)
(* for any number of sessions, branches, paths and sequence numbers: the   *)
(* row locks make Commit, CreateBranch, Merge, Rebase and DeleteBranch     *)
(* atomic, and Purge as long as one session purges at a time.  The order   *)
(* of the locks keeps the sessions from all waiting for each other.        *)
(***************************************************************************)
EXTENDS BranchTx, BranchStoreProofs

\* The store and the open transactions, which are inductive together.
TxInv == IInv /\ TxTypeOK /\ TxsFit

\* What the queries and the locks of one session have established.
LEMMA TxParts ==
    ASSUME TxInv, NEW t \in Txs
    PROVE  /\ IInv /\ TypeOK /\ TxTypeOK /\ SeqsApart
           /\ tx[t] \in TxRecords /\ DOMAIN tx = Txs /\ DOMAIN lock = Names /\ next \in Nat
           /\ LocksFit(t) /\ ReadsFit(t) /\ SeqsFit(t) /\ PurgeFits(t)
           /\ tx[t].op = "none" <=> tx[t].pc = "idle"
           /\ \A b \in Branches : b \in Names /\ b # Main
           /\ Main \in Names
BY BranchStoreAssumption DEF TxInv, IInv, TxTypeOK, TxsFit, TxFits, Names

\* The fields of a session have their types.
LEMMA TxFields ==
    ASSUME NEW x \in TxRecords
    PROVE  /\ x.op \in WriteOps \cup {"none", "Purge"} /\ x.pc \in Labels /\ x.b \in Names
           /\ x.base \in Nat /\ x.mainHead \in Nat
           /\ x.changes \subseteq FileRows /\ x.groups \subseteq FileRows
           /\ x.seqs \in Allotments /\ x.gone \subseteq Branches
           /\ x.rows \subseteq FileRows /\ x.oldCommits \subseteq CommitRows
BY DEF TxRecords

\* Numbers that a session was given are sequence numbers, for groups that are
\* named by a number.
LEMMA AllotmentType ==
    ASSUME NEW r \in Allotments
    PROVE  /\ DOMAIN r \subseteq SeqNos \cup {0}
           /\ r \in [DOMAIN r -> SeqNos]
           /\ \A q \in DOMAIN r : r[q] \in SeqNos /\ r[q] \in Nat /\ q \in Nat
<1>1. PICK G \in SUBSET (SeqNos \cup {0}) : r \in [G -> SeqNos]
    BY DEF Allotments
<1>2. DOMAIN r = G
    BY <1>1
<1>3. \A q \in G : r[q] \in SeqNos
    BY <1>1
<1>4. \A n \in SeqNos : n \in Nat
    BY BranchStoreAssumption
<1> QED BY <1>1, <1>2, <1>3, <1>4

\* A write that has come to its end holds its rows and stands on what they say.
LEMMA ReadyHolds ==
    ASSUME TxInv, NEW t \in Txs, NEW op \in WriteOps, Ready(t, op)
    PROVE  /\ tx[t].op = op /\ tx[t].pc = "finish" /\ tx[t].b \in Names /\ tx[t].author \in Authors
           /\ op # "Commit" => tx[t].b \in Branches
           /\ op = "Commit" => tx[t].files \in Patches
           /\ Rows(t) \subseteq Held(t)
           /\ op # "CreateBranch" => /\ tx[t].b \in Held(t) /\ status[tx[t].b] = "active"
                                     /\ tx[t].base = base[tx[t].b]
                                     /\ op = "Merge" => ~draft[tx[t].b]
           /\ op \in {"Merge", "Rebase", "CreateBranch"} => Main \in Held(t) /\ tx[t].mainHead = head[Main]
<1>1. tx[t].op = op /\ tx[t].pc = "finish" /\ tx[t].b \in Names
    BY TxParts, TxFields DEF Ready
<1>2. LocksFit(t)
    BY TxParts
<1>3. Rows(t) \subseteq Held(t)
    BY <1>1, <1>2 DEF LocksFit
<1>4. /\ op # "CreateBranch" => tx[t].b \in Held(t)
      /\ op \in {"Merge", "Rebase", "CreateBranch"} => Main \in Held(t)
    BY <1>1, <1>3 DEF Rows
<1> QED BY <1>1, <1>2, <1>3, <1>4 DEF LocksFit

\* The number of a commit or a merge is new and above the heads it locked.
LEMMA ReadySeq ==
    ASSUME TxInv, NEW t \in Txs, NEW op \in {"Commit", "Merge"}, Ready(t, op),
           op = "Merge" => tx[t].changes # {}
    PROVE  /\ 0 \in DOMAIN tx[t].seqs /\ tx[t].seqs[0] \in SeqNos
           /\ NewSeq(tx[t].seqs[0], Rows(t))
<1>1. tx[t].op = op /\ tx[t].pc = "finish" /\ SeqsFit(t) /\ tx[t].seqs \in Allotments
    BY TxParts, TxFields DEF Ready
<1>2. Groups(t) = {0} /\ Waiting(t) = {}
    BY <1>1 DEF Groups, SeqsFit
<1>3. 0 \in DOMAIN tx[t].seqs
    BY <1>2 DEF Waiting
<1>4. tx[t].seqs[0] \in SeqNos /\ tx[t].seqs[0] \in Nat
    BY <1>1, <1>3, AllotmentType
<1>5. /\ \A d \in Rows(t) : head[d] < tx[t].seqs[0]
      /\ tx[t].seqs[0] \notin used
    BY <1>1, <1>3 DEF SeqsFit
<1>6. \A d \in Rows(t) : head[d] \in Nat
    <2>1. Rows(t) \subseteq Names
        BY TxParts, TxFields DEF Rows
    <2> QED BY <2>1, TxParts, NumberTypes
<1> QED BY <1>3, <1>4, <1>5, <1>6 DEF NewSeq

-----------------------------------------------------------------------------
(* The ends of transactions are steps of BranchStore.                      *)

\* FinishCommit is Commit.
LEMMA CommitRefines ==
    ASSUME TxInv, NEW t \in Txs, FinishCommit(t)
    PROVE  Next
<1>1. PICK b, files, a, s : b = tx[t].b /\ files = tx[t].files /\ a = tx[t].author /\ s = tx[t].seqs[0]
    OBVIOUS
<1>2. Ready(t, "Commit") /\ "Commit" \in WriteOps
    BY DEF FinishCommit, WriteOps
<1>3. b \in Names /\ files \in Patches /\ a \in Authors /\ status[b] = "active"
    BY <1>1, <1>2, ReadyHolds
<1>4. s \in SeqNos /\ NewSeq(s, {b})
    <2>1. s \in SeqNos /\ NewSeq(s, Rows(t))
        BY <1>1, <1>2, ReadySeq
    <2>2. b \in Rows(t)
        BY <1>1, <1>2 DEF Rows, Ready
    <2> QED BY <2>1, <2>2 DEF NewSeq
<1>5. Commit(b, files, a, s)
    BY <1>1, <1>3, <1>4 DEF FinishCommit, Commit
<1> QED BY <1>3, <1>4, <1>5 DEF Next

\* FinishCreateBranch is CreateBranch: main's head has not moved since it was read.
LEMMA CreateRefines ==
    ASSUME TxInv, NEW t \in Txs, NEW d \in BOOLEAN, FinishCreateBranch(t, d)
    PROVE  Next
<1>1. PICK b : b = tx[t].b
    OBVIOUS
<1>2. Ready(t, "CreateBranch") /\ "CreateBranch" \in WriteOps
    BY DEF FinishCreateBranch, WriteOps
<1>3. b \in Branches /\ tx[t].mainHead = head[Main]
    BY <1>1, <1>2, ReadyHolds
<1>4. CreateBranch(b, d)
    BY <1>1, <1>3 DEF FinishCreateBranch, CreateBranch, Exists
<1> QED BY <1>3, <1>4 DEF Next

\* FinishDeleteBranch is DeleteBranch.
LEMMA DeleteRefines ==
    ASSUME TxInv, NEW t \in Txs, FinishDeleteBranch(t)
    PROVE  Next
<1>1. PICK b : b = tx[t].b
    OBVIOUS
<1>2. Ready(t, "DeleteBranch") /\ "DeleteBranch" \in WriteOps
    BY DEF FinishDeleteBranch, WriteOps
<1>3. b \in Branches /\ status[b] = "active"
    BY <1>1, <1>2, ReadyHolds
<1>4. DeleteBranch(b)
    BY <1>1, <1>3 DEF FinishDeleteBranch, DeleteBranch
<1> QED BY <1>3, <1>4 DEF Next

\* A query for the latest changes finds nothing only when there is nothing.
LEMMA NoChanges ==
    ASSUME IInv, NEW b \in Names
    PROVE  /\ latestChanges(b, base[b]) = {} <=> ChangedPaths(b, base[b]) = {}
           /\ RowsSince(b, base[b]) = {} <=> ChangedPaths(b, base[b]) = {}
           /\ {f.path : f \in latestChanges(b, base[b])} = ChangedPaths(b, base[b])
<1>1. RowsSince(b, base[b]) = {} <=> ChangedPaths(b, base[b]) = {}
    BY DEF ChangedPaths
<1> QED BY <1>1, LatestHasPath

\* FinishMerge is Merge, or MergeEmpty.
LEMMA MergeRefines ==
    ASSUME TxInv, NEW t \in Txs, FinishMerge(t)
    PROVE  Next
<1>1. PICK b, a, s : b = tx[t].b /\ a = tx[t].author /\ s = tx[t].seqs[0]
    OBVIOUS
<1>2. Ready(t, "Merge") /\ "Merge" \in WriteOps /\ tx[t].op = "Merge" /\ tx[t].pc = "finish"
    BY DEF FinishMerge, WriteOps, Ready
<1>3. b \in Branches /\ b \in Names /\ a \in Authors /\ status[b] = "active" /\ ~draft[b] /\ tx[t].base = base[b]
    BY <1>1, <1>2, ReadyHolds
<1>4. tx[t].changes = latestChanges(b, base[b])
    BY <1>1, <1>2, <1>3, TxParts DEF ReadsFit
<1>5. CASE tx[t].changes = {}
    <2>1. ChangedPaths(b, base[b]) = {}
        BY <1>3, <1>4, <1>5, TxParts, NoChanges
    <2>2. MergeEmpty(b)
        <3>1. /\ status' = [status EXCEPT ![b] = "merged"]
              /\ UNCHANGED <<head, commits, file_commits, used>> /\ UNCHANGED <<base, draft>>
            BY <1>1, <1>5 DEF FinishMerge
        <3> QED BY <3>1, <1>3, <2>1 DEF MergeEmpty, Mergeable
    <2> QED BY <1>3, <2>2 DEF Next
<1>6. CASE tx[t].changes # {}
    <2>1. ChangedPaths(b, base[b]) # {}
        BY <1>3, <1>4, <1>6, TxParts, NoChanges
    <2>2. Conflicts(b) = {}
        <3>1. ConflictsWith(t) = {}
            BY <1>2, <1>6, TxParts DEF ReadsFit
        <3> QED BY <3>1, <1>1, <1>3, <1>4, TxParts, NoChanges DEF Conflicts, ConflictsWith
    <2>3. s \in SeqNos /\ NewSeq(s, {Main, b})
        <3>1. s \in SeqNos /\ NewSeq(s, Rows(t))
            BY <1>1, <1>2, <1>6, ReadySeq
        <3>2. Rows(t) = {Main, b}
            BY <1>1, <1>2 DEF Rows
        <3> QED BY <3>1, <3>2
    <2>4. Merge(b, a, s)
        <3>1. /\ status' = [status EXCEPT ![b] = "merged"]
              /\ head' = [head EXCEPT ![Main] = s] /\ used' = used \cup {s} /\ UNCHANGED <<base, draft>>
            BY <1>1, <1>6 DEF FinishMerge
        <3>2. commits' = commits \cup {CommitRow(commits, s, Main, a)}
            BY <1>1, <1>6 DEF FinishMerge
        <3>3. file_commits' = file_commits \cup
                  {[f EXCEPT !.seq = s, !.branch = Main] : f \in tx[t].changes}
            BY <1>1, <1>6 DEF FinishMerge
        <3>4. file_commits' = file_commits \cup
                  {[f EXCEPT !.seq = s, !.branch = Main] : f \in latestChanges(b, base[b])}
            BY <3>3, <1>4
        <3> QED BY <3>1, <3>2, <3>4, <1>3, <2>1, <2>2, <2>3 DEF Merge, Mergeable
    <2> QED BY <1>3, <2>3, <2>4 DEF Next
<1> QED BY <1>5, <1>6

\* FinishRebase is Rebase, or RebaseEmpty: the branch and main are as they were
\* read, and the numbers were given in the order of the commits.
LEMMA RebaseRefines ==
    ASSUME TxInv, NEW t \in Txs, FinishRebase(t)
    PROVE  Next
<1>1. PICK b, a, r : b = tx[t].b /\ a = tx[t].author /\ r = tx[t].seqs
    OBVIOUS
<1>2. Ready(t, "Rebase") /\ "Rebase" \in WriteOps /\ tx[t].op = "Rebase" /\ tx[t].pc = "finish"
    BY DEF FinishRebase, WriteOps, Ready
<1>3. /\ b \in Branches /\ b \in Names /\ a \in Authors /\ status[b] = "active" /\ tx[t].base = base[b]
      /\ tx[t].mainHead = head[Main]
    BY <1>1, <1>2, ReadyHolds
<1>4. tx[t].changes = latestChanges(b, base[b])
    BY <1>1, <1>2, <1>3, TxParts DEF ReadsFit
<1> DEFINE new == {r[q] : q \in DOMAIN r}
<1>5. r \in Allotments
    BY <1>1, TxParts, TxFields
<1>6. CASE tx[t].changes = {}
    <2>1. ChangedPaths(b, base[b]) = {}
        BY <1>3, <1>4, <1>6, TxParts, NoChanges
    <2>2. DOMAIN r = {} /\ tx[t].groups = {}
        BY <1>1, <1>2, <1>6, TxParts DEF ReadsFit
    <2>3. new = {}
        BY <2>2
    <2>4. /\ base' = [base EXCEPT ![b] = head[Main]] /\ head' = [head EXCEPT ![b] = head[Main]]
          /\ UNCHANGED <<status, draft>>
        BY <1>1, <1>3, <2>3 DEF FinishRebase
    <2>5. commits' = commits /\ used' = used
        BY <1>1, <2>3 DEF FinishRebase
    <2>6. file_commits' = file_commits
        BY <2>2 DEF FinishRebase
    <2>7. RebaseEmpty(b)
        BY <1>3, <2>1, <2>4, <2>5, <2>6 DEF RebaseEmpty
    <2> QED BY <1>3, <2>7 DEF Next
<1>7. CASE tx[t].changes # {}
    <2>1. ChangedPaths(b, base[b]) # {}
        BY <1>3, <1>4, <1>7, TxParts, NoChanges
    <2>2. ConflictsWith(t) = {} /\ tx[t].groups = RowsSince(b, base[b])
        BY <1>1, <1>2, <1>3, <1>7, TxParts DEF ReadsFit
    <2>3. Conflicts(b) = {}
        BY <2>2, <1>1, <1>3, <1>4, TxParts, NoChanges DEF Conflicts, ConflictsWith
    <2>4. Groups(t) = branchCommitGroups(b)
        BY <1>2, <2>2 DEF Groups, branchCommitGroups
    <2>5. DOMAIN r = branchCommitGroups(b)
        <3>1. SeqsFit(t)
            BY TxParts
        <3>2. Waiting(t) = {} /\ DOMAIN r \subseteq Groups(t)
            BY <1>1, <1>2, <1>7, <3>1 DEF SeqsFit
        <3> QED BY <1>1, <2>4, <3>2 DEF Waiting
    <2>6. r \in [branchCommitGroups(b) -> SeqNos] /\ \A q \in DOMAIN r : r[q] \in Nat /\ q \in Nat
        BY <1>5, <2>5, AllotmentType
    <2>7. ReplaySeqs(b, r)
        <3>1. Rows(t) = {Main, b}
            BY <1>1, <1>2 DEF Rows
        <3>2. \A q \in DOMAIN r : /\ r[q] \notin used /\ \A d \in {Main, b} : head[d] < r[q]
                                  /\ \A p \in DOMAIN r : p < q => r[p] < r[q]
            BY <1>1, <3>1, TxParts DEF SeqsFit
        <3>3. head[b] \in Nat /\ head[Main] \in Nat
            BY <1>3, TxParts, NumberTypes
        <3> QED BY <2>6, <3>2, <3>3 DEF ReplaySeqs, NewSeq
    <2>8. PICK last \in DOMAIN r : \A q \in DOMAIN r : q <= last
        <3>1. RowsSince(b, base[b]) # {}
            BY <1>3, <2>1, TxParts, NoChanges
        <3>2. DOMAIN r # {} /\ DOMAIN r \in SUBSET Nat
            BY <2>5, <2>6, <3>1 DEF branchCommitGroups
        <3>3. head[b] \in Nat /\ \A q \in DOMAIN r : q <= head[b]
            BY <1>3, <2>5, TxParts, NumberTypes DEF branchCommitGroups, RowsSince, IInv, HeadCoversBranch
        <3> QED BY <3>2, <3>3, GreatestExists
    <2>9. new # {} /\ r[last] \in new /\ \A n \in new : n \in Nat /\ n <= r[last]
        BY <2>6, <2>7, <2>8 DEF ReplaySeqs
    <2>10. (CHOOSE n \in new : \A m \in new : m <= n) = r[last]
        <3> HIDE DEF new
        <3>1. \A n \in new : (\A m \in new : m <= n) => n = r[last]
            BY <2>9
        <3> QED BY <2>9, <3>1
    <2>11. head' = [head EXCEPT ![b] = r[last]]
        <3>1. head' = [head EXCEPT ![b] = IF new = {} THEN tx[t].mainHead
                                          ELSE CHOOSE n \in new : \A m \in new : m <= n]
            BY <1>1 DEF FinishRebase
        <3> HIDE DEF new
        <3> QED BY <3>1, <2>9, <2>10
    <2>12. /\ base' = [base EXCEPT ![b] = head[Main]] /\ used' = used \cup new
           /\ UNCHANGED <<status, draft>>
        BY <1>1, <1>3 DEF FinishRebase
    <2>13. commits' = commits \cup {[seq |-> n, branch |-> b, author |-> a,
                         prev |-> NewestBelow(BranchSeqs(commits, b) \cup new, n)] : n \in new}
        BY <1>1 DEF FinishRebase
    <2>14. file_commits' = file_commits \cup ReplayedRows(b, r)
        <3>1. file_commits' = file_commits \cup {[f EXCEPT !.seq = r[f.seq]] : f \in tx[t].groups}
            BY <1>1 DEF FinishRebase
        <3> QED BY <3>1, <2>2 DEF ReplayedRows
    <2>15. Rebase(b, a, r, last)
        BY <1>3, <2>1, <2>3, <2>7, <2>8, <2>11, <2>12, <2>13, <2>14 DEF Rebase
    <2> QED BY <1>3, <2>5, <2>6, <2>8, <2>15 DEF Next
<1> QED BY <1>6, <1>7

\* The commits and rows of branches that nobody works on are those that the
\* deletes of Purge have found.
LEMMA PurgeRefines ==
    ASSUME TxInv, NEW t \in Txs, FinishPurge(t)
    PROVE  Next
<1>1. PICK gone : gone = tx[t].gone
    OBVIOUS
<1>2. tx[t].op = "Purge" /\ tx[t].pc = "finish"
    BY DEF FinishPurge, Ready
<1>3. /\ gone # {} /\ gone \subseteq Terminal
      /\ tx[t].rows = {f \in file_commits : f.branch \in gone}
      /\ tx[t].oldCommits = {c \in commits : c.branch \in gone}
    BY <1>1, <1>2, TxParts DEF PurgeFits
<1>4. /\ status' = [b \in Names |-> IF b \in gone THEN "absent" ELSE status[b]]
      /\ head' = [b \in Names |-> IF b \in gone THEN 0 ELSE head[b]]
      /\ base' = [b \in Names |-> IF b \in gone THEN 0 ELSE base[b]]
      /\ draft' = [b \in Names |-> IF b \in gone THEN FALSE ELSE draft[b]]
      /\ UNCHANGED used
    BY <1>1 DEF FinishPurge
<1>5. file_commits' = {f \in file_commits : f.branch \notin gone}
    BY <1>3 DEF FinishPurge
<1>6. commits' = {c \in commits : c.branch \notin gone}
    BY <1>3 DEF FinishPurge
<1>7. \A c \in commits : c.branch \in gone =>
          c.seq \notin {f.seq : f \in {g \in file_commits : g.branch \notin gone}}
    BY TxParts DEF IInv, SeqNamesCommit
<1>8. Purge(gone)
    BY <1>3, <1>4, <1>5, <1>6, <1>7 DEF Purge
<1> QED BY <1>3, <1>8 DEF Next

-----------------------------------------------------------------------------
(* What a session rests on stays while others run.                         *)

\* Nothing of branch d changes.
SameBranch(d) ==
    /\ status'[d] = status[d] /\ head'[d] = head[d] /\ base'[d] = base[d] /\ draft'[d] = draft[d]
    /\ {f \in file_commits' : f.branch = d} = {f \in file_commits : f.branch = d}

\* No rows or commits of the branches of a purge come or go, and they stay closed.
SameClosed(B) ==
    /\ \A d \in B : status'[d] = status[d]
    /\ {f \in file_commits' : f.branch \in B} = {f \in file_commits : f.branch \in B}
    /\ {c \in commits' : c.branch \in B} = {c \in commits : c.branch \in B}

\* The step is another session's: u goes on with its locks, numbers and reads.
Undisturbed(u) ==
    /\ tx'[u] = tx[u] /\ Held(u)' = Held(u)
    /\ \A d \in Held(u) : SameBranch(d)
    /\ tx[u].op = "Purge" => SameClosed(tx[u].gone)
    /\ \A q \in DOMAIN tx[u].seqs : tx[u].seqs[q] < next' /\ tx[u].seqs[q] \notin used'

\* A branch that stays the same answers every query the same.
LEMMA SameAnswers ==
    ASSUME NEW d, SameBranch(d), NEW s
    PROVE  {f \in file_commits' : f.branch = d /\ f.seq > s} = RowsSince(d, s)
<1>1. \A f : (f \in file_commits' /\ f.branch = d) <=> (f \in file_commits /\ f.branch = d)
    BY DEF SameBranch
<1> QED BY <1>1 DEF RowsSince

\* The queries of a session that holds its branch and main.
LEMMA SameReads ==
    ASSUME NEW u, tx'[u] = tx[u], SameBranch(tx[u].b), SameBranch(Main)
    PROVE  /\ latestChanges(tx[u].b, tx[u].base)' = latestChanges(tx[u].b, tx[u].base)
           /\ RowsSince(tx[u].b, tx[u].base)' = RowsSince(tx[u].b, tx[u].base)
           /\ ConflictsWith(u)' = ConflictsWith(u)
<1>1. RowsSince(tx[u].b, tx[u].base)' = RowsSince(tx[u].b, tx[u].base)
    BY SameAnswers DEF RowsSince
<1>2. RowsSince(Main, tx[u].base)' = RowsSince(Main, tx[u].base)
    BY SameAnswers DEF RowsSince
<1>3. ConflictsWith(u)' = ConflictsWith(u)
    BY <1>2 DEF ConflictsWith, ChangedPaths
<1> QED BY <1>1, <1>3 DEF latestChanges

\* An undisturbed session still fits.
LEMMA OthersFit ==
    ASSUME TxInv, NEW u \in Txs, Undisturbed(u)
    PROVE  TxFits(u)'
<1>1. tx'[u] = tx[u] /\ Held(u)' = Held(u) /\ \A d \in Held(u) : SameBranch(d)
    BY DEF Undisturbed
<1>2. Rows(u)' = Rows(u) /\ Groups(u)' = Groups(u) /\ Waiting(u)' = Waiting(u)
    BY <1>1 DEF Rows, Groups, Waiting
<1>p. /\ LocksFit(u) /\ ReadsFit(u) /\ SeqsFit(u) /\ PurgeFits(u)
      /\ tx[u].op = "none" <=> tx[u].pc = "idle"
      /\ tx[u] \in TxRecords
    BY TxParts
<1>3. LocksFit(u)'
    BY <1>1, <1>2, <1>p DEF LocksFit, SameBranch
<1>4. ReadsFit(u)'
    <2>1. CASE tx[u].op \in {"Merge", "Rebase"} /\ tx[u].pc \in {"readMain", "alloc", "finish"}
        <3>1. tx[u].op \in WriteOps
            BY <2>1 DEF WriteOps
        <3>2. Rows(u) \subseteq Held(u)
            BY <2>1, <3>1, <1>p DEF LocksFit
        <3>3. tx[u].b \in Held(u) /\ Main \in Held(u)
            BY <2>1, <3>2 DEF Rows
        <3>4. /\ latestChanges(tx[u].b, tx[u].base)' = latestChanges(tx[u].b, tx[u].base)
              /\ RowsSince(tx[u].b, tx[u].base)' = RowsSince(tx[u].b, tx[u].base)
              /\ ConflictsWith(u)' = ConflictsWith(u)
            BY <1>1, <3>3, SameReads
        <3> QED BY <1>1, <1>p, <3>4 DEF ReadsFit
    <2>2. CASE ~(tx[u].op \in {"Merge", "Rebase"} /\ tx[u].pc \in {"readMain", "alloc", "finish"})
        BY <1>1, <1>p, <2>2 DEF ReadsFit
    <2> QED BY <2>1, <2>2
<1>5. SeqsFit(u)'
    <2>1. CASE DOMAIN tx[u].seqs = {}
        BY <1>1, <1>2, <1>p, <2>1 DEF SeqsFit
    <2>2. CASE DOMAIN tx[u].seqs # {}
        <3>1. tx[u].pc \in {"alloc", "finish"} /\ tx[u].op \in WriteOps
            BY <1>p, <2>2 DEF SeqsFit, WriteOps
        <3>2. Rows(u) \subseteq Held(u)
            BY <3>1, <1>p DEF LocksFit
        <3>3. \A d \in Rows(u) : head'[d] = head[d]
            BY <1>1, <3>2 DEF SameBranch
        <3>4. \A q \in DOMAIN tx[u].seqs : tx[u].seqs[q] < next' /\ tx[u].seqs[q] \notin used'
            BY DEF Undisturbed
        <3> QED BY <1>1, <1>2, <1>p, <3>3, <3>4 DEF SeqsFit
    <2> QED BY <2>1, <2>2
<1>6. PurgeFits(u)'
    <2> SUFFICES ASSUME tx[u].op = "Purge" PROVE PurgeFits(u)'
        BY <1>1 DEF PurgeFits
    <2>1. SameClosed(tx[u].gone)
        BY DEF Undisturbed
    <2>2. (tx[u].gone \subseteq Terminal)'
        BY <1>1, <1>p, <2>1 DEF PurgeFits, Terminal, SameClosed
    <2>3. /\ {f \in file_commits' : f.branch \in tx[u].gone} = {f \in file_commits : f.branch \in tx[u].gone}
          /\ {c \in commits' : c.branch \in tx[u].gone} = {c \in commits : c.branch \in tx[u].gone}
        BY <2>1 DEF SameClosed
    <2> QED BY <1>1, <1>p, <2>2, <2>3 DEF PurgeFits
<1> QED BY <1>1, <1>p, <1>3, <1>4, <1>5, <1>6 DEF TxFits

\* Two sessions hold no row in common.
LEMMA HeldApart ==
    ASSUME NEW t, NEW u, t # u
    PROVE  Held(t) \cap Held(u) = {}
BY DEF Held

-----------------------------------------------------------------------------
(* The end of a transaction.                                               *)

\* A session between two transactions is well typed and has no numbers.
LEMMA IdleFits ==
    /\ Idle \in TxRecords /\ DOMAIN Idle.seqs = {}
    /\ Idle.op = "none" /\ Idle.pc = "idle"
<1>1. NoPatch \in Allotments /\ DOMAIN NoPatch = {}
    <2>1. NoPatch \in [{} -> SeqNos] /\ DOMAIN NoPatch = {}
        BY DEF NoPatch
    <2> QED BY <2>1 DEF Allotments
<1>2. Main \in Names
    BY DEF Names
<1> QED BY <1>1, <1>2 DEF Idle, TxRecords, Labels

\* A session without a transaction fits.
LEMMA NoTxFits ==
    ASSUME NEW t, tx'[t] = Idle
    PROVE  TxFits(t)'
<1>1. tx'[t].op = "none" /\ tx'[t].pc = "idle" /\ DOMAIN tx'[t].seqs = {}
    BY IdleFits
<1> QED BY <1>1 DEF TxFits, LocksFit, ReadsFit, SeqsFit, PurgeFits, WriteOps

\* Whoever ends gives back its locks and its numbers, and nobody else's.
LEMMA Ended ==
    ASSUME TxInv, NEW t \in Txs, End(t)
    PROVE  /\ lock' \in [Names -> Txs \cup {NoTx}] /\ tx' \in [Txs -> TxRecords] /\ next' = next
           /\ \A b \in Names : ~Free(b)' => tx'[lock'[b]].pc # "idle"
           /\ TxFits(t)' /\ SeqsApart'
           /\ \A u \in Txs \ {t} : tx'[u] = tx[u] /\ Held(u)' = Held(u)
<1>p. TxTypeOK /\ SeqsApart
    BY TxParts
<1>1. lock' = Released(t) /\ tx' = [tx EXCEPT ![t] = Idle] /\ next' = next
    BY DEF End
<1>2. tx' \in [Txs -> TxRecords] /\ tx'[t] = Idle /\ \A u \in Txs \ {t} : tx'[u] = tx[u]
    BY <1>1, <1>p, IdleFits DEF TxTypeOK
<1>3. lock' \in [Names -> Txs \cup {NoTx}] /\ \A b \in Names : lock'[b] = IF lock[b] = t THEN NoTx ELSE lock[b]
    BY <1>1, <1>p DEF TxTypeOK, Released
<1>4. \A u \in Txs \ {t} : Held(u)' = Held(u)
    BY <1>3, BranchTxAssumption DEF Held
<1>5. \A b \in Names : ~Free(b)' => tx'[lock'[b]].pc # "idle"
    BY <1>2, <1>3, <1>p DEF TxTypeOK, Free
<1>6. SeqsApart'
    <2> SUFFICES ASSUME NEW x \in Txs, NEW y \in Txs, x # y,
                        NEW p \in DOMAIN tx'[x].seqs, NEW q \in DOMAIN tx'[y].seqs
                 PROVE  tx'[x].seqs[p] # tx'[y].seqs[q]
        BY DEF SeqsApart
    <2>1. x # t /\ y # t
        BY <1>2, IdleFits
    <2> QED BY <1>2, <1>p, <2>1 DEF SeqsApart
<1> QED BY <1>1, <1>2, <1>3, <1>4, <1>5, <1>6, NoTxFits

\* A transaction that writes to no branch but those of W, which no other session
\* has locked or purges, and that uses its own numbers, disturbs nobody.
LEMMA Finished ==
    ASSUME TxInv, NEW t \in Txs, End(t), NEW W,
           \A d \in Names \ W : SameBranch(d),
           \A u \in Txs \ {t} : Held(u) \cap W = {},
           \A u \in Txs \ {t} : tx[u].op = "Purge" => SameClosed(tx[u].gone),
           \A n \in used' : n \in used \/ \E q \in DOMAIN tx[t].seqs : n = tx[t].seqs[q]
    PROVE  TxTypeOK' /\ TxsFit'
<1>p. TxTypeOK /\ SeqsApart /\ SeqsFit(t)
    BY TxParts
<1>1. \A n \in used' : n < next'
    BY <1>p, Ended DEF SeqsFit, TxTypeOK
<1>2. TxTypeOK'
    BY <1>p, <1>1, Ended DEF TxTypeOK
<1>3. ASSUME NEW u \in Txs \ {t}
      PROVE  TxFits(u)'
    <2>1. tx'[u] = tx[u] /\ Held(u)' = Held(u)
        BY Ended
    <2>2. \A d \in Held(u) : SameBranch(d)
        BY DEF Held
    <2>3. \A q \in DOMAIN tx[u].seqs : tx[u].seqs[q] < next' /\ tx[u].seqs[q] \notin used'
        <3>1. \A q \in DOMAIN tx[u].seqs : tx[u].seqs[q] < next /\ tx[u].seqs[q] \notin used
            BY TxParts DEF SeqsFit
        <3>2. \A q \in DOMAIN tx[u].seqs : \A x \in DOMAIN tx[t].seqs : tx[u].seqs[q] # tx[t].seqs[x]
            BY <1>p DEF SeqsApart
        <3> QED BY <3>1, <3>2, Ended
    <2>4. Undisturbed(u)
        BY <2>1, <2>2, <2>3 DEF Undisturbed
    <2> QED BY <2>4, OthersFit
<1> QED BY <1>2, <1>3, Ended DEF TxsFit

\* The step writes to the branches of W only.
WritesOnly(W) ==
    /\ \A d \in Names \ W : status'[d] = status[d] /\ head'[d] = head[d] /\ base'[d] = base[d] /\ draft'[d] = draft[d]
    /\ \A f \in file_commits' : f \in file_commits \/ f.branch \in W
    /\ \A f \in file_commits : f \in file_commits' \/ f.branch \in W
    /\ \A c \in commits' : c \in commits \/ c.branch \in W
    /\ \A c \in commits : c \in commits' \/ c.branch \in W

\* Branches that are not written to stay as they are.
LEMMA Unwritten ==
    ASSUME NEW W, WritesOnly(W)
    PROVE  /\ \A d \in Names \ W : SameBranch(d)
           /\ \A B \in SUBSET Names : B \cap W = {} => SameClosed(B)
<1>1. ASSUME NEW d \in Names \ W
      PROVE  SameBranch(d)
    BY DEF WritesOnly, SameBranch
<1>2. ASSUME NEW B \in SUBSET Names, B \cap W = {}
      PROVE  SameClosed(B)
    BY <1>2 DEF WritesOnly, SameClosed
<1> QED BY <1>1, <1>2

\* Only Purge locks a closed branch.
LEMMA HeldIsOpen ==
    ASSUME TxInv, NEW u \in Txs, tx[u].op # "Purge", NEW d \in Held(u)
    PROVE  d \notin Terminal
<1>p. /\ LocksFit(u) /\ TxTypeOK /\ tx[u] \in TxRecords /\ (tx[u].op = "none" <=> tx[u].pc = "idle")
      /\ Main \notin Branches
    BY TxParts, BranchStoreAssumption
<1>1. d \in Names /\ lock[d] = u
    BY DEF Held
<1>2. tx[u].pc # "idle"
    BY <1>1, <1>p, BranchTxAssumption DEF TxTypeOK, Free
<1>3. tx[u].op \in WriteOps
    BY <1>2, <1>p, TxFields
<1>4. d = Main \/ (d = tx[u].b /\ status[d] = "active")
    BY <1>3, <1>p DEF LocksFit, Rows
<1> QED BY <1>4, <1>p DEF Terminal

\* A write of branches that are open or absent, under locks or by the insert of
\* a free name, leaves the other sessions and a running purge alone.
LEMMA WriteEnds ==
    ASSUME TxInv, NEW t \in Txs, End(t), NEW W, WritesOnly(W),
           \A d \in W : d \in Held(t) \/ Free(d),
           \A d \in W : d \notin Terminal,
           \A n \in used' : n \in used \/ \E q \in DOMAIN tx[t].seqs : n = tx[t].seqs[q]
    PROVE  TxTypeOK' /\ TxsFit'
<1>1. \A d \in Names \ W : SameBranch(d)
    BY Unwritten
<1>2. ASSUME NEW u \in Txs \ {t}
      PROVE  Held(u) \cap W = {}
    BY BranchTxAssumption DEF Held, Free
<1>3. ASSUME NEW u \in Txs \ {t}, tx[u].op = "Purge"
      PROVE  SameClosed(tx[u].gone)
    <2>1. tx[u].gone \subseteq Terminal
        BY <1>3, TxParts DEF PurgeFits
    <2>2. tx[u].gone \in SUBSET Names /\ tx[u].gone \cap W = {}
        BY <2>1 DEF Terminal, Names
    <2> QED BY <2>2, Unwritten
<1> QED BY <1>1, <1>2, <1>3, Finished

\* FinishCommit.
LEMMA CommitFits ==
    ASSUME TxInv, NEW t \in Txs, FinishCommit(t)
    PROVE  TxTypeOK' /\ TxsFit'
<1>1. PICK b, s : b = tx[t].b /\ s = tx[t].seqs[0]
    OBVIOUS
<1>2. Ready(t, "Commit") /\ "Commit" \in WriteOps /\ End(t)
    BY DEF FinishCommit, WriteOps
<1>3. b \in Held(t) /\ status[b] = "active" /\ 0 \in DOMAIN tx[t].seqs
    BY <1>1, <1>2, ReadyHolds, ReadySeq
<1>4. \A f \in file_commits' : f \in file_commits \/ f.branch = b
    BY <1>1 DEF FinishCommit
<1>5. \A c \in commits' : c \in commits \/ c.branch = b
    BY <1>1 DEF FinishCommit, CommitRow
<1>6. WritesOnly({b})
    BY <1>1, <1>4, <1>5, TxParts DEF FinishCommit, WritesOnly, TypeOK
<1>7. b \notin Terminal
    BY <1>3 DEF Terminal
<1>8. \A n \in used' : n \in used \/ \E q \in DOMAIN tx[t].seqs : n = tx[t].seqs[q]
    BY <1>1, <1>3 DEF FinishCommit
<1> QED BY <1>2, <1>3, <1>6, <1>7, <1>8, WriteEnds

\* FinishCreateBranch.
LEMMA CreateFits ==
    ASSUME TxInv, NEW t \in Txs, NEW x \in BOOLEAN, FinishCreateBranch(t, x)
    PROVE  TxTypeOK' /\ TxsFit'
<1>1. PICK b : b = tx[t].b
    OBVIOUS
<1>2. End(t) /\ Free(b) /\ status[b] = "absent" /\ used' = used
    BY <1>1 DEF FinishCreateBranch, Exists
<1>3. WritesOnly({b})
    BY <1>1, TxParts DEF FinishCreateBranch, WritesOnly, TypeOK
<1>4. b \notin Terminal
    BY <1>2 DEF Terminal
<1> QED BY <1>2, <1>3, <1>4, WriteEnds

\* FinishDeleteBranch.
LEMMA DeleteFits ==
    ASSUME TxInv, NEW t \in Txs, FinishDeleteBranch(t)
    PROVE  TxTypeOK' /\ TxsFit'
<1>1. PICK b : b = tx[t].b
    OBVIOUS
<1>2. Ready(t, "DeleteBranch") /\ "DeleteBranch" \in WriteOps /\ End(t) /\ used' = used
    BY DEF FinishDeleteBranch, WriteOps
<1>3. b \in Held(t) /\ status[b] = "active"
    BY <1>1, <1>2, ReadyHolds
<1>4. WritesOnly({b})
    BY <1>1, TxParts DEF FinishDeleteBranch, WritesOnly, TypeOK
<1>5. b \notin Terminal
    BY <1>3 DEF Terminal
<1> QED BY <1>2, <1>3, <1>4, <1>5, WriteEnds

\* FinishMerge.
LEMMA MergeFits ==
    ASSUME TxInv, NEW t \in Txs, FinishMerge(t)
    PROVE  TxTypeOK' /\ TxsFit'
<1>1. PICK b, s : b = tx[t].b /\ s = tx[t].seqs[0]
    OBVIOUS
<1>2. Ready(t, "Merge") /\ "Merge" \in WriteOps /\ End(t)
    BY DEF FinishMerge, WriteOps
<1>3. b \in Held(t) /\ status[b] = "active" /\ Main \in Held(t)
    BY <1>1, <1>2, ReadyHolds
<1>4. b \notin Terminal /\ Main \notin Terminal
    BY <1>3, BranchStoreAssumption DEF Terminal
<1>5. CASE tx[t].changes = {}
    <2>1. used' = used
        BY <1>5 DEF FinishMerge
    <2>2. /\ UNCHANGED <<head, commits, file_commits>> /\ UNCHANGED <<base, draft>>
          /\ status' = [status EXCEPT ![b] = "merged"]
        BY <1>1, <1>5 DEF FinishMerge
    <2>3. WritesOnly({b, Main})
        BY <2>2, TxParts DEF WritesOnly, TypeOK
    <2> QED BY <1>2, <1>3, <1>4, <2>1, <2>3, WriteEnds
<1>6. CASE tx[t].changes # {}
    <2>1. 0 \in DOMAIN tx[t].seqs
        BY <1>2, <1>6, ReadySeq
    <2>2. /\ UNCHANGED <<base, draft>> /\ status' = [status EXCEPT ![b] = "merged"]
          /\ head' = [head EXCEPT ![Main] = s] /\ used' = used \cup {s}
        BY <1>1, <1>6 DEF FinishMerge
    <2>3. \A f \in file_commits' : f \in file_commits \/ f.branch = Main
        <3>1. tx[t].changes \subseteq FileRows
            BY TxParts, TxFields
        <3>2. \A f \in FileRows : [f EXCEPT !.seq = s, !.branch = Main].branch = Main
            BY DEF FileRows
        <3>3. file_commits' = file_commits \cup
                  {[f EXCEPT !.seq = s, !.branch = Main] : f \in tx[t].changes}
            BY <1>1, <1>6 DEF FinishMerge
        <3> QED BY <3>1, <3>2, <3>3
    <2>4. \A f \in file_commits : f \in file_commits'
        BY <1>6 DEF FinishMerge
    <2>5. /\ \A c \in commits' : c \in commits \/ c.branch = Main
          /\ \A c \in commits : c \in commits'
        <3>1. commits' = commits \cup {CommitRow(commits, s, Main, tx[t].author)}
            BY <1>1, <1>6 DEF FinishMerge
        <3>2. CommitRow(commits, s, Main, tx[t].author).branch = Main
            BY DEF CommitRow
        <3> QED BY <3>1, <3>2
    <2>6. WritesOnly({b, Main})
        BY <2>2, <2>3, <2>4, <2>5, TxParts DEF WritesOnly, TypeOK
    <2>7. \A n \in used' : n \in used \/ \E q \in DOMAIN tx[t].seqs : n = tx[t].seqs[q]
        BY <1>1, <2>1, <2>2
    <2> QED BY <1>2, <1>3, <1>4, <2>6, <2>7, WriteEnds
<1> QED BY <1>5, <1>6

\* FinishRebase.
LEMMA RebaseFits ==
    ASSUME TxInv, NEW t \in Txs, FinishRebase(t)
    PROVE  TxTypeOK' /\ TxsFit'
<1>1. PICK b, r : b = tx[t].b /\ r = tx[t].seqs
    OBVIOUS
<1> DEFINE new == {r[q] : q \in DOMAIN r}
<1>2. Ready(t, "Rebase") /\ "Rebase" \in WriteOps /\ End(t)
    BY DEF FinishRebase, WriteOps
<1>3. b \in Held(t) /\ status[b] = "active"
    BY <1>1, <1>2, ReadyHolds
<1>4. b \notin Terminal
    BY <1>3 DEF Terminal
<1>5. \A d \in Names \ {b} : status'[d] = status[d] /\ head'[d] = head[d] /\ base'[d] = base[d] /\ draft'[d] = draft[d]
    <2>1. PICK h, k : head' = [head EXCEPT ![b] = h] /\ base' = [base EXCEPT ![b] = k] /\ UNCHANGED <<status, draft>>
        BY <1>1 DEF FinishRebase
    <2> QED BY <2>1, TxParts DEF TypeOK
<1>6. (\A f \in file_commits' : f \in file_commits \/ f.branch = b) /\ \A f \in file_commits : f \in file_commits'
    <2>1. file_commits' = file_commits \cup {[f EXCEPT !.seq = r[f.seq]] : f \in tx[t].groups}
        BY <1>1 DEF FinishRebase
    <2>2. tx[t].groups \subseteq FileRows
        BY TxParts, TxFields
    <2>3. \A f \in tx[t].groups : f.branch = b
        BY <1>1, <1>2, TxParts DEF ReadsFit, RowsSince, Ready
    <2>4. \A f \in FileRows : [f EXCEPT !.seq = r[f.seq]].branch = f.branch
        BY DEF FileRows
    <2> QED BY <2>1, <2>2, <2>3, <2>4
<1>7. (\A c \in commits' : c \in commits \/ c.branch = b) /\ \A c \in commits : c \in commits'
    <2> DEFINE row(n) == [seq |-> n, branch |-> b, author |-> tx[t].author,
                          prev |-> NewestBelow(BranchSeqs(commits, b) \cup new, n)]
    <2>1. commits' = commits \cup {row(n) : n \in new}
        BY <1>1 DEF FinishRebase
    <2>2. \A n : row(n).branch = b
        OBVIOUS
    <2> HIDE DEF row, new
    <2> QED BY <2>1, <2>2
<1>8. WritesOnly({b})
    BY <1>5, <1>6, <1>7 DEF WritesOnly
<1>9. \A n \in used' : n \in used \/ \E q \in DOMAIN tx[t].seqs : n = tx[t].seqs[q]
    BY <1>1 DEF FinishRebase
<1> QED BY <1>2, <1>3, <1>4, <1>8, <1>9, WriteEnds

\* One session purges at a time.
OnePurger == \A t, u \in Purgers : t = u

\* FinishPurge: nobody else holds a closed branch.
LEMMA PurgeEndFits ==
    ASSUME OnePurger, TxInv, NEW t \in Txs, FinishPurge(t)
    PROVE  TxTypeOK' /\ TxsFit'
<1>1. PICK gone : gone = tx[t].gone
    OBVIOUS
<1>2. tx[t].op = "Purge" /\ tx[t].pc = "finish" /\ End(t) /\ used' = used
    BY DEF FinishPurge, Ready
<1>3. /\ gone \subseteq Terminal /\ t \in Purgers
      /\ tx[t].rows = {f \in file_commits : f.branch \in gone}
      /\ tx[t].oldCommits = {c \in commits : c.branch \in gone}
    BY <1>1, <1>2, TxParts DEF PurgeFits
<1>4. WritesOnly(gone)
    BY <1>1, <1>3 DEF FinishPurge, WritesOnly
<1>5. \A u \in Txs \ {t} : tx[u].op # "Purge"
    BY <1>3, TxParts DEF PurgeFits, OnePurger
<1>6. \A u \in Txs \ {t} : Held(u) \cap gone = {}
    BY <1>3, <1>5, HeldIsOpen
<1>7. \A d \in Names \ gone : SameBranch(d)
    BY <1>4, Unwritten
<1> QED BY <1>2, <1>5, <1>6, <1>7, Finished

-----------------------------------------------------------------------------
(* Statements before the end of a transaction.                             *)

\* The tables are as they were; the session has another record, perhaps one more
\* lock or number.
Proceeds(t, y) ==
    /\ UNCHANGED vars
    /\ tx' = [tx EXCEPT ![t] = y] /\ y \in TxRecords /\ y.pc # "idle"
    /\ lock' \in [Names -> Txs \cup {NoTx}]
    /\ \A d \in Names : lock'[d] = lock[d] \/ (lock[d] = NoTx /\ lock'[d] = t)
    /\ next' \in Nat /\ next <= next'
    /\ \A q \in DOMAIN y.seqs : (q \in DOMAIN tx[t].seqs /\ y.seqs[q] = tx[t].seqs[q]) \/ y.seqs[q] = next

\* A statement disturbs nobody else.
LEMMA StatementFits ==
    ASSUME TxInv, NEW t \in Txs, NEW y, Proceeds(t, y), TxFits(t)'
    PROVE  TxTypeOK' /\ TxsFit'
<1>p. TxTypeOK /\ SeqsApart /\ TypeOK
    BY TxParts
<1>1. /\ tx' \in [Txs -> TxRecords] /\ tx'[t] = y /\ \A u \in Txs \ {t} : tx'[u] = tx[u]
    BY <1>p DEF Proceeds, TxTypeOK
<1>2. \A u \in Txs \ {t} : Held(u)' = Held(u)
    BY BranchTxAssumption DEF Proceeds, Held
<1>3. \A d \in Names : ~Free(d)' => tx'[lock'[d]].pc # "idle"
    <2> SUFFICES ASSUME NEW d \in Names, ~Free(d)' PROVE tx'[lock'[d]].pc # "idle"
        OBVIOUS
    <2>1. CASE lock'[d] = t
        BY <2>1, <1>1 DEF Proceeds
    <2>2. CASE lock'[d] # t
        <3>1. lock'[d] = lock[d] /\ ~Free(d) /\ lock[d] \in Txs \ {t}
            BY <2>2, <1>p DEF Proceeds, Free, TxTypeOK
        <3> QED BY <3>1, <1>1, <1>p DEF TxTypeOK
    <2> QED BY <2>1, <2>2
<1>4. next \in Nat /\ next' \in Nat /\ next <= next' /\ used' = used /\ used \subseteq Nat
    BY <1>p, BranchStoreAssumption DEF TxTypeOK, Proceeds, vars, TypeOK
<1>5. \A n \in used' : n < next'
    BY <1>p, <1>4 DEF TxTypeOK
<1>6. TxTypeOK'
    BY <1>1, <1>3, <1>4, <1>5 DEF TxTypeOK, Proceeds
<1>n. ASSUME NEW u \in Txs, NEW q \in DOMAIN tx[u].seqs
      PROVE  tx[u].seqs[q] \in Nat /\ tx[u].seqs[q] < next /\ tx[u].seqs[q] < next' /\ tx[u].seqs[q] \notin used'
    <2>1. tx[u].seqs \in Allotments /\ SeqsFit(u)
        BY TxParts, TxFields
    <2>2. tx[u].seqs[q] \in Nat
        BY <2>1, AllotmentType
    <2> QED BY <2>1, <2>2, <1>4 DEF SeqsFit
<1>7. ASSUME NEW u \in Txs \ {t}
      PROVE  TxFits(u)'
    <2>1. tx'[u] = tx[u] /\ Held(u)' = Held(u)
        BY <1>1, <1>2
    <2>2. /\ \A d : SameBranch(d)
          /\ SameClosed(tx[u].gone)
        BY DEF Proceeds, vars, SameBranch, SameClosed
    <2>3. Undisturbed(u)
        BY <1>n, <2>1, <2>2 DEF Undisturbed
    <2> QED BY <2>3, OthersFit
<1>8. SeqsApart'
    <2>1. ASSUME NEW u \in Txs \ {t}, NEW p \in DOMAIN y.seqs, NEW q \in DOMAIN tx[u].seqs
          PROVE  y.seqs[p] # tx[u].seqs[q]
        BY <1>n, <1>4, <1>p DEF Proceeds, SeqsApart
    <2> QED BY <1>1, <1>p, <2>1 DEF SeqsApart
<1> QED BY <1>6, <1>7, <1>8 DEF TxsFit

\* An idle session holds no lock.
LEMMA IdleHoldsNothing ==
    ASSUME TxInv, NEW t \in Txs, tx[t].pc = "idle"
    PROVE  Held(t) = {}
BY TxParts, BranchTxAssumption DEF Held, TxTypeOK, Free

\* A transaction begins with nothing locked and nothing read.
LEMMA BeginFits ==
    ASSUME TxInv, NEW t \in Txs, NEW op \in WriteOps, NEW b \in Names, NEW files \in Patches \cup {NoPatch},
           NEW a \in Authors, op = "Commit" => files \in Patches, op # "Commit" => b \in Branches,
           BeginTx(t, op, b, files, a)
    PROVE  TxTypeOK' /\ TxsFit'
<1>1. PICK y : y = [Idle EXCEPT !.op = op, !.b = b, !.files = files, !.author = a, !.pc = "lock"]
    OBVIOUS
<1>2. /\ y.op = op /\ y.b = b /\ y.files = files /\ y.author = a /\ y.pc = "lock"
      /\ y.seqs = Idle.seqs /\ y.groups = {} /\ y.changes = {}
    BY <1>1 DEF Idle
<1>3. y \in TxRecords
    BY <1>1, IdleFits DEF TxRecords, Labels
<1>4. DOMAIN y.seqs = {}
    BY <1>2, IdleFits
<1>p. TxTypeOK
    BY TxParts
<1>5. Proceeds(t, y)
    BY <1>1, <1>2, <1>3, <1>4, <1>p DEF BeginTx, Proceeds, TxTypeOK
<1>6. tx'[t] = y /\ Held(t)' = {}
    BY <1>p, <1>5, IdleHoldsNothing DEF BeginTx, Proceeds, TxTypeOK, Held
<1>7. Rows(t)' # {}
    BY <1>2, <1>6 DEF Rows
<1>8. LocksFit(t)'
    BY <1>2, <1>6, <1>7 DEF LocksFit
<1>9. ReadsFit(t)' /\ SeqsFit(t)' /\ PurgeFits(t)' /\ tx'[t].op # "none" /\ tx'[t].pc # "idle"
    BY <1>2, <1>4, <1>6 DEF ReadsFit, SeqsFit, PurgeFits, WriteOps
<1>10. TxFits(t)'
    BY <1>8, <1>9 DEF TxFits
<1> QED BY <1>5, <1>10, StatementFits

\* What a session that locks its next row has locked before, and what it finds.
LEMMA NextRowIs ==
    ASSUME TxInv, NEW t \in Txs, tx[t].pc = "lock"
    PROVE  /\ tx[t].op \in WriteOps /\ NextRow(t) \in Rows(t) \ Held(t) /\ NextRow(t) \in Names
           /\ Rows(t) \subseteq {Main, tx[t].b}
           /\ NextRow(t) = tx[t].b => tx[t].op # "CreateBranch"
<1>p. /\ LocksFit(t) /\ PurgeFits(t) /\ tx[t] \in TxRecords /\ (tx[t].op = "none" <=> tx[t].pc = "idle")
      /\ Main \in Names /\ \A b \in Branches : b # Main
    BY TxParts
<1>1. tx[t].op \in WriteOps
    BY <1>p, TxFields DEF PurgeFits
<1>2. ~(Rows(t) \subseteq Held(t)) /\ Rows(t) \subseteq {Main, tx[t].b} /\ tx[t].b \in Names
    BY <1>1, <1>p, TxFields DEF LocksFit, Rows
<1>3. NextRow(t) \in Rows(t) \ Held(t)
    BY <1>2 DEF NextRow
<1>4. tx[t].op = "CreateBranch" => tx[t].b # Main /\ Rows(t) = {Main}
    BY <1>1, <1>p DEF LocksFit, Rows
<1> QED BY <1>1, <1>2, <1>3, <1>4, <1>p

\* SELECT ... FOR UPDATE reads the row it has locked.
LEMMA LockFits ==
    ASSUME TxInv, NEW t \in Txs, Lock(t)
    PROVE  TxTypeOK' /\ TxsFit'
<1>1. PICK x, m, k, l : /\ x = NextRow(t)
                        /\ m = IF x = Main THEN head[Main] ELSE tx[t].mainHead
                        /\ k = IF x = tx[t].b THEN base[x] ELSE tx[t].base
                        /\ l = AfterLock(t, x)
    OBVIOUS
<1>2. PICK y : y = [tx[t] EXCEPT !.mainHead = m, !.base = k, !.pc = l]
    OBVIOUS
<1>p. /\ TypeOK /\ TxTypeOK /\ LocksFit(t) /\ ReadsFit(t) /\ SeqsFit(t) /\ PurgeFits(t) /\ tx[t] \in TxRecords
      /\ Main \in Names
    BY TxParts
<1>3. tx[t].pc = "lock" /\ Free(x) /\ ~Refused(t) /\ lock' = [lock EXCEPT ![x] = t] /\ UNCHANGED vars /\ next' = next
    BY <1>1 DEF Lock
<1>4. tx' = [tx EXCEPT ![t] = y]
    BY <1>1, <1>2 DEF Lock
<1>5. /\ tx[t].op \in WriteOps /\ x \in Rows(t) \ Held(t) /\ x \in Names /\ Rows(t) \subseteq {Main, tx[t].b}
      /\ x = tx[t].b => tx[t].op # "CreateBranch"
    BY <1>1, <1>3, NextRowIs
<1>l. /\ l = "lock" <=> Rows(t) \ Held(t) # {x}
      /\ l = "alloc" => tx[t].op = "Commit"
      /\ l = "finish" => tx[t].op \in {"CreateBranch", "DeleteBranch"}
      /\ l = "readBranch" => tx[t].op \notin {"Commit", "CreateBranch", "DeleteBranch"}
      /\ l \in {"lock", "alloc", "finish", "readBranch"}
    BY <1>1, <1>5 DEF AfterLock, WriteOps
<1>6. /\ y.op = tx[t].op /\ y.b = tx[t].b /\ y.files = tx[t].files /\ y.author = tx[t].author
      /\ y.groups = tx[t].groups /\ y.seqs = tx[t].seqs /\ y.changes = tx[t].changes /\ y.gone = tx[t].gone
      /\ y.pc = l /\ y.mainHead = m /\ y.base = k
    BY <1>2, <1>p DEF TxRecords
<1>7. m \in Nat /\ k \in Nat
    BY <1>1, <1>5, <1>p, NumberTypes, TxFields
<1>8. l \in {"lock", "alloc", "finish", "readBranch"}
    BY <1>l
<1>9. y \in TxRecords
    BY <1>2, <1>7, <1>8, <1>p DEF TxRecords, Labels
<1>10. DOMAIN y.seqs = {} /\ y.pc # "idle"
    BY <1>3, <1>6, <1>8, <1>p DEF SeqsFit
<1>11. Proceeds(t, y)
    <2>1. lock' \in [Names -> Txs \cup {NoTx}] /\ \A d \in Names : lock'[d] = lock[d] \/ (lock[d] = NoTx /\ lock'[d] = t)
        BY <1>3, <1>5, <1>p DEF TxTypeOK, Free
    <2> QED BY <1>3, <1>4, <1>9, <1>10, <1>p, <2>1 DEF Proceeds, TxTypeOK
<1>12. tx'[t] = y /\ Held(t)' = Held(t) \cup {x}
    <2>1. lock'[x] = t /\ \A d \in Names : d # x => lock'[d] = lock[d]
        BY <1>3, <1>5, <1>p DEF TxTypeOK
    <2> QED BY <1>4, <1>5, <1>p, <2>1 DEF TxTypeOK, Held
<1>13. Rows(t)' = Rows(t)
    BY <1>6, <1>12 DEF Rows
<1>14. l = "lock" <=> ~(Rows(t) \subseteq Held(t) \cup {x})
    BY <1>l, <1>5
<1>15. LocksFit(t)'
    <2>1. (tx[t].b \in Held(t) \cup {x}) =>
              /\ status[tx[t].b] = "active" /\ k = base[tx[t].b]
              /\ tx[t].op = "Merge" => ~draft[tx[t].b]
        <3>1. CASE x = tx[t].b
            BY <3>1, <1>1, <1>3, <1>5 DEF Refused
        <3>2. CASE x # tx[t].b
            BY <3>2, <1>1, <1>5, <1>p DEF LocksFit
        <3> QED BY <3>1, <3>2
    <2>2. Main \in Held(t) \cup {x} => m = head[Main]
        BY <1>1, <1>5, <1>p DEF LocksFit
    <2>3. UNCHANGED <<status, base, draft, head>>
        BY <1>3 DEF vars
    <2>4. Held(t) \cup {x} \subseteq Rows(t)
        BY <1>5, <1>p DEF LocksFit
    <2>5. /\ tx[t].author \in Authors
          /\ IF tx[t].op = "Commit" THEN tx[t].files \in Patches ELSE tx[t].b \in Branches
        BY <1>5, <1>p DEF LocksFit
    <2> QED BY <1>5, <1>6, <1>8, <1>12, <1>13, <1>14, <2>1, <2>2, <2>3, <2>4, <2>5 DEF LocksFit
<1>16. ReadsFit(t)'
    <2>1. CASE tx[t].op \in {"Merge", "Rebase"}
        <3>1. l \in {"lock", "readBranch"}
            BY <1>l, <2>1
        <3>2. tx[t].groups = {}
            BY <1>3, <1>p, <2>1 DEF ReadsFit
        <3> QED BY <1>6, <1>10, <1>12, <2>1, <3>1, <3>2 DEF ReadsFit
    <2>2. CASE tx[t].op \notin {"Merge", "Rebase"}
        <3>1. l # "readBranch" /\ (l = "alloc" => tx[t].op = "Commit")
            BY <1>l, <1>5, <2>2 DEF WriteOps
        <3> QED BY <1>6, <1>8, <1>12, <2>2, <3>1 DEF ReadsFit
    <2> QED BY <2>1, <2>2
<1>17. SeqsFit(t)'
    <2>1. l = "finish" => tx[t].op \in {"CreateBranch", "DeleteBranch"}
        BY <1>l
    <2> QED BY <1>6, <1>10, <1>12, <2>1 DEF SeqsFit
<1>18. PurgeFits(t)' /\ tx'[t].op # "none" /\ tx'[t].pc # "idle"
    BY <1>5, <1>6, <1>8, <1>12 DEF PurgeFits, WriteOps
<1>19. TxFits(t)'
    BY <1>15, <1>16, <1>17, <1>18 DEF TxFits
<1> QED BY <1>11, <1>19, StatementFits

\* A statement that takes no lock leaves the session with what it has locked.
LEMMA SameLocks ==
    ASSUME TxInv, NEW t \in Txs, NEW y, tx'[t] = y, lock' = lock, UNCHANGED vars,
           y.op = tx[t].op, y.b = tx[t].b, y.files = tx[t].files, y.author = tx[t].author,
           y.base = tx[t].base, y.mainHead = tx[t].mainHead,
           tx[t].pc # "lock", y.pc \in {"readMain", "alloc", "finish"}
    PROVE  LocksFit(t)' /\ Held(t)' = Held(t) /\ Rows(t)' = Rows(t)
<1>1. LocksFit(t)
    BY TxParts
<1>2. Held(t)' = Held(t)
    BY DEF Held
<1>3. Rows(t)' = Rows(t)
    BY DEF Rows
<1>4. UNCHANGED <<status, base, draft, head>>
    BY DEF vars
<1> QED BY <1>1, <1>2, <1>3, <1>4 DEF LocksFit

\* Whoever reads is a merge or a rebase that holds its rows and has no numbers.
LEMMA ReaderIs ==
    ASSUME TxInv, NEW t \in Txs, tx[t].pc \in {"readBranch", "readMain"}
    PROVE  /\ tx[t].op \in {"Merge", "Rebase"} /\ tx[t].op \in WriteOps
           /\ tx[t].groups = {} /\ DOMAIN tx[t].seqs = {}
           /\ tx[t].pc = "readMain" => /\ tx[t].changes # {}
                                       /\ tx[t].changes = latestChanges(tx[t].b, tx[t].base)
<1>1. ReadsFit(t)
    BY TxParts
<1>2. tx[t].op \in {"Merge", "Rebase"}
    BY <1>1 DEF ReadsFit
<1>3. tx[t].op \in WriteOps
    BY <1>2 DEF WriteOps
<1> QED BY <1>1, <1>2, <1>3 DEF ReadsFit

\* The query for the latest changes of the branch.
LEMMA ReadBranchFits ==
    ASSUME TxInv, NEW t \in Txs, ReadBranch(t)
    PROVE  TxTypeOK' /\ TxsFit'
<1>1. PICK found, l : /\ found = latestChanges(tx[t].b, tx[t].base)
                      /\ l = IF found = {} THEN "finish" ELSE "readMain"
    OBVIOUS
<1>2. PICK y : y = [tx[t] EXCEPT !.changes = found, !.pc = l]
    OBVIOUS
<1>p. /\ TypeOK /\ TxTypeOK /\ tx[t] \in TxRecords
    BY TxParts
<1>3. tx[t].pc = "readBranch" /\ UNCHANGED <<vars, lock, next>>
    BY DEF ReadBranch
<1>4. tx' = [tx EXCEPT ![t] = y] /\ tx'[t] = y
    BY <1>1, <1>2, <1>p DEF ReadBranch, TxTypeOK
<1>5. /\ y.op = tx[t].op /\ y.b = tx[t].b /\ y.files = tx[t].files /\ y.author = tx[t].author
      /\ y.groups = tx[t].groups /\ y.seqs = tx[t].seqs /\ y.changes = found
      /\ y.pc = l /\ y.mainHead = tx[t].mainHead /\ y.base = tx[t].base
    BY <1>2, <1>p DEF TxRecords
<1>6. found \in SUBSET FileRows
    BY <1>1, <1>p DEF latestChanges, DistinctOn, RowsSince, TypeOK
<1>7. y \in TxRecords /\ y.pc # "idle" /\ y.pc \in {"readMain", "finish"}
    BY <1>1, <1>2, <1>5, <1>6, <1>p DEF TxRecords, Labels
<1>8. tx[t].op \in {"Merge", "Rebase"} /\ tx[t].op \in WriteOps /\ tx[t].groups = {} /\ DOMAIN tx[t].seqs = {}
    BY <1>3, ReaderIs
<1>9. Proceeds(t, y)
    BY <1>3, <1>4, <1>5, <1>7, <1>8, <1>p DEF Proceeds, TxTypeOK
<1>10. LocksFit(t)'
    BY <1>3, <1>4, <1>5, <1>7, SameLocks
<1>11. ReadsFit(t)'
    <2>1. latestChanges(tx[t].b, tx[t].base)' = found
        BY <1>1, <1>3, <1>4, <1>5 DEF latestChanges, RowsSince, vars
    <2> QED BY <1>1, <1>4, <1>5, <1>7, <1>8, <2>1 DEF ReadsFit
<1>12. SeqsFit(t)' /\ PurgeFits(t)' /\ tx'[t].op # "none" /\ tx'[t].pc # "idle"
    BY <1>1, <1>4, <1>5, <1>7, <1>8 DEF SeqsFit, PurgeFits, Groups, Waiting
<1>13. TxFits(t)'
    BY <1>10, <1>11, <1>12 DEF TxFits
<1> QED BY <1>9, <1>13, StatementFits

\* The query for the changes of main, and for the commits to replay.
LEMMA ReadMainFits ==
    ASSUME TxInv, NEW t \in Txs, ReadMain(t)
    PROVE  TxTypeOK' /\ TxsFit'
<1>1. PICK rows : rows = RowsSince(tx[t].b, tx[t].base)
    OBVIOUS
<1>2. PICK y : y = [tx[t] EXCEPT !.groups = rows, !.pc = "alloc"]
    OBVIOUS
<1>p. /\ TypeOK /\ TxTypeOK /\ tx[t] \in TxRecords
    BY TxParts
<1>3. tx[t].pc = "readMain" /\ ConflictsWith(t) = {} /\ UNCHANGED <<vars, lock, next>>
    BY DEF ReadMain
<1>4. tx' = [tx EXCEPT ![t] = y] /\ tx'[t] = y
    BY <1>1, <1>2, <1>p DEF ReadMain, TxTypeOK
<1>5. /\ y.op = tx[t].op /\ y.b = tx[t].b /\ y.files = tx[t].files /\ y.author = tx[t].author
      /\ y.groups = rows /\ y.seqs = tx[t].seqs /\ y.changes = tx[t].changes
      /\ y.pc = "alloc" /\ y.mainHead = tx[t].mainHead /\ y.base = tx[t].base
    BY <1>2, <1>p DEF TxRecords
<1>6. rows \in SUBSET FileRows
    BY <1>1, <1>p DEF RowsSince, TypeOK
<1>7. y \in TxRecords /\ y.pc # "idle"
    BY <1>2, <1>5, <1>6, <1>p DEF TxRecords, Labels
<1>8. /\ tx[t].op \in {"Merge", "Rebase"} /\ tx[t].op \in WriteOps /\ DOMAIN tx[t].seqs = {}
      /\ tx[t].changes # {} /\ tx[t].changes = latestChanges(tx[t].b, tx[t].base)
    BY <1>3, ReaderIs
<1>9. Proceeds(t, y)
    BY <1>3, <1>4, <1>5, <1>7, <1>8, <1>p DEF Proceeds, TxTypeOK
<1>10. LocksFit(t)'
    BY <1>3, <1>4, <1>5, <1>7, SameLocks
<1>11. ReadsFit(t)'
    <2>1. /\ latestChanges(tx[t].b, tx[t].base)' = tx[t].changes
          /\ RowsSince(tx[t].b, tx[t].base)' = rows
        BY <1>1, <1>3, <1>4, <1>5, <1>8 DEF latestChanges, RowsSince, vars
    <2>2. ConflictsWith(t)' = {}
        BY <1>3, <1>4, <1>5 DEF ConflictsWith, ChangedPaths, RowsSince, vars
    <2> QED BY <1>4, <1>5, <1>8, <2>1, <2>2 DEF ReadsFit
<1>12. SeqsFit(t)' /\ PurgeFits(t)' /\ tx'[t].op # "none" /\ tx'[t].pc # "idle"
    BY <1>4, <1>5, <1>8 DEF SeqsFit, PurgeFits, Groups, Waiting
<1>13. TxFits(t)'
    BY <1>10, <1>11, <1>12 DEF TxFits
<1> QED BY <1>9, <1>13, StatementFits

\* INSERT INTO commits takes the next number for the oldest waiting commit.
LEMMA AllocateFits ==
    ASSUME TxInv, NEW t \in Txs, Allocate(t)
    PROVE  TxTypeOK' /\ TxsFit'
<1>p. /\ TypeOK /\ TxTypeOK /\ LocksFit(t) /\ ReadsFit(t) /\ SeqsFit(t) /\ PurgeFits(t) /\ tx[t] \in TxRecords
      /\ tx[t].op = "none" <=> tx[t].pc = "idle"
    BY TxParts
<1>1. tx[t].pc = "alloc" /\ next \in SeqNos /\ next' = next + 1 /\ UNCHANGED <<vars, lock>>
    BY DEF Allocate
<1>2. PICK r, W : r = tx[t].seqs /\ W = Waiting(t)
    OBVIOUS
<1>3. PICK g \in W :
          /\ \A h \in W : g <= h
          /\ tx' = [tx EXCEPT ![t].seqs = [q \in DOMAIN @ \cup {g} |-> IF q = g THEN next ELSE @[q]],
                              ![t].pc = IF W = {g} THEN "finish" ELSE "alloc"]
    BY <1>2 DEF Allocate
<1>4. PICK s, l : /\ s = [q \in DOMAIN r \cup {g} |-> IF q = g THEN next ELSE r[q]]
                  /\ l = IF W = {g} THEN "finish" ELSE "alloc"
    OBVIOUS
<1>5. PICK y : y = [tx[t] EXCEPT !.seqs = s, !.pc = l]
    OBVIOUS
<1>6. tx' = [tx EXCEPT ![t] = y] /\ tx'[t] = y
    BY <1>2, <1>3, <1>4, <1>5, <1>p DEF TxTypeOK
<1>7. /\ y.op = tx[t].op /\ y.b = tx[t].b /\ y.files = tx[t].files /\ y.author = tx[t].author
      /\ y.groups = tx[t].groups /\ y.seqs = s /\ y.changes = tx[t].changes
      /\ y.pc = l /\ y.mainHead = tx[t].mainHead /\ y.base = tx[t].base
    BY <1>5, <1>p DEF TxRecords
<1>8. tx[t].op \in {"Commit", "Merge", "Rebase"} /\ tx[t].op \in WriteOps
    BY <1>1, <1>p DEF ReadsFit, WriteOps
<1>9. r \in Allotments /\ tx[t].groups \subseteq FileRows
    BY <1>2, <1>p, TxFields
<1>10. /\ DOMAIN r \subseteq SeqNos \cup {0} /\ \A q \in DOMAIN r : r[q] \in SeqNos /\ r[q] \in Nat /\ q \in Nat
    BY <1>9, AllotmentType
<1>11. Groups(t) \subseteq SeqNos \cup {0} /\ \A h \in Groups(t) : h \in Nat
    <2>1. \A f \in tx[t].groups : f.seq \in SeqNos
        BY <1>9 DEF FileRows
    <2>2. Groups(t) \subseteq SeqNos \cup {0}
        BY <2>1 DEF Groups
    <2>3. \A n \in SeqNos : n \in Nat
        BY BranchStoreAssumption
    <2>4. \A h \in SeqNos \cup {0} : h \in Nat
        BY <2>3
    <2> QED BY <2>2, <2>4
<1>12. g \in Groups(t) /\ g \notin DOMAIN r /\ W = Groups(t) \ DOMAIN r
    BY <1>2 DEF Waiting
<1>13. DOMAIN s = DOMAIN r \cup {g} /\ s[g] = next /\ \A q \in DOMAIN r : s[q] = r[q]
    BY <1>4, <1>12
<1>14. s \in Allotments
    <2>1. s \in [DOMAIN r \cup {g} -> SeqNos]
        BY <1>1, <1>4, <1>10
    <2>2. DOMAIN r \cup {g} \in SUBSET (SeqNos \cup {0})
        BY <1>10, <1>11, <1>12
    <2> QED BY <2>1, <2>2 DEF Allotments
<1>15. y \in TxRecords /\ y.pc # "idle" /\ y.pc \in {"alloc", "finish"}
    BY <1>4, <1>5, <1>7, <1>14, <1>p DEF TxRecords, Labels
<1>16. next \in Nat \ {0}
    BY <1>1, BranchStoreAssumption
<1>17. Proceeds(t, y)
    BY <1>1, <1>2, <1>6, <1>7, <1>13, <1>15, <1>16, <1>p DEF Proceeds, TxTypeOK
<1>18. LocksFit(t)' /\ Rows(t)' = Rows(t)
    BY <1>1, <1>6, <1>7, <1>15, SameLocks
<1>19. ReadsFit(t)'
    <2>1. CASE tx[t].op = "Commit"
        BY <1>6, <1>7, <1>15, <2>1 DEF ReadsFit
    <2>2. CASE tx[t].op \in {"Merge", "Rebase"}
        <3>1. /\ tx[t].changes = latestChanges(tx[t].b, tx[t].base) /\ tx[t].changes # {}
              /\ ConflictsWith(t) = {} /\ tx[t].groups = RowsSince(tx[t].b, tx[t].base)
            BY <1>1, <1>p, <2>2 DEF ReadsFit
        <3>2. /\ latestChanges(tx[t].b, tx[t].base)' = latestChanges(tx[t].b, tx[t].base)
              /\ RowsSince(tx[t].b, tx[t].base)' = RowsSince(tx[t].b, tx[t].base)
            BY <1>1, <1>6, <1>7 DEF latestChanges, RowsSince, vars
        <3>3. ConflictsWith(t)' = {}
            BY <1>1, <1>6, <1>7, <3>1 DEF ConflictsWith, ChangedPaths, RowsSince, vars
        <3> QED BY <1>6, <1>7, <1>15, <2>2, <3>1, <3>2, <3>3 DEF ReadsFit
    <2> QED BY <1>8, <2>1, <2>2
<1>20. SeqsFit(t)'
    <2>1. Groups(t)' = Groups(t)
        BY <1>6, <1>7 DEF Groups
    <2>2. Waiting(t)' = W \ {g}
        BY <1>6, <1>7, <1>12, <1>13, <2>1 DEF Waiting
    <2>3. ASSUME NEW q \in DOMAIN r
          PROVE  /\ r[q] < next /\ r[q] \notin used /\ \A d \in Rows(t) : head[d] < r[q]
                 /\ \A p \in DOMAIN r : p < q => r[p] < r[q]
                 /\ \A h \in W : q < h
        BY <1>2, <1>p DEF SeqsFit
    <2>4. \A d \in Rows(t) : head[d] \in Nat /\ head[d] < next
        <3>1. Rows(t) \subseteq Names
            BY TxParts, TxFields DEF Rows
        <3>2. \A d \in Names : head[d] \in used \cup {0}
            BY <1>p DEF TypeOK
        <3> QED BY <3>1, <3>2, <1>16, <1>p, NumberTypes DEF TxTypeOK
    <2>5. next \notin used
        BY <1>p, <1>16 DEF TxTypeOK
    <2>6. ASSUME NEW q \in DOMAIN s
          PROVE  /\ s[q] < next' /\ s[q] \notin used
                 /\ \A d \in Rows(t) : head[d] < s[q]
                 /\ \A p \in DOMAIN s : p < q => s[p] < s[q]
                 /\ \A h \in W \ {g} : q < h
        <3>1. CASE q = g
            <4>1. \A p \in DOMAIN r : s[p] < next
                BY <1>13, <2>3
            <4>2. \A h \in W \ {g} : g < h
                BY <1>3, <1>11, <1>12
            <4>3. \A p \in DOMAIN s : p < q => p \in DOMAIN r
                BY <1>11, <1>12, <1>13, <3>1
            <4> QED BY <1>1, <1>13, <1>16, <2>4, <2>5, <3>1, <4>1, <4>2, <4>3
        <3>2. CASE q # g
            <4>1. q \in DOMAIN r /\ s[q] = r[q] /\ r[q] \in Nat /\ q \in Nat
                BY <1>10, <1>13, <3>2
            <4>2. q < g /\ g \in Nat
                BY <1>11, <1>12, <2>3, <4>1
            <4>3. \A p \in DOMAIN s : p < q => p \in DOMAIN r
                BY <1>13, <4>1, <4>2
            <4> QED BY <1>1, <1>13, <1>16, <2>3, <4>1, <4>3
        <3> QED BY <3>1, <3>2
    <2>7. l = "finish" => W \ {g} = {}
        BY <1>4
    <2>8. DOMAIN s \subseteq Groups(t)
        BY <1>2, <1>12, <1>13, <1>p DEF SeqsFit
    <2>9. used' = used /\ head' = head
        BY <1>1 DEF vars
    <2> QED BY <1>6, <1>7, <1>8, <1>15, <1>18, <2>1, <2>2, <2>6, <2>7, <2>8, <2>9 DEF SeqsFit
<1>21. PurgeFits(t)' /\ tx'[t].op # "none" /\ tx'[t].pc # "idle"
    BY <1>6, <1>7, <1>8, <1>15 DEF PurgeFits
<1>22. TxFits(t)'
    BY <1>18, <1>19, <1>20, <1>21 DEF TxFits
<1> QED BY <1>17, <1>22, StatementFits

\* A purge waits for nothing that a write waits for.
LEMMA PurgeSession ==
    ASSUME NEW t, tx'[t].op = "Purge", DOMAIN tx'[t].seqs = {}, PurgeFits(t)'
    PROVE  TxFits(t)'
<1>1. tx'[t].pc \in {"deleteRows", "deleteCommits", "deleteBranches", "finish"}
    BY DEF PurgeFits
<1> QED BY <1>1 DEF TxFits, LocksFit, ReadsFit, SeqsFit, WriteOps

\* Whoever deletes is a purge, of closed branches.
LEMMA PurgerIs ==
    ASSUME TxInv, NEW t \in Txs, tx[t].pc \in {"deleteRows", "deleteCommits", "deleteBranches"}
    PROVE  /\ tx[t].op = "Purge" /\ DOMAIN tx[t].seqs = {}
           /\ t \in Purgers /\ tx[t].gone # {} /\ tx[t].gone \subseteq Terminal /\ Held(t) \subseteq tx[t].gone
<1>p. /\ LocksFit(t) /\ SeqsFit(t) /\ PurgeFits(t) /\ tx[t] \in TxRecords
      /\ tx[t].op = "none" <=> tx[t].pc = "idle"
    BY TxParts
<1>1. tx[t].op \notin WriteOps
    BY <1>p DEF LocksFit
<1>2. tx[t].op = "Purge"
    BY <1>1, <1>p, TxFields
<1> QED BY <1>2, <1>p DEF SeqsFit, PurgeFits

\* The query of Purge.
LEMMA PurgeSelectFits ==
    ASSUME TxInv, NEW t \in Txs, t \in Purgers, NEW gone, PurgeSelect(t, gone)
    PROVE  TxTypeOK' /\ TxsFit'
<1>1. PICK y : y = [Idle EXCEPT !.op = "Purge", !.gone = gone, !.pc = "deleteRows"]
    OBVIOUS
<1>p. TxTypeOK
    BY TxParts
<1>2. tx[t].pc = "idle" /\ gone \subseteq Terminal /\ gone # {} /\ UNCHANGED <<vars, lock, next>>
    BY DEF PurgeSelect, Expired
<1>3. tx' = [tx EXCEPT ![t] = y] /\ tx'[t] = y
    BY <1>1, <1>p DEF PurgeSelect, TxTypeOK
<1>4. y.op = "Purge" /\ y.gone = gone /\ y.pc = "deleteRows" /\ y.seqs = Idle.seqs
    BY <1>1 DEF Idle
<1>5. y \in TxRecords /\ DOMAIN y.seqs = {}
    BY <1>1, <1>2, <1>4, IdleFits DEF TxRecords, Labels, Terminal
<1>6. Proceeds(t, y)
    BY <1>2, <1>3, <1>4, <1>5, <1>p DEF Proceeds, TxTypeOK
<1>7. Held(t)' = {}
    BY <1>2, IdleHoldsNothing DEF Held
<1>8. Terminal' = Terminal
    BY <1>2 DEF Terminal, vars
<1>9. PurgeFits(t)'
    BY <1>2, <1>3, <1>4, <1>7, <1>8 DEF PurgeFits
<1> QED BY <1>3, <1>4, <1>5, <1>6, <1>9, PurgeSession, StatementFits

\* DELETE FROM file_commits.
LEMMA PurgeRowsFits ==
    ASSUME TxInv, NEW t \in Txs, PurgeRows(t)
    PROVE  TxTypeOK' /\ TxsFit'
<1>1. PICK rows : rows = {f \in file_commits : f.branch \in tx[t].gone}
    OBVIOUS
<1>2. PICK y : y = [tx[t] EXCEPT !.rows = rows, !.pc = "deleteCommits"]
    OBVIOUS
<1>p. TypeOK /\ TxTypeOK /\ tx[t] \in TxRecords
    BY TxParts
<1>3. tx[t].pc = "deleteRows" /\ UNCHANGED <<vars, lock, next>>
    BY DEF PurgeRows
<1>4. tx' = [tx EXCEPT ![t] = y] /\ tx'[t] = y
    BY <1>1, <1>2, <1>p DEF PurgeRows, GoneRows, TxTypeOK
<1>5. y.op = tx[t].op /\ y.gone = tx[t].gone /\ y.pc = "deleteCommits" /\ y.seqs = tx[t].seqs /\ y.rows = rows
    BY <1>2, <1>p DEF TxRecords
<1>6. rows \in SUBSET FileRows
    BY <1>1, <1>p DEF TypeOK
<1>7. y \in TxRecords
    BY <1>2, <1>6, <1>p DEF TxRecords, Labels
<1>8. /\ tx[t].op = "Purge" /\ DOMAIN tx[t].seqs = {}
      /\ t \in Purgers /\ tx[t].gone # {} /\ tx[t].gone \subseteq Terminal /\ Held(t) \subseteq tx[t].gone
    BY <1>3, PurgerIs
<1>9. Proceeds(t, y)
    BY <1>3, <1>4, <1>5, <1>7, <1>8, <1>p DEF Proceeds, TxTypeOK
<1>10. Held(t)' = Held(t) /\ Terminal' = Terminal /\ file_commits' = file_commits
    BY <1>3 DEF Held, Terminal, vars
<1>11. PurgeFits(t)'
    BY <1>1, <1>4, <1>5, <1>8, <1>10 DEF PurgeFits
<1> QED BY <1>4, <1>5, <1>8, <1>9, <1>11, PurgeSession, StatementFits

\* DELETE FROM commits: no row that stays carries the number of a commit of a
\* purged branch, so that all of these go.
LEMMA PurgeCommitsFits ==
    ASSUME TxInv, NEW t \in Txs, PurgeCommits(t)
    PROVE  TxTypeOK' /\ TxsFit'
<1>p. TypeOK /\ TxTypeOK /\ tx[t] \in TxRecords /\ PurgeFits(t) /\ SeqNamesCommit
    BY TxParts DEF IInv
<1>1. PICK old : old = {c \in commits : c.branch \in tx[t].gone /\
                                        c.seq \notin {f.seq : f \in file_commits \ tx[t].rows}}
    OBVIOUS
<1>2. PICK y : y = [tx[t] EXCEPT !.oldCommits = old, !.pc = "deleteBranches"]
    OBVIOUS
<1>3. tx[t].pc = "deleteCommits" /\ UNCHANGED <<vars, lock, next>>
    BY DEF PurgeCommits
<1>4. tx' = [tx EXCEPT ![t] = y] /\ tx'[t] = y
    BY <1>1, <1>2, <1>p DEF PurgeCommits, GoneCommits, TxTypeOK
<1>5. /\ y.op = tx[t].op /\ y.gone = tx[t].gone /\ y.pc = "deleteBranches" /\ y.seqs = tx[t].seqs
      /\ y.rows = tx[t].rows /\ y.oldCommits = old
    BY <1>2, <1>p DEF TxRecords
<1>6. old \in SUBSET CommitRows
    BY <1>1, <1>p DEF TypeOK
<1>7. y \in TxRecords
    BY <1>2, <1>6, <1>p DEF TxRecords, Labels
<1>8. /\ tx[t].op = "Purge" /\ DOMAIN tx[t].seqs = {}
      /\ t \in Purgers /\ tx[t].gone # {} /\ tx[t].gone \subseteq Terminal /\ Held(t) \subseteq tx[t].gone
    BY <1>3, PurgerIs
<1>9. tx[t].rows = {f \in file_commits : f.branch \in tx[t].gone}
    BY <1>3, <1>8, <1>p DEF PurgeFits
<1>10. old = {c \in commits : c.branch \in tx[t].gone}
    <2>1. \A c \in commits : c.branch \in tx[t].gone => c.seq \notin {f.seq : f \in file_commits \ tx[t].rows}
        BY <1>9, <1>p DEF SeqNamesCommit
    <2> QED BY <1>1, <2>1
<1>11. Proceeds(t, y)
    BY <1>3, <1>4, <1>5, <1>7, <1>8, <1>p DEF Proceeds, TxTypeOK
<1>12. Held(t)' = Held(t) /\ Terminal' = Terminal /\ file_commits' = file_commits /\ commits' = commits
    BY <1>3 DEF Held, Terminal, vars
<1>13. PurgeFits(t)'
    BY <1>4, <1>5, <1>8, <1>9, <1>10, <1>12 DEF PurgeFits
<1> QED BY <1>4, <1>5, <1>8, <1>11, <1>13, PurgeSession, StatementFits

\* DELETE FROM branches locks the rows it deletes.
LEMMA PurgeBranchesFits ==
    ASSUME TxInv, NEW t \in Txs, PurgeBranches(t)
    PROVE  TxTypeOK' /\ TxsFit'
<1>p. TypeOK /\ TxTypeOK /\ tx[t] \in TxRecords /\ PurgeFits(t)
    BY TxParts
<1>1. PICK gone, y : gone = tx[t].gone /\ y = [tx[t] EXCEPT !.pc = "finish"]
    OBVIOUS
<1>2. /\ tx[t].pc = "deleteBranches" /\ UNCHANGED <<vars, next>>
      /\ \A b \in gone : Free(b)
      /\ lock' = [b \in Names |-> IF b \in gone /\ Exists(b) THEN t ELSE lock[b]]
    BY <1>1 DEF PurgeBranches
<1>3. tx' = [tx EXCEPT ![t] = y] /\ tx'[t] = y
    BY <1>1, <1>p DEF PurgeBranches, Goto, TxTypeOK
<1>4. /\ y.op = tx[t].op /\ y.gone = gone /\ y.pc = "finish" /\ y.seqs = tx[t].seqs
      /\ y.rows = tx[t].rows /\ y.oldCommits = tx[t].oldCommits
    BY <1>1, <1>p DEF TxRecords
<1>5. y \in TxRecords
    BY <1>1, <1>p DEF TxRecords, Labels
<1>6. /\ tx[t].op = "Purge" /\ DOMAIN tx[t].seqs = {}
      /\ t \in Purgers /\ gone # {} /\ gone \subseteq Terminal /\ Held(t) \subseteq gone
    BY <1>1, <1>2, PurgerIs
<1>7. /\ lock' \in [Names -> Txs \cup {NoTx}]
      /\ \A d \in Names : lock'[d] = lock[d] \/ (lock[d] = NoTx /\ lock'[d] = t)
    BY <1>2, <1>p DEF TxTypeOK, Free
<1>8. Proceeds(t, y)
    BY <1>2, <1>3, <1>4, <1>5, <1>6, <1>7, <1>p DEF Proceeds, TxTypeOK
<1>9. Held(t)' \subseteq gone
    BY <1>2, <1>6 DEF Held
<1>10. Terminal' = Terminal /\ file_commits' = file_commits /\ commits' = commits
    BY <1>2 DEF Terminal, vars
<1>11. PurgeFits(t)'
    BY <1>1, <1>2, <1>3, <1>4, <1>6, <1>9, <1>10, <1>p DEF PurgeFits
<1> QED BY <1>3, <1>4, <1>6, <1>8, <1>11, PurgeSession, StatementFits

\* A transaction that fails or is rolled back takes nothing with it.
LEMMA NothingWritten ==
    ASSUME TxInv, NEW t \in Txs, End(t), UNCHANGED vars
    PROVE  TxTypeOK' /\ TxsFit'
<1>1. WritesOnly({}) /\ used' = used
    BY DEF vars, WritesOnly
<1> QED BY <1>1, WriteEnds

\* UPDATE branches SET draft waits for the lock of the row.
LEMMA DraftFits ==
    ASSUME TxInv, NEW b \in Branches, NEW d \in BOOLEAN, UpdateDraftTx(b, d)
    PROVE  TxTypeOK' /\ TxsFit'
<1>1. /\ Free(b) /\ UNCHANGED <<lock, tx, next>> /\ draft' = [draft EXCEPT ![b] = d]
      /\ UNCHANGED <<status, head, base, commits, file_commits, used>>
    BY DEF UpdateDraftTx, UpdateBranchDraft
<1>2. ASSUME NEW u \in Txs
      PROVE  TxFits(u)' /\ SeqsApart /\ TxTypeOK
    <2>p. TypeOK /\ SeqsFit(u) /\ SeqsApart /\ TxTypeOK
        BY TxParts
    <2>1. tx'[u] = tx[u] /\ Held(u)' = Held(u)
        BY <1>1 DEF Held
    <2>2. b \notin Held(u)
        BY <1>1, BranchTxAssumption DEF Held, Free
    <2>3. \A x \in Held(u) : SameBranch(x)
        BY <1>1, <2>2, <2>p DEF SameBranch, TypeOK
    <2>4. SameClosed(tx[u].gone)
        BY <1>1 DEF SameClosed
    <2>5. \A q \in DOMAIN tx[u].seqs : tx[u].seqs[q] < next' /\ tx[u].seqs[q] \notin used'
        BY <1>1, <2>p DEF SeqsFit
    <2>6. Undisturbed(u)
        BY <2>1, <2>3, <2>4, <2>5 DEF Undisturbed
    <2> QED BY <2>6, <2>p, OthersFit
<1>3. TxTypeOK /\ SeqsApart
    BY DEF TxInv, TxsFit
<1>4. TxTypeOK' /\ SeqsApart'
    BY <1>1, <1>3 DEF TxTypeOK, SeqsApart, Free
<1> QED BY <1>2, <1>4 DEF TxsFit

-----------------------------------------------------------------------------
(* All steps.                                                              *)

\* Before the end of a transaction the tables stay as they are.
LEMMA TxRefinesStep == TxInv /\ [TxNext]_txVars => [Next]_vars
<1> SUFFICES ASSUME TxInv, [TxNext]_txVars PROVE [Next]_vars
    OBVIOUS
<1>1. ASSUME NEW t \in Txs, Advance(t)
      PROVE  [Next]_vars
    <2>1. CASE \/ Lock(t) \/ ReadBranch(t) \/ ReadMain(t) \/ Allocate(t)
               \/ PurgeRows(t) \/ PurgeCommits(t) \/ PurgeBranches(t) \/ Fail(t)
        BY <2>1 DEF Lock, ReadBranch, ReadMain, Allocate, PurgeRows, PurgeCommits, PurgeBranches, Fail
    <2>2. CASE FinishCommit(t)
        BY <2>2, CommitRefines
    <2>3. CASE FinishDeleteBranch(t)
        BY <2>3, DeleteRefines
    <2>4. CASE FinishMerge(t)
        BY <2>4, MergeRefines
    <2>5. CASE FinishRebase(t)
        BY <2>5, RebaseRefines
    <2>6. CASE FinishPurge(t)
        BY <2>6, PurgeRefines
    <2>7. CASE \E d \in BOOLEAN : FinishCreateBranch(t, d)
        BY <2>7, CreateRefines
    <2> QED BY <1>1, <2>1, <2>2, <2>3, <2>4, <2>5, <2>6, <2>7 DEF Advance
<1>2. ASSUME NEW t \in Txs, Rollback(t)
      PROVE  [Next]_vars
    BY <1>2 DEF Rollback
<1>3. ASSUME NEW t \in Txs, NEW op, NEW b, NEW files, NEW a, BeginTx(t, op, b, files, a)
      PROVE  [Next]_vars
    BY <1>3 DEF BeginTx
<1>4. ASSUME NEW t \in Purgers, NEW gone, PurgeSelect(t, gone)
      PROVE  [Next]_vars
    BY <1>4 DEF PurgeSelect
<1>5. ASSUME NEW b \in Branches, NEW d \in BOOLEAN, UpdateDraftTx(b, d)
      PROVE  [Next]_vars
    BY <1>5 DEF UpdateDraftTx, Next
<1>6. CASE UNCHANGED txVars
    BY <1>6 DEF txVars, vars
<1> QED BY <1>1, <1>2, <1>3, <1>4, <1>5, <1>6 DEF TxNext

\* The invariant holds when no transaction is open yet.
LEMMA TxInvInit == TxInit => TxInv
<1> SUFFICES ASSUME TxInit PROVE TxInv
    OBVIOUS
<1>1. IInv /\ used = {}
    BY IInvInit DEF TxInit, Init
<1>2. lock = [b \in Names |-> NoTx] /\ tx = [t \in Txs |-> Idle] /\ next = 1
    BY DEF TxInit
<1>3. /\ lock \in [Names -> Txs \cup {NoTx}] /\ tx \in [Txs -> TxRecords] /\ next \in Nat
      /\ \A b \in Names : Free(b)
    BY <1>2, IdleFits DEF Free
<1>4. TxTypeOK
    BY <1>1, <1>3 DEF TxTypeOK
<1>5. ASSUME NEW t \in Txs
      PROVE  TxFits(t) /\ DOMAIN tx[t].seqs = {}
    <2>1. tx[t].op = "none" /\ tx[t].pc = "idle" /\ DOMAIN tx[t].seqs = {}
        BY <1>2, IdleFits
    <2> QED BY <2>1 DEF TxFits, LocksFit, ReadsFit, SeqsFit, PurgeFits, WriteOps
<1>6. SeqsApart
    BY <1>5 DEF SeqsApart
<1> QED BY <1>1, <1>4, <1>5, <1>6 DEF TxInv, TxsFit

\* Every statement preserves the invariant.
LEMMA TxInvStep ==
    ASSUME OnePurger
    PROVE  TxInv /\ [TxNext]_txVars => TxInv'
<1> SUFFICES ASSUME TxInv, [TxNext]_txVars PROVE TxInv'
    OBVIOUS
<1>1. IInv'
    BY TxRefinesStep, IInvStep DEF TxInv
<1>2. ASSUME NEW t \in Txs, Advance(t)
      PROVE  TxTypeOK' /\ TxsFit'
    <2>1. CASE Lock(t)
        BY <2>1, LockFits
    <2>2. CASE ReadBranch(t)
        BY <2>2, ReadBranchFits
    <2>3. CASE ReadMain(t)
        BY <2>3, ReadMainFits
    <2>4. CASE Allocate(t)
        BY <2>4, AllocateFits
    <2>5. CASE PurgeRows(t)
        BY <2>5, PurgeRowsFits
    <2>6. CASE PurgeCommits(t)
        BY <2>6, PurgeCommitsFits
    <2>7. CASE PurgeBranches(t)
        BY <2>7, PurgeBranchesFits
    <2>8. CASE FinishCommit(t)
        BY <2>8, CommitFits
    <2>9. CASE FinishDeleteBranch(t)
        BY <2>9, DeleteFits
    <2>10. CASE FinishMerge(t)
        BY <2>10, MergeFits
    <2>11. CASE FinishRebase(t)
        BY <2>11, RebaseFits
    <2>12. CASE FinishPurge(t)
        BY <2>12, PurgeEndFits
    <2>13. CASE \E d \in BOOLEAN : FinishCreateBranch(t, d)
        BY <2>13, CreateFits
    <2>14. CASE Fail(t)
        BY <2>14, NothingWritten DEF Fail
    <2> QED BY <1>2, <2>1, <2>2, <2>3, <2>4, <2>5, <2>6, <2>7, <2>8, <2>9, <2>10, <2>11, <2>12,
               <2>13, <2>14 DEF Advance
<1>3. ASSUME NEW t \in Txs, Rollback(t)
      PROVE  TxTypeOK' /\ TxsFit'
    BY <1>3, NothingWritten DEF Rollback
<1>4. ASSUME NEW t \in Txs, NEW b \in Names, NEW files \in Patches, NEW a \in Authors,
             BeginTx(t, "Commit", b, files, a)
      PROVE  TxTypeOK' /\ TxsFit'
    <2>1. "Commit" \in WriteOps /\ files \in Patches \cup {NoPatch}
        BY DEF WriteOps
    <2> QED BY <1>4, <2>1, BeginFits
<1>5. ASSUME NEW t \in Txs, NEW b \in Branches, NEW a \in Authors,
             NEW op \in {"Merge", "Rebase", "CreateBranch", "DeleteBranch"},
             BeginTx(t, op, b, NoPatch, a)
      PROVE  TxTypeOK' /\ TxsFit'
    <2>1. op \in WriteOps /\ op # "Commit" /\ b \in Names /\ NoPatch \in Patches \cup {NoPatch}
        BY DEF WriteOps, Names
    <2> QED BY <1>5, <2>1, BeginFits
<1>6. ASSUME NEW t \in Purgers, NEW gone, PurgeSelect(t, gone)
      PROVE  TxTypeOK' /\ TxsFit'
    BY <1>6, BranchTxAssumption, PurgeSelectFits
<1>7. ASSUME NEW b \in Branches, NEW d \in BOOLEAN, UpdateDraftTx(b, d)
      PROVE  TxTypeOK' /\ TxsFit'
    BY <1>7, DraftFits
<1>8. ASSUME UNCHANGED txVars
      PROVE  TxTypeOK' /\ TxsFit'
    <2>1. UNCHANGED vars /\ UNCHANGED <<lock, tx, next>>
        BY <1>8 DEF txVars, vars
    <2>2. \A u : Held(u)' = Held(u)
        BY <2>1 DEF Held
    <2>3. ASSUME NEW u \in Txs
          PROVE  TxFits(u)'
        <3>1. SeqsFit(u)
            BY TxParts
        <3>2. Undisturbed(u)
            BY <2>1, <2>2, <3>1 DEF Undisturbed, SameBranch, SameClosed, vars, SeqsFit
        <3> QED BY <3>2, OthersFit
    <2>4. TxTypeOK /\ SeqsApart
        BY DEF TxInv, TxsFit
    <2>5. TxTypeOK'
        BY <2>1, <2>4 DEF TxTypeOK, Free, vars
    <2>6. SeqsApart'
        BY <2>1, <2>4 DEF SeqsApart
    <2> QED BY <2>3, <2>5, <2>6 DEF TxsFit
<1>9. TxTypeOK' /\ TxsFit'
    <2>1. CASE \E t \in Txs : Advance(t) \/ Rollback(t)
        BY <2>1, <1>2, <1>3
    <2>2. CASE \E t \in Txs, b \in Names, files \in Patches, a \in Authors : BeginTx(t, "Commit", b, files, a)
        BY <2>2, <1>4
    <2>3. CASE \E t \in Txs, b \in Branches, a \in Authors,
                  op \in {"Merge", "Rebase", "CreateBranch", "DeleteBranch"} : BeginTx(t, op, b, NoPatch, a)
        BY <2>3, <1>5
    <2>4. CASE \E t \in Purgers, gone \in SUBSET Terminal : PurgeSelect(t, gone)
        BY <2>4, <1>6
    <2>5. CASE \E b \in Branches, d \in BOOLEAN : UpdateDraftTx(b, d)
        BY <2>5, <1>7
    <2> QED BY <1>8, <2>1, <2>2, <2>3, <2>4, <2>5 DEF TxNext
<1> QED BY <1>1, <1>9 DEF TxInv

\* The transactions of store.go implement BranchStore when one session purges at
\* a time: whatever the order of the statements of any number of sessions, each
\* commit of a transaction is one step of BranchStore.
THEOREM TxImplementsStore == OnePurger => (TxSpec => ImplementsBranchStore)
<1> SUFFICES ASSUME OnePurger PROVE TxSpec => ImplementsBranchStore
    OBVIOUS
<1>1. TxInit => TxInv /\ Init
    BY TxInvInit DEF TxInit
<1>2. TxInv /\ [TxNext]_txVars => TxInv'
    BY TxInvStep
<1>3. TxInv /\ [TxNext]_txVars => [Next]_vars
    BY TxRefinesStep
<1> QED BY <1>1, <1>2, <1>3, PTL DEF TxSpec, ImplementsBranchStore, Spec

-----------------------------------------------------------------------------
(* No deadlock.                                                            *)

LEMMA WorkKept ==
    ASSUME NEW u, WorkFits(u), tx'[u] = tx[u], Held(u)' = Held(u)
    PROVE  WorkFits(u)'
<1>1. Waiting(u)' = Waiting(u) /\ Rows(u)' = Rows(u)
    BY DEF Waiting, Groups, Rows
<1> QED BY <1>1 DEF WorkFits

LEMMA OthersWork ==
    ASSUME WorksFit, NEW t \in Txs, WorkFits(t)',
           \A u \in Txs \ {t} : tx'[u] = tx[u] /\ Held(u)' = Held(u)
    PROVE  WorksFit'
<1>1. ASSUME NEW u \in Txs \ {t}
      PROVE  WorkFits(u)'
    BY <1>1, WorkKept DEF WorksFit
<1> QED BY <1>1 DEF WorksFit

\* A transaction that ends has nothing left to do.
LEMMA EndWorks ==
    ASSUME TxInv, WorksFit, NEW t \in Txs, End(t)
    PROVE  WorksFit'
<1>p. TxTypeOK
    BY TxParts
<1>1. tx'[t] = Idle
    BY <1>p DEF End, TxTypeOK
<1>2. tx'[t].op = "none" /\ tx'[t].pc = "idle" /\ tx'[t].rows = {} /\ tx'[t].oldCommits = {}
    BY <1>1 DEF Idle
<1>3. WorkFits(t)'
    BY <1>2 DEF WorkFits, WriteOps
<1> QED BY <1>3, Ended, OthersWork

\* A statement that takes no lock.
LEMMA StatementWorks ==
    ASSUME TxInv, WorksFit, NEW t \in Txs, lock' = lock, WorkFits(t)',
           NEW y, tx' = [tx EXCEPT ![t] = y]
    PROVE  WorksFit'
<1>1. \A u \in Txs \ {t} : tx'[u] = tx[u] /\ Held(u)' = Held(u)
    BY TxParts DEF Held
<1> QED BY <1>1, OthersWork

LEMMA BeginWorks ==
    ASSUME TxInv, WorksFit, NEW t \in Txs, NEW op \in WriteOps, NEW b, NEW files, NEW a,
           BeginTx(t, op, b, files, a)
    PROVE  WorksFit'
<1>1. PICK y : y = [Idle EXCEPT !.op = op, !.b = b, !.files = files, !.author = a, !.pc = "lock"]
    OBVIOUS
<1>2. y.op = op /\ y.pc = "lock" /\ y.rows = {} /\ y.oldCommits = {}
    BY <1>1 DEF Idle
<1>3. tx' = [tx EXCEPT ![t] = y] /\ lock' = lock /\ tx[t].pc = "idle"
    BY <1>1 DEF BeginTx
<1>4. tx'[t] = y /\ Held(t)' = {}
    BY <1>3, TxParts, IdleHoldsNothing DEF Held
<1>5. op # "Purge"
    BY DEF WriteOps
<1>6. WorkFits(t)'
    BY <1>2, <1>4, <1>5 DEF WorkFits
<1> QED BY <1>3, <1>6, StatementWorks

LEMMA PurgeSelectWorks ==
    ASSUME TxInv, WorksFit, NEW t \in Txs, NEW gone, PurgeSelect(t, gone)
    PROVE  WorksFit'
<1>1. PICK y : y = [Idle EXCEPT !.op = "Purge", !.gone = gone, !.pc = "deleteRows"]
    OBVIOUS
<1>2. y.op = "Purge" /\ y.pc = "deleteRows"
    BY <1>1 DEF Idle
<1>3. tx' = [tx EXCEPT ![t] = y] /\ lock' = lock /\ tx[t].pc = "idle"
    BY <1>1 DEF PurgeSelect
<1>4. tx'[t] = y /\ Held(t)' = {}
    BY <1>3, TxParts, IdleHoldsNothing DEF Held
<1>5. WorkFits(t)'
    BY <1>2, <1>4 DEF WorkFits, WriteOps
<1> QED BY <1>3, <1>5, StatementWorks

\* Main is locked before the branch.
LEMMA LockWorks ==
    ASSUME TxInv, WorksFit, NEW t \in Txs, Lock(t)
    PROVE  WorksFit'
<1>1. PICK x, m, k, l : /\ x = NextRow(t)
                        /\ m = IF x = Main THEN head[Main] ELSE tx[t].mainHead
                        /\ k = IF x = tx[t].b THEN base[x] ELSE tx[t].base
                        /\ l = AfterLock(t, x)
    OBVIOUS
<1>2. PICK y : y = [tx[t] EXCEPT !.mainHead = m, !.base = k, !.pc = l]
    OBVIOUS
<1>p. /\ TxTypeOK /\ SeqsFit(t) /\ tx[t] \in TxRecords /\ WorkFits(t)
    BY TxParts DEF WorksFit
<1>3. tx[t].pc = "lock" /\ Free(x) /\ lock' = [lock EXCEPT ![x] = t]
    BY <1>1 DEF Lock
<1>4. tx' = [tx EXCEPT ![t] = y] /\ tx'[t] = y
    BY <1>1, <1>2, <1>p DEF Lock, TxTypeOK
<1>5. tx[t].op \in WriteOps /\ x \in Names
    BY <1>1, <1>3, NextRowIs
<1>6. /\ y.op = tx[t].op /\ y.b = tx[t].b /\ y.groups = tx[t].groups /\ y.seqs = tx[t].seqs
      /\ y.rows = tx[t].rows /\ y.oldCommits = tx[t].oldCommits /\ y.pc = l
    BY <1>2, <1>p DEF TxRecords
<1>7. lock'[x] = t /\ \A d \in Names : d # x => lock'[d] = lock[d]
    BY <1>3, <1>5, <1>p DEF TxTypeOK
<1>8. Held(t)' = Held(t) \cup {x}
    BY <1>5, <1>7 DEF Held
<1>9. \A u \in Txs \ {t} : tx'[u] = tx[u] /\ Held(u)' = Held(u)
    BY <1>3, <1>4, <1>5, <1>7, <1>p, BranchTxAssumption DEF TxTypeOK, Held, Free
<1>10. l = "alloc" => Waiting(t)' # {}
    <2> SUFFICES ASSUME l = "alloc" PROVE Waiting(t)' # {}
        OBVIOUS
    <2>1. tx[t].op = "Commit"
        BY <1>1 DEF AfterLock
    <2>2. DOMAIN y.seqs = {}
        BY <1>3, <1>6, <1>p DEF SeqsFit
    <2> QED BY <1>4, <1>6, <2>1, <2>2 DEF Waiting, Groups
<1>11. Rows(t)' = Rows(t)
    BY <1>4, <1>6 DEF Rows
<1>12. Main \in Rows(t) => Main \in Held(t) \cup {x}
    BY <1>1 DEF NextRow
<1>13. tx[t].op # "Purge"
    BY <1>5 DEF WriteOps
<1>14. tx[t].rows = {} /\ tx[t].oldCommits = {}
    BY <1>13, <1>p DEF WorkFits
<1>15. WorkFits(t)'
    BY <1>4, <1>6, <1>8, <1>10, <1>11, <1>12, <1>13, <1>14 DEF WorkFits
<1> QED BY <1>9, <1>15, OthersWork

LEMMA ReadBranchWorks ==
    ASSUME TxInv, WorksFit, NEW t \in Txs, ReadBranch(t)
    PROVE  WorksFit'
<1>1. PICK found, l : /\ found = latestChanges(tx[t].b, tx[t].base)
                      /\ l = IF found = {} THEN "finish" ELSE "readMain"
    OBVIOUS
<1>2. PICK y : y = [tx[t] EXCEPT !.changes = found, !.pc = l]
    OBVIOUS
<1>p. TxTypeOK /\ tx[t] \in TxRecords /\ WorkFits(t)
    BY TxParts DEF WorksFit
<1>3. tx[t].pc = "readBranch" /\ lock' = lock
    BY DEF ReadBranch
<1>4. tx' = [tx EXCEPT ![t] = y] /\ tx'[t] = y
    BY <1>1, <1>2, <1>p DEF ReadBranch, TxTypeOK
<1>5. /\ y.op = tx[t].op /\ y.b = tx[t].b /\ y.rows = tx[t].rows /\ y.oldCommits = tx[t].oldCommits
      /\ y.pc # "alloc"
    BY <1>1, <1>2, <1>p DEF TxRecords
<1>6. tx[t].op \in {"Merge", "Rebase"}
    BY <1>3, ReaderIs
<1>7. Held(t)' = Held(t) /\ Rows(t)' = Rows(t)
    BY <1>3, <1>4, <1>5 DEF Held, Rows
<1>8. WorkFits(t)'
    BY <1>4, <1>5, <1>6, <1>7, <1>p DEF WorkFits
<1> QED BY <1>3, <1>4, <1>8, StatementWorks

\* There is a commit to replay when there are changes.
LEMMA ReadMainWorks ==
    ASSUME TxInv, WorksFit, NEW t \in Txs, ReadMain(t)
    PROVE  WorksFit'
<1>1. PICK rows : rows = RowsSince(tx[t].b, tx[t].base)
    OBVIOUS
<1>2. PICK y : y = [tx[t] EXCEPT !.groups = rows, !.pc = "alloc"]
    OBVIOUS
<1>p. TxTypeOK /\ tx[t] \in TxRecords /\ WorkFits(t)
    BY TxParts DEF WorksFit
<1>3. tx[t].pc = "readMain" /\ lock' = lock
    BY DEF ReadMain
<1>4. tx' = [tx EXCEPT ![t] = y] /\ tx'[t] = y
    BY <1>1, <1>2, <1>p DEF ReadMain, TxTypeOK
<1>5. /\ y.op = tx[t].op /\ y.b = tx[t].b /\ y.rows = tx[t].rows /\ y.oldCommits = tx[t].oldCommits
      /\ y.groups = rows /\ y.seqs = tx[t].seqs
    BY <1>2, <1>p DEF TxRecords
<1>6. /\ tx[t].op \in {"Merge", "Rebase"} /\ DOMAIN tx[t].seqs = {}
      /\ tx[t].changes # {} /\ tx[t].changes = latestChanges(tx[t].b, tx[t].base)
    BY <1>3, ReaderIs
<1>7. rows # {}
    BY <1>1, <1>6 DEF latestChanges, DistinctOn
<1>8. Waiting(t)' # {}
    <2>1. Groups(t)' # {}
        BY <1>4, <1>5, <1>7 DEF Groups
    <2>2. DOMAIN tx'[t].seqs = {}
        BY <1>4, <1>5, <1>6
    <2> QED BY <2>1, <2>2 DEF Waiting
<1>9. Held(t)' = Held(t) /\ Rows(t)' = Rows(t)
    BY <1>3, <1>4, <1>5 DEF Held, Rows
<1>10. WorkFits(t)'
    BY <1>4, <1>5, <1>6, <1>8, <1>9, <1>p DEF WorkFits
<1> QED BY <1>3, <1>4, <1>10, StatementWorks

LEMMA AllocateWorks ==
    ASSUME TxInv, WorksFit, NEW t \in Txs, Allocate(t)
    PROVE  WorksFit'
<1>p. TxTypeOK /\ tx[t] \in TxRecords /\ WorkFits(t) /\ ReadsFit(t)
    BY TxParts DEF WorksFit
<1>1. tx[t].pc = "alloc" /\ lock' = lock
    BY DEF Allocate
<1>2. PICK r, W : r = tx[t].seqs /\ W = Waiting(t)
    OBVIOUS
<1>3. PICK g \in W :
          tx' = [tx EXCEPT ![t].seqs = [q \in DOMAIN @ \cup {g} |-> IF q = g THEN next ELSE @[q]],
                           ![t].pc = IF W = {g} THEN "finish" ELSE "alloc"]
    BY <1>2 DEF Allocate
<1>4. PICK s, l : /\ s = [q \in DOMAIN r \cup {g} |-> IF q = g THEN next ELSE r[q]]
                  /\ l = IF W = {g} THEN "finish" ELSE "alloc"
    OBVIOUS
<1>5. PICK y : y = [tx[t] EXCEPT !.seqs = s, !.pc = l]
    OBVIOUS
<1>6. tx' = [tx EXCEPT ![t] = y] /\ tx'[t] = y
    BY <1>2, <1>3, <1>4, <1>5, <1>p DEF TxTypeOK
<1>7. /\ y.op = tx[t].op /\ y.b = tx[t].b /\ y.rows = tx[t].rows /\ y.oldCommits = tx[t].oldCommits
      /\ y.groups = tx[t].groups /\ y.seqs = s /\ y.pc = l
    BY <1>5, <1>p DEF TxRecords
<1>8. tx[t].op # "Purge"
    BY <1>1, <1>p DEF ReadsFit
<1>9. DOMAIN s = DOMAIN r \cup {g}
    BY <1>4
<1>10. Waiting(t)' = W \ {g}
    <2>1. Groups(t)' = Groups(t)
        BY <1>6, <1>7 DEF Groups
    <2> QED BY <1>2, <1>6, <1>7, <1>9, <2>1 DEF Waiting
<1>11. l = "alloc" => W \ {g} # {}
    BY <1>3, <1>4
<1>12. Held(t)' = Held(t) /\ Rows(t)' = Rows(t)
    BY <1>1, <1>6, <1>7 DEF Held, Rows
<1>13. WorkFits(t)'
    BY <1>6, <1>7, <1>8, <1>10, <1>11, <1>12, <1>p DEF WorkFits
<1> QED BY <1>1, <1>6, <1>13, StatementWorks

LEMMA PurgeWorks ==
    ASSUME TxInv, WorksFit, NEW t \in Txs, PurgeRows(t) \/ PurgeCommits(t) \/ PurgeBranches(t)
    PROVE  WorksFit'
<1>p. TxTypeOK /\ tx[t] \in TxRecords /\ WorkFits(t)
    BY TxParts DEF WorksFit
<1>1. tx[t].pc \in {"deleteRows", "deleteCommits", "deleteBranches"}
    BY DEF PurgeRows, PurgeCommits, PurgeBranches
<1>2. tx[t].op = "Purge" /\ "Purge" \notin WriteOps
    BY <1>1, PurgerIs DEF WriteOps
<1>3. CASE PurgeRows(t)
    <2>1. PICK y : y = [tx[t] EXCEPT !.rows = GoneRows(t), !.pc = "deleteCommits"]
        OBVIOUS
    <2>2. tx' = [tx EXCEPT ![t] = y] /\ tx'[t] = y /\ lock' = lock
        BY <1>3, <1>p, <2>1 DEF PurgeRows, TxTypeOK
    <2>3. y.op = "Purge" /\ y.pc = "deleteCommits"
        BY <1>2, <1>p, <2>1 DEF TxRecords
    <2>4. Held(t)' = {}
        BY <1>1, <1>2, <1>p, <2>2 DEF Held, WorkFits
    <2>5. WorkFits(t)'
        BY <1>2, <2>2, <2>3, <2>4 DEF WorkFits
    <2> QED BY <2>2, <2>5, StatementWorks
<1>4. CASE PurgeCommits(t)
    <2>1. PICK y : y = [tx[t] EXCEPT !.oldCommits = GoneCommits(t), !.pc = "deleteBranches"]
        OBVIOUS
    <2>2. tx' = [tx EXCEPT ![t] = y] /\ tx'[t] = y /\ lock' = lock
        BY <1>4, <1>p, <2>1 DEF PurgeCommits, TxTypeOK
    <2>3. y.op = "Purge" /\ y.pc = "deleteBranches"
        BY <1>2, <1>p, <2>1 DEF TxRecords
    <2>4. Held(t)' = {}
        BY <1>1, <1>2, <1>p, <2>2 DEF Held, WorkFits
    <2>5. WorkFits(t)'
        BY <1>2, <2>2, <2>3, <2>4 DEF WorkFits
    <2> QED BY <2>2, <2>5, StatementWorks
<1>5. CASE PurgeBranches(t)
    <2>1. PICK gone, y : gone = tx[t].gone /\ y = [tx[t] EXCEPT !.pc = "finish"]
        OBVIOUS
    <2>2. /\ \A b \in gone : Free(b)
          /\ lock' = [b \in Names |-> IF b \in gone /\ Exists(b) THEN t ELSE lock[b]]
        BY <1>5, <2>1 DEF PurgeBranches
    <2>3. tx' = [tx EXCEPT ![t] = y] /\ tx'[t] = y
        BY <1>5, <1>p, <2>1 DEF PurgeBranches, Goto, TxTypeOK
    <2>4. y.op = "Purge" /\ y.pc = "finish"
        BY <1>2, <1>p, <2>1 DEF TxRecords
    <2>5. \A u \in Txs \ {t} : tx'[u] = tx[u] /\ Held(u)' = Held(u)
        BY <1>p, <2>2, <2>3, BranchTxAssumption DEF TxTypeOK, Held, Free
    <2>6. WorkFits(t)'
        BY <1>2, <2>3, <2>4 DEF WorkFits
    <2> QED BY <2>5, <2>6, OthersWork
<1> QED BY <1>3, <1>4, <1>5

LEMMA WorksStep ==
    ASSUME TxInv, WorksFit, [TxNext]_txVars
    PROVE  WorksFit'
<1>1. ASSUME NEW t \in Txs, Advance(t)
      PROVE  WorksFit'
    <2>1. CASE Lock(t) \/ ReadBranch(t) \/ ReadMain(t) \/ Allocate(t)
        BY <2>1, LockWorks, ReadBranchWorks, ReadMainWorks, AllocateWorks
    <2>2. CASE PurgeRows(t) \/ PurgeCommits(t) \/ PurgeBranches(t)
        BY <2>2, PurgeWorks
    <2>3. CASE End(t)
        BY <2>3, EndWorks
    <2>4. (\E d \in BOOLEAN : FinishCreateBranch(t, d)) => End(t)
        BY DEF FinishCreateBranch
    <2>5. FinishCommit(t) \/ FinishDeleteBranch(t) \/ FinishMerge(t) \/ FinishRebase(t) \/ FinishPurge(t)
              \/ Fail(t) => End(t)
        BY DEF FinishCommit, FinishDeleteBranch, FinishMerge, FinishRebase, FinishPurge, Fail
    <2> QED BY <1>1, <2>1, <2>2, <2>3, <2>4, <2>5 DEF Advance
<1>2. ASSUME NEW t \in Txs, Rollback(t)
      PROVE  WorksFit'
    BY <1>2, EndWorks DEF Rollback
<1>3. ASSUME NEW t \in Txs, NEW b, NEW files, NEW a, NEW op \in WriteOps, BeginTx(t, op, b, files, a)
      PROVE  WorksFit'
    BY <1>3, BeginWorks
<1>4. ASSUME NEW t \in Purgers, NEW gone, PurgeSelect(t, gone)
      PROVE  WorksFit'
    BY <1>4, BranchTxAssumption, PurgeSelectWorks
<1>5. ASSUME UNCHANGED <<lock, tx>>
      PROVE  WorksFit'
    <2>1. \A u \in Txs : tx'[u] = tx[u] /\ Held(u)' = Held(u)
        BY <1>5 DEF Held
    <2>2. ASSUME NEW u \in Txs PROVE WorkFits(u)'
        BY <2>1, WorkKept DEF WorksFit
    <2> QED BY <2>2 DEF WorksFit
<1>6. CASE UNCHANGED txVars
    BY <1>5, <1>6 DEF txVars
<1>7. CASE \E t \in Txs : Advance(t) \/ Rollback(t)
    BY <1>1, <1>2, <1>7
<1>8. CASE \E t \in Txs, b \in Names, files \in Patches, a \in Authors : BeginTx(t, "Commit", b, files, a)
    BY <1>3, <1>8 DEF WriteOps
<1>9. CASE \E t \in Txs, b \in Branches, a \in Authors,
              op \in {"Merge", "Rebase", "CreateBranch", "DeleteBranch"} : BeginTx(t, op, b, NoPatch, a)
    BY <1>3, <1>9 DEF WriteOps
<1>10. CASE \E t \in Purgers, gone \in SUBSET Terminal : PurgeSelect(t, gone)
    BY <1>4, <1>10
<1>11. CASE \E b \in Branches, d \in BOOLEAN : UpdateDraftTx(b, d)
    BY <1>5, <1>11 DEF UpdateDraftTx
<1> QED BY <1>6, <1>7, <1>8, <1>9, <1>10, <1>11 DEF TxNext

\* The oldest of the commits that wait for their number.
LEMMA OldestWaits ==
    ASSUME TxInv, WorksFit, NEW t \in Txs, tx[t].pc = "alloc"
    PROVE  \E g \in Waiting(t) : \A h \in Waiting(t) : g <= h
<1>p. tx[t] \in TxRecords /\ WorkFits(t)
    BY TxParts DEF WorksFit
<1>1. PICK W : W = Waiting(t)
    OBVIOUS
<1>2. W \in SUBSET Nat
    <2>1. \A f \in tx[t].groups : f.seq \in Nat
        BY <1>p, TxFields, BranchStoreAssumption DEF FileRows
    <2> QED BY <1>1, <2>1 DEF Waiting, Groups
<1>3. W # {}
    BY <1>1, <1>p DEF WorkFits
<1> DEFINE less == OpToRel(<, Nat)
<1>4. \E g \in W : \A h \in W : ~ (<<h, g>> \in less)
    BY <1>2, <1>3, NatLessThanWellFounded, WFMin
<1>5. \A u, v \in Nat : u < v => <<u, v>> \in less
    BY DEF OpToRel
<1> HIDE DEF less
<1>6. PICK g \in W : \A h \in W : ~ (<<h, g>> \in less)
    BY <1>4
<1>7. \A h \in W : ~ (h < g)
    BY <1>2, <1>5, <1>6
<1>8. \A h \in W : g <= h
    BY <1>2, <1>6, <1>7
<1> QED BY <1>1, <1>6, <1>8

\* A transaction that does not wait for a lock goes on.
LEMMA UnlockedAdvances ==
    ASSUME TxInv, WorksFit, NEW t \in Txs, tx[t].op \in WriteOps, tx[t].pc # "lock",
           tx[t].op = "CreateBranch" => tx[t].pc # "finish" \/ Free(tx[t].b)
    PROVE  CanAdvance(t)
<1>1. tx[t].pc \in {"readBranch", "readMain", "alloc", "finish"}
    BY TxParts DEF LocksFit
<1>2. CASE tx[t].pc = "alloc"
    BY <1>2, OldestWaits DEF CanAdvance
<1>3. CASE tx[t].pc = "finish"
    BY <1>3 DEF CanAdvance, Ready, WriteOps
<1> QED BY <1>1, <1>2, <1>3 DEF CanAdvance

\* A purge waits for nobody when it is the only one: closed branches are not locked.
LEMMA PurgeAdvances ==
    ASSUME OnePurger, TxInv, WorksFit, NEW t \in Txs, tx[t].op = "Purge"
    PROVE  CanAdvance(t)
<1>p. PurgeFits(t) /\ WorkFits(t)
    BY TxParts DEF WorksFit
<1>1. /\ t \in Purgers /\ tx[t].gone \subseteq Terminal
      /\ tx[t].pc \in {"deleteRows", "deleteCommits", "deleteBranches", "finish"}
    BY <1>p DEF PurgeFits
<1>2. ASSUME NEW u \in Txs \ {t}
      PROVE  tx[u].op # "Purge" /\ tx[u].rows = {} /\ tx[u].oldCommits = {}
    <2>1. PurgeFits(u) /\ WorkFits(u)
        BY TxParts DEF WorksFit
    <2>2. tx[u].op # "Purge"
        BY <1>1, <2>1 DEF PurgeFits, OnePurger
    <2> QED BY <2>1, <2>2 DEF WorkFits
<1>3. CASE tx[t].pc = "deleteRows"
    BY <1>2, <1>3 DEF CanAdvance
<1>4. CASE tx[t].pc = "deleteCommits"
    BY <1>2, <1>4 DEF CanAdvance
<1>5. CASE tx[t].pc = "deleteBranches"
    <2>1. ASSUME NEW b \in tx[t].gone, ~ Free(b) PROVE FALSE
        <3>1. b \in Terminal /\ b \in Names
            BY <1>1 DEF Terminal, Names
        <3>2. PICK h : h = lock[b]
            OBVIOUS
        <3>3. h \in Txs
            BY <2>1, <3>1, <3>2, TxParts DEF TxTypeOK, Free
        <3>4. b \in Held(h)
            BY <3>1, <3>2 DEF Held
        <3>5. h # t
            BY <1>5, <1>p, <3>4 DEF WorkFits
        <3>6. tx[h].op # "Purge"
            BY <1>2, <3>3, <3>5
        <3> QED BY <3>1, <3>3, <3>4, <3>6, HeldIsOpen
    <2> QED BY <1>5, <2>1 DEF CanAdvance
<1>6. CASE tx[t].pc = "finish"
    BY <1>6 DEF CanAdvance, Ready
<1> QED BY <1>1, <1>3, <1>4, <1>5, <1>6

\* Whoever holds a branch and not main waits for nobody.
LEMMA BranchHolderAdvances ==
    ASSUME OnePurger, TxInv, WorksFit, NEW d \in Names, d # Main, NEW u \in Txs,
           lock[d] = u, lock[Main] # u
    PROVE  tx[u].pc # "idle" /\ CanAdvance(u)
<1>p. TxTypeOK /\ LocksFit(u) /\ tx[u] \in TxRecords /\ (tx[u].op = "none" <=> tx[u].pc = "idle") /\ WorkFits(u)
    BY TxParts DEF WorksFit
<1>1. tx[u].pc # "idle"
    BY <1>p, BranchTxAssumption DEF TxTypeOK, Free
<1>2. d \in Held(u) /\ Main \notin Held(u)
    BY DEF Held
<1>3. CASE tx[u].op = "Purge"
    BY <1>1, <1>3, PurgeAdvances
<1>4. CASE tx[u].op \in WriteOps
    <2>1. Main \notin Rows(u)
        BY <1>2, <1>4, <1>p DEF WorkFits
    <2>2. d \in Rows(u)
        BY <1>2, <1>4, <1>p DEF LocksFit
    <2>3. tx[u].op # "CreateBranch" /\ Rows(u) = {d}
        BY <2>1, <2>2 DEF Rows
    <2>4. tx[u].pc # "lock"
        BY <1>2, <1>4, <1>p, <2>3 DEF LocksFit
    <2> QED BY <1>1, <1>4, <2>3, <2>4, UnlockedAdvances
<1> QED BY <1>1, <1>3, <1>4, <1>p, TxFields

\* Whoever holds main goes on, or waits for one that does.
LEMMA MainHolderAdvances ==
    ASSUME OnePurger, TxInv, WorksFit, NEW u \in Txs, lock[Main] = u
    PROVE  \E v \in Txs : tx[v].pc # "idle" /\ CanAdvance(v)
<1>p. /\ TxTypeOK /\ LocksFit(u) /\ tx[u] \in TxRecords /\ (tx[u].op = "none" <=> tx[u].pc = "idle")
      /\ Main \in Names /\ \A b \in Branches : b \in Names /\ b # Main
    BY TxParts
<1>1. tx[u].pc # "idle" /\ Main \in Held(u)
    BY <1>p, BranchTxAssumption DEF TxTypeOK, Free, Held
<1>2. ASSUME NEW b \in Branches, b \notin Held(u), ~ Free(b)
      PROVE  \E v \in Txs : tx[v].pc # "idle" /\ CanAdvance(v)
    <2>1. PICK v : v = lock[b]
        OBVIOUS
    <2>2. v \in Txs /\ v # u
        BY <1>2, <1>p, <2>1 DEF TxTypeOK, Free, Held
    <2>3. b \in Names /\ b # Main /\ lock[b] = v /\ lock[Main] # v
        BY <1>p, <2>1, <2>2
    <2> QED BY <2>2, <2>3, BranchHolderAdvances
<1>3. CASE tx[u].op = "Purge"
    BY <1>1, <1>3, PurgeAdvances
<1>4. CASE tx[u].op \in WriteOps /\ tx[u].pc = "lock"
    <2>1. NextRow(u) = tx[u].b /\ NextRow(u) \in Rows(u) \ Held(u)
        BY <1>1, <1>4, NextRowIs DEF NextRow
    <2>2. tx[u].b # Main
        BY <1>1, <2>1
    <2>3. tx[u].b \in Branches /\ tx[u].b \notin Held(u)
        BY <1>p, <2>1, <2>2, TxFields DEF Names
    <2>4. CASE Free(tx[u].b)
        BY <1>1, <1>4, <2>1, <2>4 DEF CanAdvance
    <2> QED BY <1>2, <2>3, <2>4
<1>5. CASE tx[u].op \in WriteOps /\ tx[u].pc # "lock"
    <2>1. CASE tx[u].op = "CreateBranch" /\ tx[u].pc = "finish" /\ ~ Free(tx[u].b)
        <3>1. tx[u].b \in Branches /\ Held(u) \subseteq {Main}
            BY <1>5, <1>p, <2>1 DEF LocksFit, Rows
        <3>2. tx[u].b \notin Held(u)
            BY <1>p, <3>1
        <3> QED BY <1>2, <2>1, <3>1, <3>2
    <2>2. CASE tx[u].op = "CreateBranch" => tx[u].pc # "finish" \/ Free(tx[u].b)
        BY <1>1, <1>5, <2>2, UnlockedAdvances
    <2> QED BY <2>1, <2>2
<1> QED BY <1>1, <1>3, <1>4, <1>5, <1>p, TxFields

\* The order of the locks keeps transactions from waiting for each other in a
\* circle: whoever waits, waits for one that goes on.
LEMMA NoDeadlock ==
    ASSUME OnePurger, TxInv, WorksFit
    PROVE  SomeTxAdvances
<1> SUFFICES ASSUME NEW t \in Txs, tx[t].pc # "idle"
             PROVE  \E v \in Txs : tx[v].pc # "idle" /\ CanAdvance(v)
    BY DEF SomeTxAdvances
<1>p. /\ TxTypeOK /\ tx[t] \in TxRecords /\ (tx[t].op = "none" <=> tx[t].pc = "idle")
    BY TxParts
<1>1. ASSUME NEW x \in Names, ~ Free(x)
      PROVE  \E v \in Txs : tx[v].pc # "idle" /\ CanAdvance(v)
    <2>1. PICK v : v = lock[x]
        OBVIOUS
    <2>2. v \in Txs
        BY <1>1, <1>p, <2>1 DEF TxTypeOK, Free
    <2>3. CASE lock[Main] = v
        BY <2>2, <2>3, MainHolderAdvances
    <2>4. CASE lock[Main] # v
        <3>1. x # Main /\ lock[x] = v
            BY <2>1, <2>4
        <3> QED BY <2>2, <2>4, <3>1, BranchHolderAdvances
    <2> QED BY <2>3, <2>4
<1>2. CASE tx[t].op = "Purge"
    BY <1>2, PurgeAdvances
<1>3. CASE tx[t].op \in WriteOps /\ tx[t].pc = "lock"
    <2>1. NextRow(t) \in Names
        BY <1>3, NextRowIs
    <2>2. CASE Free(NextRow(t))
        BY <1>3, <2>2 DEF CanAdvance
    <2> QED BY <1>1, <2>1, <2>2
<1>4. CASE tx[t].op \in WriteOps /\ tx[t].pc # "lock"
    <2>1. tx[t].b \in Names
        BY <1>p, TxFields
    <2>2. CASE Free(tx[t].b)
        BY <1>4, <2>2, UnlockedAdvances
    <2> QED BY <1>1, <2>1, <2>2
<1> QED BY <1>2, <1>3, <1>4, <1>p, TxFields

\* Whatever transactions are open, their locks, reads and numbers fit the tables:
\* nobody changes a branch, its head, its base or its rows under the lock of another
\* session of store.go; and they never all wait for each other, because main's row
\* is locked first, so that one of them takes its next statement.
THEOREM TxsHold == OnePurger => (TxSpec => []TxSound)
<1> SUFFICES ASSUME OnePurger PROVE TxSpec => []TxSound
    OBVIOUS
<1>1. TxInit => TxInv /\ WorksFit
    <2> SUFFICES ASSUME TxInit PROVE WorksFit
        BY TxInvInit
    <2>1. \A t \in Txs : tx[t] = Idle
        BY DEF TxInit
    <2>2. ASSUME NEW t \in Txs PROVE WorkFits(t)
        <3>1. tx[t].op = "none" /\ tx[t].pc = "idle" /\ tx[t].rows = {} /\ tx[t].oldCommits = {}
            BY <2>1 DEF Idle
        <3> QED BY <3>1 DEF WorkFits, WriteOps
    <2> QED BY <2>2 DEF WorksFit
<1>2. TxInv /\ [TxNext]_txVars => TxInv'
    BY TxInvStep
<1>3. TxInv /\ WorksFit /\ [TxNext]_txVars => WorksFit'
    BY WorksStep
<1>4. TxInv /\ WorksFit => TxSound
    BY NoDeadlock DEF TxInv, TxSound
<1> QED BY <1>1, <1>2, <1>3, <1>4, PTL DEF TxSpec
=============================================================================
