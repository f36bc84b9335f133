--------------------------- MODULE BranchStoreProofs ---------------------------
(***************************************************************************)
(* Proofs about BranchStore, for every set of branches, paths, versions,   *)
(* authors and sequence numbers.                                           *)
(***************************************************************************)
EXTENDS BranchStore, WellFoundedInduction, TLAPS

-----------------------------------------------------------------------------
(* Typing.                                                                 *)

\* Heads, bases and the sequences of rows are natural numbers.
LEMMA NumberTypes ==
    ASSUME TypeOK
    PROVE  /\ \A b \in Names : head[b] \in Nat /\ base[b] \in Nat
           /\ \A c \in commits : c.seq \in Nat \ {0} /\ c.branch \in Names
           /\ \A f \in file_commits : f.seq \in Nat \ {0} /\ f.branch \in Names
           /\ Main \in Names
           /\ \A b \in Branches : b \in Names /\ b # Main
<1>1. \A x \in SeqNos : x \in Nat \ {0}
    BY BranchStoreAssumption
<1>2. \A b \in Names : head[b] \in Nat /\ base[b] \in Nat
    BY <1>1 DEF TypeOK
<1>3. \A c \in commits : c.seq \in Nat \ {0} /\ c.branch \in Names
    BY <1>1 DEF TypeOK, CommitRows
<1>4. \A f \in file_commits : f.seq \in Nat \ {0} /\ f.branch \in Names
    BY <1>1 DEF TypeOK, FileRows
<1> QED
    BY <1>2, <1>3, <1>4, BranchStoreAssumption DEF Names

\* The sequences of a branch's commits are sequence numbers.
LEMMA BranchSeqsType ==
    ASSUME TypeOK, NEW b \in Names
    PROVE  BranchSeqs(commits, b) \in SUBSET SeqNos
BY DEF TypeOK, BranchSeqs, CommitRows

\* A commit row built by Commit, Merge or Rebase is well typed.
LEMMA NewCommitRowType ==
    ASSUME NEW b \in Names, NEW a \in Authors, NEW s \in SeqNos, NEW S \in SUBSET SeqNos
    PROVE  [seq |-> s, branch |-> b, author |-> a, prev |-> NewestBelow(S, s)] \in CommitRows
BY DEF NewestBelow, CommitRows

\* The initial state is well typed.
LEMMA TypeInit == Init => TypeOK
BY BranchStoreAssumption DEF Init, TypeOK, Names, Statuses

\* Every step preserves the types.
LEMMA TypeStep == TypeOK /\ [Next]_vars => TypeOK'
<1> SUFFICES ASSUME TypeOK, [Next]_vars PROVE TypeOK'
    OBVIOUS
<1> USE BranchStoreAssumption
<1>m. Main \in Names /\ \A b \in Branches : b \in Names /\ b # Main
    BY DEF Names
<1>1. ASSUME NEW b \in Names, NEW files \in Patches, NEW a \in Authors, NEW s \in SeqNos,
             Commit(b, files, a, s)
      PROVE  TypeOK'
    <2>1. commits' \subseteq CommitRows
        <3>1. CommitRow(commits, s, b, a) \in CommitRows
            BY NewCommitRowType, BranchSeqsType DEF CommitRow, fetchPrevCommitHash
        <3> QED BY <1>1, <3>1 DEF Commit, TypeOK
    <2>2. file_commits' \subseteq FileRows
        <3>1. \A p \in DOMAIN files : p \in Paths /\ files[p] \in FileVersions
            BY <1>1, BranchStoreAssumption DEF FileSets
        <3> QED BY <1>1, <3>1 DEF Commit, TypeOK, FileRows
    <2> QED
        BY <1>1, <2>1, <2>2, <1>m DEF Commit, NewSeq, TypeOK
<1>2. ASSUME NEW b \in Branches, NEW d \in BOOLEAN, CreateBranch(b, d)
      PROVE  TypeOK'
    BY <1>2, <1>m DEF CreateBranch, TypeOK, Statuses
<1>3. ASSUME NEW b \in Branches, NEW d \in BOOLEAN, UpdateBranchDraft(b, d)
      PROVE  TypeOK'
    BY <1>3, <1>m DEF UpdateBranchDraft, TypeOK
<1>4. ASSUME NEW b \in Branches, MergeEmpty(b)
      PROVE  TypeOK'
    BY <1>4, <1>m DEF MergeEmpty, TypeOK, Statuses
<1>5. ASSUME NEW b \in Branches, NEW a \in Authors, NEW s \in SeqNos, Merge(b, a, s)
      PROVE  TypeOK'
    <2>1. commits' \subseteq CommitRows
        <3>1. CommitRow(commits, s, Main, a) \in CommitRows
            BY <1>m, NewCommitRowType, BranchSeqsType DEF CommitRow, fetchPrevCommitHash
        <3> QED BY <1>5, <3>1 DEF Merge, TypeOK
    <2>2. file_commits' \subseteq FileRows
        <3>1. \A f \in latestChanges(b, base[b]) : f \in FileRows
            BY DEF TypeOK, latestChanges, DistinctOn, RowsSince
        <3>2. \A f \in FileRows : [f EXCEPT !.seq = s, !.branch = Main] \in FileRows
            BY <1>m DEF FileRows
        <3> QED BY <1>5, <3>1, <3>2 DEF Merge, TypeOK
    <2> QED
        BY <1>5, <2>1, <2>2, <1>m DEF Merge, TypeOK, Statuses
<1>6. ASSUME NEW b \in Branches, RebaseEmpty(b)
      PROVE  TypeOK'
    BY <1>6, <1>m DEF RebaseEmpty, TypeOK
<1>7. ASSUME NEW b \in Branches, NEW a \in Authors,
             NEW r \in [branchCommitGroups(b) -> SeqNos], NEW last \in branchCommitGroups(b),
             Rebase(b, a, r, last)
      PROVE  TypeOK'
    <2> DEFINE new == {r[q] : q \in DOMAIN r}
               seqs == BranchSeqs(commits, b) \cup new
    <2>1. new \in SUBSET SeqNos /\ r[last] \in new
        BY <1>7
    <2>2. commits' \subseteq CommitRows
        <3>1. seqs \in SUBSET SeqNos
            BY <2>1, <1>m, BranchSeqsType
        <3>2. \A n \in new : [seq |-> n, branch |-> b, author |-> a,
                              prev |-> NewestBelow(seqs, n)] \in CommitRows
            BY <2>1, <3>1, <1>m, NewCommitRowType
        <3> QED BY <1>7, <3>2 DEF Rebase, TypeOK
    <2>3. file_commits' \subseteq FileRows
        <3>1. \A f \in RowsSince(b, base[b]) : f \in FileRows /\ r[f.seq] \in SeqNos
            BY <1>7 DEF RowsSince, branchCommitGroups, TypeOK
        <3> QED BY <1>7, <3>1 DEF Rebase, ReplayedRows, FileRows, TypeOK
    <2> QED
        BY <1>7, <2>1, <2>2, <2>3, <1>m DEF Rebase, TypeOK
<1>8. ASSUME NEW b \in Branches, DeleteBranch(b)
      PROVE  TypeOK'
    BY <1>8, <1>m DEF DeleteBranch, TypeOK, Statuses
<1>9. ASSUME NEW gone \in SUBSET Terminal, Purge(gone)
      PROVE  TypeOK'
    BY <1>9, <1>m DEF Purge, Terminal, TypeOK, Statuses
<1>10. CASE UNCHANGED vars
    BY <1>10 DEF vars, TypeOK
<1> QED
    BY <1>1, <1>2, <1>3, <1>4, <1>5, <1>6, <1>7, <1>8, <1>9, <1>10 DEF Next

\* Spec keeps the tables well typed and main active.
THEOREM TypeCorrect == Spec => []TypeOK
<1>1. Init => TypeOK
    BY TypeInit
<1>2. TypeOK /\ [Next]_vars => TypeOK'
    BY TypeStep
<1> QED
    BY <1>1, <1>2, PTL DEF Spec

-----------------------------------------------------------------------------
(* One sequence number, one commit.                                        *)

\* Every step preserves SeqNamesCommit: new rows take a number that no row has.
LEMMA SeqNamesCommitStep ==
    TypeOK /\ SeqNamesCommit /\ [Next]_vars => SeqNamesCommit'
<1> SUFFICES ASSUME TypeOK, SeqNamesCommit, [Next]_vars PROVE SeqNamesCommit'
    OBVIOUS
<1>1. ASSUME NEW b \in Names, NEW files \in Patches, NEW a \in Authors, NEW s \in SeqNos,
             Commit(b, files, a, s)
      PROVE  SeqNamesCommit'
    <2>1. s \notin used /\ commits' = commits \cup {CommitRow(commits, s, b, a)} /\ used' = used \cup {s}
        BY <1>1 DEF Commit, NewSeq
    <2>2. CommitRow(commits, s, b, a).seq = s /\ CommitRow(commits, s, b, a).branch = b
        BY DEF CommitRow
    <2>3. \A f \in file_commits' : f \in file_commits \/ (f.seq = s /\ f.branch = b)
        BY <1>1 DEF Commit
    <2> QED BY <2>1, <2>2, <2>3 DEF SeqNamesCommit
<1>2. ASSUME NEW b \in Branches, NEW a \in Authors, NEW s \in SeqNos, Merge(b, a, s)
      PROVE  SeqNamesCommit'
    <2>1. s \notin used /\ commits' = commits \cup {CommitRow(commits, s, Main, a)} /\ used' = used \cup {s}
        BY <1>2 DEF Merge, NewSeq
    <2>2. CommitRow(commits, s, Main, a).seq = s /\ CommitRow(commits, s, Main, a).branch = Main
        BY DEF CommitRow
    <2>3. \A f \in file_commits' : f \in file_commits \/ (f.seq = s /\ f.branch = Main)
        <3>1. \A f \in latestChanges(b, base[b]) : f \in FileRows
            BY DEF TypeOK, latestChanges, DistinctOn, RowsSince
        <3> QED BY <1>2, <3>1 DEF Merge, FileRows
    <2> QED BY <2>1, <2>2, <2>3 DEF SeqNamesCommit
<1>3. ASSUME NEW b \in Branches, NEW a \in Authors,
             NEW r \in [branchCommitGroups(b) -> SeqNos], NEW last \in branchCommitGroups(b),
             Rebase(b, a, r, last)
      PROVE  SeqNamesCommit'
    <2> DEFINE new == {r[q] : q \in DOMAIN r}
               row(n) == [seq |-> n, branch |-> b, author |-> a,
                          prev |-> NewestBelow(BranchSeqs(commits, b) \cup new, n)]
    <2>1. commits' = commits \cup {row(n) : n \in new} /\ used' = used \cup new
        BY <1>3 DEF Rebase
    <2>2. \A n \in new : n \notin used
        BY <1>3 DEF Rebase, ReplaySeqs, NewSeq
    <2>3. \A n : row(n).seq = n /\ row(n).branch = b
        OBVIOUS
    <2>4. \A f \in file_commits' : f \in file_commits \/ (f.seq \in new /\ f.branch = b)
        <3>1. \A f \in RowsSince(b, base[b]) : f \in FileRows /\ f.branch = b /\ f.seq \in DOMAIN r
            BY <1>3 DEF TypeOK, RowsSince, branchCommitGroups
        <3>2. \A f \in ReplayedRows(b, r) : f.seq \in new /\ f.branch = b
            BY <3>1 DEF ReplayedRows, FileRows
        <3> QED BY <1>3, <3>2 DEF Rebase
    <2> HIDE DEF row, new
    <2>5. \A c, d \in commits' : c.seq = d.seq => c = d
        BY <2>1, <2>2, <2>3 DEF SeqNamesCommit
    <2>6. \A f \in file_commits' : \E c \in commits' : c.seq = f.seq /\ c.branch = f.branch
        BY <2>1, <2>3, <2>4 DEF SeqNamesCommit
    <2>7. \A c \in commits' : c.seq \in used'
        BY <2>1, <2>3 DEF SeqNamesCommit
    <2> QED BY <2>5, <2>6, <2>7 DEF SeqNamesCommit
<1>4. ASSUME NEW gone \in SUBSET Terminal, Purge(gone)
      PROVE  SeqNamesCommit'
    BY <1>4 DEF Purge, SeqNamesCommit
<1>5. ASSUME UNCHANGED <<commits, file_commits, used>>
      PROVE  SeqNamesCommit'
    BY <1>5 DEF SeqNamesCommit
<1> QED
    BY <1>1, <1>2, <1>3, <1>4, <1>5
    DEF Next, vars, CreateBranch, UpdateBranchDraft, MergeEmpty, RebaseEmpty, DeleteBranch

-----------------------------------------------------------------------------
(* The newest row of a query.                                              *)

\* A non-empty set of naturals with an upper bound has a greatest element.
LEMMA GreatestExists ==
    ASSUME NEW S \in SUBSET Nat, S # {}, NEW m \in Nat, \A x \in S : x <= m
    PROVE  \E x \in S : \A y \in S : y <= x
<1> DEFINE T == {m - x : x \in S}
           less == OpToRel(<, Nat)
<1>1. T \subseteq Nat
    OBVIOUS
<1>2. T # {}
    OBVIOUS
<1>3. \E t \in T : \A u \in T : ~ (<<u, t>> \in less)
    BY <1>1, <1>2, NatLessThanWellFounded, WFMin
<1>r. \A u, t \in Nat : u < t => <<u, t>> \in less
    BY DEF OpToRel
<1>4. PICK t \in T : \A u \in T : t <= u
    <2> HIDE DEF T, less
    <2>1. PICK t \in T : \A u \in T : ~ (<<u, t>> \in less)
        BY <1>3
    <2>2. \A u \in T : ~ (u < t)
        BY <1>1, <2>1, <1>r
    <2>3. \A u \in T : t <= u
        BY <1>1, <2>1, <2>2
    <2> QED BY <2>1, <2>3
<1>5. PICK x \in S : t = m - x
    BY <1>4
<1>6. \A y \in S : m - x <= m - y
    BY <1>4, <1>5
<1> HIDE DEF T, less
<1>7. \A y \in S : y <= x
    BY <1>6
<1> QED BY <1>7

\* Among the rows of a query with a bounded sequence, every path that occurs
\* has a newest row: DISTINCT ON (path) returns one for it.
LEMMA NewestRowExists ==
    ASSUME NEW R, NEW m \in Nat, \A f \in R : f.seq \in Nat /\ f.seq <= m,
           NEW f0 \in R
    PROVE  \E f \in R : f.path = f0.path /\ \A g \in R : g.path = f.path => g.seq <= f.seq
<1> DEFINE S == {f.seq : f \in {g \in R : g.path = f0.path}}
<1>1. S \in SUBSET Nat /\ S # {} /\ \A x \in S : x <= m
    OBVIOUS
<1>2. PICK x \in S : \A y \in S : y <= x
    BY <1>1, GreatestExists
<1> QED BY <1>2

-----------------------------------------------------------------------------
(* Heads and bases.                                                        *)

\* What a transaction that creates rows under the lock of branch b does to it:
\* Commit on b, and Merge on main, add rows above the head and move the head.
LEMMA AppendKeepsHeads ==
    ASSUME TypeOK, HeadCoversBranch, BranchRowsReplayed,
           NEW b \in Names, NEW s \in SeqNos, s > head[b], Exists(b),
           NEW R, R # {}, \A f \in R : f.seq = s /\ f.branch = b,
           NEW c, c.seq = s, c.branch = b,
           commits' = commits \cup {c}, file_commits' = file_commits \cup R,
           head' = [head EXCEPT ![b] = s], base' = base,
           \A d \in Names : Exists(d) => Exists(d)'
    PROVE  HeadCoversBranch' /\ BranchRowsReplayed'
<1> USE NumberTypes
<1>s. s \in Nat
    BY BranchStoreAssumption
<1>h. head' \in [Names -> Nat] /\ \A d \in Names : head'[d] >= head[d] /\ (d # b => head'[d] = head[d])
    BY <1>s DEF TypeOK
<1>b. head'[b] = s /\ base[b] <= s
    BY <1>s DEF TypeOK, HeadCoversBranch
<1>1. \A d \in Names : head'[d] = base'[d] \/ \E f \in file_commits' : f.branch = d /\ f.seq = head'[d]
    BY <1>h, <1>b DEF HeadCoversBranch
<1>2. \A d \in Names : base'[d] <= head'[d] /\ base'[d] <= head'[Main]
    BY <1>h DEF HeadCoversBranch
<1>3. \A x \in commits' : Exists(x.branch)' /\ x.seq <= head'[x.branch]
    BY <1>h, <1>b, <1>s DEF HeadCoversBranch
<1>4. \A f \in file_commits' : Exists(f.branch)' /\ f.seq <= head'[f.branch]
    BY <1>h, <1>b, <1>s DEF HeadCoversBranch
<1>5. BranchRowsReplayed'
    <2>1. ASSUME NEW f \in file_commits'
          PROVE  \E g \in file_commits' : g.branch = f.branch /\ g.path = f.path /\ g.seq > base'[f.branch]
        <3>1. CASE f \in file_commits
            BY <3>1 DEF BranchRowsReplayed
        <3>2. CASE f \in R
            BY <3>2, <1>s DEF HeadCoversBranch
        <3> QED BY <2>1, <3>1, <3>2
    <2> QED BY <2>1 DEF BranchRowsReplayed
<1> QED BY <1>1, <1>2, <1>3, <1>4, <1>5 DEF HeadCoversBranch

\* The initial state satisfies the inductive invariant.
LEMMA IInvInit == Init => IInv
<1> SUFFICES ASSUME Init PROVE IInv
    OBVIOUS
<1>1. TypeOK
    BY TypeInit
<1>2. SeqNamesCommit /\ HeadCoversBranch /\ BranchRowsReplayed
    BY DEF Init, SeqNamesCommit, HeadCoversBranch, BranchRowsReplayed, Names
<1> QED BY <1>1, <1>2 DEF IInv

\* Every step preserves the inductive invariant.
LEMMA IInvStep == IInv /\ [Next]_vars => IInv'
<1> SUFFICES ASSUME IInv, [Next]_vars PROVE HeadCoversBranch' /\ BranchRowsReplayed'
    BY TypeStep, SeqNamesCommitStep DEF IInv
<1> USE DEF IInv
<1>n. /\ \A b \in Names : head[b] \in Nat /\ base[b] \in Nat
      /\ \A c \in commits : c.seq \in Nat \ {0} /\ c.branch \in Names
      /\ \A f \in file_commits : f.seq \in Nat \ {0} /\ f.branch \in Names
      /\ Main \in Names
      /\ \A b \in Branches : b \in Names /\ b # Main
      /\ \A s \in SeqNos : s \in Nat
    BY NumberTypes, BranchStoreAssumption
<1>1. ASSUME NEW b \in Names, NEW files \in Patches, NEW a \in Authors, NEW s \in SeqNos,
             Commit(b, files, a, s)
      PROVE  HeadCoversBranch' /\ BranchRowsReplayed'
    <2> DEFINE R == {[seq |-> s, branch |-> b, path |-> p, ver |-> files[p]] : p \in DOMAIN files}
               c == CommitRow(commits, s, b, a)
    <2>1. R # {} /\ \A f \in R : f.seq = s /\ f.branch = b
        <3>1. PICK P \in (SUBSET Paths) \ {{}} : files \in [P -> FileVersions]
            BY BranchStoreAssumption DEF FileSets
        <3>2. PICK p \in P : p \in DOMAIN files
            BY <3>1
        <3>3. [seq |-> s, branch |-> b, path |-> p, ver |-> files[p]] \in R
            BY <3>2
        <3>4. \A f \in R : f.seq = s /\ f.branch = b
            OBVIOUS
        <3> HIDE DEF R
        <3> QED BY <3>3, <3>4
    <2>2. c.seq = s /\ c.branch = b
        BY DEF CommitRow
    <2>3. /\ s > head[b] /\ Exists(b)
          /\ commits' = commits \cup {c} /\ file_commits' = file_commits \cup R
          /\ head' = [head EXCEPT ![b] = s] /\ base' = base
          /\ \A d \in Names : Exists(d) => Exists(d)'
        BY <1>1 DEF Commit, NewSeq, Exists
    <2> HIDE DEF R, c
    <2> QED BY <2>1, <2>2, <2>3, AppendKeepsHeads
<1>2. ASSUME NEW b \in Branches, NEW d \in BOOLEAN, CreateBranch(b, d)
      PROVE  HeadCoversBranch' /\ BranchRowsReplayed'
    <2>1. \A c \in commits : c.branch # b
        BY <1>2 DEF CreateBranch, HeadCoversBranch, Exists
    <2>2. \A f \in file_commits : f.branch # b
        BY <1>2 DEF CreateBranch, HeadCoversBranch, Exists
    <2>3. /\ head' \in [Names -> Nat] /\ base' \in [Names -> Nat]
          /\ \A e \in Names : e # b => head'[e] = head[e] /\ base'[e] = base[e] /\ status'[e] = status[e]
          /\ head'[b] = head[Main] /\ base'[b] = head[Main]
          /\ commits' = commits /\ file_commits' = file_commits
        BY <1>2, <1>n DEF CreateBranch, TypeOK
    <2>4. HeadCoversBranch'
        BY <2>1, <2>2, <2>3, <1>n DEF HeadCoversBranch, Exists
    <2>5. BranchRowsReplayed'
        BY <2>2, <2>3, <1>n DEF BranchRowsReplayed
    <2> QED BY <2>4, <2>5
<1>3. ASSUME NEW b \in Branches, NEW a \in Authors, NEW s \in SeqNos, Merge(b, a, s)
      PROVE  HeadCoversBranch' /\ BranchRowsReplayed'
    <2> DEFINE R == {[f EXCEPT !.seq = s, !.branch = Main] : f \in latestChanges(b, base[b])}
               c == CommitRow(commits, s, Main, a)
    <2>1. \A f \in R : f.seq = s /\ f.branch = Main
        <3>1. \A f \in latestChanges(b, base[b]) : f \in FileRows
            BY DEF TypeOK, latestChanges, DistinctOn, RowsSince
        <3> QED BY <3>1 DEF FileRows
    <2>2. R # {}
        <3>1. RowsSince(b, base[b]) # {}
            BY <1>3 DEF Merge, ChangedPaths
        <3>2. \A f \in RowsSince(b, base[b]) : f \in file_commits /\ f.seq <= head[b]
            BY DEF RowsSince, HeadCoversBranch
        <3>3. latestChanges(b, base[b]) # {}
            BY <3>1, <3>2, <1>n, NewestRowExists DEF latestChanges, DistinctOn
        <3> QED BY <3>3
    <2>3. c.seq = s /\ c.branch = Main
        BY DEF CommitRow
    <2>4. /\ s > head[Main] /\ Exists(Main)
          /\ commits' = commits \cup {c} /\ file_commits' = file_commits \cup R
          /\ head' = [head EXCEPT ![Main] = s] /\ base' = base
          /\ \A d \in Names : Exists(d) => Exists(d)'
        BY <1>3, <1>n DEF Merge, Mergeable, NewSeq, Exists, TypeOK
    <2> HIDE DEF R, c
    <2> QED BY <2>1, <2>2, <2>3, <2>4, <1>n, AppendKeepsHeads
<1>4. ASSUME NEW b \in Branches, RebaseEmpty(b)
      PROVE  HeadCoversBranch' /\ BranchRowsReplayed'
    <2>1. \A f \in file_commits : f.branch # b
        BY <1>4 DEF RebaseEmpty, ChangedPaths, RowsSince, BranchRowsReplayed
    <2>2. head[b] = base[b]
        BY <2>1, <1>n DEF HeadCoversBranch
    <2>3. /\ head' \in [Names -> Nat] /\ base' \in [Names -> Nat]
          /\ \A e \in Names : e # b => head'[e] = head[e] /\ base'[e] = base[e]
          /\ head'[b] = head[Main] /\ base'[b] = head[Main]
          /\ commits' = commits /\ file_commits' = file_commits /\ status' = status
        BY <1>4, <1>n DEF RebaseEmpty, TypeOK
    <2>4. HeadCoversBranch'
        BY <2>1, <2>2, <2>3, <1>n DEF HeadCoversBranch, Exists
    <2>5. BranchRowsReplayed'
        BY <2>1, <2>3, <1>n DEF BranchRowsReplayed
    <2> QED BY <2>4, <2>5
<1>5. ASSUME NEW b \in Branches, NEW a \in Authors,
             NEW r \in [branchCommitGroups(b) -> SeqNos], NEW last \in branchCommitGroups(b),
             Rebase(b, a, r, last)
      PROVE  HeadCoversBranch' /\ BranchRowsReplayed'
    <2> DEFINE groups == branchCommitGroups(b)
               old == RowsSince(b, base[b])
    <2>1. \A q \in groups : r[q] \in Nat /\ r[q] > head[Main] /\ r[q] > head[b] /\ r[q] <= r[last]
        <3>1. \A q \in groups : r[q] \in Nat /\ r[q] > head[Main] /\ r[q] > head[b]
            BY <1>5, <1>n DEF Rebase, ReplaySeqs, NewSeq
        <3>2. \A q \in groups : q \in Nat /\ q <= last
            BY <1>5, <1>n DEF Rebase, branchCommitGroups, RowsSince
        <3>3. \A q \in groups : q < last => r[q] < r[last]
            BY <1>5 DEF Rebase, ReplaySeqs
        <3> QED BY <3>1, <3>2, <3>3
    <2>2. \A f \in old : f \in file_commits /\ f \in FileRows /\ f.branch = b /\ f.seq \in groups
        BY DEF RowsSince, branchCommitGroups, TypeOK
    <2>3. \A f \in old : /\ [f EXCEPT !.seq = r[f.seq]] \in file_commits'
                         /\ [f EXCEPT !.seq = r[f.seq]].branch = b
                         /\ [f EXCEPT !.seq = r[f.seq]].path = f.path
                         /\ [f EXCEPT !.seq = r[f.seq]].seq = r[f.seq]
        BY <1>5, <2>2 DEF Rebase, ReplayedRows, FileRows
    <2>4. \A g \in file_commits' : g \in file_commits \/
              \E f \in old : g.branch = b /\ g.path = f.path /\ g.seq = r[f.seq]
        BY <1>5, <2>2 DEF Rebase, ReplayedRows, FileRows
    <2>5. \A c \in commits' : c \in commits \/ (c.branch = b /\ \E q \in groups : c.seq = r[q])
        <3> DEFINE new == {r[q] : q \in groups}
                   row(n) == [seq |-> n, branch |-> b, author |-> a,
                              prev |-> NewestBelow(BranchSeqs(commits, b) \cup new, n)]
        <3>1. DOMAIN r = groups
            OBVIOUS
        <3>2. commits' = commits \cup {row(n) : n \in new}
            BY <1>5, <3>1 DEF Rebase
        <3>3. \A n : row(n).branch = b /\ row(n).seq = n
            OBVIOUS
        <3> HIDE DEF row
        <3> QED BY <3>2, <3>3
    <2>6. /\ head' \in [Names -> Nat] /\ base' \in [Names -> Nat]
          /\ \A e \in Names : e # b => head'[e] = head[e] /\ base'[e] = base[e]
          /\ head'[b] = r[last] /\ base'[b] = head[Main]
          /\ status' = status /\ Exists(b)
          /\ file_commits \subseteq file_commits'
        BY <1>5, <1>n, <2>1 DEF Rebase, TypeOK, Exists
    <2>7. last \in groups /\ \E f \in old : f.seq = last
        BY DEF branchCommitGroups
    <2> HIDE DEF groups, old
    <2>8. \A d \in Names : head'[d] = base'[d] \/ \E f \in file_commits' : f.branch = d /\ f.seq = head'[d]
        <3>1. \E f \in file_commits' : f.branch = b /\ f.seq = head'[b]
            BY <2>3, <2>6, <2>7
        <3> QED BY <3>1, <2>6 DEF HeadCoversBranch
    <2>9. \A d \in Names : base'[d] <= head'[d] /\ base'[d] <= head'[Main]
        BY <2>1, <2>6, <2>7, <1>n DEF HeadCoversBranch
    <2>10. \A c \in commits' : Exists(c.branch)' /\ c.seq <= head'[c.branch]
        <3>1. \A c \in commits : Exists(c.branch)' /\ c.seq <= head'[c.branch]
            BY <2>1, <2>6, <2>7, <1>n DEF HeadCoversBranch, Exists
        <3> QED BY <3>1, <2>5, <2>1, <2>6 DEF Exists
    <2>11. \A f \in file_commits' : Exists(f.branch)' /\ f.seq <= head'[f.branch]
        <3>1. \A f \in file_commits : Exists(f.branch)' /\ f.seq <= head'[f.branch]
            BY <2>1, <2>6, <2>7, <1>n DEF HeadCoversBranch, Exists
        <3> QED BY <3>1, <2>4, <2>2, <2>1, <2>6 DEF Exists
    <2>12. BranchRowsReplayed'
        <3>1. ASSUME NEW f \in file_commits, f.branch # b
              PROVE  \E g \in file_commits' : g.branch = f.branch /\ g.path = f.path /\ g.seq > base'[f.branch]
            BY <3>1, <2>6, <1>n DEF BranchRowsReplayed
        <3>2. ASSUME NEW f \in old
              PROVE  \E g \in file_commits' : g.branch = b /\ g.path = f.path /\ g.seq > base'[b]
            BY <2>1, <2>2, <2>3, <2>6
        <3>3. ASSUME NEW f \in file_commits, f.branch = b
              PROVE  \E h \in old : h.path = f.path
            BY <3>3 DEF BranchRowsReplayed, old, RowsSince
        <3>4. ASSUME NEW f \in file_commits'
              PROVE  \E g \in file_commits' : g.branch = f.branch /\ g.path = f.path /\ g.seq > base'[f.branch]
            <4>1. CASE f \in file_commits /\ f.branch # b
                BY <4>1, <3>1
            <4>2. CASE f \in file_commits /\ f.branch = b
                BY <4>2, <3>2, <3>3
            <4>3. CASE f \notin file_commits
                BY <4>3, <3>2, <2>4
            <4> QED BY <4>1, <4>2, <4>3
        <3> QED BY <3>4 DEF BranchRowsReplayed
    <2> QED BY <2>8, <2>9, <2>10, <2>11, <2>12 DEF HeadCoversBranch
<1>6. ASSUME NEW gone \in SUBSET Terminal, Purge(gone)
      PROVE  HeadCoversBranch' /\ BranchRowsReplayed'
    <2>1. Main \notin gone
        BY <1>n DEF Terminal
    <2>2. /\ head' \in [Names -> Nat] /\ base' \in [Names -> Nat]
          /\ \A e \in Names \ gone : head'[e] = head[e] /\ base'[e] = base[e] /\ status'[e] = status[e]
          /\ \A e \in Names \cap gone : head'[e] = 0 /\ base'[e] = 0
        BY <1>6, <1>n DEF Purge, TypeOK
    <2>3. file_commits' = {f \in file_commits : f.branch \notin gone}
        BY <1>6 DEF Purge
    <2>4. \A c \in commits' : c \in commits /\ c.branch \notin gone
        BY <1>6 DEF Purge, SeqNamesCommit
    <2>5. HeadCoversBranch'
        <3>1. \A d \in Names : head'[d] = base'[d] \/ \E f \in file_commits' : f.branch = d /\ f.seq = head'[d]
            BY <2>2, <2>3 DEF HeadCoversBranch
        <3>2. \A d \in Names : base'[d] <= head'[d] /\ base'[d] <= head'[Main]
            BY <2>1, <2>2, <1>n DEF HeadCoversBranch
        <3>3. \A c \in commits' : Exists(c.branch)' /\ c.seq <= head'[c.branch]
            BY <2>2, <2>4, <1>n DEF HeadCoversBranch, Exists
        <3>4. \A f \in file_commits' : Exists(f.branch)' /\ f.seq <= head'[f.branch]
            BY <2>2, <2>3, <1>n DEF HeadCoversBranch, Exists
        <3> QED BY <3>1, <3>2, <3>3, <3>4 DEF HeadCoversBranch
    <2>6. BranchRowsReplayed'
        BY <2>2, <2>3, <1>n DEF BranchRowsReplayed
    <2> QED BY <2>5, <2>6
<1>7. ASSUME UNCHANGED <<head, base, commits, file_commits>>,
             \A d \in Names : Exists(d) => Exists(d)'
      PROVE  HeadCoversBranch' /\ BranchRowsReplayed'
    <2>1. HeadCoversBranch'
        BY <1>7, <1>n DEF HeadCoversBranch
    <2>2. BranchRowsReplayed'
        BY <1>7 DEF BranchRowsReplayed
    <2> QED BY <2>1, <2>2
<1>8. ASSUME NEW b \in Branches, MergeEmpty(b) \/ DeleteBranch(b) \/ \E d \in BOOLEAN : UpdateBranchDraft(b, d)
      PROVE  HeadCoversBranch' /\ BranchRowsReplayed'
    <2>1. UNCHANGED <<head, base, commits, file_commits>>
        BY <1>8 DEF MergeEmpty, DeleteBranch, UpdateBranchDraft
    <2>2. \A d \in Names : Exists(d) => Exists(d)'
        BY <1>8, <1>n DEF MergeEmpty, DeleteBranch, UpdateBranchDraft, Exists, TypeOK
    <2> QED BY <2>1, <2>2, <1>7
<1>9. ASSUME UNCHANGED vars
      PROVE  HeadCoversBranch' /\ BranchRowsReplayed'
    BY <1>9, <1>7 DEF vars, Exists
<1> QED
    BY <1>1, <1>2, <1>3, <1>4, <1>5, <1>6, <1>8, <1>9 DEF Next

\* Sequences name commits, heads cover their branches and rebased changes stay
\* visible after the base, in every reachable state of the store.
THEOREM StoreConsistent == Spec => []IInv
<1> QED BY IInvInit, IInvStep, PTL DEF Spec

-----------------------------------------------------------------------------
(* Reading a branch.                                                       *)

\* The scan of MaterializeTree agrees with the overlay of the changes since
\* the base on main as of the base.
LEMMA OverlayFromIInv == IInv => TreeIsOverlay
<1> SUFFICES ASSUME IInv, NEW b \in Names, Exists(b)
             PROVE  DistinctOn(VisibleRows(b)) =
                        latestChanges(b, base[b]) \cup
                        {f \in DistinctOn({g \in file_commits : g.branch = Main /\ g.seq <= base[b]}) :
                            f.path \notin ChangedPaths(b, base[b])}
    BY DEF TreeIsOverlay
<1> DEFINE inherited == {g \in file_commits : g.branch = Main /\ g.seq <= base[b]}
           kept == {f \in DistinctOn(inherited) : f.path \notin ChangedPaths(b, base[b])}
<1>n. /\ base[b] \in Nat
      /\ \A f \in file_commits : f.seq \in Nat \ {0}
    BY NumberTypes DEF IInv
<1>1. \A f \in VisibleRows(b) : f.branch = b \/ f \in inherited
    BY DEF VisibleRows
<1>2. \A f \in VisibleRows(b) : f \in file_commits
    BY DEF VisibleRows
<1>3. \A f \in inherited : f \in VisibleRows(b) /\ f.seq <= base[b]
    BY DEF VisibleRows
<1>4. \A f \in RowsSince(b, base[b]) : f \in VisibleRows(b) /\ f.seq > base[b] /\ f \notin inherited
    BY <1>n DEF RowsSince, VisibleRows
<1>5. \A f \in VisibleRows(b) : f \notin inherited =>
          f.path \in ChangedPaths(b, base[b])
    BY <1>1, <1>2 DEF IInv, BranchRowsReplayed, ChangedPaths, RowsSince
<1>6. \A f \in VisibleRows(b) : f.seq > base[b] => f \in RowsSince(b, base[b])
    BY <1>1, <1>2, <1>3, <1>n DEF RowsSince
<1>7. ASSUME NEW f \in DistinctOn(VisibleRows(b))
      PROVE  f \in latestChanges(b, base[b]) \cup kept
    <2>1. f \in VisibleRows(b) /\ \A g \in VisibleRows(b) : g.path = f.path => g.seq <= f.seq
        BY <1>7 DEF DistinctOn
    <2>2. CASE f.path \in ChangedPaths(b, base[b])
        <3>1. PICK g \in RowsSince(b, base[b]) : g.path = f.path
            BY <2>2 DEF ChangedPaths
        <3>2. f.seq > base[b]
            BY <2>1, <3>1, <1>2, <1>4, <1>n
        <3>3. f \in RowsSince(b, base[b])
            BY <2>1, <3>2, <1>6
        <3> QED BY <2>1, <3>3, <1>4 DEF latestChanges, DistinctOn
    <2>3. CASE f.path \notin ChangedPaths(b, base[b])
        <3>1. f \in inherited
            BY <2>1, <2>3, <1>5
        <3>2. f \in DistinctOn(inherited)
            BY <2>1, <3>1, <1>3 DEF DistinctOn
        <3> QED BY <2>3, <3>2
    <2> QED BY <2>2, <2>3
<1>8. ASSUME NEW f \in latestChanges(b, base[b])
      PROVE  f \in DistinctOn(VisibleRows(b))
    <2>1. f \in RowsSince(b, base[b]) /\ \A g \in RowsSince(b, base[b]) : g.path = f.path => g.seq <= f.seq
        BY <1>8 DEF latestChanges, DistinctOn
    <2>2. ASSUME NEW g \in VisibleRows(b), g.path = f.path
          PROVE  g.seq <= f.seq
        BY <2>1, <2>2, <1>2, <1>4, <1>6, <1>n
    <2> QED BY <2>1, <2>2, <1>4 DEF DistinctOn
<1>9. ASSUME NEW f \in kept
      PROVE  f \in DistinctOn(VisibleRows(b))
    <2>1. f \in inherited /\ \A g \in inherited : g.path = f.path => g.seq <= f.seq
        BY <1>9 DEF DistinctOn
    <2>2. f.path \notin ChangedPaths(b, base[b])
        BY <1>9
    <2>3. ASSUME NEW g \in VisibleRows(b), g.path = f.path
          PROVE  g.seq <= f.seq
        <3> HIDE DEF inherited
        <3>1. g \in inherited
            BY <2>2, <2>3, <1>5
        <3> QED BY <3>1, <2>3, <2>1
    <2> HIDE DEF inherited
    <2> QED BY <2>1, <2>3, <1>3 DEF DistinctOn
<1> HIDE DEF kept
<1>10. DistinctOn(VisibleRows(b)) = latestChanges(b, base[b]) \cup kept
    BY <1>7, <1>8, <1>9
<1> QED BY <1>10 DEF kept

\* What a reader of a branch sees is its changes over main at its base.
THEOREM BranchIsOverlay == Spec => []TreeIsOverlay
<1>1. Init => IInv
    BY IInvInit
<1>2. IInv /\ [Next]_vars => IInv'
    BY IInvStep
<1> QED BY <1>1, <1>2, OverlayFromIInv, PTL DEF Spec

-----------------------------------------------------------------------------
(* The hash chain.                                                         *)

\* Numbers that are not below n do not matter to what is newest below n.
LEMMA NewestBelowExtend ==
    ASSUME NEW S, NEW T, NEW n, \A t \in T : ~ (t < n)
    PROVE  NewestBelow(S \cup T, n) = NewestBelow(S, n)
BY DEF NewestBelow

\* Every step preserves the chain: commits are only appended to a branch, and
\* Purge removes a branch's commits all at once.
LEMMA ChainStep == IInv /\ ChainLinear /\ [Next]_vars => ChainLinear'
<1> SUFFICES ASSUME IInv, ChainLinear, [Next]_vars PROVE ChainLinear'
    OBVIOUS
<1>n. /\ \A b \in Names : head[b] \in Nat
      /\ \A c \in commits : c.seq \in Nat \ {0} /\ c.branch \in Names /\ c.seq <= head[c.branch]
      /\ \A s \in SeqNos : s \in Nat
      /\ Main \in Names
      /\ \A b \in Branches : b \in Names
    BY NumberTypes, BranchStoreAssumption DEF IInv, HeadCoversBranch
<1>1. ASSUME NEW b \in Names, NEW a \in Authors, NEW s \in SeqNos, s > head[b],
             commits' = commits \cup {CommitRow(commits, s, b, a)}
      PROVE  ChainLinear'
    <2> DEFINE new == CommitRow(commits, s, b, a)
    <2>1. new.seq = s /\ new.branch = b /\ new.prev = NewestBelow(BranchSeqs(commits, b), s)
        BY DEF CommitRow, fetchPrevCommitHash
    <2> HIDE DEF new
    <2>2. BranchSeqs(commits', b) = BranchSeqs(commits, b) \cup {s}
        BY <1>1, <2>1 DEF BranchSeqs, new
    <2>3. \A d \in Names : d # b => BranchSeqs(commits', d) = BranchSeqs(commits, d)
        BY <1>1, <2>1 DEF BranchSeqs, new
    <2>4. ASSUME NEW c \in commits'
          PROVE  c.prev = NewestBelow(BranchSeqs(commits', c.branch), c.seq)
        <3>1. CASE c = new
            <4>1. \A t \in {s} : ~ (t < s)
                BY <1>n
            <4>2. NewestBelow(BranchSeqs(commits, b) \cup {s}, s) = NewestBelow(BranchSeqs(commits, b), s)
                BY <4>1, NewestBelowExtend
            <4> QED BY <3>1, <4>2, <2>1, <2>2
        <3>2. CASE c \in commits /\ c.branch = b
            <4>1. \A t \in {s} : ~ (t < c.seq)
                BY <3>2, <1>1, <1>n
            <4>2. NewestBelow(BranchSeqs(commits, b) \cup {s}, c.seq) = NewestBelow(BranchSeqs(commits, b), c.seq)
                BY <4>1, NewestBelowExtend
            <4> QED BY <3>2, <4>2, <2>2 DEF ChainLinear
        <3>3. CASE c \in commits /\ c.branch # b
            BY <3>3, <2>3, <1>n DEF ChainLinear
        <3> QED BY <1>1, <2>4, <3>1, <3>2, <3>3 DEF new
    <2> QED BY <2>4 DEF ChainLinear
<1>2. ASSUME NEW b \in Branches, NEW a \in Authors,
             NEW r \in [branchCommitGroups(b) -> SeqNos], NEW last \in branchCommitGroups(b),
             Rebase(b, a, r, last)
      PROVE  ChainLinear'
    <2> DEFINE new == {r[q] : q \in DOMAIN r}
               seqs == BranchSeqs(commits, b) \cup new
               row(n) == [seq |-> n, branch |-> b, author |-> a, prev |-> NewestBelow(seqs, n)]
    <2>1. commits' = commits \cup {row(n) : n \in new}
        BY <1>2 DEF Rebase
    <2>2. \A n : row(n).seq = n /\ row(n).branch = b /\ row(n).prev = NewestBelow(seqs, n)
        OBVIOUS
    <2>3. \A n \in new : n \in Nat /\ n > head[b]
        BY <1>2, <1>n DEF Rebase, ReplaySeqs, NewSeq
    <2> HIDE DEF new, row
    <2>4. BranchSeqs(commits', b) = seqs
        BY <2>1, <2>2 DEF BranchSeqs
    <2>5. \A d \in Names : d # b => BranchSeqs(commits', d) = BranchSeqs(commits, d)
        BY <2>1, <2>2 DEF BranchSeqs
    <2>6. ASSUME NEW c \in commits'
          PROVE  c.prev = NewestBelow(BranchSeqs(commits', c.branch), c.seq)
        <3>1. CASE \E n \in new : c = row(n)
            BY <3>1, <2>2, <2>4
        <3>2. CASE c \in commits /\ c.branch = b
            <4>1. \A t \in new : ~ (t < c.seq)
                BY <3>2, <2>3, <1>n
            <4>2. NewestBelow(seqs, c.seq) = NewestBelow(BranchSeqs(commits, b), c.seq)
                BY <4>1, NewestBelowExtend
            <4> QED BY <3>2, <4>2, <2>4 DEF ChainLinear
        <3>3. CASE c \in commits /\ c.branch # b
            BY <3>3, <2>5, <1>n DEF ChainLinear
        <3> QED BY <2>1, <2>6, <3>1, <3>2, <3>3
    <2> QED BY <2>6 DEF ChainLinear
<1>3. ASSUME NEW gone \in SUBSET Terminal, Purge(gone)
      PROVE  ChainLinear'
    <2>1. commits' = {c \in commits : c.branch \notin gone}
        BY <1>3 DEF Purge, IInv, SeqNamesCommit
    <2>2. \A c \in commits' : BranchSeqs(commits', c.branch) = BranchSeqs(commits, c.branch)
        BY <2>1 DEF BranchSeqs
    <2> QED BY <2>1, <2>2 DEF ChainLinear
<1>4. ASSUME UNCHANGED commits
      PROVE  ChainLinear'
    BY <1>4 DEF ChainLinear
<1>5. ASSUME NEW b \in Names, NEW files \in Patches, NEW a \in Authors, NEW s \in SeqNos,
             Commit(b, files, a, s)
      PROVE  ChainLinear'
    BY <1>5, <1>1 DEF Commit, NewSeq
<1>6. ASSUME NEW b \in Branches, NEW a \in Authors, NEW s \in SeqNos, Merge(b, a, s)
      PROVE  ChainLinear'
    BY <1>6, <1>1, <1>n DEF Merge, NewSeq
<1> QED
    BY <1>2, <1>3, <1>4, <1>5, <1>6
    DEF Next, vars, CreateBranch, UpdateBranchDraft, MergeEmpty, RebaseEmpty, DeleteBranch

\* The commits of a branch form one chain in the order of their sequences.
THEOREM HashChain == Spec => []ChainLinear
<1>1. Init => IInv /\ ChainLinear
    <2>1. Init => ChainLinear
        BY DEF Init, ChainLinear
    <2> QED BY <2>1, IInvInit
<1>2. (IInv /\ ChainLinear) /\ [Next]_vars => (IInv /\ ChainLinear)'
    BY IInvStep, ChainStep
<1> QED BY <1>1, <1>2, PTL DEF Spec

-----------------------------------------------------------------------------
(* Stable reads.                                                           *)

\* What a step may do to the rows a reader looks at: new rows lie above the
\* head of their branch, rows disappear only with their branch, and a branch
\* that keeps its head keeps its base.
LEMMA RowDelta ==
    ASSUME IInv, [Next]_vars
    PROVE  /\ \A f \in file_commits' : f \in file_commits \/ f.seq > head[f.branch]
           /\ \A f \in file_commits : f \in file_commits' \/ ~ Exists(f.branch)'
           /\ \A b \in Names : Exists(b) /\ Exists(b)' /\ head'[b] = head[b] => base'[b] = base[b]
<1> DEFINE Above == \A f \in file_commits' : f \in file_commits \/ f.seq > head[f.branch]
           Lost == \A f \in file_commits : f \in file_commits' \/ ~ Exists(f.branch)'
           Bases == \A b \in Names : Exists(b) /\ Exists(b)' /\ head'[b] = head[b] => base'[b] = base[b]
<1>n. /\ \A b \in Names : head[b] \in Nat /\ base[b] \in Nat
      /\ Main \in Names
      /\ \A b \in Branches : b \in Names /\ b # Main
      /\ \A s \in SeqNos : s \in Nat
      /\ \A f \in file_commits : f.branch \in Names
    BY NumberTypes, BranchStoreAssumption DEF IInv
<1>1. ASSUME NEW b \in Names, NEW files \in Patches, NEW a \in Authors, NEW s \in SeqNos,
             Commit(b, files, a, s)
      PROVE  Above /\ Lost /\ Bases
    BY <1>1 DEF Commit, NewSeq
<1>2. ASSUME NEW b \in Branches, NEW d \in BOOLEAN, CreateBranch(b, d)
      PROVE  Above /\ Lost /\ Bases
    BY <1>2 DEF CreateBranch, Exists, IInv, TypeOK
<1>3. ASSUME NEW b \in Branches, NEW a \in Authors, NEW s \in SeqNos, Merge(b, a, s)
      PROVE  Above /\ Lost /\ Bases
    <2>1. \A f \in latestChanges(b, base[b]) : f \in FileRows
        BY DEF IInv, TypeOK, latestChanges, DistinctOn, RowsSince
    <2>2. Above
        BY <1>3, <2>1 DEF Merge, NewSeq, FileRows
    <2> QED BY <1>3, <2>2 DEF Merge
<1>4. ASSUME NEW b \in Branches, RebaseEmpty(b)
      PROVE  Above /\ Lost /\ Bases
    <2>1. \A f \in file_commits : f.branch # b
        BY <1>4 DEF RebaseEmpty, ChangedPaths, RowsSince, IInv, BranchRowsReplayed
    <2>2. head[b] = base[b]
        BY <2>1, <1>n DEF IInv, HeadCoversBranch
    <2>3. Bases
        BY <1>4, <2>2, <1>n DEF RebaseEmpty, IInv, TypeOK
    <2> QED BY <1>4, <2>3 DEF RebaseEmpty
<1>5. ASSUME NEW b \in Branches, NEW a \in Authors,
             NEW r \in [branchCommitGroups(b) -> SeqNos], NEW last \in branchCommitGroups(b),
             Rebase(b, a, r, last)
      PROVE  Above /\ Lost /\ Bases
    <2>1. \A q \in branchCommitGroups(b) : r[q] \in Nat /\ r[q] > head[b]
        BY <1>5, <1>n DEF Rebase, ReplaySeqs, NewSeq
    <2>2. \A f \in RowsSince(b, base[b]) : f \in FileRows /\ f.branch = b /\ f.seq \in branchCommitGroups(b)
        BY DEF RowsSince, branchCommitGroups, IInv, TypeOK
    <2>3. \A f \in ReplayedRows(b, r) : f.branch = b /\ f.seq > head[b]
        BY <2>1, <2>2 DEF ReplayedRows, FileRows
    <2>4. Above /\ Lost
        BY <1>5, <2>3 DEF Rebase
    <2>5. head'[b] > head[b] /\ \A d \in Names : d # b => base'[d] = base[d]
        BY <1>5, <2>1, <1>n DEF Rebase, IInv, TypeOK
    <2>6. Bases
        BY <2>5, <1>n
    <2> QED BY <2>4, <2>6
<1>6. ASSUME NEW gone \in SUBSET Terminal, Purge(gone)
      PROVE  Above /\ Lost /\ Bases
    <2>1. Lost
        BY <1>6, <1>n DEF Purge, Exists
    <2>2. Bases
        BY <1>6 DEF Purge, Exists
    <2> QED BY <1>6, <2>1, <2>2 DEF Purge
<1>7. ASSUME UNCHANGED <<base, file_commits>>
      PROVE  Above /\ Lost /\ Bases
    BY <1>7
<1> HIDE DEF Above, Lost, Bases
<1>8. Above /\ Lost /\ Bases
    BY <1>1, <1>2, <1>3, <1>4, <1>5, <1>6, <1>7
    DEF Next, vars, UpdateBranchDraft, MergeEmpty, DeleteBranch
<1> QED BY <1>8 DEF Above, Lost, Bases

\* A branch that keeps its head shows the same rows.
LEMMA SameHeadSameRows ==
    ASSUME IInv, [Next]_vars, NEW b \in Names, Exists(b), Exists(b)', head'[b] = head[b]
    PROVE  VisibleRows(b)' = VisibleRows(b)
<1>1. IInv'
    BY IInvStep
<1>n. /\ \A d \in Names : head[d] \in Nat /\ base[d] \in Nat
      /\ \A f \in file_commits : f.seq \in Nat
      /\ Main \in Names
    BY NumberTypes DEF IInv
<1>m. \A f \in file_commits' : f.seq \in Nat
    BY <1>1, BranchStoreAssumption DEF IInv, TypeOK, FileRows
<1>2. base'[b] = base[b]
    BY RowDelta
<1>3. Exists(Main)'
    BY <1>1 DEF IInv, TypeOK, Exists
<1>4. \A f \in file_commits' : f.branch = b => f \in file_commits
    BY <1>1, <1>n, <1>m, RowDelta DEF IInv, HeadCoversBranch
<1>5. \A f \in file_commits' : f.branch = Main /\ f.seq <= base[b] => f \in file_commits
    BY <1>n, <1>m, RowDelta DEF IInv, HeadCoversBranch
<1>6. \A f \in file_commits : f.branch = b \/ f.branch = Main => f \in file_commits'
    BY <1>3, RowDelta
<1> QED BY <1>2, <1>4, <1>5, <1>6 DEF VisibleRows

\* The files of a branch change only when its head moves.
THEOREM HeadsIdentifyTrees == Spec => HeadIdentifiesTree
<1>1. Init => IInv
    BY IInvInit
<1>2. IInv /\ [Next]_vars => IInv'
    BY IInvStep
<1>3. IInv /\ [Next]_vars =>
          [\A b \in Names :
              Exists(b) /\ Exists(b)' /\ head'[b] = head[b]
                  => MaterializeTree(b)' = MaterializeTree(b)]_vars
    BY SameHeadSameRows DEF MaterializeTree
<1> QED BY <1>1, <1>2, <1>3, PTL DEF Spec, HeadIdentifiesTree

\* What a read of a branch at a past sequence shows changes only with its base.
THEOREM PastIsPinned == Spec => HistoryPinned
<1>1. Init => IInv
    BY IInvInit
<1>2. IInv /\ [Next]_vars => IInv'
    BY IInvStep
<1>3. IInv /\ [Next]_vars =>
          [\A b \in Names, s \in SeqNos :
              Exists(b) /\ Exists(b)' /\ base'[b] = base[b] /\ s <= head[b]
                  => MaterializeTreeAt(b, s)' = MaterializeTreeAt(b, s)]_vars
    <2> SUFFICES ASSUME IInv, [Next]_vars, NEW b \in Names, NEW s \in SeqNos,
                        Exists(b), Exists(b)', base'[b] = base[b], s <= head[b]
                 PROVE  {f \in VisibleRows(b) : f.seq <= s}' = {f \in VisibleRows(b) : f.seq <= s}
        BY DEF MaterializeTreeAt
    <2>1. IInv'
        BY IInvStep
    <2>2. /\ head[b] \in Nat /\ head[Main] \in Nat /\ base[b] \in Nat /\ s \in Nat
          /\ base[b] <= head[Main] /\ Exists(Main)'
          /\ \A f \in file_commits : f.seq \in Nat
          /\ \A f \in file_commits' : f.seq \in Nat
        BY <2>1, NumberTypes, BranchStoreAssumption DEF IInv, TypeOK, HeadCoversBranch, Exists, FileRows
    <2>3. \A f \in file_commits' : f.branch = b /\ f.seq <= s => f \in file_commits
        BY <2>2, RowDelta
    <2>4. \A f \in file_commits' : f.branch = Main /\ f.seq <= base[b] => f \in file_commits
        BY <2>2, RowDelta
    <2>5. \A f \in file_commits : f.branch = b \/ f.branch = Main => f \in file_commits'
        BY <2>2, RowDelta
    <2> QED BY <2>3, <2>4, <2>5 DEF VisibleRows
<1> QED BY <1>1, <1>2, <1>3, PTL DEF Spec, HistoryPinned
-----------------------------------------------------------------------------
(* Merges and rebases keep every change.                                   *)

\* All rows of R are newer than those of V.
Newer(R, V) == \A f \in V, g \in R : f.seq \in Nat /\ g.seq \in Nat /\ f.seq < g.seq
\* P are the paths of the rows R.
PathsAre(R, P) == (\A g \in R : g.path \in P) /\ \A p \in P : \E g \in R : g.path = p
\* The rows X, and those of Y for other paths than P.
RowsOver(X, P, Y) == X \cup {f \in Y : f.path \notin P}
\* The entries of a tree for the paths P.
On(T, P) == {e \in T : e[1] \in P}

\* Rows R that lie above all rows of V win on the paths P that they have, and
\* the newest row of every other path is that of V.
LEMMA NewerRowsWin ==
    ASSUME NEW V, NEW R, NEW P, Newer(R, V), PathsAre(R, P)
    PROVE  DistinctOn(V \cup R) = RowsOver(DistinctOn(R), P, DistinctOn(V))
<1> USE DEF Newer, PathsAre
<1>1. ASSUME NEW f \in DistinctOn(V \cup R)
      PROVE  f \in DistinctOn(R) \cup {g \in DistinctOn(V) : g.path \notin P}
    <2>1. f \in V \cup R /\ \A g \in V \cup R : g.path = f.path => g.seq <= f.seq
        BY <1>1 DEF DistinctOn
    <2>2. CASE f.path \in P
        <3>1. PICK g \in R : g.path = f.path
            BY <2>2
        <3>2. g.seq <= f.seq
            BY <2>1, <3>1
        <3>3. f \in R
            BY <2>1, <3>1, <3>2
        <3> QED BY <2>1, <3>3 DEF DistinctOn
    <2>3. CASE f.path \notin P
        <3>1. f \in V
            BY <2>1, <2>3
        <3> QED BY <2>1, <2>3, <3>1 DEF DistinctOn
    <2> QED BY <2>2, <2>3
<1>2. ASSUME NEW f \in DistinctOn(R)
      PROVE  f \in DistinctOn(V \cup R)
    <2>1. f \in R /\ \A g \in R : g.path = f.path => g.seq <= f.seq
        BY <1>2 DEF DistinctOn
    <2>2. \A g \in V : g.seq <= f.seq
        BY <2>1
    <2> QED BY <2>1, <2>2 DEF DistinctOn
<1>3. ASSUME NEW f \in DistinctOn(V), f.path \notin P
      PROVE  f \in DistinctOn(V \cup R)
    BY <1>3 DEF DistinctOn
<1> QED BY <1>1, <1>2, <1>3 DEF RowsOver

\* Live files of a union of rows that share no path.
LEMMA LiveOverlay ==
    ASSUME NEW X, NEW Y, NEW P, NEW T, On(T, P) = LiveFiles(X)
    PROVE  LiveFiles(RowsOver(X, P, Y)) = Overlay(T, P, LiveFiles(Y))
<1>1. LiveFiles(RowsOver(X, P, Y)) = LiveFiles(X) \cup LiveFiles({f \in Y : f.path \notin P})
    BY DEF LiveFiles, RowsOver
<1>2. LiveFiles({f \in Y : f.path \notin P}) = {e \in LiveFiles(Y) : e[1] \notin P}
    BY DEF LiveFiles
<1> QED BY <1>1, <1>2 DEF Overlay, On

\* The paths a branch changed are those of the newest row of each.
LEMMA LatestHasPath ==
    ASSUME IInv, NEW b \in Names
    PROVE  /\ \A f \in latestChanges(b, base[b]) : f \in RowsSince(b, base[b])
           /\ \A f \in latestChanges(b, base[b]) : f.path \in ChangedPaths(b, base[b])
           /\ \A p \in ChangedPaths(b, base[b]) : \E f \in latestChanges(b, base[b]) : f.path = p
<1>1. head[b] \in Nat /\ \A f \in RowsSince(b, base[b]) : f.seq \in Nat /\ f.seq <= head[b]
    BY NumberTypes DEF IInv, HeadCoversBranch, RowsSince
<1>2. ASSUME NEW p \in ChangedPaths(b, base[b])
      PROVE  \E f \in latestChanges(b, base[b]) : f.path = p
    <2>1. PICK f0 \in RowsSince(b, base[b]) : f0.path = p
        BY <1>2 DEF ChangedPaths
    <2> QED BY <1>1, <2>1, NewestRowExists DEF latestChanges, DistinctOn
<1> QED BY <1>2 DEF latestChanges, DistinctOn, ChangedPaths

\* On the paths it changed a branch shows its own newest changes.
LEMMA OwnFiles ==
    ASSUME IInv, NEW b \in Names, Exists(b)
    PROVE  On(MaterializeTree(b), ChangedPaths(b, base[b])) = LiveFiles(latestChanges(b, base[b]))
<1> DEFINE P == ChangedPaths(b, base[b])
           L == latestChanges(b, base[b])
           I == {f \in DistinctOn({g \in file_commits : g.branch = Main /\ g.seq <= base[b]}) : f.path \notin P}
<1>1. DistinctOn(VisibleRows(b)) = L \cup I
    BY OverlayFromIInv DEF TreeIsOverlay
<1>2. \A f \in L : f.path \in P
    BY LatestHasPath
<1>3. \A f \in I : f.path \notin P
    OBVIOUS
<1> HIDE DEF P, L, I
<1>4. On(LiveFiles(L \cup I), P) = LiveFiles(L)
    BY <1>2, <1>3 DEF LiveFiles, On
<1> QED BY <1>1, <1>4 DEF MaterializeTree, P, L

\* A reader of main looks at all of main's rows.
LEMMA MainRows ==
    VisibleRows(Main) = {f \in file_commits : f.branch = Main}
BY DEF VisibleRows

\* A merge puts the branch's newest changes over main's files.
LEMMA MergeOverlays ==
    ASSUME IInv, NEW b \in Branches, NEW a \in Authors, NEW s \in SeqNos, Merge(b, a, s)
    PROVE  MaterializeTree(Main)' =
               Overlay(MaterializeTree(b), ChangedPaths(b, base[b]), MaterializeTree(Main))
<1> DEFINE P == ChangedPaths(b, base[b])
           L == latestChanges(b, base[b])
           copy(f) == [f EXCEPT !.seq = s, !.branch = Main]
           V == {f \in file_commits : f.branch = Main}
           R == {copy(f) : f \in L}
<1>n. /\ b \in Names /\ Main \in Names /\ b # Main /\ Exists(b)
      /\ s \in Nat /\ s > head[Main] /\ head[Main] \in Nat
      /\ \A f \in V : f.seq \in Nat /\ f.seq <= head[Main]
      /\ file_commits' = file_commits \cup R
    BY NumberTypes, BranchStoreAssumption DEF IInv, HeadCoversBranch, Merge, NewSeq, Mergeable, Exists
<1>1. \A f \in L : f \in FileRows
    BY <1>n, LatestHasPath DEF RowsSince, IInv, TypeOK
<1>2. \A f \in L : /\ copy(f).seq = s /\ copy(f).branch = Main
                   /\ copy(f).path = f.path /\ copy(f).ver = f.ver
    BY <1>1 DEF FileRows
<1>p. (\A f \in L : f.path \in P) /\ \A p \in P : \E f \in L : f.path = p
    BY <1>n, LatestHasPath
<1> HIDE DEF P, L, copy
<1>3. VisibleRows(Main)' = V \cup R
    BY <1>n, <1>2 DEF VisibleRows
<1>4. PICK v, r, p, t : v = V /\ r = R /\ p = P /\ t = MaterializeTree(b)
    OBVIOUS
<1>5. Newer(r, v) /\ PathsAre(r, p)
    <2>1. Newer(R, V)
        BY <1>n, <1>2 DEF Newer
    <2>2. PathsAre(R, P)
        BY <1>p, <1>2 DEF PathsAre
    <2> QED BY <1>4, <2>1, <2>2
<1>6. DistinctOn(R) = R /\ LiveFiles(R) = LiveFiles(L)
    BY <1>2, <1>n DEF DistinctOn, LiveFiles
<1>7. On(MaterializeTree(b), P) = LiveFiles(R)
    BY <1>6, <1>n, OwnFiles DEF P, L
<1>8. MaterializeTree(Main) = LiveFiles(DistinctOn(V))
    BY MainRows DEF MaterializeTree
<1>9. MaterializeTree(Main)' = LiveFiles(DistinctOn(V \cup R))
    BY <1>3 DEF MaterializeTree
<1> HIDE DEF V, R
<1>10. DistinctOn(v \cup r) = RowsOver(DistinctOn(r), p, DistinctOn(v))
    BY <1>5, NewerRowsWin
<1>11. On(t, p) = LiveFiles(DistinctOn(r))
    BY <1>4, <1>6, <1>7
<1>12. LiveFiles(RowsOver(DistinctOn(r), p, DistinctOn(v))) = Overlay(t, p, LiveFiles(DistinctOn(v)))
    BY <1>11, LiveOverlay
<1> QED BY <1>4, <1>8, <1>9, <1>10, <1>12 DEF P

\* Main's files are the same as long as main's rows are.
LEMMA MainStays ==
    ASSUME {f \in file_commits' : f.branch = Main} = {f \in file_commits : f.branch = Main}
    PROVE  MaterializeTree(Main)' = MaterializeTree(Main)
<1>1. VisibleRows(Main)' = {f \in file_commits' : f.branch = Main}
    BY DEF VisibleRows
<1> QED BY <1>1, MainRows DEF MaterializeTree

\* What MergeLosesNothing says of one branch and one step.
MergeKeeps(b) ==
    status[b] = "active" /\ status'[b] = "merged" =>
        LET changed == ChangedPaths(b, base[b]) IN
        /\ MaterializeTree(Main)' =
               Overlay(MaterializeTree(b), changed, MaterializeTree(Main))
        /\ \A e \in MaterializeTree(Main) :
               e[1] \in ChangedPaths(Main, base[b]) => e \in MaterializeTree(Main)'

\* A branch becomes merged by Merge only, which keeps the files of both sides.
LEMMA MergeKeepsStep ==
    ASSUME IInv, [Next]_vars, NEW b \in Branches
    PROVE  MergeKeeps(b)
<1> SUFFICES ASSUME status[b] = "active", status'[b] = "merged" PROVE MergeKeeps(b)
    BY DEF MergeKeeps
<1>n. status \in [Names -> Statuses] /\ b \in Names /\ \A d \in Branches : d \in Names
    BY DEF IInv, TypeOK, Names
<1>1. ASSUME NEW a \in Authors, NEW s \in SeqNos, Merge(b, a, s)
      PROVE  MergeKeeps(b)
    <2>1. MaterializeTree(Main)' =
              Overlay(MaterializeTree(b), ChangedPaths(b, base[b]), MaterializeTree(Main))
        BY <1>1, MergeOverlays
    <2>2. ChangedPaths(b, base[b]) \cap ChangedPaths(Main, base[b]) = {}
        BY <1>1 DEF Merge, Conflicts
    <2>3. \A e \in MaterializeTree(Main) :
              e[1] \in ChangedPaths(Main, base[b]) => e \in MaterializeTree(Main)'
        BY <2>1, <2>2 DEF Overlay
    <2> QED BY <2>1, <2>3 DEF MergeKeeps
<1>2. CASE MergeEmpty(b)
    <2>1. ChangedPaths(b, base[b]) = {} /\ MaterializeTree(Main)' = MaterializeTree(Main)
        BY <1>2, MainStays DEF MergeEmpty
    <2>2. Overlay(MaterializeTree(b), {}, MaterializeTree(Main)) = MaterializeTree(Main)
        BY DEF Overlay
    <2> QED BY <2>1, <2>2 DEF MergeKeeps
<1>3. ASSUME NEW d \in Branches, d # b, MergeEmpty(d) \/ \E a \in Authors, s \in SeqNos : Merge(d, a, s)
      PROVE  FALSE
    BY <1>3, <1>n DEF MergeEmpty, Merge
<1>4. ASSUME NEW d \in Branches, DeleteBranch(d) \/ \E x \in BOOLEAN : CreateBranch(d, x)
      PROVE  FALSE
    BY <1>4, <1>n DEF DeleteBranch, CreateBranch
<1>5. ASSUME NEW gone \in SUBSET Terminal, Purge(gone)
      PROVE  FALSE
    BY <1>5, <1>n DEF Purge
<1>6. CASE UNCHANGED status
    BY <1>6
<1> QED
    BY <1>1, <1>2, <1>3, <1>4, <1>5, <1>6
    DEF Next, vars, Commit, UpdateBranchDraft, RebaseEmpty, Rebase

\* No merge loses a change, of the branch or of main.
THEOREM MergesKeepChanges == Spec => MergeLosesNothing
<1>1. Init => IInv
    BY IInvInit
<1>2. IInv /\ [Next]_vars => IInv'
    BY IInvStep
<1>3. IInv /\ [Next]_vars =>
          [\A b \in Branches :
              status[b] = "active" /\ status'[b] = "merged" =>
                  LET changed == ChangedPaths(b, base[b]) IN
                  /\ MaterializeTree(Main)' =
                         Overlay(MaterializeTree(b), changed, MaterializeTree(Main))
                  /\ \A e \in MaterializeTree(Main) :
                         e[1] \in ChangedPaths(Main, base[b]) => e \in MaterializeTree(Main)']_vars
    BY MergeKeepsStep DEF MergeKeeps
<1> QED BY <1>1, <1>2, <1>3, PTL DEF Spec, MergeLosesNothing

\* Rows of a branch keep their order when they are replayed, above what the
\* branch has, so that the newest of them are the replays of the newest.
LEMMA ReplayKeepsNewest ==
    ASSUME IInv, NEW b \in Branches, NEW a \in Authors,
           NEW r \in [branchCommitGroups(b) -> SeqNos], NEW last \in branchCommitGroups(b),
           Rebase(b, a, r, last)
    PROVE  /\ ChangedPaths(b, base[b])' = ChangedPaths(b, base[b])
           /\ LiveFiles(latestChanges(b, base[b]))' = LiveFiles(latestChanges(b, base[b]))
<1> DEFINE S == RowsSince(b, base[b])
           again(f) == [f EXCEPT !.seq = r[f.seq]]
           T == RowsSince(b, base[b])'
<1>n. /\ b \in Names /\ Main \in Names /\ b # Main
      /\ head[b] \in Nat /\ base[b] \in Nat /\ head[Main] \in Nat /\ base[b] <= head[Main]
      /\ base'[b] = head[Main]
      /\ \A f \in file_commits : f.seq \in Nat /\ f.branch \in Names /\ f.seq <= head[f.branch]
      /\ \A s \in SeqNos : s \in Nat
    BY NumberTypes, BranchStoreAssumption DEF IInv, HeadCoversBranch, Rebase, TypeOK
<1>1. \A f \in S : /\ f \in FileRows /\ f \in file_commits /\ f.branch = b
                   /\ f.seq \in branchCommitGroups(b) /\ f.seq \in Nat /\ f.seq <= head[b]
    BY <1>n DEF RowsSince, branchCommitGroups, IInv, TypeOK
<1>2. \A f \in S : /\ again(f).seq = r[f.seq] /\ again(f).branch = b
                   /\ again(f).path = f.path /\ again(f).ver = f.ver
    BY <1>1 DEF FileRows
<1>3. /\ \A q \in branchCommitGroups(b) : r[q] \in Nat /\ r[q] > head[b] /\ r[q] > head[Main]
      /\ \A p, q \in branchCommitGroups(b) : p < q => r[p] < r[q]
    BY <1>n DEF Rebase, ReplaySeqs, NewSeq
<1>4. file_commits' = file_commits \cup {again(f) : f \in S}
    BY DEF Rebase, ReplayedRows
<1> HIDE DEF again
<1>5. \A g \in T : g \in S \/ \E f \in S : g = again(f)
    BY <1>4, <1>n DEF RowsSince
<1>6. \A f \in S : again(f) \in T
    BY <1>4, <1>n, <1>1, <1>2, <1>3 DEF RowsSince
<1>7. \A f, g \in S : again(g).seq <= again(f).seq <=> g.seq <= f.seq
    BY <1>1, <1>2, <1>3
<1>8. \A f, g \in S : g.seq < again(f).seq
    BY <1>1, <1>2, <1>3, <1>n
<1>9. ChangedPaths(b, base[b])' = {f.path : f \in T} /\ ChangedPaths(b, base[b]) = {f.path : f \in S}
    BY DEF ChangedPaths
<1>10. latestChanges(b, base[b])' = DistinctOn(T) /\ latestChanges(b, base[b]) = DistinctOn(S)
    BY DEF latestChanges
<1>11. \A g \in T : g.seq \in Nat
    BY <1>5, <1>1, <1>2, <1>3
<1>12. \A f \in S : again(f).seq \in Nat
    BY <1>1, <1>2, <1>3
<1> HIDE DEF S, T
<1>13. {f.path : f \in T} = {f.path : f \in S}
    BY <1>2, <1>5, <1>6
<1>14. ASSUME NEW f \in DistinctOn(S)
       PROVE  again(f) \in DistinctOn(T)
    <2>1. f \in S /\ \A g \in S : g.path = f.path => g.seq <= f.seq
        BY DEF DistinctOn
    <2>2. ASSUME NEW g \in T, g.path = f.path
          PROVE  g.seq <= again(f).seq
        <3>1. CASE g \in S
            BY <3>1, <2>1, <1>8, <1>1, <1>12
        <3>2. ASSUME NEW h \in S, g = again(h)
              PROVE  g.seq <= again(f).seq
            BY <3>2, <2>1, <2>2, <1>2, <1>7
        <3> QED BY <3>1, <3>2, <1>5
    <2> QED BY <2>1, <2>2, <1>2, <1>6 DEF DistinctOn
<1>15. ASSUME NEW g \in DistinctOn(T)
       PROVE  \E f \in DistinctOn(S) : g = again(f)
    <2>1. g \in T /\ \A h \in T : h.path = g.path => h.seq <= g.seq
        BY DEF DistinctOn
    <2>2. g \notin S
        <3> SUFFICES ASSUME g \in S PROVE FALSE
            OBVIOUS
        <3>1. again(g).seq <= g.seq
            BY <2>1, <1>2, <1>6
        <3> QED BY <3>1, <1>8, <1>1, <1>12
    <2>3. PICK f \in S : g = again(f)
        BY <2>1, <2>2, <1>5
    <2>4. ASSUME NEW h \in S, h.path = f.path
          PROVE  h.seq <= f.seq
        <3>1. again(h).seq <= again(f).seq
            BY <2>1, <2>3, <2>4, <1>2, <1>6
        <3> QED BY <3>1, <1>7
    <2> QED BY <2>3, <2>4 DEF DistinctOn
<1>16. \A f \in DistinctOn(S) : f \in S
    BY DEF DistinctOn
<1>17. LiveFiles(DistinctOn(T)) = LiveFiles(DistinctOn(S))
    <2>1. ASSUME NEW f \in DistinctOn(S), f.ver # Deleted
          PROVE  <<f.path, f.ver>> \in LiveFiles(DistinctOn(T))
        BY <2>1, <1>14, <1>16, <1>2 DEF LiveFiles
    <2>2. ASSUME NEW g \in DistinctOn(T), g.ver # Deleted
          PROVE  <<g.path, g.ver>> \in LiveFiles(DistinctOn(S))
        BY <2>2, <1>15, <1>16, <1>2 DEF LiveFiles
    <2> QED BY <2>1, <2>2 DEF LiveFiles
<1>18. LiveFiles(latestChanges(b, base[b]))' = LiveFiles(DistinctOn(T))
    BY <1>10 DEF LiveFiles
<1> QED BY <1>9, <1>10, <1>13, <1>17, <1>18

\* The rows that a branch with base s inherits.
MainAt(s) == {g \in file_commits : g.branch = Main /\ g.seq <= s}

\* The overlay in the next state.
LEMMA OverlayNext == IInv' => TreeIsOverlay'
BY OverlayFromIInv, PTL

\* A rebase puts the branch's own files over the files main has now.
LEMMA RebaseOverlays ==
    ASSUME IInv, NEW b \in Branches, NEW a \in Authors,
           NEW r \in [branchCommitGroups(b) -> SeqNos], NEW last \in branchCommitGroups(b),
           Rebase(b, a, r, last)
    PROVE  /\ MaterializeTree(Main)' = MaterializeTree(Main)
           /\ MaterializeTree(b)' =
                  Overlay(MaterializeTree(b), ChangedPaths(b, base[b]), MaterializeTree(Main))
<1>n. /\ b \in Names /\ b # Main /\ Main \in Names
      /\ Exists(b) /\ Exists(b)' /\ base'[b] = head[Main]
      /\ \A f \in file_commits : f.branch = Main => f.seq <= head[Main]
    BY NumberTypes DEF IInv, TypeOK, HeadCoversBranch, Rebase, Exists
<1>i. IInv'
    <2>1. [Next]_vars
        BY DEF Next
    <2> QED BY <2>1, IInvStep
<1>1. \A f \in ReplayedRows(b, r) : f.branch = b
    <2>1. \A f \in RowsSince(b, base[b]) : f \in FileRows /\ f.branch = b
        BY DEF RowsSince, IInv, TypeOK
    <2> QED BY <2>1 DEF ReplayedRows, FileRows
<1>2. {f \in file_commits' : f.branch = Main} = {f \in file_commits : f.branch = Main}
    BY <1>1, <1>n DEF Rebase
<1>3. MaterializeTree(Main)' = MaterializeTree(Main)
    BY <1>2, MainStays
<1>4. MainAt(base[b])' = VisibleRows(Main)
    BY <1>2, <1>n, MainRows DEF MainAt
<1>5. MaterializeTree(b)' =
          LiveFiles(RowsOver(latestChanges(b, base[b])', ChangedPaths(b, base[b])', DistinctOn(VisibleRows(Main))))
    <2>1. TreeIsOverlay'
        BY <1>i, OverlayNext
    <2> QED BY <2>1, <1>n, <1>4 DEF TreeIsOverlay, MaterializeTree, RowsOver, MainAt
<1>6. PICK x, p, t, y : /\ x = latestChanges(b, base[b])' /\ p = ChangedPaths(b, base[b])
                        /\ t = MaterializeTree(b) /\ y = DistinctOn(VisibleRows(Main))
    OBVIOUS
<1>7. On(t, p) = LiveFiles(x)
    <2>1. On(MaterializeTree(b), ChangedPaths(b, base[b])) = LiveFiles(latestChanges(b, base[b]))
        BY <1>n, OwnFiles
    <2>2. LiveFiles(latestChanges(b, base[b]))' = LiveFiles(latestChanges(b, base[b]))
        BY ReplayKeepsNewest
    <2>3. LiveFiles(latestChanges(b, base[b]))' = LiveFiles(latestChanges(b, base[b])')
        OBVIOUS
    <2> QED BY <1>6, <2>1, <2>2, <2>3
<1>8. LiveFiles(RowsOver(x, p, y)) = Overlay(t, p, LiveFiles(y))
    BY <1>7, LiveOverlay
<1>9. ChangedPaths(b, base[b])' = ChangedPaths(b, base[b])
    BY ReplayKeepsNewest
<1> QED BY <1>3, <1>5, <1>6, <1>8, <1>9 DEF MaterializeTree

\* A branch without changes that is rebased shows what main shows.
LEMMA RebaseEmptyOverlays ==
    ASSUME IInv, NEW b \in Branches, RebaseEmpty(b)
    PROVE  /\ MaterializeTree(Main)' = MaterializeTree(Main)
           /\ ChangedPaths(b, base[b])' = ChangedPaths(b, base[b])
           /\ MaterializeTree(b)' =
                  Overlay(MaterializeTree(b), ChangedPaths(b, base[b]), MaterializeTree(Main))
<1>1. \A f \in file_commits : f.branch # b
    BY DEF RebaseEmpty, ChangedPaths, RowsSince, IInv, BranchRowsReplayed
<1>2. /\ base'[b] = head[Main] /\ file_commits' = file_commits
      /\ \A f \in file_commits : f.branch = Main => f.seq <= head[Main]
    BY NumberTypes DEF RebaseEmpty, IInv, TypeOK, HeadCoversBranch
<1>3. MaterializeTree(Main)' = MaterializeTree(Main)
    BY <1>2, MainStays
<1>4. ChangedPaths(b, base[b]) = {}
    BY <1>1 DEF ChangedPaths, RowsSince
<1>5. ChangedPaths(b, base[b])' = {}
    BY <1>1, <1>2 DEF ChangedPaths, RowsSince
<1>6. VisibleRows(b)' = VisibleRows(Main)
    BY <1>1, <1>2, MainRows DEF VisibleRows
<1>7. MaterializeTree(b)' = MaterializeTree(Main)
    BY <1>6 DEF MaterializeTree
<1>8. Overlay(MaterializeTree(b), {}, MaterializeTree(Main)) = MaterializeTree(Main)
    BY DEF Overlay
<1> QED BY <1>3, <1>4, <1>5, <1>7, <1>8

\* What RebaseKeepsChanges says of one branch and one step.
RebaseKeeps(b) ==
    Exists(b) /\ Exists(b)' /\ base'[b] # base[b] =>
        /\ base'[b] = head[Main]
        /\ MaterializeTree(Main)' = MaterializeTree(Main)
        /\ ChangedPaths(b, base[b])' = ChangedPaths(b, base[b])
        /\ MaterializeTree(b)' = Overlay(MaterializeTree(b),
               ChangedPaths(b, base[b]), MaterializeTree(Main))

\* The base of a branch moves by a rebase only, to main's head.
LEMMA RebaseKeepsStep ==
    ASSUME IInv, [Next]_vars, NEW b \in Branches
    PROVE  RebaseKeeps(b)
<1> SUFFICES ASSUME Exists(b), Exists(b)', base'[b] # base[b] PROVE RebaseKeeps(b)
    BY DEF RebaseKeeps
<1>n. DOMAIN base = Names /\ DOMAIN status = Names /\ b \in Names /\ \A d \in Branches : d \in Names
    BY DEF IInv, TypeOK, Names
<1>1. ASSUME NEW a \in Authors, NEW r \in [branchCommitGroups(b) -> SeqNos],
             NEW last \in branchCommitGroups(b), Rebase(b, a, r, last)
      PROVE  RebaseKeeps(b)
    <2>1. base'[b] = head[Main]
        BY <1>1, <1>n DEF Rebase
    <2> QED BY <1>1, <2>1, RebaseOverlays, ReplayKeepsNewest DEF RebaseKeeps
<1>2. CASE RebaseEmpty(b)
    <2>1. base'[b] = head[Main]
        BY <1>2, <1>n DEF RebaseEmpty
    <2> QED BY <1>2, <2>1, RebaseEmptyOverlays DEF RebaseKeeps
<1>3. ASSUME NEW d \in Branches, d # b,
             \/ RebaseEmpty(d) \/ \E x \in BOOLEAN : CreateBranch(d, x)
             \/ \E a \in Authors, r \in [branchCommitGroups(d) -> SeqNos], last \in branchCommitGroups(d) :
                    Rebase(d, a, r, last)
      PROVE  FALSE
    BY <1>3, <1>n DEF RebaseEmpty, Rebase, CreateBranch
<1>4. ASSUME NEW x \in BOOLEAN, CreateBranch(b, x)
      PROVE  FALSE
    BY <1>4 DEF CreateBranch, Exists
<1>5. ASSUME NEW gone \in SUBSET Terminal, Purge(gone)
      PROVE  FALSE
    BY <1>5, <1>n DEF Purge, Exists
<1>6. CASE UNCHANGED base
    BY <1>6
<1> QED
    BY <1>1, <1>2, <1>3, <1>4, <1>5, <1>6
    DEF Next, vars, Commit, UpdateBranchDraft, MergeEmpty, Merge, DeleteBranch

\* A rebase loses no change of the branch and takes all of main.
THEOREM RebasesKeepChanges == Spec => RebaseKeepsChanges
<1>1. Init => IInv
    BY IInvInit
<1>2. IInv /\ [Next]_vars => IInv'
    BY IInvStep
<1>3. IInv /\ [Next]_vars =>
          [\A b \in Branches :
              Exists(b) /\ Exists(b)' /\ base'[b] # base[b] =>
                  /\ base'[b] = head[Main]
                  /\ MaterializeTree(Main)' = MaterializeTree(Main)
                  /\ ChangedPaths(b, base[b])' = ChangedPaths(b, base[b])
                  /\ MaterializeTree(b)' = Overlay(MaterializeTree(b),
                         ChangedPaths(b, base[b]), MaterializeTree(Main))]_vars
    BY RebaseKeepsStep DEF RebaseKeeps
<1> QED BY <1>1, <1>2, <1>3, PTL DEF Spec, RebaseKeepsChanges
=============================================================================
