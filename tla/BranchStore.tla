------------------------------ MODULE BranchStore ------------------------------
(***************************************************************************)
(* The version-control core of one repository: the tables branches,        *)
(* commits and file_commits, and the transactions of internal/db/store.go  *)
(* that change them.  Every action is one committed transaction; module    *)
(* BranchTx models the row locks that make them atomic and implements this *)
(* specification.  A transaction that returns an error is rolled back and  *)
(* changes nothing, so its guard simply does not hold here.                *)
(*                                                                         *)
(* A branch that has no row has status "absent".  version_id NULL (a       *)
(* deletion) is Deleted.  The commit hash is represented by the commit it  *)
(* chains to: prev is the set holding the sequence of that commit, and is  *)
(* empty for a commit chained to GenesisHash.                              *)
(***************************************************************************)
EXTENDS Integers

CONSTANTS Main,      \* the name of the permanent branch
          Branches,  \* the names of the other branches
          Paths,     \* file paths
          Versions,  \* document versions (version_id)
          Deleted,   \* the NULL version_id of a deletion
          Authors,   \* identities
          SeqNos,    \* the numbers the BIGSERIAL of commits can hand out
          Patches    \* the file changes that clients commit

FileVersions == Versions \cup {Deleted}
FileSets == UNION {[P -> FileVersions] : P \in (SUBSET Paths) \ {{}}}

ASSUME BranchStoreAssumption ==
    /\ Main \notin Branches
    /\ Deleted \notin Versions
    /\ SeqNos \subseteq Nat \ {0}
    /\ Patches \subseteq FileSets

VARIABLES status,        \* branches.status, "absent" when there is no row
          head,          \* branches.head_sequence
          base,          \* branches.base_sequence
          draft,         \* branches.draft
          commits,       \* rows of commits
          file_commits,  \* rows of file_commits
          used           \* the sequence numbers handed out so far

branchVars == <<status, head, base, draft>>
vars == <<status, head, base, draft, commits, file_commits, used>>

Names == Branches \cup {Main}
Statuses == {"absent", "active", "merged", "abandoned"}
CommitRows == [seq: SeqNos, branch: Names, author: Authors, prev: SUBSET SeqNos]
FileRows == [seq: SeqNos, branch: Names, path: Paths, ver: FileVersions]

Exists(b) == status[b] # "absent"

-----------------------------------------------------------------------------
(* Queries.                                                                *)

\* SELECT DISTINCT ON (path) ... ORDER BY path, sequence DESC
DistinctOn(S) == {f \in S : \A g \in S : g.path = f.path => g.seq <= f.seq}

RowsSince(b, s) == {f \in file_commits : f.branch = b /\ f.seq > s}

latestChanges(b, s) == DistinctOn(RowsSince(b, s))

\* The keys of the map latestChanges returns.
ChangedPaths(b, s) == {f.path : f \in RowsSince(b, s)}

\* The paths changed on the branch and on main since the branch's base.
ConflictsSkipped(b) == {}
Conflicts(b) == ChangedPaths(b, base[b]) \cap ChangedPaths(Main, base[b])

\* The rows a read of branch b looks at: its own and the inherited ones.
VisibleRows(b) ==
    {f \in file_commits : \/ f.branch = b
                          \/ f.branch = Main /\ f.seq <= base[b]}

LiveFiles(S) == {<<f.path, f.ver>> : f \in {g \in S : g.ver # Deleted}}

MaterializeTree(b) == LiveFiles(DistinctOn(VisibleRows(b)))

\* The same read with ?at=s.
MaterializeTreeAt(b, s) ==
    LiveFiles(DistinctOn({f \in VisibleRows(b) : f.seq <= s}))

\* The newest element of S below s, as a set; empty when there is none.
NewestBelow(S, s) == {x \in S : x < s /\ \A y \in S : y < s => y <= x}

BranchSeqs(C, b) == {c.seq : c \in {d \in C : d.branch = b}}

prevOfAnyBranch(C, b, s) == NewestBelow({c.seq : c \in C}, s)
fetchPrevCommitHash(C, b, s) == NewestBelow(BranchSeqs(C, b), s)

-----------------------------------------------------------------------------
(* Transactions.                                                           *)

\* INSERT INTO commits ... RETURNING sequence, by a transaction that holds the
\* locks of the rows of B: numbers are never handed out twice, those of
\* concurrent transactions, of rolled back ones and of other repositories
\* leave gaps, and what was committed under these locks has smaller numbers.
NewSeqAnyOrder(s, B) == s \in SeqNos \ used
NewSeq(s, B) == s \in SeqNos \ used /\ \A b \in B : s > head[b]

CommitRow(C, s, b, a) ==
    [seq |-> s, branch |-> b, author |-> a, prev |-> fetchPrevCommitHash(C, b, s)]

Init ==
    /\ status = [b \in Names |-> IF b = Main THEN "active" ELSE "absent"]
    /\ head = [b \in Names |-> 0]
    /\ base = [b \in Names |-> 0]
    /\ draft = [b \in Names |-> FALSE]
    /\ commits = {}
    /\ file_commits = {}
    /\ used = {}

Commit(b, files, a, s) ==
    /\ status[b] = "active"
    /\ NewSeq(s, {b})
    /\ commits' = commits \cup {CommitRow(commits, s, b, a)}
    /\ file_commits' = file_commits \cup
           {[seq |-> s, branch |-> b, path |-> p, ver |-> files[p]] : p \in DOMAIN files}
    /\ head' = [head EXCEPT ![b] = s]
    /\ used' = used \cup {s}
    /\ UNCHANGED <<status, base, draft>>

CreateBranch(b, d) ==
    /\ status[b] = "absent"
    /\ status' = [status EXCEPT ![b] = "active"]
    /\ head' = [head EXCEPT ![b] = head[Main]]
    /\ base' = [base EXCEPT ![b] = head[Main]]
    /\ draft' = [draft EXCEPT ![b] = d]
    /\ UNCHANGED <<commits, file_commits, used>>

UpdateBranchDraft(b, d) ==
    /\ Exists(b)
    /\ draft' = [draft EXCEPT ![b] = d]
    /\ UNCHANGED <<status, head, base, commits, file_commits, used>>

Mergeable(b) == status[b] = "active" /\ ~draft[b]

\* Nothing changed on the branch: it is marked merged and main stays as it is.
MergeEmpty(b) ==
    /\ Mergeable(b)
    /\ ChangedPaths(b, base[b]) = {}
    /\ status' = [status EXCEPT ![b] = "merged"]
    /\ UNCHANGED <<head, base, draft, commits, file_commits, used>>

Merge(b, a, s) ==
    /\ Mergeable(b)
    /\ ChangedPaths(b, base[b]) # {}
    /\ Conflicts(b) = {}
    /\ NewSeq(s, {Main, b})
    /\ commits' = commits \cup {CommitRow(commits, s, Main, a)}
    /\ file_commits' = file_commits \cup
           {[f EXCEPT !.seq = s, !.branch = Main] : f \in latestChanges(b, base[b])}
    /\ head' = [head EXCEPT ![Main] = s]
    /\ status' = [status EXCEPT ![b] = "merged"]
    /\ used' = used \cup {s}
    /\ UNCHANGED <<base, draft>>

RebaseEmptyKeepsHead(b) ==
    /\ status[b] = "active"
    /\ ChangedPaths(b, base[b]) = {}
    /\ base' = [base EXCEPT ![b] = head[Main]]
    /\ UNCHANGED <<status, head, draft, commits, file_commits, used>>
RebaseEmpty(b) ==
    /\ status[b] = "active"
    /\ ChangedPaths(b, base[b]) = {}
    /\ base' = [base EXCEPT ![b] = head[Main]]
    /\ head' = [head EXCEPT ![b] = head[Main]]
    /\ UNCHANGED <<status, draft, commits, file_commits, used>>

\* The sequences of the branch's commits since its base, one per replayed group.
branchCommitGroups(b) == {f.seq : f \in RowsSince(b, base[b])}

\* r gives every group its new sequence: allocated one by one in ascending order.
ReplaySeqs(b, r) ==
    /\ \A q \in DOMAIN r : NewSeq(r[q], {Main, b})
    /\ \A p, q \in DOMAIN r : p < q => r[p] < r[q]

ReplayedInPlace(b, r) == {}
ReplayedRows(b, r) == {[f EXCEPT !.seq = r[f.seq]] : f \in RowsSince(b, base[b])}

Rebase(b, a, r, last) ==
    /\ status[b] = "active"
    /\ ChangedPaths(b, base[b]) # {}
    /\ Conflicts(b) = {}
    /\ ReplaySeqs(b, r)
    /\ last \in DOMAIN r /\ \A q \in DOMAIN r : q <= last
    /\ LET new == {r[q] : q \in DOMAIN r}
           seqs == BranchSeqs(commits, b) \cup new
       IN  /\ commits' = commits \cup
                  {[seq |-> n, branch |-> b, author |-> a, prev |-> NewestBelow(seqs, n)] : n \in new}
           /\ used' = used \cup new
    /\ file_commits' = file_commits \cup ReplayedRows(b, r)
    /\ base' = [base EXCEPT ![b] = head[Main]]
    /\ head' = [head EXCEPT ![b] = r[last]]
    /\ UNCHANGED <<status, draft>>

DeleteBranchRow(b) ==
    /\ status[b] = "active"
    /\ status' = [status EXCEPT ![b] = "absent"]
    /\ UNCHANGED <<head, base, draft, commits, file_commits, used>>
DeleteBranch(b) ==
    /\ status[b] = "active"
    /\ status' = [status EXCEPT ![b] = "abandoned"]
    /\ UNCHANGED <<head, base, draft, commits, file_commits, used>>

Terminal == {b \in Branches : status[b] \in {"merged", "abandoned"}}

\* Any of the merged and abandoned branches, by the age of their head commit; a
\* branch that ended after Purge had looked is left, whatever its head is.
Purge(gone) ==
    LET keptRows == {f \in file_commits : f.branch \notin gone} IN
    /\ gone # {}
    /\ status' = [b \in Names |-> IF b \in gone THEN "absent" ELSE status[b]]
    /\ head' = [b \in Names |-> IF b \in gone THEN 0 ELSE head[b]]
    /\ base' = [b \in Names |-> IF b \in gone THEN 0 ELSE base[b]]
    /\ draft' = [b \in Names |-> IF b \in gone THEN FALSE ELSE draft[b]]
    /\ commits' = {c \in commits : c.branch \in gone => c.seq \in {f.seq : f \in keptRows}}
    /\ file_commits' = keptRows
    /\ UNCHANGED used

Next ==
    \/ \E b \in Names, files \in Patches, a \in Authors, s \in SeqNos : Commit(b, files, a, s)
    \/ \E b \in Branches, d \in BOOLEAN : CreateBranch(b, d)
    \/ \E b \in Branches, d \in BOOLEAN : UpdateBranchDraft(b, d)
    \/ \E b \in Branches : MergeEmpty(b)
    \/ \E b \in Branches, a \in Authors, s \in SeqNos : Merge(b, a, s)
    \/ \E b \in Branches : RebaseEmpty(b)
    \/ \E b \in Branches, a \in Authors :
          \E r \in [branchCommitGroups(b) -> SeqNos], last \in branchCommitGroups(b) :
              Rebase(b, a, r, last)
    \/ \E b \in Branches : DeleteBranch(b)
    \/ \E gone \in SUBSET Terminal : Purge(gone)

Spec == Init /\ [][Next]_vars

-----------------------------------------------------------------------------
(* Properties.                                                             *)

\* Type invariant.  It also says that every head and base is 0 or a number the
\* sequence handed out, and that main stays active whatever is called.
TypeOK ==
    /\ status \in [Names -> Statuses]
    /\ status[Main] = "active"
    /\ head \in [Names -> used \cup {0}]
    /\ base \in [Names -> used \cup {0}]
    /\ draft \in [Names -> BOOLEAN]
    /\ commits \subseteq CommitRows
    /\ file_commits \subseteq FileRows
    /\ used \subseteq SeqNos
    /\ base[Main] = 0

\* One sequence number names one commit: no two commits of any branches share
\* it, and the file changes carrying it are those of that commit's branch
\* (commits.sequence is the key that Purge and the readers join on).
SeqNamesCommit ==
    /\ \A c, d \in commits : c.seq = d.seq => c = d
    /\ \A f \in file_commits : \E c \in commits : c.seq = f.seq /\ c.branch = f.branch
    /\ \A c \in commits : c.seq \in used

\* The head of a branch is never behind its base, nor behind any commit or
\* file change of the branch; unless it is the base itself, it is the sequence
\* of a change of the branch; the base is a point of main's past; and a branch
\* name without a row owns nothing.
HeadCoversBranch ==
    /\ \A b \in Names : head[b] = base[b] \/ \E f \in file_commits : f.branch = b /\ f.seq = head[b]
    /\ \A b \in Names : base[b] <= head[b] /\ base[b] <= head[Main]
    /\ \A c \in commits : Exists(c.branch) /\ c.seq <= head[c.branch]
    /\ \A f \in file_commits : Exists(f.branch) /\ f.seq <= head[f.branch]

\* Rebase copies: whatever a branch ever changed it still changes after its
\* base, under a sequence the queries "since base" see.
BranchRowsReplayed ==
    \A f \in file_commits :
        \E g \in file_commits :
            g.branch = f.branch /\ g.path = f.path /\ g.seq > base[f.branch]

\* What holds together in every state the store is left in: numbers, heads and
\* replayed rows.  No part is preserved by every transaction without the
\* others, and all four together are.
IInv == TypeOK /\ SeqNamesCommit /\ HeadCoversBranch /\ BranchRowsReplayed

\* What MaterializeTree and GetFile compute with one scan ordered by sequence
\* is the branch's changes since its base laid over main as of that base: the
\* changes that GetDiff shows and Merge copies are the difference of the trees.
TreeIsOverlay ==
    \A b \in Names : Exists(b) =>
        DistinctOn(VisibleRows(b)) =
            latestChanges(b, base[b]) \cup
            {f \in DistinctOn({g \in file_commits : g.branch = Main /\ g.seq <= base[b]}) :
                f.path \notin ChangedPaths(b, base[b])}

\* The commit hashes of a branch form one chain in the order of the sequence
\* (VerifyChain walks it so): every commit hashes the commit just before it.
ChainLinear ==
    \A c \in commits : c.prev = NewestBelow(BranchSeqs(commits, c.branch), c.seq)

\* A head identifies a tree: while a branch exists, its files change only in
\* a step that moves its head (checks, reviews and cached reads are keyed by
\* the head sequence).  Changes of main never leak into a branch.
HeadIdentifiesTree ==
    [][\A b \in Names :
          Exists(b) /\ Exists(b)' /\ head'[b] = head[b]
              => MaterializeTree(b)' = MaterializeTree(b)]_vars

\* A sequence pins a point in history ("reviews, check runs, and releases all
\* store the sequence at which they were created"): what a read of a branch at
\* a past sequence shows never changes, whatever is committed, merged or purged
\* later on this or any other branch.  Only a rebase of the branch itself,
\* which changes the base such a read goes by, rewrites it; main has no base.
HistoryPinned ==
    [][\A b \in Names, s \in SeqNos :
          Exists(b) /\ Exists(b)' /\ base'[b] = base[b] /\ s <= head[b]
              => MaterializeTreeAt(b, s)' = MaterializeTreeAt(b, s)]_vars

\* The entries of tree T for the paths P, over those of tree U for the others.
Overlay(T, P, U) == {e \in T : e[1] \in P} \cup {e \in U : e[1] \notin P}

\* A merge loses no update: main becomes the branch's files on the paths the
\* branch changed and stays as it is on all others, and no path that main
\* changed after the branch's base is among those overwritten.
MergeLosesNothing ==
    [][\A b \in Branches :
          status[b] = "active" /\ status'[b] = "merged" =>
              LET changed == ChangedPaths(b, base[b]) IN
              /\ MaterializeTree(Main)' =
                     Overlay(MaterializeTree(b), changed, MaterializeTree(Main))
              /\ \A e \in MaterializeTree(Main) :
                     e[1] \in ChangedPaths(Main, base[b]) => e \in MaterializeTree(Main)']_vars

\* A rebase keeps the branch's work: afterwards the branch shows its own
\* changes over main's current files, main is what it was, and the branch
\* changes exactly the paths it changed before.
RebaseKeepsChanges ==
    [][\A b \in Branches :
          Exists(b) /\ Exists(b)' /\ base'[b] # base[b] =>
              /\ base'[b] = head[Main]
              /\ MaterializeTree(Main)' = MaterializeTree(Main)
              /\ ChangedPaths(b, base[b])' = ChangedPaths(b, base[b])
              /\ MaterializeTree(b)' = Overlay(MaterializeTree(b),
                     ChangedPaths(b, base[b]), MaterializeTree(Main))]_vars
=============================================================================
