------------------------------- MODULE Reads -------------------------------
(***************************************************************************)
(* Answers put together from several queries while commits and rebases go   *)
(* on: trees in pages, archives with their presigned checksum, file         *)
(* histories, the web log, the log of the command line, the file page, the  *)
(* diff of a commit and the context of an agent.  A query is one step.  Of   *)
(* the store (see BranchStore) this keeps main, one branch and one changed   *)
(* path per commit.                                                          *)
(***************************************************************************)
EXTENDS Integers, Sequences, FiniteSets, Functions

CONSTANTS
    NPaths,        \* paths are 1..NPaths, in the order of their names
    MaxReadSeq,        \* bound: sequences handed out
    PageSize,      \* entries of a page, rows of a log page
    HistLimit,     \* entries of the history on the file page
    MaxCommitRange, \* commits of an agent context
    MaxReadFaults  \* bound: files an archive has left out when another read fails

ASSUME ReadsAssumption ==
    /\ NPaths \in Nat \ {0} /\ MaxReadSeq \in Nat /\ PageSize \in Nat \ {0}
    /\ HistLimit \in Nat \ {0} /\ MaxCommitRange \in Nat \ {0} /\ MaxReadFaults \in Nat

VARIABLES
    commits,   \* rows: [seq, branch, path, ver, replay, was]; ver = 0 deletes, was is
               \* the version the branch showed before (history)
    branches,  \* [main and topic -> [head, base]]
    rd,        \* the reader
    url        \* the presigned archive, NoUrl when there is none that is still valid; sig
               \* is NoSig until its checksum is computed

readVars == <<commits, branches, rd, url>>

Main == "main"
Names == {Main, "topic"}
Paths == 1 .. NPaths
Latest == 0                   \* no "at" parameter
NoSig == <<Main, Latest>>
Archive(sig, b, rebased, checksum, partial) ==
    [sig |-> sig, b |-> b, rebased |-> rebased, checksum |-> checksum, partial |-> partial]
NoUrl == Archive(NoSig, "none", FALSE, <<>>, {})

-----------------------------------------------------------------------------
(* Queries of the read store.                                              *)

\* Rows of b, and of main up to b's base; main's own base is 0.
Visible(b) == {r \in commits : r.branch = b \/ (r.branch = Main /\ r.seq <= branches[b].base)}
Newest(rows) == CHOOSE r \in rows : \A q \in rows : q.seq <= r.seq
VersionIn(rows) == IF rows = {} THEN 0 ELSE Newest(rows).ver

\* 0: there is no such file, or it was deleted.
GetFile(b, p, at) ==
    VersionIn({r \in Visible(b) : r.path = p /\ (at = Latest \/ r.seq <= at)})

Rising(s) == \A i, j \in DOMAIN s : i < j => s[i] < s[j]
Falling(s) == \A i, j \in DOMAIN s : i < j => s[j] < s[i]
Ascending(S) == CHOOSE s \in [1 .. Cardinality(S) -> S] : Rising(s)
Descending(S) == CHOOSE s \in [1 .. Cardinality(S) -> S] : Falling(s)
FirstOf(s, n) == SubSeq(s, 1, IF Len(s) < n THEN Len(s) ELSE n)

MaterializeTree(b, at, limit, after) ==
    FirstOf(Ascending({p \in Paths : p > after /\ GetFile(b, p, at) # 0}), limit)

\* Sequences, newest first, below the cursor.
GetFileHistory(b, p, limit, after) ==
    LET rows == {r \in Visible(b) : r.path = p /\ (after = Latest \/ r.seq < after)}
    IN  FirstOf(Descending({r.seq : r \in rows}), limit)

latestChanges(b, since) == {r.path : r \in {x \in commits : x.branch = b /\ x.seq > since}}
GetChain(from, to) == {r \in commits : from <= r.seq /\ r.seq <= to}
GetCommit(s) == {r \in commits : r.seq = s}

-----------------------------------------------------------------------------
(* Writers.                                                                *)

\* A number not yet used, above the head of the branch it is locked with; at
\* most one smaller number is still with a transaction that has not committed.
NewSeq(s, b) ==
    /\ s \in (1 .. MaxReadSeq) \ {r.seq : r \in commits}
    /\ s > branches[b].head
    /\ s <= Cardinality(commits) + 2

\* A running listing notes which paths answer differently from now on.  An
\* answer is looked at before anything else is written.
Done == rd.op \in {"listed", "signed", "served", "logged", "file shown", "diffed", "context read"}
Listing == rd.op \in {"tree", "archive"}
Moved == {p \in Paths : \E b \in {rd.b}, at \in {rd.at} : GetFile(b, p, at)' # GetFile(b, p, at)}
ReaderNotes ==
    /\ ~Done
    /\ rd' = IF Listing THEN [rd EXCEPT !.touched = rd.touched \cup Moved] ELSE rd

WriteFile(b, p, s, del) ==
    /\ NewSeq(s, b)
    /\ del => GetFile(b, p, Latest) # 0
    /\ commits' = commits \cup {[seq |-> s, branch |-> b, path |-> p, replay |-> FALSE,
                                 ver |-> IF del THEN 0 ELSE s, was |-> GetFile(b, p, Latest)]}
    /\ branches' = [branches EXCEPT ![b] = [head |-> s, base |-> branches[b].base]]
    /\ ReaderNotes
    /\ UNCHANGED url

branchCommitGroups == {x \in commits : x.branch = "topic" /\ x.seq > branches["topic"].base}

\* A rebase without conflict replays the rows since the base, in order, at the
\* sequences of r, and moves the base to main's head.
RebaseTopic(r) ==
    LET old == branchCommitGroups
        replays == {[seq |-> r[x.seq], branch |-> "topic", path |-> x.path, ver |-> x.ver,
                     replay |-> TRUE, was |-> x.was] : x \in old}
        newHead == IF old = {} THEN branches[Main].head ELSE r[Newest(old).seq]
    IN  /\ latestChanges("topic", branches["topic"].base)
               \cap latestChanges(Main, branches["topic"].base) = {}
        /\ \A q \in DOMAIN r : NewSeq(r[q], "topic") /\ NewSeq(r[q], Main)
        /\ \A q, t \in DOMAIN r : q < t => r[q] < r[t]
        /\ commits' = commits \cup replays
        /\ branches' = [branches EXCEPT !["topic"] = [head |-> newHead, base |-> branches[Main].head]]
        /\ ReaderNotes
        /\ url' = IF url.b = "topic" THEN [url EXCEPT !.rebased = TRUE] ELSE url

-----------------------------------------------------------------------------
(* Readers.                                                                *)

\* got: what was gathered; due: what the store held for it at the start.
Start(op, b, at, p, after, due, got) ==
    [op |-> op, b |-> b, at |-> at, p |-> p, after |-> after, todo |-> <<>>, got |-> got,
     last |-> FALSE, due |-> due, touched |-> {}, skipped |-> {}]
Begin(op, b, at) == Start(op, b, at, 0, 0, {}, <<>>)
NoReader == Begin("idle", Main, Latest)
Reading(op) == rd.op = op
Free == rd.op = "idle" /\ url = NoUrl     \* readers share nothing but the url
Finished(op) == [rd EXCEPT !.op = op]
OnlyReader == UNCHANGED <<commits, branches, url>>

\* The "at" of a request: none, or a sequence the branch has had as its head.
ReadPoints(b) == {Latest} \cup {r.seq : r \in {x \in commits : x.branch = b}}

\* A client pages through GET /tree until a page is short.
handleTree(b, at) ==
    /\ Free
    /\ rd' = Begin("tree", b, at)
    /\ OnlyReader

LastPage(page) == Len(page) < PageSize

TreePage ==
    LET page == MaterializeTree(rd.b, rd.at, PageSize, rd.after) IN
    /\ Reading("tree")
    /\ rd' = [rd EXCEPT
           !.got = rd.got \o [i \in DOMAIN page |-> <<page[i], GetFile(rd.b, page[i], rd.at)>>],
           !.op = IF LastPage(page) THEN "listed" ELSE "tree",
           !.after = IF LastPage(page) THEN rd.after ELSE page[Len(page)]]
    /\ OnlyReader

\* GET /-/archive streams the archive, to the client or (presign) to a hasher.
handleArchive(b, at) ==
    /\ Free
    /\ rd' = Begin("archive", b, at)
    /\ OnlyReader

\* The archive of a job: its branch at the sequence that started it, which may
\* have commits after it by now.
JobPoints(b) == (ReadPoints(b) \cup {branches[b].head}) \ {Latest}

handleArchivePresign(b, at) ==
    /\ Free
    /\ rd' = Begin("presign", b, at)
    /\ url' = Archive(NoSig, b, FALSE, <<>>, {})
    /\ UNCHANGED <<commits, branches>>

Sign(b, at) == <<b, at>>
Verify(sig, b, at) == sig = Sign(b, at)

handlePresignedArchive(b, at) ==
    /\ Reading("idle")
    /\ url # NoUrl /\ Verify(url.sig, b, at)
    /\ rd' = Begin("serve", b, at)
    /\ OnlyReader

\* Expiry is looked at before an archive is served, not while it is.
UrlExpires ==
    /\ Reading("idle") /\ url # NoUrl
    /\ url' = NoUrl
    /\ UNCHANGED <<commits, branches, rd>>

Archiving == rd.op \in {"archive", "presign", "serve"}

ArchivePage ==
    LET page == MaterializeTree(rd.b, rd.at, PageSize, rd.after) IN
    /\ Archiving /\ rd.todo = <<>> /\ ~rd.last
    /\ rd' = [rd EXCEPT !.todo = page, !.last = LastPage(page),
                        !.after = IF page = <<>> THEN rd.after ELSE page[Len(page)]]
    /\ OnlyReader

\* The query of a page fails.  Of an archive for a client the paths after the
\* cursor are left out: the deferred Close of the tar writer ends it properly.  A
\* presign answers with an error instead of a url.
ArchivePageFails ==
    /\ Archiving /\ rd.todo = <<>> /\ ~rd.last
    /\ Cardinality(rd.skipped) < MaxReadFaults
    /\ IF rd.op = "presign" THEN rd' = NoReader /\ url' = NoUrl
       ELSE /\ rd' = [rd EXCEPT !.last = TRUE,
                                !.skipped = rd.skipped \cup {p \in Paths : p > rd.after}]
            /\ UNCHANGED url
    /\ UNCHANGED <<commits, branches>>

\* A file that is gone, or whose blob cannot be read, is left out.
ArchiveFile(ok) ==
    LET p == Head(rd.todo)
        v == GetFile(rd.b, p, rd.at) IN
    /\ Archiving /\ rd.todo # <<>>
    /\ rd' = [rd EXCEPT !.todo = Tail(rd.todo),
                        !.got = IF ok /\ v # 0 THEN Append(rd.got, <<p, v>>) ELSE rd.got,
                        !.skipped = IF ok THEN rd.skipped ELSE rd.skipped \cup {p}]
    /\ ok \/ Cardinality(rd.skipped) < MaxReadFaults
    /\ OnlyReader

ArchiveEnd ==
    /\ Archiving /\ rd.todo = <<>> /\ rd.last
    /\ rd' = Finished(CASE rd.op = "archive" -> "listed" [] rd.op = "presign" -> "signed"
                      [] rd.op = "serve" -> "served")
    /\ url' = IF rd.op # "presign" THEN url
              ELSE Archive(Sign(rd.b, rd.at), rd.b, url.rebased, rd.got, rd.skipped)
    /\ UNCHANGED <<commits, branches>>

\* A client pages through the history of a file.
handleFileHistory(b, p) ==
    /\ Free
    /\ rd' = Start("history", b, Latest, p, 0,
                   {r.seq : r \in {x \in Visible(b) : x.path = p}}, <<>>)
    /\ OnlyReader

HistoryPage ==
    LET page == GetFileHistory(rd.b, rd.p, PageSize, rd.after) IN
    /\ Reading("history")
    /\ rd' = [rd EXCEPT !.got = rd.got \o page,
                        !.op = IF LastPage(page) THEN "logged" ELSE "history",
                        !.after = IF page = <<>> THEN rd.after ELSE page[Len(page)]]
    /\ OnlyReader

\* The rows of a window of sequences that are commits of the branch.
chainToLogRows(entries, b) == Descending({r.seq : r \in {x \in entries : x.branch = b}})
WindowStart(to) == IF to - PageSize + 1 < 1 THEN 1 ELSE to - PageSize + 1
LogWindow(state, to) ==
    [state EXCEPT !.got = state.got \o chainToLogRows(GetChain(WindowStart(to), to), state.b),
                  !.after = WindowStart(to),
                  !.op = IF WindowStart(to) > 1 THEN "log" ELSE "logged"]

\* The first window ends at the head that GetBranch returned.
handleCommitLog(b) ==
    /\ Free
    /\ rd' = Start("log first", b, Latest, 0, branches[b].head,
                   {r.seq : r \in {x \in commits : x.branch = b}}, <<>>)
    /\ OnlyReader
LogFirstRows ==
    /\ Reading("log first")
    /\ rd' = LogWindow(rd, rd.after)
    /\ OnlyReader

(* Mutant. *)
handleLogRowsPartial_skips ==
    /\ Reading("log")
    /\ rd' = LogWindow(rd, rd.after - 2)
    /\ OnlyReader

handleLogRowsPartial ==
    /\ Reading("log")
    /\ rd' = LogWindow(rd, rd.after - 1)
    /\ OnlyReader

\* ds log: the branch row first, then one commit after the other down to the base.
logBranch(b) ==
    LET own == {r.seq : r \in {x \in commits : x.branch = b /\ x.seq > branches[b].base}} IN
    /\ Free
    /\ rd' = Start("walk", b, branches[b].base, 0, branches[b].head,
                   Range(FirstOf(Descending(own), HistLimit)), <<>>)
    /\ OnlyReader
WalkCommit ==
    LET found == \E r \in GetCommit(rd.after) : r.branch = rd.b IN
    /\ Reading("walk")
    /\ rd' = IF rd.after > rd.at /\ Len(rd.got) < HistLimit
             THEN [rd EXCEPT !.after = rd.after - 1,
                             !.got = IF found THEN Append(rd.got, rd.after) ELSE rd.got]
             ELSE Finished("logged")
    /\ OnlyReader

\* The file page of the web interface: the tree (left out), the file, then its
\* newest history.
handleFile(b, p, at) ==
    /\ Free
    /\ rd' = Start("file", b, at, p, 0, {}, <<>>)
    /\ OnlyReader
FilePageContent ==
    /\ Reading("file")
    /\ rd' = [rd EXCEPT !.op = "file read", !.due = {GetFile(rd.b, rd.p, rd.at)}]
    /\ OnlyReader

FilePageHistory ==
    /\ Reading("file read")
    /\ rd' = [rd EXCEPT !.op = "file shown",
                        !.got = GetFileHistory(rd.b, rd.p, HistLimit, Latest)]
    /\ OnlyReader

\* The diff of one file of a commit: the file at the commit, then just before it.
handleCommitFileDiffPartial(c) ==
    /\ Free
    /\ rd' = Start("diff", c.branch, c.seq, c.path, 0, {}, <<GetFile(c.branch, c.path, c.seq)>>)
    /\ OnlyReader

(* Mutant. *)
DiffPrevious_base ==
    /\ Reading("diff")
    /\ rd' = [Finished("diffed") EXCEPT
                 !.got = <<GetFile(rd.b, rd.p, branches[rd.b].base), rd.got[1]>>]
    /\ OnlyReader

DiffPrevious ==
    /\ Reading("diff")
    /\ rd' = [Finished("diffed") EXCEPT
                 !.got = <<IF rd.at = 1 THEN 0 ELSE GetFile(rd.b, rd.p, rd.at - 1), rd.got[1]>>]
    /\ OnlyReader

\* The context of an agent: the branch, its diff (the base, then the changed
\* paths), then the commits up to the head read first.
AssembleAgentContext ==
    /\ Free
    /\ rd' = Start("context", "topic", branches["topic"].base, 0, branches["topic"].head, {}, <<>>)
    /\ OnlyReader
GetDiff ==
    /\ Reading("context")
    /\ rd' = [rd EXCEPT !.op = "context base", !.p = branches[rd.b].base]
    /\ OnlyReader
DiffChanges ==
    /\ Reading("context base")
    /\ rd' = [rd EXCEPT !.op = "context diff", !.due = latestChanges(rd.b, rd.p)]
    /\ OnlyReader
RecentCommits(first, to) ==
    LET from == IF to - first + 1 > MaxCommitRange THEN to - MaxCommitRange + 1 ELSE first
    IN  {r \in GetChain(from, to) : r.branch = rd.b}

ContextCommits ==
    /\ Reading("context diff")
    /\ rd' = [Finished("context read") EXCEPT
                 !.got = Ascending({r.path : r \in RecentCommits(rd.at + 1, rd.after)})]
    /\ OnlyReader

\* Only a presigned archive matters to a later request.
Answered == Done /\ url # NoUrl /\ rd' = NoReader /\ OnlyReader

ReadsInit ==
    /\ commits = {}
    /\ branches = [b \in Names |-> [head |-> 0, base |-> 0]]
    /\ rd = NoReader
    /\ url = NoUrl

ReadsNext ==
    \/ \E b \in Names, p \in Paths, s \in 1 .. MaxReadSeq, del \in BOOLEAN : WriteFile(b, p, s, del)
    \/ \E r \in [{x.seq : x \in branchCommitGroups} -> 1 .. MaxReadSeq] : RebaseTopic(r)
    \/ \E b \in Names : \E at \in ReadPoints(b) : handleTree(b, at)
    \/ \E b \in Names : handleArchive(b, Latest)    \* pinned: see handlePresignedArchive
    \/ \E b \in Names, at \in 1 .. MaxReadSeq : handlePresignedArchive(b, at)
    \/ TreePage
    \/ \E b \in Names : \E at \in JobPoints(b) : handleArchivePresign(b, at)
    \/ \E b \in Names : handleCommitLog(b) \/ logBranch(b)
    \/ UrlExpires
    \/ ArchivePage
    \/ ArchivePageFails
    \/ \E ok \in BOOLEAN : ArchiveFile(ok)
    \/ ArchiveEnd
    \/ \E b \in Names, p \in Paths : handleFileHistory(b, p)
    \/ HistoryPage
    \/ LogFirstRows
    \/ handleLogRowsPartial
    \/ WalkCommit
    \/ \E b \in Names, p \in Paths : \E at \in ReadPoints(b) : handleFile(b, p, at)
    \/ FilePageContent
    \/ FilePageHistory
    \/ \E c \in commits : handleCommitFileDiffPartial(c)
    \/ DiffPrevious
    \/ AssembleAgentContext
    \/ GetDiff
    \/ DiffChanges
    \/ ContextCommits
    \/ Answered

ReadsSpec == ReadsInit /\ [][ReadsNext]_readVars

-----------------------------------------------------------------------------
(* Properties.                                                             *)

Versions == 0 .. MaxReadSeq
Entries == Seq(Paths \X Versions)
ReadRows == [seq : 1 .. MaxReadSeq, branch : Names, path : Paths, ver : Versions,
             replay : BOOLEAN, was : Versions]
Listings == {"tree", "archive", "presign", "serve", "listed", "signed", "served"}
Logs == {"history", "log first", "log", "walk", "logged"}
FilePages == {"file", "file read", "file shown", "diff", "diffed", "context", "context base",
              "context diff", "context read"}
Readers(G) == [op : Listings \cup Logs \cup FilePages \cup {"idle"}, b : Names, at : Nat, p : Nat,
               after : Nat, todo : Seq(Paths), got : G, last : BOOLEAN, due : SUBSET Nat,
               touched : SUBSET Paths, skipped : SUBSET Paths]
Archives == [sig : Names \X Nat, b : Names \cup {"none"}, rebased : BOOLEAN, checksum : Entries,
             partial : SUBSET Paths]

\* Type invariant.
ReadsTypeOK ==
    /\ commits \subseteq ReadRows
    /\ branches \in [Names -> [head : Nat, base : Nat]]
    /\ rd \in Readers(IF rd.op \in Listings THEN Entries ELSE Seq(Nat))
    /\ url \in Archives

\* The rows of the store: a sequence names one row, the head of a branch is its
\* newest row or its base, every path the branch has changed is still changed after
\* its base, and a row records what it replaced.
RowsBefore(c) == {r \in Visible(c.branch) : r.path = c.path /\ r.seq < c.seq}
StoreFits ==
    /\ \A r, q \in commits : r.seq = q.seq => r = q
    /\ \A r \in commits : r.seq <= branches[r.branch].head
    /\ \A b \in Names :
           /\ branches[b].base <= branches[b].head
           /\ \/ branches[b].head = branches[b].base
              \/ \E r \in commits : r.branch = b /\ r.seq = branches[b].head
    /\ branches[Main].base = 0 /\ branches["topic"].base <= branches[Main].head
    /\ \A r \in commits : r.branch = "topic" =>
           \E q \in commits : /\ q.branch = "topic" /\ q.path = r.path
                               /\ branches["topic"].base < q.seq
    /\ \A c \in commits : c.replay \/ c.was = VersionIn(RowsBefore(c))

\* A listing under way: what it has and what it has still to read are in the
\* order of the paths, and up to the cursor it has every path that has not moved,
\* with its version.
Steady(p) ==
    /\ p \notin rd.touched \cup rd.skipped
    /\ rd.op \in {"presign", "serve", "signed", "served"} => ~url.rebased
Over == rd.last \/ rd.op \in {"listed", "signed", "served"}
RisingPaths(entries) == \A i, j \in DOMAIN entries : i < j => entries[i][1] < entries[j][1]
ListingFits ==
    rd.op \in Listings =>
        /\ RisingPaths(rd.got) /\ Rising(rd.todo)
        /\ \A i \in DOMAIN rd.got, k \in DOMAIN rd.todo : rd.got[i][1] < rd.todo[k]
        /\ \A k \in DOMAIN rd.todo : rd.todo[k] <= rd.after
        /\ rd.op # "listed" => \A i \in DOMAIN rd.got : rd.got[i][1] <= rd.after
        /\ rd.op \in {"tree", "listed", "signed", "served"} => rd.todo = <<>>
        /\ rd.op \notin {"tree", "archive", "listed"} => rd.touched = {}
        /\ \A p \in Paths : Steady(p) =>
               LET v == GetFile(rd.b, p, rd.at) IN
               /\ (p <= rd.after \/ Over) /\ v # 0 => p \in Range(rd.todo) \/ <<p, v>> \in Range(rd.got)
               /\ v = 0 => p \notin Range(rd.todo)
               /\ \A i \in DOMAIN rd.got : rd.got[i][1] = p => rd.got[i] = <<p, v>> /\ v # 0

\* What an archive has left out, because a file or a page could not be read, is
\* not among its entries, nor still to be read; a tree leaves nothing out.
SkippedFits ==
    rd.op \in Listings =>
        /\ rd.op = "tree" => rd.skipped = {}
        /\ \A i \in DOMAIN rd.got : rd.got[i][1] \notin rd.skipped
        /\ \A k \in DOMAIN rd.todo : rd.todo[k] \notin rd.skipped
        /\ rd.last \/ \A p \in rd.skipped : p <= rd.after

\* The entries are the tree of the branch at the sequence, in its order.
Complete(entries, b, at) ==
    /\ RisingPaths(entries)
    /\ \A p \in Paths, v \in Versions :
           <<p, v>> \in Range(entries) <=> v # 0 /\ v = GetFile(b, p, at)

\* A presigned archive is of a sequence the branch has reached, and its checksum
\* is that of the whole tree there.
UrlFits ==
    /\ url.sig # NoSig =>
           /\ url.sig[1] = url.b /\ url.b \in Names
           /\ 0 < url.sig[2] /\ url.sig[2] <= branches[url.b].head
           /\ ~url.rebased /\ url.partial = {} => Complete(url.checksum, url.b, url.sig[2])
    /\ rd.op = "presign" => url.b = rd.b /\ 0 < rd.at /\ rd.at <= branches[rd.b].head
    /\ rd.op \in {"serve", "served"} => url.sig = Sign(rd.b, rd.at) /\ rd.at # Latest

\* A log under way has the commits above the cursor, newest first.
LogFits ==
    /\ rd.op \in Logs => Falling(rd.got)
    /\ rd.op = "history" =>
           /\ \A x \in rd.due : \E r \in Visible(rd.b) : r.path = rd.p /\ r.seq = x
           /\ rd.after = Latest => rd.got = <<>>
           /\ \A i \in DOMAIN rd.got : rd.after <= rd.got[i]
           /\ \A x \in rd.due : x \in Range(rd.got) \/ rd.after = Latest \/ x < rd.after
    /\ rd.op \in {"log first", "log", "walk"} =>
           \A x \in rd.due : \E r \in commits : r.branch = rd.b /\ r.seq = x
    /\ rd.op = "log first" => rd.got = <<>> /\ \A x \in rd.due : x <= rd.after
    /\ rd.op = "log" =>
           /\ 1 < rd.after /\ \A i \in DOMAIN rd.got : rd.after <= rd.got[i]
           /\ \A x \in rd.due : x \in Range(rd.got) \/ x < rd.after
    /\ rd.op = "walk" =>
           /\ rd.after <= branches[rd.b].head
           /\ \A i \in DOMAIN rd.got : rd.after < rd.got[i] /\ rd.got[i] \in rd.due
           /\ \A x \in rd.due : rd.at < x /\ (x \in Range(rd.got) \/ x <= rd.after)
           /\ Cardinality(rd.due) <= HistLimit
           /\ \A r \in commits :
                  r.branch = rd.b /\ rd.at < r.seq /\ r.seq <= rd.after /\ r.seq \notin rd.due =>
                      Cardinality(rd.due) = HistLimit /\ \A x \in rd.due : r.seq < x

\* What the first queries of a page have found belongs to rows that are still there.
PageFits ==
    /\ rd.op \in {"file read", "file shown"} =>
           \A v \in rd.due \ {0} : \E r \in Visible(rd.b) : r.path = rd.p /\ r.ver = v
    /\ rd.op = "diff" =>
           \E c \in commits : /\ c.seq = rd.at /\ c.branch = rd.b /\ c.path = rd.p
                               /\ rd.got = <<c.ver>>
    /\ rd.op \in {"context", "context base", "context diff"} =>
           rd.b = "topic" /\ rd.after <= branches["topic"].head
    /\ rd.op = "context base" => rd.p <= branches["topic"].base
    /\ rd.op = "context diff" =>
           \A r \in commits :
               r.branch = "topic" /\ rd.at < r.seq /\ r.seq <= rd.after => r.path \in rd.due

\* A tree read in pages, or an archive, while commits and rebases land (handleTree,
\* writeArchive) has no path twice; a path whose version stayed the same all along
\* is in it exactly once, with that version, unless a read of it or of its page
\* failed, and then it is left out; a path that never existed is not in it.
ListedAsStored ==
    rd.op = "listed" =>
        /\ RisingPaths(rd.got)
        /\ \A p \in Paths \ rd.touched :
               LET v == GetFile(rd.b, p, rd.at)
                   hits == {i \in DOMAIN rd.got : rd.got[i][1] = p}
               IN  IF v = 0 \/ p \in rd.skipped THEN hits = {}
                   ELSE \E i \in hits : hits = {i} /\ rd.got[i][2] = v

\* The archive that BuildKit fetches later is the one the checksum of
\* handleArchivePresign was computed for, whatever was committed since: they differ
\* only when the branch was rebased in between, or when a file or a page could not
\* be read for one of them.  An archive that BuildKit accepts, although it may have
\* been cut short, is the whole tree at the job's sequence, unless the branch was
\* rebased or the archive the checksum was computed for lacked a file itself.
ArchiveMatchesChecksum ==
    rd.op = "served" =>
        /\ rd.got = url.checksum \/ url.rebased \/ rd.skipped \cup url.partial # {}
        /\ rd.got = url.checksum /\ ~url.rebased /\ url.partial = {} =>
               Complete(rd.got, rd.b, rd.at)

\* A history, web log or ds log put together from several requests has its
\* commits in strictly descending order, none twice, and misses none that was there
\* when it began (the cursor of GetFileHistory, the windows of handleLogRowsPartial,
\* the walk of logBranch).
ListingComplete ==
    rd.op = "logged" =>
        /\ \A i, j \in DOMAIN rd.got : i < j => rd.got[i] > rd.got[j]
        /\ rd.due \subseteq Range(rd.got)

\* The file page reads content and history separately, the history without the
\* "at" of the page: the version shown is in the history, unless that is full.
HistoryShowsFile ==
    rd.op = "file shown" =>
        \A v \in rd.due \ {0} :
            \/ Len(rd.got) = HistLimit
            \/ \E r \in commits : r.seq \in Range(rd.got) /\ r.ver = v

\* The diff of a commit in the web interface is the change the commit made, also
\* when it is looked at after later commits and rebases (which insert rows of main
\* below it); replayed commits excepted, whose original is still below them.
CommitDiffIsCommit ==
    rd.op = "diffed" =>
        \A c \in GetCommit(rd.at) : c.replay \/ rd.got = <<c.was, c.ver>>

\* AssembleAgentContext reads branch, diff and commits one after the other: every
\* recent commit it lists has its path among the changes it reports.
ContextDiffCoversCommits ==
    rd.op = "context read" => Range(rd.got) \subseteq rd.due

\* Listings and archives that are put together page by page have what stayed as
\* it was, but for what a failed read left out of an archive, and an archive is the
\* one that was signed, but for failed reads and a rebase; logs miss nothing.
ListingsSound ==
    /\ ListingFits /\ SkippedFits /\ UrlFits /\ LogFits
    /\ ListedAsStored /\ ListingComplete /\ ArchiveMatchesChecksum

\* Pages that show a file, a diff or a branch together with its commits show what
\* belongs together, but for a full history and the diffs of replayed commits.
DiffsSound ==
    /\ ReadsTypeOK /\ StoreFits /\ PageFits
    /\ HistoryShowsFile
    /\ CommitDiffIsCommit
    /\ ContextDiffCoversCommits
=============================================================================
