----------------------------- MODULE Workspace -----------------------------
(***************************************************************************)
(* A ds workspace: a directory, .ds/config.json and .ds/state.json, and    *)
(* the commands that move them, against a server that other people write   *)
(* to at any moment.  A step is one HTTP request with the local writes     *)
(* that follow it; a command may be interrupted between two steps and      *)
(* leaves behind what it has written.  The user edits between commands.    *)
(*                                                                         *)
(* The server is the one of BranchStore, reduced to what a client sees:    *)
(* the tree and head of a branch, and the chain.  The hash of a commit is  *)
(* its sequence: CommitHash recomputed from the hash of another            *)
(* predecessor than the stored one gives another value.  State.Branch is   *)
(* written and never read, and left out.                                   *)
(***************************************************************************)
EXTENDS Naturals, Sequences

CONSTANTS
    Docs, Contents, Topics,
    Gone,        \* a change that deletes its path
    Empty,       \* the empty file
    NoHash,      \* State.CommitHash = ""
    NoBranch,    \* the directory is no workspace yet
    MaxLog, MaxEdits, MaxCommands, MaxOthers,
    MaxInterrupts  \* bound: interrupted commands and reads that fail

VARIABLES
    main,        \* [head, tree] of main
    topic,       \* the branches: [status, head, baseTree, over, moved, commits]
    log,         \* the commits table: [branch, prev] by sequence
    cfg,         \* Config.Branch
    st,          \* State: [seq, files, hash]
    local,       \* the files of the directory: path -> content
    cmd,         \* the running command
    edited,      \* paths the user changed and no commit has posted (history)
    unsaved,     \* paths a command wrote, removed or posted and did not record (history)
    lost,        \* commands that destroyed an unposted edit (history)
    stray,       \* paths posted that the user did not touch (history)
    settled,     \* a sync just ended during which nobody else wrote (history)
    missed,      \* files whose read failed in the last sync (history)
    alarm,       \* a chain error of an anchored pull, or of verify (history)
    edits, commands, others, interrupts

server == <<main, topic, log>>
disk == <<cfg, st, local>>
history == <<edited, unsaved, lost, stray, settled, missed, alarm>>
counters == <<edits, commands, others, interrupts>>
wsVars == <<server, disk, cmd, history, counters>>

Branches == {"main"} \cup Topics
Copies(d) == {<<d, "main">>, <<d, "branch">>}   \* <path>.main and <path>.branch
Paths == Docs \cup UNION {Copies(d) : d \in Docs}

ASSUME WorkspaceAssumption ==
    /\ Contents # {} /\ Gone \notin Contents \cup {Empty}
    /\ \A d \in Docs : Copies(d) \cap Docs = {}     \* no document is named like a copy
    /\ NoHash \notin Nat /\ "main" \notin Topics /\ NoBranch \notin Branches

(* Files by path: what is written, one file over the others.               *)
NoFiles == [p \in {} |-> Empty]
One(p, c) == [q \in {p} |-> c]
Onto(f, g) == [p \in DOMAIN f \cup DOMAIN g |-> IF p \in DOMAIN f THEN f[p] ELSE g[p]]
Without(f, S) == [p \in DOMAIN f \ S |-> f[p]]

NewState == [seq |-> 0, files |-> NoFiles, hash |-> NoHash]

(* A running command: the requests it has left depend on pc and todo; the  *)
(* last four fields are those of syncTree.                                 *)
Command(op, pc, b, todo, seq) ==
    [op |-> op, pc |-> pc, branch |-> b, todo |-> todo, seq |-> seq,
     quiet |-> FALSE, clean |-> FALSE, old |-> NewState, server |-> NoFiles]
Idle == Command("none", "idle", "main", {}, 0)

WsInit ==
    /\ main = [head |-> 1, tree |-> [d \in Docs |-> CHOOSE c \in Contents : TRUE]]
    /\ topic = [b \in Topics |-> [status |-> "none", head |-> 0, baseTree |-> NoFiles,
                                  over |-> NoFiles, moved |-> {}, commits |-> 0]]
    /\ log = << [branch |-> "main", prev |-> 0] >>
    /\ \/ cfg = NoBranch /\ st = NewState /\ local = NoFiles
       \/ /\ cfg = "main" /\ local = main.tree     \* after ds init
          /\ st = [seq |-> 1, files |-> main.tree, hash |-> NoHash]
    /\ cmd = Idle
    /\ edited = {} /\ unsaved = {} /\ lost = {} /\ stray = {}
    /\ settled = FALSE /\ missed = {} /\ alarm = FALSE
    /\ edits = 0 /\ commands = 0 /\ others = 0 /\ interrupts = 0

---------------------------------------------------------------------------
(* The server                                                              *)

At(f, p) == IF p \in DOMAIN f THEN f[p] ELSE Gone
Overlay(tree, chg) ==
    Without(Onto(chg, tree), {p \in DOMAIN chg : chg[p] = Gone})

Exists(b) == b \in Topics => topic[b].status # "none"
Active(b) == b \in Topics => topic[b].status = "active"

(* A branch that does not exist has the empty tree, not an error.          *)
MaterializeTree(b) ==
    IF b = "main" THEN main.tree
    ELSE IF Exists(b) THEN Overlay(topic[b].baseTree, topic[b].over)
    ELSE NoFiles

BranchHead(b) == IF b = "main" THEN main.head ELSE topic[b].head

MaxIn(S) == IF S = {} THEN 0 ELSE CHOOSE m \in S : \A n \in S : n <= m

(* The commit before s on the same branch, or GenesisHash, which is 0.     *)
fetchPrevCommitHash(b, s) == MaxIn({t \in 1..(s - 1) : t <= Len(log) /\ log[t].branch = b})

(* n commits on b, the first after what the log holds.                     *)
Logged(b, n) ==
    log \o [i \in 1..n |-> [branch |-> b,
                            prev |-> IF i > 1 THEN Len(log) + i - 1
                                     ELSE fetchPrevCommitHash(b, Len(log) + 1)]]

(* What every write on main does to the topics.                            *)
MainMoves(paths, t) ==
    [b \in Topics |-> [t[b] EXCEPT !.moved = t[b].moved \cup paths]]

ServerCommit(b, chg) ==
    LET s == Len(log) + 1 IN
    /\ Active(b) /\ s <= MaxLog
    /\ log' = Logged(b, 1)
    /\ IF b = "main"
       THEN /\ main' = [head |-> s, tree |-> Overlay(main.tree, chg)]
            /\ topic' = MainMoves(DOMAIN chg, topic)
       ELSE /\ main' = main
            /\ topic' = [topic EXCEPT ![b] =
                   [topic[b] EXCEPT !.head = s, !.over = Onto(chg, topic[b].over),
                                    !.commits = topic[b].commits + 1]]

CreateBranch(b) ==
    /\ topic[b].status = "none"
    /\ topic' = [topic EXCEPT ![b] =
           [status |-> "active", head |-> main.head, baseTree |-> main.tree,
            over |-> NoFiles, moved |-> {}, commits |-> 0]]
    /\ UNCHANGED <<main, log>>

Conflicts(b) == DOMAIN topic[b].over \cap topic[b].moved

ServerMerge(b) ==
    LET s == Len(log) + 1
        chg == topic[b].over
        done == [topic EXCEPT ![b] = [topic[b] EXCEPT !.status = "merged"]] IN
    /\ b \in Topics /\ topic[b].status = "active" /\ Conflicts(b) = {} /\ s <= MaxLog
    /\ IF DOMAIN chg = {}
       THEN topic' = done /\ UNCHANGED <<main, log>>
       ELSE /\ topic' = MainMoves(DOMAIN chg, done)
            /\ main' = [head |-> s, tree |-> Overlay(main.tree, chg)]
            /\ log' = Logged("main", 1)

ServerRebase(b) ==
    LET n == topic[b].commits IN
    /\ b \in Topics /\ topic[b].status = "active" /\ Conflicts(b) = {}
    /\ Len(log) + n <= MaxLog
    /\ log' = Logged(b, n)
    /\ topic' = [topic EXCEPT ![b] =
           [topic[b] EXCEPT !.baseTree = main.tree, !.moved = {},
                            !.head = IF n = 0 THEN main.head ELSE Len(log) + n]]
    /\ UNCHANGED main

(* Other people.                                                           *)
Noticed == /\ others < MaxOthers /\ others' = others + 1
           /\ settled' = FALSE
           /\ cmd' = [cmd EXCEPT !.quiet = FALSE]
           /\ UNCHANGED <<disk, edits, commands, interrupts, edited, unsaved, lost,
                          stray, missed, alarm>>

OtherCommit(b, d, c) ==
    /\ At(MaterializeTree(b), d) # c
    /\ ServerCommit(b, One(d, c))
    /\ Noticed
OtherMerge(b) == ServerMerge(b) /\ Noticed
OtherRebase(b) == ServerRebase(b) /\ Noticed

---------------------------------------------------------------------------
(* The user and the commands                                               *)

Differing(f, g) == {p \in DOMAIN f \cup DOMAIN g : At(f, p) # At(g, p)}

At_pc(pc) == cmd.pc = pc

(* scanLocalFiles against State.Files; the conflict copies count as files. *)
isDirty == Differing(local, st.files) # {}

Edit(d, c) ==
    /\ At_pc("idle") /\ edits < MaxEdits /\ At(local, d) # c
    /\ local' = Overlay(local, One(d, c))
    /\ edited' = IF At(st.files, d) = c THEN edited \ {d} ELSE edited \cup {d}
    /\ unsaved' = unsaved \ {d}
    /\ settled' = FALSE /\ edits' = edits + 1
    /\ UNCHANGED <<server, cfg, st, cmd, lost, stray, missed, alarm,
                   commands, others, interrupts>>

Begin(c) ==
    /\ At_pc("idle") /\ commands < MaxCommands
    /\ commands' = commands + 1 /\ cmd' = c /\ settled' = FALSE /\ missed' = {}
    /\ UNCHANGED <<edits, others, interrupts, lost, alarm>>
Step(c) == cmd' = c /\ UNCHANGED counters
ReadStep(c, failed) ==
    /\ cmd' = c
    /\ failed = {} \/ interrupts < MaxInterrupts
    /\ missed' = missed \cup failed
    /\ interrupts' = IF failed = {} THEN interrupts ELSE interrupts + 1
    /\ UNCHANGED <<edits, commands, others>>

(* Local writes, which destroy an edit the user had not posted.            *)
Write(files) ==
    LET hit == Differing(local, files) IN
    /\ local' = files
    /\ lost' = IF hit \cap edited = {} THEN lost ELSE lost \cup {cmd.op}
    /\ edited' = edited \ hit

(* Error or Ctrl-C between two steps.                                      *)
Interrupt ==
    /\ ~At_pc("idle") /\ interrupts < MaxInterrupts /\ interrupts' = interrupts + 1
    /\ cmd' = Idle
    /\ UNCHANGED <<server, disk, history, edits, commands, others>>

---------------------------------------------------------------------------
(* syncTree                                                                *)

(* An empty State.Files takes the archive of the branch, if it exists.     *)
syncTree(op, b, s) ==
    [op |-> op, pc |-> IF s.files = NoFiles /\ Exists(b) THEN "archive" ELSE "tree",
     branch |-> b, todo |-> {}, seq |-> 0,
     quiet |-> TRUE, clean |-> Differing(local, s.files) = {}, old |-> s, server |-> NoFiles]

(* The server leaves files out that it cannot read, one or all that are    *)
(* left, and the client does not compare the archive with the listing.     *)
syncArchive(failed) ==
    LET files == Without(MaterializeTree(cmd.branch), failed) IN
    /\ At_pc("archive")
    /\ Write(Onto(files, local))
    /\ unsaved' = unsaved \cup DOMAIN files
    /\ ReadStep([cmd EXCEPT !.pc = "listing"], failed)
    /\ UNCHANGED <<server, cfg, st, stray, settled, alarm>>

ArchiveListing ==
    LET tree == MaterializeTree(cmd.branch) IN
    /\ At_pc("listing")
    /\ unsaved' = unsaved \cup DOMAIN tree
    /\ Step([cmd EXCEPT !.pc = "head", !.server = tree])
    /\ UNCHANGED <<server, disk, edited, lost, stray, settled, missed, alarm>>

ToDownload(tree) == {p \in DOMAIN tree : At(st.files, p) # tree[p]}

TreeListing ==
    LET tree == MaterializeTree(cmd.branch) IN
    /\ At_pc("tree")
    /\ Step([cmd EXCEPT !.pc = "files", !.server = tree, !.todo = ToDownload(tree)])
    /\ UNCHANGED <<server, disk, history>>

(* The status of the answer is not looked at: the body of an error, as     *)
(* when the file was deleted since the listing, decodes to empty content.  *)
Download(p, ok) ==
    LET tree == MaterializeTree(cmd.branch) IN
    /\ At_pc("files") /\ p \in cmd.todo
    /\ Write(Onto(One(p, IF ok /\ p \in DOMAIN tree THEN tree[p] ELSE Empty), local))
    /\ unsaved' = unsaved \cup {p}
    /\ ReadStep([cmd EXCEPT !.todo = cmd.todo \ {p}], IF ok THEN {} ELSE {p})
    /\ UNCHANGED <<server, cfg, st, stray, settled, alarm>>

RemoveDeleted ==
    LET removed == DOMAIN st.files \ DOMAIN cmd.server IN
    /\ At_pc("files") /\ cmd.todo = {}
    /\ Write(Without(local, removed))
    /\ unsaved' = unsaved \cup removed
    /\ Step([cmd EXCEPT !.pc = "head"])
    /\ UNCHANGED <<server, cfg, st, stray, settled, missed, alarm>>

SaveSynced ==
    /\ At_pc("head")
    /\ st' = [seq |-> IF Exists(cmd.branch) THEN BranchHead(cmd.branch) ELSE st.seq,
              files |-> cmd.server, hash |-> st.hash]
    /\ unsaved' = unsaved \cap Differing(local, cmd.server)
    /\ edited' = edited \cap Differing(local, cmd.server)
    /\ settled' = (cmd.quiet /\ cmd.clean)
    /\ Step(IF cmd.op = "pull" THEN [cmd EXCEPT !.pc = "verify"] ELSE Idle)
    /\ UNCHANGED <<server, cfg, local, lost, stray, missed, alarm>>

---------------------------------------------------------------------------
(* Pull and verify                                                         *)

InitWorkspace ==
    /\ cfg = NoBranch
    /\ Begin(syncTree("init", "main", NewState))
    /\ cfg' = "main" /\ st' = NewState
    /\ UNCHANGED <<server, local, edited, unsaved, stray>>

Checkout(b) ==
    /\ cfg # NoBranch /\ ~isDirty
    /\ Begin(syncTree("checkout", b, st)) /\ cfg' = b
    /\ UNCHANGED <<server, st, local, edited, unsaved, stray>>

Pull(skipVerify) ==
    /\ cfg # NoBranch /\ ~isDirty
    /\ Begin(syncTree(IF skipVerify THEN "pull --skip-verify" ELSE "pull", cfg, st))
    /\ UNCHANGED <<server, disk, edited, unsaved, stray>>

(* The entries after from on branch b, each linked to the one before it.   *)
(* Mutant. *)
Linked_allBranches(b, from, to, hash) ==
    \A s \in (from + 1)..to :
        log[s].prev = MaxIn({hash} \cup {t \in (from + 1)..(s - 1) : TRUE})
Linked(b, from, to, hash) ==
    LET own == {s \in (from + 1)..to : log[s].branch = b} IN
    \A s \in own : log[s].prev = MaxIn({hash} \cup {t \in own : t < s})

(* The workspace's hash is the one of the commit that its sequence names,  *)
(* and that commit is on its branch.                                       *)
Anchored(s, b) ==
    s.hash # NoHash /\ s.seq = s.hash /\ log[s.hash].branch = b

VerifyPull ==
    LET old == cmd.old
        anchor == MaxIn({1, old.seq})
        own == {s \in (anchor + 1)..st.seq : log[s].branch = cfg}
        passes == /\ old.seq <= st.seq
                  /\ anchor = old.hash
                  /\ Linked(cfg, anchor, st.seq, old.hash) IN
    /\ At_pc("verify")
    /\ st' = [st EXCEPT !.hash =
           IF st.seq = 0 THEN st.hash
           ELSE IF old.hash = NoHash THEN st.seq
           ELSE IF old.seq # st.seq /\ passes THEN MaxIn({old.hash} \cup own)
           ELSE st.hash]
    /\ alarm' = (alarm \/ (/\ Anchored(old, cfg) /\ old.seq # st.seq /\ ~passes))
    /\ Step(Idle)
    /\ UNCHANGED <<server, cfg, local, edited, unsaved, lost, stray, settled, missed>>

(* The first commit of the branch is taken as it is.                       *)
Verify ==
    LET own == {s \in 1..BranchHead(cfg) : log[s].branch = cfg}
        first == CHOOSE s \in own : \A t \in own : s <= t IN
    /\ At_pc("idle") /\ cfg \in Branches /\ Exists(cfg)
    /\ alarm' = (alarm \/ (own # {} /\ ~Linked(cfg, first, BranchHead(cfg), first)))
    /\ UNCHANGED <<server, disk, cmd, counters, edited, unsaved, lost, stray,
                   settled, missed>>

---------------------------------------------------------------------------
(* Commit, new branches, merge                                             *)

Change(p) == At(local, p)

CommitPost ==
    LET chg == [p \in Differing(local, st.files) |-> Change(p)] IN
    /\ cfg # NoBranch /\ DOMAIN chg # {}
    /\ ServerCommit(cfg, chg)
    /\ Begin(Command("commit", "posted", cfg, {}, Len(log) + 1))
    /\ edited' = edited \ DOMAIN chg /\ unsaved' = unsaved \cup DOMAIN chg
    /\ stray' = stray \cup ((DOMAIN chg \cap Docs) \ (edited \cup unsaved))
    /\ UNCHANGED disk

(* Mutant. *)
CommitSave_noFiles ==
    /\ At_pc("posted")
    /\ st' = [st EXCEPT !.seq = cmd.seq, !.hash = cmd.seq]
    /\ unsaved' = {} /\ Step(Idle)
    /\ UNCHANGED <<server, cfg, local, edited, lost, stray, settled, missed, alarm>>
CommitSave ==
    /\ At_pc("posted")
    /\ st' = [seq |-> cmd.seq, files |-> local, hash |-> cmd.seq]
    /\ unsaved' = {} /\ Step(Idle)
    /\ UNCHANGED <<server, cfg, local, edited, lost, stray, settled, missed, alarm>>

(* The files and the hash carry over from the branch the workspace leaves. *)
CheckoutNew(b) ==
    /\ cfg # NoBranch
    /\ CreateBranch(b)
    /\ Begin(Command("checkout -b", "created", b, {}, main.head))
    /\ UNCHANGED <<disk, edited, unsaved, stray>>
CheckoutNewConfig ==
    /\ At_pc("created") /\ cfg' = cmd.branch
    /\ Step([cmd EXCEPT !.pc = "sequence"])
    /\ UNCHANGED <<server, st, local, history>>

Merge ==
    /\ cfg \in Topics
    /\ ServerMerge(cfg)
    /\ Begin(Command("merge", "merged", cfg, {}, 0))
    /\ UNCHANGED <<disk, edited, unsaved, stray>>
MergeToMain ==
    /\ At_pc("merged") /\ cfg' = "main" /\ Step(syncTree("merge", "main", st))
    /\ UNCHANGED <<server, st, local, history>>

---------------------------------------------------------------------------
(* Rebase and resolve                                                      *)

Rebase ==
    /\ cfg \in Topics
    /\ ServerRebase(cfg)
    /\ Begin(Command("rebase", "sequence", cfg, {}, topic'[cfg].head))
    /\ UNCHANGED <<disk, edited, unsaved, stray>>

(* saveState with the sequence alone: rebase and checkout -b.              *)
SequenceSave ==
    /\ At_pc("sequence") /\ st' = [st EXCEPT !.seq = cmd.seq] /\ Step(Idle)
    /\ UNCHANGED <<server, cfg, local, history>>

RebaseConflict ==
    /\ cfg \in Topics /\ topic[cfg].status = "active" /\ Conflicts(cfg) # {}
    /\ Begin(Command("rebase", "copies", cfg, Conflicts(cfg) \cap Docs, 0))
    /\ UNCHANGED <<server, disk, edited, unsaved, stray>>

(* Both versions of one conflicting file; a deleted side is the empty file.*)
writeRebaseConflictFiles(d) ==
    LET side(b) == IF d \in DOMAIN MaterializeTree(b) THEN MaterializeTree(b)[d] ELSE Empty
        both == [p \in Copies(d) |-> side(IF p = <<d, "main">> THEN "main" ELSE cfg)]
        left == cmd.todo \ {d} IN
    /\ At_pc("copies") /\ d \in cmd.todo
    /\ Write(Onto(both, local))
    /\ unsaved' = unsaved \cup Copies(d)
    /\ Step(IF left = {} THEN Idle ELSE [cmd EXCEPT !.todo = left])
    /\ UNCHANGED <<server, cfg, st, stray, settled, missed, alarm>>

Resolve(d) ==
    /\ cfg # NoBranch /\ Copies(d) \subseteq DOMAIN local /\ d \in DOMAIN local
    /\ ServerCommit(cfg, One(d, local[d]))
    /\ Begin(Command("resolve", "resolved", cfg, {d}, Len(log) + 1))
    /\ edited' = edited \ {d} /\ unsaved' = unsaved \cup {d}
    /\ UNCHANGED <<disk, stray>>
ResolveSave(d) ==
    /\ At_pc("resolved") /\ d \in cmd.todo
    /\ st' = [seq |-> cmd.seq, files |-> Onto(One(d, local[d]), st.files), hash |-> st.hash]
    /\ Write(Without(local, Copies(d)))
    /\ unsaved' = unsaved \ ({d} \cup Copies(d))
    /\ Step(Idle)
    /\ UNCHANGED <<server, cfg, stray, settled, missed, alarm>>

---------------------------------------------------------------------------
WsNext ==
    \/ \E b \in Branches, d \in Docs, c \in Contents \cup {Gone} : OtherCommit(b, d, c)
    \/ \E b \in Topics : OtherMerge(b) \/ OtherRebase(b)
    \/ \E d \in Docs, c \in Contents \cup {Gone} : Edit(d, c)
    \/ Interrupt
    \/ InitWorkspace
    \/ \E b \in Branches : Checkout(b)
    \/ \E v \in BOOLEAN : Pull(v)
    \/ \E failed \in SUBSET DOMAIN MaterializeTree(cmd.branch) : syncArchive(failed)
    \/ ArchiveListing \/ TreeListing
    \/ \E p \in cmd.todo, ok \in BOOLEAN : Download(p, ok)
    \/ RemoveDeleted \/ SaveSynced \/ VerifyPull \/ Verify
    \/ CommitPost \/ CommitSave
    \/ \E b \in Topics : CheckoutNew(b)
    \/ CheckoutNewConfig \/ Merge \/ MergeToMain
    \/ Rebase \/ SequenceSave \/ RebaseConflict
    \/ \E d \in Docs : writeRebaseConflictFiles(d) \/ Resolve(d) \/ ResolveSave(d)
WsSpec == WsInit /\ [][WsNext]_wsVars

---------------------------------------------------------------------------
Trees == UNION {[D -> Contents \cup {Empty}] : D \in SUBSET Paths}
Changes == UNION {[D -> Contents \cup {Empty, Gone}] : D \in SUBSET Paths}
States == [seq : Nat, files : Trees, hash : Nat \cup {NoHash}]
SyncSteps == {"archive", "listing", "tree", "files", "head"}
Ops == {"none", "init", "checkout", "pull", "pull --skip-verify", "commit", "checkout -b",
        "merge", "rebase", "resolve"}
Pcs == SyncSteps \cup {"idle", "verify", "posted", "created", "sequence", "merged", "copies",
                       "resolved"}
Commands ==
    [op : Ops, pc : Pcs, branch : Branches, todo : SUBSET Paths, seq : Nat,
     quiet : BOOLEAN, clean : BOOLEAN, old : States, server : Trees]

ServerTypeOK ==
    /\ main \in [head : Nat, tree : Trees]
    /\ topic \in [Topics -> [status : {"none", "active", "merged"}, head : Nat,
                             baseTree : Trees, over : Changes, moved : SUBSET Paths,
                             commits : Nat]]
    /\ log \in Seq([branch : Branches, prev : Nat])
DiskTypeOK ==
    /\ cfg \in Branches \cup {NoBranch} /\ st \in States /\ local \in Trees
    /\ edited \subseteq Docs /\ unsaved \cup missed \subseteq Paths
    /\ cfg = NoBranch => st = NewState /\ At_pc("idle")
WsTypeOK == ServerTypeOK /\ DiskTypeOK /\ cmd \in Commands

(* An edit no commit has posted shows in the directory, and a command that *)
(* overwrites files has either seen a clean workspace or does not ask.     *)
EditsShow ==
    /\ edited \subseteq Differing(local, st.files)
    /\ At_pc("posted") => edited = {}
    /\ At_pc("resolved") => \E d \in (DOMAIN local) \ edited : cmd.todo = {d}
    /\ cmd.pc \in SyncSteps => cmd.op \in {"init", "merge"} \/ edited = {}

(* What differs from state.json is an edit or what a command left, and so  *)
(* is what will differ once a sync has saved the listing it is working on. *)
DifferencesKnown ==
    /\ Differing(local, st.files) \cap Docs \subseteq edited \cup unsaved
    /\ cmd.pc \in {"archive", "listing"} => st.files = NoFiles
    /\ At_pc("files") =>
           \A p \in DOMAIN cmd.server \ cmd.todo :
               At(st.files, p) = cmd.server[p] \/ p \in unsaved
    /\ At_pc("head") => Differing(local, cmd.server) \cap Docs \subseteq edited \cup unsaved

(* An edit that no commit has posted is destroyed only by ds init in a     *)
(* directory with files and by ds merge, which syncs without isDirty.      *)
EditsSurvive == lost \subseteq {"init", "merge"}

(* ds commit posts what the user changed and what a command left without   *)
(* recording it in state.json: a sync that was interrupted, that others    *)
(* wrote under or that got an error for an answer, or a commit or resolve  *)
(* that was interrupted; by SyncCatchesUp no other sync leaves anything.   *)
(* Such a leftover is posted over whatever others have committed to that   *)
(* file since, although the user never touched it.                         *)
CommitsOwnChanges == stray = {}

(* The user's edits are destroyed by no command but init and merge, and    *)
(* posted together with nothing but what an interrupted, overtaken or      *)
(* failed command left in the directory.                                   *)
EditsKept ==
    WsTypeOK /\ EditsShow /\ DifferencesKnown /\ EditsSurvive /\ CommitsOwnChanges

(* The directory is the tree, but for the files whose read failed: those   *)
(* are empty or missing.                                                   *)
AsGiven(tree) ==
    \A p \in Paths : IF p \in missed THEN At(local, p) \in {Gone, Empty}
                     ELSE At(local, p) = At(tree, p)

(* How far a sync of a clean workspace has come when nobody writes under   *)
(* it: before the listing the directory is as state.json says, then each   *)
(* file downloaded is the server's, and in the end all of them are.        *)
SyncGoesOn ==
    /\ settled => cmd.pc \in {"idle", "verify"}
    /\ cmd.pc \in SyncSteps => cfg = cmd.branch /\ cmd.old = st
    /\ cmd.pc \in {"archive", "tree", "merged"} => missed = {}
    /\ cmd.pc \in {"archive", "tree"} /\ cmd.clean => local = st.files
    /\ At_pc("listing") /\ cmd.quiet /\ cmd.clean => AsGiven(MaterializeTree(cmd.branch))
    /\ cmd.pc \in {"files", "head"} /\ cmd.quiet => cmd.server = MaterializeTree(cmd.branch)
    /\ At_pc("files") => cmd.todo \subseteq DOMAIN cmd.server \ missed
    /\ At_pc("files") /\ cmd.quiet /\ cmd.clean =>
           \A p \in Paths \ cmd.todo :
               IF p \in missed THEN At(local, p) = Empty
               ELSE At(local, p) = At(IF p \in DOMAIN cmd.server THEN cmd.server ELSE st.files, p)
    /\ At_pc("head") /\ cmd.quiet /\ cmd.clean => AsGiven(cmd.server)

(* After a pull or a checkout that nobody wrote under, state.json lists    *)
(* the tree of the branch, and the directory is that tree but for the      *)
(* files whose read failed, which are empty or missing and listed all the  *)
(* same.  That holds whatever the workspace went through before: syncTree  *)
(* compares files, and a sequence that a commit or a rebase had moved past *)
(* them does not mislead it.                                               *)
SyncCatchesUp ==
    settled => /\ st.files = MaterializeTree(cfg) /\ AsGiven(st.files)
               /\ Exists(cfg) => st.seq = BranchHead(cfg)

(* Each commit is linked to the one before it on its branch, and the head  *)
(* of a branch is not before any of its commits.                           *)
ChainLinked ==
    /\ main.head <= Len(log)
    /\ \A b \in Topics : /\ topic[b].head <= Len(log)
                         /\ topic[b].status = "none" => topic[b].commits = 0
    /\ \A s \in 1..Len(log) :
           LET b == log[s].branch IN
           /\ log[s].prev = MaxIn({t \in 1..(s - 1) : log[t].branch = b})
           /\ s <= BranchHead(b)
           /\ b \in Topics => topic[b].commits # 0

(* The sequences and hashes a workspace keeps are ones the server gave.    *)
SequencesKnown ==
    /\ st.seq <= Len(log) /\ st.hash \in {NoHash} \cup 1..Len(log)
    /\ cmd.old.seq <= Len(log) /\ cmd.old.hash \in {NoHash} \cup 1..Len(log)
    /\ cmd.seq <= Len(log) /\ (At_pc("posted") => cmd.seq # 0)
    /\ At_pc("verify") /\ Anchored(cmd.old, cfg) => cmd.old.seq <= st.seq

(* The chain of an honest server passes: ds verify never fails, and        *)
(* neither does a pull of a workspace whose recorded hash is the one of    *)
(* the commit it stands on, whatever others commit, merge and rebase.      *)
HonestChainPasses == ~alarm

(* A pull that nobody writes under ends at the head of the branch, with its *)
(* files but for those whose read failed, and an honest server's chain is   *)
(* accepted by ds verify and by a workspace anchored in it.                 *)
PullsSound ==
    SyncGoesOn /\ SyncCatchesUp /\ ChainLinked /\ SequencesKnown /\ HonestChainPasses
=============================================================================
