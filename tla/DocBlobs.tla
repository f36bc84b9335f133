------------------------------ MODULE DocBlobs ------------------------------
(***************************************************************************)
(* File contents: Commit deduplicates a content within its repository and  *)
(* uploads a large one to the blob store, under its hash, before it inserts *)
(* the document; Purge deletes the blobs of orphaned documents inside its  *)
(* transaction.  Each SQL statement and each blob call is a step; what a    *)
(* transaction wrote is visible to others when it commits.  Releases name  *)
(* sequences of commits.                                                    *)
(***************************************************************************)
EXTENDS Naturals, FiniteSets

CONSTANTS
    DocRepos,
    BigContents,    \* contents above the blob threshold
    Committers,
    MaxDocs,        \* documents inserted
    MaxDocSeq,      \* commit sequences
    MaxDocFaults,   \* failed statements and calls
    Releases,       \* release names
    Nobody

ASSUME DocBlobsAssumption == MaxDocFaults \in Nat

VARIABLES
    documents,    \* committed rows: [id, repo, content]
    fileCommits,  \* committed rows: [repo, branch, doc, seq]
    status,       \* status[repo][branch]; "gone" after a purge
    blobs,        \* contents in the blob store
    tx,           \* progress of each commit
    purge,        \* progress of the purge
    proposals,    \* repositories whose branch dev has a proposal or a review comment
    releases,     \* [name, repo, byDefault, seq]
    relReq,       \* a release request that has resolved its sequence, or Nobody
    nextDoc, docSeq, docFaults,
    excused       \* contents whose blob a purge removed while other rows or uploads
                  \* used them, or whose document it kept in the end (history)

docVars == <<documents, fileCommits, status, blobs, tx, purge, proposals, releases,
             relReq, nextDoc, docSeq, docFaults, excused>>

NoTx == [pc |-> "idle"]
DocFault == docFaults < MaxDocFaults /\ docFaults' = docFaults + 1

DocInit ==
    /\ documents = {} /\ fileCommits = {} /\ blobs = {}
    /\ status = [r \in DocRepos |-> [b \in {"main", "dev"} |-> "active"]]
    /\ tx = [c \in Committers |-> NoTx]
    /\ purge = NoTx
    /\ proposals = {} /\ releases = {} /\ relReq = Nobody
    /\ nextDoc = 1 /\ docSeq = 0 /\ docFaults = 0 /\ excused = {}

(* The row of a branch is locked by the commit that writes to it.           *)
Unlocked(r, b) ==
    \A c \in Committers : tx[c].pc # "idle" => <<tx[c].repo, tx[c].branch>> # <<r, b>>
Abort(c) == tx' = [tx EXCEPT ![c] = NoTx]

-----------------------------------------------------------------------------
LockBranch(c, r, b, x) ==
    /\ tx[c].pc = "idle" /\ Unlocked(r, b) /\ status[r][b] = "active"
    /\ docSeq + Cardinality({d \in Committers : tx[d].pc # "idle"}) < MaxDocSeq
    /\ tx' = [tx EXCEPT ![c] = [pc |-> "select", repo |-> r, branch |-> b, content |-> x]]
    /\ UNCHANGED <<documents, fileCommits, status, blobs, purge, proposals, releases,
                   relReq, nextDoc, docSeq, docFaults, excused>>

With(c, pc, id, new) ==
    [pc |-> pc, repo |-> tx[c].repo, branch |-> tx[c].branch, content |-> tx[c].content,
     id |-> id, new |-> new]

(* The dedup query sees the committed documents of the repository.          *)
SelectDocument(c) ==
    LET same == {d \in documents : d.repo = tx[c].repo /\ d.content = tx[c].content}
    IN /\ tx[c].pc = "select"
       /\ IF same = {} THEN tx' = [tx EXCEPT ![c] = With(c, "upload", 0, TRUE)]
          ELSE \E d \in same : tx' = [tx EXCEPT ![c] = With(c, "link", d.id, FALSE)]
       /\ UNCHANGED <<documents, fileCommits, status, blobs, purge, proposals, releases,
                      relReq, nextDoc, docSeq, docFaults, excused>>

(* Mutant. *)
UploadBlob_later(c) ==
    /\ tx[c].pc = "upload"
    /\ \/ blobs' = blobs \cup {tx[c].content} /\ UNCHANGED docFaults
       \/ DocFault /\ UNCHANGED blobs
    /\ tx' = [tx EXCEPT ![c].pc = "insert"]
    /\ UNCHANGED <<documents, fileCommits, status, purge, proposals, releases, relReq,
                   nextDoc, docSeq, excused>>

(* blobStore.Put under the hash of the content; an error rolls back.        *)
UploadBlob(c) ==
    /\ tx[c].pc = "upload"
    /\ \/ /\ blobs' = blobs \cup {tx[c].content}
          /\ tx' = [tx EXCEPT ![c].pc = "insert"] /\ UNCHANGED docFaults
       \/ DocFault /\ Abort(c) /\ UNCHANGED blobs
    /\ UNCHANGED <<documents, fileCommits, status, purge, proposals, releases, relReq,
                   nextDoc, docSeq, excused>>

InsertDocument(c) ==
    /\ tx[c].pc = "insert" /\ nextDoc <= MaxDocs
    /\ tx' = [tx EXCEPT ![c] = With(c, "link", nextDoc, TRUE)]
    /\ nextDoc' = nextDoc + 1
    /\ UNCHANGED <<documents, fileCommits, status, blobs, purge, proposals, releases,
                   relReq, docSeq, docFaults, excused>>

Ids(ds) == {d.id : d \in ds}
Deleting == IF purge.pc = "deleted" THEN purge.docs ELSE {}

(* The foreign key of file_commits: the document row is share-locked; one   *)
(* that a running purge has deleted is waited for, a missing one fails.     *)
InsertFileCommit(c) ==
    /\ tx[c].pc = "link" /\ tx[c].id \notin Deleting
    /\ tx' = [tx EXCEPT ![c] = IF tx[c].new \/ tx[c].id \in Ids(documents)
                               THEN [tx[c] EXCEPT !.pc = "commit"] ELSE NoTx]
    /\ UNCHANGED <<documents, fileCommits, status, blobs, purge, proposals, releases,
                   relReq, nextDoc, docSeq, docFaults, excused>>

CommitTx(c) ==
    LET t == tx[c]
    IN /\ t.pc = "commit"
       /\ documents' = documents \cup
             (IF t.new THEN {[id |-> t.id, repo |-> t.repo, content |-> t.content]} ELSE {})
       /\ fileCommits' = fileCommits \cup {[repo |-> t.repo, branch |-> t.branch,
                                            doc |-> t.id, seq |-> docSeq + 1]}
       /\ docSeq' = docSeq + 1
       /\ Abort(c)
       /\ UNCHANGED <<status, blobs, purge, proposals, releases, relReq, nextDoc,
                      docFaults, excused>>

RollbackTx(c) ==
    /\ tx[c].pc \in {"insert", "link", "commit"} /\ DocFault
    /\ Abort(c)
    /\ UNCHANGED <<documents, fileCommits, status, blobs, purge, proposals, releases,
                   relReq, nextDoc, docSeq, excused>>

-----------------------------------------------------------------------------
Rows(r, b) == {f \in fileCommits : f.repo = r /\ f.branch = b}

(* Store.Merge of dev: its documents get rows on main.                      *)
MergeDev(r) ==
    /\ status[r]["dev"] = "active" /\ Unlocked(r, "dev") /\ Unlocked(r, "main")
    /\ Rows(r, "dev") # {} /\ docSeq < MaxDocSeq
    /\ fileCommits' = fileCommits \cup {[repo |-> r, branch |-> "main", doc |-> f.doc,
                                         seq |-> docSeq + 1] : f \in Rows(r, "dev")}
    /\ docSeq' = docSeq + 1
    /\ status' = [status EXCEPT ![r]["dev"] = "merged"]
    /\ UNCHANGED <<documents, blobs, tx, purge, proposals, releases, relReq, nextDoc,
                   docFaults, excused>>

AbandonDev(r) ==
    /\ status[r]["dev"] = "active" /\ Unlocked(r, "dev")
    /\ status' = [status EXCEPT ![r]["dev"] = "abandoned"]
    /\ UNCHANGED <<documents, fileCommits, blobs, tx, purge, proposals, releases, relReq,
                   nextDoc, docSeq, docFaults, excused>>

ProposeDev(r) ==
    /\ status[r]["dev"] = "active"
    /\ proposals' = proposals \cup {r}
    /\ UNCHANGED <<documents, fileCommits, status, blobs, tx, purge, releases, relReq,
                   nextDoc, docSeq, docFaults, excused>>

-----------------------------------------------------------------------------
(* What the purge of r leaves: the rows of dev are deleted in its tx.       *)
Kept(r) == fileCommits \ Rows(r, "dev")
Orphans(r) == {d \in documents : d.repo = r /\ \A f \in Kept(r) : f.doc # d.id}

PurgeRows(r) ==
    /\ purge.pc = "idle" /\ status[r]["dev"] \in {"merged", "abandoned"}
    /\ purge' = [pc |-> "scan", repo |-> r, keys |-> {}, gone |-> {}, docs |-> {}]
    /\ UNCHANGED <<documents, fileCommits, status, blobs, tx, proposals, releases,
                   relReq, nextDoc, docSeq, docFaults, excused>>

CollectBlobKeys ==
    /\ purge.pc = "scan"
    /\ purge' = [purge EXCEPT !.pc = "blobs", !.docs = Ids(Orphans(purge.repo)),
                              !.keys = {d.content : d \in Orphans(purge.repo)}]
    /\ UNCHANGED <<documents, fileCommits, status, blobs, tx, proposals, releases,
                   relReq, nextDoc, docSeq, docFaults, excused>>

UsedElsewhere(x) ==
    \/ \E d \in documents : d.content = x /\ d.id \notin purge.docs
    \/ \E c \in Committers : tx[c].pc \in {"insert", "link", "commit"} /\ tx[c].content = x

RollbackPurge == purge' = NoTx /\ excused' = excused \cup purge.gone

DeleteBlob(x) ==
    /\ purge.pc = "blobs" /\ x \in purge.keys
    /\ \/ /\ blobs' = blobs \ {x}
          /\ purge' = [purge EXCEPT !.keys = @ \ {x}, !.gone = @ \cup {x}]
          /\ excused' = IF UsedElsewhere(x) THEN excused \cup {x} ELSE excused
          /\ UNCHANGED docFaults
       \/ DocFault /\ RollbackPurge /\ UNCHANGED blobs
    /\ UNCHANGED <<documents, fileCommits, status, tx, proposals, releases, relReq,
                   nextDoc, docSeq>>

(* DELETE FROM documents takes its snapshot of the orphans ...              *)
DeleteDocuments ==
    /\ purge.pc = "blobs" /\ purge.keys = {}
    /\ purge' = [purge EXCEPT !.pc = "deleting", !.docs = Ids(Orphans(purge.repo))]
    /\ excused' = excused \cup {d.content : d \in {x \in documents :
                    x.id \in purge.docs /\ x \notin Orphans(purge.repo)}}
    /\ UNCHANGED <<documents, fileCommits, status, blobs, tx, proposals, releases,
                   relReq, nextDoc, docSeq, docFaults>>

(* ... waits for share locks on them, and fails if a row refers to one.     *)
DeleteDocumentsDone ==
    /\ purge.pc = "deleting"
    /\ \A c \in Committers : tx[c].pc = "commit" => tx[c].id \notin purge.docs
    /\ IF \E f \in Kept(purge.repo) : f.doc \in purge.docs
       THEN RollbackPurge
       ELSE purge' = [purge EXCEPT !.pc = "deleted"] /\ UNCHANGED excused
    /\ UNCHANGED <<documents, fileCommits, status, blobs, tx, proposals, releases,
                   relReq, nextDoc, docSeq, docFaults>>

(* DELETE FROM branches: proposals and review_comments refer to the row.    *)
CommitPurge ==
    LET r == purge.repo
    IN /\ purge.pc = "deleted"
       /\ \/ /\ r \notin proposals
             /\ documents' = {d \in documents : d.id \notin purge.docs}
             /\ fileCommits' = Kept(r)
             /\ status' = [status EXCEPT ![r]["dev"] = "gone"]
             /\ purge' = NoTx /\ UNCHANGED <<docFaults, excused>>
          \/ /\ r \in proposals /\ RollbackPurge
             /\ UNCHANGED <<documents, fileCommits, status, docFaults>>
          \/ /\ DocFault /\ RollbackPurge
             /\ UNCHANGED <<documents, fileCommits, status>>
       /\ UNCHANGED <<blobs, tx, proposals, releases, relReq, nextDoc, docSeq>>

-----------------------------------------------------------------------------
Commits(r) == {f.seq : f \in {x \in fileCommits : x.repo = r}}
(* Main's head_sequence, 0 before its first commit. *)
MainHead(r) == {s \in 0 .. MaxDocSeq : /\ s = 0 \/ \E f \in Rows(r, "main") : f.seq = s
                                       /\ \A f \in Rows(r, "main") : f.seq <= s}

(* handleCreateRelease: a given sequence must exist; the default is main's. *)
resolveSequence(r, explicit) == IF explicit THEN Commits(r) ELSE MainHead(r)

(* Bound: one repository has releases at a time. *)
OneRepoReleases(r) == \A x \in releases : x.repo = r

(* Which sequence a caller gave is not followed further. *)
ReleaseRow(n, r, s, explicit) ==
    [name |-> n, repo |-> r, byDefault |-> ~explicit, seq |-> IF explicit THEN Nobody ELSE s]

handleCreateRelease(n, r, explicit) ==
    /\ relReq = Nobody /\ OneRepoReleases(r)
    /\ \E s \in resolveSequence(r, explicit) : relReq' = ReleaseRow(n, r, s, explicit)
    /\ UNCHANGED <<documents, fileCommits, status, blobs, tx, purge, proposals, releases,
                   nextDoc, docSeq, docFaults, excused>>

(* The web form takes a given sequence as it is. *)
webCreateRelease(n, r, explicit) ==
    /\ relReq = Nobody /\ OneRepoReleases(r)
    /\ \E s \in IF explicit THEN 1 .. MaxDocSeq ELSE MainHead(r) :
          relReq' = ReleaseRow(n, r, s, explicit)
    /\ UNCHANGED <<documents, fileCommits, status, blobs, tx, purge, proposals, releases,
                   nextDoc, docSeq, docFaults, excused>>

(* The insert, refused when (repo, name) is taken.                          *)
CreateRelease ==
    /\ relReq # Nobody
    /\ releases' = IF \E x \in releases : x.repo = relReq.repo /\ x.name = relReq.name
                   THEN releases ELSE releases \cup {relReq}
    /\ relReq' = Nobody
    /\ UNCHANGED <<documents, fileCommits, status, blobs, tx, purge, proposals, nextDoc,
                   docSeq, docFaults, excused>>

DeleteRelease(x) ==
    /\ x \in releases
    /\ releases' = releases \ {x}
    /\ UNCHANGED <<documents, fileCommits, status, blobs, tx, purge, proposals, relReq,
                   nextDoc, docSeq, docFaults, excused>>

(* The form of a release page that may be gone by now. *)
webDeleteRelease(n, r) == \E x \in releases : x.name = n /\ x.repo = r /\ DeleteRelease(x)

Commit(c) ==
    \/ \E r \in DocRepos, b \in {"main", "dev"}, x \in BigContents : LockBranch(c, r, b, x)
    \/ SelectDocument(c) \/ UploadBlob(c) \/ InsertDocument(c) \/ InsertFileCommit(c)
    \/ CommitTx(c) \/ RollbackTx(c)

Purge ==
    \/ \E r \in DocRepos : PurgeRows(r)
    \/ CollectBlobKeys \/ \E x \in BigContents : DeleteBlob(x)
    \/ DeleteDocuments \/ DeleteDocumentsDone \/ CommitPurge

ContentNext ==
    \/ \E c \in Committers : Commit(c)
    \/ Purge
    \/ \E r \in DocRepos : MergeDev(r) \/ AbandonDev(r) \/ ProposeDev(r)

ReleaseNext ==
    \/ \E n \in Releases, r \in DocRepos, x \in BOOLEAN :
          handleCreateRelease(n, r, x) \/ webCreateRelease(n, r, x)
    \/ \E n \in Releases, r \in DocRepos : webDeleteRelease(n, r)
    \/ CreateRelease \/ \E x \in releases : DeleteRelease(x)

DocNext == ContentNext \/ ReleaseNext
DocSpec == DocInit /\ [][DocNext]_docVars

-----------------------------------------------------------------------------
DocBranches == {"main", "dev"}
Documents == [id : Nat, repo : DocRepos, content : BigContents]
FileCommits == [repo : DocRepos, branch : DocBranches, doc : Nat, seq : Nat]
TxRecords ==
    [pc : {"idle"}]
    \cup [pc : {"select"}, repo : DocRepos, branch : DocBranches, content : BigContents]
    \cup [pc : {"upload", "insert", "link", "commit"}, repo : DocRepos, branch : DocBranches,
          content : BigContents, id : Nat, new : BOOLEAN]
PurgeRecords ==
    [pc : {"idle"}]
    \cup [pc : {"scan", "blobs", "deleting", "deleted"}, repo : DocRepos, keys : SUBSET BigContents,
          gone : SUBSET BigContents, docs : SUBSET Nat]
ReleaseRecords ==
    [name : Releases, repo : DocRepos, byDefault : BOOLEAN, seq : Nat \cup {Nobody}]

(* Rows, transactions and the purge have their shape.                       *)
DocTypeOK ==
    /\ documents \subseteq Documents /\ fileCommits \subseteq FileCommits
    /\ status \in [DocRepos -> [DocBranches -> {"active", "merged", "abandoned", "gone"}]]
    /\ blobs \subseteq BigContents /\ excused \subseteq BigContents
    /\ tx \in [Committers -> TxRecords] /\ purge \in PurgeRecords
    /\ proposals \subseteq DocRepos /\ releases \subseteq ReleaseRecords
    /\ relReq \in ReleaseRecords \cup {Nobody}
    /\ nextDoc \in Nat /\ docSeq \in Nat /\ docFaults \in 0..MaxDocFaults

(* Ids are given once.                                                      *)
DocIdsOnce ==
    /\ \A d \in documents : d.id < nextDoc
    /\ \A d, e \in documents : d.id = e.id => d = e

(* What a commit in progress has in hand: the bytes of the document it adds *)
(* and an id of its own, or a document of its repository, which stays once  *)
(* the row that refers to it is written.                                    *)
Linked(c) == tx[c].pc \in {"link", "commit"}
CommitFits(c) ==
    /\ tx[c].pc = "insert" \/ (Linked(c) /\ tx[c].new) => tx[c].content \in blobs \cup excused
    /\ Linked(c) => tx[c].id < nextDoc
    /\ Linked(c) /\ tx[c].new =>
         /\ \A d \in documents : d.id # tx[c].id
         /\ \A k \in Committers : k # c /\ Linked(k) => tx[k].id # tx[c].id
    /\ Linked(c) /\ ~tx[c].new => \A d \in documents : d.id = tx[c].id => d.repo = tx[c].repo
    /\ tx[c].pc = "commit" /\ ~tx[c].new => tx[c].id \in Ids(documents)
CommitsFit == \A c \in Committers : CommitFits(c)

(* The branch of a running purge stays closed; once the purge has deleted   *)
(* documents nobody refers to one, or is about to.                          *)
PurgeFits ==
    /\ purge.pc # "idle" => status[purge.repo]["dev"] \in {"merged", "abandoned"}
    /\ purge.pc = "scan" => purge.gone = {}
    /\ purge.pc = "deleted" =>
         /\ \A c \in Committers : tx[c].pc = "commit" => tx[c].id \notin purge.docs
         /\ \A f \in Kept(purge.repo) : f.doc \notin purge.docs

(* The bytes of a committed document are in the blob store, except for a    *)
(* document that a running purge is deleting, and for a content that a purge *)
(* removed while another repository, a duplicate or an upload used its key, *)
(* or whose document stayed (reused meanwhile, or the purge rolled back).   *)
(* Commits alone, in any interleaving and with any failure, never leave a   *)
(* document without its bytes.                                              *)
BytesLostOnlyByPurge ==
    \A d \in documents :
        \/ d.content \in blobs \cup excused
        \/ purge.pc # "idle" /\ d.id \in purge.docs /\ d.content \in purge.gone

(* Every row of file_commits refers to a document of its own repository,    *)
(* while purges delete documents that commits are about to reuse.           *)
VersionsExist ==
    \A f \in fileCommits : \E d \in documents : d.id = f.doc /\ d.repo = f.repo

(* A release that took main's head keeps its commit, whatever is purged     *)
(* between the request's two statements and afterwards; 0 stands for main   *)
(* before its first commit (handleCreateRelease, Purge).                    *)
OnMain(x) == x.byDefault => x.seq = 0 \/ \E f \in Rows(x.repo, "main") : f.seq = x.seq
ReleaseOfMainStays ==
    /\ \A x \in releases : OnMain(x)
    /\ relReq # Nobody => OnMain(relReq)

(* What was committed or released can be read, but for the one way in which *)
(* a purge takes bytes that something else uses, a purge that deleted blobs *)
(* and then rolled back included.                                           *)
ContentKept ==
    /\ DocTypeOK /\ DocIdsOnce /\ CommitsFit /\ PurgeFits
    /\ BytesLostOnlyByPurge /\ VersionsExist /\ ReleaseOfMainStays
=============================================================================
