----------------------------- MODULE Proposals ------------------------------
(***************************************************************************)
(* Proposals, reviews, review comments and conditional branch writes of    *)
(* one repo, through the JSON API and the web forms.  A step is one        *)
(* statement or one transaction; a handler that reads before it writes     *)
(* takes two, and others run between them.  Which files a commit changes   *)
(* is left to BranchStore: a rebase here never conflicts.                  *)
(***************************************************************************)
EXTENDS Naturals, Sequences, FiniteSets

CONSTANTS
    People, Leads,         \* callers; those with role maintainer or admin
    PBranches,
    MaxSeq, MaxProposals, MaxHandlers, MaxHandlerFaults,
    NoTag

VARIABLES
    br,          \* branches: [status, head, base, draft, auto]
    mainHd, seqNo,
    onBranch,    \* commits by branch: {<<sequence, author>>}
    renamed,     \* by branch, whose commits another person's rebase replayed (history)
    props,       \* proposals in order of creation
    stamp,       \* updated_at of the last write to proposals
    reviews,     \* [b, by, seq, approve]
    rcomments,   \* review_comments: [b, by, seq]
    hreq,        \* the handler each caller waits for
    etag,        \* the ETag each caller has read
    clashes,     \* conditional writes over another version (history)
    unlinked,    \* branches whose MergeProposal failed (history)
    handlers, handlerFaults

propVars == <<br, mainHd, seqNo, onBranch, renamed, props, stamp, reviews, rcomments,
              hreq, etag, clashes, unlinked, handlers, handlerFaults>>
branchVars == <<br, mainHd, seqNo, onBranch, renamed>>
textVars == <<reviews, rcomments>>

Waiting == [pc |-> "idle"]

PropInit ==
    /\ br = [b \in PBranches |-> [status |-> "active", head |-> 0, base |-> 0,
                                  draft |-> FALSE, auto |-> FALSE]]
    /\ mainHd = 0 /\ seqNo = 0
    /\ onBranch = [b \in PBranches |-> {}] /\ renamed = [b \in PBranches |-> {}]
    /\ props = <<>> /\ stamp = 0 /\ reviews = {} /\ rcomments = {}
    /\ hreq = [u \in People |-> Waiting] /\ etag = [u \in People |-> NoTag]
    /\ clashes = {} /\ unlinked = {}
    /\ handlers = 0 /\ handlerFaults = 0

Enter(u, r) ==
    /\ hreq[u].pc = "idle" /\ handlers < MaxHandlers
    /\ handlers' = handlers + 1
    /\ hreq' = [hreq EXCEPT ![u] = r]
Call(u) == Enter(u, Waiting)
Leave(u) == hreq' = [hreq EXCEPT ![u] = Waiting] /\ UNCHANGED handlers
mayEdit(u, author) == u = author \/ u \in Leads

---------------------------------------------------------------------------
(* Commits                                                                 *)

(* svc.Commit, for a branch or for main.                                   *)
Commit(u, b) ==
    /\ seqNo < MaxSeq /\ br[b].status = "active"
    /\ Call(u)
    /\ seqNo' = seqNo + 1
    /\ br' = [br EXCEPT ![b].head = seqNo + 1]
    /\ onBranch' = [onBranch EXCEPT ![b] = @ \cup {<<seqNo + 1, u>>}]
    /\ UNCHANGED <<mainHd, renamed, props, stamp, textVars, etag, clashes, unlinked, handlerFaults>>
(* The commit form: one file.                                              *)
uiNewCommit(u, b) == Commit(u, b)

CommitMain(u) ==
    /\ seqNo < MaxSeq
    /\ Call(u)
    /\ seqNo' = seqNo + 1 /\ mainHd' = seqNo + 1
    /\ UNCHANGED <<br, onBranch, renamed, props, stamp, textVars, etag, clashes, unlinked,
                   handlerFaults>>

(* The commits after the base are replayed under the caller's name.         *)
handleRebase(u, b) ==
    LET mine == {c \in onBranch[b] : c[1] > br[b].base}
        k == Cardinality(mine)
        new == {<<seqNo + i, u>> : i \in 1..k}
    IN
    /\ br[b].status = "active" /\ seqNo + k <= MaxSeq
    /\ Call(u)
    /\ seqNo' = seqNo + k
    /\ onBranch' = [onBranch EXCEPT ![b] = @ \cup new]
    /\ renamed' = [renamed EXCEPT ![b] = @ \cup ({c[2] : c \in mine} \ {u})]
    /\ br' = [br EXCEPT ![b].base = mainHd,
                        ![b].head = IF k = 0 THEN mainHd ELSE seqNo + k]
    /\ UNCHANGED <<mainHd, props, stamp, textVars, etag, clashes, unlinked, handlerFaults>>

---------------------------------------------------------------------------
(* Reviews and review comments                                             *)

(* Mutant. *)
SelfApproval_lastOnly(u, b) == <<br[b].head, u>> \in onBranch[b]

SelfApproval(u, b) == \E c \in onBranch[b] : c[1] > br[b].base /\ c[2] = u

handleReview(u, b, approve) ==
    /\ approve => ~SelfApproval(u, b)
    /\ Call(u)
    /\ reviews' = reviews \cup {[b |-> b, by |-> u, seq |-> br[b].head, approve |-> approve]}
    /\ UNCHANGED <<branchVars, props, stamp, rcomments, etag, clashes, unlinked, handlerFaults>>
uiSubmitReview(u, b, approve) == handleReview(u, b, approve)

handleCreateReviewComment(u, b) ==
    /\ Call(u)
    /\ rcomments' = rcomments \cup {[b |-> b, by |-> u, seq |-> br[b].head]}
    /\ UNCHANGED <<branchVars, props, stamp, reviews, etag, clashes, unlinked, handlerFaults>>
uiPostComment(u, b) == handleCreateReviewComment(u, b)

(* svc.DeleteReviewComment: the author of a comment never changes, so that *)
(* reading it and deleting it make one step.                               *)
handleDeleteReviewComment(u, c) ==
    /\ c \in rcomments /\ mayEdit(u, c.by)
    /\ Call(u)
    /\ rcomments' = rcomments \ {c}
    /\ UNCHANGED <<branchVars, props, stamp, reviews, etag, clashes, unlinked, handlerFaults>>
uiDeleteComment(u, c) == handleDeleteReviewComment(u, c)

---------------------------------------------------------------------------
(* Proposals                                                               *)

(* The unique index on open proposals refuses a second one.                *)
handleCreateProposal(u, b) ==
    /\ Len(props) < MaxProposals
    /\ ~\E i \in DOMAIN props : props[i].b = b /\ props[i].state = "open"
    /\ Call(u)
    /\ stamp' = stamp + 1
    /\ props' = Append(props, [b |-> b, author |-> u, state |-> "open", at |-> stamp + 1,
                               late |-> br[b].status = "merged"])
    /\ UNCHANGED <<branchVars, textVars, etag, clashes, unlinked, handlerFaults>>
uiCreateProposal(u, b) == handleCreateProposal(u, b)

(* GET with its ETag, from id and updated_at.                              *)
handleGetProposal(u, i) ==
    /\ hreq[u].pc = "idle" /\ etag[u] = NoTag
    /\ etag' = [etag EXCEPT ![u] = <<"proposal", i, props[i].at>>]
    /\ UNCHANGED <<branchVars, props, stamp, textVars, hreq, clashes, unlinked, handlers, handlerFaults>>

(* checkProposalIfMatch and checkBranchIfMatch.  A caller who has read an   *)
(* ETag sends it, and only with a write to what it is of; the others send  *)
(* no header.                                                              *)
checkIfMatch(u, kind, id, version) ==
    etag[u] # NoTag => etag[u] = <<kind, id, version>>

(* handleUpdateProposal and handleCloseProposal up to the write: the row   *)
(* read for If-Match, and the author, who never changes.                   *)
ReadProposal(u, i, op) ==
    /\ mayEdit(u, props[i].author)
    /\ checkIfMatch(u, "proposal", i, props[i].at)
    /\ etag[u] # NoTag => etag[u][1] = "proposal" /\ etag[u][2] = i
    /\ Enter(u, [pc |-> op, i |-> i, read |-> props[i].at, tag |-> etag[u]])
    /\ etag' = [etag EXCEPT ![u] = NoTag]
    /\ UNCHANGED <<branchVars, props, stamp, textVars, clashes, unlinked, handlerFaults>>
handleUpdateProposal(u, i) == ReadProposal(u, i, "update")
handleCloseProposal(u, i) == ReadProposal(u, i, "close")

(* The forms send no If-Match.                                             *)
uiProposalForm(u, i, op) ==
    /\ mayEdit(u, props[i].author)
    /\ Enter(u, [pc |-> op, i |-> i, read |-> props[i].at, tag |-> NoTag])
    /\ UNCHANGED <<branchVars, props, stamp, textVars, etag, clashes, unlinked, handlerFaults>>
uiEditProposal(u, i) == uiProposalForm(u, i, "update")
uiCloseProposal(u, i) == uiProposalForm(u, i, "close")

Clash(r, found) ==
    IF r.tag # NoTag /\ r.tag[3] # found THEN {[read |-> r.read, found |-> found]} ELSE {}

UpdateProposal(u) ==
    LET r == hreq[u] IN
    /\ r.pc = "update"
    /\ stamp' = stamp + 1
    /\ props' = [props EXCEPT ![r.i].at = stamp + 1]
    /\ clashes' = clashes \cup Clash(r, props[r.i].at)
    /\ Leave(u)
    /\ UNCHANGED <<branchVars, textVars, etag, unlinked, handlerFaults>>

(* No condition on the state.                                              *)
CloseProposal(u) ==
    LET r == hreq[u] IN
    /\ r.pc = "close"
    /\ stamp' = stamp + 1
    /\ props' = [props EXCEPT ![r.i].at = stamp + 1, ![r.i].state = "closed"]
    /\ clashes' = clashes \cup Clash(r, props[r.i].at)
    /\ Leave(u)
    /\ UNCHANGED <<branchVars, textVars, etag, unlinked, handlerFaults>>

---------------------------------------------------------------------------
(* The merge handler                                                       *)

(* Mutant. *)
Merge_errorIgnored(u, b) ==
    /\ seqNo < MaxSeq
    /\ Enter(u, [pc |-> "merged", b |-> b])
    /\ IF br[b].status = "active" /\ ~br[b].draft
       THEN /\ seqNo' = seqNo + 1 /\ mainHd' = seqNo + 1
            /\ br' = [br EXCEPT ![b].status = "merged"]
       ELSE UNCHANGED <<seqNo, mainHd, br>>
    /\ UNCHANGED <<onBranch, renamed, props, stamp, textVars, etag, clashes, unlinked,
                   handlerFaults>>

Merge(u, b) ==
    /\ br[b].status = "active" /\ ~br[b].draft /\ seqNo < MaxSeq
    /\ Enter(u, [pc |-> "merged", b |-> b])
    /\ seqNo' = seqNo + 1 /\ mainHd' = seqNo + 1
    /\ br' = [br EXCEPT ![b].status = "merged"]
    /\ UNCHANGED <<onBranch, renamed, props, stamp, textVars, etag, clashes, unlinked,
                   handlerFaults>>

(* Best effort, after the merge committed: the open proposal, if any.       *)
MergeProposal(u) ==
    LET open == {i \in DOMAIN props : props[i].b = hreq[u].b /\ props[i].state = "open"} IN
    /\ hreq[u].pc = "merged"
    /\ stamp' = stamp + 1
    /\ props' = [i \in DOMAIN props |-> IF i \in open
                   THEN [props[i] EXCEPT !.state = "merged", !.at = stamp + 1] ELSE props[i]]
    /\ Leave(u)
    /\ UNCHANGED <<branchVars, textVars, etag, clashes, unlinked, handlerFaults>>

(* The statement fails, or the process stops before it.                     *)
MergeProposalFails(u) ==
    /\ hreq[u].pc = "merged"
    /\ handlerFaults < MaxHandlerFaults /\ handlerFaults' = handlerFaults + 1
    /\ unlinked' = unlinked \cup {hreq[u].b}
    /\ Leave(u)
    /\ UNCHANGED <<branchVars, props, stamp, textVars, etag, clashes>>

---------------------------------------------------------------------------
(* Conditional branch writes                                               *)

(* The ETag of a branch is its head.                                       *)
handleGetBranch(u, b) ==
    /\ hreq[u].pc = "idle" /\ etag[u] = NoTag
    /\ etag' = [etag EXCEPT ![u] = <<"branch", b, br[b].head>>]
    /\ UNCHANGED <<branchVars, props, stamp, textVars, hreq, clashes, unlinked, handlers, handlerFaults>>

ReadBranch(u, b, op, to) ==
    /\ checkIfMatch(u, "branch", b, br[b].head)
    /\ etag[u] # NoTag => etag[u][1] = "branch" /\ etag[u][2] = b
    /\ Enter(u, [pc |-> op, b |-> b, to |-> to, read |-> br[b].head, tag |-> etag[u]])
    /\ etag' = [etag EXCEPT ![u] = NoTag]
    /\ UNCHANGED <<branchVars, props, stamp, textVars, clashes, unlinked, handlerFaults>>
handleUpdateBranch(u, b, draft) == ReadBranch(u, b, "draft", draft)
handleEnableAutoMerge(u, b) == ReadBranch(u, b, "auto", TRUE)
handleDisableAutoMerge(u, b) == ReadBranch(u, b, "auto", FALSE)
handleDeleteBranch(u, b) == ReadBranch(u, b, "delete", "abandoned")

uiBranchForm(u, b, op, to) ==
    /\ Enter(u, [pc |-> op, b |-> b, to |-> to, read |-> br[b].head, tag |-> NoTag])
    /\ UNCHANGED <<branchVars, props, stamp, textVars, etag, clashes, unlinked, handlerFaults>>
uiDeleteBranch(u, b) == uiBranchForm(u, b, "delete", "abandoned")
uiPromoteBranch(u, b) == uiBranchForm(u, b, "draft", FALSE)
uiSetAutoMerge(u, b, enable) == uiBranchForm(u, b, "auto", enable)

WriteBranch(u, row) ==
    LET r == hreq[u] IN
    /\ br' = [br EXCEPT ![r.b] = row]
    /\ clashes' = clashes \cup Clash(r, br[r.b].head)
    /\ Leave(u)
    /\ UNCHANGED <<mainHd, seqNo, onBranch, renamed, props, stamp, textVars, etag, unlinked,
                   handlerFaults>>
UpdateBranchDraft(u) ==
    /\ hreq[u].pc = "draft"
    /\ WriteBranch(u, [br[hreq[u].b] EXCEPT !.draft = hreq[u].to])
SetBranchAutoMerge(u) ==
    /\ hreq[u].pc = "auto"
    /\ WriteBranch(u, [br[hreq[u].b] EXCEPT !.auto = hreq[u].to])
DeleteBranch(u) ==
    /\ hreq[u].pc = "delete" /\ br[hreq[u].b].status = "active"
    /\ WriteBranch(u, [br[hreq[u].b] EXCEPT !.status = "abandoned"])
DeleteRefused(u) ==
    /\ hreq[u].pc = "delete" /\ br[hreq[u].b].status # "active"
    /\ Leave(u)
    /\ UNCHANGED <<branchVars, props, stamp, textVars, etag, clashes, unlinked, handlerFaults>>

---------------------------------------------------------------------------
PropStep(u) ==
    \/ UpdateProposal(u) \/ CloseProposal(u)
    \/ MergeProposal(u) \/ MergeProposalFails(u)
    \/ UpdateBranchDraft(u) \/ SetBranchAutoMerge(u) \/ DeleteBranch(u) \/ DeleteRefused(u)

PropRequest(u) ==
    \/ CommitMain(u)
    \/ \E b \in PBranches :
         \/ Commit(u, b) \/ uiNewCommit(u, b) \/ handleRebase(u, b) \/ Merge(u, b)
         \/ \E a \in BOOLEAN : handleReview(u, b, a) \/ uiSubmitReview(u, b, a)
         \/ handleCreateReviewComment(u, b) \/ uiPostComment(u, b)
         \/ handleCreateProposal(u, b) \/ uiCreateProposal(u, b)
         \/ handleGetBranch(u, b)
         \/ \E d \in BOOLEAN : handleUpdateBranch(u, b, d) \/ uiSetAutoMerge(u, b, d)
         \/ handleEnableAutoMerge(u, b) \/ handleDisableAutoMerge(u, b)
         \/ handleDeleteBranch(u, b)
         \/ uiDeleteBranch(u, b) \/ uiPromoteBranch(u, b)
    \/ \E c \in rcomments : handleDeleteReviewComment(u, c) \/ uiDeleteComment(u, c)
    \/ \E i \in DOMAIN props :
         \/ handleGetProposal(u, i) \/ handleUpdateProposal(u, i) \/ handleCloseProposal(u, i)
         \/ uiEditProposal(u, i) \/ uiCloseProposal(u, i)

PropNext == \E u \in People : PropStep(u) \/ PropRequest(u)

PropSpec == PropInit /\ [][PropNext]_propVars

---------------------------------------------------------------------------
(* A write sent with If-Match replaces another version than the one it     *)
(* names only when that version appeared after the handler compared the    *)
(* header: the comparison is not part of the write's transaction.          *)
IfMatchLostOnlyByRace == \A c \in clashes : c.found # c.read

(* A proposal is marked merged only when its branch has been merged.        *)
MergedProposalHasMergedBranch ==
    \A i \in DOMAIN props : props[i].state = "merged" => br[props[i].b].status = "merged"

(* A merged branch keeps an open proposal only when marking it failed, is  *)
(* about to happen, or the proposal was opened after the merge.            *)
OpenOnMergedExplained ==
    \A i \in DOMAIN props :
        props[i].state = "open" /\ br[props[i].b].status = "merged"
        => \/ props[i].late \/ props[i].b \in unlinked
           \/ \E u \in People : hreq[u].pc = "merged" /\ hreq[u].b = props[i].b

(* Commits up to the base have been replayed by a rebase: their author has  *)
(* a commit since the base, or somebody else's rebase took their name off.  *)
OlderReplayed ==
    \A b \in PBranches : \A c \in onBranch[b] : c[1] <= br[b].base =>
        c[2] \in renamed[b] \/ \E d \in onBranch[b] : d[1] > br[b].base /\ d[2] = c[2]

(* An approval that the policies count, recorded at the current head, is by *)
(* nobody who has committed to the branch, however commits, rebases and     *)
(* reviews are ordered - but for people whose commits another person's      *)
(* rebase has replayed: CreateReview looks for the reviewer's name since    *)
(* the base only, where those commits now bear the name of the rebaser.     *)
CountedApprovalByOther ==
    /\ OlderReplayed
    /\ \A r \in reviews :
          r.approve /\ r.seq = br[r.b].head /\ br[r.b].status = "active"
          => \A c \in onBranch[r.b] : c[2] = r.by =>
                c[1] <= br[r.b].base /\ r.by \in renamed[r.b]

BranchRows == [status : {"active", "merged", "abandoned"}, head : Nat, base : Nat,
               draft : BOOLEAN, auto : BOOLEAN]
ProposalRows == [b : PBranches, author : People, state : {"open", "closed", "merged"},
                 at : Nat, late : BOOLEAN]

(* Rows have their types, and no sequence number is ahead of the counter:   *)
(* a branch starts at a commit of main, and a review names a commit that is *)
(* there.                                                                   *)
PropTypeOK ==
    /\ br \in [PBranches -> BranchRows]
    /\ seqNo \in Nat /\ mainHd \in 0..seqNo /\ stamp \in Nat
    /\ \A b \in PBranches : br[b].base <= mainHd /\ br[b].head <= seqNo
    /\ \A b \in PBranches : IsFiniteSet(onBranch[b]) /\ onBranch[b] \subseteq Nat \X People
    /\ DOMAIN onBranch = PBranches /\ renamed \in [PBranches -> SUBSET People]
    /\ props \in Seq(ProposalRows)
    /\ reviews \subseteq [b : PBranches, by : People, seq : 0..seqNo, approve : BOOLEAN]

(* What a handler has read before it writes: the row, the version that      *)
(* If-Match was compared with, and for MergeProposal the merge.             *)
HandlerFits(r, rows, branches) ==
    /\ r.pc \in {"update", "close"} => r.i \in DOMAIN rows
    /\ r.pc \in {"draft", "auto", "delete", "merged"} => r.b \in PBranches
    /\ r.pc \in {"draft", "auto"} => r.to \in BOOLEAN
    /\ r.pc \in {"update", "close", "draft", "auto", "delete"} => (r.tag # NoTag => r.tag[3] = r.read)
    /\ r.pc = "merged" => branches[r.b].status = "merged"
HandlersFit == DOMAIN hreq = People /\ \A u \in People : HandlerFits(hreq[u], props, br)

(* Proposals and branches agree, but for proposals that marking missed or   *)
(* that were opened after the merge, and a conditional write meets the      *)
(* version it names, but for one that appears after the comparison.         *)
ProposalsMatchBranches ==
    /\ PropTypeOK /\ HandlersFit
    /\ MergedProposalHasMergedBranch
    /\ OpenOnMergedExplained
    /\ IfMatchLostOnlyByRace
=============================================================================
