------------------------------- MODULE Issues -------------------------------
(***************************************************************************)
(* Issues, their comments and their cross references, as the JSON API and  *)
(* the web forms drive them.  A handler is a sequence of statements, each  *)
(* its own transaction but for CreateIssue, whose transaction locks the    *)
(* repo row; a step below is one statement, so handlers interleave.        *)
(* A text is a member of Texts and Mentions gives the references that      *)
(* ParseMentions finds in it; labels behave as the title and are left out. *)
(***************************************************************************)
EXTENDS Integers, FiniteSets

CONSTANTS
    Users, Maintainers,
    Texts,            \* titles and bodies
    Mentions,         \* Mentions[x]: pairs <<"proposal" or "commit", id>> in x
    IssueMentions,    \* IssueMentions[x]: the numbers n of "#n" in x
    MaxIssues, MaxIssueReqs, MaxIssueFaults,
    NoUser, NoForm

ASSUME IssuesAssumption == NoUser \notin Users /\ MaxIssues \in Nat

VARIABLES
    issues,      \* the issues of one repo, by number
    comments,    \* issue_comments: set of [issue, author, body]
    refs,        \* issue_refs: <<number, type, id>>
    repoLock,    \* who holds the repo row
    rq,          \* the request of each user
    form,        \* the issue page each user has loaded in the browser
    want,        \* number -> the value last asked for, per field (history)
    staleForm,   \* <<number, field>> put back by a form loaded earlier (history)
    net,         \* acknowledged closes minus reopens, by number (history)
    raced,       \* numbers whose transitions overlapped (history)
    linked,      \* references of acknowledged texts (history)
    conflicts,   \* creations refused by UNIQUE (repo, number) (history)
    issueReqs, issueFaults

issueVars == <<issues, comments, refs, repoLock, rq, form, want, staleForm,
               net, raced, linked, conflicts, issueReqs, issueFaults>>
historyVars == <<want, staleForm, net, raced, linked, conflicts>>

Fields == {"title", "body"}
Numbers == 1..MaxIssues
IdleRq == [pc |-> "idle"]
MaxOf(S) == IF S = {} THEN 0 ELSE CHOOSE m \in S : \A n \in S : n <= m

IssuesInit ==
    /\ issues = <<>> /\ comments = {} /\ refs = {} /\ repoLock = NoUser
    /\ rq = [u \in Users |-> IdleRq]
    /\ form = [u \in Users |-> NoForm]
    /\ want = <<>> /\ staleForm = {} /\ net = [n \in Numbers |-> 0]
    /\ raced = {} /\ linked = {} /\ conflicts = 0
    /\ issueReqs = 0 /\ issueFaults = 0

Request(u, r) ==
    /\ rq[u].pc = "idle" /\ issueReqs < MaxIssueReqs
    /\ issueReqs' = issueReqs + 1
    /\ rq' = [rq EXCEPT ![u] = r]
Goto(u, r) == rq' = [rq EXCEPT ![u] = r] /\ UNCHANGED issueReqs
Finish(u) == Goto(u, IdleRq)
IssueFault == issueFaults < MaxIssueFaults /\ issueFaults' = issueFaults + 1

mayChange(u, author) == u = author \/ u \in Maintainers

---------------------------------------------------------------------------
(* Cross references                                                        *)

upsertIssueBodyRefs(n, text) ==
    [pc |-> "mention", todo |-> {<<n, m[1], m[2]>> : m \in Mentions[text]},
     owed |-> {<<n, m[1], m[2]>> : m \in Mentions[text]}]

(* The proposal p says "#n" of issues that may not exist.                  *)
upsertProposalMentionRefs(p, text) ==
    LET all == {<<n, "proposal", p>> : n \in IssueMentions[text]} IN
    [pc |-> "mention", todo |-> all,
     owed |-> {r \in all : r[1] \in DOMAIN issues}]

(* One CreateIssueRef of the loop: a missing issue, an existing reference  *)
(* and any other error are all passed over.                                *)
CreateIssueRef(r) ==
    refs' = IF r[1] \in DOMAIN issues THEN refs \cup {r} ELSE refs

MentionStep(u) ==
    /\ rq[u].pc = "mention"
    /\ \E r \in rq[u].todo :
         /\ CreateIssueRef(r)
         /\ Goto(u, [rq[u] EXCEPT !.todo = @ \ {r}])
    /\ UNCHANGED <<issues, comments, repoLock, form, historyVars, issueFaults>>

MentionFails(u) ==
    /\ rq[u].pc = "mention"
    /\ IssueFault
    /\ \E r \in rq[u].todo :
         Goto(u, [pc |-> "mention", todo |-> rq[u].todo \ {r}, owed |-> rq[u].owed \ {r}])
    /\ UNCHANGED <<issues, comments, refs, repoLock, form, historyVars>>

(* The response, with the emit before it: the text is acknowledged.        *)
Acknowledge(u) ==
    /\ rq[u].pc = "mention" /\ rq[u].todo = {}
    /\ linked' = linked \cup rq[u].owed
    /\ Finish(u)
    /\ UNCHANGED <<issues, comments, refs, repoLock, form, want, staleForm, net,
                   raced, conflicts, issueFaults>>

(* svc.CreateProposal and svc.UpdateProposal after the row is written.      *)
ProposalText(u, p, text) ==
    /\ Request(u, upsertProposalMentionRefs(p, text))
    /\ UNCHANGED <<issues, comments, refs, repoLock, form, historyVars, issueFaults>>

handleAddIssueRef(u, n, r) ==
    /\ n \in DOMAIN issues /\ <<n, r[1], r[2]>> \notin refs
    /\ Request(u, IdleRq)
    /\ CreateIssueRef(<<n, r[1], r[2]>>)
    /\ UNCHANGED <<issues, comments, repoLock, form, historyVars, issueFaults>>

(* The form of the web page.                                               *)
uiAddIssueRef(u, r) ==
    /\ form[u] # NoForm /\ handleAddIssueRef(u, form[u].n, r)

---------------------------------------------------------------------------
(* Issues                                                                  *)

handleCreateIssue(u, title, body) ==
    /\ Request(u, [pc |-> "lock", title |-> title, body |-> body])
    /\ UNCHANGED <<issues, comments, refs, repoLock, form, historyVars, issueFaults>>

(* The form trims the title and the body and asks for a title.              *)
uiNewIssue(u, title, body) == handleCreateIssue(u, title, body)

(* CreateIssue, statement by statement: SELECT ... FOR UPDATE,             *)
LockRepo(u) ==
    /\ rq[u].pc = "lock" /\ repoLock = NoUser
    /\ repoLock' = u
    /\ Goto(u, [rq[u] EXCEPT !.pc = "number"])
    /\ UNCHANGED <<issues, comments, refs, form, historyVars, issueFaults>>

(* SELECT MAX(number) + 1,                                                 *)
AllocateNumber(u) ==
    /\ rq[u].pc = "number" /\ MaxOf(DOMAIN issues) < MaxIssues
    /\ Goto(u, [pc |-> "insert", title |-> rq[u].title, body |-> rq[u].body,
                n |-> MaxOf(DOMAIN issues) + 1])
    /\ UNCHANGED <<issues, comments, refs, repoLock, form, historyVars, issueFaults>>

(* INSERT and COMMIT, then the references of the body.                      *)
InsertIssue(u) ==
    LET r == rq[u] IN
    /\ r.pc = "insert"
    /\ repoLock' = IF repoLock = u THEN NoUser ELSE repoLock
    /\ IF r.n \in DOMAIN issues
       THEN conflicts' = conflicts + 1 /\ Finish(u) /\ UNCHANGED <<issues, want>>
       ELSE /\ issues' = [n \in DOMAIN issues \cup {r.n} |->
                            IF n = r.n THEN [author |-> u, title |-> r.title,
                                             body |-> r.body, state |-> "open"]
                            ELSE issues[n]]
            /\ want' = [n \in DOMAIN issues' |-> IF n = r.n
                          THEN [title |-> r.title, body |-> r.body] ELSE want[n]]
            /\ Goto(u, upsertIssueBodyRefs(r.n, r.body))
            /\ UNCHANGED conflicts
    /\ UNCHANGED <<comments, refs, form, staleForm, net, raced, linked, issueFaults>>

(* An error before COMMIT rolls back.                                      *)
CreateIssueFails(u) ==
    /\ rq[u].pc \in {"number", "insert"}
    /\ IssueFault
    /\ repoLock' = NoUser
    /\ Finish(u)
    /\ UNCHANGED <<issues, comments, refs, form, historyVars>>

(* set maps the fields of the PATCH to values.  svc.UpdateIssue reads the  *)
(* row and checks the caller.                                              *)
handleUpdateIssue(u, n, set) ==
    /\ n \in DOMAIN issues /\ mayChange(u, issues[n].author)
    /\ Request(u, [pc |-> "edit", n |-> n, set |-> set, asked |-> DOMAIN set,
                   row |-> issues[n]])
    /\ UNCHANGED <<issues, comments, refs, repoLock, form, historyVars, issueFaults>>

(* handleIssueDetail: the page shows the row and fills the form with it.    *)
LoadIssuePage(u, n) ==
    /\ n \in DOMAIN issues /\ rq[u].pc = "idle"
    /\ form' = [form EXCEPT ![u] = [n |-> n, title |-> issues[n].title,
                                    body |-> issues[n].body]]
    /\ UNCHANGED <<issues, comments, refs, repoLock, rq, historyVars, issueReqs, issueFaults>>

(* handleEditIssue of the web: the user changes one field and the form     *)
(* sends them all, as they were when the page was loaded.                  *)
uiEditIssue(u, f, v) ==
    /\ form[u] # NoForm
    /\ LET n == form[u].n IN
       /\ mayChange(u, issues[n].author)
       /\ Request(u, [pc |-> "edit", n |-> n, asked |-> {f}, row |-> issues[n],
                      set |-> [g \in Fields |-> IF g = f THEN v ELSE form[u][g]]])
    /\ form' = [form EXCEPT ![u] = NoForm]
    /\ UNCHANGED <<issues, comments, refs, repoLock, historyVars, issueFaults>>

(* The row with the columns of set replaced.                               *)
(* Mutant. *)
UpdatedRow_wholeRow(current, read, set) ==
    [c \in DOMAIN current |-> IF c \in DOMAIN set THEN set[c] ELSE
                              IF c \in Fields THEN read[c] ELSE current[c]]

UpdatedRow(current, read, set) ==
    [c \in DOMAIN current |-> IF c \in DOMAIN set THEN set[c] ELSE current[c]]

UpdateIssue(u) ==
    LET r == rq[u]
        stale == {f \in DOMAIN r.set \ r.asked : r.set[f] # want[r.n][f]}
    IN
    /\ r.pc = "edit"
    /\ issues' = [issues EXCEPT ![r.n] = UpdatedRow(@, r.row, r.set)]
    /\ want' = [want EXCEPT ![r.n] =
                  [f \in Fields |-> IF f \in r.asked THEN r.set[f] ELSE @[f]]]
    /\ staleForm' = (staleForm \ {<<r.n, f>> : f \in r.asked})
                      \cup {<<r.n, f>> : f \in stale}
    /\ IF "body" \in DOMAIN r.set
       THEN Goto(u, upsertIssueBodyRefs(r.n, r.set.body))
       ELSE Finish(u)
    /\ UNCHANGED <<comments, refs, repoLock, form, net, raced, linked, conflicts, issueFaults>>

(* svc.CloseIssue and svc.ReopenIssue read the row and refuse a caller who *)
(* may not, and a transition to the state the issue is in.                 *)

StateAllows(n, to) == issues[n].state # to

ReadForTransition(u, n, to) ==
    /\ n \in DOMAIN issues /\ mayChange(u, issues[n].author)
    /\ StateAllows(n, to)
    /\ Request(u, [pc |-> "move", n |-> n, to |-> to])
    /\ UNCHANGED <<issues, comments, refs, repoLock, form, historyVars, issueFaults>>
handleCloseIssue(u, n) == ReadForTransition(u, n, "closed")
handleReopenIssue(u, n) == ReadForTransition(u, n, "open")
uiIssueClose(u) == form[u] # NoForm /\ handleCloseIssue(u, form[u].n)
uiIssueReopen(u) == form[u] # NoForm /\ handleReopenIssue(u, form[u].n)

(* The UPDATE has no condition on the state.                               *)
MoveIssue(u, to) ==
    LET r == rq[u] IN
    /\ r.pc = "move" /\ r.to = to
    /\ issues' = [issues EXCEPT ![r.n].state = to]
    /\ raced' = raced \cup {n \in {r.n} : \E v \in Users \ {u} :
                              rq[v].pc = "move" /\ rq[v].n = n}
    /\ Finish(u)
    /\ UNCHANGED <<comments, refs, repoLock, form, want, staleForm, linked, conflicts, issueFaults>>
CloseIssue(u) ==
    /\ MoveIssue(u, "closed")
    /\ net' = [net EXCEPT ![rq[u].n] = @ + 1]
ReopenIssue(u) ==
    /\ MoveIssue(u, "open")
    /\ net' = [net EXCEPT ![rq[u].n] = @ - 1]

---------------------------------------------------------------------------
(* Comments                                                                *)

handleCreateIssueComment(u, n, body) ==
    /\ n \in DOMAIN issues
    /\ Request(u, upsertIssueBodyRefs(n, body))
    /\ comments' = comments \cup {[issue |-> n, author |-> u, body |-> body]}
    /\ UNCHANGED <<issues, refs, repoLock, form, historyVars, issueFaults>>
uiCreateIssueComment(u, body) ==
    form[u] # NoForm /\ handleCreateIssueComment(u, form[u].n, body)

(* n is the number in the URL, which nothing compares with the comment's.   *)
handleUpdateIssueComment(u, c, n, body) ==
    /\ c \in comments /\ mayChange(u, c.author)
    /\ Request(u, [pc |-> "comment", c |-> c, n |-> n, body |-> body])
    /\ UNCHANGED <<issues, comments, refs, repoLock, form, historyVars, issueFaults>>
uiEditIssueComment(u, c, body) ==
    form[u] # NoForm /\ handleUpdateIssueComment(u, c, form[u].n, body)

UpdateIssueComment(u) ==
    LET r == rq[u] IN
    /\ r.pc = "comment"
    /\ IF r.c \in comments
       THEN /\ comments' = (comments \ {r.c}) \cup {[r.c EXCEPT !.body = r.body]}
            /\ LET m == upsertIssueBodyRefs(r.n, r.body) IN
               Goto(u, IF r.n = r.c.issue THEN m ELSE [m EXCEPT !.owed = {}])
       ELSE Finish(u) /\ UNCHANGED comments
    /\ UNCHANGED <<issues, refs, repoLock, form, historyVars, issueFaults>>

handleDeleteIssueComment(u, c) ==
    /\ c \in comments /\ mayChange(u, c.author)
    /\ Request(u, [pc |-> "delete", c |-> c])
    /\ UNCHANGED <<issues, comments, refs, repoLock, form, historyVars, issueFaults>>
uiDeleteIssueComment(u, c) == handleDeleteIssueComment(u, c)

DeleteIssueComment(u) ==
    /\ rq[u].pc = "delete"
    /\ comments' = comments \ {rq[u].c}
    /\ Finish(u)
    /\ UNCHANGED <<issues, refs, repoLock, form, historyVars, issueFaults>>

---------------------------------------------------------------------------
(* The process stops: its requests end and its transactions roll back.      *)
ServerRestarts ==
    /\ IssueFault
    /\ rq' = [u \in Users |-> IdleRq]
    /\ repoLock' = NoUser
    /\ UNCHANGED <<issues, comments, refs, form, historyVars, issueReqs>>

IssueStep(u) ==
    \/ MentionStep(u) \/ MentionFails(u) \/ Acknowledge(u)
    \/ LockRepo(u) \/ AllocateNumber(u) \/ InsertIssue(u) \/ CreateIssueFails(u)
    \/ UpdateIssue(u) \/ CloseIssue(u) \/ ReopenIssue(u)
    \/ UpdateIssueComment(u) \/ DeleteIssueComment(u)

IssueRequest(u) ==
    \/ \E x \in Texts : handleCreateIssue(u, x, x) \/ uiNewIssue(u, x, x)
    \/ \E n \in Numbers :
         \/ LoadIssuePage(u, n) \/ handleCloseIssue(u, n) \/ handleReopenIssue(u, n)
         \/ \E F \in (SUBSET Fields) \ {{}}, x \in Texts :
              handleUpdateIssue(u, n, [f \in F |-> x])
         \/ \E x \in Texts : \/ handleCreateIssueComment(u, n, x)
                             \/ \E r \in Mentions[x] : handleAddIssueRef(u, n, r)
                             \/ \E c \in comments : handleUpdateIssueComment(u, c, n, x)
    \/ uiIssueClose(u) \/ uiIssueReopen(u)
    \/ \E x \in Texts :
         \/ \E f \in Fields : uiEditIssue(u, f, x)
         \/ uiCreateIssueComment(u, x)
         \/ \E r \in Mentions[x] : uiAddIssueRef(u, r)
         \/ \E c \in comments : uiEditIssueComment(u, c, x)
         \/ \E p \in {"p"} : ProposalText(u, p, x)
    \/ \E c \in comments : handleDeleteIssueComment(u, c) \/ uiDeleteIssueComment(u, c)

IssuesNext == ServerRestarts \/ \E u \in Users : IssueStep(u) \/ IssueRequest(u)

IssuesSpec == IssuesInit /\ [][IssuesNext]_issueVars

---------------------------------------------------------------------------
(* CreateIssue numbers a repo's issues 1, 2, 3, ... without gaps, and two  *)
(* creations at once never collide: the repo row serialises MAX + 1.       *)
NumbersDense ==
    /\ DOMAIN issues = 1..Cardinality(DOMAIN issues)
    /\ conflicts = 0

(* An acknowledged text has its references, whoever added some of them     *)
(* before or meanwhile; only a failed statement or a restart loses one.    *)
MentionsLinked == linked \subseteq refs

(* A field keeps the value last asked for, by whomever, unless a web form  *)
(* loaded before put an older value back: edits of two fields through the  *)
(* API never undo each other.                                              *)
EditLostOnlyToForm ==
    \A n \in DOMAIN issues : \A f \in Fields :
        issues[n][f] # want[n][f] => <<n, f>> \in staleForm

(* Closes and reopens of an issue alternate, so that the acknowledged ones *)
(* tell its state, unless two transitions overlapped.                      *)
TransitionsAlternate ==
    \A n \in DOMAIN issues \ raced :
        net[n] = IF issues[n].state = "closed" THEN 1 ELSE 0

States == {"open", "closed"}
IssueRows == [author : Users, title : Texts, body : Texts, state : States]
CommentRows == [issue : Numbers, author : Users, body : Texts]

(* Type invariant: comments, pages and histories are about issues there are. *)
IssueTypeOK ==
    /\ DOMAIN issues \subseteq Numbers /\ DOMAIN want = DOMAIN issues
    /\ \A n \in DOMAIN issues : issues[n] \in IssueRows /\ DOMAIN want[n] = Fields
    /\ comments \subseteq CommentRows /\ \A c \in comments : c.issue \in DOMAIN issues
    /\ DOMAIN form = Users /\ DOMAIN rq = Users
    /\ \A u \in Users : form[u] # NoForm => form[u].n \in DOMAIN issues /\ \A f \in Fields : form[u][f] \in Texts
    /\ net \in [Numbers -> Int] /\ \A n \in Numbers \ DOMAIN issues : net[n] = 0
    /\ repoLock \in Users \cup {NoUser}

(* What a request of user u that has read something still relies on: a number *)
(* is free under the lock of the repo row, the references a text owes and has *)
(* been through are there, and a transition has not become void unless        *)
(* another one came in between.                                               *)
CreationFits(u) ==
    /\ rq[u].pc \in {"lock", "number"} =>
         rq[u] \in [pc : {"lock", "number"}, title : Texts, body : Texts]
    /\ rq[u].pc = "insert" =>
         /\ rq[u] \in [pc : {"insert"}, title : Texts, body : Texts, n : Numbers]
         /\ DOMAIN issues = 1..(rq[u].n - 1)
    /\ rq[u].pc \in {"number", "insert"} => repoLock = u
EditFits(u) ==
    rq[u].pc = "edit" =>
        /\ rq[u].n \in DOMAIN issues
        /\ rq[u].asked \subseteq DOMAIN rq[u].set /\ DOMAIN rq[u].set \subseteq Fields
        /\ \A f \in DOMAIN rq[u].set : rq[u].set[f] \in Texts
MoveFits(u) ==
    rq[u].pc = "move" =>
        /\ rq[u].n \in DOMAIN issues /\ rq[u].to \in States
        /\ rq[u].n \notin raced => issues[rq[u].n].state # rq[u].to
MentionFits(u) ==
    rq[u].pc = "mention" =>
        /\ rq[u] = [pc |-> "mention", todo |-> rq[u].todo, owed |-> rq[u].owed]
        /\ rq[u].owed \ rq[u].todo \subseteq refs
        /\ \A r \in rq[u].owed : r[1] \in DOMAIN issues
CommentFits(u) ==
    rq[u].pc = "comment" => rq[u].c \in CommentRows /\ rq[u].n \in Numbers /\ rq[u].body \in Texts
IssueRequestFits(u) ==
    CreationFits(u) /\ EditFits(u) /\ MoveFits(u) /\ MentionFits(u) /\ CommentFits(u)
IssueRequestsFit == \A u \in Users : IssueRequestFits(u)

(* What a client was told about an issue stays true: its number; its edits, *)
(* but for those undone by a form loaded before them; its state, but for    *)
(* transitions that overlapped; and its references, but for those of a      *)
(* request that a failed statement or a restart cut short.                  *)
IssueWritesKept ==
    /\ IssueTypeOK /\ IssueRequestsFit
    /\ NumbersDense
    /\ MentionsLinked
    /\ EditLostOnlyToForm
    /\ TransitionsAlternate
=============================================================================
