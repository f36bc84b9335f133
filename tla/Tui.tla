-------------------------------- MODULE Tui --------------------------------
(***************************************************************************)
(* The terminal interface, a Bubble Tea program: one Update at a time over *)
(* keys and over the results of commands that run concurrently and answer  *)
(* in any order.  A result names neither the screen nor the form that      *)
(* asked for it: it goes to whatever is on the screen when it arrives.     *)
(* Layout, cursors and the text of forms are left out; choosing a row is   *)
(* choosing a member of the rows shown.  Other people use the server at    *)
(* the same time, so a result may say anything a server can say.           *)
(***************************************************************************)
EXTENDS Naturals, FiniteSets

CONSTANTS
    TBranches, TIssues,
    MaxKeys,
    None

(* Kinds of commands: those that a form sends, and all.                    *)
FormKinds == {"review", "propose", "create", "comment", "close"}
AirKinds == FormKinds \cup {"branches", "detail", "merge", "unpropose", "tick", "issues",
                           "issue", "reopen"}

ASSUME TuiAssumption == None \notin AirKinds

VARIABLES
    view,        \* topModel.activeView
    list,        \* branchListModel: [loading, rows]
    detail,      \* branchDetailModel
    issueList,   \* issueListModel: [loading, rows, filter, form]
    issue,       \* issueDetailModel: [num, open, loading, form]
    air,         \* commands whose results are not yet delivered: [kind, arg, form, id]
    forms,       \* forms opened so far
    swallowed,   \* kinds of results the open form took, this screen (history)
    abandoned,   \* a form was closed while it was submitting (history)
    doubled,     \* a form was posted again while its request was out (history)
    mishit,      \* a request was about another issue than the one shown (history)
    keys

screens == <<view, list, detail, issueList, issue>>
tuiHistory == <<swallowed, abandoned, doubled, mishit>>
tuiVars == <<screens, air, forms, tuiHistory, keys>>

Closed == [kind |-> None, id |-> 0, submitting |-> FALSE, num |-> None]
NoDetail == [branch |-> None, loading |-> FALSE, pending |-> FALSE,
             proposal |-> None, merging |-> FALSE, confirm |-> FALSE, form |-> Closed]
newBranchDetailModel(b) == [NoDetail EXCEPT !.branch = b, !.loading = TRUE]
newIssueListModel == [loading |-> TRUE, rows |-> {}, filter |-> "open", form |-> Closed]
newIssueDetailModel(i) == [num |-> i.num, open |-> i.open, loading |-> TRUE, form |-> Closed]

TuiInit ==
    /\ list = [loading |-> FALSE, rows |-> TBranches]      \* the first load is back
    /\ detail = NoDetail
    /\ \/ view = "branches" /\ issueList = newIssueListModel
       \/ /\ view = "issues"
          /\ issueList = [newIssueListModel EXCEPT !.loading = FALSE,
                           !.rows = {[num |-> n, open |-> TRUE] : n \in TIssues}]
    /\ issue = newIssueDetailModel([num |-> None, open |-> FALSE])
    /\ air = {} /\ forms = 0
    /\ swallowed = {} /\ abandoned = FALSE /\ doubled = FALSE /\ mishit = FALSE
    /\ keys = 0

---------------------------------------------------------------------------
(* Results of the commands                                                 *)

Ok(m, data) == [kind |-> m.kind, err |-> FALSE, data |-> data]

loadBranches(m) == {Ok(m, TBranches)}

(* The head is read before the checks: a commit in between hides its       *)
(* pending check.                                                          *)
loadBranchDetail(m) ==
    {Ok(m, [pending |-> p, proposal |-> q]) : p \in BOOLEAN, q \in {None, m.arg}}

Listed(filter) == IF filter = "all" THEN BOOLEAN ELSE {filter = "open"}
loadIssues(m) ==
    {Ok(m, {[num |-> n, open |-> o] : n \in S}) : S \in SUBSET TIssues, o \in Listed(m.arg)}
loadIssueDetail(m) == {Ok(m, [num |-> m.arg, open |-> o]) : o \in BOOLEAN}

mergeBranch(m) == {Ok(m, None)}
submitReview(m) == {Ok(m, None)}
openProposal(m) == {Ok(m, None)}
closeProposal(m) == {Ok(m, None)}
createIssueCmd(m) == {Ok(m, None)}
closeIssueCmd(m) == {Ok(m, None)}
reopenIssueCmd(m) == {Ok(m, None)}
createIssueCommentCmd(m) == {Ok(m, None)}
checkRefreshTick(m) == {Ok(m, None)}

(* Every command but the tick may also fail.                               *)
Results(m) ==
    (IF m.kind = "tick" THEN {} ELSE {[kind |-> m.kind, err |-> TRUE, data |-> None]}) \cup
    CASE m.kind = "branches" -> loadBranches(m)
      [] m.kind = "detail" -> loadBranchDetail(m)
      [] m.kind = "merge" -> mergeBranch(m)
      [] m.kind = "review" -> submitReview(m)
      [] m.kind = "propose" -> openProposal(m)
      [] m.kind = "unpropose" -> closeProposal(m)
      [] m.kind = "issues" -> loadIssues(m)
      [] m.kind = "issue" -> loadIssueDetail(m)
      [] m.kind = "create" -> createIssueCmd(m)
      [] m.kind = "close" -> closeIssueCmd(m)
      [] m.kind = "reopen" -> reopenIssueCmd(m)
      [] m.kind = "comment" -> createIssueCommentCmd(m)
      [] m.kind = "tick" -> checkRefreshTick(m)

---------------------------------------------------------------------------
(* What an Update does with a result                                       *)

(* The command that an Update returns, told apart from the ones in rest.   *)
Cmd(kind, arg) == [kind |-> kind, arg |-> arg, form |-> 0]
Start(rest, c) ==
    /\ LET used == {m.id : m \in rest}
           id == CHOOSE n \in 1..(Cardinality(used) + 1) :
                     n \notin used /\ \A k \in 1..(n - 1) : k \in used
       IN  air' = rest \cup {[kind |-> c.kind, arg |-> c.arg, form |-> c.form, id |-> id]}
    /\ UNCHANGED forms
Quiet(rest) == air' = rest /\ UNCHANGED forms
OpenForm(kind, num) == [kind |-> kind, id |-> forms + 1, submitting |-> FALSE, num |-> num]
FormOpened == forms' = forms + 1 /\ UNCHANGED air
LoadDetail(b) == Cmd("detail", b)
LoadIssue(n) == Cmd("issue", n)
LoadIssueList(f) == Cmd("issues", f)

(* With a form open every result goes to the form; one that is not the     *)
(* answer to such a form is ignored there.                                 *)
Swallows(form, m) == form.kind # None /\ form.kind # m.kind

Ignored(m, rest) ==
    /\ Quiet(rest) /\ swallowed' = swallowed \cup {m.kind}
    /\ UNCHANGED screens

(* The answer closes the form and reloads, or leaves it open for a retry.  *)
Failed(form) == [form EXCEPT !.submitting = FALSE]

(* A pending check at the head shown is looked at again in five seconds.   *)
(* Mutant. *)
scheduleCheckRefresh_notOnError(d, m, rest) ==
    IF d.pending /\ ~m.err THEN Start(rest, Cmd("tick", None)) ELSE Quiet(rest)
scheduleCheckRefresh(d, m, rest) ==
    IF d.pending THEN Start(rest, Cmd("tick", None)) ELSE Quiet(rest)

DetailResult(m, rest) ==
    LET reload == /\ detail' = [detail EXCEPT !.loading = TRUE, !.form = Closed]
               /\ Start(rest, LoadDetail(detail.branch)) IN
    \/ /\ Swallows(detail.form, m) \/ (detail.confirm /\ m.kind # "merge")
       /\ Ignored(m, rest)
    \/ /\ ~Swallows(detail.form, m) /\ ~(detail.confirm /\ m.kind # "merge")
       /\ UNCHANGED <<view, list, issueList, issue, swallowed>>
       /\ IF m.kind = detail.form.kind
          THEN IF m.err THEN /\ detail' = [detail EXCEPT !.form = Failed(@)] /\ Quiet(rest)
                        ELSE reload
          ELSE IF m.kind = "tick" /\ detail.pending THEN reload
          ELSE IF m.kind = "unpropose" /\ ~m.err THEN reload
          ELSE IF m.kind = "detail"
          THEN LET d == IF m.err THEN detail
                        ELSE [detail EXCEPT !.pending = m.data.pending, !.proposal = m.data.proposal] IN
               /\ detail' = [d EXCEPT !.loading = FALSE]
               /\ scheduleCheckRefresh(d, m, rest)
          ELSE /\ detail' = IF m.kind = "merge" THEN [detail EXCEPT !.merging = FALSE]
                            ELSE detail
               /\ Quiet(rest)

IssueListResult(m, rest) ==
    \/ Swallows(issueList.form, m) /\ Ignored(m, rest)
    \/ /\ ~Swallows(issueList.form, m)
       /\ UNCHANGED <<view, list, detail, issue, swallowed>>
       /\ IF m.kind = issueList.form.kind
          THEN IF m.err THEN issueList' = [issueList EXCEPT !.form = Failed(@)] /\ Quiet(rest)
               ELSE /\ issueList' = [issueList EXCEPT !.form = Closed, !.loading = TRUE]
                    /\ Start(rest, LoadIssueList(issueList.filter))
          ELSE /\ Quiet(rest)
               /\ issueList' = IF m.kind # "issues" THEN issueList
                            ELSE [issueList EXCEPT !.loading = FALSE,
                                                !.rows = IF m.err THEN {} ELSE m.data]

IssueDetailResult(m, rest) ==
    LET reload == /\ issue' = [issue EXCEPT !.loading = TRUE, !.form = Closed]
               /\ Start(rest, LoadIssue(issue.num)) IN
    \/ Swallows(issue.form, m) /\ Ignored(m, rest)
    \/ /\ ~Swallows(issue.form, m)
       /\ UNCHANGED <<view, list, detail, issueList, swallowed>>
       /\ IF m.kind = issue.form.kind
          THEN IF m.err THEN issue' = [issue EXCEPT !.form = Failed(@)] /\ Quiet(rest)
               ELSE reload
          ELSE IF m.kind \in {"close", "reopen"} /\ ~m.err THEN reload
          ELSE /\ Quiet(rest)
               /\ issue' = IF m.kind # "issue" THEN issue
                           ELSE IF m.err THEN [issue EXCEPT !.loading = FALSE]
                           ELSE [issue EXCEPT !.loading = FALSE, !.num = m.data.num,
                                              !.open = m.data.open]

BranchListResult(m, rest) ==
    /\ Quiet(rest)
    /\ list' = IF m.kind # "branches" THEN list
               ELSE [loading |-> FALSE, rows |-> IF m.err THEN {} ELSE m.data]
    /\ UNCHANGED <<view, detail, issueList, issue, swallowed>>

(* topModel.Update: the screen shown gets the result.                      *)
Deliver(m) ==
    /\ m \in air
    /\ \E r \in Results(m) :
          \/ view = "branches" /\ BranchListResult(r, air \ {m})
          \/ view = "detail" /\ DetailResult(r, air \ {m})
          \/ view = "issues" /\ IssueListResult(r, air \ {m})
          \/ view = "issue" /\ IssueDetailResult(r, air \ {m})
    /\ UNCHANGED <<abandoned, doubled, mishit, keys>>

---------------------------------------------------------------------------
(* Keys                                                                    *)

Key == keys < MaxKeys /\ keys' = keys + 1
Screen(v, fresh) == view' = v /\ swallowed' = IF fresh THEN {} ELSE swallowed
SameScreen == UNCHANGED <<view, swallowed>>
NoGhost == UNCHANGED <<abandoned, doubled, mishit>>

ListRefresh ==
    /\ view = "branches" /\ Key /\ SameScreen /\ NoGhost
    /\ list' = [list EXCEPT !.loading = TRUE]
    /\ Start(air, Cmd("branches", None)) /\ UNCHANGED <<detail, issueList, issue>>
ListOpen(b) ==
    /\ view = "branches" /\ b \in list.rows /\ Key /\ Screen("detail", TRUE) /\ NoGhost
    /\ detail' = newBranchDetailModel(b) /\ Start(air, LoadDetail(b))
    /\ UNCHANGED <<list, issueList, issue>>
ListIssues ==
    /\ view = "branches" /\ Key /\ Screen("issues", TRUE) /\ NoGhost
    /\ issueList' = newIssueListModel /\ Start(air, LoadIssueList("open"))
    /\ UNCHANGED <<list, detail, issue>>

DetailFree == view = "detail" /\ detail.form = Closed /\ ~detail.confirm
DetailBack ==
    /\ DetailFree /\ Key /\ Screen("branches", TRUE) /\ NoGhost
    /\ detail' = [detail EXCEPT !.pending = FALSE]
    /\ Start(air, Cmd("branches", None)) /\ UNCHANGED <<list, issueList, issue>>
DetailRefresh ==
    /\ DetailFree /\ Key /\ SameScreen /\ NoGhost
    /\ detail' = [detail EXCEPT !.loading = TRUE]
    /\ Start(air, LoadDetail(detail.branch)) /\ UNCHANGED <<list, issueList, issue>>
DetailForm(kind) ==
    /\ DetailFree /\ (kind = "propose" => detail.proposal = None)
    /\ Key /\ SameScreen /\ NoGhost
    /\ detail' = [detail EXCEPT !.form = OpenForm(kind, None)]
    /\ FormOpened /\ UNCHANGED <<list, issueList, issue>>
DetailCloseProposal ==
    /\ DetailFree /\ detail.proposal # None /\ Key /\ SameScreen /\ NoGhost
    /\ Start(air, Cmd("unpropose", detail.proposal))
    /\ UNCHANGED <<list, detail, issueList, issue>>
DetailMerge ==
    /\ DetailFree /\ ~detail.merging /\ Key /\ SameScreen /\ NoGhost
    /\ detail' = [detail EXCEPT !.confirm = TRUE]
    /\ Quiet(air) /\ UNCHANGED <<list, issueList, issue>>
DetailConfirm(yes) ==
    /\ view = "detail" /\ detail.confirm /\ Key /\ SameScreen /\ NoGhost
    /\ detail' = [detail EXCEPT !.confirm = FALSE, !.merging = yes \/ @]
    /\ IF yes THEN Start(air, Cmd("merge", detail.branch)) ELSE Quiet(air)
    /\ UNCHANGED <<list, issueList, issue>>

IssueListFree == view = "issues" /\ issueList.form = Closed
IssueListFilter ==
    LET next == [f \in {"open", "closed", "all"} |->
                     IF f = "open" THEN "closed" ELSE IF f = "closed" THEN "all" ELSE "open"] IN
    /\ IssueListFree /\ Key /\ SameScreen /\ NoGhost
    /\ issueList' = [issueList EXCEPT !.filter = next[@], !.loading = TRUE]
    /\ Start(air, LoadIssueList(next[issueList.filter])) /\ UNCHANGED <<list, detail, issue>>
IssueListOpen(i) ==
    /\ IssueListFree /\ i \in issueList.rows /\ Key /\ Screen("issue", TRUE) /\ NoGhost
    /\ issue' = newIssueDetailModel(i) /\ Start(air, LoadIssue(i.num))
    /\ UNCHANGED <<list, detail, issueList>>
IssueListBack ==
    /\ IssueListFree /\ Key /\ Screen("branches", TRUE) /\ NoGhost
    /\ Start(air, Cmd("branches", None)) /\ UNCHANGED <<list, detail, issueList, issue>>
IssueListNew ==
    /\ IssueListFree /\ Key /\ SameScreen /\ NoGhost
    /\ issueList' = [issueList EXCEPT !.form = OpenForm("create", None)]
    /\ FormOpened /\ UNCHANGED <<list, detail, issue>>

IssueFree == view = "issue" /\ issue.form = Closed
IssueBack ==
    /\ IssueFree /\ Key /\ Screen("issues", TRUE) /\ NoGhost
    /\ Start(air, LoadIssueList(issueList.filter)) /\ UNCHANGED <<list, detail, issueList, issue>>
IssueForm(kind) ==
    /\ IssueFree /\ (kind = "close" => issue.open)
    /\ Key /\ SameScreen /\ NoGhost
    /\ issue' = [issue EXCEPT !.form = OpenForm(kind, issue.num)]
    /\ FormOpened /\ UNCHANGED <<list, detail, issueList>>
IssueReopen ==
    /\ IssueFree /\ ~issue.open /\ Key /\ SameScreen /\ NoGhost
    /\ Start(air, Cmd("reopen", issue.num))
    /\ UNCHANGED <<list, detail, issueList, issue>>

(* Enter in a form.                                                        *)
MaySubmit(form) == form.kind # None /\ ~form.submitting
Posted(form) == \E m \in air : m.kind = form.kind /\ m.form = form.id
Submit(form, arg) ==
    /\ MaySubmit(form) /\ Key /\ SameScreen
    /\ Start(air, [kind |-> form.kind, arg |-> arg, form |-> form.id])
    /\ doubled' = (doubled \/ Posted(form)) /\ UNCHANGED abandoned

DetailSubmit ==
    /\ view = "detail" /\ Submit(detail.form, detail.branch)
    /\ detail' = [detail EXCEPT !.form.submitting = TRUE]
    /\ UNCHANGED <<mishit, list, issueList, issue>>
IssueListSubmit ==
    /\ view = "issues" /\ Submit(issueList.form, None)
    /\ issueList' = [issueList EXCEPT !.form.submitting = TRUE]
    /\ UNCHANGED <<mishit, list, detail, issue>>
IssueSubmit ==
    /\ view = "issue" /\ Submit(issue.form, issue.form.num)
    /\ issue' = [issue EXCEPT !.form.submitting = TRUE]
    /\ mishit' = (mishit \/ issue.form.num # issue.num)
    /\ UNCHANGED <<list, detail, issueList>>

(* Esc in a form; what it has sent stays out.                              *)
Esc(form) ==
    /\ form.kind # None /\ Key /\ SameScreen /\ Quiet(air)
    /\ abandoned' = (abandoned \/ form.submitting) /\ UNCHANGED <<doubled, mishit>>
DetailEsc ==
    /\ view = "detail" /\ Esc(detail.form)
    /\ detail' = [detail EXCEPT !.form = Closed] /\ UNCHANGED <<list, issueList, issue>>
IssueListEsc ==
    /\ view = "issues" /\ Esc(issueList.form)
    /\ issueList' = [issueList EXCEPT !.form = Closed] /\ UNCHANGED <<list, detail, issue>>
IssueEsc ==
    /\ view = "issue" /\ Esc(issue.form)
    /\ issue' = [issue EXCEPT !.form = Closed] /\ UNCHANGED <<list, detail, issueList>>

TuiNext ==
    \/ \E m \in air : Deliver(m)
    \/ \E b \in TBranches : ListOpen(b)
    \/ ListRefresh \/ ListIssues
    \/ DetailBack \/ DetailRefresh \/ DetailCloseProposal \/ DetailMerge
    \/ \E kind \in {"review", "propose"} : DetailForm(kind)
    \/ \E yes \in BOOLEAN : DetailConfirm(yes)
    \/ IssueListFilter \/ IssueListBack \/ IssueListNew
    \/ \E i \in issueList.rows : IssueListOpen(i)
    \/ IssueBack \/ IssueReopen
    \/ \E kind \in {"comment", "close"} : IssueForm(kind)
    \/ DetailSubmit \/ IssueListSubmit \/ IssueSubmit
    \/ DetailEsc \/ IssueListEsc \/ IssueEsc

TuiSpec == TuiInit /\ [][TuiNext]_tuiVars

---------------------------------------------------------------------------
InAir(kinds) == \E m \in air : m.kind \in kinds
Took(kinds) == swallowed \cap kinds # {}

(* Whatever the screen waits for, a load it shows as Loading, a merge, an  *)
(* answer to a form, the next refresh of a pending check, is on its way,   *)
(* unless an open form or the merge prompt took it: leaving a screen and   *)
(* coming back, failures and answers out of order lose nothing.            *)
NothingLeftWaiting ==
    /\ view = "branches" /\ list.loading => InAir({"branches"})
    /\ view = "detail" =>
          /\ detail.loading => InAir({"detail"}) \/ Took({"detail"})
          /\ detail.merging => InAir({"merge"}) \/ Took({"merge"})
          /\ detail.pending => InAir({"tick", "detail"}) \/ Took({"tick", "detail"})
          /\ detail.form.submitting => InAir({detail.form.kind})
    /\ view = "issues" =>
          /\ issueList.loading => InAir({"issues"}) \/ Took({"issues"})
          /\ issueList.form.submitting => InAir({issueList.form.kind})
    /\ view = "issue" =>
          /\ issue.loading => InAir({"issue"}) \/ Took({"issue"})
          /\ issue.form.submitting => InAir({issue.form.kind})

(* A comment or a close goes to the issue on the screen, although a late   *)
(* load of another issue can replace the one the user opened.              *)
IssueActionOnShown == ~mishit

(* A form is not posted twice by pressing Enter twice; only the answer to  *)
(* an earlier form, closed while it was submitting, can re-arm it.         *)
NoDoubleSubmit == doubled => abandoned

Forms(kinds) == [kind : kinds \cup {None}, id : Nat, submitting : BOOLEAN, num : TIssues \cup {None}]
Filters == {"open", "closed", "all"}

(* Type invariant: a screen shows branches or issues, never the one as the  *)
(* other, and a command in the air asks about what its kind is about.       *)
TuiTypeOK ==
    /\ view \in {"branches", "detail", "issues", "issue"} /\ forms \in Nat
    /\ list \in [loading : BOOLEAN, rows : SUBSET TBranches]
    /\ detail \in [branch : TBranches \cup {None}, loading : BOOLEAN, pending : BOOLEAN,
                   proposal : TBranches \cup {None}, merging : BOOLEAN, confirm : BOOLEAN,
                   form : Forms({"review", "propose"})]
    /\ issueList \in [loading : BOOLEAN, rows : SUBSET [num : TIssues, open : BOOLEAN],
                      filter : Filters, form : Forms({"create"})]
    /\ issue \in [num : TIssues \cup {None}, open : BOOLEAN, loading : BOOLEAN,
                  form : Forms({"comment", "close"})]
    /\ \A m \in air :
          /\ m.kind \in AirKinds
          /\ m.kind = "detail" => m.arg \in TBranches \cup {None}
          /\ m.kind = "issue" => m.arg \in TIssues \cup {None}

(* The form on the screen. *)
ShownForm ==
    CASE view = "detail" -> detail.form [] view = "issues" -> issueList.form
      [] view = "issue" -> issue.form [] OTHER -> Closed

(* Unless a submitting form was closed, at most one request of a form is    *)
(* out, and the form on the screen waits for it.  A form that is not open   *)
(* does not wait, one on an issue is about the issue shown, and none is     *)
(* open under the merge prompt.                                             *)
FormsFit ==
    /\ \A f \in {detail.form, issueList.form, issue.form} : f.kind = None => f = Closed
    /\ detail.confirm => detail.form = Closed
    /\ view # "issues" => issueList.form = Closed
    /\ issue.form.kind # None => issue.form.num = issue.num
    /\ ~abandoned =>
          \A m \in air : m.kind \in FormKinds =>
              ShownForm.submitting /\ \A n \in air : n.kind \in FormKinds => n = m

(* Whatever the order of answers, no screen waits for one that will not     *)
(* come, unless an open form or the merge prompt took that answer (Took),   *)
(* and keys act on what is shown, once, unless a form was closed while it   *)
(* was submitting.                                                          *)
ScreensSound ==
    /\ TuiTypeOK /\ FormsFit
    /\ NothingLeftWaiting
    /\ IssueActionOnShown
    /\ NoDoubleSubmit
=============================================================================
