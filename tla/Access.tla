-------------------------------- MODULE Access --------------------------------
(***************************************************************************)
(* Organisations, their members and invitations, repositories and their    *)
(* role assignments, and the middleware that decides what a caller may do. *)
(* A handler authorises its caller with one statement and changes the      *)
(* database with another one, so requests overlap; DeleteOrg and           *)
(* AcceptInvite are transactions of several statements.                    *)
(***************************************************************************)
EXTENDS Naturals, FiniteSets

CONSTANTS
    Identities,      \* authenticated callers
    Orgs, Repos,     \* names
    Invites,         \* tokens of invitations, each with its id
    OwnerOf,         \* OwnerOf[r]: the org in the first segment of the name r
    BootstrapAdmin,  \* identity of --bootstrap-admin, or None
    Grantable,       \* the repo roles that requests assign
    Requests,        \* requests in progress at the same time
    None

ASSUME AccessAssumption ==
    /\ OwnerOf \in [Repos -> Orgs]
    /\ BootstrapAdmin \in Identities \cup {None}
    /\ None \notin Identities \cup {"owner", "member", "reader", "writer", "maintainer", "admin"}
    /\ Grantable \subseteq {"reader", "writer", "maintainer", "admin"}

VARIABLES
    orgs,        \* rows of orgs
    repos,       \* rows of repos
    members,     \* org_members: <<org, identity>> -> role, or None
    roles,       \* roles: <<repo, identity>> -> role, or None
    invites,     \* org_invites: token -> row, None before and after its life
    req,         \* the request that each slot works on
    grants       \* how often an invitation has made someone a member (history)

accessVars == <<orgs, repos, members, roles, invites, req, grants>>
tables == <<orgs, repos, members, roles, invites, grants>>

OrgRole == {"owner", "member"}
RepoRole == {"reader", "writer", "maintainer", "admin"}
Idle == [op |-> "idle"]

AccessInit ==
    /\ orgs = {} /\ repos = {}
    /\ members = [m \in Orgs \X Identities |-> None]
    /\ roles = [m \in Repos \X Identities |-> None]
    /\ invites = [i \in Invites |-> None]
    /\ req = [q \in Requests |-> Idle]
    /\ grants = [i \in Invites |-> 0]

-----------------------------------------------------------------------------
(* Rows that an open DeleteOrg has deleted are locked until it ends, and so *)
(* is an invitation that an AcceptInvite has selected FOR UPDATE.           *)
MemberLocked(o, x) ==
    \E q \in Requests : req[q].op = "deleteOrg" /\ req[q].org = o /\ x \in req[q].members
InviteLocked(i) ==
    \E q \in Requests : \/ req[q].op = "accept" /\ req[q].inv = i
                        \/ req[q].op = "deleteOrg" /\ i \in req[q].invites

MembersOf(o) == {x \in Identities : members[<<o, x>>] # None}
InvitesOf(o) == {i \in Invites : invites[i] # None /\ invites[i].org = o}

GetOrgMember(o, x) == members[<<o, x>>]

(* requireOrgOwner: the org exists and the caller's row says owner. *)
requireOrgOwner(o, x) ==
    /\ o \in orgs
    /\ GetOrgMember(o, x) = "owner"

HasAdmin(r) == \E x \in Identities : roles[<<r, x>>] = "admin"

(* Mutant. *)
GetRole_orgFirst(r, x) ==
    LET m == IF r \in repos THEN members[<<OwnerOf[r], x>>] ELSE None
    IN CASE m # None -> IF m = "owner" THEN "admin" ELSE "reader"
         [] OTHER -> roles[<<r, x>>]

(* The repo's own row, else what membership of the owning org stands for. *)
GetRole(r, x) ==
    LET m == IF r \in repos THEN members[<<OwnerOf[r], x>>] ELSE None
    IN CASE roles[<<r, x>>] # None -> roles[<<r, x>>]
         [] OTHER -> IF m = None THEN None
                     ELSE IF m = "owner" THEN "admin" ELSE "reader"

(* Endpoint classes of roleAllows, by the roles that it lets through.       *)
ReadEndpoints == {"read", "listSecrets"}
WriterEndpoints == {"commit", "review", "comment", "check", "proposal", "issue",
                    "autoMerge", "draft", "runCI"}
MaintainerEndpoints == {"branch", "merge", "rebase", "deleteBranch", "retryChecks",
                        "createRelease", "deleteIssue"}
AdminEndpoints == {"roles", "writeSecrets", "deleteRelease"}
OtherEndpoints == {"purge"}
Endpoints == ReadEndpoints \cup WriterEndpoints \cup MaintainerEndpoints
             \cup AdminEndpoints \cup OtherEndpoints

(* The last line refuses what no rule names: purge. *)
roleAllows(role, ep) ==
    \/ ep \in ReadEndpoints
    \/ ep \in WriterEndpoints /\ role \in {"writer", "maintainer", "admin"}
    \/ ep \in MaintainerEndpoints /\ role \in {"maintainer", "admin"}
    \/ ep \in AdminEndpoints /\ role = "admin"

(* The bootstrap admin passes while the repo has no admin row; everyone     *)
(* else, and the bootstrap admin afterwards, needs a role that allows it.   *)
RBACMiddleware(r, x, ep) ==
    \/ x = BootstrapAdmin /\ ~HasAdmin(r)
    \/ GetRole(r, x) # None /\ roleAllows(GetRole(r, x), ep)

-----------------------------------------------------------------------------
(* The first step of a handler: it authorises the caller and keeps the      *)
(* arguments; the statement that changes the tables is a later step.        *)
Begin(q, request) ==
    /\ req[q] = Idle
    /\ req' = [req EXCEPT ![q] = request]
    /\ UNCHANGED tables

End(q) == req' = [req EXCEPT ![q] = Idle]
SetMember(o, x, role) == members' = [members EXCEPT ![<<o, x>>] = role]

(* POST /orgs: the org row, then the creator's membership. *)
CreateOrg(q, o, x) ==
    /\ req[q] = Idle /\ o \notin orgs
    /\ orgs' = orgs \cup {o}
    /\ req' = [req EXCEPT ![q] = [op |-> "addMember", org |-> o, to |-> x,
                                  role |-> "owner"]]
    /\ UNCHANGED <<repos, members, roles, invites, grants>>

handleAddOrgMember(q, o, x, to, role) ==
    /\ requireOrgOwner(o, x)
    /\ Begin(q, [op |-> "addMember", org |-> o, to |-> to, role |-> role])

(* Upsert; without the org the foreign key refuses it.  The handler, and    *)
(* CreateOrg which only logs the error, end either way.                     *)
AddOrgMember(q) ==
    /\ req[q].op = "addMember"
    /\ ~MemberLocked(req[q].org, req[q].to)
    /\ IF req[q].org \in orgs
       THEN SetMember(req[q].org, req[q].to, req[q].role)
       ELSE UNCHANGED members
    /\ End(q)
    /\ UNCHANGED <<orgs, repos, roles, invites, grants>>

handleRemoveOrgMember(q, o, x, to) ==
    /\ requireOrgOwner(o, x)
    /\ Begin(q, [op |-> "removeMember", org |-> o, to |-> to])

RemoveOrgMember(q) ==
    /\ req[q].op = "removeMember"
    /\ ~MemberLocked(req[q].org, req[q].to)
    /\ SetMember(req[q].org, req[q].to, None)
    /\ End(q)
    /\ UNCHANGED <<orgs, repos, roles, invites, grants>>

(* DeleteOrg: one transaction.  First the existence check and the count of  *)
(* repos, then the deletion of the members and invitations it can see, then *)
(* the org's row, which the foreign keys protect from rows added meanwhile. *)
DeleteOrgCheck(q, o) ==
    /\ o \in orgs
    /\ \A r \in repos : OwnerOf[r] # o
    /\ Begin(q, [op |-> "deleteOrgOpen", org |-> o])

DeleteOrgClear(q) ==
    LET o == req[q].org
    IN /\ req[q].op = "deleteOrgOpen"
       /\ \A x \in MembersOf(o) : ~MemberLocked(o, x)
       /\ \A i \in InvitesOf(o) : ~InviteLocked(i)
       /\ req' = [req EXCEPT ![q] = [op |-> "deleteOrg", org |-> o,
                    members |-> MembersOf(o), invites |-> InvitesOf(o)]]
       /\ UNCHANGED tables

(* Mutant. *)
DeleteOrgCommit_noForeignKey(q) ==
    LET o == req[q].org
    IN /\ req[q].op = "deleteOrg"
       /\ orgs' = orgs \ {o}
       /\ members' = [m \in DOMAIN members |->
                        IF m[1] = o /\ m[2] \in req[q].members THEN None ELSE members[m]]
       /\ invites' = [i \in Invites |->
                        IF i \in req[q].invites THEN None ELSE invites[i]]
       /\ End(q)
       /\ UNCHANGED <<repos, roles, grants>>

DeleteOrgCommit(q) ==
    LET o == req[q].org
        blocked == \/ \E r \in repos : OwnerOf[r] = o
                   \/ MembersOf(o) # req[q].members
                   \/ InvitesOf(o) # req[q].invites
    IN /\ req[q].op = "deleteOrg"
       /\ IF blocked \/ o \notin orgs
          THEN UNCHANGED <<orgs, members, invites>>
          ELSE /\ orgs' = orgs \ {o}
               /\ members' = [m \in DOMAIN members |->
                                IF m[1] = o THEN None ELSE members[m]]
               /\ invites' = [i \in Invites |->
                                IF i \in req[q].invites THEN None ELSE invites[i]]
       /\ End(q)
       /\ UNCHANGED <<repos, roles, grants>>

-----------------------------------------------------------------------------
(* Invitations.  The expiry of a row (seven days) is a flag of the model.   *)
handleCreateInvite(q, o, x, i, email, role) ==
    /\ requireOrgOwner(o, x)
    /\ grants[i] = 0 /\ invites[i] = None
    /\ \A p \in Requests : req[p].op \in {"invite", "accept", "revoke"} => req[p].inv # i
    /\ Begin(q, [op |-> "invite", org |-> o, inv |-> i,
                 row |-> [org |-> o, email |-> email, role |-> role,
                          accepted |-> FALSE, expired |-> FALSE]])

CreateInvite(q) ==
    /\ req[q].op = "invite"
    /\ invites' = IF req[q].org \in orgs
                  THEN [invites EXCEPT ![req[q].inv] = req[q].row] ELSE invites
    /\ End(q)
    /\ UNCHANGED <<orgs, repos, members, roles, grants>>

Expire(i) ==
    /\ invites[i] # None /\ ~InviteLocked(i)
    /\ ~invites[i].expired /\ ~invites[i].accepted
    /\ invites' = [invites EXCEPT ![i].expired = TRUE]
    /\ UNCHANGED <<orgs, repos, members, roles, req, grants>>

(* Mutant. *)
AcceptInviteSelect_unlocked(q, i, x) ==
    /\ invites[i] # None
    /\ ~invites[i].accepted /\ ~invites[i].expired /\ invites[i].email = x
    /\ Begin(q, [op |-> "accept", inv |-> i, to |-> x])

(* AcceptInvite: SELECT ... FOR UPDATE and the checks ...                   *)
AcceptInviteSelect(q, i, x) ==
    /\ invites[i] # None /\ ~InviteLocked(i)
    /\ ~invites[i].accepted /\ ~invites[i].expired /\ invites[i].email = x
    /\ Begin(q, [op |-> "accept", inv |-> i, to |-> x])

(* ... then accepted_at and the upsert of the member, and the commit.       *)
AcceptInvite(q) ==
    LET i == req[q].inv
    IN /\ req[q].op = "accept"
       /\ ~MemberLocked(invites[i].org, req[q].to)
       /\ invites' = [invites EXCEPT ![i].accepted = TRUE]
       /\ SetMember(invites[i].org, req[q].to, invites[i].role)
       /\ grants' = [grants EXCEPT ![i] = @ + 1]
       /\ End(q)
       /\ UNCHANGED <<orgs, repos, roles>>

handleRevokeInvite(q, o, x, i) ==
    /\ requireOrgOwner(o, x)
    /\ invites[i] # None
    /\ Begin(q, [op |-> "revoke", org |-> o, inv |-> i])

(* The row goes whether or not it was accepted. *)
RevokeInvite(q) ==
    /\ req[q].op = "revoke" /\ ~InviteLocked(req[q].inv)
    /\ invites' = IF req[q].inv \in InvitesOf(req[q].org)
                  THEN [invites EXCEPT ![req[q].inv] = None] ELSE invites
    /\ End(q)
    /\ UNCHANGED <<orgs, repos, members, roles, grants>>

-----------------------------------------------------------------------------
(* Repositories and their roles. *)
CreateRepo(q, r, x) ==
    /\ req[q] = Idle /\ r \notin repos /\ OwnerOf[r] \in orgs
    /\ repos' = repos \cup {r}
    /\ req' = [req EXCEPT ![q] = [op |-> "setRole", repo |-> r, to |-> x, role |-> "admin"]]
    /\ UNCHANGED <<orgs, members, roles, invites, grants>>

DeleteRepo(r) ==
    /\ r \in repos
    /\ repos' = repos \ {r}
    /\ roles' = [m \in DOMAIN roles |-> IF m[1] = r THEN None ELSE roles[m]]
    /\ UNCHANGED <<orgs, members, invites, req, grants>>

handleSetRole(q, r, x, to, role) ==
    /\ RBACMiddleware(r, x, "roles")
    /\ Begin(q, [op |-> "setRole", repo |-> r, to |-> to, role |-> role])

SetRole(q) ==
    /\ req[q].op = "setRole"
    /\ roles' = IF req[q].repo \in repos
                THEN [roles EXCEPT ![<<req[q].repo, req[q].to>>] = req[q].role] ELSE roles
    /\ End(q)
    /\ UNCHANGED <<orgs, repos, members, invites, grants>>

handleDeleteRole(q, r, x, to) ==
    /\ RBACMiddleware(r, x, "roles")
    /\ Begin(q, [op |-> "deleteRole", repo |-> r, to |-> to])

DeleteRole(q) ==
    /\ req[q].op = "deleteRole"
    /\ roles' = [roles EXCEPT ![<<req[q].repo, req[q].to>>] = None]
    /\ End(q)
    /\ UNCHANGED <<orgs, repos, members, invites, grants>>

(* The second statement fails, the connection goes: nothing is written. *)
StatementFails(q) ==
    /\ req[q] # Idle
    /\ End(q)
    /\ UNCHANGED tables

-----------------------------------------------------------------------------
(* Web forms that make the same calls: the invitation page looks the token  *)
(* up before it accepts, deletions want the name typed in.                  *)
webAcceptInvite(q, o, i, x) == i \in InvitesOf(o) /\ AcceptInviteSelect(q, i, x)
webCreateOrg(q, name, x) == name \in Orgs /\ CreateOrg(q, name, x)
webCreateRepo(q, o, r, x) == o = OwnerOf[r] /\ CreateRepo(q, r, x)
webDeleteOrg(q, o, confirm) == confirm = o /\ DeleteOrgCheck(q, o)
webDeleteRepo(r, confirm) == confirm = r /\ DeleteRepo(r)

WebForm(q, o, x) ==
    \/ webCreateOrg(q, o, x)
    \/ \E confirm \in Orgs : webDeleteOrg(q, o, confirm)
    \/ \E i \in Invites : webAcceptInvite(q, o, i, x)
    \/ \E r \in Repos : webCreateRepo(q, o, r, x)

OrgRequest(q, o, x) ==
    \/ CreateOrg(q, o, x)
    \/ DeleteOrgCheck(q, o)
    \/ \E to \in Identities : \/ handleRemoveOrgMember(q, o, x, to)
                              \/ \E role \in OrgRole : handleAddOrgMember(q, o, x, to, role)
    \/ \E i \in Invites : \/ handleRevokeInvite(q, o, x, i)
                          \/ \E to \in Identities, role \in OrgRole :
                                 handleCreateInvite(q, o, x, i, to, role)

RepoRequest(q, r, x) ==
    \/ CreateRepo(q, r, x)
    \/ \E to \in Identities : \/ handleDeleteRole(q, r, x, to)
                              \/ \E role \in Grantable : handleSetRole(q, r, x, to, role)

FinishAccess(q) ==
    \/ AddOrgMember(q) \/ RemoveOrgMember(q) \/ DeleteOrgClear(q) \/ DeleteOrgCommit(q)
    \/ CreateInvite(q) \/ AcceptInvite(q) \/ RevokeInvite(q) \/ SetRole(q) \/ DeleteRole(q)

AccessNext ==
    \/ \E q \in Requests :
          \/ \E x \in Identities : \/ \E o \in Orgs : OrgRequest(q, o, x) \/ WebForm(q, o, x)
                                   \/ \E r \in Repos : RepoRequest(q, r, x)
                                   \/ \E i \in Invites : AcceptInviteSelect(q, i, x)
          \/ FinishAccess(q) \/ StatementFails(q)
    \/ \E i \in Invites : Expire(i)
    \/ \E r \in Repos : DeleteRepo(r) \/ \E confirm \in Repos : webDeleteRepo(r, confirm)

AccessSpec == AccessInit /\ [][AccessNext]_accessVars

-----------------------------------------------------------------------------
InviteRow == [org : Orgs, email : Identities, role : OrgRole,
              accepted : BOOLEAN, expired : BOOLEAN] \cup {None}

(* Tables and histories have their shape. *)
AccessTypeOK ==
    /\ orgs \subseteq Orgs /\ repos \subseteq Repos
    /\ members \in [Orgs \X Identities -> OrgRole \cup {None}]
    /\ roles \in [Repos \X Identities -> RepoRole \cup {None}]
    /\ invites \in [Invites -> InviteRow]
    /\ grants \in [Invites -> Nat]

(* An invitation makes someone a member at most once, however often it is   *)
(* accepted at the same time, and never again after the member was removed  *)
(* or the invitation revoked (AcceptInvite's row lock and accepted_at).     *)
InviteGrantsOnce ==
    \A i \in Invites : /\ grants[i] <= 1
                       /\ grants[i] = 1 /\ invites[i] # None => invites[i].accepted

(* Members, invitations and repositories belong to an org that exists, and  *)
(* roles to an existing repository, while DeleteOrg's statements interleave *)
(* with requests that add such rows.                                        *)
RowsHaveTheirParent ==
    /\ \A r \in repos : OwnerOf[r] \in orgs
    /\ \A m \in DOMAIN members : members[m] # None => m[1] \in orgs
    /\ \A i \in Invites : invites[i] # None => invites[i].org \in orgs
    /\ \A m \in DOMAIN roles : roles[m] # None => m[1] \in repos

(* With a bootstrap admin configured, every repository has someone who may  *)
(* manage its roles, whatever roles and memberships were set and removed:   *)
(* HasAdmin and GetRole look at the same rows.                              *)
RepoAdministrable ==
    BootstrapAdmin # None =>
        \A r \in repos : \E x \in Identities : RBACMiddleware(r, x, "roles")

(* The arguments that a request carries from its first statement to its     *)
(* second.                                                                  *)
RequestFits(r) ==
    /\ r.op = "addMember" => r.org \in Orgs /\ r.to \in Identities /\ r.role \in OrgRole
    /\ r.op = "removeMember" => r.org \in Orgs /\ r.to \in Identities
    /\ r.op \in {"deleteOrgOpen", "deleteOrg"} => r.org \in Orgs
    /\ r.op = "invite" => r.org \in Orgs /\ r.inv \in Invites /\ r.row \in InviteRow
                          /\ r.row.org = r.org
    /\ r.op = "accept" => r.inv \in Invites /\ r.to \in Identities
    /\ r.op = "revoke" => r.org \in Orgs /\ r.inv \in Invites
    /\ r.op = "setRole" => r.repo \in Repos /\ r.to \in Identities /\ r.role \in RepoRole
    /\ r.op = "deleteRole" => r.repo \in Repos /\ r.to \in Identities

(* What keeps an invitation from counting twice: the row that an            *)
(* AcceptInvite has locked is there, not accepted and locked by nobody      *)
(* else, and a token that is about to be inserted was never used.           *)
InviteClaimed(row, granted) == row # None /\ ~row.accepted /\ granted = 0
InviteUnused(row, granted) == row = None /\ granted = 0
RequestsFit ==
    /\ DOMAIN req = Requests
    /\ \A q \in Requests :
          /\ RequestFits(req[q])
          /\ req[q].op = "accept" => InviteClaimed(invites[req[q].inv], grants[req[q].inv])
          /\ req[q].op = "invite" => InviteUnused(invites[req[q].inv], grants[req[q].inv])
    /\ \A q \in Requests, p \in Requests :
          q # p => /\ req[q].op = "accept" /\ req[p].op = "accept" => req[q].inv # req[p].inv
                   /\ req[q].op = "invite" /\ req[p].op = "invite" => req[q].inv # req[p].inv
                   /\ req[q].op = "accept" /\ req[p].op = "deleteOrg" => req[q].inv \notin req[p].invites

(* The rows have their types, and an invitation counts once.                *)
InvitesSound == AccessTypeOK /\ RequestsFit /\ InviteGrantsOnce
===============================================================================
