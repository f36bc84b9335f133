---------------------------- MODULE ServiceProofs ----------------------------
(***************************************************************************)
(* Proofs about the server's handlers around the branch store: Access,     *)
(* Proposals and Issues, for any number of organisations, repositories,    *)
(* branches, issues, callers and requests that overlap.                    *)
(***************************************************************************)
EXTENDS Access, Issues, Proposals, FiniteSetTheorems, TLAPS

USE AccessAssumption

-----------------------------------------------------------------------------
(* Requests and the invitations they work on.                              *)

\* The invitations change in a way that suits the requests of the other slots.
OthersUndisturbed(q) ==
    \A p \in Requests : p # q =>
        /\ req[p].op = "accept" => InviteClaimed(invites'[req[p].inv], grants'[req[p].inv])
        /\ req[p].op = "invite" => InviteUnused(invites'[req[p].inv], grants'[req[p].inv])

\* Request r works on no invitation that another slot is working on.
NoOverlap(q, r) ==
    \A p \in Requests : p # q =>
        /\ req[p].op = "accept" /\ r.op = "accept" => req[p].inv # r.inv
        /\ req[p].op = "invite" /\ r.op = "invite" => req[p].inv # r.inv
        /\ req[p].op = "accept" /\ r.op = "deleteOrg" => req[p].inv \notin r.invites
        /\ r.op = "accept" /\ req[p].op = "deleteOrg" => r.inv \notin req[p].invites

\* The requests fit again when one slot gets a request that fits the others and
\* the tables change in a way that suits the others.
LEMMA OneRequestMoves ==
    ASSUME RequestsFit, NEW q \in Requests, NEW r, req' = [req EXCEPT ![q] = r], RequestFits(r),
           r.op = "accept" => InviteClaimed(invites'[r.inv], grants'[r.inv]),
           r.op = "invite" => InviteUnused(invites'[r.inv], grants'[r.inv]),
           OthersUndisturbed(q), NoOverlap(q, r)
    PROVE  RequestsFit'
<1>1. DOMAIN req = Requests
    BY DEF RequestsFit
<1>2. DOMAIN req' = Requests /\ req'[q] = r /\ \A p \in Requests : p # q => req'[p] = req[p]
    BY <1>1
<1>3. \A p \in Requests :
        /\ RequestFits(req'[p])
        /\ req'[p].op = "accept" => InviteClaimed(invites'[req'[p].inv], grants'[req'[p].inv])
        /\ req'[p].op = "invite" => InviteUnused(invites'[req'[p].inv], grants'[req'[p].inv])
    BY <1>2 DEF RequestsFit, OthersUndisturbed
<1>4. \A p \in Requests, s \in Requests :
        s # p => /\ req'[s].op = "accept" /\ req'[p].op = "accept" => req'[s].inv # req'[p].inv
                 /\ req'[s].op = "invite" /\ req'[p].op = "invite" => req'[s].inv # req'[p].inv
                 /\ req'[s].op = "accept" /\ req'[p].op = "deleteOrg" => req'[s].inv \notin req'[p].invites
    BY <1>2 DEF RequestsFit, NoOverlap
<1> QED BY <1>2, <1>3, <1>4 DEF RequestsFit

\* A request ends.
LEMMA RequestEnds ==
    ASSUME RequestsFit, NEW q \in Requests, End(q), OthersUndisturbed(q)
    PROVE  RequestsFit'
<1>1. PICK r : r = Idle
    OBVIOUS
<1>2. r.op = "idle"
    BY <1>1 DEF Idle
<1>3. RequestFits(r) /\ req' = [req EXCEPT ![q] = r]
    BY <1>1, <1>2 DEF RequestFits, End
<1>4. NoOverlap(q, r)
    BY <1>2 DEF NoOverlap
<1> QED BY <1>2, <1>3, <1>4, OneRequestMoves

\* The inductive invariant: the properties, and what the requests carry.
AccessSound == InvitesSound /\ RowsHaveTheirParent

\* Statements that read: a handler's first step.
LEMMA RequestBegins ==
    ASSUME AccessSound, NEW q \in Requests, NEW r, req' = [req EXCEPT ![q] = r], UNCHANGED tables, RequestFits(r),
           r.op = "accept" => InviteClaimed(invites[r.inv], grants[r.inv]) /\ ~InviteLocked(r.inv),
           r.op = "invite" => InviteUnused(invites[r.inv], grants[r.inv]) /\
               \A p \in Requests : req[p].op = "invite" => req[p].inv # r.inv,
           r.op = "deleteOrg" => \A i \in r.invites : ~InviteLocked(i)
    PROVE  AccessSound'
<1>1. invites' = invites /\ grants' = grants
    BY DEF tables
<1>2. RequestsFit
    BY DEF AccessSound, InvitesSound
<1>3. RequestsFit'
    <2>1. OthersUndisturbed(q) /\ NoOverlap(q, r)
        BY <1>1, <1>2 DEF RequestsFit, InviteLocked, OthersUndisturbed, NoOverlap
    <2>2. r.op = "accept" => InviteClaimed(invites'[r.inv], grants'[r.inv])
        BY <1>1
    <2>3. r.op = "invite" => InviteUnused(invites'[r.inv], grants'[r.inv])
        BY <1>1
    <2> QED BY <1>2, <2>1, <2>2, <2>3, OneRequestMoves
<1>4. (AccessTypeOK /\ InviteGrantsOnce /\ RowsHaveTheirParent)'
    BY DEF AccessSound, InvitesSound, AccessTypeOK, InviteGrantsOnce, RowsHaveTheirParent, tables
<1> QED BY <1>3, <1>4 DEF AccessSound, InvitesSound

-----------------------------------------------------------------------------
(* One lemma for each kind of statement.                                   *)

\* CreateOrg: the first of two statements, the second adds the owner.
LEMMA OrgCreated ==
    ASSUME AccessSound, NEW q \in Requests, NEW o \in Orgs, NEW x \in Identities, CreateOrg(q, o, x)
    PROVE  AccessSound'
<1>1. PICK r : r = [op |-> "addMember", org |-> o, to |-> x, role |-> "owner"]
    OBVIOUS
<1>2. r.op = "addMember" /\ RequestFits(r)
    BY <1>1 DEF RequestFits, OrgRole
<1>3. /\ req' = [req EXCEPT ![q] = r] /\ orgs' = orgs \cup {o}
      /\ UNCHANGED <<repos, members, roles, invites, grants>>
    BY <1>1 DEF CreateOrg
<1>4. OthersUndisturbed(q) /\ NoOverlap(q, r)
    BY <1>2, <1>3 DEF AccessSound, InvitesSound, RequestsFit, OthersUndisturbed, NoOverlap
<1>5. RequestsFit'
    BY <1>2, <1>3, <1>4, OneRequestMoves DEF AccessSound, InvitesSound
<1>6. (AccessTypeOK /\ InviteGrantsOnce /\ RowsHaveTheirParent)'
    BY <1>3 DEF AccessSound, InvitesSound, AccessTypeOK, InviteGrantsOnce, RowsHaveTheirParent
<1> QED BY <1>5, <1>6 DEF AccessSound, InvitesSound

\* CreateRepo: the first of two statements, the second adds the admin.
LEMMA RepoCreated ==
    ASSUME AccessSound, NEW q \in Requests, NEW o \in Repos, NEW x \in Identities, CreateRepo(q, o, x)
    PROVE  AccessSound'
<1>1. PICK r : r = [op |-> "setRole", repo |-> o, to |-> x, role |-> "admin"]
    OBVIOUS
<1>2. r.op = "setRole" /\ RequestFits(r)
    BY <1>1 DEF RequestFits, RepoRole
<1>3. /\ req' = [req EXCEPT ![q] = r] /\ repos' = repos \cup {o} /\ OwnerOf[o] \in orgs
      /\ UNCHANGED <<orgs, members, roles, invites, grants>>
    BY <1>1 DEF CreateRepo
<1>4. OthersUndisturbed(q) /\ NoOverlap(q, r)
    BY <1>2, <1>3 DEF AccessSound, InvitesSound, RequestsFit, OthersUndisturbed, NoOverlap
<1>5. RequestsFit'
    BY <1>2, <1>3, <1>4, OneRequestMoves DEF AccessSound, InvitesSound
<1>6. (AccessTypeOK /\ InviteGrantsOnce /\ RowsHaveTheirParent)'
    BY <1>3 DEF AccessSound, InvitesSound, AccessTypeOK, InviteGrantsOnce, RowsHaveTheirParent
<1> QED BY <1>5, <1>6 DEF AccessSound, InvitesSound

\* The handlers that only authorise their caller in their first step.
LEMMA OrgRequestBegins ==
    ASSUME AccessSound, NEW q \in Requests, NEW o \in Orgs, NEW x \in Identities, OrgRequest(q, o, x)
    PROVE  AccessSound'
<1>1. ASSUME DeleteOrgCheck(q, o)
      PROVE  AccessSound'
    <2>1. PICK r : r = [op |-> "deleteOrgOpen", org |-> o]
        OBVIOUS
    <2>2. r.op = "deleteOrgOpen" /\ RequestFits(r)
        BY <2>1 DEF RequestFits
    <2> QED BY <1>1, <2>1, <2>2, RequestBegins DEF DeleteOrgCheck, Begin
<1>2. ASSUME NEW to \in Identities, handleRemoveOrgMember(q, o, x, to)
      PROVE  AccessSound'
    <2>1. PICK r : r = [op |-> "removeMember", org |-> o, to |-> to]
        OBVIOUS
    <2>2. r.op = "removeMember" /\ RequestFits(r)
        BY <2>1 DEF RequestFits
    <2> QED BY <1>2, <2>1, <2>2, RequestBegins DEF handleRemoveOrgMember, Begin
<1>3. ASSUME NEW to \in Identities, NEW role \in OrgRole, handleAddOrgMember(q, o, x, to, role)
      PROVE  AccessSound'
    <2>1. PICK r : r = [op |-> "addMember", org |-> o, to |-> to, role |-> role]
        OBVIOUS
    <2>2. r.op = "addMember" /\ RequestFits(r)
        BY <2>1 DEF RequestFits
    <2> QED BY <1>3, <2>1, <2>2, RequestBegins DEF handleAddOrgMember, Begin
<1>4. ASSUME NEW i \in Invites, handleRevokeInvite(q, o, x, i)
      PROVE  AccessSound'
    <2>1. PICK r : r = [op |-> "revoke", org |-> o, inv |-> i]
        OBVIOUS
    <2>2. r.op = "revoke" /\ RequestFits(r)
        BY <2>1 DEF RequestFits
    <2> QED BY <1>4, <2>1, <2>2, RequestBegins DEF handleRevokeInvite, Begin
<1>5. ASSUME NEW i \in Invites, NEW to \in Identities, NEW role \in OrgRole,
             handleCreateInvite(q, o, x, i, to, role)
      PROVE  AccessSound'
    <2>1. PICK row : row = [org |-> o, email |-> to, role |-> role, accepted |-> FALSE, expired |-> FALSE]
        OBVIOUS
    <2>2. PICK r : r = [op |-> "invite", org |-> o, inv |-> i, row |-> row]
        OBVIOUS
    <2>3. row \in InviteRow /\ row.org = o
        BY <2>1 DEF InviteRow
    <2>4. r.op = "invite" /\ r.inv = i /\ RequestFits(r)
        BY <2>2, <2>3 DEF RequestFits
    <2>5. /\ req' = [req EXCEPT ![q] = r] /\ UNCHANGED tables
          /\ InviteUnused(invites[i], grants[i])
          /\ \A p \in Requests : req[p].op = "invite" => req[p].inv # i
        BY <1>5, <2>1, <2>2 DEF handleCreateInvite, Begin, InviteUnused
    <2> QED BY <2>4, <2>5, RequestBegins
<1>6. CASE CreateOrg(q, o, x)
    BY <1>6, OrgCreated
<1> QED BY <1>1, <1>2, <1>3, <1>4, <1>5, <1>6 DEF OrgRequest

(* A request to a repository is authorised before it writes. *)
LEMMA RepoRequestBegins ==
    ASSUME AccessSound, NEW q \in Requests, NEW o \in Repos, NEW x \in Identities, RepoRequest(q, o, x)
    PROVE  AccessSound'
<1>1. ASSUME NEW to \in Identities, handleDeleteRole(q, o, x, to)
      PROVE  AccessSound'
    <2>1. PICK r : r = [op |-> "deleteRole", repo |-> o, to |-> to]
        OBVIOUS
    <2>2. r.op = "deleteRole" /\ RequestFits(r)
        BY <2>1 DEF RequestFits
    <2> QED BY <1>1, <2>1, <2>2, RequestBegins DEF handleDeleteRole, Begin
<1>2. ASSUME NEW to \in Identities, NEW role \in Grantable, handleSetRole(q, o, x, to, role)
      PROVE  AccessSound'
    <2>1. PICK r : r = [op |-> "setRole", repo |-> o, to |-> to, role |-> role]
        OBVIOUS
    <2>2. r.op = "setRole" /\ RequestFits(r)
        BY <2>1 DEF RequestFits, RepoRole
    <2> QED BY <1>2, <2>1, <2>2, RequestBegins DEF handleSetRole, Begin
<1> QED BY <1>1, <1>2, RepoCreated DEF RepoRequest

\* AcceptInvite up to its row lock.
LEMMA InviteSelected ==
    ASSUME AccessSound, NEW q \in Requests, NEW i \in Invites, NEW x \in Identities, AcceptInviteSelect(q, i, x)
    PROVE  AccessSound'
<1>1. PICK r : r = [op |-> "accept", inv |-> i, to |-> x]
    OBVIOUS
<1>2. r.op = "accept" /\ r.inv = i /\ RequestFits(r)
    BY <1>1 DEF RequestFits
<1>3. grants[i] \in Nat /\ grants[i] # 1 /\ grants[i] <= 1
    BY DEF AccessSound, InvitesSound, InviteGrantsOnce, AccessTypeOK, AcceptInviteSelect
<1>4. InviteClaimed(invites[i], grants[i]) /\ ~InviteLocked(i)
    BY <1>3 DEF AcceptInviteSelect, InviteClaimed
<1>5. req' = [req EXCEPT ![q] = r] /\ UNCHANGED tables
    BY <1>1 DEF AcceptInviteSelect, Begin
<1> QED BY <1>2, <1>4, <1>5, RequestBegins

(* A web form is authorised before it writes. *)
LEMMA WebFormBegins ==
    ASSUME AccessSound, NEW q \in Requests, NEW o \in Orgs, NEW x \in Identities, WebForm(q, o, x)
    PROVE  AccessSound'
<1>1. CASE \E confirm \in Orgs : webDeleteOrg(q, o, confirm)
    BY <1>1, OrgRequestBegins DEF webDeleteOrg, OrgRequest
<1> QED BY <1>1, OrgCreated, RepoCreated, InviteSelected DEF WebForm, webCreateOrg, webAcceptInvite, webCreateRepo

\* DeleteOrg's second statement: it locks the rows it deletes.
LEMMA OrgCleared ==
    ASSUME AccessSound, NEW q \in Requests, DeleteOrgClear(q)
    PROVE  AccessSound'
<1>1. PICK r : r = [op |-> "deleteOrg", org |-> req[q].org,
                    members |-> MembersOf(req[q].org), invites |-> InvitesOf(req[q].org)]
    OBVIOUS
<1>2. req[q].org \in Orgs
    BY DEF AccessSound, InvitesSound, RequestsFit, RequestFits, DeleteOrgClear
<1>3. r.op = "deleteOrg" /\ r.invites = InvitesOf(req[q].org) /\ RequestFits(r)
    BY <1>1, <1>2 DEF RequestFits
<1>4. req' = [req EXCEPT ![q] = r] /\ UNCHANGED tables
    BY <1>1 DEF DeleteOrgClear
<1>5. \A i \in r.invites : ~InviteLocked(i)
    BY <1>3 DEF DeleteOrgClear
<1> QED BY <1>3, <1>4, <1>5, RequestBegins

\* A statement that ends its request and leaves the invitations alone.
LEMMA InvitesLeftAlone ==
    ASSUME AccessSound, NEW q \in Requests, End(q), UNCHANGED <<invites, grants>>
    PROVE  RequestsFit' /\ InviteGrantsOnce'
<1>1. OthersUndisturbed(q)
    BY DEF AccessSound, InvitesSound, RequestsFit, OthersUndisturbed
<1> QED BY <1>1, RequestEnds DEF AccessSound, InvitesSound, InviteGrantsOnce

\* The statements on members, and the failures.
LEMMA MembersChange ==
    ASSUME AccessSound, NEW q \in Requests, AddOrgMember(q) \/ RemoveOrgMember(q) \/ StatementFails(q)
    PROVE  AccessSound'
<1>1. End(q) /\ UNCHANGED <<orgs, repos, roles, invites, grants>>
    BY DEF AddOrgMember, RemoveOrgMember, StatementFails, tables
<1>2. RequestsFit' /\ InviteGrantsOnce'
    BY <1>1, InvitesLeftAlone
<1>3. RequestFits(req[q]) /\ AccessTypeOK /\ RowsHaveTheirParent
    BY DEF AccessSound, InvitesSound, RequestsFit
<1>4. ASSUME NEW o \in Orgs, NEW x \in Identities, NEW role \in OrgRole \cup {None}, SetMember(o, x, role),
             role = None \/ o \in orgs
      PROVE  AccessSound'
    <2>1. members' \in [Orgs \X Identities -> OrgRole \cup {None}]
        BY <1>3, <1>4 DEF SetMember, AccessTypeOK
    <2>2. \A m \in DOMAIN members' : members'[m] = IF m = <<o, x>> THEN role ELSE members[m]
        BY <1>3, <1>4, <2>1 DEF SetMember, AccessTypeOK
    <2>3. RowsHaveTheirParent'
        BY <1>1, <1>3, <1>4, <2>1, <2>2 DEF RowsHaveTheirParent, AccessTypeOK
    <2>4. AccessTypeOK'
        BY <1>1, <1>3, <2>1 DEF AccessTypeOK
    <2> QED BY <1>2, <2>3, <2>4 DEF AccessSound, InvitesSound
<1>5. CASE UNCHANGED members
    BY <1>1, <1>2, <1>3, <1>5 DEF AccessTypeOK, RowsHaveTheirParent, AccessSound, InvitesSound
<1>6. CASE AddOrgMember(q)
    BY <1>3, <1>4, <1>5, <1>6 DEF AddOrgMember, RequestFits
<1>7. CASE RemoveOrgMember(q)
    BY <1>3, <1>4, <1>7 DEF RemoveOrgMember, RequestFits
<1>8. CASE StatementFails(q)
    BY <1>5, <1>8 DEF StatementFails, tables
<1> QED BY <1>6, <1>7, <1>8

\* The statements on the roles of a repo.
LEMMA RolesChange ==
    ASSUME AccessSound, NEW q \in Requests, SetRole(q) \/ DeleteRole(q)
    PROVE  AccessSound'
<1>1. End(q) /\ UNCHANGED <<orgs, repos, members, invites, grants>>
    BY DEF SetRole, DeleteRole
<1>2. RequestsFit' /\ InviteGrantsOnce'
    BY <1>1, InvitesLeftAlone
<1>3. RequestFits(req[q]) /\ AccessTypeOK /\ RowsHaveTheirParent
    BY DEF AccessSound, InvitesSound, RequestsFit
<1>4. ASSUME NEW o \in Repos, NEW x \in Identities, NEW role \in RepoRole \cup {None},
             roles' = [roles EXCEPT ![<<o, x>>] = role], role = None \/ o \in repos
      PROVE  AccessSound'
    <2>1. roles' \in [Repos \X Identities -> RepoRole \cup {None}]
        BY <1>3, <1>4 DEF AccessTypeOK
    <2>2. \A m \in DOMAIN roles' : roles'[m] = IF m = <<o, x>> THEN role ELSE roles[m]
        BY <1>3, <1>4, <2>1 DEF AccessTypeOK
    <2>3. RowsHaveTheirParent'
        BY <1>1, <1>3, <1>4, <2>1, <2>2 DEF RowsHaveTheirParent, AccessTypeOK
    <2>4. AccessTypeOK'
        BY <1>1, <1>3, <2>1 DEF AccessTypeOK
    <2> QED BY <1>2, <2>3, <2>4 DEF AccessSound, InvitesSound
<1>5. CASE UNCHANGED roles
    BY <1>1, <1>2, <1>3, <1>5 DEF AccessTypeOK, RowsHaveTheirParent, AccessSound, InvitesSound
<1>6. CASE SetRole(q)
    BY <1>3, <1>4, <1>5, <1>6 DEF SetRole, RequestFits
<1>7. CASE DeleteRole(q)
    BY <1>3, <1>4, <1>7 DEF DeleteRole, RequestFits
<1> QED BY <1>6, <1>7

\* DeleteRepo takes the roles with it.
LEMMA RepoDeleted ==
    ASSUME AccessSound, NEW r \in Repos, DeleteRepo(r)
    PROVE  AccessSound'
<1>1. /\ repos' = repos \ {r} /\ UNCHANGED <<orgs, members, invites, req, grants>>
      /\ roles' = [m \in DOMAIN roles |-> IF m[1] = r THEN None ELSE roles[m]]
    BY DEF DeleteRepo
<1>2. AccessTypeOK /\ RequestsFit /\ InviteGrantsOnce /\ RowsHaveTheirParent
    BY DEF AccessSound, InvitesSound
<1>3. roles' \in [Repos \X Identities -> RepoRole \cup {None}]
    BY <1>1, <1>2 DEF AccessTypeOK
<1>4. AccessTypeOK'
    BY <1>1, <1>2, <1>3 DEF AccessTypeOK
<1>5. RowsHaveTheirParent'
    BY <1>1, <1>2 DEF RowsHaveTheirParent
<1>6. RequestsFit' /\ InviteGrantsOnce'
    BY <1>1, <1>2 DEF RequestsFit, InviteGrantsOnce
<1> QED BY <1>4, <1>5, <1>6 DEF AccessSound, InvitesSound

\* CreateInvite: the token was never used, so nobody else works on it.
LEMMA InviteInserted ==
    ASSUME AccessSound, NEW q \in Requests, CreateInvite(q)
    PROVE  AccessSound'
<1>1. End(q) /\ UNCHANGED <<orgs, repos, members, roles, grants>>
    BY DEF CreateInvite
<1>2. AccessTypeOK /\ RequestsFit /\ InviteGrantsOnce /\ RowsHaveTheirParent
    BY DEF AccessSound, InvitesSound
<1>3. PICK i, row : i = req[q].inv /\ row = req[q].row
    OBVIOUS
<1>4. /\ i \in Invites /\ row \in InviteRow /\ row.org = req[q].org /\ req[q].op = "invite"
      /\ InviteUnused(invites[i], grants[i])
    BY <1>2, <1>3 DEF CreateInvite, RequestsFit, RequestFits
<1>5. CASE invites' = invites
    BY <1>1, <1>2, <1>5, InvitesLeftAlone DEF AccessTypeOK, RowsHaveTheirParent, AccessSound, InvitesSound
<1>6. CASE req[q].org \in orgs /\ invites' = [invites EXCEPT ![i] = row]
    <2>1. /\ invites' \in [Invites -> InviteRow] /\ invites'[i] = row
          /\ \A j \in Invites : j # i => invites'[j] = invites[j]
        BY <1>2, <1>4, <1>6 DEF AccessTypeOK
    <2>2. \A p \in Requests : p # q /\ req[p].op \in {"accept", "invite"} => req[p].inv # i /\ req[p].inv \in Invites
        BY <1>2, <1>3, <1>4 DEF RequestsFit, RequestFits, InviteClaimed, InviteUnused
    <2>3. OthersUndisturbed(q)
        BY <1>1, <1>2, <2>1, <2>2 DEF OthersUndisturbed, RequestsFit
    <2>4. RequestsFit'
        BY <1>1, <1>2, <2>3, RequestEnds
    <2>5. InviteGrantsOnce'
        BY <1>1, <1>2, <1>4, <2>1 DEF InviteGrantsOnce, InviteUnused
    <2>6. RowsHaveTheirParent'
        BY <1>1, <1>2, <1>4, <1>6, <2>1 DEF RowsHaveTheirParent
    <2>7. AccessTypeOK'
        BY <1>1, <1>2, <2>1 DEF AccessTypeOK
    <2> QED BY <2>4, <2>5, <2>6, <2>7 DEF AccessSound, InvitesSound
<1> QED BY <1>3, <1>5, <1>6 DEF CreateInvite

\* Invitations disappear that nobody has locked.
LEMMA InvitesGo ==
    ASSUME AccessSound, NEW q \in Requests, End(q), UNCHANGED grants, NEW gone,
           invites' = [i \in Invites |-> IF i \in gone THEN None ELSE invites[i]],
           \A p \in Requests : p # q /\ req[p].op = "accept" => req[p].inv \notin gone
    PROVE  RequestsFit' /\ InviteGrantsOnce' /\ invites' \in [Invites -> InviteRow]
<1>1. AccessTypeOK /\ RequestsFit /\ InviteGrantsOnce
    BY DEF AccessSound, InvitesSound
<1>2. \A p \in Requests : req[p].op \in {"accept", "invite"} => req[p].inv \in Invites
    BY <1>1 DEF RequestsFit, RequestFits
<1>3. OthersUndisturbed(q)
    BY <1>1, <1>2 DEF OthersUndisturbed, RequestsFit, InviteUnused
<1>4. InviteGrantsOnce'
    BY <1>1 DEF InviteGrantsOnce
<1>5. invites' \in [Invites -> InviteRow]
    <2>1. None \in InviteRow /\ invites \in [Invites -> InviteRow]
        BY <1>1 DEF InviteRow, AccessTypeOK
    <2> QED BY <2>1
<1> QED BY <1>1, <1>3, <1>4, <1>5, RequestEnds

(* A revoked invite is gone with its row. *)
LEMMA InviteRevoked ==
    ASSUME AccessSound, NEW q \in Requests, RevokeInvite(q)
    PROVE  AccessSound'
<1>1. End(q) /\ UNCHANGED <<orgs, repos, members, roles, grants>>
    BY DEF RevokeInvite
<1>2. AccessTypeOK /\ RequestsFit /\ RowsHaveTheirParent
    BY DEF AccessSound, InvitesSound
<1>3. PICK gone \in {{}, {req[q].inv}} : invites' = [i \in Invites |-> IF i \in gone THEN None ELSE invites[i]]
    BY <1>2 DEF RevokeInvite, AccessTypeOK
<1>4. \A p \in Requests : p # q /\ req[p].op = "accept" => req[p].inv \notin gone
    BY <1>3 DEF RevokeInvite, InviteLocked
<1>5. RequestsFit' /\ InviteGrantsOnce' /\ invites' \in [Invites -> InviteRow]
    BY <1>1, <1>3, <1>4, InvitesGo
<1>6. AccessTypeOK' /\ RowsHaveTheirParent'
    BY <1>1, <1>2, <1>3, <1>5 DEF AccessTypeOK, RowsHaveTheirParent
<1> QED BY <1>5, <1>6 DEF AccessSound, InvitesSound

\* DeleteOrg's last statement.  The foreign keys refuse it when a row has come
\* that it did not delete, and its locks have kept the invitations it deletes
\* from being accepted.
LEMMA OrgDeleted ==
    ASSUME AccessSound, NEW q \in Requests, DeleteOrgCommit(q)
    PROVE  AccessSound'
<1>1. End(q) /\ UNCHANGED <<repos, roles, grants>>
    BY DEF DeleteOrgCommit
<1>2. AccessTypeOK /\ RequestsFit /\ RowsHaveTheirParent
    BY DEF AccessSound, InvitesSound
<1>3. CASE UNCHANGED <<orgs, members, invites>>
    <2>1. RequestsFit' /\ InviteGrantsOnce'
        BY <1>1, <1>3, InvitesLeftAlone
    <2>2. AccessTypeOK' /\ RowsHaveTheirParent'
        BY <1>1, <1>2, <1>3 DEF AccessTypeOK, RowsHaveTheirParent
    <2> QED BY <2>1, <2>2 DEF AccessSound, InvitesSound
<1>4. CASE ~UNCHANGED <<orgs, members, invites>>
    <2>1. PICK o, gone : o = req[q].org /\ gone = req[q].invites
        OBVIOUS
    <2>2. /\ \A r \in repos : OwnerOf[r] # o
          /\ InvitesOf(o) = gone
          /\ orgs' = orgs \ {o}
          /\ members' = [m \in DOMAIN members |-> IF m[1] = o THEN None ELSE members[m]]
          /\ invites' = [i \in Invites |-> IF i \in gone THEN None ELSE invites[i]]
          /\ req[q].op = "deleteOrg"
        BY <1>4, <2>1 DEF DeleteOrgCommit
    <2>3. \A p \in Requests : p # q /\ req[p].op = "accept" => req[p].inv \notin gone
        BY <1>2, <2>1, <2>2 DEF RequestsFit
    <2>4. RequestsFit' /\ InviteGrantsOnce' /\ invites' \in [Invites -> InviteRow]
        BY <1>1, <2>2, <2>3, InvitesGo
    <2>5. members' \in [Orgs \X Identities -> OrgRole \cup {None}]
        BY <1>2, <2>2 DEF AccessTypeOK
    <2>6. AccessTypeOK'
        BY <1>1, <1>2, <2>2, <2>4, <2>5 DEF AccessTypeOK
    <2>7. \A m \in DOMAIN members' : members'[m] # None => m[1] \in orgs'
        BY <1>2, <2>2 DEF RowsHaveTheirParent
    <2>8. \A i \in Invites : invites'[i] # None => invites'[i].org \in orgs'
        BY <1>2, <2>2 DEF RowsHaveTheirParent, InvitesOf
    <2>9. RowsHaveTheirParent'
        BY <1>1, <1>2, <2>2, <2>7, <2>8 DEF RowsHaveTheirParent
    <2> QED BY <2>4, <2>6, <2>9 DEF AccessSound, InvitesSound
<1> QED BY <1>3, <1>4

\* An invitation's flag changes.
LEMMA InviteMarked ==
    ASSUME AccessTypeOK, NEW i \in Invites, invites[i] # None, NEW row,
           \/ row = [invites[i] EXCEPT !.accepted = TRUE]
           \/ row = [invites[i] EXCEPT !.expired = TRUE] /\ ~invites[i].accepted,
           invites' = [invites EXCEPT ![i] = row]
    PROVE  /\ invites' \in [Invites -> InviteRow]
           /\ invites'[i].org = invites[i].org /\ invites'[i].accepted = (row.accepted)
           /\ invites[i].org \in Orgs /\ invites[i].role \in OrgRole
           /\ \A j \in Invites : j # i => invites'[j] = invites[j]
<1>1. invites[i] \in [org : Orgs, email : Identities, role : OrgRole, accepted : BOOLEAN, expired : BOOLEAN]
    BY DEF AccessTypeOK, InviteRow
<1>2. row \in [org : Orgs, email : Identities, role : OrgRole, accepted : BOOLEAN, expired : BOOLEAN]
    BY <1>1
<1>3. row.org = invites[i].org
    BY <1>1
<1>4. invites \in [Invites -> InviteRow] /\ row \in InviteRow
    BY <1>2 DEF AccessTypeOK, InviteRow
<1> QED BY <1>1, <1>3, <1>4

\* AcceptInvite after its row lock: it counts the invitation, which had not
\* counted before.
LEMMA InviteAccepted ==
    ASSUME AccessSound, NEW q \in Requests, AcceptInvite(q)
    PROVE  AccessSound'
<1>1. End(q) /\ UNCHANGED <<orgs, repos, roles>>
    BY DEF AcceptInvite
<1>2. AccessTypeOK /\ RequestsFit /\ InviteGrantsOnce /\ RowsHaveTheirParent
    BY DEF AccessSound, InvitesSound
<1>3. PICK i : i = req[q].inv
    OBVIOUS
<1>4. /\ i \in Invites /\ req[q].to \in Identities /\ req[q].op = "accept"
      /\ invites[i] # None /\ grants[i] = 0
    BY <1>2, <1>3 DEF AcceptInvite, RequestsFit, RequestFits, InviteClaimed
<1>5. PICK row : row = [invites[i] EXCEPT !.accepted = TRUE]
    OBVIOUS
<1>6. /\ invites' = [invites EXCEPT ![i] = row] /\ grants' = [grants EXCEPT ![i] = 1]
      /\ SetMember(invites[i].org, req[q].to, invites[i].role)
    BY <1>3, <1>4, <1>5 DEF AcceptInvite
<1>7. /\ invites' \in [Invites -> InviteRow]
      /\ invites'[i].org = invites[i].org /\ invites'[i].accepted = row.accepted
      /\ invites[i].org \in Orgs /\ invites[i].role \in OrgRole
      /\ \A j \in Invites : j # i => invites'[j] = invites[j]
    BY <1>2, <1>4, <1>5, <1>6, InviteMarked
<1>8. row.accepted = TRUE
    <2>1. invites[i] \in [org : Orgs, email : Identities, role : OrgRole, accepted : BOOLEAN, expired : BOOLEAN]
        BY <1>2, <1>4 DEF AccessTypeOK, InviteRow
    <2> QED BY <1>5, <2>1
<1>9. /\ grants' \in [Invites -> Nat] /\ grants'[i] = 1
      /\ \A j \in Invites : j # i => grants'[j] = grants[j]
    BY <1>2, <1>4, <1>6 DEF AccessTypeOK
<1>10. \A p \in Requests : p # q /\ req[p].op \in {"accept", "invite"} => req[p].inv # i /\ req[p].inv \in Invites
    BY <1>2, <1>3, <1>4 DEF RequestsFit, RequestFits, InviteUnused
<1>11. RequestsFit'
    <2>1. OthersUndisturbed(q)
        BY <1>2, <1>7, <1>9, <1>10 DEF OthersUndisturbed, RequestsFit
    <2> QED BY <1>1, <1>2, <2>1, RequestEnds
<1>12. InviteGrantsOnce'
    BY <1>2, <1>7, <1>8, <1>9 DEF InviteGrantsOnce
<1>13. members' \in [Orgs \X Identities -> OrgRole \cup {None}]
    BY <1>2, <1>4, <1>6, <1>7 DEF AccessTypeOK, SetMember
<1>14. AccessTypeOK'
    BY <1>1, <1>2, <1>7, <1>9, <1>13 DEF AccessTypeOK
<1>15. \A m \in DOMAIN members' : members'[m] # None => m[1] \in orgs
    <2>1. \A m \in DOMAIN members' : m # <<invites[i].org, req[q].to>> => members'[m] = members[m]
        BY <1>2, <1>6, <1>13 DEF AccessTypeOK, SetMember
    <2> QED BY <1>2, <1>4, <1>13, <2>1 DEF RowsHaveTheirParent, AccessTypeOK
<1>16. RowsHaveTheirParent'
    BY <1>1, <1>2, <1>4, <1>7, <1>15 DEF RowsHaveTheirParent
<1> QED BY <1>11, <1>12, <1>14, <1>16 DEF AccessSound, InvitesSound

(* An invite expires. *)
LEMMA InviteExpired ==
    ASSUME AccessSound, NEW i \in Invites, Expire(i)
    PROVE  AccessSound'
<1>1. /\ invites[i] # None /\ ~invites[i].accepted /\ ~InviteLocked(i)
      /\ UNCHANGED <<orgs, repos, members, roles, req, grants>>
    BY DEF Expire
<1>2. AccessTypeOK /\ RequestsFit /\ InviteGrantsOnce /\ RowsHaveTheirParent
    BY DEF AccessSound, InvitesSound
<1>3. PICK row : row = [invites[i] EXCEPT !.expired = TRUE]
    OBVIOUS
<1>4. invites' = [invites EXCEPT ![i] = row]
    BY <1>3 DEF Expire
<1>5. /\ invites' \in [Invites -> InviteRow]
      /\ invites'[i].org = invites[i].org
      /\ \A j \in Invites : j # i => invites'[j] = invites[j]
    BY <1>1, <1>2, <1>3, <1>4, InviteMarked
<1>6. grants[i] # 1
    BY <1>1, <1>2 DEF InviteGrantsOnce
<1>7. InviteGrantsOnce'
    BY <1>1, <1>2, <1>5, <1>6 DEF InviteGrantsOnce
<1>8. \A p \in Requests : req[p].op \in {"accept", "invite"} => req[p].inv # i /\ req[p].inv \in Invites
    BY <1>1, <1>2 DEF RequestsFit, RequestFits, InviteUnused, InviteLocked
<1>9. RequestsFit'
    BY <1>1, <1>2, <1>5, <1>8 DEF RequestsFit
<1>10. AccessTypeOK' /\ RowsHaveTheirParent'
    BY <1>1, <1>2, <1>5 DEF AccessTypeOK, RowsHaveTheirParent
<1> QED BY <1>7, <1>9, <1>10 DEF AccessSound, InvitesSound

-----------------------------------------------------------------------------
(* The theorems about Access.                                              *)

LEMMA AccessSoundStep == AccessSound /\ [AccessNext]_accessVars => AccessSound'
<1> SUFFICES ASSUME AccessSound, [AccessNext]_accessVars PROVE AccessSound'
    OBVIOUS
<1>1. CASE UNCHANGED accessVars
    BY <1>1 DEF accessVars, AccessSound, InvitesSound, AccessTypeOK, RequestsFit, InviteGrantsOnce,
                RowsHaveTheirParent
<1>2. ASSUME NEW q \in Requests, NEW x \in Identities,
             \/ \E o \in Orgs : OrgRequest(q, o, x) \/ WebForm(q, o, x)
             \/ \E r \in Repos : RepoRequest(q, r, x)
             \/ \E i \in Invites : AcceptInviteSelect(q, i, x)
      PROVE  AccessSound'
    BY <1>2, OrgRequestBegins, WebFormBegins, RepoRequestBegins, InviteSelected
<1>3. ASSUME NEW q \in Requests, FinishAccess(q) \/ StatementFails(q)
      PROVE  AccessSound'
    BY <1>3, MembersChange, OrgCleared, OrgDeleted, InviteInserted, InviteAccepted, InviteRevoked, RolesChange
    DEF FinishAccess
<1>4. ASSUME NEW r \in Repos, DeleteRepo(r) \/ \E confirm \in Repos : webDeleteRepo(r, confirm)
      PROVE  AccessSound'
    BY <1>4, RepoDeleted DEF webDeleteRepo
<1> QED BY <1>1, <1>2, <1>3, <1>4, InviteExpired DEF AccessNext

(* The empty tables satisfy the invariant. *)
LEMMA AccessSoundInit == AccessInit => AccessSound
<1> SUFFICES ASSUME AccessInit PROVE AccessSound
    OBVIOUS
<1>1. AccessTypeOK /\ InviteGrantsOnce /\ RowsHaveTheirParent
    BY DEF AccessInit, AccessTypeOK, InviteRow, InviteGrantsOnce, RowsHaveTheirParent
<1>2. PICK r : r = Idle
    OBVIOUS
<1>3. r.op = "idle" /\ RequestFits(r) /\ req = [q \in Requests |-> r]
    BY <1>2 DEF Idle, RequestFits, AccessInit
<1>4. RequestsFit
    BY <1>3 DEF RequestsFit
<1> QED BY <1>1, <1>4 DEF AccessSound, InvitesSound

\* InvitesSound: an invitation makes someone a member at most once, however its
\* acceptances, revocations and the deletion of its org overlap.
THEOREM InvitesHold == AccessSpec => []InvitesSound
<1>1. AccessSound => InvitesSound
    BY DEF AccessSound
<1> QED BY <1>1, AccessSoundInit, AccessSoundStep, PTL DEF AccessSpec

\* RowsHaveTheirParent: no interleaving of DeleteOrg with the requests that add
\* members, invitations and repositories leaves a row without its parent.
THEOREM ParentsHold == AccessSpec => []RowsHaveTheirParent
<1>1. AccessSound => RowsHaveTheirParent
    BY DEF AccessSound
<1> QED BY <1>1, AccessSoundInit, AccessSoundStep, PTL DEF AccessSpec

\* RepoAdministrable: HasAdmin, which closes the bootstrap admin's way in, and
\* GetRole, which opens everyone else's, look at the same rows.
THEOREM AdministrableHolds == AccessSpec => []RepoAdministrable
<1>1. AccessSound => RepoAdministrable
    <2> SUFFICES ASSUME BootstrapAdmin # None, NEW r \in repos
                 PROVE  \E x \in Identities : RBACMiddleware(r, x, "roles")
        BY DEF RepoAdministrable
    <2>1. CASE ~HasAdmin(r)
        BY <2>1 DEF RBACMiddleware
    <2>2. ASSUME NEW x \in Identities, roles[<<r, x>>] = "admin"
          PROVE  RBACMiddleware(r, x, "roles")
        <3>1. GetRole(r, x) = "admin"
            BY <2>2 DEF GetRole
        <3> QED BY <2>2, <3>1 DEF RBACMiddleware, roleAllows, AdminEndpoints
    <2> QED BY <2>1, <2>2 DEF HasAdmin
<1> QED BY <1>1, AccessSoundInit, AccessSoundStep, PTL DEF AccessSpec

-----------------------------------------------------------------------------
(* Proposals: what a step does to the handlers that wait.                  *)

\* What SelfApproval looked at when a counted approval was given still holds.
NoneSinceBase ==
    \A r \in reviews :
        r.approve /\ r.seq = br[r.b].head /\ br[r.b].status = "active"
        => ~\E c \in onBranch[r.b] : c[1] > br[r.b].base /\ c[2] = r.by

\* The inductive invariant.
PropSound == ProposalsMatchBranches /\ NoneSinceBase /\ OlderReplayed

\* One caller's handler changes; no row goes and no branch is unmerged.
LEMMA HandlersKeepFitting ==
    ASSUME HandlersFit, NEW u \in People, NEW r, hreq' = [hreq EXCEPT ![u] = r],
           HandlerFits(r, props', br'), DOMAIN props \subseteq DOMAIN props',
           \A b \in PBranches : br[b].status = "merged" => br'[b].status = "merged"
    PROVE  HandlersFit'
<1>1. DOMAIN hreq = People /\ \A v \in People : HandlerFits(hreq[v], props, br)
    BY DEF HandlersFit
<1>2. \A v \in People : hreq'[v] = IF v = u THEN r ELSE hreq[v]
    BY <1>1
<1>3. \A v \in People : HandlerFits(hreq[v], props', br')
    BY <1>1 DEF HandlerFits
<1>4. \A v \in People : HandlerFits(hreq'[v], props', br')
    BY <1>2, <1>3
<1> QED BY <1>1, <1>4 DEF HandlersFit

\* A proposal that is open on a merged branch was so before, or is late, or its
\* branch's merge handler is just coming to it.
OpenAccounted(u, r) ==
    \A i \in DOMAIN props' :
        props'[i].state = "open" /\ br'[props'[i].b].status = "merged" =>
            \/ /\ i \in DOMAIN props /\ props[i].state = "open" /\ br[props[i].b].status = "merged"
               /\ props[i].b = props'[i].b /\ props[i].late = props'[i].late
               /\ hreq[u].pc = "merged" => hreq[u].b # props[i].b \/ props[i].b \in unlinked'
            \/ props'[i].late
            \/ r.pc = "merged" /\ r.b = props'[i].b

\* The merge handlers that have yet to mark their proposal go on waiting, and a
\* proposal that becomes one of an open proposal on a merged branch is late or
\* has such a handler.
LEMMA StillExplained ==
    ASSUME HandlersFit, OpenOnMergedExplained, NEW u \in People, NEW r, hreq' = [hreq EXCEPT ![u] = r],
           unlinked \subseteq unlinked', OpenAccounted(u, r)
    PROVE  OpenOnMergedExplained'
<1>1. DOMAIN hreq = People
    BY DEF HandlersFit
<1>2. hreq'[u] = r /\ \A v \in People : v # u => hreq'[v] = hreq[v]
    BY <1>1
<1> SUFFICES ASSUME NEW i \in DOMAIN props', props'[i].state = "open", br'[props'[i].b].status = "merged"
             PROVE  \/ props'[i].late \/ props'[i].b \in unlinked'
                    \/ \E v \in People : hreq'[v].pc = "merged" /\ hreq'[v].b = props'[i].b
    BY DEF OpenOnMergedExplained
<1>a. \/ /\ i \in DOMAIN props /\ props[i].state = "open" /\ br[props[i].b].status = "merged"
         /\ props[i].b = props'[i].b /\ props[i].late = props'[i].late
         /\ hreq[u].pc = "merged" => hreq[u].b # props[i].b \/ props[i].b \in unlinked'
      \/ props'[i].late
      \/ r.pc = "merged" /\ r.b = props'[i].b
    BY DEF OpenAccounted
<1>3. CASE props'[i].late
    BY <1>3
<1>4. CASE r.pc = "merged" /\ r.b = props'[i].b
    BY <1>2, <1>4
<1>5. CASE /\ i \in DOMAIN props /\ props[i].state = "open" /\ br[props[i].b].status = "merged"
           /\ props[i].b = props'[i].b /\ props[i].late = props'[i].late
           /\ hreq[u].pc = "merged" => hreq[u].b # props[i].b \/ props[i].b \in unlinked'
    <2>1. \/ props[i].late \/ props[i].b \in unlinked
          \/ \E v \in People : hreq[v].pc = "merged" /\ hreq[v].b = props[i].b
        BY <1>5 DEF OpenOnMergedExplained
    <2> QED BY <1>2, <1>5, <2>1
<1> QED BY <1>a, <1>3, <1>4, <1>5

\* A step that changes no branch and no proposal.
LEMMA OnlyHandlersMove ==
    ASSUME PropSound, NEW u \in People, NEW r, hreq' = [hreq EXCEPT ![u] = r], hreq[u].pc # "merged",
           HandlerFits(r, props, br), UNCHANGED <<branchVars, props, stamp, reviews, clashes, unlinked>>
    PROVE  PropSound'
<1>1. HandlersFit'
    BY HandlersKeepFitting DEF PropSound, ProposalsMatchBranches, branchVars
<1>2. OpenOnMergedExplained'
    <2>1. OpenAccounted(u, r)
        BY DEF OpenAccounted, branchVars
    <2> QED BY <2>1, StillExplained DEF PropSound, ProposalsMatchBranches
<1>3. /\ PropTypeOK' /\ MergedProposalHasMergedBranch' /\ IfMatchLostOnlyByRace' /\ NoneSinceBase'
      /\ OlderReplayed'
    BY DEF PropSound, ProposalsMatchBranches, branchVars, PropTypeOK, MergedProposalHasMergedBranch,
           IfMatchLostOnlyByRace, NoneSinceBase, OlderReplayed
<1> QED BY <1>1, <1>2, <1>3 DEF PropSound, ProposalsMatchBranches

\* The branches keep their types.
BranchesTyped ==
    /\ br' \in [PBranches -> BranchRows] /\ seqNo' \in Nat /\ seqNo <= seqNo' /\ mainHd' \in 0..seqNo'
    /\ \A b \in PBranches : br'[b].base <= mainHd' /\ br'[b].head <= seqNo'
    /\ \A b \in PBranches : IsFiniteSet(onBranch'[b]) /\ onBranch'[b] \subseteq Nat \X People
    /\ DOMAIN onBranch' = PBranches /\ renamed' \in [PBranches -> SUBSET People]

\* No merged branch is unmerged, a branch that is merged has its handler r, and
\* an approval goes on counting only where the head, the base and the commits
\* stay as they were.
BranchesGoOn(r) ==
    \A b \in PBranches :
        /\ br[b].status = "merged" => br'[b].status = "merged"
        /\ br[b].status # "merged" /\ br'[b].status = "merged" => r.pc = "merged" /\ r.b = b
        /\ br'[b].status = "active" =>
               \/ /\ br[b].status = "active" /\ br'[b].head = br[b].head /\ br'[b].base = br[b].base
                  /\ onBranch'[b] = onBranch[b]
               \/ br'[b].head > seqNo
               \/ \A c \in onBranch'[b] : c[1] <= br'[b].base

\* A step that changes branches.
LEMMA BranchesMove ==
    ASSUME PropSound, NEW u \in People, NEW r, hreq' = [hreq EXCEPT ![u] = r], hreq[u].pc # "merged",
           HandlerFits(r, props, br'), UNCHANGED <<props, stamp, reviews, unlinked>>,
           IfMatchLostOnlyByRace', BranchesTyped, BranchesGoOn(r), OlderReplayed'
    PROVE  PropSound'
<1>1. /\ PropTypeOK /\ HandlersFit /\ MergedProposalHasMergedBranch /\ OpenOnMergedExplained
      /\ NoneSinceBase
    BY DEF PropSound, ProposalsMatchBranches
<1>2. \A i \in DOMAIN props : props[i] \in ProposalRows
    BY <1>1 DEF PropTypeOK
<1>3. \A i \in DOMAIN props : props[i].b \in PBranches
    BY <1>2 DEF ProposalRows
<1>4. HandlersFit'
    BY <1>1, HandlersKeepFitting DEF BranchesGoOn
<1>5. OpenOnMergedExplained'
    <2>1. OpenAccounted(u, r)
        BY <1>3 DEF OpenAccounted, BranchesGoOn
    <2>2. unlinked \subseteq unlinked'
        OBVIOUS
    <2> QED BY <1>1, <2>1, <2>2, StillExplained
<1>6. MergedProposalHasMergedBranch'
    BY <1>1, <1>3 DEF MergedProposalHasMergedBranch, BranchesGoOn
<1>7. \A v \in reviews : v.b \in PBranches /\ v.seq \in Nat /\ v.seq <= seqNo
    BY <1>1 DEF PropTypeOK
<1>8. NoneSinceBase'
    <2> SUFFICES ASSUME NEW v \in reviews, v.approve, v.seq = br'[v.b].head, br'[v.b].status = "active",
                        NEW c \in onBranch'[v.b], c[1] > br'[v.b].base, c[2] = v.by
                 PROVE  FALSE
        BY DEF NoneSinceBase
    <2>1. v.b \in PBranches /\ v.seq \in Nat /\ v.seq <= seqNo /\ seqNo \in Nat
        BY <1>1, <1>7 DEF PropTypeOK
    <2>2. br'[v.b].head \in Nat /\ br'[v.b].base \in Nat
        BY <2>1 DEF BranchRows, BranchesTyped
    <2>3. c[1] \in Nat
        BY <2>1 DEF BranchesTyped
    <2>4. ~(br'[v.b].head > seqNo) /\ ~(c[1] <= br'[v.b].base)
        BY <2>1, <2>2, <2>3
    <2>5. /\ br[v.b].status = "active" /\ br'[v.b].head = br[v.b].head /\ br'[v.b].base = br[v.b].base
          /\ onBranch'[v.b] = onBranch[v.b]
        BY <2>1, <2>4 DEF BranchesGoOn
    <2> QED BY <1>1, <2>5 DEF NoneSinceBase
<1>9. PropTypeOK'
    <2>1. reviews' \subseteq [b : PBranches, by : People, seq : 0..seqNo', approve : BOOLEAN]
        BY <1>1 DEF PropTypeOK, BranchesTyped
    <2> QED BY <1>1, <2>1 DEF PropTypeOK, BranchesTyped
<1> QED BY <1>4, <1>5, <1>6, <1>8, <1>9 DEF PropSound, ProposalsMatchBranches

-----------------------------------------------------------------------------
(* One lemma for each kind of statement on branches.                       *)

\* The handler a call leaves behind when it is one statement.
LEMMA CallIdles ==
    ASSUME NEW u, Call(u) \/ Leave(u)
    PROVE  \E r : /\ hreq' = [hreq EXCEPT ![u] = r] /\ r.pc = "idle"
                  /\ \A rows, branches : HandlerFits(r, rows, branches)
<1>1. PICK r : r = Waiting
    OBVIOUS
<1>2. r.pc = "idle"
    BY <1>1 DEF Waiting
<1>3. \A rows, branches : HandlerFits(r, rows, branches)
    BY <1>2 DEF HandlerFits
<1>4. hreq' = [hreq EXCEPT ![u] = r]
    BY <1>1 DEF Call, Enter, Leave
<1> QED BY <1>2, <1>3, <1>4

(* What PropSound says, part by part. *)
LEMMA PropParts ==
    ASSUME PropSound
    PROVE  /\ PropTypeOK /\ HandlersFit /\ MergedProposalHasMergedBranch /\ OpenOnMergedExplained
           /\ IfMatchLostOnlyByRace /\ NoneSinceBase /\ OlderReplayed
           /\ seqNo \in Nat /\ mainHd \in Nat /\ mainHd <= seqNo
           /\ \A b \in PBranches :
                 /\ br[b] \in BranchRows /\ br[b].base \in Nat /\ br[b].base <= mainHd
                 /\ br[b].head \in Nat /\ br[b].head <= seqNo
                 /\ IsFiniteSet(onBranch[b]) /\ onBranch[b] \subseteq Nat \X People
           /\ DOMAIN br = PBranches /\ DOMAIN onBranch = PBranches /\ renamed \in [PBranches -> SUBSET People]
<1>1. PropTypeOK
    BY DEF PropSound, ProposalsMatchBranches
<1>2. \A b \in PBranches : br[b] \in BranchRows
    BY <1>1 DEF PropTypeOK
<1>3. \A b \in PBranches : br[b].base \in Nat /\ br[b].head \in Nat
    BY <1>2 DEF BranchRows
<1> QED BY <1>1, <1>2, <1>3 DEF PropTypeOK, PropSound, ProposalsMatchBranches

\* svc.Commit on a branch: no review names the new head.
LEMMA CommitSound ==
    ASSUME PropSound, NEW u \in People, NEW b \in PBranches, Commit(u, b)
    PROVE  PropSound'
<1>p. /\ PropTypeOK /\ seqNo \in Nat /\ mainHd \in Nat /\ mainHd <= seqNo
      /\ \A x \in PBranches :
            /\ br[x] \in BranchRows /\ br[x].base \in Nat /\ br[x].base <= mainHd
            /\ br[x].head \in Nat /\ br[x].head <= seqNo
            /\ IsFiniteSet(onBranch[x]) /\ onBranch[x] \subseteq Nat \X People
      /\ DOMAIN br = PBranches /\ DOMAIN onBranch = PBranches /\ IfMatchLostOnlyByRace
      /\ renamed \in [PBranches -> SUBSET People] /\ OlderReplayed
    BY PropParts
<1>1. PICK row : row = [br[b] EXCEPT !.head = seqNo + 1]
    OBVIOUS
<1>2. row \in BranchRows
    BY <1>p, <1>1 DEF BranchRows
<1>3. row.head = seqNo + 1 /\ row.base = br[b].base /\ row.status = br[b].status
    BY <1>p, <1>1 DEF BranchRows
<1>4. /\ br' = [br EXCEPT ![b] = row] /\ seqNo' = seqNo + 1 /\ mainHd' = mainHd
      /\ onBranch' = [onBranch EXCEPT ![b] = @ \cup {<<seqNo + 1, u>>}]
      /\ UNCHANGED <<renamed, props, stamp, reviews, unlinked, clashes>> /\ Call(u) /\ br[b].status = "active"
    BY <1>1 DEF Commit, textVars
<1>5. br' \in [PBranches -> BranchRows] /\ br'[b] = row /\ \A x \in PBranches : x # b => br'[x] = br[x]
    BY <1>p, <1>2, <1>4 DEF PropTypeOK
<1>6. /\ DOMAIN onBranch' = PBranches
      /\ onBranch'[b] = onBranch[b] \cup {<<seqNo + 1, u>>}
      /\ \A x \in PBranches : x # b => onBranch'[x] = onBranch[x]
    BY <1>p, <1>4
<1>7. IsFiniteSet(onBranch'[b]) /\ onBranch'[b] \subseteq Nat \X People
    <2>1. IsFiniteSet(onBranch[b] \cup {<<seqNo + 1, u>>})
        BY <1>p, FS_AddElement
    <2> QED BY <1>p, <1>6, <2>1
<1>8. PICK r : hreq' = [hreq EXCEPT ![u] = r] /\ r.pc = "idle" /\ HandlerFits(r, props, br')
    BY <1>4, CallIdles
<1>9. hreq[u].pc # "merged" /\ IfMatchLostOnlyByRace'
    BY <1>p, <1>4 DEF Call, Enter, IfMatchLostOnlyByRace
<1>10. \A x \in PBranches : br'[x].base <= mainHd' /\ br'[x].head <= seqNo' /\ br'[x].status = br[x].status
    BY <1>p, <1>3, <1>4, <1>5
<1>11. \A x \in PBranches : IsFiniteSet(onBranch'[x]) /\ onBranch'[x] \subseteq Nat \X People
    BY <1>p, <1>6, <1>7
<1>12. seqNo' \in Nat /\ seqNo <= seqNo' /\ mainHd' \in 0..seqNo'
    BY <1>p, <1>4
<1>13. BranchesTyped
    BY <1>p, <1>4, <1>5, <1>6, <1>10, <1>11, <1>12 DEF BranchesTyped
<1>14. BranchesGoOn(r)
    BY <1>p, <1>3, <1>5, <1>6, <1>10 DEF BranchesGoOn
<1>15. OlderReplayed'
    <2>1. \A x \in PBranches : br'[x].base = br[x].base /\ onBranch[x] \subseteq onBranch'[x]
        BY <1>3, <1>5, <1>6
    <2>2. \A x \in PBranches : \A c \in onBranch'[x] : c[1] <= br[x].base => c \in onBranch[x]
        BY <1>p, <1>6
    <2> QED BY <1>p, <1>4, <2>1, <2>2 DEF OlderReplayed
<1> QED BY <1>4, <1>8, <1>9, <1>13, <1>14, <1>15, BranchesMove

(* A commit to main leaves the proposals alone. *)
LEMMA CommitMainSound ==
    ASSUME PropSound, NEW u \in People, CommitMain(u)
    PROVE  PropSound'
<1>p. /\ PropTypeOK /\ seqNo \in Nat /\ mainHd \in Nat /\ mainHd <= seqNo
      /\ \A x \in PBranches :
            /\ br[x] \in BranchRows /\ br[x].base \in Nat /\ br[x].base <= mainHd
            /\ br[x].head \in Nat /\ br[x].head <= seqNo
            /\ IsFiniteSet(onBranch[x]) /\ onBranch[x] \subseteq Nat \X People
      /\ DOMAIN br = PBranches /\ DOMAIN onBranch = PBranches /\ IfMatchLostOnlyByRace
      /\ renamed \in [PBranches -> SUBSET People] /\ OlderReplayed
    BY PropParts
<1>1. /\ seqNo' = seqNo + 1 /\ mainHd' = seqNo + 1 /\ Call(u)
      /\ UNCHANGED <<br, onBranch, renamed, props, stamp, reviews, unlinked, clashes>>
    BY DEF CommitMain, textVars
<1>2. PICK r : hreq' = [hreq EXCEPT ![u] = r] /\ r.pc = "idle" /\ HandlerFits(r, props, br')
    BY <1>1, CallIdles
<1>3. hreq[u].pc # "merged" /\ IfMatchLostOnlyByRace'
    BY <1>p, <1>1 DEF Call, Enter, IfMatchLostOnlyByRace
<1>4. br' \in [PBranches -> BranchRows] /\ \A x \in PBranches : br'[x].base <= mainHd' /\ br'[x].head <= seqNo'
    BY <1>p, <1>1 DEF PropTypeOK
<1>5. seqNo' \in Nat /\ seqNo <= seqNo' /\ mainHd' \in 0..seqNo'
    BY <1>p, <1>1
<1>6. BranchesTyped /\ BranchesGoOn(r)
    BY <1>p, <1>1, <1>4, <1>5 DEF BranchesTyped, BranchesGoOn
<1>7. OlderReplayed'
    BY <1>p, <1>1 DEF OlderReplayed
<1> QED BY <1>1, <1>2, <1>3, <1>6, <1>7, BranchesMove

\* The web forms' and the API's writes of one column of a branch.
LEMMA WriteSound ==
    ASSUME PropSound, NEW u \in People, NEW row \in BranchRows, WriteBranch(u, row),
           hreq[u].pc \in {"draft", "auto", "delete"},
           row.head = br[hreq[u].b].head, row.base = br[hreq[u].b].base,
           row.status = br[hreq[u].b].status \/ (br[hreq[u].b].status = "active" /\ row.status = "abandoned")
    PROVE  PropSound'
<1>p. /\ PropTypeOK /\ seqNo \in Nat /\ mainHd \in Nat /\ mainHd <= seqNo /\ HandlersFit
      /\ \A x \in PBranches :
            /\ br[x] \in BranchRows /\ br[x].base \in Nat /\ br[x].base <= mainHd
            /\ br[x].head \in Nat /\ br[x].head <= seqNo
            /\ IsFiniteSet(onBranch[x]) /\ onBranch[x] \subseteq Nat \X People
      /\ DOMAIN br = PBranches /\ DOMAIN onBranch = PBranches /\ IfMatchLostOnlyByRace
      /\ renamed \in [PBranches -> SUBSET People] /\ OlderReplayed
    BY PropParts
<1>1. PICK b, h : b = hreq[u].b /\ h = hreq[u]
    OBVIOUS
<1>2. b \in PBranches /\ (h.tag # NoTag => h.tag[3] = h.read)
    BY <1>p, <1>1 DEF HandlersFit, HandlerFits
<1>3. /\ br' = [br EXCEPT ![b] = row] /\ Leave(u)
      /\ clashes' = clashes \cup Clash(h, br[b].head)
      /\ UNCHANGED <<mainHd, seqNo, onBranch, renamed, props, stamp, reviews, unlinked>>
    BY <1>1 DEF WriteBranch, textVars
<1>4. br' \in [PBranches -> BranchRows] /\ br'[b] = row /\ \A x \in PBranches : x # b => br'[x] = br[x]
    BY <1>p, <1>2, <1>3 DEF PropTypeOK
<1>5. PICK r : hreq' = [hreq EXCEPT ![u] = r] /\ r.pc = "idle" /\ HandlerFits(r, props, br')
    BY <1>3, CallIdles
<1>6. IfMatchLostOnlyByRace'
    BY <1>p, <1>2, <1>3 DEF IfMatchLostOnlyByRace, Clash
<1>7. \A x \in PBranches : br'[x].base <= mainHd' /\ br'[x].head <= seqNo'
    BY <1>p, <1>1, <1>3, <1>4
<1>8. \A x \in PBranches :
        /\ br[x].status = "merged" => br'[x].status = "merged"
        /\ br'[x].status = "merged" => br[x].status = "merged"
        /\ br'[x].status = "active" => br[x].status = "active" /\ br'[x].head = br[x].head /\ br'[x].base = br[x].base
    BY <1>1, <1>4
<1>9. seqNo' \in Nat /\ seqNo <= seqNo' /\ mainHd' \in 0..seqNo'
    BY <1>p, <1>3
<1>10. BranchesTyped /\ BranchesGoOn(r)
    BY <1>p, <1>3, <1>4, <1>7, <1>8, <1>9 DEF BranchesTyped, BranchesGoOn
<1>11. hreq[u].pc # "merged"
    OBVIOUS
<1>12. OlderReplayed'
    <2>1. \A x \in PBranches : br'[x].base = br[x].base
        BY <1>1, <1>4
    <2> QED BY <1>p, <1>3, <2>1 DEF OlderReplayed
<1> QED BY <1>3, <1>5, <1>6, <1>10, <1>11, <1>12, BranchesMove

\* The merge: its handler has yet to mark the open proposal.
LEMMA MergeSound ==
    ASSUME PropSound, NEW u \in People, NEW b \in PBranches, Merge(u, b)
    PROVE  PropSound'
<1>p. /\ PropTypeOK /\ seqNo \in Nat /\ mainHd \in Nat /\ mainHd <= seqNo
      /\ \A x \in PBranches :
            /\ br[x] \in BranchRows /\ br[x].base \in Nat /\ br[x].base <= mainHd
            /\ br[x].head \in Nat /\ br[x].head <= seqNo
            /\ IsFiniteSet(onBranch[x]) /\ onBranch[x] \subseteq Nat \X People
      /\ DOMAIN br = PBranches /\ DOMAIN onBranch = PBranches /\ IfMatchLostOnlyByRace
      /\ renamed \in [PBranches -> SUBSET People] /\ OlderReplayed
    BY PropParts
<1>1. PICK row : row = [br[b] EXCEPT !.status = "merged"]
    OBVIOUS
<1>2. row \in BranchRows
    BY <1>p, <1>1 DEF BranchRows
<1>3. row.base = br[b].base /\ row.head = br[b].head /\ row.status = "merged"
    BY <1>p, <1>1 DEF BranchRows
<1>4. PICK r : r = [pc |-> "merged", b |-> b]
    OBVIOUS
<1>5. r.pc = "merged" /\ r.b = b
    BY <1>4
<1>6. /\ br' = [br EXCEPT ![b] = row] /\ seqNo' = seqNo + 1 /\ mainHd' = seqNo + 1
      /\ hreq' = [hreq EXCEPT ![u] = r] /\ hreq[u].pc # "merged"
      /\ UNCHANGED <<onBranch, renamed, props, stamp, reviews, unlinked, clashes>>
    BY <1>1, <1>4 DEF Merge, Enter, textVars
<1>7. br' \in [PBranches -> BranchRows] /\ br'[b] = row /\ \A x \in PBranches : x # b => br'[x] = br[x]
    BY <1>p, <1>2, <1>6 DEF PropTypeOK
<1>8. HandlerFits(r, props, br')
    BY <1>3, <1>5, <1>7 DEF HandlerFits
<1>9. \A x \in PBranches : br'[x].base <= mainHd' /\ br'[x].head <= seqNo'
    BY <1>p, <1>3, <1>6, <1>7
<1>10. seqNo' \in Nat /\ seqNo <= seqNo' /\ mainHd' \in 0..seqNo' /\ IfMatchLostOnlyByRace'
    BY <1>p, <1>6 DEF IfMatchLostOnlyByRace
<1>11. \A x \in PBranches :
        /\ br[x].status = "merged" => br'[x].status = "merged"
        /\ br[x].status # "merged" /\ br'[x].status = "merged" => r.pc = "merged" /\ r.b = x
        /\ br'[x].status = "active" => br[x].status = "active" /\ br'[x].head = br[x].head /\ br'[x].base = br[x].base
    BY <1>3, <1>5, <1>7
<1>12. BranchesTyped
    BY <1>p, <1>6, <1>7, <1>9, <1>10 DEF BranchesTyped
<1>13. BranchesGoOn(r)
    BY <1>6, <1>11 DEF BranchesGoOn
<1>14. OlderReplayed'
    <2>1. \A x \in PBranches : br'[x].base = br[x].base
        BY <1>3, <1>7
    <2> QED BY <1>p, <1>6, <2>1 DEF OlderReplayed
<1> QED BY <1>6, <1>8, <1>10, <1>12, <1>13, <1>14, BranchesMove

\* The commits that handleRebase replays.
Replayed(n, k, u) == {<<n + i, u>> : i \in 1..k}

\* The replayed commits are finitely many.
LEMMA ReplayedFinite ==
    ASSUME NEW k \in Nat, NEW n \in Nat, NEW u \in People
    PROVE  IsFiniteSet(Replayed(n, k, u)) /\ Replayed(n, k, u) \subseteq Nat \X People
<1>1. PICK T : T = Replayed(n, k, u)
    OBVIOUS
<1>2. PICK f : f = [i \in 1..k |-> <<n + i, u>>]
    OBVIOUS
<1>3. f \in Surjection(1..k, T)
    BY <1>1, <1>2 DEF Surjection, Replayed
<1>4. IsFiniteSet(1..k)
    <2>1. 1 \in Int /\ k \in Int
        OBVIOUS
    <2> QED BY ONLY <2>1, FS_Interval
<1>5. IsFiniteSet(T)
    BY <1>3, <1>4, FS_Surjection
<1> QED BY <1>1, <1>5 DEF Replayed

\* handleRebase: it gives the branch a new head, or leaves it without a commit
\* of its own.
LEMMA RebaseSound ==
    ASSUME PropSound, NEW u \in People, NEW b \in PBranches, handleRebase(u, b)
    PROVE  PropSound'
<1>p. /\ PropTypeOK /\ seqNo \in Nat /\ mainHd \in Nat /\ mainHd <= seqNo
      /\ \A x \in PBranches :
            /\ br[x] \in BranchRows /\ br[x].base \in Nat /\ br[x].base <= mainHd
            /\ br[x].head \in Nat /\ br[x].head <= seqNo
            /\ IsFiniteSet(onBranch[x]) /\ onBranch[x] \subseteq Nat \X People
      /\ DOMAIN br = PBranches /\ DOMAIN onBranch = PBranches /\ IfMatchLostOnlyByRace
      /\ renamed \in [PBranches -> SUBSET People] /\ OlderReplayed
    BY PropParts
<1>1. PICK mine : mine = {c \in onBranch[b] : c[1] > br[b].base}
    OBVIOUS
<1>2. PICK k : k = Cardinality(mine)
    OBVIOUS
<1>3. k \in Nat /\ (k = 0 => mine = {})
    <2>1. IsFiniteSet(mine)
        BY <1>p, <1>1, FS_Subset
    <2> QED BY <1>2, <2>1, FS_CardinalityType, FS_EmptySet
<1>4. PICK new : new = Replayed(seqNo, k, u)
    OBVIOUS
<1>5. IsFiniteSet(new) /\ new \subseteq Nat \X People /\ (k = 0 => new = {})
    <2>1. IsFiniteSet(new) /\ new \subseteq Nat \X People
        BY <1>p, <1>3, <1>4, ReplayedFinite
    <2>2. k = 0 => 1..k = {}
        OBVIOUS
    <2>3. k = 0 => new = {}
        BY <1>4, <2>2 DEF Replayed
    <2> QED BY <2>1, <2>3
<1>6. PICK hd : hd = IF k = 0 THEN mainHd ELSE seqNo + k
    OBVIOUS
<1>7. hd \in Nat /\ hd <= seqNo + k /\ (k # 0 => hd > seqNo)
    BY <1>p, <1>3, <1>6
<1>8. PICK row : row = [br[b] EXCEPT !.base = mainHd, !.head = hd]
    OBVIOUS
<1>9. row \in BranchRows
    BY <1>p, <1>7, <1>8 DEF BranchRows
<1>10. row.base = mainHd /\ row.head = hd /\ row.status = br[b].status
    BY <1>p, <1>8 DEF BranchRows
<1>11. /\ br' = [br EXCEPT ![b] = row] /\ seqNo' = seqNo + k /\ mainHd' = mainHd
       /\ onBranch' = [onBranch EXCEPT ![b] = @ \cup new]
       /\ renamed' = [renamed EXCEPT ![b] = @ \cup ({c[2] : c \in mine} \ {u})]
       /\ UNCHANGED <<props, stamp, reviews, unlinked, clashes>> /\ Call(u)
    BY <1>1, <1>2, <1>4, <1>6, <1>8 DEF handleRebase, textVars, Replayed
<1>12. br' \in [PBranches -> BranchRows] /\ br'[b] = row /\ \A x \in PBranches : x # b => br'[x] = br[x]
    BY <1>p, <1>9, <1>11 DEF PropTypeOK
<1>13. /\ DOMAIN onBranch' = PBranches /\ onBranch'[b] = onBranch[b] \cup new
       /\ \A x \in PBranches : x # b => onBranch'[x] = onBranch[x]
    BY <1>p, <1>11
<1>14. IsFiniteSet(onBranch'[b]) /\ onBranch'[b] \subseteq Nat \X People
    <2>1. IsFiniteSet(onBranch[b] \cup new)
        BY <1>p, <1>5, FS_Union
    <2> QED BY <1>p, <1>5, <1>13, <2>1
<1>15. PICK r : hreq' = [hreq EXCEPT ![u] = r] /\ r.pc = "idle" /\ HandlerFits(r, props, br')
    BY <1>11, CallIdles
<1>16. hreq[u].pc # "merged" /\ IfMatchLostOnlyByRace'
    BY <1>p, <1>11 DEF Call, Enter, IfMatchLostOnlyByRace
<1>17. \A x \in PBranches : br'[x].base <= mainHd' /\ br'[x].head <= seqNo' /\ br'[x].status = br[x].status
    BY <1>p, <1>3, <1>7, <1>10, <1>11, <1>12
<1>18. seqNo' \in Nat /\ seqNo <= seqNo' /\ mainHd' \in 0..seqNo'
    BY <1>p, <1>3, <1>11
<1>22. /\ renamed' \in [PBranches -> SUBSET People] /\ renamed'[b] = renamed[b] \cup ({c[2] : c \in mine} \ {u})
       /\ \A x \in PBranches : x # b => renamed'[x] = renamed[x]
    <2>1. {c[2] : c \in mine} \subseteq People
        BY <1>p, <1>1
    <2>2. PICK ren : ren = renamed[b] \cup ({c[2] : c \in mine} \ {u})
        OBVIOUS
    <2>3. ren \in SUBSET People /\ renamed' = [renamed EXCEPT ![b] = ren]
        BY <1>p, <1>11, <2>1, <2>2
    <2> QED BY <1>p, <2>2, <2>3
<1>19. BranchesTyped
    BY <1>p, <1>12, <1>13, <1>14, <1>17, <1>18, <1>22 DEF BranchesTyped
<1>20. k = 0 => \A c \in onBranch'[b] : c[1] <= br'[b].base
    <2> SUFFICES ASSUME k = 0, NEW c \in onBranch'[b] PROVE c[1] <= br'[b].base
        OBVIOUS
    <2>1. c \in onBranch[b] /\ c[1] \in Nat /\ ~(c[1] > br[b].base)
        BY <1>p, <1>1, <1>3, <1>5, <1>13, <1>14
    <2> QED BY <1>p, <1>10, <1>12, <2>1
<1>21. BranchesGoOn(r)
    BY <1>7, <1>10, <1>12, <1>13, <1>17, <1>20 DEF BranchesGoOn
<1>23. ASSUME NEW c \in onBranch'[b], c[1] <= br'[b].base
       PROVE  c[2] \in renamed'[b] \/ \E d \in onBranch'[b] : d[1] > br'[b].base /\ d[2] = c[2]
    <2>1. \A d \in new : d[1] > br'[b].base
        BY <1>p, <1>3, <1>4, <1>10, <1>12 DEF Replayed
    <2>2. c \in onBranch[b] /\ c[1] \in Nat
        <3>1. c[1] \in Nat /\ br'[b].base \in Nat /\ (c \in onBranch[b] \/ c \in new)
            BY <1>p, <1>10, <1>12, <1>13, <1>14
        <3>2. ~(c[1] > br'[b].base)
            BY <1>23, <3>1
        <3> QED BY <2>1, <3>1, <3>2
    <2>3. ASSUME NEW d \in mine, d[2] = c[2]
          PROVE  c[2] \in renamed'[b] \/ \E e \in onBranch'[b] : e[1] > br'[b].base /\ e[2] = c[2]
        <3>1. CASE c[2] # u
            BY <1>22, <2>3, <3>1
        <3>2. CASE c[2] = u
            <4>1. k # 0
                <5>1. IsFiniteSet(mine)
                    BY <1>p, <1>1, FS_Subset
                <5> QED BY <1>2, <2>3, <5>1, FS_EmptySet
            <4>2. PICK e : e = <<seqNo + 1, u>>
                OBVIOUS
            <4>3. 1 \in 1..k
                BY <1>3, <4>1
            <4>4. e \in new /\ e[2] = u
                BY <1>4, <4>2, <4>3 DEF Replayed
            <4> QED BY <1>13, <2>1, <3>2, <4>4
        <3> QED BY <3>1, <3>2
    <2>4. CASE c[1] > br[b].base
        BY <1>1, <2>2, <2>3, <2>4
    <2>5. CASE ~(c[1] > br[b].base)
        <3>1. c[1] <= br[b].base
            BY <1>p, <2>2, <2>5
        <3>2. c[2] \in renamed[b] \/ \E d \in onBranch[b] : d[1] > br[b].base /\ d[2] = c[2]
            BY <1>p, <2>2, <3>1 DEF OlderReplayed
        <3> QED BY <1>1, <1>22, <2>3, <3>2
    <2> QED BY <2>4, <2>5
<1>24. OlderReplayed'
    BY <1>p, <1>12, <1>13, <1>22, <1>23 DEF OlderReplayed
<1> QED BY <1>11, <1>15, <1>16, <1>19, <1>21, <1>24, BranchesMove

\* handleReview: an approval by none of the authors.
LEMMA ReviewSound ==
    ASSUME PropSound, NEW u \in People, NEW b \in PBranches, NEW approve \in BOOLEAN, handleReview(u, b, approve)
    PROVE  PropSound'
<1>p. /\ PropTypeOK /\ HandlersFit /\ MergedProposalHasMergedBranch /\ OpenOnMergedExplained
      /\ IfMatchLostOnlyByRace /\ NoneSinceBase /\ OlderReplayed
    BY PropParts
<1>1. PICK v : v = [b |-> b, by |-> u, seq |-> br[b].head, approve |-> approve]
    OBVIOUS
<1>2. /\ reviews' = reviews \cup {v} /\ Call(u) /\ (approve => ~SelfApproval(u, b))
      /\ UNCHANGED <<br, mainHd, seqNo, onBranch, renamed, props, stamp, clashes, unlinked>>
    BY <1>1 DEF handleReview, branchVars
<1>3. PICK r : hreq' = [hreq EXCEPT ![u] = r] /\ r.pc = "idle" /\ HandlerFits(r, props', br')
    BY <1>2, CallIdles
<1>4. HandlersFit'
    BY <1>p, <1>2, <1>3, HandlersKeepFitting
<1>5. OpenOnMergedExplained'
    <2>1. hreq[u].pc # "merged"
        BY <1>2 DEF Call, Enter
    <2>2. OpenAccounted(u, r)
        BY <1>2, <2>1 DEF OpenAccounted
    <2> QED BY <1>p, <1>2, <1>3, <2>2, StillExplained
<1>6. NoneSinceBase'
    BY <1>p, <1>1, <1>2 DEF NoneSinceBase, SelfApproval
<1>7. PropTypeOK'
    <2>1. br[b].head \in 0..seqNo
        BY PropParts
    <2>2. v \in [b : PBranches, by : People, seq : 0..seqNo, approve : BOOLEAN]
        BY <1>1, <2>1
    <2> QED BY <1>p, <1>2, <2>2 DEF PropTypeOK
<1>8. MergedProposalHasMergedBranch' /\ IfMatchLostOnlyByRace' /\ OlderReplayed'
    BY <1>p, <1>2 DEF MergedProposalHasMergedBranch, IfMatchLostOnlyByRace, OlderReplayed
<1> QED BY <1>4, <1>5, <1>6, <1>7, <1>8 DEF PropSound, ProposalsMatchBranches

-----------------------------------------------------------------------------
(* The statements on proposals.                                            *)

\* A step that changes proposals and no branch.
LEMMA ProposalsMove ==
    ASSUME PropSound, NEW u \in People, NEW r, hreq' = [hreq EXCEPT ![u] = r], HandlerFits(r, props', br'),
           UNCHANGED <<br, mainHd, seqNo, onBranch, renamed, reviews>>, stamp' \in Nat, props' \in Seq(ProposalRows),
           DOMAIN props \subseteq DOMAIN props', unlinked \subseteq unlinked',
           IfMatchLostOnlyByRace', MergedProposalHasMergedBranch', OpenAccounted(u, r)
    PROVE  PropSound'
<1>1. PropTypeOK /\ HandlersFit /\ OpenOnMergedExplained /\ NoneSinceBase /\ OlderReplayed
    BY PropParts
<1>2. HandlersFit'
    BY <1>1, HandlersKeepFitting
<1>3. OpenOnMergedExplained'
    BY <1>1, StillExplained
<1>4. PropTypeOK'
    BY <1>1 DEF PropTypeOK
<1>5. NoneSinceBase' /\ OlderReplayed'
    BY <1>1 DEF NoneSinceBase, OlderReplayed
<1> QED BY <1>2, <1>3, <1>4, <1>5 DEF PropSound, ProposalsMatchBranches

\* handleCreateProposal: a proposal opened on a merged branch is late.
LEMMA CreateSound ==
    ASSUME PropSound, NEW u \in People, NEW b \in PBranches, handleCreateProposal(u, b)
    PROVE  PropSound'
<1>p. /\ PropTypeOK /\ HandlersFit /\ MergedProposalHasMergedBranch /\ OpenOnMergedExplained
      /\ IfMatchLostOnlyByRace
    BY PropParts
<1>1. PICK row : row = [b |-> b, author |-> u, state |-> "open", at |-> stamp + 1,
                        late |-> br[b].status = "merged"]
    OBVIOUS
<1>2. /\ row.b = b /\ row.state = "open" /\ (br[b].status = "merged" => row.late)
    BY <1>1
<1>3. stamp \in Nat /\ props \in Seq(ProposalRows)
    BY <1>p DEF PropTypeOK
<1>4. row \in ProposalRows
    <2>1. (br[b].status = "merged") \in BOOLEAN
        OBVIOUS
    <2> QED BY <1>1, <1>3, <2>1 DEF ProposalRows
<1>5. /\ props' = Append(props, row) /\ stamp' = stamp + 1 /\ Call(u)
      /\ UNCHANGED <<br, mainHd, seqNo, onBranch, renamed, reviews, clashes, unlinked>>
    BY <1>1 DEF handleCreateProposal, branchVars, textVars
<1>6. /\ props' \in Seq(ProposalRows) /\ DOMAIN props \subseteq DOMAIN props'
      /\ \A i \in DOMAIN props' : (i \in DOMAIN props /\ props'[i] = props[i]) \/ props'[i] = row
    BY <1>3, <1>4, <1>5
<1>7. PICK r : hreq' = [hreq EXCEPT ![u] = r] /\ r.pc = "idle" /\ HandlerFits(r, props', br')
    BY <1>5, CallIdles
<1>8. hreq[u].pc # "merged"
    BY <1>5 DEF Call, Enter
<1>9. OpenAccounted(u, r)
    BY <1>2, <1>5, <1>6, <1>8 DEF OpenAccounted
<1>10. MergedProposalHasMergedBranch' /\ IfMatchLostOnlyByRace'
    BY <1>p, <1>2, <1>5, <1>6 DEF MergedProposalHasMergedBranch, IfMatchLostOnlyByRace
<1>11. stamp' \in Nat /\ unlinked \subseteq unlinked'
    BY <1>3, <1>5
<1>12. UNCHANGED <<br, mainHd, seqNo, onBranch, renamed, reviews>>
    BY <1>5
<1> QED BY <1>6, <1>7, <1>9, <1>10, <1>11, <1>12, ProposalsMove

\* UpdateProposal and CloseProposal, which a closed or merged proposal does not
\* stop: no proposal is opened and none is marked merged.
LEMMA EditSound ==
    ASSUME PropSound, NEW u \in People, UpdateProposal(u) \/ CloseProposal(u)
    PROVE  PropSound'
<1>p. /\ PropTypeOK /\ HandlersFit /\ MergedProposalHasMergedBranch /\ OpenOnMergedExplained
      /\ IfMatchLostOnlyByRace
    BY PropParts
<1>1. PICK h, i : h = hreq[u] /\ i = h.i
    OBVIOUS
<1>2. h.pc \in {"update", "close"}
    BY <1>1 DEF UpdateProposal, CloseProposal
<1>3. i \in DOMAIN props /\ (h.tag # NoTag => h.tag[3] = h.read)
    BY <1>p, <1>1, <1>2 DEF HandlersFit, HandlerFits
<1>4. stamp \in Nat /\ props \in Seq(ProposalRows) /\ props[i] \in ProposalRows
    BY <1>p, <1>3 DEF PropTypeOK
<1>5. PICK row : /\ row \in ProposalRows /\ row.b = props[i].b /\ row.late = props[i].late
                 /\ row.state = props[i].state \/ row.state = "closed"
                 /\ props' = [props EXCEPT ![i] = row]
    <2>1. CASE UpdateProposal(u)
        <3>1. PICK row : row = [props[i] EXCEPT !.at = stamp + 1]
            OBVIOUS
        <3>2. row \in ProposalRows
            BY <1>4, <3>1 DEF ProposalRows
        <3>3. row.b = props[i].b /\ row.late = props[i].late /\ row.state = props[i].state
            BY <1>4, <3>1 DEF ProposalRows
        <3>4. props' = [props EXCEPT ![i] = row]
            BY <1>1, <2>1, <3>1 DEF UpdateProposal
        <3> QED BY <3>2, <3>3, <3>4
    <2>2. CASE CloseProposal(u)
        <3>1. PICK row : row = [props[i] EXCEPT !.at = stamp + 1, !.state = "closed"]
            OBVIOUS
        <3>2. row \in ProposalRows
            <4>1. PICK t \in Nat : t = stamp + 1
                BY <1>4
            <4>2. row = [props[i] EXCEPT !.at = t, !.state = "closed"]
                BY <3>1, <4>1
            <4> QED BY <1>4, <4>2 DEF ProposalRows
        <3>3. row.b = props[i].b /\ row.late = props[i].late /\ row.state = "closed"
            BY <1>4, <3>1 DEF ProposalRows
        <3>4. props' = [props EXCEPT ![i] = row]
            BY <1>1, <2>2, <3>1 DEF CloseProposal
        <3> QED BY <3>2, <3>3, <3>4
    <2> QED BY <2>1, <2>2
<1>6. /\ stamp' = stamp + 1 /\ Leave(u) /\ clashes' = clashes \cup Clash(h, props[i].at)
      /\ UNCHANGED <<br, mainHd, seqNo, onBranch, renamed, reviews, unlinked>>
    BY <1>1 DEF UpdateProposal, CloseProposal, branchVars, textVars
<1>7. /\ props' \in Seq(ProposalRows) /\ DOMAIN props' = DOMAIN props
      /\ props'[i] = row /\ \A j \in DOMAIN props : j # i => props'[j] = props[j]
    BY <1>3, <1>4, <1>5
<1>8. PICK r : hreq' = [hreq EXCEPT ![u] = r] /\ r.pc = "idle" /\ HandlerFits(r, props', br')
    BY <1>6, CallIdles
<1>9. hreq[u].pc # "merged"
    BY <1>1, <1>2
<1>10. OpenAccounted(u, r)
    BY <1>5, <1>6, <1>7, <1>9 DEF OpenAccounted
<1>11. MergedProposalHasMergedBranch'
    BY <1>p, <1>5, <1>6, <1>7 DEF MergedProposalHasMergedBranch
<1>12. IfMatchLostOnlyByRace'
    BY <1>p, <1>3, <1>6 DEF IfMatchLostOnlyByRace, Clash
<1>13. stamp' \in Nat /\ unlinked \subseteq unlinked' /\ DOMAIN props \subseteq DOMAIN props'
    BY <1>4, <1>6, <1>7
<1>14. UNCHANGED <<br, mainHd, seqNo, onBranch, renamed, reviews>>
    BY <1>6
<1> QED BY <1>7, <1>8, <1>10, <1>11, <1>12, <1>13, <1>14, ProposalsMove

\* MergeProposal: it marks every open proposal of the branch, which is merged.
LEMMA MarkSound ==
    ASSUME PropSound, NEW u \in People, MergeProposal(u)
    PROVE  PropSound'
<1>p. /\ PropTypeOK /\ HandlersFit /\ MergedProposalHasMergedBranch /\ OpenOnMergedExplained
      /\ IfMatchLostOnlyByRace
    BY PropParts
<1>1. PICK b : b = hreq[u].b
    OBVIOUS
<1>2. hreq[u].pc = "merged" /\ br[b].status = "merged"
    BY <1>p, <1>1 DEF HandlersFit, HandlerFits, MergeProposal
<1>3. stamp \in Nat /\ props \in Seq(ProposalRows) /\ \A i \in DOMAIN props : props[i] \in ProposalRows
    BY <1>p DEF PropTypeOK
<1>4. /\ props' = [i \in DOMAIN props |-> IF props[i].b = b /\ props[i].state = "open"
                    THEN [props[i] EXCEPT !.state = "merged", !.at = stamp + 1] ELSE props[i]]
      /\ stamp' = stamp + 1 /\ Leave(u)
      /\ UNCHANGED <<br, mainHd, seqNo, onBranch, renamed, reviews, clashes, unlinked>>
    BY <1>1 DEF MergeProposal, branchVars, textVars
<1>5. DOMAIN props' = DOMAIN props
    BY <1>4
<1>6. \A i \in DOMAIN props :
        /\ props'[i] \in ProposalRows /\ props'[i].b = props[i].b /\ props'[i].late = props[i].late
        /\ props[i].b = b => props'[i].state # "open"
        /\ props'[i].state = props[i].state \/ (props[i].b = b /\ props'[i].state = "merged")
    <2> SUFFICES ASSUME NEW i \in DOMAIN props
                 PROVE  /\ props'[i] \in ProposalRows /\ props'[i].b = props[i].b /\ props'[i].late = props[i].late
                        /\ props[i].b = b => props'[i].state # "open"
                        /\ props'[i].state = props[i].state \/ (props[i].b = b /\ props'[i].state = "merged")
        OBVIOUS
    <2>1. CASE props[i].b = b /\ props[i].state = "open"
        <3>1. PICK row : row = [props[i] EXCEPT !.state = "merged", !.at = stamp + 1]
            OBVIOUS
        <3>2. row \in ProposalRows
            <4>1. PICK t \in Nat : t = stamp + 1
                BY <1>3
            <4>2. row = [props[i] EXCEPT !.state = "merged", !.at = t]
                BY <3>1, <4>1
            <4>3. props[i] \in ProposalRows
                BY <1>3
            <4> QED BY <4>2, <4>3 DEF ProposalRows
        <3>3. row.b = props[i].b /\ row.late = props[i].late /\ row.state = "merged"
            BY <1>3, <3>1 DEF ProposalRows
        <3>4. props'[i] = row
            BY <1>4, <2>1, <3>1
        <3> QED BY <2>1, <3>2, <3>3, <3>4
    <2>2. CASE ~(props[i].b = b /\ props[i].state = "open")
        BY <1>3, <1>4, <2>2
    <2> QED BY <2>1, <2>2
<1>7. props' \in Seq(ProposalRows)
    <2>1. PICK n \in Nat : DOMAIN props = 1..n
        BY <1>3
    <2>2. props' = [i \in 1..n |-> props'[i]]
        BY <1>4, <2>1
    <2> QED BY <1>6, <2>1, <2>2
<1>8. PICK r : hreq' = [hreq EXCEPT ![u] = r] /\ r.pc = "idle" /\ HandlerFits(r, props', br')
    BY <1>4, CallIdles
<1>9. OpenAccounted(u, r)
    BY <1>1, <1>4, <1>5, <1>6 DEF OpenAccounted
<1>10. MergedProposalHasMergedBranch' /\ IfMatchLostOnlyByRace'
    BY <1>p, <1>2, <1>4, <1>5, <1>6 DEF MergedProposalHasMergedBranch, IfMatchLostOnlyByRace
<1>11. stamp' \in Nat /\ unlinked \subseteq unlinked' /\ DOMAIN props \subseteq DOMAIN props'
    <2>1. stamp' = stamp + 1 /\ unlinked' = unlinked
        BY <1>4
    <2>2. stamp \in Nat
        BY <1>3
    <2> QED BY <1>5, <2>1, <2>2
<1>12. UNCHANGED <<br, mainHd, seqNo, onBranch, renamed, reviews>>
    BY <1>4
<1> QED BY <1>7, <1>8, <1>9, <1>10, <1>11, <1>12, ProposalsMove

\* The statement fails: the branch is on the record of those left behind.
LEMMA MarkFailsSound ==
    ASSUME PropSound, NEW u \in People, MergeProposalFails(u)
    PROVE  PropSound'
<1>p. /\ PropTypeOK /\ MergedProposalHasMergedBranch /\ IfMatchLostOnlyByRace
    BY PropParts
<1>1. /\ unlinked' = unlinked \cup {hreq[u].b} /\ Leave(u)
      /\ UNCHANGED <<br, mainHd, seqNo, onBranch, renamed, reviews, clashes, props, stamp>>
    BY DEF MergeProposalFails, branchVars, textVars
<1>2. stamp \in Nat /\ props \in Seq(ProposalRows)
    BY <1>p DEF PropTypeOK
<1>3. PICK r : hreq' = [hreq EXCEPT ![u] = r] /\ r.pc = "idle" /\ HandlerFits(r, props', br')
    BY <1>1, CallIdles
<1>4. OpenAccounted(u, r)
    BY <1>1 DEF OpenAccounted
<1>5. MergedProposalHasMergedBranch' /\ IfMatchLostOnlyByRace'
    BY <1>p, <1>1 DEF MergedProposalHasMergedBranch, IfMatchLostOnlyByRace
<1> QED BY <1>1, <1>2, <1>3, <1>4, <1>5, ProposalsMove

-----------------------------------------------------------------------------
(* The reads before a write, and the theorems about Proposals.             *)

\* A handler that reads a proposal, with its If-Match or from a form.
LEMMA ReadProposalSound ==
    ASSUME PropSound, NEW u \in People, NEW i \in DOMAIN props, NEW op \in {"update", "close"},
           ReadProposal(u, i, op) \/ uiProposalForm(u, i, op)
    PROVE  PropSound'
<1>1. PICK tag : /\ hreq' = [hreq EXCEPT ![u] = [pc |-> op, i |-> i, read |-> props[i].at, tag |-> tag]]
                 /\ tag # NoTag => tag = <<"proposal", i, props[i].at>>
    BY DEF ReadProposal, uiProposalForm, Enter, checkIfMatch
<1>2. PICK r : r = [pc |-> op, i |-> i, read |-> props[i].at, tag |-> tag]
    OBVIOUS
<1>3. r.pc = op /\ r.i = i /\ (r.tag # NoTag => r.tag[3] = r.read)
    BY <1>1, <1>2
<1>4. HandlerFits(r, props, br)
    BY <1>3 DEF HandlerFits
<1>5. /\ hreq[u].pc # "merged" /\ UNCHANGED <<branchVars, props, stamp, reviews, clashes, unlinked>>
    BY DEF ReadProposal, uiProposalForm, Enter, textVars
<1> QED BY <1>1, <1>2, <1>4, <1>5, OnlyHandlersMove

\* A handler that reads a branch, with its If-Match or from a form.
LEMMA ReadBranchSound ==
    ASSUME PropSound, NEW u \in People, NEW b \in PBranches, NEW op \in {"draft", "auto", "delete"}, NEW to,
           op # "delete" => to \in BOOLEAN, ReadBranch(u, b, op, to) \/ uiBranchForm(u, b, op, to)
    PROVE  PropSound'
<1>1. PICK tag : /\ hreq' = [hreq EXCEPT ![u] = [pc |-> op, b |-> b, to |-> to, read |-> br[b].head, tag |-> tag]]
                 /\ tag # NoTag => tag = <<"branch", b, br[b].head>>
    BY DEF ReadBranch, uiBranchForm, Enter, checkIfMatch
<1>2. PICK r : r = [pc |-> op, b |-> b, to |-> to, read |-> br[b].head, tag |-> tag]
    OBVIOUS
<1>3. r.pc = op /\ r.b = b /\ r.to = to /\ (r.tag # NoTag => r.tag[3] = r.read)
    BY <1>1, <1>2
<1>4. HandlerFits(r, props, br)
    BY <1>3 DEF HandlerFits
<1>5. /\ hreq[u].pc # "merged" /\ UNCHANGED <<branchVars, props, stamp, reviews, clashes, unlinked>>
    BY DEF ReadBranch, uiBranchForm, Enter, textVars
<1> QED BY <1>1, <1>2, <1>4, <1>5, OnlyHandlersMove

\* Review comments, and a delete that finds the branch no longer active.
LEMMA CommentSound ==
    ASSUME PropSound, NEW u \in People,
           \/ \E b \in PBranches : handleCreateReviewComment(u, b)
           \/ \E c \in rcomments : handleDeleteReviewComment(u, c)
           \/ DeleteRefused(u)
    PROVE  PropSound'
<1>1. /\ Call(u) \/ Leave(u)
      /\ hreq[u].pc # "merged" /\ UNCHANGED <<branchVars, props, stamp, reviews, clashes, unlinked>>
    BY DEF handleCreateReviewComment, handleDeleteReviewComment, DeleteRefused, Call, Enter, textVars
<1>2. PICK r : hreq' = [hreq EXCEPT ![u] = r] /\ r.pc = "idle" /\ HandlerFits(r, props, br)
    BY <1>1, CallIdles
<1> QED BY <1>1, <1>2, OnlyHandlersMove

\* A GET changes only what the caller has read.
LEMMA GetSound ==
    ASSUME PropSound, UNCHANGED <<branchVars, props, stamp, reviews, hreq, clashes, unlinked>>
    PROVE  PropSound'
BY DEF PropSound, ProposalsMatchBranches, branchVars, PropTypeOK, HandlersFit, MergedProposalHasMergedBranch,
       OpenOnMergedExplained, IfMatchLostOnlyByRace, NoneSinceBase, OlderReplayed

\* UpdateBranchDraft, SetBranchAutoMerge and DeleteBranch.
LEMMA BranchWriteSound ==
    ASSUME PropSound, NEW u \in People, UpdateBranchDraft(u) \/ SetBranchAutoMerge(u) \/ DeleteBranch(u)
    PROVE  PropSound'
<1>1. PICK h, b : h = hreq[u] /\ b = h.b
    OBVIOUS
<1>2. h.pc \in {"draft", "auto", "delete"}
    BY <1>1 DEF UpdateBranchDraft, SetBranchAutoMerge, DeleteBranch
<1>3. b \in PBranches /\ (h.pc # "delete" => h.to \in BOOLEAN)
    BY <1>1, <1>2, PropParts DEF HandlersFit, HandlerFits
<1>4. br[b] \in BranchRows
    BY <1>3, PropParts
<1>5. CASE UpdateBranchDraft(u)
    <2>1. PICK row : row = [br[b] EXCEPT !.draft = h.to]
        OBVIOUS
    <2>2. row \in BranchRows
        BY <1>1, <1>3, <1>4, <1>5, <2>1 DEF BranchRows, UpdateBranchDraft
    <2>3. row.head = br[b].head /\ row.base = br[b].base /\ row.status = br[b].status
        BY <1>4, <2>1 DEF BranchRows
    <2>4. WriteBranch(u, row)
        BY <1>1, <1>5, <2>1 DEF UpdateBranchDraft
    <2> QED BY <1>1, <1>2, <2>2, <2>3, <2>4, WriteSound
<1>6. CASE SetBranchAutoMerge(u)
    <2>1. PICK row : row = [br[b] EXCEPT !.auto = h.to]
        OBVIOUS
    <2>2. row \in BranchRows
        BY <1>1, <1>3, <1>4, <1>6, <2>1 DEF BranchRows, SetBranchAutoMerge
    <2>3. row.head = br[b].head /\ row.base = br[b].base /\ row.status = br[b].status
        BY <1>4, <2>1 DEF BranchRows
    <2>4. WriteBranch(u, row)
        BY <1>1, <1>6, <2>1 DEF SetBranchAutoMerge
    <2> QED BY <1>1, <1>2, <2>2, <2>3, <2>4, WriteSound
<1>7. CASE DeleteBranch(u)
    <2>1. PICK row : row = [br[b] EXCEPT !.status = "abandoned"]
        OBVIOUS
    <2>2. row \in BranchRows
        BY <1>4, <2>1 DEF BranchRows
    <2>3. row.head = br[b].head /\ row.base = br[b].base /\ row.status = "abandoned" /\ br[b].status = "active"
        BY <1>1, <1>4, <1>7, <2>1 DEF BranchRows, DeleteBranch
    <2>4. WriteBranch(u, row)
        BY <1>1, <1>7, <2>1 DEF DeleteBranch
    <2> QED BY <1>1, <1>2, <2>2, <2>3, <2>4, WriteSound
<1> QED BY <1>5, <1>6, <1>7

(* Every step of the handlers of proposals and reviews keeps the invariant. *)
LEMMA PropSoundStep == PropSound /\ [PropNext]_propVars => PropSound'
<1> SUFFICES ASSUME PropSound, [PropNext]_propVars PROVE PropSound'
    OBVIOUS
<1>1. CASE UNCHANGED propVars
    BY <1>1, GetSound DEF propVars, branchVars
<1>2. ASSUME NEW u \in People, PropStep(u)
      PROVE  PropSound'
    BY <1>2, EditSound, MarkSound, MarkFailsSound, BranchWriteSound, CommentSound DEF PropStep
<1>3. ASSUME NEW u \in People, PropRequest(u)
      PROVE  PropSound'
    <2>1. CASE CommitMain(u)
        BY <2>1, CommitMainSound
    <2>2. ASSUME NEW b \in PBranches,
                 \/ Commit(u, b) \/ uiNewCommit(u, b) \/ handleRebase(u, b) \/ Merge(u, b)
                 \/ \E a \in BOOLEAN : handleReview(u, b, a) \/ uiSubmitReview(u, b, a)
                 \/ handleCreateReviewComment(u, b) \/ uiPostComment(u, b)
                 \/ handleCreateProposal(u, b) \/ uiCreateProposal(u, b)
          PROVE  PropSound'
        BY <2>2, CommitSound, RebaseSound, MergeSound, ReviewSound, CommentSound, CreateSound
        DEF uiNewCommit, uiSubmitReview, uiPostComment, uiCreateProposal
    <2>3. ASSUME NEW b \in PBranches, handleGetBranch(u, b)
          PROVE  PropSound'
        BY <2>3, GetSound DEF handleGetBranch, textVars
    <2>4. ASSUME NEW b \in PBranches,
                 \/ \E d \in BOOLEAN : handleUpdateBranch(u, b, d) \/ uiSetAutoMerge(u, b, d)
                 \/ handleEnableAutoMerge(u, b) \/ handleDisableAutoMerge(u, b) \/ handleDeleteBranch(u, b)
                 \/ uiDeleteBranch(u, b) \/ uiPromoteBranch(u, b)
          PROVE  PropSound'
        BY <2>4, ReadBranchSound DEF handleUpdateBranch, uiSetAutoMerge, handleEnableAutoMerge,
           handleDisableAutoMerge, handleDeleteBranch, uiDeleteBranch, uiPromoteBranch
    <2>5. ASSUME NEW c \in rcomments, handleDeleteReviewComment(u, c) \/ uiDeleteComment(u, c)
          PROVE  PropSound'
        BY <2>5, CommentSound DEF uiDeleteComment
    <2>6. ASSUME NEW i \in DOMAIN props, handleGetProposal(u, i)
          PROVE  PropSound'
        BY <2>6, GetSound DEF handleGetProposal, textVars
    <2>7. ASSUME NEW i \in DOMAIN props,
                 \/ handleUpdateProposal(u, i) \/ handleCloseProposal(u, i)
                 \/ uiEditProposal(u, i) \/ uiCloseProposal(u, i)
          PROVE  PropSound'
        BY <2>7, ReadProposalSound DEF handleUpdateProposal, handleCloseProposal, uiEditProposal, uiCloseProposal
    <2> QED BY <1>3, <2>1, <2>2, <2>3, <2>4, <2>5, <2>6, <2>7 DEF PropRequest
<1> QED BY <1>1, <1>2, <1>3 DEF PropNext

(* The initial state satisfies the invariant. *)
LEMMA PropSoundInit == PropInit => PropSound
<1> SUFFICES ASSUME PropInit PROVE PropSound
    OBVIOUS
<1>1. PICK row : row = [status |-> "active", head |-> 0, base |-> 0, draft |-> FALSE, auto |-> FALSE]
    OBVIOUS
<1>2. row \in BranchRows /\ row.base = 0 /\ row.head = 0
    BY <1>1 DEF BranchRows
<1>3. br = [b \in PBranches |-> row]
    BY <1>1 DEF PropInit
<1>4. /\ seqNo = 0 /\ mainHd = 0 /\ stamp = 0 /\ props = <<>> /\ reviews = {} /\ clashes = {}
      /\ onBranch = [b \in PBranches |-> {}] /\ renamed = [b \in PBranches |-> {}]
    BY DEF PropInit
<1>5. IsFiniteSet({})
    BY FS_EmptySet
<1>6. props \in Seq(ProposalRows) /\ DOMAIN props = {}
    BY <1>4
<1>7. PropTypeOK
    BY <1>2, <1>3, <1>4, <1>5, <1>6 DEF PropTypeOK
<1>8. PICK r : r = Waiting
    OBVIOUS
<1>9. r.pc = "idle" /\ hreq = [u \in People |-> r]
    BY <1>8 DEF Waiting, PropInit
<1>10. HandlersFit
    BY <1>9 DEF HandlersFit, HandlerFits
<1>11. /\ MergedProposalHasMergedBranch /\ OpenOnMergedExplained /\ IfMatchLostOnlyByRace
       /\ NoneSinceBase /\ OlderReplayed
    BY <1>4, <1>6 DEF MergedProposalHasMergedBranch, OpenOnMergedExplained, IfMatchLostOnlyByRace,
       NoneSinceBase, OlderReplayed
<1> QED BY <1>7, <1>10, <1>11 DEF PropSound, ProposalsMatchBranches

\* ProposalsMatchBranches: merges, edits, closes and branch writes that overlap
\* leave proposals and branches disagreeing only where MergeProposal failed, is
\* still to come, or the proposal was opened on a merged branch; a conditional
\* write is lost only to a version that appeared after its If-Match was compared.
THEOREM ProposalsHold == PropSpec => []ProposalsMatchBranches
<1>1. PropSound => ProposalsMatchBranches
    BY DEF PropSound
<1> QED BY <1>1, PropSoundInit, PropSoundStep, PTL DEF PropSpec

\* CountedApprovalByOther: an approval that counts at the current head is by
\* nobody who has committed to the branch, although svc.Commit, handleRebase and
\* handleReview interleave, unless somebody else's rebase replayed the commits of
\* the approver under its own name and the base has passed the originals.
THEOREM ApprovalsHold == PropSpec => []CountedApprovalByOther
<1>1. ASSUME PropSound PROVE CountedApprovalByOther
    <2>p. /\ NoneSinceBase /\ OlderReplayed /\ PropTypeOK
          /\ \A b \in PBranches : br[b].base \in Nat /\ onBranch[b] \subseteq Nat \X People
        BY <1>1, PropParts
    <2>1. \A v \in reviews : v.b \in PBranches
        BY <2>p DEF PropTypeOK
    <2>2. ASSUME NEW r \in reviews, r.approve, r.seq = br[r.b].head, br[r.b].status = "active",
                 NEW c \in onBranch[r.b], c[2] = r.by
          PROVE  c[1] <= br[r.b].base /\ r.by \in renamed[r.b]
        <3>1. r.b \in PBranches /\ c[1] \in Nat /\ br[r.b].base \in Nat
            BY <2>p, <2>1, <2>2
        <3>2. \A d \in onBranch[r.b] : d[2] = r.by => ~(d[1] > br[r.b].base)
            BY <2>p, <2>2 DEF NoneSinceBase
        <3>3. c[1] <= br[r.b].base
            BY <2>2, <3>1, <3>2
        <3> QED BY <2>p, <2>2, <3>1, <3>2, <3>3 DEF OlderReplayed
    <2> QED BY <2>p, <2>2 DEF CountedApprovalByOther
<1> QED BY <1>1, PropSoundInit, PropSoundStep, PTL DEF PropSpec

-----------------------------------------------------------------------------
(* Issues.                                                                 *)

HIDE AccessAssumption

\* The parts of the invariant.
LEMMA IssueParts ==
    ASSUME IssueWritesKept, NEW u \in Users
    PROVE  /\ IssueTypeOK /\ MentionsLinked /\ EditLostOnlyToForm /\ TransitionsAlternate
           /\ CreationFits(u) /\ EditFits(u) /\ MoveFits(u) /\ MentionFits(u) /\ CommentFits(u)
           /\ DOMAIN rq = Users /\ DOMAIN form = Users
BY DEF IssueWritesKept, IssueRequestsFit, IssueRequestFits, IssueTypeOK

\* An interval has as many numbers as its upper end.
LEMMA CountTo ==
    ASSUME NEW k \in Nat
    PROVE  Cardinality(1..k) = k /\ MaxOf(1..k) = k
<1>1. Cardinality(1..k) = k
    BY FS_Interval
<1>2. CASE k = 0
    BY <1>1, <1>2 DEF MaxOf
<1>3. CASE k # 0
    <2>1. k \in 1..k /\ \A n \in 1..k : n <= k
        BY <1>3
    <2>2. \A m \in 1..k : (\A n \in 1..k : n <= m) => m = k
        BY <2>1
    <2>3. (CHOOSE m \in 1..k : \A n \in 1..k : n <= m) = k
        BY <2>1, <2>2
    <2> QED BY <1>1, <2>1, <2>3 DEF MaxOf
<1> QED BY <1>2, <1>3

\* The numbers given so far.
LEMMA Dense ==
    ASSUME IssueWritesKept
    PROVE  \E k \in Nat : DOMAIN issues = 1..k
<1>1. IsFiniteSet(Numbers) /\ DOMAIN issues \subseteq Numbers
    <2>1. 1 \in Int /\ MaxIssues \in Int
        BY IssuesAssumption
    <2>2. IsFiniteSet(1..MaxIssues)
        BY <2>1, FS_Interval
    <2> QED BY <2>2 DEF Numbers, IssueWritesKept, IssueTypeOK
<1>2. Cardinality(DOMAIN issues) \in Nat
    BY <1>1, FS_Subset, FS_CardinalityType
<1> QED BY <1>2 DEF IssueWritesKept, NumbersDense

\* What user v relies on stays when others move.
LEMMA OtherUsersFit ==
    ASSUME NEW v, IssueRequestFits(v), rq'[v] = rq[v],
           DOMAIN issues \subseteq DOMAIN issues', refs \subseteq refs',
           rq[v].pc \in {"number", "insert"} => repoLock' = v /\ DOMAIN issues' = DOMAIN issues,
           rq[v].pc = "move" /\ rq[v].n \notin raced' =>
               rq[v].n \notin raced /\ issues'[rq[v].n].state = issues[rq[v].n].state
    PROVE  IssueRequestFits(v)'
<1>1. CreationFits(v)' /\ EditFits(v)' /\ CommentFits(v)'
    BY DEF IssueRequestFits, CreationFits, EditFits, CommentFits
<1>2. MoveFits(v)'
    BY DEF IssueRequestFits, MoveFits
<1>3. MentionFits(v)'
    BY DEF IssueRequestFits, MentionFits
<1> QED BY <1>1, <1>2, <1>3 DEF IssueRequestFits

\* A request that is over relies on nothing.
LEMMA OverFits ==
    ASSUME NEW u, rq'[u].pc \in {"idle", "delete"}
    PROVE  IssueRequestFits(u)'
BY DEF IssueRequestFits, CreationFits, EditFits, MoveFits, MentionFits, CommentFits

\* A statement that leaves the issues alone and takes nobody's lock.
LEMMA RequestMoves ==
    ASSUME IssueWritesKept, NEW u \in Users, DOMAIN rq' = Users, \A v \in Users \ {u} : rq'[v] = rq[v],
           UNCHANGED <<issues, want, staleForm, net, raced, conflicts>>,
           refs \subseteq refs', linked' \subseteq refs',
           comments' \subseteq CommentRows, \A c \in comments' : c.issue \in DOMAIN issues,
           DOMAIN form' = Users,
           \A v \in Users : form'[v] # NoForm =>
               form'[v].n \in DOMAIN issues /\ \A f \in Fields : form'[v][f] \in Texts,
           repoLock' \in Users \cup {NoUser}, \A v \in Users : v # u /\ repoLock = v => repoLock' = v,
           IssueRequestFits(u)'
    PROVE  IssueWritesKept'
<1>p. /\ IssueTypeOK /\ IssueRequestsFit /\ NumbersDense /\ EditLostOnlyToForm /\ TransitionsAlternate
    BY DEF IssueWritesKept
<1>1. IssueTypeOK'
    BY <1>p DEF IssueTypeOK
<1>2. ASSUME NEW v \in Users
      PROVE  IssueRequestFits(v)'
    <2>1. CASE v = u
        BY <2>1
    <2>2. CASE v # u
        <3>1. rq'[v] = rq[v] /\ IssueRequestFits(v)
            BY <1>p, <2>2 DEF IssueRequestsFit
        <3>2. rq[v].pc \in {"number", "insert"} => repoLock' = v
            BY <2>2, <3>1 DEF IssueRequestFits, CreationFits
        <3> QED BY <3>1, <3>2, OtherUsersFit
    <2> QED BY <2>1, <2>2
<1>3. NumbersDense' /\ MentionsLinked' /\ EditLostOnlyToForm' /\ TransitionsAlternate'
    BY <1>p DEF NumbersDense, MentionsLinked, EditLostOnlyToForm, TransitionsAlternate
<1> QED BY <1>1, <1>2, <1>3 DEF IssueWritesKept, IssueRequestsFit

\* The same, for a request that has a new record.
LEMMA StatementKeeps ==
    ASSUME IssueWritesKept, NEW u \in Users, NEW r, rq' = [rq EXCEPT ![u] = r],
           UNCHANGED <<issues, want, staleForm, net, raced, conflicts>>,
           refs \subseteq refs', linked' \subseteq refs',
           comments' \subseteq CommentRows, \A c \in comments' : c.issue \in DOMAIN issues,
           DOMAIN form' = Users,
           \A v \in Users : form'[v] # NoForm =>
               form'[v].n \in DOMAIN issues /\ \A f \in Fields : form'[v][f] \in Texts,
           repoLock' \in Users \cup {NoUser}, \A v \in Users : v # u /\ repoLock = v => repoLock' = v,
           IssueRequestFits(u)'
    PROVE  IssueWritesKept'
<1>1. DOMAIN rq = Users
    BY IssueParts
<1>2. DOMAIN rq' = Users /\ \A v \in Users \ {u} : rq'[v] = rq[v]
    BY <1>1
<1> QED BY <1>2, RequestMoves

\* A statement that only reads: a request has another record, and perhaps the
\* lock of the repo row.
LEMMA ReadKeeps ==
    ASSUME IssueWritesKept, NEW u \in Users, NEW r, rq' = [rq EXCEPT ![u] = r],
           UNCHANGED <<issues, comments, refs, form, historyVars>>,
           repoLock' \in Users \cup {NoUser}, \A v \in Users : v # u /\ repoLock = v => repoLock' = v,
           IssueRequestFits(u)'
    PROVE  IssueWritesKept'
<1>1. UNCHANGED <<issues, comments, refs, form, want, staleForm, net, raced, linked, conflicts>>
    BY DEF historyVars
<1>2. IssueTypeOK /\ linked \subseteq refs
    BY DEF IssueWritesKept, MentionsLinked
<1> QED BY <1>1, <1>2, StatementKeeps DEF IssueTypeOK

\* The references a text owes are those of an issue there is.
LEMMA OwedFits ==
    ASSUME NEW u, NEW n, NEW text, n \in DOMAIN issues', rq'[u] = upsertIssueBodyRefs(n, text)
    PROVE  IssueRequestFits(u)'
<1>1. /\ rq'[u].pc = "mention" /\ rq'[u].owed = rq'[u].todo
      /\ rq'[u] = [pc |-> "mention", todo |-> rq'[u].todo, owed |-> rq'[u].owed]
      /\ rq'[u].owed = {<<n, m[1], m[2]>> : m \in Mentions[text]}
    BY DEF upsertIssueBodyRefs
<1>2. \A x \in rq'[u].owed : x[1] \in DOMAIN issues'
    BY <1>1
<1>3. MentionFits(u)'
    BY <1>1, <1>2 DEF MentionFits
<1> QED BY <1>1, <1>3 DEF IssueRequestFits, CreationFits, EditFits, MoveFits, CommentFits

\* One reference is inserted, or its issue is missing and nobody is owed it.
LEMMA MentionStepKeeps ==
    ASSUME IssueWritesKept, NEW u \in Users, MentionStep(u)
    PROVE  IssueWritesKept'
<1>p. IssueTypeOK /\ MentionsLinked /\ MentionFits(u) /\ DOMAIN rq = Users
    BY IssueParts
<1>1. PICK x \in rq[u].todo : CreateIssueRef(x) /\ rq' = [rq EXCEPT ![u] = [rq[u] EXCEPT !.todo = @ \ {x}]]
    BY DEF MentionStep, Goto
<1>2. rq[u].pc = "mention" /\ UNCHANGED <<issues, comments, repoLock, form, historyVars>>
    BY DEF MentionStep
<1>3. PICK r : r = [rq[u] EXCEPT !.todo = @ \ {x}]
    OBVIOUS
<1>4. rq[u] = [pc |-> "mention", todo |-> rq[u].todo, owed |-> rq[u].owed]
    BY <1>2, <1>p DEF MentionFits
<1>5. /\ r.pc = "mention" /\ r.todo = rq[u].todo \ {x} /\ r.owed = rq[u].owed
      /\ r = [pc |-> "mention", todo |-> r.todo, owed |-> r.owed]
    BY <1>3, <1>4
<1>6. rq' = [rq EXCEPT ![u] = r] /\ rq'[u] = r
    BY <1>1, <1>3, <1>p
<1>7. refs \subseteq refs' /\ (x[1] \in DOMAIN issues => x \in refs')
    BY <1>1 DEF CreateIssueRef
<1>8. /\ r.owed \ r.todo \subseteq refs'
      /\ \A y \in r.owed : y[1] \in DOMAIN issues
    BY <1>2, <1>5, <1>7, <1>p DEF MentionFits
<1>9. IssueRequestFits(u)'
    BY <1>2, <1>5, <1>6, <1>8 DEF IssueRequestFits, MentionFits, CreationFits, EditFits, MoveFits, CommentFits
<1>10. UNCHANGED <<want, staleForm, net, raced, conflicts, linked>>
    BY <1>2 DEF historyVars
<1>11. linked' \subseteq refs'
    BY <1>7, <1>10, <1>p DEF MentionsLinked
<1> QED BY <1>2, <1>6, <1>7, <1>9, <1>10, <1>11, <1>p, StatementKeeps DEF IssueTypeOK

\* A reference that fails is owed no longer.
LEMMA MentionFailsKeeps ==
    ASSUME IssueWritesKept, NEW u \in Users, MentionFails(u)
    PROVE  IssueWritesKept'
<1>p. IssueTypeOK /\ MentionFits(u) /\ DOMAIN rq = Users
    BY IssueParts
<1>1. PICK x \in rq[u].todo : rq' = [rq EXCEPT ![u] = [pc |-> "mention", todo |-> rq[u].todo \ {x}, owed |-> rq[u].owed \ {x}]]
    BY DEF MentionFails, Goto
<1>2. rq[u].pc = "mention" /\ UNCHANGED <<issues, comments, refs, repoLock, form, historyVars>>
    BY DEF MentionFails
<1>3. PICK r : r = [pc |-> "mention", todo |-> rq[u].todo \ {x}, owed |-> rq[u].owed \ {x}]
    OBVIOUS
<1>5. /\ r.pc = "mention" /\ r.todo = rq[u].todo \ {x} /\ r.owed = rq[u].owed \ {x}
      /\ r = [pc |-> "mention", todo |-> r.todo, owed |-> r.owed]
    BY <1>3
<1>6. rq' = [rq EXCEPT ![u] = r] /\ rq'[u] = r
    BY <1>1, <1>3, <1>p
<1>8. /\ r.owed \ r.todo \subseteq refs
      /\ \A y \in r.owed : y[1] \in DOMAIN issues
    BY <1>2, <1>5, <1>p DEF MentionFits
<1>9. IssueRequestFits(u)'
    BY <1>2, <1>5, <1>6, <1>8 DEF IssueRequestFits, MentionFits, CreationFits, EditFits, MoveFits, CommentFits
<1> QED BY <1>2, <1>6, <1>9, <1>p, ReadKeeps DEF IssueTypeOK

\* The answer acknowledges references that are all there.
LEMMA AcknowledgeKeeps ==
    ASSUME IssueWritesKept, NEW u \in Users, Acknowledge(u)
    PROVE  IssueWritesKept'
<1>p. IssueTypeOK /\ MentionsLinked /\ MentionFits(u) /\ DOMAIN rq = Users
    BY IssueParts
<1>1. PICK r : r = IdleRq
    OBVIOUS
<1>2. r.pc = "idle" /\ rq' = [rq EXCEPT ![u] = r] /\ rq'[u] = r
    BY <1>1, <1>p DEF Acknowledge, Finish, Goto, IdleRq
<1>3. linked' \subseteq refs
    BY <1>p DEF Acknowledge, MentionFits, MentionsLinked
<1>4. IssueRequestFits(u)'
    BY <1>2, OverFits
<1>5. UNCHANGED <<issues, comments, refs, repoLock, form, want, staleForm, net, raced, conflicts>>
    BY DEF Acknowledge
<1> QED BY <1>2, <1>3, <1>4, <1>5, <1>p, StatementKeeps DEF IssueTypeOK

\* The text of a proposal.
LEMMA ProposalTextKeeps ==
    ASSUME IssueWritesKept, NEW u \in Users, NEW pr, NEW text, ProposalText(u, pr, text)
    PROVE  IssueWritesKept'
<1>p. IssueTypeOK /\ DOMAIN rq = Users
    BY IssueParts
<1>1. PICK r : r = upsertProposalMentionRefs(pr, text)
    OBVIOUS
<1>2. rq' = [rq EXCEPT ![u] = r] /\ rq'[u] = r /\ UNCHANGED <<issues, comments, refs, repoLock, form, historyVars>>
    BY <1>1, <1>p DEF ProposalText, Request
<1>3. /\ r.pc = "mention" /\ r = [pc |-> "mention", todo |-> r.todo, owed |-> r.owed]
      /\ r.owed \subseteq r.todo /\ \A x \in r.owed : x[1] \in DOMAIN issues
    BY <1>1 DEF upsertProposalMentionRefs
<1>4. IssueRequestFits(u)'
    BY <1>2, <1>3 DEF IssueRequestFits, MentionFits, CreationFits, EditFits, MoveFits, CommentFits
<1> QED BY <1>2, <1>4, <1>p, ReadKeeps DEF IssueTypeOK

\* A reference that a user adds.
LEMMA AddRefKeeps ==
    ASSUME IssueWritesKept, NEW u \in Users, NEW n, NEW x, handleAddIssueRef(u, n, x)
    PROVE  IssueWritesKept'
<1>p. IssueTypeOK /\ MentionsLinked /\ DOMAIN rq = Users
    BY IssueParts
<1>1. PICK r : r = IdleRq
    OBVIOUS
<1>2. r.pc = "idle" /\ rq' = [rq EXCEPT ![u] = r] /\ rq'[u] = r
    BY <1>1, <1>p DEF handleAddIssueRef, Request, IdleRq
<1>3. refs \subseteq refs'
    BY DEF handleAddIssueRef, CreateIssueRef
<1>4. IssueRequestFits(u)'
    BY <1>2, OverFits
<1>5. UNCHANGED <<issues, comments, repoLock, form, want, staleForm, net, raced, conflicts, linked>>
    BY DEF handleAddIssueRef, historyVars
<1>6. linked' \subseteq refs'
    BY <1>3, <1>5, <1>p DEF MentionsLinked
<1> QED BY <1>2, <1>3, <1>4, <1>5, <1>6, <1>p, StatementKeeps DEF IssueTypeOK

\* A creation begins.
LEMMA CreateIssueKeeps ==
    ASSUME IssueWritesKept, NEW u \in Users, NEW title \in Texts, NEW body \in Texts,
           handleCreateIssue(u, title, body)
    PROVE  IssueWritesKept'
<1>p. IssueTypeOK /\ DOMAIN rq = Users
    BY IssueParts
<1>1. PICK r : r = [pc |-> "lock", title |-> title, body |-> body]
    OBVIOUS
<1>2. rq' = [rq EXCEPT ![u] = r] /\ rq'[u] = r /\ UNCHANGED <<issues, comments, refs, repoLock, form, historyVars>>
    BY <1>1, <1>p DEF handleCreateIssue, Request
<1>3. r.pc = "lock" /\ r \in [pc : {"lock", "number"}, title : Texts, body : Texts]
    BY <1>1
<1>4. IssueRequestFits(u)'
    BY <1>2, <1>3 DEF IssueRequestFits, MentionFits, CreationFits, EditFits, MoveFits, CommentFits
<1> QED BY <1>2, <1>4, <1>p, ReadKeeps DEF IssueTypeOK

\* SELECT ... FOR UPDATE of the repo row.
LEMMA LockRepoKeeps ==
    ASSUME IssueWritesKept, NEW u \in Users, LockRepo(u)
    PROVE  IssueWritesKept'
<1>p. IssueTypeOK /\ CreationFits(u) /\ DOMAIN rq = Users
    BY IssueParts
<1>1. PICK r : r = [rq[u] EXCEPT !.pc = "number"]
    OBVIOUS
<1>2. /\ rq' = [rq EXCEPT ![u] = r] /\ rq'[u] = r /\ UNCHANGED <<issues, comments, refs, form, historyVars>>
      /\ rq[u].pc = "lock" /\ repoLock = NoUser /\ repoLock' = u
    BY <1>1, <1>p DEF LockRepo, Goto
<1>3. rq[u] \in [pc : {"lock", "number"}, title : Texts, body : Texts]
    BY <1>2, <1>p DEF CreationFits
<1>4. r.pc = "number" /\ r \in [pc : {"lock", "number"}, title : Texts, body : Texts]
    BY <1>1, <1>3
<1>5. IssueRequestFits(u)'
    BY <1>2, <1>4 DEF IssueRequestFits, MentionFits, CreationFits, EditFits, MoveFits, CommentFits
<1> QED BY <1>2, <1>5, IssuesAssumption, ReadKeeps

\* SELECT MAX(number) + 1 under the lock.
LEMMA AllocateNumberKeeps ==
    ASSUME IssueWritesKept, NEW u \in Users, AllocateNumber(u)
    PROVE  IssueWritesKept'
<1>p. IssueTypeOK /\ CreationFits(u) /\ DOMAIN rq = Users
    BY IssueParts
<1>1. PICK k \in Nat : DOMAIN issues = 1..k
    BY Dense
<1>2. MaxOf(DOMAIN issues) = k
    BY <1>1, CountTo
<1>3. PICK r : r = [pc |-> "insert", title |-> rq[u].title, body |-> rq[u].body, n |-> k + 1]
    OBVIOUS
<1>4. /\ rq' = [rq EXCEPT ![u] = r] /\ rq'[u] = r /\ UNCHANGED <<issues, comments, refs, repoLock, form, historyVars>>
      /\ rq[u].pc = "number" /\ k < MaxIssues
    BY <1>2, <1>3, <1>p DEF AllocateNumber, Goto
<1>5. rq[u] \in [pc : {"lock", "number"}, title : Texts, body : Texts] /\ repoLock = u
    BY <1>4, <1>p DEF CreationFits
<1>6. k + 1 \in Numbers /\ 1..(k + 1 - 1) = 1..k
    BY <1>4, IssuesAssumption DEF Numbers
<1>7. r.pc = "insert" /\ r.n = k + 1 /\ r \in [pc : {"insert"}, title : Texts, body : Texts, n : Numbers]
    BY <1>3, <1>5, <1>6
<1>8. CreationFits(u)'
    BY <1>1, <1>4, <1>5, <1>6, <1>7 DEF CreationFits
<1>9. IssueRequestFits(u)'
    BY <1>4, <1>7, <1>8 DEF IssueRequestFits, MentionFits, EditFits, MoveFits, CommentFits
<1> QED BY <1>4, <1>9, <1>p, ReadKeeps DEF IssueTypeOK

\* A creation that fails gives the lock back.
LEMMA CreateIssueFailsKeeps ==
    ASSUME IssueWritesKept, NEW u \in Users, CreateIssueFails(u)
    PROVE  IssueWritesKept'
<1>p. IssueTypeOK /\ CreationFits(u) /\ DOMAIN rq = Users
    BY IssueParts
<1>1. PICK r : r = IdleRq
    OBVIOUS
<1>2. /\ r.pc = "idle" /\ rq' = [rq EXCEPT ![u] = r] /\ rq'[u] = r
      /\ rq[u].pc \in {"number", "insert"} /\ repoLock' = NoUser
      /\ UNCHANGED <<issues, comments, refs, form, historyVars>>
    BY <1>1, <1>p DEF CreateIssueFails, Finish, Goto, IdleRq
<1>3. repoLock = u
    BY <1>2, <1>p DEF CreationFits
<1>4. IssueRequestFits(u)'
    BY <1>2, OverFits
<1> QED BY <1>2, <1>3, <1>4, ReadKeeps

\* An edit through the API reads the row.
LEMMA UpdateRequestKeeps ==
    ASSUME IssueWritesKept, NEW u \in Users, NEW n, NEW F \in SUBSET Fields, NEW x \in Texts,
           handleUpdateIssue(u, n, [f \in F |-> x])
    PROVE  IssueWritesKept'
<1>p. IssueTypeOK /\ DOMAIN rq = Users
    BY IssueParts
<1>1. PICK set, row : set = [f \in F |-> x] /\ row = issues[n]
    OBVIOUS
<1>2. PICK r : r = [pc |-> "edit", n |-> n, set |-> set, asked |-> DOMAIN set, row |-> row]
    OBVIOUS
<1>3. /\ rq' = [rq EXCEPT ![u] = r] /\ rq'[u] = r /\ UNCHANGED <<issues, comments, refs, repoLock, form, historyVars>>
      /\ n \in DOMAIN issues
    BY <1>1, <1>2, <1>p DEF handleUpdateIssue, Request
<1>4. DOMAIN set = F /\ \A f \in F : set[f] \in Texts
    BY <1>1
<1>5. r.pc = "edit" /\ r.n = n /\ r.set = set /\ r.asked = F
    BY <1>2, <1>4
<1>6. IssueRequestFits(u)'
    BY <1>3, <1>4, <1>5 DEF IssueRequestFits, MentionFits, CreationFits, EditFits, MoveFits, CommentFits
<1> QED BY <1>3, <1>6, <1>p, ReadKeeps DEF IssueTypeOK

\* The page of an issue.
LEMMA LoadPageKeeps ==
    ASSUME IssueWritesKept, NEW u \in Users, NEW n, LoadIssuePage(u, n)
    PROVE  IssueWritesKept'
<1>p. IssueTypeOK /\ MentionsLinked /\ DOMAIN rq = Users /\ DOMAIN form = Users
    BY IssueParts
<1>1. PICK r, w : r = rq[u] /\ w = [n |-> n, title |-> issues[n].title, body |-> issues[n].body]
    OBVIOUS
<1>2. /\ n \in DOMAIN issues /\ r.pc = "idle" /\ rq' = rq /\ form' = [form EXCEPT ![u] = w]
      /\ UNCHANGED <<issues, comments, refs, repoLock, historyVars>>
    BY <1>1 DEF LoadIssuePage
<1>3. DOMAIN rq' = Users /\ rq'[u] = r /\ \A v \in Users \ {u} : rq'[v] = rq[v]
    BY <1>1, <1>2, <1>p
<1>4. w.n = n /\ \A f \in Fields : w[f] \in Texts
    BY <1>1, <1>2, <1>p DEF IssueTypeOK, IssueRows, Fields
<1>5. /\ DOMAIN form' = Users
      /\ \A v \in Users : form'[v] # NoForm =>
            form'[v].n \in DOMAIN issues /\ \A f \in Fields : form'[v][f] \in Texts
    BY <1>2, <1>4, <1>p DEF IssueTypeOK
<1>6. IssueRequestFits(u)'
    BY <1>2, <1>3, OverFits
<1>7. UNCHANGED <<want, staleForm, net, raced, conflicts, linked>>
    BY <1>2 DEF historyVars
<1> QED BY <1>2, <1>3, <1>5, <1>6, <1>7, <1>p, RequestMoves DEF IssueTypeOK, MentionsLinked

\* The form of the page sends every field.
LEMMA FormKeeps ==
    ASSUME IssueWritesKept, NEW u \in Users, NEW f \in Fields, NEW x \in Texts, uiEditIssue(u, f, x)
    PROVE  IssueWritesKept'
<1>p. IssueTypeOK /\ MentionsLinked /\ DOMAIN rq = Users /\ DOMAIN form = Users
    BY IssueParts
<1>1. PICK n, set, row : /\ n = form[u].n /\ row = issues[n]
                         /\ set = [g \in Fields |-> IF g = f THEN x ELSE form[u][g]]
    OBVIOUS
<1>2. PICK r : r = [pc |-> "edit", n |-> n, asked |-> {f}, row |-> row, set |-> set]
    OBVIOUS
<1>3. /\ form[u] # NoForm /\ form' = [form EXCEPT ![u] = NoForm]
      /\ rq' = [rq EXCEPT ![u] = r] /\ rq'[u] = r /\ UNCHANGED <<issues, comments, refs, repoLock, historyVars>>
    BY <1>1, <1>2, <1>p DEF uiEditIssue, Request
<1>4. n \in DOMAIN issues /\ \A g \in Fields : form[u][g] \in Texts
    BY <1>1, <1>3, <1>p DEF IssueTypeOK
<1>5. DOMAIN set = Fields /\ \A g \in Fields : set[g] \in Texts
    BY <1>1, <1>4
<1>6. r.pc = "edit" /\ r.n = n /\ r.set = set /\ r.asked = {f}
    BY <1>2
<1>7. IssueRequestFits(u)'
    BY <1>3, <1>4, <1>5, <1>6 DEF IssueRequestFits, MentionFits, CreationFits, EditFits, MoveFits, CommentFits
<1>8. /\ DOMAIN form' = Users
      /\ \A v \in Users : form'[v] # NoForm =>
            form'[v].n \in DOMAIN issues /\ \A g \in Fields : form'[v][g] \in Texts
    BY <1>3, <1>p DEF IssueTypeOK
<1>9. UNCHANGED <<want, staleForm, net, raced, conflicts, linked>>
    BY <1>3 DEF historyVars
<1> QED BY <1>3, <1>7, <1>8, <1>9, <1>p, StatementKeeps DEF IssueTypeOK, MentionsLinked

\* A close or a reopen reads the row.
LEMMA TransitionReadKeeps ==
    ASSUME IssueWritesKept, NEW u \in Users, NEW n, NEW to \in States, ReadForTransition(u, n, to)
    PROVE  IssueWritesKept'
<1>p. IssueTypeOK /\ DOMAIN rq = Users
    BY IssueParts
<1>1. PICK r : r = [pc |-> "move", n |-> n, to |-> to]
    OBVIOUS
<1>2. /\ rq' = [rq EXCEPT ![u] = r] /\ rq'[u] = r /\ UNCHANGED <<issues, comments, refs, repoLock, form, historyVars>>
      /\ n \in DOMAIN issues /\ issues[n].state # to
    BY <1>1, <1>p DEF ReadForTransition, Request, StateAllows
<1>3. r.pc = "move" /\ r.n = n /\ r.to = to
    BY <1>1
<1>4. IssueRequestFits(u)'
    BY <1>2, <1>3 DEF IssueRequestFits, MentionFits, CreationFits, EditFits, MoveFits, CommentFits
<1> QED BY <1>2, <1>4, <1>p, ReadKeeps DEF IssueTypeOK

\* A comment is written with the request.
LEMMA CommentKeeps ==
    ASSUME IssueWritesKept, NEW u \in Users, NEW n, NEW body \in Texts, handleCreateIssueComment(u, n, body)
    PROVE  IssueWritesKept'
<1>p. IssueTypeOK /\ MentionsLinked /\ DOMAIN rq = Users
    BY IssueParts
<1>1. PICK r : r = upsertIssueBodyRefs(n, body)
    OBVIOUS
<1>2. /\ rq' = [rq EXCEPT ![u] = r] /\ rq'[u] = r /\ n \in DOMAIN issues
      /\ comments' = comments \cup {[issue |-> n, author |-> u, body |-> body]}
      /\ UNCHANGED <<issues, refs, repoLock, form, want, staleForm, net, raced, conflicts, linked>>
    BY <1>1, <1>p DEF handleCreateIssueComment, Request, historyVars
<1>3. IssueRequestFits(u)'
    BY <1>1, <1>2, OwedFits
<1>4. n \in Numbers
    BY <1>2, <1>p DEF IssueTypeOK
<1>5. comments' \subseteq CommentRows /\ \A c \in comments' : c.issue \in DOMAIN issues
    BY <1>2, <1>4, <1>p DEF IssueTypeOK, CommentRows
<1> QED BY <1>2, <1>3, <1>5, <1>p, StatementKeeps DEF IssueTypeOK, MentionsLinked

\* The edit of a comment reads it.
LEMMA EditCommentKeeps ==
    ASSUME IssueWritesKept, NEW u \in Users, NEW c, NEW n \in Numbers, NEW body \in Texts,
           handleUpdateIssueComment(u, c, n, body)
    PROVE  IssueWritesKept'
<1>p. IssueTypeOK /\ DOMAIN rq = Users
    BY IssueParts
<1>1. PICK r : r = [pc |-> "comment", c |-> c, n |-> n, body |-> body]
    OBVIOUS
<1>2. /\ rq' = [rq EXCEPT ![u] = r] /\ rq'[u] = r /\ UNCHANGED <<issues, comments, refs, repoLock, form, historyVars>>
      /\ c \in CommentRows
    BY <1>1, <1>p DEF handleUpdateIssueComment, Request, IssueTypeOK
<1>3. r.pc = "comment" /\ r.c = c /\ r.n = n /\ r.body = body
    BY <1>1
<1>4. IssueRequestFits(u)'
    BY <1>2, <1>3 DEF IssueRequestFits, MentionFits, CreationFits, EditFits, MoveFits, CommentFits
<1> QED BY <1>2, <1>4, <1>p, ReadKeeps DEF IssueTypeOK

\* UPDATE issue_comments: references are owed to the comment's own issue only.
LEMMA UpdateCommentKeeps ==
    ASSUME IssueWritesKept, NEW u \in Users, UpdateIssueComment(u)
    PROVE  IssueWritesKept'
<1>p. IssueTypeOK /\ MentionsLinked /\ CommentFits(u) /\ DOMAIN rq = Users
    BY IssueParts
<1>1. PICK c, n, body : c = rq[u].c /\ n = rq[u].n /\ body = rq[u].body
    OBVIOUS
<1>2. /\ rq[u].pc = "comment"
      /\ UNCHANGED <<issues, refs, repoLock, form, want, staleForm, net, raced, conflicts, linked>>
    BY DEF UpdateIssueComment, historyVars
<1>3. c \in CommentRows /\ body \in Texts
    BY <1>1, <1>2, <1>p DEF CommentFits
<1>4. CASE c \in comments
    <2>1. PICK m : m = upsertIssueBodyRefs(n, body)
        OBVIOUS
    <2>2. PICK r : r = IF n = c.issue THEN m ELSE [m EXCEPT !.owed = {}]
        OBVIOUS
    <2>3. /\ comments' = (comments \ {c}) \cup {[c EXCEPT !.body = body]}
          /\ rq' = [rq EXCEPT ![u] = r] /\ rq'[u] = r
        BY <1>1, <1>4, <1>p, <2>1, <2>2 DEF UpdateIssueComment, Goto
    <2>4. c.issue \in DOMAIN issues
        BY <1>4, <1>p DEF IssueTypeOK
    <2>5. [c EXCEPT !.body = body] \in CommentRows /\ [c EXCEPT !.body = body].issue = c.issue
        BY <1>3 DEF CommentRows
    <2>6. comments' \subseteq CommentRows /\ \A d \in comments' : d.issue \in DOMAIN issues
        BY <1>p, <2>3, <2>4, <2>5 DEF IssueTypeOK
    <2>7. IssueRequestFits(u)'
        <3>1. CASE n = c.issue
            BY <1>2, <2>1, <2>2, <2>3, <2>4, <3>1, OwedFits
        <3>2. CASE n # c.issue
            <4>1. m = [pc |-> "mention", todo |-> m.todo, owed |-> m.owed]
                BY <2>1 DEF upsertIssueBodyRefs
            <4>2. r.pc = "mention" /\ r.owed = {} /\ r = [pc |-> "mention", todo |-> r.todo, owed |-> r.owed]
                BY <2>2, <3>2, <4>1
            <4> QED BY <2>3, <4>2
                    DEF IssueRequestFits, MentionFits, CreationFits, EditFits, MoveFits, CommentFits
        <3> QED BY <3>1, <3>2
    <2> QED BY <1>2, <1>p, <2>3, <2>6, <2>7, StatementKeeps DEF IssueTypeOK, MentionsLinked
<1>5. CASE c \notin comments
    <2>1. PICK r : r = IdleRq
        OBVIOUS
    <2>2. r.pc = "idle" /\ rq' = [rq EXCEPT ![u] = r] /\ rq'[u] = r /\ comments' = comments
        BY <1>1, <1>5, <1>p, <2>1 DEF UpdateIssueComment, Finish, Goto, IdleRq
    <2>3. IssueRequestFits(u)'
        BY <2>2, OverFits
    <2> QED BY <1>2, <1>p, <2>2, <2>3, StatementKeeps DEF IssueTypeOK, MentionsLinked
<1> QED BY <1>4, <1>5

\* The deletion of a comment.
LEMMA DeleteRequestKeeps ==
    ASSUME IssueWritesKept, NEW u \in Users, NEW c, handleDeleteIssueComment(u, c)
    PROVE  IssueWritesKept'
<1>p. IssueTypeOK /\ DOMAIN rq = Users
    BY IssueParts
<1>1. PICK r : r = [pc |-> "delete", c |-> c]
    OBVIOUS
<1>2. /\ rq' = [rq EXCEPT ![u] = r] /\ rq'[u] = r /\ UNCHANGED <<issues, comments, refs, repoLock, form, historyVars>>
      /\ r.pc = "delete"
    BY <1>1, <1>p DEF handleDeleteIssueComment, Request
<1>3. IssueRequestFits(u)'
    BY <1>2, OverFits
<1> QED BY <1>2, <1>3, <1>p, ReadKeeps DEF IssueTypeOK

\* DELETE FROM issue_comments.
LEMMA DeleteCommentKeeps ==
    ASSUME IssueWritesKept, NEW u \in Users, DeleteIssueComment(u)
    PROVE  IssueWritesKept'
<1>p. IssueTypeOK /\ MentionsLinked /\ DOMAIN rq = Users
    BY IssueParts
<1>1. PICK r : r = IdleRq
    OBVIOUS
<1>2. /\ r.pc = "idle" /\ rq' = [rq EXCEPT ![u] = r] /\ rq'[u] = r /\ comments' \subseteq comments
      /\ UNCHANGED <<issues, refs, repoLock, form, want, staleForm, net, raced, conflicts, linked>>
    BY <1>1, <1>p DEF DeleteIssueComment, Finish, Goto, IdleRq, historyVars
<1>3. IssueRequestFits(u)'
    BY <1>2, OverFits
<1> QED BY <1>2, <1>3, <1>p, StatementKeeps DEF IssueTypeOK, MentionsLinked

\* INSERT INTO issues and COMMIT: the number is still free, for the lock of the
\* repo row is still this request's.
LEMMA InsertIssueKeeps ==
    ASSUME IssueWritesKept, NEW u \in Users, InsertIssue(u)
    PROVE  IssueWritesKept'
<1>p. /\ IssueTypeOK /\ CreationFits(u) /\ MentionsLinked /\ EditLostOnlyToForm /\ TransitionsAlternate
      /\ DOMAIN rq = Users /\ IssueRequestsFit
    BY IssueParts DEF IssueWritesKept
<1>1. PICK k, title, body : k = rq[u].n /\ title = rq[u].title /\ body = rq[u].body
    OBVIOUS
<1>2. rq[u].pc = "insert" /\ UNCHANGED <<comments, refs, form, staleForm, net, raced, linked>>
    BY DEF InsertIssue
<1>3. k \in Numbers /\ k \in Nat \ {0} /\ title \in Texts /\ body \in Texts /\ DOMAIN issues = 1..(k - 1) /\ repoLock = u
    BY <1>1, <1>2, <1>p DEF CreationFits, Numbers
<1>4. k \notin DOMAIN issues /\ DOMAIN issues \cup {k} = 1..k /\ NoUser # u
    BY <1>3, IssuesAssumption
<1>5. PICK row, asked, r : /\ row = [author |-> u, title |-> title, body |-> body, state |-> "open"]
                           /\ asked = [title |-> title, body |-> body] /\ r = upsertIssueBodyRefs(k, body)
    OBVIOUS
<1>6. /\ issues' = [n \in DOMAIN issues \cup {k} |-> IF n = k THEN row ELSE issues[n]]
      /\ want' = [n \in DOMAIN issues' |-> IF n = k THEN asked ELSE want[n]]
      /\ rq' = [rq EXCEPT ![u] = r] /\ conflicts' = conflicts /\ repoLock' = NoUser
    BY <1>1, <1>3, <1>4, <1>5 DEF InsertIssue, Goto
<1>7. /\ DOMAIN issues' = 1..k /\ issues'[k] = row /\ \A n \in DOMAIN issues : issues'[n] = issues[n]
      /\ DOMAIN want' = 1..k /\ want'[k] = asked /\ \A n \in DOMAIN issues : want'[n] = want[n]
    BY <1>4, <1>6
<1>8. /\ row \in IssueRows /\ DOMAIN asked = Fields /\ row.state = "open"
      /\ \A f \in Fields : row[f] = asked[f]
    BY <1>3, <1>5 DEF IssueRows, States, Fields
<1>9. /\ DOMAIN issues \subseteq DOMAIN issues' /\ DOMAIN issues' \subseteq Numbers
      /\ \A n \in DOMAIN issues' : n = k \/ n \in DOMAIN issues
    BY <1>3, <1>4, <1>7, <1>p DEF IssueTypeOK
<1>10. IssueTypeOK'
    <2>1. \A n \in DOMAIN issues' : issues'[n] \in IssueRows /\ DOMAIN want'[n] = Fields
        BY <1>7, <1>8, <1>9, <1>p DEF IssueTypeOK
    <2>2. DOMAIN rq' = Users
        BY <1>6, <1>p
    <2>3. \A v \in Users : form[v] # NoForm => form[v].n \in DOMAIN issues' /\ \A f \in Fields : form[v][f] \in Texts
        BY <1>9, <1>p DEF IssueTypeOK
    <2>4. \A c \in comments : c.issue \in DOMAIN issues'
        BY <1>9, <1>p DEF IssueTypeOK
    <2>5. net \in [Numbers -> Int] /\ \A n \in Numbers \ DOMAIN issues' : net[n] = 0
        BY <1>9, <1>p DEF IssueTypeOK
    <2> QED BY <1>2, <1>6, <1>7, <1>9, <1>p, <2>1, <2>2, <2>3, <2>4, <2>5 DEF IssueTypeOK
<1>11. ASSUME NEW v \in Users
       PROVE  IssueRequestFits(v)'
    <2>1. CASE v = u
        <3>1. rq'[u] = upsertIssueBodyRefs(k, body) /\ k \in DOMAIN issues'
            BY <1>3, <1>5, <1>6, <1>7, <1>p
        <3> QED BY <2>1, <3>1, OwedFits
    <2>2. CASE v # u
        <3>1. rq'[v] = rq[v] /\ IssueRequestFits(v)
            BY <1>6, <1>p, <2>2 DEF IssueRequestsFit
        <3>2. rq[v].pc \notin {"number", "insert"}
            BY <1>3, <2>2, <3>1 DEF IssueRequestFits, CreationFits
        <3>3. rq[v].pc = "move" => rq[v].n \in DOMAIN issues
            BY <3>1 DEF IssueRequestFits, MoveFits
        <3>4. rq[v].pc = "move" => issues'[rq[v].n].state = issues[rq[v].n].state
            BY <1>7, <3>3
        <3> QED BY <1>2, <1>9, <3>1, <3>2, <3>4, OtherUsersFit
    <2> QED BY <2>1, <2>2
<1>12. NumbersDense'
    <2>1. conflicts = 0
        BY DEF IssueWritesKept, NumbersDense
    <2>2. Cardinality(1..k) = k
        BY <1>3, CountTo
    <2> QED BY <1>6, <1>7, <2>1, <2>2 DEF NumbersDense
<1>13. MentionsLinked'
    BY <1>2, <1>p DEF MentionsLinked
<1>14. EditLostOnlyToForm'
    BY <1>2, <1>7, <1>8, <1>9, <1>p DEF EditLostOnlyToForm
<1>15. TransitionsAlternate'
    BY <1>2, <1>3, <1>4, <1>7, <1>8, <1>9, <1>p DEF TransitionsAlternate, IssueTypeOK
<1> QED BY <1>10, <1>11, <1>12, <1>13, <1>14, <1>15 DEF IssueWritesKept, IssueRequestsFit

\* UPDATE issues: the columns of the request are replaced, and what the request
\* did not ask for is lost to its form only.
LEMMA UpdateIssueKeeps ==
    ASSUME IssueWritesKept, NEW u \in Users, UpdateIssue(u)
    PROVE  IssueWritesKept'
<1>p. /\ IssueTypeOK /\ EditFits(u) /\ MentionsLinked /\ EditLostOnlyToForm /\ TransitionsAlternate
      /\ DOMAIN rq = Users /\ IssueRequestsFit
    BY IssueParts DEF IssueWritesKept
<1>1. PICK k, set, asked, read : k = rq[u].n /\ set = rq[u].set /\ asked = rq[u].asked /\ read = rq[u].row
    OBVIOUS
<1>2. rq[u].pc = "edit" /\ UNCHANGED <<comments, refs, repoLock, form, net, raced, linked, conflicts>>
    BY DEF UpdateIssue
<1>3. /\ k \in DOMAIN issues /\ asked \subseteq DOMAIN set /\ DOMAIN set \subseteq Fields
      /\ \A f \in DOMAIN set : set[f] \in Texts
    BY <1>1, <1>2, <1>p DEF EditFits
<1>old. PICK old, told : old = issues[k] /\ told = want[k]
    OBVIOUS
<1>new. PICK row, wanted : /\ row = UpdatedRow(old, read, set)
                           /\ wanted = [f \in Fields |-> IF f \in asked THEN set[f] ELSE told[f]]
    OBVIOUS
<1>4. /\ old = issues[k] /\ row = UpdatedRow(old, read, set) /\ told = want[k]
      /\ wanted = [f \in Fields |-> IF f \in asked THEN set[f] ELSE told[f]]
    BY <1>old, <1>new
<1>5. issues' = [issues EXCEPT ![k] = row] /\ want' = [want EXCEPT ![k] = wanted]
    BY <1>1, <1>4 DEF UpdateIssue
<1>6. staleForm' = (staleForm \ {<<k, f>> : f \in asked})
                     \cup {<<k, f>> : f \in {g \in DOMAIN set \ asked : set[g] # told[g]}}
    BY <1>1, <1>4 DEF UpdateIssue
<1>7. /\ DOMAIN issues' = DOMAIN issues /\ issues'[k] = row /\ \A n \in DOMAIN issues \ {k} : issues'[n] = issues[n]
      /\ DOMAIN want' = DOMAIN want /\ want'[k] = wanted /\ \A n \in DOMAIN want \ {k} : want'[n] = want[n]
    BY <1>3, <1>5, <1>p DEF IssueTypeOK
<1>8. old \in IssueRows
    BY <1>3, <1>4, <1>p DEF IssueTypeOK
<1>9. /\ row \in IssueRows /\ row.state = old.state
      /\ \A f \in Fields : row[f] = IF f \in DOMAIN set THEN set[f] ELSE old[f]
    <2>1. DOMAIN old = {"author", "title", "body", "state"}
        BY <1>8 DEF IssueRows
    <2>2. row = [c \in {"author", "title", "body", "state"} |-> IF c \in DOMAIN set THEN set[c] ELSE old[c]]
        BY <1>4, <2>1 DEF UpdatedRow
    <2>3. "author" \notin DOMAIN set /\ "state" \notin DOMAIN set
        BY <1>3 DEF Fields
    <2>4. /\ row.author = old.author /\ row.state = old.state
          /\ row.title = (IF "title" \in DOMAIN set THEN set["title"] ELSE old.title)
          /\ row.body = (IF "body" \in DOMAIN set THEN set["body"] ELSE old.body)
        BY <2>2, <2>3
    <2>5. row.author \in Users /\ row.title \in Texts /\ row.body \in Texts /\ row.state \in States
        BY <1>3, <1>8, <2>4 DEF IssueRows
    <2>6. row = [author |-> row.author, title |-> row.title, body |-> row.body, state |-> row.state]
        BY <2>2
    <2>7. row \in IssueRows
        BY <2>5, <2>6 DEF IssueRows
    <2> QED BY <2>2, <2>4, <2>7 DEF Fields
<1>10. \A n \in DOMAIN issues : issues'[n].state = issues[n].state
    BY <1>4, <1>7, <1>9
<1>11. IssueTypeOK'
    <2>1. \A n \in DOMAIN issues' : issues'[n] \in IssueRows /\ DOMAIN want'[n] = Fields
        BY <1>4, <1>7, <1>9, <1>p DEF IssueTypeOK
    <2>2. DOMAIN rq' = Users
        BY <1>p DEF UpdateIssue, Goto, Finish
    <2> QED BY <1>2, <1>7, <1>p, <2>1, <2>2 DEF IssueTypeOK
<1>12. ASSUME NEW v \in Users
       PROVE  IssueRequestFits(v)'
    <2>1. CASE v = u
        <3>1. CASE "body" \in DOMAIN set
            <4>1. rq'[u] = upsertIssueBodyRefs(k, set.body)
                BY <1>1, <1>p, <3>1 DEF UpdateIssue, Goto
            <4> QED BY <1>3, <1>7, <2>1, <4>1, OwedFits
        <3>2. CASE "body" \notin DOMAIN set
            <4>1. rq'[u].pc = "idle"
                BY <1>1, <1>p, <3>2 DEF UpdateIssue, Finish, Goto, IdleRq
            <4> QED BY <2>1, <4>1, OverFits
        <3> QED BY <3>1, <3>2
    <2>2. CASE v # u
        <3>1. rq'[v] = rq[v] /\ IssueRequestFits(v)
            BY <1>p, <2>2 DEF IssueRequestsFit, UpdateIssue, Finish, Goto
        <3>2. rq[v].pc \in {"number", "insert"} => repoLock' = v
            BY <1>2, <3>1 DEF IssueRequestFits, CreationFits
        <3>3. rq[v].pc = "move" => rq[v].n \in DOMAIN issues
            BY <3>1 DEF IssueRequestFits, MoveFits
        <3>4. rq[v].pc = "move" => issues'[rq[v].n].state = issues[rq[v].n].state
            BY <1>10, <3>3
        <3> QED BY <1>2, <1>7, <3>1, <3>2, <3>4, OtherUsersFit
    <2> QED BY <2>1, <2>2
<1>13. NumbersDense' /\ MentionsLinked'
    BY <1>2, <1>7 DEF IssueWritesKept, NumbersDense, MentionsLinked
<1>14. EditLostOnlyToForm'
    <2>1. SUFFICES ASSUME NEW n \in DOMAIN issues, NEW f \in Fields, issues'[n][f] # want'[n][f]
                   PROVE  <<n, f>> \in staleForm'
        BY <1>7 DEF EditLostOnlyToForm
    <2>2. CASE n # k
        <3>1. <<n, f>> \in staleForm
            BY <1>7, <1>p, <2>1, <2>2 DEF EditLostOnlyToForm, IssueTypeOK
        <3>2. <<n, f>> \notin {<<k, g>> : g \in asked}
            BY <2>2
        <3> QED BY <1>6, <3>1, <3>2
    <2>3. CASE n = k
        <3>1. row[f] # wanted[f]
            BY <1>7, <2>1, <2>3
        <3>2. f \notin asked
            BY <1>3, <1>4, <1>9, <3>1
        <3>3. CASE f \in DOMAIN set
            BY <1>4, <1>6, <1>9, <2>3, <3>1, <3>2, <3>3
        <3>4. CASE f \notin DOMAIN set
            <4>1. old[f] # told[f]
                BY <1>4, <1>9, <3>1, <3>2, <3>4
            <4>2. <<n, f>> \in staleForm
                BY <1>4, <1>p, <2>3, <4>1 DEF EditLostOnlyToForm
            <4>3. <<n, f>> \notin {<<k, g>> : g \in asked}
                BY <3>2
            <4> QED BY <1>6, <4>2, <4>3
        <3> QED BY <3>3, <3>4
    <2> QED BY <2>2, <2>3
<1>15. TransitionsAlternate'
    BY <1>2, <1>7, <1>10, <1>p DEF TransitionsAlternate
<1> QED BY <1>11, <1>12, <1>13, <1>14, <1>15 DEF IssueWritesKept, IssueRequestsFit

\* UPDATE issues SET state: the state the caller read is still there, unless
\* another transition of the issue is under way or came in between.
LEMMA MoveKeeps ==
    ASSUME IssueWritesKept, NEW u \in Users, NEW to \in States, MoveIssue(u, to),
           net' = [net EXCEPT ![rq[u].n] = IF to = "closed" THEN net[rq[u].n] + 1 ELSE net[rq[u].n] - 1]
    PROVE  IssueWritesKept'
<1>p. /\ IssueTypeOK /\ MoveFits(u) /\ MentionsLinked /\ EditLostOnlyToForm /\ TransitionsAlternate
      /\ DOMAIN rq = Users /\ IssueRequestsFit
    BY IssueParts DEF IssueWritesKept
<1>1. PICK k, r, d : k = rq[u].n /\ r = IdleRq /\ d = IF to = "closed" THEN net[k] + 1 ELSE net[k] - 1
    OBVIOUS
<1>2. /\ rq[u].pc = "move" /\ rq[u].to = to /\ rq' = [rq EXCEPT ![u] = r] /\ r.pc = "idle"
      /\ net' = [net EXCEPT ![k] = d]
      /\ UNCHANGED <<comments, refs, repoLock, form, want, staleForm, linked, conflicts>>
    BY <1>1 DEF MoveIssue, Finish, Goto, IdleRq
<1>3. k \in DOMAIN issues /\ (k \notin raced => issues[k].state # to)
    BY <1>1, <1>2, <1>p DEF MoveFits
<1>4. PICK old, row : old = issues[k] /\ row = [old EXCEPT !.state = to]
    OBVIOUS
<1>5. issues' = [issues EXCEPT ![k] = row]
    BY <1>1, <1>4 DEF MoveIssue
<1>6. DOMAIN issues' = DOMAIN issues /\ issues'[k] = row /\ \A n \in DOMAIN issues \ {k} : issues'[n] = issues[n]
    BY <1>3, <1>5
<1>7. old \in IssueRows
    BY <1>3, <1>4, <1>p DEF IssueTypeOK
<1>8. row \in IssueRows /\ row.state = to /\ \A f \in Fields : row[f] = old[f]
    BY <1>4, <1>7 DEF IssueRows, Fields
<1>9. raced \subseteq raced' /\ \A v \in Users \ {u} : rq[v].pc = "move" /\ rq[v].n = k => k \in raced'
    BY <1>1 DEF MoveIssue
<1>10. k \in Numbers /\ net \in [Numbers -> Int] /\ d \in Int
    BY <1>1, <1>3, <1>p DEF IssueTypeOK
<1>11. net' \in [Numbers -> Int] /\ net'[k] = d /\ \A n \in Numbers \ {k} : net'[n] = net[n]
    BY <1>2, <1>10
<1>12. IssueTypeOK'
    <2>1. \A n \in DOMAIN issues' : issues'[n] \in IssueRows
        BY <1>6, <1>8, <1>p DEF IssueTypeOK
    <2>2. \A n \in Numbers \ DOMAIN issues' : net'[n] = 0
        BY <1>3, <1>6, <1>11, <1>p DEF IssueTypeOK
    <2>3. DOMAIN rq' = Users
        BY <1>2, <1>p
    <2> QED BY <1>2, <1>6, <1>11, <1>p, <2>1, <2>2, <2>3 DEF IssueTypeOK
<1>13. ASSUME NEW v \in Users
       PROVE  IssueRequestFits(v)'
    <2>1. CASE v = u
        <3>1. rq'[u].pc = "idle"
            BY <1>2, <1>p
        <3> QED BY <2>1, <3>1, OverFits
    <2>2. CASE v # u
        <3>1. rq'[v] = rq[v] /\ IssueRequestFits(v)
            BY <1>2, <1>p, <2>2 DEF IssueRequestsFit
        <3>2. rq[v].pc \in {"number", "insert"} => repoLock' = v
            BY <1>2, <3>1 DEF IssueRequestFits, CreationFits
        <3>3. rq[v].pc = "move" => rq[v].n \in DOMAIN issues
            BY <3>1 DEF IssueRequestFits, MoveFits
        <3>4. rq[v].pc = "move" /\ rq[v].n \notin raced' =>
                 rq[v].n \notin raced /\ issues'[rq[v].n].state = issues[rq[v].n].state
            BY <1>6, <1>9, <2>2, <3>3
        <3> QED BY <1>2, <1>6, <3>1, <3>2, <3>4, OtherUsersFit
    <2> QED BY <2>1, <2>2
<1>14. NumbersDense' /\ MentionsLinked'
    BY <1>2, <1>6 DEF IssueWritesKept, NumbersDense, MentionsLinked
<1>15. EditLostOnlyToForm'
    BY <1>2, <1>4, <1>6, <1>8, <1>p DEF EditLostOnlyToForm
<1>16. TransitionsAlternate'
    <2>1. SUFFICES ASSUME NEW n \in DOMAIN issues, n \notin raced'
                   PROVE  net'[n] = IF issues'[n].state = "closed" THEN 1 ELSE 0
        BY <1>6 DEF TransitionsAlternate
    <2>2. n \notin raced /\ net[n] = IF issues[n].state = "closed" THEN 1 ELSE 0
        BY <1>9, <1>p, <2>1 DEF TransitionsAlternate
    <2>3. CASE n # k
        <3>1. n \in Numbers
            BY <1>p DEF IssueTypeOK
        <3> QED BY <1>6, <1>11, <2>2, <2>3, <3>1
    <2>4. CASE n = k
        <3>1. old.state # to /\ old.state \in States /\ net[k] = IF old.state = "closed" THEN 1 ELSE 0
            BY <1>3, <1>4, <1>7, <2>2, <2>4 DEF IssueRows
        <3>2. d = IF to = "closed" THEN 1 ELSE 0
            BY <1>1, <3>1 DEF States
        <3> QED BY <1>6, <1>8, <1>11, <2>4, <3>2
    <2> QED BY <2>3, <2>4
<1> QED BY <1>12, <1>13, <1>14, <1>15, <1>16 DEF IssueWritesKept, IssueRequestsFit

\* A restart ends every request and rolls back its transaction.
LEMMA RestartKeeps ==
    ASSUME IssueWritesKept, ServerRestarts
    PROVE  IssueWritesKept'
<1>1. /\ rq' = [u \in Users |-> IdleRq] /\ repoLock' = NoUser
      /\ UNCHANGED <<issues, comments, refs, form, want, staleForm, net, raced, linked, conflicts>>
    BY DEF ServerRestarts, historyVars
<1>2. ASSUME NEW u \in Users
      PROVE  IssueRequestFits(u)'
    <2>1. rq'[u].pc = "idle"
        BY <1>1 DEF IdleRq
    <2> QED BY <2>1, OverFits
<1>3. IssueTypeOK'
    BY <1>1 DEF IssueWritesKept, IssueTypeOK
<1>4. NumbersDense' /\ MentionsLinked' /\ EditLostOnlyToForm' /\ TransitionsAlternate'
    BY <1>1 DEF IssueWritesKept, NumbersDense, MentionsLinked, EditLostOnlyToForm, TransitionsAlternate
<1> QED BY <1>2, <1>3, <1>4 DEF IssueWritesKept, IssueRequestsFit

\* A statement of a handler.
LEMMA IssueStepKeeps ==
    ASSUME IssueWritesKept, NEW u \in Users, IssueStep(u)
    PROVE  IssueWritesKept'
<1>1. CASE MentionStep(u) \/ MentionFails(u) \/ Acknowledge(u)
    BY <1>1, MentionStepKeeps, MentionFailsKeeps, AcknowledgeKeeps
<1>2. CASE LockRepo(u) \/ AllocateNumber(u) \/ InsertIssue(u) \/ CreateIssueFails(u)
    BY <1>2, LockRepoKeeps, AllocateNumberKeeps, InsertIssueKeeps, CreateIssueFailsKeeps
<1>3. CASE UpdateIssue(u)
    BY <1>3, UpdateIssueKeeps
<1>4. CASE CloseIssue(u)
    <2>1. "closed" \in States /\ MoveIssue(u, "closed")
        BY <1>4 DEF CloseIssue, States
    <2>2. net' = [net EXCEPT ![rq[u].n] = IF "closed" = "closed" THEN net[rq[u].n] + 1 ELSE net[rq[u].n] - 1]
        BY <1>4 DEF CloseIssue
    <2> QED BY <2>1, <2>2, MoveKeeps
<1>5. CASE ReopenIssue(u)
    <2>1. "open" \in States /\ MoveIssue(u, "open")
        BY <1>5 DEF ReopenIssue, States
    <2>2. net' = [net EXCEPT ![rq[u].n] = IF "open" = "closed" THEN net[rq[u].n] + 1 ELSE net[rq[u].n] - 1]
        BY <1>5 DEF ReopenIssue
    <2> QED BY <2>1, <2>2, MoveKeeps
<1>6. CASE UpdateIssueComment(u) \/ DeleteIssueComment(u)
    BY <1>6, UpdateCommentKeeps, DeleteCommentKeeps
<1> QED BY <1>1, <1>2, <1>3, <1>4, <1>5, <1>6 DEF IssueStep

\* A request of the API or of a web form.
LEMMA IssueRequestKeeps ==
    ASSUME IssueWritesKept, NEW u \in Users, IssueRequest(u)
    PROVE  IssueWritesKept'
<1>p. IssueTypeOK
    BY IssueParts
<1>1. CASE \E x \in Texts : handleCreateIssue(u, x, x) \/ uiNewIssue(u, x, x)
    BY <1>1, CreateIssueKeeps DEF uiNewIssue
<1>2. ASSUME NEW n, ReadForTransition(u, n, "closed") \/ ReadForTransition(u, n, "open")
      PROVE  IssueWritesKept'
    BY <1>2, TransitionReadKeeps DEF States
<1>3. ASSUME NEW n \in Numbers,
             LoadIssuePage(u, n) \/ handleCloseIssue(u, n) \/ handleReopenIssue(u, n)
      PROVE  IssueWritesKept'
    BY <1>2, <1>3, LoadPageKeeps DEF handleCloseIssue, handleReopenIssue
<1>4. ASSUME NEW n \in Numbers, NEW F \in (SUBSET Fields) \ {{}}, NEW x \in Texts,
             handleUpdateIssue(u, n, [f \in F |-> x])
      PROVE  IssueWritesKept'
    <2>1. F \in SUBSET Fields
        OBVIOUS
    <2> QED BY <1>4, <2>1, UpdateRequestKeeps, Zenon
<1>5. ASSUME NEW n \in Numbers, NEW x \in Texts,
             \/ handleCreateIssueComment(u, n, x)
             \/ \E r \in Mentions[x] : handleAddIssueRef(u, n, r)
             \/ \E c \in comments : handleUpdateIssueComment(u, c, n, x)
      PROVE  IssueWritesKept'
    BY <1>5, CommentKeeps, AddRefKeeps, EditCommentKeeps
<1>6. CASE uiIssueClose(u) \/ uiIssueReopen(u)
    BY <1>2, <1>6 DEF uiIssueClose, uiIssueReopen, handleCloseIssue, handleReopenIssue
<1>7. ASSUME NEW x \in Texts, \E f \in Fields : uiEditIssue(u, f, x)
      PROVE  IssueWritesKept'
    BY <1>7, FormKeeps
<1>8. form[u] # NoForm => form[u].n \in Numbers
    BY <1>p DEF IssueTypeOK
<1>9. ASSUME NEW x \in Texts,
             \/ uiCreateIssueComment(u, x)
             \/ \E r \in Mentions[x] : uiAddIssueRef(u, r)
             \/ \E c \in comments : uiEditIssueComment(u, c, x)
      PROVE  IssueWritesKept'
    BY <1>5, <1>8, <1>9 DEF uiCreateIssueComment, uiAddIssueRef, uiEditIssueComment
<1>10. ASSUME NEW x \in Texts, \E p \in {"p"} : ProposalText(u, p, x)
       PROVE  IssueWritesKept'
    BY <1>10, ProposalTextKeeps
<1>11. CASE \E c \in comments : handleDeleteIssueComment(u, c) \/ uiDeleteIssueComment(u, c)
    BY <1>11, DeleteRequestKeeps DEF uiDeleteIssueComment
<1>12. CASE \E n \in Numbers :
               \/ LoadIssuePage(u, n) \/ handleCloseIssue(u, n) \/ handleReopenIssue(u, n)
               \/ \E F \in (SUBSET Fields) \ {{}}, x \in Texts : handleUpdateIssue(u, n, [f \in F |-> x])
               \/ \E x \in Texts : \/ handleCreateIssueComment(u, n, x)
                                   \/ \E r \in Mentions[x] : handleAddIssueRef(u, n, r)
                                   \/ \E c \in comments : handleUpdateIssueComment(u, c, n, x)
    <2>1. PICK n \in Numbers :
               \/ LoadIssuePage(u, n) \/ handleCloseIssue(u, n) \/ handleReopenIssue(u, n)
               \/ \E F \in (SUBSET Fields) \ {{}}, x \in Texts : handleUpdateIssue(u, n, [f \in F |-> x])
               \/ \E x \in Texts : \/ handleCreateIssueComment(u, n, x)
                                   \/ \E r \in Mentions[x] : handleAddIssueRef(u, n, r)
                                   \/ \E c \in comments : handleUpdateIssueComment(u, c, n, x)
        BY <1>12
    <2>2. CASE LoadIssuePage(u, n) \/ handleCloseIssue(u, n) \/ handleReopenIssue(u, n)
        BY <1>3, <2>2
    <2>3. CASE \E F \in (SUBSET Fields) \ {{}}, x \in Texts : handleUpdateIssue(u, n, [f \in F |-> x])
        BY <1>4, <2>3
    <2>4. CASE \E x \in Texts : \/ handleCreateIssueComment(u, n, x)
                                \/ \E r \in Mentions[x] : handleAddIssueRef(u, n, r)
                                \/ \E c \in comments : handleUpdateIssueComment(u, c, n, x)
        BY <1>5, <2>4
    <2> QED BY <2>1, <2>2, <2>3, <2>4
<1>13. CASE \E x \in Texts :
               \/ \E f \in Fields : uiEditIssue(u, f, x)
               \/ uiCreateIssueComment(u, x)
               \/ \E r \in Mentions[x] : uiAddIssueRef(u, r)
               \/ \E c \in comments : uiEditIssueComment(u, c, x)
               \/ \E p \in {"p"} : ProposalText(u, p, x)
    BY <1>7, <1>9, <1>10, <1>13
<1> QED BY <1>1, <1>6, <1>11, <1>12, <1>13, Zenon DEF IssueRequest

\* Nothing happens to a repo's issues.
LEMMA IssueStutterKeeps ==
    ASSUME IssueWritesKept, UNCHANGED issueVars
    PROVE  IssueWritesKept'
<1>1. UNCHANGED <<issues, comments, refs, repoLock, rq, form, want, staleForm, net, raced, linked, conflicts>>
    BY DEF issueVars
<1>2. ASSUME NEW u \in Users
      PROVE  IssueRequestFits(u)'
    <2>1. IssueRequestFits(u)
        BY DEF IssueWritesKept, IssueRequestsFit
    <2>2. rq[u].pc \in {"number", "insert"} => repoLock = u
        BY <2>1 DEF IssueRequestFits, CreationFits
    <2> QED BY <1>1, <2>1, <2>2, OtherUsersFit
<1>3. IssueTypeOK'
    BY <1>1 DEF IssueWritesKept, IssueTypeOK
<1>4. NumbersDense' /\ MentionsLinked' /\ EditLostOnlyToForm' /\ TransitionsAlternate'
    BY <1>1 DEF IssueWritesKept, NumbersDense, MentionsLinked, EditLostOnlyToForm, TransitionsAlternate
<1> QED BY <1>2, <1>3, <1>4 DEF IssueWritesKept, IssueRequestsFit

\* A repo begins without issues.
LEMMA IssuesBegin ==
    ASSUME IssuesInit
    PROVE  IssueWritesKept
<1>1. DOMAIN issues = {} /\ DOMAIN want = {} /\ 1..0 = {}
    BY DEF IssuesInit
<1>2. IssueTypeOK
    BY <1>1 DEF IssuesInit, IssueTypeOK
<1>3. IssueRequestsFit
    BY DEF IssuesInit, IdleRq, IssueRequestsFit, IssueRequestFits,
           CreationFits, EditFits, MoveFits, MentionFits, CommentFits
<1>4. NumbersDense
    BY <1>1, CountTo DEF IssuesInit, NumbersDense
<1>5. MentionsLinked /\ EditLostOnlyToForm /\ TransitionsAlternate
    BY <1>1 DEF IssuesInit, MentionsLinked, EditLostOnlyToForm, TransitionsAlternate
<1> QED BY <1>2, <1>3, <1>4, <1>5 DEF IssueWritesKept

\* Whatever the handlers of the API and of the web page interleave, and wherever
\* a statement fails or the server restarts: issues are numbered 1, 2, 3, ...
\* without a collision, an acknowledged text has its references unless a statement
\* failed or a restart cut the request short, an edit is lost only to a web form loaded before it, and closes and reopens alternate unless
\* two of them overlapped.
THEOREM IssuesHold == IssuesSpec => []IssueWritesKept
<1>1. IssuesInit => IssueWritesKept
    BY IssuesBegin
<1>2. IssueWritesKept /\ [IssuesNext]_issueVars => IssueWritesKept'
    <2>1. SUFFICES ASSUME IssueWritesKept, [IssuesNext]_issueVars
                   PROVE  IssueWritesKept'
        OBVIOUS
    <2>2. CASE ServerRestarts
        BY <2>1, <2>2, RestartKeeps
    <2>3. CASE \E u \in Users : IssueStep(u) \/ IssueRequest(u)
        BY <2>1, <2>3, IssueStepKeeps, IssueRequestKeeps
    <2>4. CASE UNCHANGED issueVars
        BY <2>1, <2>4, IssueStutterKeeps
    <2> QED BY <2>1, <2>2, <2>3, <2>4 DEF IssuesNext
<1> QED BY <1>1, <1>2, PTL DEF IssuesSpec
=============================================================================
