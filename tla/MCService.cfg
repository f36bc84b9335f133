SPECIFICATION Spec
CONSTANTS
    alice = alice
    bob = bob
    acme = acme
    site = site
    q1 = q1
    q2 = q2
    None = None
    Identities = {alice, bob}
    Orgs = {acme}
    Repos = {site}
    Invites = {i1}
    OwnerOf <- MCOwnerOf
    BootstrapAdmin = alice
    Grantable = {"maintainer", "admin"}
    Requests = {q1, q2}
    plain = plain
    both = both
    NoUser = NoUser
    NoForm = NoForm
    Users = {ann, bob}
    Maintainers = {bob}
    Texts = {plain, both}
    Mentions <- MCMentions
    IssueMentions <- MCIssueMentions
    MaxIssues = 2
    MaxIssueReqs = 3
    MaxIssueFaults = 1
    NoTag = NoTag
    People = {ann, bob}
    Leads = {bob}
    PBranches = {topic}
    MaxSeq = 4
    MaxProposals = 2
    MaxHandlers = 4
    MaxHandlerFaults = 1
CHECK_DEADLOCK FALSE
SYMMETRY RequestSymmetry
INVARIANTS
    InvitesSound
    RowsHaveTheirParent
    RepoAdministrable
    IssueWritesKept
    ProposalsMatchBranches
    CountedApprovalByOther
