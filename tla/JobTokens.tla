------------------------------ MODULE JobTokens ------------------------------
(***************************************************************************)
(* Tokens of CI jobs: ci-oidc exchanges the request token of a claimed job *)
(* for a JWT that lives one hour; the API server and the CI registry       *)
(* verify it with keys they fetch from ci-oidc and cache for one hour, and *)
(* allow what the job's permissions allow.  The signing key changes when   *)
(* ci-oidc restarts.  Time is counted in ticks and kept as saturating ages.*)
(***************************************************************************)
EXTENDS Naturals, FiniteSets

CONSTANTS
    TokenJobs,     \* jobs
    JobRepo,       \* JobRepo[j]: repository of a job
    Declared,      \* Declared[j]: permissions its ci.yaml declares
    AllRepos,
    Slots,         \* JWTs held by workers
    Verifiers,     \* "api" and "registry": each has a keyCache
    CacheTTL,      \* lifetime of a key cache, in ticks (1 h)
    TokenTTL,      \* lifetime of a JWT, in ticks (1 h)
    MaxKeys,       \* signing keys used
    MaxFetchFaults,
    NoJWT

ASSUME JobTokensAssumption ==
    /\ JobRepo \in [TokenJobs -> AllRepos]
    /\ CacheTTL \in Nat \ {0} /\ TokenTTL \in Nat /\ MaxKeys \in Nat \ {0}

VARIABLES
    job,         \* "queued", "claimed" or "ended"
    endedAge,    \* ticks since the job ended
    jwt,         \* slot -> [job, repo, perms, key, age], or NoJWT
    signer,      \* [key, pub]: pub is "unread", "read" or "failed" (sync.Once)
    retiredAge,  \* ticks since a key stopped being the signing key
    startAge,    \* ticks since the signing key came into use
    cache,       \* verifier -> [keys, age]; keys = {} and age = CacheTTL before a fetch
    last,        \* outcome of the last verification (history)
    fetchFaults

tokenVars == <<job, endedAge, jwt, signer, retiredAge, startAge, cache, last, fetchFaults>>

Older(n, m) == IF n < m THEN n + 1 ELSE n
Keys == 1..MaxKeys
NoOutcome == [res |-> "none"]

TokensInit ==
    /\ job = [j \in TokenJobs |-> "queued"]
    /\ endedAge = [j \in TokenJobs |-> 0]
    /\ jwt = [s \in Slots |-> NoJWT]
    /\ signer = [key |-> 1, pub |-> "unread"]
    /\ retiredAge = [k \in Keys |-> 0]
    /\ startAge = 0
    /\ cache = [v \in Verifiers |-> [keys |-> {}, age |-> CacheTTL]]
    /\ last = NoOutcome
    /\ fetchFaults = 0

Tick ==
    /\ endedAge' = [j \in TokenJobs |-> IF job[j] = "ended" THEN Older(endedAge[j], TokenTTL + 1) ELSE 0]
    /\ jwt' = [s \in Slots |-> IF jwt[s] = NoJWT THEN NoJWT
                               ELSE [jwt[s] EXCEPT !.age = Older(@, TokenTTL + 1)]]
    /\ retiredAge' = [k \in Keys |-> IF k < signer.key THEN Older(retiredAge[k], CacheTTL) ELSE 0]
    /\ startAge' = Older(startAge, CacheTTL)
    /\ cache' = [v \in Verifiers |-> [cache[v] EXCEPT !.age = Older(@, CacheTTL)]]
    /\ last' = NoOutcome
    /\ UNCHANGED <<job, signer, fetchFaults>>

-----------------------------------------------------------------------------
ClaimJob(j) ==
    /\ job[j] = "queued"
    /\ job' = [job EXCEPT ![j] = "claimed"]
    /\ UNCHANGED <<endedAge, jwt, signer, retiredAge, startAge, cache, fetchFaults>>
    /\ last' = NoOutcome

(* Completed, or reaped after its heartbeats stopped. *)
EndJob(j) ==
    /\ job[j] = "claimed"
    /\ job' = [job EXCEPT ![j] = "ended"]
    /\ UNCHANGED <<endedAge, jwt, signer, retiredAge, startAge, cache, fetchFaults>>
    /\ last' = NoOutcome

(* ci-oidc restarts with a new key: NewLocalSigner generates one, and for   *)
(* KMS the key version is part of its configuration.                        *)
NewSigner ==
    /\ signer.key < MaxKeys
    /\ signer' = [key |-> signer.key + 1, pub |-> "unread"]
    /\ startAge' = 0
    /\ UNCHANGED <<job, endedAge, jwt, retiredAge, cache, fetchFaults>>
    /\ last' = NoOutcome

(* The same key version after a restart: the public key is read again.      *)
SignerRestarts ==
    /\ signer.pub # "unread"
    /\ signer' = [signer EXCEPT !.pub = "unread"]
    /\ UNCHANGED <<job, endedAge, jwt, retiredAge, startAge, cache, fetchFaults>>
    /\ last' = NoOutcome

(* sync.Once: the first use reads the public key, and a failed read is      *)
(* remembered until the process restarts.                                   *)
fetchPublicKey ==
    \/ signer.pub # "unread" /\ UNCHANGED <<signer, fetchFaults>>
    \/ signer.pub = "unread" /\ signer' = [signer EXCEPT !.pub = "read"]
                             /\ UNCHANGED fetchFaults
    \/ /\ signer.pub = "unread" /\ fetchFaults < MaxFetchFaults
       /\ signer' = [signer EXCEPT !.pub = "failed"]
       /\ fetchFaults' = fetchFaults + 1

(* Without a permissions block a job may post checks and nothing else.      *)
EffectivePermissions(j) == IF Declared[j] = {} THEN {"checks"} ELSE Declared[j]

IssueJWT(j) ==
    [job |-> j, repo |-> JobRepo[j], key |-> signer.key, age |-> 0,
     perms |-> EffectivePermissions(j)]

(* The request token names a claimed job; the claims come from its row.     *)
handleToken(s, j) ==
    /\ job[j] = "claimed"
    /\ fetchPublicKey
    /\ jwt' = IF signer'.pub = "read" THEN [jwt EXCEPT ![s] = IssueJWT(j)] ELSE jwt
    /\ last' = NoOutcome
    /\ UNCHANGED <<job, endedAge, retiredAge, startAge, cache>>

-----------------------------------------------------------------------------
(* Permission that an endpoint needs; "none": not reachable with a job token. *)
jobRequiredPermission(ep) ==
    CASE ep = "check" -> "checks"
      [] ep \in {"commit", "merge", "rebase", "purge", "branch"} -> "contents"
      [] ep \in {"review", "comment", "proposals"} -> "proposals"
      [] ep \in {"issues", "releases"} -> ep
      [] ep = "ci/run" -> "ci"
      [] OTHER -> "none"

jobEndpointAllowed(ep, perms) ==
    /\ jobRequiredPermission(ep) # "none"
    /\ \/ jobRequiredPermission(ep) = "checks"
       \/ jobRequiredPermission(ep) \in perms

(* The registry compares the image with the token's repo; the API also      *)
(* looks at the endpoint.                                                   *)
authMiddleware(t, repo) == t.repo = repo
jobWriteAllowed(t, repo, ep) == t.repo = repo /\ jobEndpointAllowed(ep, t.perms)

Fresh(v) == cache[v].age < CacheTTL

(* Mutant: an error leaves the mutex of the cache locked. *)
refresh_keepsLock(v) ==
    /\ cache[v].age <= CacheTTL
    /\ fetchPublicKey
    /\ cache' = IF signer'.pub = "read"
                THEN [cache EXCEPT ![v] = [keys |-> {signer.key}, age |-> 0]]
                ELSE [cache EXCEPT ![v].age = CacheTTL + 1]

(* refresh: JWKS holds the signing key; an error leaves the cache alone.    *)
refresh(v) ==
    /\ fetchPublicKey
    /\ cache' = IF signer'.pub = "read"
                THEN [cache EXCEPT ![v] = [keys |-> {signer.key}, age |-> 0]] ELSE cache

(* Mutant. *)
keyCacheGet_sliding(v) ==
    IF Fresh(v) THEN /\ cache' = [cache EXCEPT ![v].age = 0]
                     /\ UNCHANGED <<signer, fetchFaults>>
    ELSE refresh(v)

(* get: while the cache is fresh an unknown key is an error, no refetch.    *)
keyCacheGet(v) ==
    IF Fresh(v) THEN UNCHANGED <<cache, signer, fetchFaults>> ELSE refresh(v)

(* validateJobOIDCToken, then what the verifier allows.                     *)
Verify(v, s, repo, ep) ==
    LET t == jwt[s]
        known == cache'[v].age < CacheTTL /\ t.key \in cache'[v].keys
        valid == known /\ t.age <= TokenTTL
        allowed == IF v = "registry" THEN authMiddleware(t, repo)
                   ELSE jobWriteAllowed(t, repo, ep)
    IN /\ t # NoJWT
       /\ keyCacheGet(v)
       /\ last' = [res |-> IF ~valid THEN "unauthorized"
                           ELSE IF ~allowed THEN "forbidden" ELSE "ok",
                   tok |-> t, ver |-> v, repo |-> repo, ep |-> ep,
                   failed |-> cache'[v].age >= CacheTTL]
       /\ UNCHANGED <<job, endedAge, jwt, retiredAge, startAge>>

-----------------------------------------------------------------------------
ApiEndpoints == {"check", "commit", "roles"}

VerifySome(v) == \E s \in Slots, repo \in AllRepos, ep \in ApiEndpoints :
                     Verify(v, s, repo, ep)

TokensNext ==
    \/ Tick \/ NewSigner \/ SignerRestarts
    \/ \E j \in TokenJobs : \/ ClaimJob(j) \/ EndJob(j)
                         \/ \E s \in Slots : handleToken(s, j)
    \/ \E v \in Verifiers : VerifySome(v)

TokensSpec == TokensInit /\ [][TokensNext]_tokenVars

-----------------------------------------------------------------------------
(* A call is accepted at most TokenTTL after the job it acts for ended:     *)
(* only claimed jobs get tokens (handleToken), and no token outlives exp.   *)
AcceptedSoonAfterJob ==
    last.res \in {"ok", "forbidden"} /\ job[last.tok.job] = "ended"
        => endedAge[last.tok.job] <= TokenTTL

(* A change of the signing key takes effect within CacheTTL: afterwards no  *)
(* token of the old key is accepted, and an unexpired token of the new key  *)
(* is refused only if the keys could not be fetched.                        *)
KeyChangeTakesEffect ==
    /\ (last.res \in {"ok", "forbidden"} /\ last.tok.key < signer.key)
          => retiredAge[last.tok.key] < CacheTTL
    /\ (last.res = "unauthorized" /\ last.tok.key = signer.key
          /\ last.tok.age <= TokenTTL /\ ~last.failed)
          => startAge < CacheTTL

(* What a job's token is allowed to change is in its own repository and     *)
(* within the permissions of its ci.yaml, or posts a check, from the row    *)
(* through the claims to the gate of both verifiers.                        *)
ActsWithinConfig ==
    last.res = "ok" =>
        /\ last.repo = JobRepo[last.tok.job]
        /\ (last.ver = "api" =>
              jobRequiredPermission(last.ep) \in Declared[last.tok.job] \cup {"checks"})

(* Once the last key is in use, every verifier that is called learns it,    *)
(* whatever it had cached and whichever fetches failed before, unless the   *)
(* signing process is left for good with the failed read that its sync.Once *)
(* keeps: nothing restarts it, its /healthz answers ok all the time.        *)
VerifierLearnsKey ==
    \A v \in Verifiers :
        \/ <>[](signer.pub = "failed")
        \/ (signer.key = MaxKeys /\ \E s \in Slots : jwt[s] # NoJWT)
              ~> (MaxKeys \in cache[v].keys)

TokenRecords ==
    [job : TokenJobs, repo : AllRepos, key : Keys, age : 0..(TokenTTL + 1),
     perms : {EffectivePermissions(j) : j \in TokenJobs}]

(* Type invariant: ages stay within the lifetimes they are compared with.   *)
TokenTypeOK ==
    /\ job \in [TokenJobs -> {"queued", "claimed", "ended"}]
    /\ endedAge \in [TokenJobs -> 0..(TokenTTL + 1)]
    /\ jwt \in [Slots -> TokenRecords \cup {NoJWT}]
    /\ signer \in [key : Keys, pub : {"unread", "read", "failed"}]
    /\ retiredAge \in [Keys -> 0..CacheTTL] /\ startAge \in 0..CacheTTL
    /\ cache \in [Verifiers -> [keys : SUBSET Keys, age : 0..CacheTTL]]

(* A token was issued for a job that was claimed then: it carries the job's *)
(* repository and permissions, and it is older than the end of the job.     *)
TokensFit ==
    /\ \A j \in TokenJobs : job[j] # "ended" => endedAge[j] = 0
    /\ \A s \in Slots : jwt[s] # NoJWT =>
          /\ jwt[s].repo = JobRepo[jwt[s].job] /\ jwt[s].perms = EffectivePermissions(jwt[s].job)
          /\ job[jwt[s].job] # "queued"
          /\ endedAge[jwt[s].job] <= jwt[s].age

(* A cached key was the signing key when it was fetched: it is retired for  *)
(* no longer than it is cached, and a key that the cache lacks is in use    *)
(* for no longer.                                                           *)
CachesFit ==
    /\ \A k \in Keys : k >= signer.key => retiredAge[k] = 0
    /\ \A v \in Verifiers :
          /\ \A k \in cache[v].keys : k <= signer.key /\ retiredAge[k] <= cache[v].age
          /\ signer.key \notin cache[v].keys => startAge <= cache[v].age

(* What a token can do is bounded by its job, by the key that signed it and *)
(* by the job's configuration, through both verifiers and their caches.     *)
TokenBounded ==
    /\ TokenTypeOK /\ TokensFit /\ CachesFit
    /\ AcceptedSoonAfterJob
    /\ KeyChangeTakesEffect
    /\ ActsWithinConfig
===============================================================================
