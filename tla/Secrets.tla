------------------------------- MODULE Secrets -------------------------------
(***************************************************************************)
(* Repository secrets: Set seals a value and upserts its row; Reveal, which *)
(* a CI worker calls with the request token of its job, passes the gating  *)
(* policy, reads and decrypts one row after another, records the accesses  *)
(* and answers; fetchSecrets hands the values to the checks.  The server   *)
(* restarts at any moment; its key encryption key lives in a file.         *)
(***************************************************************************)
EXTENDS Naturals, FiniteSets

CONSTANTS
    Names,          \* secret names of the repository
    Values,         \* plaintexts
    Writers,        \* concurrent PUT requests
    Jobs,           \* CI jobs, each with a request token
    TriggerOf,      \* TriggerOf[j]: "push", "proposal" or another trigger
    AuthorOf,       \* AuthorOf[j]: author of the proposal that triggered j
    Authors,
    Config,         \* Config[j]: the <<check, local name, secret name>> of its ci.yaml
    MaxFaults,      \* restarts and failed calls
    NoSecret

Requested(j) == {b[3] : b \in Config[j]}

ASSUME SecretsAssumption ==
    /\ NoSecret \notin [val : Values, key : Nat]
    /\ \A j \in Jobs : Requested(j) \subseteq Names

VARIABLES
    row,         \* repo_secrets: name -> [val, key], or NoSecret
    put,         \* progress of each PUT
    kekFile,     \* content of the key file, 0 when it does not exist
    kek,         \* the key of the running server, 0 while it is down
    keys,        \* number of keys generated so far
    orgMember,   \* authors that are members of the repository's org
    claimed,     \* jobs in status claimed: their request token is valid
    reveal,      \* progress of each job's reveal request
    resolved,    \* what fetchSecrets returned: an error, or <<local name, value>> pairs
    accessed,    \* <<job, name>> of the secret.accessed events
    unaudited,   \* <<job, name>> of the events that could not be stored (history)
    latest,      \* the value of the last acknowledged Set or Delete (history)
    window,      \* the values each name has had since the reveal began (history)
    memberSeen,  \* the author was a member at some time since it began (history)
    faults

secretsVars == <<row, put, kekFile, kek, keys, orgMember, claimed, reveal, resolved,
                 accessed, unaudited, latest, window, memberSeen, faults>>

NoReveal == [pc |-> "idle", left |-> {}, values |-> {}, missing |-> {}]
Unresolved == [st |-> "none", map |-> {}]
Failed == [st |-> "failed", map |-> {}]
Empty == [n \in Names |-> {}]

SecretsInit ==
    /\ row = [n \in Names |-> NoSecret]
    /\ put = [w \in Writers |-> [pc |-> "idle"]]
    /\ kekFile = 0 /\ kek = 0 /\ keys = 0
    /\ orgMember = {}
    /\ claimed = Jobs
    /\ reveal = [j \in Jobs |-> NoReveal]
    /\ resolved = [j \in Jobs |-> Unresolved]
    /\ accessed = {} /\ unaudited = {}
    /\ latest = [n \in Names |-> NoSecret]
    /\ window = [j \in Jobs |-> Empty]
    /\ memberSeen = [j \in Jobs |-> FALSE]
    /\ faults = 0

Running(j) == reveal[j].pc \notin {"idle", "done"}
SecretFault == faults < MaxFaults /\ faults' = faults + 1

-----------------------------------------------------------------------------
(* Mutant. *)
loadOrCreateKEK_unsaved ==
    IF kekFile # 0 THEN kek' = kekFile /\ UNCHANGED <<kekFile, keys>>
    ELSE kek' = keys + 1 /\ keys' = keys + 1 /\ UNCHANGED kekFile

(* The key file is read, or a new key is generated and written first. *)
loadOrCreateKEK ==
    IF kekFile # 0 THEN kek' = kekFile /\ UNCHANGED <<kekFile, keys>>
    ELSE kek' = keys + 1 /\ keys' = keys + 1 /\ kekFile' = keys + 1

NewLocalEncryptor ==
    /\ kek = 0
    /\ loadOrCreateKEK
    /\ UNCHANGED <<row, put, orgMember, claimed, reveal, resolved, accessed, unaudited, latest,
                   window, memberSeen, faults>>

(* The process ends: requests in progress are gone, their workers fail.     *)
Restart ==
    /\ kek # 0 /\ SecretFault
    /\ kek' = 0
    /\ put' = [w \in Writers |-> [pc |-> "idle"]]
    /\ resolved' = [j \in Jobs |-> IF Running(j) THEN Failed ELSE resolved[j]]
    /\ reveal' = [j \in Jobs |-> IF ~Running(j) THEN reveal[j]
                                 ELSE [NoReveal EXCEPT !.pc = "done"]]
    /\ UNCHANGED <<row, kekFile, keys, orgMember, claimed, accessed, unaudited, latest, window,
                   memberSeen>>

(* Sealed: the value under a fresh DEK, which is wrapped under the KEK.     *)
Encrypt(v) == [val |-> v, key |-> kek]
CanDecrypt(sealed) == sealed.key = kek

Note(n, v) ==
    /\ latest' = [latest EXCEPT ![n] = v]
    /\ window' = [j \in Jobs |-> IF ~Running(j) THEN Empty
                                 ELSE [window[j] EXCEPT ![n] = @ \cup {v}]]

(* Set validates and seals the value ... *)
Set(w, n, v) ==
    /\ kek # 0 /\ put[w].pc = "idle"
    /\ put' = [put EXCEPT ![w] = [pc |-> "sealed", name |-> n, sealed |-> Encrypt(v)]]
    /\ UNCHANGED <<row, kekFile, kek, keys, orgMember, claimed, reveal, resolved,
                   accessed, unaudited, latest, window, memberSeen, faults>>

(* ... and upserts the row by (repo, name). *)
SetRepoSecret(w) ==
    LET n == put[w].name
    IN /\ put[w].pc = "sealed"
       /\ row' = [row EXCEPT ![n] = put[w].sealed]
       /\ Note(n, put[w].sealed.val)
       /\ put' = [put EXCEPT ![w] = [pc |-> "idle"]]
       /\ UNCHANGED <<kekFile, kek, keys, orgMember, claimed, reveal, resolved,
                      accessed, unaudited, memberSeen, faults>>

DeleteRepoSecret(n) ==
    /\ row[n] # NoSecret
    /\ row' = [row EXCEPT ![n] = NoSecret]
    /\ Note(n, NoSecret)

handleDeleteSecret(n) ==
    /\ kek # 0
    /\ DeleteRepoSecret(n)
    /\ UNCHANGED <<put, kekFile, kek, keys, orgMember, claimed, reveal, resolved,
                   accessed, unaudited, memberSeen, faults>>

-----------------------------------------------------------------------------
(* fetchSecrets refuses a config in which two checks give one local name to *)
(* different secrets, and asks for nothing when no check wants a secret.    *)
LocalNamesAgree(j) ==
    \A a, b \in Config[j] : a[2] = b[2] => a[3] = b[3]

fetchSecrets(j) ==
    /\ kek # 0 /\ reveal[j].pc = "idle" /\ j \in claimed
    /\ Config[j] # {} /\ LocalNamesAgree(j)
    /\ reveal' = [reveal EXCEPT ![j] = [pc |-> "sent", left |-> Requested(j),
                                             values |-> {}, missing |-> {}]]
    /\ window' = [window EXCEPT ![j] = [n \in Names |-> {latest[n]}]]
    /\ memberSeen' = [memberSeen EXCEPT ![j] = AuthorOf[j] \in orgMember]
    /\ UNCHANGED <<row, put, kekFile, kek, keys, orgMember, claimed, resolved, accessed, unaudited,
                   latest, faults>>

(* A config that needs nothing, or is refused, makes no request.            *)
fetchSecretsSkips(j) ==
    /\ reveal[j].pc = "idle" /\ j \in claimed
    /\ Config[j] = {} \/ ~LocalNamesAgree(j)
    /\ reveal' = [reveal EXCEPT ![j].pc = "done"]
    /\ resolved' = [resolved EXCEPT ![j] = IF Config[j] = {}
                                    THEN [st |-> "ok", map |-> {}] ELSE Failed]
    /\ UNCHANGED <<row, put, kekFile, kek, keys, orgMember, claimed, accessed, unaudited, latest,
                   window, memberSeen, faults>>

Fail(j) ==
    /\ reveal' = [reveal EXCEPT ![j] = [NoReveal EXCEPT !.pc = "done"]]
    /\ resolved' = [resolved EXCEPT ![j] = Failed]

allowSecretsForJob(j) ==
    \/ TriggerOf[j] \in {"push", "manual", "schedule"}
    \/ TriggerOf[j] = "proposal" /\ AuthorOf[j] \in orgMember

(* handleRevealSecrets: the token names a claimed job (LookupRequestToken), *)
(* then the gating policy decides.                                          *)
LookupRequestToken(j) ==
    /\ reveal[j].pc = "sent"
    /\ IF j \in claimed
       THEN reveal' = [reveal EXCEPT ![j].pc = "gate"] /\ UNCHANGED resolved
       ELSE Fail(j)
    /\ UNCHANGED <<row, put, kekFile, kek, keys, orgMember, claimed, accessed, unaudited, latest,
                   window, memberSeen, faults>>

RevealGate(j) ==
    /\ reveal[j].pc = "gate"
    /\ IF allowSecretsForJob(j)
       THEN reveal' = [reveal EXCEPT ![j].pc = "reading"] /\ UNCHANGED resolved
       ELSE Fail(j)
    /\ UNCHANGED <<row, put, kekFile, kek, keys, orgMember, claimed, accessed, unaudited, latest,
                   window, memberSeen, faults>>

(* Reveal: one row after the other; a missing row is reported ...           *)
GetRepoSecret(n) == row[n]

RevealOne(j, n) ==
    LET got == GetRepoSecret(n)
        r == reveal[j]
    IN /\ r.pc = "reading" /\ n \in r.left
       /\ got # NoSecret => CanDecrypt(got)
       /\ reveal' = [reveal EXCEPT ![j] =
             [pc |-> "reading", left |-> r.left \ {n},
              values |-> IF got = NoSecret THEN r.values ELSE r.values \cup {<<n, got.val>>},
              missing |-> IF got = NoSecret THEN r.missing \cup {n} ELSE r.missing]]
       /\ UNCHANGED <<row, put, kekFile, kek, keys, orgMember, claimed, resolved, accessed, unaudited,
                   latest, window, memberSeen, faults>>

(* Mutant. *)
RevealFails_skip(j) ==
    /\ reveal[j].pc = "reading" /\ reveal[j].left # {} /\ SecretFault
    /\ \E n \in reveal[j].left : reveal' = [reveal EXCEPT ![j].left = @ \ {n}]
    /\ UNCHANGED <<row, put, kekFile, kek, keys, orgMember, claimed, resolved, accessed, unaudited,
                   latest, window, memberSeen>>

(* ... and a failed query or decryption aborts the whole call.              *)
RevealFails(j) ==
    /\ reveal[j].pc = "reading" /\ reveal[j].left # {} /\ SecretFault
    /\ Fail(j)
    /\ UNCHANGED <<row, put, kekFile, kek, keys, orgMember, claimed, accessed, unaudited, latest,
                   window, memberSeen>>

(* secret.accessed for every revealed name, before the answer is written;   *)
(* emit drops the events whose insert fails and the answer goes out anyway. *)
RevealAudit(j) ==
    \E lost \in SUBSET {v[1] : v \in reveal[j].values} :
        /\ reveal[j].pc = "reading" /\ reveal[j].left = {}
        /\ IF lost = {} THEN UNCHANGED faults ELSE SecretFault
        /\ accessed' = accessed \cup {<<j, n>> : n \in {v[1] : v \in reveal[j].values} \ lost}
        /\ unaudited' = unaudited \cup {<<j, n>> : n \in lost}
        /\ reveal' = [reveal EXCEPT ![j].pc = "respond"]
        /\ UNCHANGED <<row, put, kekFile, kek, keys, orgMember, claimed, resolved, latest,
                       window, memberSeen>>

(* The worker maps secret names to the local names of its checks.           *)
FetchDone(j) ==
    /\ reveal[j].pc = "respond"
    /\ reveal' = [reveal EXCEPT ![j].pc = "done"]
    /\ resolved' = [resolved EXCEPT ![j] = [st |-> "ok", map |->
          {lv \in {b[2] : b \in Config[j]} \X Values :
             \E b \in Config[j] : b[2] = lv[1] /\ <<b[3], lv[2]>> \in reveal[j].values}]]
    /\ UNCHANGED <<row, put, kekFile, kek, keys, orgMember, claimed, accessed, unaudited, latest,
                   window, memberSeen, faults>>

-----------------------------------------------------------------------------
(* Members join and leave; jobs end, or are reaped, at any time (after the  *)
(* reveal it no longer matters).                                            *)
JoinOrLeave(a) ==
    /\ orgMember' = IF a \in orgMember THEN orgMember \ {a} ELSE orgMember \cup {a}
    /\ memberSeen' = [j \in Jobs |-> memberSeen[j] \/
                        (Running(j) /\ AuthorOf[j] = a /\ a \notin orgMember)]
    /\ UNCHANGED <<row, put, kekFile, kek, keys, claimed, reveal, resolved, accessed, unaudited,
                   latest, window, faults>>

JobEnds(j) ==
    /\ j \in claimed /\ reveal[j].pc # "done"
    /\ claimed' = claimed \ {j}
    /\ UNCHANGED <<row, put, kekFile, kek, keys, orgMember, reveal, resolved, accessed, unaudited,
                   latest, window, memberSeen, faults>>

(* The handlers and the worker's call are made of the steps above.          *)
handleSetSecret(w) ==
    SetRepoSecret(w) \/ \E n \in Names, v \in Values : Set(w, n, v)

handleRevealSecrets(j) ==
    \/ LookupRequestToken(j) \/ RevealGate(j)
    \/ \E n \in Names : RevealOne(j, n)
    \/ RevealFails(j) \/ RevealAudit(j)

SecretsNext ==
    \/ NewLocalEncryptor \/ Restart
    \/ \E w \in Writers : handleSetSecret(w)
    \/ \E n \in Names : handleDeleteSecret(n)
    \/ \E j \in Jobs : \/ fetchSecrets(j) \/ fetchSecretsSkips(j)
                       \/ handleRevealSecrets(j) \/ FetchDone(j)
                       \/ JobEnds(j)
    \/ \E a \in Authors : JoinOrLeave(a)

SecretsSpec == SecretsInit /\ [][SecretsNext]_secretsVars

-----------------------------------------------------------------------------
SealedRecords == [val : Values, key : Nat \ {0}]
RevealRecords ==
    [pc : {"idle", "sent", "gate", "reading", "respond", "done"}, left : SUBSET Names,
     values : SUBSET (Names \X Values), missing : SUBSET Names]
ResolvedRecords ==
    [st : {"none", "failed", "ok"},
     map : SUBSET ({b[2] : b \in UNION {Config[j] : j \in Jobs}} \X Values)]

(* Type invariant. *)
SecretsTypeOK ==
    /\ row \in [Names -> SealedRecords \cup {NoSecret}]
    /\ put \in [Writers -> [pc : {"idle"}]
                           \cup [pc : {"sealed"}, name : Names, sealed : SealedRecords]]
    /\ kekFile \in Nat /\ kek \in Nat /\ keys \in Nat
    /\ reveal \in [Jobs -> RevealRecords] /\ resolved \in [Jobs -> ResolvedRecords]
    /\ accessed \subseteq Jobs \X Names /\ unaudited \subseteq Jobs \X Names
    /\ latest \in [Names -> Values \cup {NoSecret}]
    /\ window \in [Jobs -> [Names -> SUBSET (Values \cup {NoSecret})]]
    /\ memberSeen \in [Jobs -> BOOLEAN]

(* Whatever is sealed, in a row or in a request that has not stored it yet, *)
(* is sealed under the key in the file.                                     *)
SealedUnderFile ==
    /\ kek # 0 => kek = kekFile
    /\ \A n \in Names : row[n] # NoSecret => row[n].key = kekFile
    /\ \A w \in Writers : put[w].pc = "sealed" => put[w].sealed.key = kekFile

(* A row that was sealed by an earlier process can be opened by the running *)
(* one: loadOrCreateKEK writes the key before anything is sealed with it.   *)
SealedStaysReadable ==
    /\ SecretsTypeOK /\ SealedUnderFile
    /\ kek # 0 => \A n \in Names : row[n] # NoSecret => CanDecrypt(row[n])

(* A row holds the value that was acknowledged last.                        *)
RowsFit ==
    \A n \in Names : latest[n] = IF row[n] = NoSecret THEN NoSecret ELSE row[n].val

(* A running reveal has in its window every value since its start, has      *)
(* accounted for each name it no longer has to read, with a value or as     *)
(* missing, and has passed the gate before the first; nothing of it is      *)
(* recorded before it has read them all.                                    *)
RevealFits(j) ==
    LET r == reveal[j]
        read == {v[1] : v \in r.values}
    IN /\ r.pc \in {"idle", "sent", "gate"} => r.values = {} /\ r.missing = {}
       /\ read \cap r.missing = {} /\ r.left \cap (read \cup r.missing) = {}
       /\ r.pc = "respond" => r.left = {}
       /\ r.pc \notin {"respond", "done"} => 
             \A n \in Names : <<j, n>> \notin accessed /\ <<j, n>> \notin unaudited
       /\ Running(j) =>
             /\ LocalNamesAgree(j) /\ read \cup r.missing \cup r.left = Requested(j)
             /\ \A n \in Names : latest[n] \in window[j][n]
             /\ \A v \in r.values : v[2] \in window[j][v[1]]
             /\ \A n \in r.missing : NoSecret \in window[j][n]
             /\ AuthorOf[j] \in orgMember => memberSeen[j]
       /\ r.pc \in {"reading", "respond"} =>
             TriggerOf[j] # "other" /\ (TriggerOf[j] = "proposal" => memberSeen[j])

Answered(j) == reveal[j].pc = "respond"

(* What a reveal answers for a name was the acknowledged value of that name *)
(* at some moment between its start and its answer, while other requests    *)
(* set and delete secrets; a missing name was really absent at some moment. *)
RevealWasCurrent ==
    \A j \in Jobs : Answered(j) =>
        /\ \A v \in reveal[j].values : v[2] \in window[j][v[1]]
        /\ \A n \in reveal[j].missing : NoSecret \in window[j][n]

(* An answer accounts for every requested name: one failing decryption      *)
(* never yields part of the values.                                         *)
RevealAllOrNothing ==
    \A j \in Jobs : Answered(j) =>
        {v[1] : v \in reveal[j].values} \cup reveal[j].missing = Requested(j)

(* The audit trail has an event for every value that an answer carries but  *)
(* for those whose insert failed (handleRevealSecrets does not learn of it, *)
(* see broker.Emit), and none for a name that the answer reports missing.   *)
AccessAudited ==
    \A j \in Jobs :
        /\ \A v \in reveal[j].values : reveal[j].pc \in {"respond", "done"} =>
              (<<j, v[1]>> \in accessed <=> <<j, v[1]>> \notin unaudited)
        /\ \A n \in reveal[j].missing : <<j, n>> \notin accessed

(* A worker of a proposal job gets values only if the proposal's author was *)
(* a member of the org while the request ran (handleRevealSecrets' gate),   *)
(* and no worker gets any for a trigger the policy does not know.           *)
ValuesNeedMembership ==
    \A j \in Jobs : Running(j) /\ reveal[j].values # {} =>
        /\ TriggerOf[j] # "other"
        /\ TriggerOf[j] = "proposal" => memberSeen[j]

(* Each check receives, under its local name, the value of the secret it    *)
(* named, although the values of all checks share one map.                  *)
ChecksGetTheirSecret ==
    \A j \in Jobs :
        \A b \in Config[j], v \in Values :
            <<b[2], v>> \in resolved[j].map => <<b[3], v>> \in reveal[j].values

(* What a job gets when it asks for its secrets: values that were current,  *)
(* all of them or an error, recorded unless the event could not be stored,  *)
(* as the gate allows, and each for the check that named it.                *)
RevealSound ==
    /\ RowsFit /\ \A j \in Jobs : RevealFits(j)
    /\ RevealWasCurrent
    /\ RevealAllOrNothing
    /\ AccessAudited
    /\ ValuesNeedMembership
    /\ ChecksGetTheirSecret
===============================================================================
