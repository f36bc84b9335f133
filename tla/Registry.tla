------------------------------ MODULE Registry ------------------------------
(***************************************************************************)
(* The CI registry: replicas that keep blobs and manifests of build caches *)
(* in one bucket, each with its own cache of blob sizes.  A pushing client *)
(* (BuildKit) asks for each layer with HEAD, uploads the absent ones and   *)
(* then puts the manifest; blobs and manifests may be deleted meanwhile.   *)
(* A bucket operation is one atomic step; a handler makes several.         *)
(***************************************************************************)
EXTENDS Naturals, FiniteSets

CONSTANTS
    RegBlobs,      \* layers
    Manifests,     \* manifest contents; a content also stands for its digest
    RegTags,       \* tag names
    Layers,        \* Layers[m]: the blobs that m refers to
    Replicas,
    Clients,
    MaxRegFaults,  \* failed bucket writes and restarted replicas
    MaxDeletes,    \* DELETE requests
    NoObject

VARIABLES
    blobObj,     \* blob objects of the bucket, by key
    manObj,      \* manifest objects: ref -> [content, mediaType], or NoObject
    sizeCache,   \* GCSHandler.cache of each replica: keys
    req,         \* the request each client has in progress, and what it pushes
    ackedPut,    \* acknowledged manifest PUTs <<ref, content>> (history)
    cleared,     \* blobs and manifests deleted or overwritten since they were
                 \* last written (history)
    regFaults, regDeletes

regVars == <<blobObj, manObj, sizeCache, req, ackedPut, cleared, regFaults, regDeletes>>

Refs == RegTags \cup Manifests
isDigestRef(ref) == ref \notin RegTags
MediaType(m) == <<"type of", m>>
Pair(m) == [content |-> m, mediaType |-> MediaType(m)]

(* Blobs and manifests have keys of their own.                              *)
ASSUME RegistryAssumption ==
    /\ Layers \in [Manifests -> SUBSET RegBlobs]
    /\ RegBlobs \cap Refs = {}
    /\ NoObject \notin {Pair(m) : m \in Manifests}
    /\ MaxRegFaults \in Nat /\ MaxDeletes \in Nat

(* The library passes the repo of an upload with a trailing "/blobs".       *)
UploadRepo == "repo/blobs"
Repo == "repo"
normalizeRepo(r) == IF r = UploadRepo THEN Repo ELSE r
gcsKey(r, b) == <<normalizeRepo(r), b>>

RegIdle == [pc |-> "idle"]
RegFault == regFaults < MaxRegFaults /\ regFaults' = regFaults + 1
Deletes == regDeletes < MaxDeletes /\ regDeletes' = regDeletes + 1

RegInit ==
    /\ blobObj = {} /\ sizeCache = [r \in Replicas |-> {}]
    /\ manObj = [x \in Refs |-> NoObject]
    /\ req = [c \in Clients |-> RegIdle]
    /\ ackedPut = {} /\ cleared = {}
    /\ regFaults = 0 /\ regDeletes = 0

SetReq(c, v) == req' = [req EXCEPT ![c] = v]
RegAt(c, pc) == req[c].pc = pc

-----------------------------------------------------------------------------
(* The client pushes m under a tag: first it asks for every layer.          *)
StartPush(c, m, tag) ==
    /\ RegAt(c, "idle")
    /\ SetReq(c, [pc |-> "push", m |-> m, ref |-> tag, todo |-> Layers[m]])
    /\ UNCHANGED <<blobObj, manObj, sizeCache, ackedPut, cleared, regFaults, regDeletes>>

HasLayer(c, b) == [req[c] EXCEPT !.pc = "push", !.todo = @ \ {b}]

(* Stat, cached: HEAD answers from the size cache of the replica ...        *)
StatCached(c, r, b) ==
    /\ RegAt(c, "push") /\ b \in req[c].todo
    /\ gcsKey(Repo, b) \in sizeCache[r]
    /\ SetReq(c, HasLayer(c, b))
    /\ UNCHANGED <<blobObj, manObj, sizeCache, ackedPut, cleared, regFaults, regDeletes>>

(* ... or asks the bucket; a size that is found is cached in a step of its   *)
(* own.  404 makes the client upload.                                       *)
Stat(c, r, b) ==
    LET key == gcsKey(Repo, b)
    IN /\ RegAt(c, "push") /\ b \in req[c].todo /\ key \notin sizeCache[r]
       /\ req' = [req EXCEPT ![c] = [pc |-> IF key \in blobObj THEN "stat" ELSE "put",
                     m |-> @.m, ref |-> @.ref, todo |-> @.todo, b |-> b, at |-> r]]
       /\ UNCHANGED <<blobObj, manObj, sizeCache, ackedPut, cleared, regFaults, regDeletes>>

Pushing(c) == [pc |-> "push", m |-> req[c].m, ref |-> req[c].ref,
               todo |-> req[c].todo \ {req[c].b}]

StatStore(c) ==
    /\ RegAt(c, "stat")
    /\ sizeCache' = [sizeCache EXCEPT ![req[c].at] = @ \cup {gcsKey(Repo, req[c].b)}]
    /\ SetReq(c, Pushing(c))
    /\ UNCHANGED <<blobObj, manObj, ackedPut, cleared, regFaults, regDeletes>>

(* Mutant. *)
BlobPut_cacheFirst(c) ==
    /\ RegAt(c, "put")
    /\ sizeCache' = [sizeCache EXCEPT ![req[c].at] = @ \cup {gcsKey(UploadRepo, req[c].b)}]
    /\ \/ /\ blobObj' = blobObj \cup {gcsKey(UploadRepo, req[c].b)}
          /\ cleared' = cleared \ {<<req[c].b, req[c].b>>}
          /\ req' = [req EXCEPT ![c].pc = "written"] /\ UNCHANGED regFaults
       \/ RegFault /\ SetReq(c, RegIdle) /\ UNCHANGED <<blobObj, cleared>>
    /\ UNCHANGED <<manObj, ackedPut, regDeletes>>

(* Put: the object exists when the writer is closed; an error gives 500 and *)
(* the client gives up.                                                     *)
BlobPut(c) ==
    /\ RegAt(c, "put")
    /\ \/ /\ blobObj' = blobObj \cup {gcsKey(UploadRepo, req[c].b)}
          /\ cleared' = cleared \ {<<req[c].b, req[c].b>>}
          /\ req' = [req EXCEPT ![c].pc = "written"] /\ UNCHANGED regFaults
       \/ RegFault /\ SetReq(c, RegIdle) /\ UNCHANGED <<blobObj, cleared>>
    /\ UNCHANGED <<manObj, sizeCache, ackedPut, regDeletes>>

BlobPutDone(c) ==
    /\ RegAt(c, "written")
    /\ sizeCache' = [sizeCache EXCEPT ![req[c].at] = @ \cup {gcsKey(UploadRepo, req[c].b)}]
    /\ SetReq(c, Pushing(c))
    /\ UNCHANGED <<blobObj, manObj, ackedPut, cleared, regFaults, regDeletes>>

-----------------------------------------------------------------------------
writeObject(ref, m) ==
    /\ manObj' = [manObj EXCEPT ![ref] = Pair(m)]
    /\ cleared' = (IF manObj[ref] = NoObject THEN cleared
                   ELSE cleared \cup {<<ref, manObj[ref].content>>}) \ {<<ref, m>>}

(* Put of a manifest: the object of the tag, then the one of its digest.    *)
ManifestPut(c) ==
    /\ RegAt(c, "push") /\ req[c].todo = {}
    /\ \/ /\ writeObject(req[c].ref, req[c].m)
          /\ req' = [req EXCEPT ![c].pc = "index"] /\ UNCHANGED regFaults
       \/ RegFault /\ SetReq(c, RegIdle) /\ UNCHANGED <<manObj, cleared>>
    /\ UNCHANGED <<blobObj, sizeCache, ackedPut, regDeletes>>

ManifestIndex(c) ==
    /\ RegAt(c, "index")
    /\ \/ /\ writeObject(req[c].m, req[c].m)
          /\ ackedPut' = ackedPut \cup {<<req[c].ref, req[c].m>>, <<req[c].m, req[c].m>>}
          /\ UNCHANGED regFaults
       \/ RegFault /\ UNCHANGED <<manObj, ackedPut, cleared>>
    /\ SetReq(c, RegIdle)
    /\ UNCHANGED <<blobObj, sizeCache, regDeletes>>

ManifestDelete(ref) ==
    /\ manObj[ref] # NoObject /\ Deletes
    /\ manObj' = [manObj EXCEPT ![ref] = NoObject]
    /\ cleared' = cleared \cup {<<ref, manObj[ref].content>>}
    /\ UNCHANGED <<blobObj, sizeCache, req, ackedPut, regFaults>>

(* Delete of a blob: the size stays cached when the bucket had no object.   *)
BlobDelete(c, r, b) ==
    /\ RegAt(c, "idle") /\ Deletes
    /\ IF gcsKey(Repo, b) \in blobObj
       THEN /\ blobObj' = blobObj \ {gcsKey(Repo, b)}
            /\ cleared' = cleared \cup {<<b, b>>}
            /\ SetReq(c, [pc |-> "deleted", b |-> b, at |-> r])
       ELSE UNCHANGED <<blobObj, cleared, req>>
    /\ UNCHANGED <<manObj, sizeCache, ackedPut, regFaults>>

BlobDeleteDone(c) ==
    /\ RegAt(c, "deleted")
    /\ sizeCache' = [sizeCache EXCEPT ![req[c].at] = @ \ {gcsKey(Repo, req[c].b)}]
    /\ SetReq(c, RegIdle)
    /\ UNCHANGED <<blobObj, manObj, ackedPut, cleared, regFaults, regDeletes>>

(* A replica restarts with an empty cache; its requests fail.               *)
NewGCSHandler(r) ==
    /\ RegFault
    /\ sizeCache' = [sizeCache EXCEPT ![r] = {}]
    /\ req' = [c \in Clients |-> IF req[c].pc \in {"stat", "put", "written", "deleted"}
                                    /\ req[c].at = r THEN RegIdle ELSE req[c]]
    /\ UNCHANGED <<blobObj, manObj, ackedPut, cleared, regDeletes>>

-----------------------------------------------------------------------------
RegNext ==
    \/ \E c \in Clients :
          \/ \E m \in Manifests, t \in RegTags : StartPush(c, m, t)
          \/ \E r \in Replicas, b \in RegBlobs :
                StatCached(c, r, b) \/ Stat(c, r, b) \/ BlobDelete(c, r, b)
          \/ StatStore(c) \/ BlobPut(c) \/ BlobPutDone(c) \/ BlobDeleteDone(c)
          \/ ManifestPut(c) \/ ManifestIndex(c)
    \/ \E ref \in Refs : ManifestDelete(ref)
    \/ \E r \in Replicas : NewGCSHandler(r)

RegSpec == RegInit /\ [][RegNext]_regVars

(* The tags that /tags/list reports.                                        *)
Tags == {t \in RegTags : manObj[t] # NoObject}

-----------------------------------------------------------------------------
BlobKeys == {gcsKey(Repo, b) : b \in RegBlobs}
RegRequests ==
    [pc : {"idle"}]
    \cup [pc : {"push", "index"}, m : Manifests, ref : RegTags, todo : SUBSET RegBlobs]
    \cup [pc : {"stat", "put", "written"}, m : Manifests, ref : RegTags,
          todo : SUBSET RegBlobs, b : RegBlobs, at : Replicas]
    \cup [pc : {"deleted"}, b : RegBlobs, at : Replicas]

(* Objects, caches, requests and the history have their shape.              *)
RegTypeOK ==
    /\ blobObj \subseteq BlobKeys
    /\ manObj \in [Refs -> {NoObject} \cup {Pair(m) : m \in Manifests}]
    /\ sizeCache \in [Replicas -> SUBSET BlobKeys]
    /\ req \in [Clients -> RegRequests]
    /\ ackedPut \subseteq Refs \X Manifests
    /\ cleared \subseteq (Refs \X Manifests) \cup (RegBlobs \X RegBlobs)
    /\ regFaults \in 0..MaxRegFaults /\ regDeletes \in 0..MaxDeletes

Stored(b) == <<b, b>> \in cleared \/ gcsKey(Repo, b) \in blobObj
Served(ref, m) == <<ref, m>> \in cleared \/ manObj[ref] = Pair(m)

(* A size is cached only of a blob that was stored, on every replica.       *)
CachedWasStored ==
    \A r \in Replicas, b \in RegBlobs : gcsKey(Repo, b) \in sizeCache[r] => Stored(b)

(* A layer that a pushing client has ticked off was stored, and the tag of   *)
(* a manifest it has put leads there until that object goes.                *)
PushFits(q) ==
    /\ q.pc \in {"push", "stat", "put", "written", "index"} =>
         \A b \in Layers[q.m] \ q.todo : Stored(b)
    /\ q.pc \in {"stat", "written"} => Stored(q.b)
    /\ q.pc = "index" => q.todo = {} /\ Served(q.ref, q.m)
PushesFit == \A c \in Clients : PushFits(req[c])

(* An image whose push was acknowledged can be pulled: every layer is in the *)
(* bucket, although the client skipped layers that some replica's size cache *)
(* reported, unless a layer was deleted after its last upload.              *)
PushedImageComplete == \A p \in ackedPut : \A b \in Layers[p[2]] : Stored(b)

(* An acknowledged PUT is found under its tag and under its digest, and the *)
(* tag is listed, until that very object is overwritten or deleted.         *)
AckedManifestServed ==
    \A p \in ackedPut : p \notin cleared =>
        /\ manObj[p[1]] = Pair(p[2])
        /\ ~isDigestRef(p[1]) => p[1] \in Tags

(* An acknowledged push can be pulled from any replica, unless a layer was  *)
(* deleted, also before the push, when a replica whose cache still reported *)
(* it made the client skip it, or the manifest was deleted or overwritten.  *)
PushedCanBePulled ==
    RegTypeOK /\ CachedWasStored /\ PushesFit /\ PushedImageComplete /\ AckedManifestServed
=============================================================================
