--------------------------- MODULE ContentProofs ---------------------------
(***************************************************************************)
(* Proofs about where contents are kept and how they are read: the images  *)
(* of the CI registry, the documents, blobs and releases of the document   *)
(* store, and the listings, logs and pages put together from its queries.  *)
(***************************************************************************)
EXTENDS Registry, DocBlobs, Reads, FiniteSetTheorems, SequenceTheorems, NaturalsInduction,
        WellFoundedInduction, TLAPS

(* The registry.  What was stored stays so until it is recorded as cleared; *)
(* requests and acknowledged pushes rest on nothing else.                   *)

\* A step that takes away no blob and no manifest without a record of it.
NothingUnrecorded ==
    /\ \A b \in RegBlobs : Stored(b) => Stored(b)'
    /\ \A ref \in Refs, m \in Manifests : Served(ref, m) => Served(ref, m)'

(* A replica keeps the size of a blob under the key of that blob. *)
LEMMA KeyOf ==
    ASSUME NEW b
    PROVE  gcsKey(UploadRepo, b) = <<Repo, b>> /\ gcsKey(Repo, b) = <<Repo, b>>
BY DEF gcsKey, normalizeRepo, UploadRepo, Repo

\* What a request rests on stays.
LEMMA PushStays ==
    ASSUME NEW q \in RegRequests, PushFits(q), NothingUnrecorded
    PROVE  PushFits(q)'
<1>1. q.pc \in {"push", "stat", "put", "written", "index"} => q.m \in Manifests /\ Layers[q.m] \subseteq RegBlobs
    BY RegistryAssumption DEF RegRequests
<1>2. q.pc \in {"stat", "written"} => q.b \in RegBlobs
    BY DEF RegRequests
<1>3. q.pc = "index" => q.ref \in Refs
    BY DEF RegRequests, Refs
<1> QED BY <1>1, <1>2, <1>3 DEF PushFits, NothingUnrecorded

\* What a step has to keep, when it changes one request at most.
LEMMA RegistryKeeps ==
    ASSUME PushedCanBePulled, NothingUnrecorded,
           blobObj' \subseteq BlobKeys, manObj' \in [Refs -> {NoObject} \cup {Pair(m) : m \in Manifests}],
           sizeCache' \in [Replicas -> SUBSET BlobKeys],
           cleared' \subseteq (Refs \X Manifests) \cup (RegBlobs \X RegBlobs),
           regFaults' \in 0..MaxRegFaults, regDeletes' \in 0..MaxDeletes,
           CachedWasStored',
           NEW c \in Clients, NEW q \in RegRequests, req' = [req EXCEPT ![c] = q], PushFits(q)',
           ackedPut' \subseteq Refs \X Manifests,
           \A p \in ackedPut' : p \in ackedPut \/ (Served(p[1], p[2])' /\ \A b \in Layers[p[2]] : Stored(b)')
    PROVE  PushedCanBePulled'
<1>p. RegTypeOK /\ PushesFit /\ PushedImageComplete /\ AckedManifestServed
    BY DEF PushedCanBePulled
<1>1. RegTypeOK'
    BY <1>p DEF RegTypeOK
<1>2. PushesFit'
    <2>1. ASSUME NEW x \in Clients PROVE PushFits(req[x])'
        <3>1. CASE x = c
            <4>1. req'[x] = q
                BY <1>p, <3>1 DEF RegTypeOK
            <4> QED BY <4>1 DEF PushFits
        <3>2. CASE x # c
            <4>1. PICK y \in RegRequests : y = req[x]
                BY <1>p DEF RegTypeOK
            <4>2. req'[x] = y /\ PushFits(y)
                BY <1>p, <3>2, <4>1 DEF RegTypeOK, PushesFit
            <4>3. PushFits(y)'
                BY <4>2, PushStays
            <4> QED BY <4>2, <4>3 DEF PushFits
        <3> QED BY <3>1, <3>2
    <2> QED BY <2>1 DEF PushesFit
<1>3. PushedImageComplete' /\ AckedManifestServed'
    <2>1. ASSUME NEW p \in ackedPut'
          PROVE  p[1] \in Refs /\ Served(p[1], p[2])' /\ \A b \in Layers[p[2]] : Stored(b)'
        <3>1. p[1] \in Refs /\ p[2] \in Manifests /\ Layers[p[2]] \subseteq RegBlobs /\ p = <<p[1], p[2]>>
            BY <2>1, RegistryAssumption
        <3>2. CASE p \in ackedPut
            <4>1. Served(p[1], p[2]) /\ \A b \in Layers[p[2]] : Stored(b)
                BY <1>p, <3>1, <3>2 DEF PushedImageComplete, AckedManifestServed, Served
            <4> QED BY <3>1, <4>1 DEF NothingUnrecorded
        <3> QED BY <2>1, <3>1, <3>2
    <2>2. \A m \in Manifests : Pair(m) # NoObject
        BY RegistryAssumption
    <2>3. \A p \in ackedPut' : p = <<p[1], p[2]>> /\ p[2] \in Manifests
        OBVIOUS
    <2> QED BY <2>1, <2>2, <2>3 DEF PushedImageComplete, AckedManifestServed, Served, Tags, isDigestRef, Refs
<1> QED BY <1>1, <1>2, <1>3 DEF PushedCanBePulled

\* The steps that touch neither the bucket nor the history.
LEMMA ClientKeeps ==
    ASSUME PushedCanBePulled, UNCHANGED <<blobObj, manObj, ackedPut, cleared, regFaults, regDeletes>>,
           sizeCache' \in [Replicas -> SUBSET BlobKeys], CachedWasStored',
           NEW c \in Clients, NEW q \in RegRequests, req' = [req EXCEPT ![c] = q], PushFits(q)
    PROVE  PushedCanBePulled'
<1>p. RegTypeOK
    BY DEF PushedCanBePulled
<1>1. NothingUnrecorded
    BY DEF NothingUnrecorded, Stored, Served
<1>2. PushFits(q)'
    BY <1>1, PushStays
<1>3. /\ blobObj' \subseteq BlobKeys /\ manObj' \in [Refs -> {NoObject} \cup {Pair(m) : m \in Manifests}]
      /\ cleared' \subseteq (Refs \X Manifests) \cup (RegBlobs \X RegBlobs)
      /\ regFaults' \in 0..MaxRegFaults /\ regDeletes' \in 0..MaxDeletes
      /\ ackedPut' \subseteq Refs \X Manifests /\ ackedPut' = ackedPut
    BY <1>p DEF RegTypeOK
<1> QED BY <1>1, <1>2, <1>3, RegistryKeeps

(* Caches that stay as they are stay right while every loss is recorded. *)
LEMMA CacheSame ==
    ASSUME PushedCanBePulled, UNCHANGED sizeCache, NothingUnrecorded
    PROVE  sizeCache' \in [Replicas -> SUBSET BlobKeys] /\ CachedWasStored'
BY DEF PushedCanBePulled, RegTypeOK, CachedWasStored, NothingUnrecorded

\* A blob that was stored is added to one replica's cache.
LEMMA CacheAdds ==
    ASSUME PushedCanBePulled, UNCHANGED <<blobObj, cleared>>, NEW r \in Replicas, NEW b \in RegBlobs,
           Stored(b), sizeCache' = [sizeCache EXCEPT ![r] = @ \cup {gcsKey(Repo, b)}]
    PROVE  sizeCache' \in [Replicas -> SUBSET BlobKeys] /\ CachedWasStored'
<1>p. RegTypeOK /\ CachedWasStored
    BY DEF PushedCanBePulled
<1>1. \A x \in RegBlobs : Stored(x)' <=> Stored(x)
    BY DEF Stored
<1>2. gcsKey(Repo, b) \in BlobKeys
    BY DEF BlobKeys
<1>3. \A x \in RegBlobs : gcsKey(Repo, x) = gcsKey(Repo, b) => x = b
    BY KeyOf
<1> QED BY <1>p, <1>1, <1>2, <1>3 DEF RegTypeOK, CachedWasStored

(* A client that starts a request disturbs nothing. *)
LEMMA StartKeeps ==
    ASSUME PushedCanBePulled, NEW c \in Clients, NEW m \in Manifests, NEW t \in RegTags, StartPush(c, m, t)
    PROVE  PushedCanBePulled'
<1>1. PICK q : q = [pc |-> "push", m |-> m, ref |-> t, todo |-> Layers[m]]
    OBVIOUS
<1>2. q \in RegRequests /\ q.pc = "push" /\ q.m = m /\ q.todo = Layers[m]
    BY <1>1, RegistryAssumption DEF RegRequests
<1>3. PushFits(q)
    BY <1>2 DEF PushFits
<1>4. UNCHANGED <<blobObj, manObj, sizeCache, ackedPut, cleared, regFaults, regDeletes>> /\ req' = [req EXCEPT ![c] = q]
    BY <1>1 DEF StartPush, SetReq
<1>5. NothingUnrecorded
    BY <1>4 DEF NothingUnrecorded, Stored, Served
<1> QED BY <1>2, <1>3, <1>4, <1>5, CacheSame, ClientKeeps

(* An answer to HEAD out of the cache disturbs nothing. *)
LEMMA StatCachedKeeps ==
    ASSUME PushedCanBePulled, NEW c \in Clients, NEW r \in Replicas, NEW b \in RegBlobs, StatCached(c, r, b)
    PROVE  PushedCanBePulled'
<1>p. RegTypeOK /\ CachedWasStored /\ PushesFit
    BY DEF PushedCanBePulled
<1>1. req[c] \in RegRequests /\ PushFits(req[c]) /\ req[c].pc = "push" /\ Stored(b)
    BY <1>p DEF RegTypeOK, PushesFit, CachedWasStored, StatCached, RegAt
<1>2. PICK q : q = [req[c] EXCEPT !.pc = "push", !.todo = @ \ {b}]
    OBVIOUS
<1>3. q \in RegRequests /\ q.pc = "push" /\ q.m = req[c].m /\ q.todo = req[c].todo \ {b}
    BY <1>1, <1>2 DEF RegRequests
<1>4. PushFits(q)
    BY <1>1, <1>3 DEF PushFits
<1>5. UNCHANGED <<blobObj, manObj, sizeCache, ackedPut, cleared, regFaults, regDeletes>> /\ req' = [req EXCEPT ![c] = q]
    BY <1>2 DEF StatCached, SetReq, HasLayer
<1>6. NothingUnrecorded
    BY <1>5 DEF NothingUnrecorded, Stored, Served
<1> QED BY <1>3, <1>4, <1>5, <1>6, CacheSame, ClientKeeps

(* An answer to HEAD out of the bucket caches what is stored. *)
LEMMA StatKeeps ==
    ASSUME PushedCanBePulled, NEW c \in Clients, NEW r \in Replicas, NEW b \in RegBlobs, Stat(c, r, b)
    PROVE  PushedCanBePulled'
<1>p. RegTypeOK /\ CachedWasStored /\ PushesFit
    BY DEF PushedCanBePulled
<1>1. req[c] \in RegRequests /\ PushFits(req[c]) /\ req[c].pc = "push"
    BY <1>p DEF RegTypeOK, PushesFit, Stat, RegAt
<1>2. PICK q : q = [pc |-> IF gcsKey(Repo, b) \in blobObj THEN "stat" ELSE "put",
                     m |-> req[c].m, ref |-> req[c].ref, todo |-> req[c].todo, b |-> b, at |-> r]
    OBVIOUS
<1>3. /\ q \in RegRequests /\ q.m = req[c].m /\ q.todo = req[c].todo /\ q.b = b
      /\ q.pc = IF gcsKey(Repo, b) \in blobObj THEN "stat" ELSE "put"
    BY <1>1, <1>2 DEF RegRequests
<1>4. PushFits(q)
    BY <1>1, <1>3 DEF PushFits, Stored
<1>5. UNCHANGED <<blobObj, manObj, sizeCache, ackedPut, cleared, regFaults, regDeletes>> /\ req' = [req EXCEPT ![c] = q]
    BY <1>2 DEF Stat
<1>6. NothingUnrecorded
    BY <1>5 DEF NothingUnrecorded, Stored, Served
<1> QED BY <1>3, <1>4, <1>5, <1>6, CacheSame, ClientKeeps

\* The size of a blob that was found or uploaded is cached, and the layer ticked off.
LEMMA TickKeeps ==
    ASSUME PushedCanBePulled, NEW c \in Clients, StatStore(c) \/ BlobPutDone(c)
    PROVE  PushedCanBePulled'
<1>p. RegTypeOK /\ PushesFit
    BY DEF PushedCanBePulled
<1>1. req[c] \in RegRequests /\ PushFits(req[c]) /\ req[c].pc \in {"stat", "written"}
    BY <1>p DEF RegTypeOK, PushesFit, StatStore, BlobPutDone, RegAt
<1>2. req[c].b \in RegBlobs /\ req[c].at \in Replicas /\ Stored(req[c].b)
    BY <1>1 DEF RegRequests, PushFits
<1>3. PICK q : q = [pc |-> "push", m |-> req[c].m, ref |-> req[c].ref, todo |-> req[c].todo \ {req[c].b}]
    OBVIOUS
<1>4. q \in RegRequests /\ q.pc = "push" /\ q.m = req[c].m /\ q.todo = req[c].todo \ {req[c].b}
    BY <1>1, <1>3 DEF RegRequests
<1>5. PushFits(q)
    BY <1>1, <1>2, <1>4 DEF PushFits
<1>6. UNCHANGED <<blobObj, manObj, ackedPut, cleared, regFaults, regDeletes>> /\ req' = [req EXCEPT ![c] = q]
    BY <1>3 DEF StatStore, BlobPutDone, SetReq, Pushing
<1>7. sizeCache' = [sizeCache EXCEPT ![req[c].at] = @ \cup {gcsKey(Repo, req[c].b)}]
    BY KeyOf DEF StatStore, BlobPutDone
<1>8. sizeCache' \in [Replicas -> SUBSET BlobKeys] /\ CachedWasStored'
    BY <1>2, <1>6, <1>7, CacheAdds
<1> QED BY <1>4, <1>5, <1>6, <1>8, ClientKeeps

(* A client without a request rests on nothing. *)
LEMMA RequestEnds ==
    ASSUME NEW q, q = RegIdle
    PROVE  q \in RegRequests /\ PushFits(q) /\ PushFits(q)'
<1>1. q \in RegRequests /\ q.pc = "idle"
    BY DEF RegIdle, RegRequests
<1> QED BY <1>1 DEF PushFits

(* An upload stores the blob before it caches the size. *)
LEMMA BlobPutKeeps ==
    ASSUME PushedCanBePulled, NEW c \in Clients, BlobPut(c)
    PROVE  PushedCanBePulled'
<1>p. RegTypeOK /\ PushesFit
    BY DEF PushedCanBePulled
<1>1. /\ req[c] \in RegRequests /\ PushFits(req[c]) /\ req[c].pc = "put"
      /\ UNCHANGED <<manObj, sizeCache, ackedPut, regDeletes>>
    BY <1>p DEF RegTypeOK, PushesFit, BlobPut, RegAt
<1>2. PICK b \in RegBlobs : b = req[c].b
    BY <1>1 DEF RegRequests
<1>3. CASE /\ blobObj' = blobObj \cup {gcsKey(UploadRepo, b)} /\ cleared' = cleared \ {<<b, b>>}
           /\ req' = [req EXCEPT ![c].pc = "written"] /\ UNCHANGED regFaults
    <2>1. PICK q : q = [req[c] EXCEPT !.pc = "written"]
        OBVIOUS
    <2>2. q \in RegRequests /\ q.pc = "written" /\ q.m = req[c].m /\ q.todo = req[c].todo /\ q.b = b
        BY <1>1, <1>2, <2>1 DEF RegRequests
    <2>3. req' = [req EXCEPT ![c] = q]
        BY <1>3, <2>1
    <2>4. Stored(b)'
        BY <1>3, KeyOf DEF Stored
    <2>5. \A x \in RegBlobs : Stored(x) => Stored(x)'
        <3> SUFFICES ASSUME NEW x \in RegBlobs, Stored(x), x # b PROVE Stored(x)'
            BY <2>4
        <3> QED BY <1>3 DEF Stored
    <2>6. \A ref \in Refs, m \in Manifests : Served(ref, m) => Served(ref, m)'
        BY <1>1, <1>2, <1>3, RegistryAssumption DEF Served
    <2>7. NothingUnrecorded
        BY <2>5, <2>6 DEF NothingUnrecorded
    <2>8. \A x \in Layers[q.m] \ q.todo : Stored(x)'
        <3>1. Layers[q.m] \subseteq RegBlobs
            BY <2>2, RegistryAssumption DEF RegRequests
        <3> QED BY <1>1, <2>2, <2>5, <3>1 DEF PushFits
    <2>9. PushFits(q)'
        BY <2>2, <2>4, <2>8 DEF PushFits
    <2>10. /\ blobObj' \subseteq BlobKeys /\ manObj' \in [Refs -> {NoObject} \cup {Pair(m) : m \in Manifests}]
           /\ cleared' \subseteq (Refs \X Manifests) \cup (RegBlobs \X RegBlobs)
           /\ regFaults' \in 0..MaxRegFaults /\ regDeletes' \in 0..MaxDeletes
           /\ ackedPut' \subseteq Refs \X Manifests /\ ackedPut' = ackedPut
        BY <1>p, <1>1, <1>3, KeyOf DEF RegTypeOK, BlobKeys
    <2>11. sizeCache' \in [Replicas -> SUBSET BlobKeys] /\ CachedWasStored'
        BY <1>1, <2>7, CacheSame
    <2> QED BY <2>2, <2>3, <2>7, <2>9, <2>10, <2>11, RegistryKeeps
<1>4. CASE RegFault /\ SetReq(c, RegIdle) /\ UNCHANGED <<blobObj, cleared>>
    <2>1. NothingUnrecorded
        BY <1>1, <1>4 DEF NothingUnrecorded, Stored, Served
    <2>2. PICK q : q = RegIdle
        OBVIOUS
    <2>3. q \in RegRequests /\ PushFits(q)' /\ req' = [req EXCEPT ![c] = q]
        BY <1>4, <2>2, RequestEnds DEF SetReq
    <2>4. regFaults' \in 0..MaxRegFaults
        BY <1>p, <1>4, RegistryAssumption DEF RegFault, RegTypeOK
    <2>5. /\ blobObj' \subseteq BlobKeys /\ manObj' \in [Refs -> {NoObject} \cup {Pair(m) : m \in Manifests}]
          /\ cleared' \subseteq (Refs \X Manifests) \cup (RegBlobs \X RegBlobs)
          /\ regDeletes' \in 0..MaxDeletes
          /\ ackedPut' \subseteq Refs \X Manifests /\ ackedPut' = ackedPut
        BY <1>p, <1>1, <1>4 DEF RegTypeOK
    <2>6. sizeCache' \in [Replicas -> SUBSET BlobKeys] /\ CachedWasStored'
        BY <1>1, <2>1, CacheSame
    <2> QED BY <2>1, <2>3, <2>4, <2>5, <2>6, RegistryKeeps
<1> QED BY <1>2, <1>3, <1>4 DEF BlobPut

\* An object is written: the one it replaces is on record.
LEMMA WriteKeeps ==
    ASSUME PushedCanBePulled, NEW ref \in Refs, NEW m \in Manifests, writeObject(ref, m), UNCHANGED blobObj
    PROVE  /\ NothingUnrecorded /\ Served(ref, m)'
           /\ manObj' \in [Refs -> {NoObject} \cup {Pair(n) : n \in Manifests}]
           /\ cleared' \subseteq (Refs \X Manifests) \cup (RegBlobs \X RegBlobs)
<1>p. RegTypeOK
    BY DEF PushedCanBePulled
<1>1. PICK old : old = manObj[ref]
    OBVIOUS
<1>2. /\ manObj' = [manObj EXCEPT ![ref] = Pair(m)]
      /\ cleared' = (IF old = NoObject THEN cleared
                     ELSE cleared \cup {<<ref, old.content>>}) \ {<<ref, m>>}
    BY <1>1 DEF writeObject
<1>3. old = NoObject \/ \E n \in Manifests : old = Pair(n)
    BY <1>p, <1>1 DEF RegTypeOK
<1>4. \A n \in Manifests : Pair(n).content = n
    BY DEF Pair
<1>5. manObj' \in [Refs -> {NoObject} \cup {Pair(n) : n \in Manifests}] /\ manObj'[ref] = Pair(m)
    BY <1>p, <1>2 DEF RegTypeOK
<1>6. cleared' \subseteq (Refs \X Manifests) \cup (RegBlobs \X RegBlobs)
    BY <1>p, <1>2, <1>3, <1>4 DEF RegTypeOK
<1>7. \A b \in RegBlobs : <<b, b>> \in cleared => <<b, b>> \in cleared'
    BY <1>2, RegistryAssumption
<1>8. \A b \in RegBlobs : Stored(b) => Stored(b)'
    BY <1>7 DEF Stored
<1>9. ASSUME NEW x \in Refs, NEW n \in Manifests, Served(x, n) PROVE Served(x, n)'
    <2>1. CASE x = ref /\ n = m
        BY <1>5, <2>1 DEF Served
    <2>2. CASE x = ref /\ n # m
        <3>1. <<x, n>> \in cleared \/ old = Pair(n)
            BY <1>1, <1>9, <2>2 DEF Served
        <3>2. <<x, n>> \in cleared'
            BY <1>2, <1>4, <2>2, <3>1, RegistryAssumption
        <3> QED BY <3>2 DEF Served
    <2>3. CASE x # ref
        <3>1. manObj'[x] = manObj[x]
            BY <1>p, <1>2, <2>3 DEF RegTypeOK
        <3>2. <<x, n>> \in cleared => <<x, n>> \in cleared'
            BY <1>2, <2>3
        <3> QED BY <1>9, <3>1, <3>2 DEF Served
    <2> QED BY <2>1, <2>2, <2>3
<1> QED BY <1>5, <1>6, <1>8, <1>9 DEF NothingUnrecorded, Served

(* The first write of a push, the manifest under its digest. *)
LEMMA ManifestPutKeeps ==
    ASSUME PushedCanBePulled, NEW c \in Clients, ManifestPut(c)
    PROVE  PushedCanBePulled'
<1>p. RegTypeOK /\ PushesFit
    BY DEF PushedCanBePulled
<1>1. /\ req[c] \in RegRequests /\ PushFits(req[c]) /\ req[c].pc = "push" /\ req[c].todo = {}
      /\ UNCHANGED <<blobObj, sizeCache, ackedPut, regDeletes>>
    BY <1>p DEF RegTypeOK, PushesFit, ManifestPut, RegAt
<1>2. PICK m \in Manifests, ref \in RegTags : m = req[c].m /\ ref = req[c].ref
    BY <1>1 DEF RegRequests
<1>t. /\ blobObj' \subseteq BlobKeys /\ regDeletes' \in 0..MaxDeletes
      /\ ackedPut' \subseteq Refs \X Manifests /\ ackedPut' = ackedPut
    BY <1>p, <1>1 DEF RegTypeOK
<1>3. CASE writeObject(ref, m) /\ req' = [req EXCEPT ![c].pc = "index"] /\ UNCHANGED regFaults
    <2>1. /\ NothingUnrecorded /\ Served(ref, m)'
          /\ manObj' \in [Refs -> {NoObject} \cup {Pair(n) : n \in Manifests}]
          /\ cleared' \subseteq (Refs \X Manifests) \cup (RegBlobs \X RegBlobs)
        BY <1>1, <1>3, WriteKeeps DEF Refs
    <2>2. PICK q : q = [req[c] EXCEPT !.pc = "index"]
        OBVIOUS
    <2>3. q \in RegRequests /\ q.pc = "index" /\ q.m = m /\ q.ref = ref /\ q.todo = {}
        BY <1>1, <1>2, <2>2 DEF RegRequests
    <2>4. req' = [req EXCEPT ![c] = q]
        BY <1>3, <2>2
    <2>5. \A x \in Layers[m] : Stored(x)'
        <3>1. Layers[m] \subseteq RegBlobs
            BY RegistryAssumption
        <3> QED BY <1>1, <1>2, <2>1, <3>1 DEF PushFits, NothingUnrecorded
    <2>6. PushFits(q)'
        BY <2>1, <2>3, <2>5 DEF PushFits
    <2>7. regFaults' \in 0..MaxRegFaults
        BY <1>p, <1>3 DEF RegTypeOK
    <2>8. sizeCache' \in [Replicas -> SUBSET BlobKeys] /\ CachedWasStored'
        BY <1>1, <2>1, CacheSame
    <2> QED BY <1>t, <2>1, <2>3, <2>4, <2>6, <2>7, <2>8, RegistryKeeps
<1>4. CASE RegFault /\ SetReq(c, RegIdle) /\ UNCHANGED <<manObj, cleared>>
    <2>1. NothingUnrecorded
        BY <1>1, <1>4 DEF NothingUnrecorded, Stored, Served
    <2>2. PICK q : q = RegIdle
        OBVIOUS
    <2>3. q \in RegRequests /\ PushFits(q)' /\ req' = [req EXCEPT ![c] = q]
        BY <1>4, <2>2, RequestEnds DEF SetReq
    <2>4. regFaults' \in 0..MaxRegFaults
        BY <1>p, <1>4, RegistryAssumption DEF RegFault, RegTypeOK
    <2>5. /\ manObj' \in [Refs -> {NoObject} \cup {Pair(n) : n \in Manifests}]
          /\ cleared' \subseteq (Refs \X Manifests) \cup (RegBlobs \X RegBlobs)
        BY <1>p, <1>4 DEF RegTypeOK
    <2>6. sizeCache' \in [Replicas -> SUBSET BlobKeys] /\ CachedWasStored'
        BY <1>1, <2>1, CacheSame
    <2> QED BY <1>t, <2>1, <2>3, <2>4, <2>5, <2>6, RegistryKeeps
<1> QED BY <1>2, <1>3, <1>4 DEF ManifestPut

(* The second write of a push, the manifest under its tag, and the answer. *)
LEMMA ManifestIndexKeeps ==
    ASSUME PushedCanBePulled, NEW c \in Clients, ManifestIndex(c)
    PROVE  PushedCanBePulled'
<1>p. RegTypeOK /\ PushesFit
    BY DEF PushedCanBePulled
<1>1. /\ req[c] \in RegRequests /\ PushFits(req[c]) /\ req[c].pc = "index"
      /\ UNCHANGED <<blobObj, sizeCache, regDeletes>>
    BY <1>p DEF RegTypeOK, PushesFit, ManifestIndex, RegAt
<1>2. PICK m \in Manifests, ref \in RegTags : m = req[c].m /\ ref = req[c].ref
    BY <1>1 DEF RegRequests
<1>3. Served(ref, m) /\ (\A x \in Layers[m] : Stored(x)) /\ Layers[m] \subseteq RegBlobs /\ ref \in Refs /\ m \in Refs
    BY <1>1, <1>2, RegistryAssumption DEF PushFits, Refs
<1>t. blobObj' \subseteq BlobKeys /\ regDeletes' \in 0..MaxDeletes /\ ackedPut \subseteq Refs \X Manifests
    BY <1>p, <1>1 DEF RegTypeOK
<1>4. PICK q : q = RegIdle
    OBVIOUS
<1>5. q \in RegRequests /\ PushFits(q)' /\ req' = [req EXCEPT ![c] = q]
    BY <1>4, RequestEnds DEF ManifestIndex, SetReq
<1>6. CASE /\ writeObject(m, m) /\ UNCHANGED regFaults
           /\ ackedPut' = ackedPut \cup {<<ref, m>>, <<m, m>>}
    <2>1. /\ NothingUnrecorded /\ Served(m, m)'
          /\ manObj' \in [Refs -> {NoObject} \cup {Pair(n) : n \in Manifests}]
          /\ cleared' \subseteq (Refs \X Manifests) \cup (RegBlobs \X RegBlobs)
        BY <1>1, <1>3, <1>6, WriteKeeps
    <2>2. Served(ref, m)' /\ \A x \in Layers[m] : Stored(x)'
        BY <1>3, <2>1 DEF NothingUnrecorded
    <2>3. \A p \in ackedPut' : p \in ackedPut \/ (Served(p[1], p[2])' /\ \A b \in Layers[p[2]] : Stored(b)')
        <3> SUFFICES ASSUME NEW p \in {<<ref, m>>, <<m, m>>}
                     PROVE  Served(p[1], p[2])' /\ \A b \in Layers[p[2]] : Stored(b)'
            BY <1>6
        <3>1. p[2] = m /\ p[1] \in {ref, m}
            OBVIOUS
        <3> QED BY <2>1, <2>2, <3>1 DEF Served
    <2>4. ackedPut' \subseteq Refs \X Manifests
        BY <1>3, <1>6, <1>t
    <2>5. regFaults' \in 0..MaxRegFaults
        BY <1>p, <1>6 DEF RegTypeOK
    <2>6. sizeCache' \in [Replicas -> SUBSET BlobKeys] /\ CachedWasStored'
        BY <1>1, <2>1, CacheSame
    <2> QED BY <1>t, <1>5, <2>1, <2>3, <2>4, <2>5, <2>6, RegistryKeeps
<1>7. CASE RegFault /\ UNCHANGED <<manObj, ackedPut, cleared>>
    <2>1. NothingUnrecorded
        BY <1>1, <1>7 DEF NothingUnrecorded, Stored, Served
    <2>4. regFaults' \in 0..MaxRegFaults
        BY <1>p, <1>7, RegistryAssumption DEF RegFault, RegTypeOK
    <2>5. /\ manObj' \in [Refs -> {NoObject} \cup {Pair(n) : n \in Manifests}]
          /\ cleared' \subseteq (Refs \X Manifests) \cup (RegBlobs \X RegBlobs)
          /\ ackedPut' = ackedPut /\ ackedPut' \subseteq Refs \X Manifests
        BY <1>p, <1>7 DEF RegTypeOK
    <2>6. sizeCache' \in [Replicas -> SUBSET BlobKeys] /\ CachedWasStored'
        BY <1>1, <2>1, CacheSame
    <2> QED BY <1>t, <1>5, <2>1, <2>4, <2>5, <2>6, RegistryKeeps
<1> QED BY <1>2, <1>6, <1>7 DEF ManifestIndex

\* A step of no client.
LEMMA ServerKeeps ==
    ASSUME PushedCanBePulled, NothingUnrecorded, UNCHANGED ackedPut, RegTypeOK', CachedWasStored',
           \A c \in Clients : req'[c] = req[c] \/ req'[c] = RegIdle
    PROVE  PushedCanBePulled'
<1>p. RegTypeOK /\ PushesFit /\ PushedImageComplete /\ AckedManifestServed
    BY DEF PushedCanBePulled
<1>1. ASSUME NEW c \in Clients PROVE PushFits(req[c])'
    <2>1. PICK y \in RegRequests : y = req[c]
        BY <1>p DEF RegTypeOK
    <2>2. PushFits(y)'
        BY <1>p, <2>1, PushStays DEF PushesFit
    <2>3. CASE req'[c] = y
        BY <2>2, <2>3 DEF PushFits
    <2>4. CASE req'[c] = RegIdle
        BY <2>4 DEF PushFits, RegIdle
    <2> QED BY <2>1, <2>3, <2>4
<1>2. ASSUME NEW p \in ackedPut
      PROVE  p = <<p[1], p[2]>> /\ p[1] \in Refs /\ p[2] \in Manifests /\ Served(p[1], p[2])' /\ \A b \in Layers[p[2]] : Stored(b)'
    <2>1. p = <<p[1], p[2]>> /\ p[1] \in Refs /\ p[2] \in Manifests /\ Layers[p[2]] \subseteq RegBlobs
        BY <1>p, RegistryAssumption DEF RegTypeOK
    <2>2. Served(p[1], p[2]) /\ \A b \in Layers[p[2]] : Stored(b)
        BY <1>p, <2>1 DEF PushedImageComplete, AckedManifestServed, Served
    <2> QED BY <2>1, <2>2 DEF NothingUnrecorded
<1>3. \A m \in Manifests : Pair(m) # NoObject
    BY RegistryAssumption
<1>4. PushedImageComplete' /\ AckedManifestServed'
    BY <1>2, <1>3 DEF PushedImageComplete, AckedManifestServed, Served, Tags, isDigestRef, Refs
<1> QED BY <1>1, <1>4 DEF PushedCanBePulled, PushesFit

(* A deleted manifest is recorded as cleared. *)
LEMMA ManifestDeleteKeeps ==
    ASSUME PushedCanBePulled, NEW ref \in Refs, ManifestDelete(ref)
    PROVE  PushedCanBePulled'
<1>p. RegTypeOK
    BY DEF PushedCanBePulled
<1>1. /\ manObj[ref] # NoObject /\ manObj' = [manObj EXCEPT ![ref] = NoObject]
      /\ cleared' = cleared \cup {<<ref, manObj[ref].content>>}
      /\ UNCHANGED <<blobObj, sizeCache, req, ackedPut, regFaults>>
    BY DEF ManifestDelete
<1>2. PICK n \in Manifests : manObj[ref] = Pair(n)
    BY <1>p, <1>1 DEF RegTypeOK
<1>3. cleared' = cleared \cup {<<ref, n>>} /\ \A m \in Manifests : Pair(n) = Pair(m) => n = m
    BY <1>1, <1>2 DEF Pair
<1>4. regDeletes' \in 0..MaxDeletes
    BY <1>p, RegistryAssumption DEF ManifestDelete, Deletes, RegTypeOK
<1>5. RegTypeOK'
    BY <1>p, <1>1, <1>3, <1>4 DEF RegTypeOK
<1>6. NothingUnrecorded
    <2>1. \A b \in RegBlobs : Stored(b) => Stored(b)'
        BY <1>1 DEF Stored
    <2>2. ASSUME NEW x \in Refs, NEW m \in Manifests, Served(x, m) PROVE Served(x, m)'
        <3>1. CASE x = ref
            BY <1>2, <1>3, <2>2, <3>1 DEF Served
        <3>2. CASE x # ref
            BY <1>p, <1>1, <2>2, <3>2 DEF Served, RegTypeOK
        <3> QED BY <3>1, <3>2
    <2> QED BY <2>1, <2>2 DEF NothingUnrecorded
<1> QED BY <1>1, <1>5, <1>6, CacheSame, ServerKeeps

(* A deleted blob is recorded as cleared. *)
LEMMA BlobDeleteKeeps ==
    ASSUME PushedCanBePulled, NEW c \in Clients, NEW r \in Replicas, NEW b \in RegBlobs, BlobDelete(c, r, b)
    PROVE  PushedCanBePulled'
<1>p. RegTypeOK
    BY DEF PushedCanBePulled
<1>1. UNCHANGED <<manObj, sizeCache, ackedPut, regFaults>>
    BY DEF BlobDelete
<1>2. regDeletes' \in 0..MaxDeletes
    BY <1>p, RegistryAssumption DEF BlobDelete, Deletes, RegTypeOK
<1>3. CASE gcsKey(Repo, b) \in blobObj
    <2>1. PICK q : q = [pc |-> "deleted", b |-> b, at |-> r]
        OBVIOUS
    <2>2. q \in RegRequests /\ q.pc = "deleted"
        BY <2>1 DEF RegRequests
    <2>3. /\ blobObj' = blobObj \ {gcsKey(Repo, b)} /\ cleared' = cleared \cup {<<b, b>>}
          /\ req' = [req EXCEPT ![c] = q]
        BY <1>3, <2>1 DEF BlobDelete, SetReq
    <2>4. PushFits(q)'
        BY <2>2 DEF PushFits
    <2>5. NothingUnrecorded
        <3>1. \A x \in RegBlobs : x # b => gcsKey(Repo, x) # gcsKey(Repo, b)
            BY KeyOf
        <3> QED BY <1>1, <2>3, <3>1 DEF NothingUnrecorded, Stored, Served
    <2>6. /\ blobObj' \subseteq BlobKeys /\ manObj' \in [Refs -> {NoObject} \cup {Pair(m) : m \in Manifests}]
          /\ cleared' \subseteq (Refs \X Manifests) \cup (RegBlobs \X RegBlobs)
          /\ regFaults' \in 0..MaxRegFaults
          /\ ackedPut' \subseteq Refs \X Manifests /\ ackedPut' = ackedPut
        BY <1>p, <1>1, <2>3 DEF RegTypeOK
    <2>7. sizeCache' \in [Replicas -> SUBSET BlobKeys] /\ CachedWasStored'
        BY <1>1, <2>5, CacheSame
    <2> QED BY <1>2, <2>2, <2>3, <2>4, <2>5, <2>6, <2>7, RegistryKeeps
<1>4. CASE gcsKey(Repo, b) \notin blobObj
    <2>1. UNCHANGED <<blobObj, cleared, req>>
        BY <1>4 DEF BlobDelete
    <2>2. NothingUnrecorded
        BY <1>1, <2>1 DEF NothingUnrecorded, Stored, Served
    <2>3. RegTypeOK'
        BY <1>p, <1>1, <1>2, <2>1 DEF RegTypeOK
    <2> QED BY <1>1, <2>1, <2>2, <2>3, CacheSame, ServerKeeps
<1> QED BY <1>3, <1>4

(* The replica that deleted a blob forgets its size. *)
LEMMA BlobDeleteDoneKeeps ==
    ASSUME PushedCanBePulled, NEW c \in Clients, BlobDeleteDone(c)
    PROVE  PushedCanBePulled'
<1>p. RegTypeOK /\ CachedWasStored
    BY DEF PushedCanBePulled
<1>1. PICK q : q = RegIdle
    OBVIOUS
<1>2. q \in RegRequests /\ PushFits(q) /\ req' = [req EXCEPT ![c] = q]
    BY <1>1, RequestEnds DEF BlobDeleteDone, SetReq
<1>3. UNCHANGED <<blobObj, manObj, ackedPut, cleared, regFaults, regDeletes>>
    BY DEF BlobDeleteDone
<1>4. sizeCache' \in [Replicas -> SUBSET BlobKeys] /\ \A r \in Replicas : sizeCache'[r] \subseteq sizeCache[r]
    BY <1>p DEF BlobDeleteDone, RegTypeOK
<1>5. CachedWasStored'
    BY <1>p, <1>3, <1>4 DEF CachedWasStored, Stored
<1> QED BY <1>2, <1>3, <1>4, <1>5, ClientKeeps

(* A restarted replica has an empty cache. *)
LEMMA RestartKeeps ==
    ASSUME PushedCanBePulled, NEW r \in Replicas, NewGCSHandler(r)
    PROVE  PushedCanBePulled'
<1>p. RegTypeOK /\ CachedWasStored
    BY DEF PushedCanBePulled
<1>1. UNCHANGED <<blobObj, manObj, ackedPut, cleared, regDeletes>> /\ sizeCache' = [sizeCache EXCEPT ![r] = {}]
    BY DEF NewGCSHandler
<1>2. req' = [c \in Clients |-> IF req[c].pc \in {"stat", "put", "written", "deleted"}
                                    /\ req[c].at = r THEN RegIdle ELSE req[c]]
    BY DEF NewGCSHandler
<1>3. \A c \in Clients : req'[c] = req[c] \/ req'[c] = RegIdle
    BY <1>2
<1>4. req' \in [Clients -> RegRequests]
    <2>1. RegIdle \in RegRequests
        BY DEF RegIdle, RegRequests
    <2>2. \A c \in Clients : req[c] \in RegRequests
        BY <1>p DEF RegTypeOK
    <2> QED BY <1>2, <2>1, <2>2
<1>5. regFaults' \in 0..MaxRegFaults
    BY <1>p, RegistryAssumption DEF NewGCSHandler, RegFault, RegTypeOK
<1>6. sizeCache' \in [Replicas -> SUBSET BlobKeys] /\ \A x \in Replicas : sizeCache'[x] \subseteq sizeCache[x]
    BY <1>p, <1>1 DEF RegTypeOK
<1>7. RegTypeOK'
    BY <1>p, <1>1, <1>4, <1>5, <1>6 DEF RegTypeOK
<1>8. CachedWasStored'
    BY <1>p, <1>1, <1>6 DEF CachedWasStored, Stored
<1>9. NothingUnrecorded
    BY <1>1 DEF NothingUnrecorded, Stored, Served
<1> QED BY <1>1, <1>3, <1>7, <1>8, <1>9, ServerKeeps

(* The empty bucket satisfies the invariant. *)
LEMMA RegistryInit == RegInit => PushedCanBePulled
<1> SUFFICES ASSUME RegInit PROVE PushedCanBePulled
    OBVIOUS
<1>1. RegIdle \in RegRequests /\ PushFits(RegIdle)
    BY DEF RegIdle, RegRequests, PushFits
<1>2. regFaults \in 0..MaxRegFaults /\ regDeletes \in 0..MaxDeletes
    BY RegistryAssumption DEF RegInit
<1>3. RegTypeOK
    BY <1>1, <1>2 DEF RegInit, RegTypeOK
<1>4. \A c \in Clients : req[c] = RegIdle
    BY DEF RegInit
<1>5. PushesFit
    BY <1>1, <1>4 DEF PushesFit
<1> QED BY <1>3, <1>5 DEF RegInit, PushedCanBePulled, CachedWasStored, PushedImageComplete, AckedManifestServed

(* Every step of the registry and its clients keeps the invariant. *)
LEMMA RegistryStep == PushedCanBePulled /\ [RegNext]_regVars => PushedCanBePulled'
<1> SUFFICES ASSUME PushedCanBePulled, [RegNext]_regVars PROVE PushedCanBePulled'
    OBVIOUS
<1>1. CASE UNCHANGED regVars
    <2>1. RegTypeOK' /\ NothingUnrecorded
        BY <1>1 DEF regVars, PushedCanBePulled, RegTypeOK, NothingUnrecorded, Stored, Served
    <2>2. UNCHANGED <<sizeCache, ackedPut, req>>
        BY <1>1 DEF regVars
    <2> QED BY <2>1, <2>2, CacheSame, ServerKeeps
<1>2. ASSUME NEW c \in Clients, NEW m \in Manifests, NEW t \in RegTags, StartPush(c, m, t)
      PROVE  PushedCanBePulled'
    BY <1>2, StartKeeps
<1>3. ASSUME NEW c \in Clients, NEW r \in Replicas, NEW b \in RegBlobs,
             StatCached(c, r, b) \/ Stat(c, r, b) \/ BlobDelete(c, r, b)
      PROVE  PushedCanBePulled'
    BY <1>3, StatCachedKeeps, StatKeeps, BlobDeleteKeeps
<1>4. ASSUME NEW c \in Clients,
             \/ StatStore(c) \/ BlobPut(c) \/ BlobPutDone(c) \/ BlobDeleteDone(c)
             \/ ManifestPut(c) \/ ManifestIndex(c)
      PROVE  PushedCanBePulled'
    BY <1>4, TickKeeps, BlobPutKeeps, BlobDeleteDoneKeeps, ManifestPutKeeps, ManifestIndexKeeps
<1>5. ASSUME NEW ref \in Refs, ManifestDelete(ref) PROVE PushedCanBePulled'
    BY <1>5, ManifestDeleteKeeps
<1>6. ASSUME NEW r \in Replicas, NewGCSHandler(r) PROVE PushedCanBePulled'
    BY <1>6, RestartKeeps
<1> QED BY <1>1, <1>2, <1>3, <1>4, <1>5, <1>6 DEF RegNext

\* PushedCanBePulled: with any number of replicas, clients, images and layers, an
\* image whose push was acknowledged has its manifest and all its layers in the
\* bucket, although each replica answers HEAD from a cache of its own, unless one
\* of them was deleted or overwritten after it was last written; for a layer that
\* may have been before the push, when a cache still reported it.
THEOREM PushesHold == RegSpec => []PushedCanBePulled
<1> QED BY RegistryInit, RegistryStep, PTL DEF RegSpec

-----------------------------------------------------------------------------
(* Documents, blobs and releases.                                          *)

USE DocBlobsAssumption

(* The parts of ContentKept, and what it says of each transaction. *)
LEMMA ContentParts ==
    ASSUME ContentKept
    PROVE  /\ DocTypeOK /\ DocIdsOnce /\ CommitsFit /\ PurgeFits
           /\ BytesLostOnlyByPurge /\ VersionsExist /\ ReleaseOfMainStays
           /\ \A c \in Committers : tx[c] \in TxRecords /\ CommitFits(c)
BY DEF ContentKept, DocTypeOK, CommitsFit

\* The fields of a transaction that has gone past its dedup query.
LEMMA TxFields ==
    ASSUME NEW t \in TxRecords, t.pc \in {"upload", "insert", "link", "commit"}
    PROVE  /\ t.repo \in DocRepos /\ t.branch \in DocBranches /\ t.content \in BigContents
           /\ t.id \in Nat /\ t.new \in BOOLEAN
BY DEF TxRecords

\* A failure counts once more.
LEMMA FaultCounts ==
    ASSUME ContentKept, DocFault \/ UNCHANGED docFaults
    PROVE  docFaults' \in 0..MaxDocFaults
<1>1. docFaults \in 0..MaxDocFaults
    BY DEF ContentKept, DocTypeOK
<1> QED BY <1>1 DEF DocFault

\* A step of one commit, before it becomes visible.
LEMMA TxKeeps ==
    ASSUME ContentKept, UNCHANGED <<documents, fileCommits, status, purge, proposals, releases, relReq, docSeq, excused>>,
           blobs \subseteq blobs', blobs' \subseteq BigContents,
           nextDoc' \in Nat, nextDoc <= nextDoc', docFaults' \in 0..MaxDocFaults,
           NEW c \in Committers, NEW t \in TxRecords, tx' = [tx EXCEPT ![c] = t], CommitFits(c)',
           t.pc \in {"link", "commit"} => \/ Linked(c) /\ t.id = tx[c].id
                                          \/ t.id \in Ids(documents)
                                          \/ t.id = nextDoc,
           t.pc = "commit" => t.id \notin Deleting
    PROVE  ContentKept'
<1>p. /\ DocTypeOK /\ DocIdsOnce /\ CommitsFit /\ PurgeFits
      /\ BytesLostOnlyByPurge /\ VersionsExist /\ ReleaseOfMainStays
      /\ \A k \in Committers : tx[k] \in TxRecords /\ CommitFits(k)
    BY ContentParts
<1>1. /\ tx' \in [Committers -> TxRecords] /\ tx'[c] = t
      /\ \A k \in Committers : k # c => tx'[k] = tx[k]
    BY <1>p DEF DocTypeOK
<1>2. DocTypeOK'
    BY <1>p, <1>1 DEF DocTypeOK
<1>3. nextDoc \in Nat /\ \A d \in documents : d.id \in Nat
    BY <1>p DEF DocTypeOK, Documents
<1>4. DocIdsOnce'
    BY <1>p, <1>3 DEF DocIdsOnce
<1>5. ASSUME NEW k \in Committers PROVE CommitFits(k)'
    <2>1. CASE k = c
        BY <2>1
    <2>2. CASE k # c
        <3>1. tx'[k] = tx[k] /\ CommitFits(k) /\ tx[k] \in TxRecords /\ (Linked(k)' <=> Linked(k))
            BY <1>p, <1>1, <2>2 DEF Linked
        <3>2. Linked(k) => tx[k].id \in Nat /\ tx[k].id < nextDoc /\ tx[k].id < nextDoc'
            <4>1. Linked(k) => tx[k].id \in Nat /\ tx[k].id < nextDoc
                BY <3>1, TxFields DEF CommitFits, Linked
            <4> QED BY <1>3, <4>1
        <3>3. ASSUME Linked(k), tx[k].new, NEW x \in Committers, x # k, Linked(x)' PROVE tx'[x].id # tx[k].id
            <4>1. CASE x # c
                BY <1>1, <3>1, <3>3, <4>1 DEF Linked, CommitFits
            <4>2. CASE x = c
                <5>1. t.pc \in {"link", "commit"} /\ tx'[x].id = t.id
                    BY <1>1, <3>3, <4>2 DEF Linked
                <5>2. CASE Linked(c) /\ t.id = tx[c].id
                    BY <2>2, <3>1, <3>3, <4>2, <5>1, <5>2 DEF CommitFits
                <5>3. CASE t.id \in Ids(documents)
                    BY <3>1, <3>3, <5>1, <5>3 DEF CommitFits, Ids
                <5>4. CASE t.id = nextDoc
                    BY <1>3, <3>2, <3>3, <5>1, <5>4
                <5> QED BY <5>1, <5>2, <5>3, <5>4
            <4> QED BY <4>1, <4>2
        <3>4. Linked(k)' /\ tx'[k].new => \A x \in Committers : x # k /\ Linked(x)' => tx'[x].id # tx'[k].id
            BY <3>1, <3>3
        <3> QED BY <3>1, <3>2, <3>4 DEF CommitFits
    <2> QED BY <2>1, <2>2
<1>6. PurgeFits'
    <2>1. purge.pc = "deleted" => \A k \in Committers : tx'[k].pc = "commit" => tx'[k].id \notin purge.docs
        BY <1>p, <1>1 DEF PurgeFits, Deleting
    <2> QED BY <1>p, <2>1 DEF PurgeFits, Kept, Rows
<1>7. BytesLostOnlyByPurge' /\ VersionsExist' /\ ReleaseOfMainStays'
    BY <1>p DEF BytesLostOnlyByPurge, VersionsExist, ReleaseOfMainStays, OnMain, Rows
<1> QED BY <1>2, <1>4, <1>5, <1>6, <1>7 DEF ContentKept, CommitsFit

(* A commit that opens its transaction writes nothing. *)
LEMMA LockKeeps ==
    ASSUME ContentKept, NEW c \in Committers, NEW r \in DocRepos, NEW b \in {"main", "dev"},
           NEW x \in BigContents, LockBranch(c, r, b, x)
    PROVE  ContentKept'
<1>p. DocTypeOK
    BY ContentParts
<1>1. PICK t : t = [pc |-> "select", repo |-> r, branch |-> b, content |-> x]
    OBVIOUS
<1>2. t \in TxRecords /\ t.pc = "select" /\ tx' = [tx EXCEPT ![c] = t] /\ tx'[c] = t
    BY <1>p, <1>1 DEF TxRecords, DocBranches, LockBranch, DocTypeOK
<1>3. /\ UNCHANGED <<documents, fileCommits, status, purge, proposals, releases, relReq, docSeq, excused>>
      /\ UNCHANGED <<blobs, nextDoc, docFaults>>
    BY DEF LockBranch
<1>4. blobs' \subseteq BigContents /\ nextDoc' \in Nat /\ nextDoc <= nextDoc' /\ docFaults' \in 0..MaxDocFaults
    BY <1>p, <1>3 DEF DocTypeOK
<1>5. CommitFits(c)'
    BY <1>2 DEF CommitFits, Linked
<1> QED BY <1>2, <1>3, <1>4, <1>5, TxKeeps

(* The lookup of a content by its hash finds a document row or none. *)
LEMMA SelectKeeps ==
    ASSUME ContentKept, NEW c \in Committers, SelectDocument(c)
    PROVE  ContentKept'
<1>p. DocTypeOK /\ DocIdsOnce /\ tx[c] \in TxRecords
    BY ContentParts
<1>1. tx[c].pc = "select" /\ tx[c].repo \in DocRepos /\ tx[c].branch \in DocBranches /\ tx[c].content \in BigContents
    BY <1>p DEF SelectDocument, TxRecords
<1>3. /\ UNCHANGED <<documents, fileCommits, status, purge, proposals, releases, relReq, docSeq, excused>>
      /\ UNCHANGED <<blobs, nextDoc, docFaults>>
    BY DEF SelectDocument
<1>4. blobs' \subseteq BigContents /\ nextDoc' \in Nat /\ nextDoc <= nextDoc' /\ docFaults' \in 0..MaxDocFaults
    BY <1>p, <1>3 DEF DocTypeOK
<1>5. CASE tx' = [tx EXCEPT ![c] = With(c, "upload", 0, TRUE)]
    <2>1. PICK t : t = With(c, "upload", 0, TRUE)
        OBVIOUS
    <2>2. t \in TxRecords /\ t.pc = "upload" /\ tx' = [tx EXCEPT ![c] = t] /\ tx'[c] = t
        BY <1>p, <1>1, <1>5, <2>1 DEF TxRecords, With, DocTypeOK
    <2>3. CommitFits(c)'
        BY <2>2 DEF CommitFits, Linked
    <2> QED BY <1>3, <1>4, <2>2, <2>3, TxKeeps
<1>6. ASSUME NEW d \in documents, d.repo = tx[c].repo, tx' = [tx EXCEPT ![c] = With(c, "link", d.id, FALSE)]
      PROVE  ContentKept'
    <2>1. PICK t : t = With(c, "link", d.id, FALSE)
        OBVIOUS
    <2>2. d.id \in Nat /\ d.id < nextDoc /\ d.id \in Ids(documents)
        BY <1>p DEF DocTypeOK, Documents, DocIdsOnce, Ids
    <2>3. t \in TxRecords /\ t.pc = "link" /\ t.id = d.id /\ t.new = FALSE /\ t.repo = tx[c].repo
        BY <1>1, <2>1, <2>2 DEF TxRecords, With
    <2>4. tx' = [tx EXCEPT ![c] = t] /\ tx'[c] = t
        BY <1>p, <1>6, <2>1 DEF DocTypeOK
    <2>5. \A e \in documents : e.id = t.id => e.repo = t.repo
        BY <1>p, <1>6, <2>3 DEF DocIdsOnce
    <2>6. CommitFits(c)'
        BY <1>3, <2>2, <2>3, <2>4, <2>5 DEF CommitFits, Linked
    <2> QED BY <1>3, <1>4, <2>2, <2>3, <2>4, <2>6, TxKeeps
<1> QED BY <1>5, <1>6 DEF SelectDocument

\* A transaction that ends without a trace.
LEMMA AbortKeeps ==
    ASSUME ContentKept, NEW c \in Committers, Abort(c),
           UNCHANGED <<documents, fileCommits, status, purge, proposals, releases, relReq, docSeq, excused, blobs, nextDoc>>,
           docFaults' \in 0..MaxDocFaults
    PROVE  ContentKept'
<1>p. DocTypeOK
    BY ContentParts
<1>1. PICK t : t = NoTx
    OBVIOUS
<1>2. t \in TxRecords /\ t.pc = "idle" /\ tx' = [tx EXCEPT ![c] = t] /\ tx'[c] = t
    BY <1>p, <1>1 DEF TxRecords, NoTx, Abort, DocTypeOK
<1>3. CommitFits(c)'
    BY <1>2 DEF CommitFits, Linked
<1>4. blobs' \subseteq BigContents /\ nextDoc' \in Nat /\ nextDoc <= nextDoc'
    BY <1>p DEF DocTypeOK
<1> QED BY <1>2, <1>3, <1>4, TxKeeps

(* The upload of a content ahead of its row. *)
LEMMA UploadKeeps ==
    ASSUME ContentKept, NEW c \in Committers, UploadBlob(c)
    PROVE  ContentKept'
<1>p. DocTypeOK /\ tx[c] \in TxRecords
    BY ContentParts
<1>1. /\ tx[c].pc = "upload"
      /\ UNCHANGED <<documents, fileCommits, status, purge, proposals, releases, relReq, nextDoc, docSeq, excused>>
    BY DEF UploadBlob
<1>2. CASE DocFault /\ Abort(c) /\ UNCHANGED blobs
    BY <1>1, <1>2, FaultCounts, AbortKeeps
<1>3. CASE blobs' = blobs \cup {tx[c].content} /\ tx' = [tx EXCEPT ![c].pc = "insert"] /\ UNCHANGED docFaults
    <2>1. PICK t : t = [tx[c] EXCEPT !.pc = "insert"]
        OBVIOUS
    <2>2. t \in TxRecords /\ t.pc = "insert" /\ t.content = tx[c].content /\ tx[c].content \in BigContents
        BY <1>p, <1>1, <2>1 DEF TxRecords
    <2>3. tx' = [tx EXCEPT ![c] = t] /\ tx'[c] = t
        BY <1>p, <1>3, <2>1 DEF DocTypeOK
    <2>4. CommitFits(c)'
        BY <1>3, <2>2, <2>3 DEF CommitFits, Linked
    <2>5. blobs \subseteq blobs' /\ blobs' \subseteq BigContents /\ nextDoc' \in Nat /\ nextDoc <= nextDoc'
        BY <1>p, <1>1, <1>3, <2>2 DEF DocTypeOK
    <2>6. docFaults' \in 0..MaxDocFaults
        BY <1>3, FaultCounts
    <2> QED BY <1>1, <2>2, <2>3, <2>4, <2>5, <2>6, TxKeeps
<1> QED BY <1>2, <1>3 DEF UploadBlob

(* A new document row has the bytes that were uploaded before it. *)
LEMMA InsertKeeps ==
    ASSUME ContentKept, NEW c \in Committers, InsertDocument(c)
    PROVE  ContentKept'
<1>p. DocTypeOK /\ DocIdsOnce /\ tx[c] \in TxRecords /\ CommitFits(c)
      /\ \A k \in Committers : tx[k] \in TxRecords /\ CommitFits(k)
    BY ContentParts
<1>1. /\ tx[c].pc = "insert" /\ tx[c].content \in blobs \cup excused
      /\ UNCHANGED <<documents, fileCommits, status, purge, proposals, releases, relReq, docSeq, excused>>
      /\ UNCHANGED <<blobs, docFaults>>
    BY <1>p DEF InsertDocument, CommitFits
<1>2. nextDoc \in Nat /\ nextDoc' = nextDoc + 1
    BY <1>p DEF InsertDocument, DocTypeOK
<1>3. nextDoc' \in Nat /\ nextDoc <= nextDoc' /\ nextDoc < nextDoc'
    BY <1>2
<1>4. PICK t : t = With(c, "link", nextDoc, TRUE)
    OBVIOUS
<1>5. t \in TxRecords /\ t.pc = "link" /\ t.id = nextDoc /\ t.new = TRUE /\ t.content = tx[c].content
    BY <1>p, <1>1, <1>2, <1>4, TxFields DEF TxRecords, With
<1>6. tx' = [tx EXCEPT ![c] = t] /\ tx'[c] = t /\ \A k \in Committers : k # c => tx'[k] = tx[k]
    BY <1>p, <1>4 DEF InsertDocument, DocTypeOK
<1>7. \A d \in documents : d.id # nextDoc
    BY <1>p, <1>2 DEF DocIdsOnce, DocTypeOK, Documents
<1>8. ASSUME NEW k \in Committers, k # c, Linked(k)' PROVE tx'[k].id # nextDoc
    <2>1. tx'[k] = tx[k] /\ Linked(k)
        BY <1>6, <1>8 DEF Linked
    <2>2. tx[k].id \in Nat /\ tx[k].id < nextDoc
        BY <1>p, <2>1, TxFields DEF CommitFits, Linked
    <2> QED BY <1>2, <2>1, <2>2
<1>9. CommitFits(c)'
    BY <1>1, <1>3, <1>5, <1>6, <1>7, <1>8 DEF CommitFits
<1>10. blobs' \subseteq BigContents /\ docFaults' \in 0..MaxDocFaults
    BY <1>p, <1>1 DEF DocTypeOK
<1> QED BY <1>1, <1>3, <1>5, <1>6, <1>9, <1>10, TxKeeps

(* A commit whose contents are linked publishes rows that exist. *)
LEMMA LinkKeeps ==
    ASSUME ContentKept, NEW c \in Committers, InsertFileCommit(c)
    PROVE  ContentKept'
<1>p. DocTypeOK /\ tx[c] \in TxRecords /\ CommitFits(c)
    BY ContentParts
<1>1. /\ tx[c].pc = "link" /\ tx[c].id \notin Deleting
      /\ UNCHANGED <<documents, fileCommits, status, purge, proposals, releases, relReq, docSeq, excused>>
      /\ UNCHANGED <<blobs, nextDoc, docFaults>>
    BY DEF InsertFileCommit
<1>2. blobs' \subseteq BigContents /\ docFaults' \in 0..MaxDocFaults /\ nextDoc' \in Nat /\ nextDoc <= nextDoc'
    BY <1>p, <1>1 DEF DocTypeOK
<1>3. CASE tx[c].new \/ tx[c].id \in Ids(documents)
    <2>1. PICK t : t = [tx[c] EXCEPT !.pc = "commit"]
        OBVIOUS
    <2>2. /\ t \in TxRecords /\ t.pc = "commit" /\ t.id = tx[c].id /\ t.new = tx[c].new
          /\ t.content = tx[c].content /\ t.repo = tx[c].repo
        BY <1>p, <1>1, <2>1 DEF TxRecords
    <2>3. tx' = [tx EXCEPT ![c] = t] /\ tx'[c] = t /\ \A k \in Committers : k # c => tx'[k] = tx[k]
        BY <1>p, <1>3, <2>1 DEF InsertFileCommit, DocTypeOK
    <2>4. CommitFits(c)'
        BY <1>p, <1>1, <1>3, <2>2, <2>3 DEF CommitFits, Linked
    <2> QED BY <1>1, <1>2, <2>2, <2>3, <2>4, TxKeeps DEF Linked
<1>4. CASE ~(tx[c].new \/ tx[c].id \in Ids(documents))
    <2>1. Abort(c)
        BY <1>4 DEF InsertFileCommit, Abort
    <2> QED BY <1>1, <1>2, <2>1, AbortKeeps
<1> QED BY <1>3, <1>4

(* A commit that is rolled back leaves only blobs behind. *)
LEMMA RollbackTxKeeps ==
    ASSUME ContentKept, NEW c \in Committers, RollbackTx(c)
    PROVE  ContentKept'
BY FaultCounts, AbortKeeps DEF RollbackTx

\* Rows that are there stay there for a release on main.
LEMMA ReleasesStay ==
    ASSUME ReleaseOfMainStays, UNCHANGED <<releases, relReq>>,
           \A f \in fileCommits : f.branch = "main" => f \in fileCommits'
    PROVE  ReleaseOfMainStays'
BY DEF ReleaseOfMainStays, OnMain, Rows

\* A commit becomes visible with its document and its row.
LEMMA CommitKeeps ==
    ASSUME ContentKept, NEW c \in Committers, CommitTx(c)
    PROVE  ContentKept'
<1>p. /\ DocTypeOK /\ DocIdsOnce /\ PurgeFits /\ BytesLostOnlyByPurge /\ VersionsExist /\ ReleaseOfMainStays
      /\ \A k \in Committers : tx[k] \in TxRecords /\ CommitFits(k)
    BY ContentParts
<1>1. PICK t \in TxRecords : t = tx[c]
    BY <1>p
<1>2. t.pc = "commit" /\ Linked(c)
    BY <1>1 DEF CommitTx, Linked
<1>3. t.repo \in DocRepos /\ t.branch \in DocBranches /\ t.content \in BigContents /\ t.id \in Nat /\ t.new \in BOOLEAN
    BY <1>2, TxFields
<1>4. PICK n \in Nat : n = docSeq + 1
    BY <1>p DEF DocTypeOK
<1>5. PICK nd : nd = [id |-> t.id, repo |-> t.repo, content |-> t.content]
    OBVIOUS
<1>6. nd \in Documents /\ nd.id = t.id /\ nd.repo = t.repo /\ nd.content = t.content
    BY <1>3, <1>5 DEF Documents
<1>7. PICK nf : nf = [repo |-> t.repo, branch |-> t.branch, doc |-> t.id, seq |-> n]
    OBVIOUS
<1>8. nf \in FileCommits /\ nf.repo = t.repo /\ nf.doc = t.id
    BY <1>3, <1>7 DEF FileCommits
<1>9. /\ documents' = documents \cup (IF t.new THEN {nd} ELSE {})
      /\ fileCommits' = fileCommits \cup {nf} /\ docSeq' = n /\ Abort(c)
      /\ UNCHANGED <<status, blobs, purge, proposals, releases, relReq, nextDoc, docFaults, excused>>
    BY <1>1, <1>4, <1>5, <1>7 DEF CommitTx
<1>10. tx'[c] = NoTx /\ tx' \in [Committers -> TxRecords] /\ \A k \in Committers : k # c => tx'[k] = tx[k]
    <2>1. NoTx \in TxRecords
        BY DEF NoTx, TxRecords
    <2> QED BY <1>p, <1>9, <2>1 DEF Abort, DocTypeOK
<1>11. tx'[c].pc = "idle"
    BY <1>10 DEF NoTx
<1>12. DocTypeOK'
    BY <1>p, <1>6, <1>8, <1>9, <1>10 DEF DocTypeOK
<1>13. /\ t.id < nextDoc /\ (t.new => t.content \in blobs \cup excused)
       /\ t.new => /\ \A d \in documents : d.id # t.id
                   /\ \A k \in Committers : k # c /\ Linked(k) => tx[k].id # t.id
       /\ ~t.new => t.id \in Ids(documents) /\ \A d \in documents : d.id = t.id => d.repo = t.repo
    BY <1>p, <1>1, <1>2 DEF CommitFits
<1>14. DocIdsOnce'
    BY <1>p, <1>6, <1>9, <1>13 DEF DocIdsOnce
<1>15. ASSUME NEW k \in Committers PROVE CommitFits(k)'
    <2>1. CASE k = c
        BY <1>11, <2>1 DEF CommitFits, Linked
    <2>2. CASE k # c
        <3>1. tx'[k] = tx[k] /\ CommitFits(k) /\ (Linked(k)' <=> Linked(k))
            BY <1>p, <1>10, <2>2 DEF Linked
        <3>2. \A x \in Committers : Linked(x)' => Linked(x) /\ tx'[x] = tx[x]
            BY <1>10, <1>11 DEF Linked
        <3>3. Linked(k) /\ tx[k].new => \A d \in documents' : d.id # tx[k].id
            BY <1>2, <1>1, <1>6, <1>9, <2>2, <3>1 DEF CommitFits
        <3>4. Linked(k) /\ ~tx[k].new => \A d \in documents' : d.id = tx[k].id => d.repo = tx[k].repo
            BY <1>6, <1>9, <1>13, <2>2, <3>1 DEF CommitFits
        <3>5. Ids(documents) \subseteq Ids(documents')
            BY <1>9 DEF Ids
        <3> QED BY <1>9, <3>1, <3>2, <3>3, <3>4, <3>5 DEF CommitFits
    <2> QED BY <2>1, <2>2
<1>16. PurgeFits'
    <2>1. purge.pc = "deleted" => t.id \notin purge.docs
        BY <1>p, <1>1, <1>2 DEF PurgeFits
    <2>2. \A k \in Committers : tx'[k].pc = "commit" => tx[k].pc = "commit" /\ tx'[k] = tx[k]
        BY <1>10, <1>11
    <2> QED BY <1>p, <1>8, <1>9, <2>1, <2>2 DEF PurgeFits, Kept, Rows
<1>17. BytesLostOnlyByPurge'
    BY <1>p, <1>6, <1>9, <1>13 DEF BytesLostOnlyByPurge
<1>18. VersionsExist'
    <2>1. \E d \in documents' : d.id = nf.doc /\ d.repo = nf.repo
        <3>1. CASE t.new
            BY <1>6, <1>8, <1>9, <3>1
        <3>2. CASE ~t.new
            BY <1>8, <1>9, <1>13, <3>2 DEF Ids
        <3> QED BY <3>1, <3>2
    <2> QED BY <1>p, <1>9, <2>1 DEF VersionsExist
<1>19. ReleaseOfMainStays'
    BY <1>p, <1>9, ReleasesStay
<1> QED BY <1>12, <1>14, <1>15, <1>16, <1>17, <1>18, <1>19 DEF ContentKept, CommitsFit

\* A merge gives the documents of dev rows on main.
LEMMA MergeKeeps ==
    ASSUME ContentKept, NEW r \in DocRepos, MergeDev(r)
    PROVE  ContentKept'
<1>p. /\ DocTypeOK /\ DocIdsOnce /\ CommitsFit /\ PurgeFits /\ BytesLostOnlyByPurge /\ VersionsExist /\ ReleaseOfMainStays
    BY ContentParts
<1>1. PICK n \in Nat : n = docSeq + 1
    BY <1>p DEF DocTypeOK
<1>2. /\ status[r]["dev"] = "active" /\ status' = [status EXCEPT ![r]["dev"] = "merged"] /\ docSeq' = n
      /\ fileCommits' = fileCommits \cup {[repo |-> r, branch |-> "main", doc |-> f.doc,
                                           seq |-> n] : f \in Rows(r, "dev")}
      /\ UNCHANGED <<documents, blobs, tx, purge, proposals, releases, relReq, nextDoc, docFaults, excused>>
    BY <1>1 DEF MergeDev
<1>3. \A f \in fileCommits : f.doc \in Nat
    BY <1>p DEF DocTypeOK, FileCommits
<1>4. ASSUME NEW g \in fileCommits', g \notin fileCommits
      PROVE  g \in FileCommits /\ g.repo = r /\ \E f \in Rows(r, "dev") : g.doc = f.doc
    <2>1. PICK f \in Rows(r, "dev") : g = [repo |-> r, branch |-> "main", doc |-> f.doc, seq |-> n]
        BY <1>2, <1>4
    <2>2. f.doc \in Nat
        BY <1>3 DEF Rows
    <2> QED BY <2>1, <2>2 DEF FileCommits, DocBranches
<1>5. DocTypeOK'
    <2>1. fileCommits' \subseteq FileCommits
        BY <1>p, <1>4 DEF DocTypeOK
    <2>2. status' \in [DocRepos -> [DocBranches -> {"active", "merged", "abandoned", "gone"}]]
        BY <1>p, <1>2 DEF DocTypeOK, DocBranches
    <2> QED BY <1>p, <1>2, <2>1, <2>2 DEF DocTypeOK
<1>6. DocIdsOnce' /\ BytesLostOnlyByPurge'
    BY <1>p, <1>2 DEF DocIdsOnce, BytesLostOnlyByPurge
<1>7. CommitsFit'
    BY <1>p, <1>2 DEF CommitsFit, CommitFits, Linked, Ids
<1>8. PurgeFits'
    <2>1. CASE purge.pc = "idle"
        BY <1>2, <2>1 DEF PurgeFits
    <2>2. CASE purge.pc # "idle"
        <3>1. purge.repo \in DocRepos /\ purge.repo # r
            BY <1>p, <1>2, <2>2 DEF PurgeFits, DocTypeOK, PurgeRecords
        <3>2. status'[purge.repo] = status[purge.repo]
            BY <1>p, <1>2, <3>1 DEF DocTypeOK
        <3>3. ASSUME purge.pc = "deleted", NEW g \in fileCommits', ~(g.repo = purge.repo /\ g.branch = "dev")
              PROVE  g.doc \notin purge.docs
            <4>1. CASE g \in fileCommits
                BY <1>p, <3>3, <4>1 DEF PurgeFits, Kept, Rows
            <4>2. CASE g \notin fileCommits
                BY <1>p, <1>4, <3>1, <3>3, <4>2 DEF PurgeFits, Kept, Rows
            <4> QED BY <4>1, <4>2
        <3> QED BY <1>p, <1>2, <3>2, <3>3 DEF PurgeFits, Kept, Rows
    <2> QED BY <2>1, <2>2
<1>9. VersionsExist'
    <2> SUFFICES ASSUME NEW g \in fileCommits' PROVE \E d \in documents : d.id = g.doc /\ d.repo = g.repo
        BY <1>2 DEF VersionsExist
    <2>1. CASE g \in fileCommits
        BY <1>p, <2>1 DEF VersionsExist
    <2>2. CASE g \notin fileCommits
        BY <1>p, <1>4, <2>2 DEF VersionsExist, Rows
    <2> QED BY <2>1, <2>2
<1>10. ReleaseOfMainStays'
    BY <1>p, <1>2, ReleasesStay
<1> QED BY <1>5, <1>6, <1>7, <1>8, <1>9, <1>10 DEF ContentKept

(* Branches come and end without touching a document. *)
LEMMA BranchKeeps ==
    ASSUME ContentKept, NEW r \in DocRepos, AbandonDev(r) \/ ProposeDev(r)
    PROVE  ContentKept'
<1>p. /\ DocTypeOK /\ DocIdsOnce /\ CommitsFit /\ PurgeFits /\ BytesLostOnlyByPurge /\ VersionsExist /\ ReleaseOfMainStays
    BY ContentParts
<1>1. /\ UNCHANGED <<documents, fileCommits, blobs, tx, purge, releases, relReq, nextDoc, docSeq, docFaults, excused>>
      /\ proposals' \subseteq DocRepos /\ status[r]["dev"] = "active"
      /\ status' = status \/ status' = [status EXCEPT ![r]["dev"] = "abandoned"]
    BY <1>p DEF AbandonDev, ProposeDev, DocTypeOK
<1>2. status' \in [DocRepos -> [DocBranches -> {"active", "merged", "abandoned", "gone"}]]
    BY <1>p, <1>1 DEF DocTypeOK, DocBranches
<1>3. DocTypeOK'
    BY <1>p, <1>1, <1>2 DEF DocTypeOK
<1>4. PurgeFits'
    <2>1. purge.pc # "idle" => purge.repo \in DocRepos /\ purge.repo # r
        BY <1>p, <1>1 DEF PurgeFits, DocTypeOK, PurgeRecords
    <2>2. purge.pc # "idle" => status'[purge.repo] = status[purge.repo]
        BY <1>p, <1>1, <2>1 DEF DocTypeOK
    <2> QED BY <1>p, <1>1, <2>2 DEF PurgeFits, Kept, Rows
<1>5. DocIdsOnce' /\ BytesLostOnlyByPurge' /\ VersionsExist' /\ CommitsFit'
    BY <1>p, <1>1 DEF DocIdsOnce, BytesLostOnlyByPurge, VersionsExist, CommitsFit, CommitFits, Linked, Ids
<1>6. ReleaseOfMainStays'
    BY <1>p, <1>1, ReleasesStay
<1> QED BY <1>3, <1>4, <1>5, <1>6 DEF ContentKept

\* A step of the purge before it becomes visible: what transactions hold is safe or excused.
LEMMA PurgeKeeps ==
    ASSUME ContentKept, UNCHANGED <<documents, fileCommits, status, tx, proposals, releases, relReq, nextDoc, docSeq>>,
           blobs' \subseteq BigContents, excused' \subseteq BigContents, docFaults' \in 0..MaxDocFaults,
           purge' \in PurgeRecords, PurgeFits', BytesLostOnlyByPurge',
           \A c \in Committers : tx[c].pc \in {"insert", "link", "commit"} /\ tx[c].content \in blobs \cup excused =>
               tx[c].content \in blobs' \cup excused'
    PROVE  ContentKept'
<1>p. DocTypeOK /\ DocIdsOnce /\ CommitsFit /\ VersionsExist /\ ReleaseOfMainStays
    BY ContentParts
<1>1. DocTypeOK' /\ DocIdsOnce' /\ VersionsExist'
    BY <1>p DEF DocTypeOK, DocIdsOnce, VersionsExist
<1>2. CommitsFit'
    BY <1>p DEF CommitsFit, CommitFits, Linked, Ids
<1>3. ReleaseOfMainStays'
    BY <1>p, ReleasesStay
<1> QED BY <1>1, <1>2, <1>3 DEF ContentKept

\* A purge that rolls back after it deleted blobs.
LEMMA RollbackPurgeKeeps ==
    ASSUME ContentKept, purge.pc # "idle", RollbackPurge,
           UNCHANGED <<documents, fileCommits, status, tx, proposals, releases, relReq, nextDoc, docSeq, blobs>>,
           docFaults' \in 0..MaxDocFaults
    PROVE  ContentKept'
<1>p. DocTypeOK /\ BytesLostOnlyByPurge
    BY ContentParts
<1>1. purge' \in PurgeRecords /\ purge'.pc = "idle" /\ excused' = excused \cup purge.gone
    BY DEF RollbackPurge, NoTx, PurgeRecords
<1>2. excused' \subseteq BigContents /\ blobs' \subseteq BigContents
    BY <1>p, <1>1 DEF DocTypeOK, PurgeRecords
<1>3. PurgeFits'
    BY <1>1 DEF PurgeFits
<1>4. BytesLostOnlyByPurge'
    BY <1>p, <1>1 DEF BytesLostOnlyByPurge
<1> QED BY <1>1, <1>2, <1>3, <1>4, PurgeKeeps

(* A purge deletes the rows of file_commits of an ended branch in its transaction. *)
LEMMA PurgeRowsKeeps ==
    ASSUME ContentKept, NEW r \in DocRepos, PurgeRows(r)
    PROVE  ContentKept'
<1>p. DocTypeOK /\ BytesLostOnlyByPurge
    BY ContentParts
<1>1. /\ purge.pc = "idle" /\ status[r]["dev"] \in {"merged", "abandoned"}
      /\ purge' = [pc |-> "scan", repo |-> r, keys |-> {}, gone |-> {}, docs |-> {}]
      /\ UNCHANGED <<documents, fileCommits, status, blobs, tx, proposals, releases,
                     relReq, nextDoc, docSeq, docFaults, excused>>
    BY DEF PurgeRows
<1>2. purge' \in PurgeRecords /\ purge'.pc = "scan" /\ purge'.repo = r /\ purge'.gone = {}
    BY <1>1 DEF PurgeRecords
<1>3. PurgeFits'
    BY <1>1, <1>2 DEF PurgeFits
<1>4. BytesLostOnlyByPurge'
    BY <1>p, <1>1 DEF BytesLostOnlyByPurge
<1>5. blobs' \subseteq BigContents /\ excused' \subseteq BigContents /\ docFaults' \in 0..MaxDocFaults
    BY <1>p, <1>1 DEF DocTypeOK
<1> QED BY <1>1, <1>2, <1>3, <1>4, <1>5, PurgeKeeps

\* The ids and contents of the orphans have their type.
LEMMA OrphanTypes ==
    ASSUME ContentKept, NEW r \in DocRepos
    PROVE  /\ Ids(Orphans(r)) \subseteq Nat /\ {d.content : d \in Orphans(r)} \subseteq BigContents
           /\ \A d \in Orphans(r) : d \in documents /\ d.id \in Ids(Orphans(r))
<1>1. documents \subseteq Documents
    BY ContentParts DEF DocTypeOK
<1> QED BY <1>1 DEF Orphans, Ids, Documents

(* A purge collects the documents nothing refers to. *)
LEMMA CollectKeeps ==
    ASSUME ContentKept, CollectBlobKeys
    PROVE  ContentKept'
<1>p. DocTypeOK /\ BytesLostOnlyByPurge /\ PurgeFits
    BY ContentParts
<1>1. /\ purge.pc = "scan" /\ purge.repo \in DocRepos /\ purge.gone = {} /\ purge \in PurgeRecords
      /\ UNCHANGED <<documents, fileCommits, status, blobs, tx, proposals, releases,
                     relReq, nextDoc, docSeq, docFaults, excused>>
    BY <1>p DEF CollectBlobKeys, DocTypeOK, PurgeRecords, PurgeFits
<1>2. PICK D, K : D = Ids(Orphans(purge.repo)) /\ K = {d.content : d \in Orphans(purge.repo)}
    OBVIOUS
<1>3. D \subseteq Nat /\ K \subseteq BigContents
    BY <1>1, <1>2, OrphanTypes
<1>4. purge' = [purge EXCEPT !.pc = "blobs", !.docs = D, !.keys = K]
    BY <1>2 DEF CollectBlobKeys
<1>5. purge' \in PurgeRecords /\ purge'.pc = "blobs" /\ purge'.repo = purge.repo /\ purge'.gone = {}
    BY <1>1, <1>3, <1>4 DEF PurgeRecords
<1>6. PurgeFits'
    BY <1>p, <1>1, <1>5 DEF PurgeFits
<1>7. BytesLostOnlyByPurge'
    BY <1>p, <1>1 DEF BytesLostOnlyByPurge
<1>8. blobs' \subseteq BigContents /\ excused' \subseteq BigContents /\ docFaults' \in 0..MaxDocFaults
    BY <1>p, <1>1 DEF DocTypeOK
<1> QED BY <1>1, <1>5, <1>6, <1>7, <1>8, PurgeKeeps

(* A purge deletes a blob, which excuses the content when it is still in use. *)
LEMMA DeleteBlobKeeps ==
    ASSUME ContentKept, NEW x \in BigContents, DeleteBlob(x)
    PROVE  ContentKept'
<1>p. DocTypeOK /\ BytesLostOnlyByPurge /\ PurgeFits
    BY ContentParts
<1>1. /\ purge.pc = "blobs" /\ x \in purge.keys /\ purge \in PurgeRecords
      /\ UNCHANGED <<documents, fileCommits, status, tx, proposals, releases, relReq, nextDoc, docSeq>>
    BY <1>p DEF DeleteBlob, DocTypeOK
<1>2. CASE /\ blobs' = blobs \ {x} /\ purge' = [purge EXCEPT !.keys = @ \ {x}, !.gone = @ \cup {x}]
           /\ excused' = IF UsedElsewhere(x) THEN excused \cup {x} ELSE excused
           /\ UNCHANGED docFaults
    <2>1. /\ purge' \in PurgeRecords /\ purge'.pc = "blobs" /\ purge'.repo = purge.repo
          /\ purge'.gone = purge.gone \cup {x} /\ purge'.docs = purge.docs
        BY <1>1, <1>2 DEF PurgeRecords
    <2>2. PurgeFits'
        BY <1>p, <1>1, <2>1 DEF PurgeFits
    <2>3. BytesLostOnlyByPurge'
        <3> SUFFICES ASSUME NEW d \in documents
                     PROVE  \/ d.content \in blobs' \cup excused'
                            \/ d.id \in purge'.docs /\ d.content \in purge'.gone
            BY <1>1, <2>1 DEF BytesLostOnlyByPurge
        <3>1. CASE d.content = x
            BY <1>2, <2>1, <3>1 DEF UsedElsewhere
        <3>2. CASE d.content # x
            BY <1>p, <1>2, <2>1, <3>2 DEF BytesLostOnlyByPurge
        <3> QED BY <3>1, <3>2
    <2>4. ASSUME NEW c \in Committers, tx[c].pc \in {"insert", "link", "commit"}, tx[c].content \in blobs \cup excused
          PROVE  tx[c].content \in blobs' \cup excused'
        <3>1. CASE tx[c].content = x
            BY <1>2, <2>4, <3>1 DEF UsedElsewhere
        <3>2. CASE tx[c].content # x
            BY <1>2, <2>4, <3>2
        <3> QED BY <3>1, <3>2
    <2>5. blobs' \subseteq BigContents /\ excused' \subseteq BigContents /\ docFaults' \in 0..MaxDocFaults
        BY <1>p, <1>2 DEF DocTypeOK
    <2> QED BY <1>1, <2>1, <2>2, <2>3, <2>4, <2>5, PurgeKeeps
<1>3. CASE DocFault /\ RollbackPurge /\ UNCHANGED blobs
    BY <1>1, <1>3, FaultCounts, RollbackPurgeKeeps
<1> QED BY <1>2, <1>3 DEF DeleteBlob

(* A purge deletes the document rows it collected. *)
LEMMA DeleteDocumentsKeeps ==
    ASSUME ContentKept, DeleteDocuments
    PROVE  ContentKept'
<1>p. DocTypeOK /\ BytesLostOnlyByPurge /\ PurgeFits
    BY ContentParts
<1>1. /\ purge.pc = "blobs" /\ purge.repo \in DocRepos /\ purge \in PurgeRecords
      /\ UNCHANGED <<documents, fileCommits, status, blobs, tx, proposals, releases,
                     relReq, nextDoc, docSeq, docFaults>>
      /\ excused' = excused \cup {d.content : d \in {x \in documents :
                    x.id \in purge.docs /\ x \notin Orphans(purge.repo)}}
    BY <1>p DEF DeleteDocuments, DocTypeOK, PurgeRecords
<1>2. PICK D : D = Ids(Orphans(purge.repo))
    OBVIOUS
<1>3. D \subseteq Nat
    BY <1>1, <1>2, OrphanTypes
<1>4. purge' = [purge EXCEPT !.pc = "deleting", !.docs = D]
    BY <1>2 DEF DeleteDocuments
<1>5. purge' \in PurgeRecords /\ purge'.pc = "deleting" /\ purge'.repo = purge.repo /\ purge'.gone = purge.gone /\ purge'.docs = D
    BY <1>1, <1>3, <1>4 DEF PurgeRecords
<1>6. PurgeFits'
    BY <1>p, <1>1, <1>5 DEF PurgeFits
<1>7. BytesLostOnlyByPurge'
    <2> SUFFICES ASSUME NEW d \in documents
                 PROVE  d.content \in blobs \cup excused' \/ (d.id \in D /\ d.content \in purge.gone)
        BY <1>1, <1>5 DEF BytesLostOnlyByPurge
    <2>1. CASE d.content \in blobs \cup excused
        BY <1>1, <2>1
    <2>2. CASE d.id \in purge.docs /\ d.content \in purge.gone
        <3>1. CASE d \in Orphans(purge.repo)
            BY <1>1, <1>2, <2>2, <3>1, OrphanTypes
        <3>2. CASE d \notin Orphans(purge.repo)
            BY <1>1, <2>2, <3>2
        <3> QED BY <3>1, <3>2
    <2> QED BY <1>p, <2>1, <2>2 DEF BytesLostOnlyByPurge
<1>8. blobs' \subseteq BigContents /\ excused' \subseteq BigContents /\ docFaults' \in 0..MaxDocFaults
    BY <1>p, <1>1 DEF DocTypeOK, Documents
<1> QED BY <1>1, <1>5, <1>6, <1>7, <1>8, PurgeKeeps

(* A purge has deleted what it collected. *)
LEMMA DeleteDoneKeeps ==
    ASSUME ContentKept, DeleteDocumentsDone
    PROVE  ContentKept'
<1>p. DocTypeOK /\ BytesLostOnlyByPurge /\ PurgeFits
    BY ContentParts
<1>1. /\ purge.pc = "deleting" /\ purge \in PurgeRecords
      /\ \A c \in Committers : tx[c].pc = "commit" => tx[c].id \notin purge.docs
      /\ UNCHANGED <<documents, fileCommits, status, blobs, tx, proposals, releases,
                     relReq, nextDoc, docSeq, docFaults>>
    BY <1>p DEF DeleteDocumentsDone, DocTypeOK
<1>2. CASE \E f \in Kept(purge.repo) : f.doc \in purge.docs
    <2>1. RollbackPurge
        BY <1>2 DEF DeleteDocumentsDone
    <2> QED BY <1>1, <2>1, FaultCounts, RollbackPurgeKeeps
<1>3. CASE ~\E f \in Kept(purge.repo) : f.doc \in purge.docs
    <2>1. purge' = [purge EXCEPT !.pc = "deleted"] /\ UNCHANGED excused
        BY <1>3 DEF DeleteDocumentsDone
    <2>2. /\ purge' \in PurgeRecords /\ purge'.pc = "deleted" /\ purge'.repo = purge.repo
          /\ purge'.gone = purge.gone /\ purge'.docs = purge.docs
        BY <1>1, <2>1 DEF PurgeRecords
    <2>3. Kept(purge.repo)' = Kept(purge.repo)
        BY <1>1, <2>2 DEF Kept, Rows
    <2>4. PurgeFits'
        BY <1>p, <1>1, <1>3, <2>2, <2>3 DEF PurgeFits
    <2>5. BytesLostOnlyByPurge'
        BY <1>p, <1>1, <2>1, <2>2 DEF BytesLostOnlyByPurge
    <2>6. blobs' \subseteq BigContents /\ excused' \subseteq BigContents /\ docFaults' \in 0..MaxDocFaults
        BY <1>p, <1>1, <2>1 DEF DocTypeOK
    <2> QED BY <1>1, <2>1, <2>2, <2>4, <2>5, <2>6, PurgeKeeps
<1> QED BY <1>2, <1>3

(* A purge commits or is rolled back. *)
LEMMA CommitPurgeKeeps ==
    ASSUME ContentKept, CommitPurge
    PROVE  ContentKept'
<1>p. /\ DocTypeOK /\ DocIdsOnce /\ PurgeFits /\ BytesLostOnlyByPurge /\ VersionsExist /\ ReleaseOfMainStays
      /\ \A k \in Committers : tx[k] \in TxRecords /\ CommitFits(k)
    BY ContentParts
<1>1. PICK r : r = purge.repo
    OBVIOUS
<1>2. /\ purge.pc = "deleted" /\ r \in DocRepos
      /\ UNCHANGED <<blobs, tx, proposals, releases, relReq, nextDoc, docSeq>>
    BY <1>p, <1>1 DEF CommitPurge, DocTypeOK, PurgeRecords
<1>3. CASE RollbackPurge /\ UNCHANGED <<documents, fileCommits, status>> /\ (DocFault \/ UNCHANGED docFaults)
    BY <1>2, <1>3, FaultCounts, RollbackPurgeKeeps
<1>4. CASE /\ documents' = {d \in documents : d.id \notin purge.docs} /\ fileCommits' = Kept(r)
           /\ status' = [status EXCEPT ![r]["dev"] = "gone"]
           /\ purge' = NoTx /\ UNCHANGED <<docFaults, excused>>
    <2>1. purge' \in PurgeRecords /\ purge'.pc = "idle"
        BY <1>4 DEF NoTx, PurgeRecords
    <2>2. documents' \subseteq documents /\ fileCommits' \subseteq fileCommits
        BY <1>4 DEF Kept
    <2>3. DocTypeOK'
        <3>1. status' \in [DocRepos -> [DocBranches -> {"active", "merged", "abandoned", "gone"}]]
            BY <1>p, <1>2, <1>4 DEF DocTypeOK, DocBranches
        <3> QED BY <1>p, <1>2, <1>4, <2>1, <2>2, <3>1 DEF DocTypeOK
    <2>4. DocIdsOnce'
        BY <1>p, <1>2, <2>2 DEF DocIdsOnce
    <2>5. ASSUME NEW k \in Committers PROVE CommitFits(k)'
        <3>1. CommitFits(k) /\ (tx[k].pc = "commit" => tx[k].id \notin purge.docs)
            BY <1>p, <1>2 DEF PurgeFits
        <3>2. tx[k].pc = "commit" /\ tx[k].id \in Ids(documents) => tx[k].id \in Ids(documents')
            BY <1>4, <3>1 DEF Ids
        <3> QED BY <1>2, <1>4, <2>2, <3>1, <3>2 DEF CommitFits, Linked
    <2>6. PurgeFits'
        BY <2>1 DEF PurgeFits
    <2>7. BytesLostOnlyByPurge'
        BY <1>p, <1>2, <1>4 DEF BytesLostOnlyByPurge
    <2>8. VersionsExist'
        <3> SUFFICES ASSUME NEW f \in fileCommits' PROVE \E d \in documents' : d.id = f.doc /\ d.repo = f.repo
            BY DEF VersionsExist
        <3>1. f \in fileCommits /\ f.doc \notin purge.docs
            BY <1>p, <1>1, <1>2, <1>4, <2>2 DEF PurgeFits
        <3> QED BY <1>p, <1>4, <3>1 DEF VersionsExist
    <2>9. ReleaseOfMainStays'
        <3>1. \A f \in fileCommits : f.branch = "main" => f \in fileCommits'
            BY <1>4 DEF Kept, Rows
        <3> QED BY <1>p, <1>2, <3>1, ReleasesStay
    <2> QED BY <2>3, <2>4, <2>5, <2>6, <2>7, <2>8, <2>9 DEF ContentKept, CommitsFit
<1> QED BY <1>1, <1>3, <1>4 DEF CommitPurge

\* Releases change nothing else.
LEMMA ReleaseKeeps ==
    ASSUME ContentKept,
           UNCHANGED <<documents, fileCommits, status, blobs, tx, purge, proposals, nextDoc, docSeq, docFaults, excused>>,
           releases' \subseteq ReleaseRecords, relReq' \in ReleaseRecords \cup {Nobody},
           \A x \in releases' : x \in releases \/ OnMain(x), relReq' # Nobody => OnMain(relReq')
    PROVE  ContentKept'
<1>p. /\ DocTypeOK /\ DocIdsOnce /\ CommitsFit /\ PurgeFits /\ BytesLostOnlyByPurge /\ VersionsExist /\ ReleaseOfMainStays
    BY ContentParts
<1>1. DocTypeOK' /\ DocIdsOnce' /\ BytesLostOnlyByPurge' /\ VersionsExist'
    BY <1>p DEF DocTypeOK, DocIdsOnce, BytesLostOnlyByPurge, VersionsExist
<1>2. CommitsFit' /\ PurgeFits'
    BY <1>p DEF CommitsFit, CommitFits, Linked, Ids, PurgeFits, Kept, Rows
<1>3. ReleaseOfMainStays'
    BY <1>p DEF ReleaseOfMainStays, OnMain, Rows
<1> QED BY <1>1, <1>2, <1>3 DEF ContentKept

(* A request for a release looks its sequence up. *)
LEMMA RequestKeeps ==
    ASSUME ContentKept, NEW n \in Releases, NEW r \in DocRepos, NEW explicit \in BOOLEAN,
           handleCreateRelease(n, r, explicit) \/ webCreateRelease(n, r, explicit)
    PROVE  ContentKept'
<1>p. DocTypeOK
    BY ContentParts
<1>1. UNCHANGED <<documents, fileCommits, status, blobs, tx, purge, proposals, releases, nextDoc, docSeq, docFaults, excused>>
    BY DEF handleCreateRelease, webCreateRelease
<1>2. PICK s : relReq' = ReleaseRow(n, r, s, explicit) /\ (~explicit => s \in MainHead(r))
    BY DEF handleCreateRelease, webCreateRelease, resolveSequence
<1>3. ~explicit => s \in Nat /\ (s = 0 \/ \E f \in Rows(r, "main") : f.seq = s)
    BY <1>2 DEF MainHead
<1>4. /\ relReq' \in ReleaseRecords /\ relReq'.repo = r /\ relReq'.byDefault = ~explicit
      /\ ~explicit => relReq'.seq = s
    BY <1>2, <1>3 DEF ReleaseRow, ReleaseRecords
<1>5. OnMain(relReq')
    BY <1>3, <1>4 DEF OnMain
<1>6. releases' \subseteq ReleaseRecords
    BY <1>p, <1>1 DEF DocTypeOK
<1> QED BY <1>1, <1>4, <1>5, <1>6, ReleaseKeeps

(* A release names the sequence that was looked up. *)
LEMMA CreateReleaseKeeps ==
    ASSUME ContentKept, CreateRelease
    PROVE  ContentKept'
<1>p. DocTypeOK /\ ReleaseOfMainStays
    BY ContentParts
<1>1. /\ UNCHANGED <<documents, fileCommits, status, blobs, tx, purge, proposals, nextDoc, docSeq, docFaults, excused>>
      /\ relReq # Nobody /\ relReq' = Nobody /\ releases' \subseteq releases \cup {relReq}
    BY DEF CreateRelease
<1>2. OnMain(relReq) /\ relReq \in ReleaseRecords /\ releases \subseteq ReleaseRecords
    BY <1>p, <1>1 DEF ReleaseOfMainStays, DocTypeOK
<1> QED BY <1>1, <1>2, ReleaseKeeps

(* A release is deleted. *)
LEMMA DeleteReleaseKeeps ==
    ASSUME ContentKept, NEW x \in releases, DeleteRelease(x)
    PROVE  ContentKept'
<1>p. DocTypeOK /\ ReleaseOfMainStays
    BY ContentParts
<1>1. /\ UNCHANGED <<documents, fileCommits, status, blobs, tx, purge, proposals, nextDoc, docSeq, docFaults, excused>>
      /\ relReq' = relReq /\ releases' \subseteq releases
    BY DEF DeleteRelease
<1>2. (relReq # Nobody => OnMain(relReq)) /\ relReq \in ReleaseRecords \cup {Nobody} /\ releases \subseteq ReleaseRecords
    BY <1>p DEF ReleaseOfMainStays, DocTypeOK
<1> QED BY <1>1, <1>2, ReleaseKeeps

(* The empty store satisfies the invariant. *)
LEMMA ContentInit == DocInit => ContentKept
<1> SUFFICES ASSUME DocInit PROVE ContentKept
    OBVIOUS
<1>1. NoTx \in TxRecords /\ NoTx \in PurgeRecords /\ NoTx.pc = "idle"
    BY DEF NoTx, TxRecords, PurgeRecords
<1>2. status \in [DocRepos -> [DocBranches -> {"active", "merged", "abandoned", "gone"}]]
    BY DEF DocInit, DocBranches
<1>3. DocTypeOK
    BY <1>1, <1>2 DEF DocInit, DocTypeOK
<1>4. CommitsFit /\ PurgeFits
    BY <1>1 DEF DocInit, CommitsFit, CommitFits, Linked, PurgeFits
<1>5. DocIdsOnce /\ BytesLostOnlyByPurge /\ VersionsExist /\ ReleaseOfMainStays
    BY DEF DocInit, DocIdsOnce, BytesLostOnlyByPurge, VersionsExist, ReleaseOfMainStays
<1> QED BY <1>3, <1>4, <1>5 DEF ContentKept

(* Every step of commits, purges and releases keeps the invariant. *)
LEMMA ContentStep == ContentKept /\ [DocNext]_docVars => ContentKept'
<1> SUFFICES ASSUME ContentKept, [DocNext]_docVars PROVE ContentKept'
    OBVIOUS
<1>1. CASE UNCHANGED docVars
    <2>1. DocTypeOK /\ ReleaseOfMainStays
        BY ContentParts
    <2>2. UNCHANGED <<documents, fileCommits, status, blobs, tx, purge, proposals, nextDoc, docSeq, docFaults, excused>>
          /\ relReq' = relReq /\ releases' = releases
        BY <1>1 DEF docVars
    <2>3. (relReq # Nobody => OnMain(relReq)) /\ relReq \in ReleaseRecords \cup {Nobody} /\ releases \subseteq ReleaseRecords
        BY <2>1 DEF ReleaseOfMainStays, DocTypeOK
    <2> QED BY <2>2, <2>3, ReleaseKeeps
<1>2. ASSUME NEW c \in Committers, Commit(c) PROVE ContentKept'
    <2>1. ASSUME NEW r \in DocRepos, NEW b \in {"main", "dev"}, NEW x \in BigContents, LockBranch(c, r, b, x)
          PROVE  ContentKept'
        BY <2>1, LockKeeps
    <2> QED BY <1>2, <2>1, SelectKeeps, UploadKeeps, InsertKeeps, LinkKeeps, CommitKeeps, RollbackTxKeeps DEF Commit
<1>3. CASE Purge
    BY <1>3, PurgeRowsKeeps, CollectKeeps, DeleteBlobKeeps, DeleteDocumentsKeeps, DeleteDoneKeeps, CommitPurgeKeeps DEF Purge
<1>4. ASSUME NEW r \in DocRepos, MergeDev(r) \/ AbandonDev(r) \/ ProposeDev(r) PROVE ContentKept'
    BY <1>4, MergeKeeps, BranchKeeps
<1>5. CASE ReleaseNext
    <2>1. ASSUME NEW n \in Releases, NEW r \in DocRepos, NEW x \in BOOLEAN,
                 handleCreateRelease(n, r, x) \/ webCreateRelease(n, r, x)
          PROVE  ContentKept'
        BY <2>1, RequestKeeps
    <2>2. ASSUME NEW n \in Releases, NEW r \in DocRepos, webDeleteRelease(n, r) PROVE ContentKept'
        BY <2>2, DeleteReleaseKeeps DEF webDeleteRelease
    <2> QED BY <1>5, <2>1, <2>2, CreateReleaseKeeps, DeleteReleaseKeeps DEF ReleaseNext
<1> QED BY <1>1, <1>2, <1>3, <1>4, <1>5 DEF DocNext, ContentNext

\* ContentKept: with any repositories, contents and concurrent commits, every row
\* of file_commits has its document, every document its bytes unless a purge
\* removed them while something else used them or before it rolled back, and a
\* release of main's head its commit.
THEOREM ContentHolds == DocSpec => []ContentKept
<1> QED BY ContentInit, ContentStep, PTL DEF DocSpec

-----------------------------------------------------------------------------
(* Reads.  A page is the first part of a set in order; a path whose version *)
(* a commit or a rebase does not touch reads the same before and after it.  *)

(* Sets of numbers in order.                                               *)

\* A set of numbers that is not empty has a least element.
LEMMA LeastOf ==
    ASSUME NEW S \in SUBSET Nat, S # {}
    PROVE  \E x \in S : \A y \in S : x <= y
<1> DEFINE less == OpToRel(<, Nat)
<1>1. PICK x \in S : \A y \in S : ~ (<<y, x>> \in less)
    BY NatLessThanWellFounded, WFMin
<1>2. \A u, t \in Nat : u < t => <<u, t>> \in less
    BY DEF OpToRel
<1> HIDE DEF less
<1>3. \A y \in S : ~ (y < x)
    BY <1>1, <1>2
<1>4. \A y \in S : x <= y
    BY <1>1, <1>3
<1> QED BY <1>1, <1>4

\* A bounded one has a greatest element.
LEMMA GreatestOf ==
    ASSUME NEW S \in SUBSET Nat, S # {}, NEW m \in Nat, \A x \in S : x <= m
    PROVE  \E x \in S : \A y \in S : y <= x
<1> DEFINE T == {m - x : x \in S}
<1>1. T \in SUBSET Nat /\ T # {}
    OBVIOUS
<1>2. PICK t \in T : \A u \in T : t <= u
    <2> HIDE DEF T
    <2> QED BY <1>1, LeastOf
<1>3. PICK x \in S : t = m - x
    BY <1>2
<1>4. \A y \in S : m - x <= m - y
    BY <1>2, <1>3
<1> HIDE DEF T
<1>5. \A y \in S : y <= x
    BY <1>4
<1> QED BY <1>5

LEMMA SeqOf ==
    ASSUME NEW S, NEW n \in Nat, NEW s \in [1..n -> S]
    PROVE  s \in Seq(S) /\ Len(s) = n /\ DOMAIN s = 1..n
<1>1. s \in Seq(S)
    BY SeqDef
<1>2. Len(s) \in Nat /\ DOMAIN s = 1..Len(s)
    BY <1>1, LenProperties
<1>3. 1..Len(s) = 1..n
    BY <1>2
<1> QED BY <1>1, <1>2, <1>3

LEMMA FiniteSubset ==
    ASSUME NEW m \in Nat, NEW S \in SUBSET (1..m)
    PROVE  IsFiniteSet(S) /\ Cardinality(S) \in Nat
<1>1. IsFiniteSet(1..m)
    BY FS_Interval
<1> QED BY <1>1, FS_Subset, FS_CardinalityType

LEMMA RisingAdds ==
    ASSUME NEW k \in Nat, NEW n \in Nat, NEW U \in SUBSET Nat, \A x \in U : x < k,
           NEW s \in [1..n -> U], Rising(s)
    PROVE  \E t \in [1..(n + 1) -> U \cup {k}] : Rising(t)
<1> DEFINE t == [i \in 1..(n + 1) |-> IF i = n + 1 THEN k ELSE s[i]]
<1>1. \A i \in 1..(n + 1) : i # n + 1 => i \in 1..n
    OBVIOUS
<1>2. \A i \in 1..n : s[i] \in U
    OBVIOUS
<1>3. t \in [1..(n + 1) -> U \cup {k}]
    BY <1>1, <1>2
<1>4. ASSUME NEW i \in 1..(n + 1), NEW j \in 1..(n + 1), i < j
      PROVE  t[i] < t[j]
    <2>1. i \in 1..n /\ i # n + 1
        BY <1>4
    <2>2. t[i] = s[i] /\ s[i] \in U
        BY <1>2, <2>1
    <2>3. CASE j = n + 1
        <3>1. t[j] = k
            BY <2>3
        <3> QED BY <2>2, <3>1
    <2>4. CASE j # n + 1
        <3>1. j \in 1..n /\ t[j] = s[j]
            BY <1>1, <2>4
        <3>2. s[i] < s[j]
            BY <1>4, <2>1, <3>1 DEF Rising
        <3> QED BY <2>2, <3>1, <3>2
    <2> QED BY <2>3, <2>4
<1>5. Rising(t)
    BY <1>4 DEF Rising
<1> QED BY <1>3, <1>5

\* Every bounded set of numbers can be put in order.
LEMMA RisingExists ==
    ASSUME NEW m \in Nat, NEW S \in SUBSET (1..m)
    PROVE  \E s \in [1..Cardinality(S) -> S] : Rising(s)
<1> DEFINE Sorts(n) == \A T \in SUBSET (1..n) : \E s \in [1..Cardinality(T) -> T] : Rising(s)
           Bad == {n \in Nat : ~ Sorts(n)}
<1>1. Sorts(0)
    <2> SUFFICES ASSUME NEW T \in SUBSET (1..0)
                 PROVE  \E s \in [1..Cardinality(T) -> T] : Rising(s)
        OBVIOUS
    <2>1. T = {}
        OBVIOUS
    <2>2. Cardinality(T) = 0
        BY <2>1, FS_EmptySet
    <2>3. [i \in 1..0 |-> i] \in [1..Cardinality(T) -> T] /\ Rising([i \in 1..0 |-> i])
        BY <2>2 DEF Rising
    <2> QED BY <2>3
<1>2. ASSUME NEW k \in Nat, k # 0, Sorts(k - 1)
      PROVE  Sorts(k)
    <2> SUFFICES ASSUME NEW T \in SUBSET (1..k)
                 PROVE  \E s \in [1..Cardinality(T) -> T] : Rising(s)
        OBVIOUS
    <2>1. PICK U : U = T \ {k}
        OBVIOUS
    <2>2. U \in SUBSET (1..(k - 1)) /\ U \in SUBSET Nat /\ (\A x \in U : x < k) /\ k - 1 \in Nat
        BY <1>2, <2>1
    <2>3. PICK s \in [1..Cardinality(U) -> U] : Rising(s)
        BY <1>2, <2>2
    <2>4. IsFiniteSet(U) /\ Cardinality(U) \in Nat
        BY <2>2, FiniteSubset
    <2>5. CASE k \notin T
        <3>1. U = T
            BY <2>1, <2>5
        <3> QED BY <2>3, <3>1
    <2>6. CASE k \in T
        <3>1. T = U \cup {k} /\ k \notin U
            BY <2>1, <2>6
        <3>2. Cardinality(T) = Cardinality(U) + 1
            BY <2>4, <3>1, FS_AddElement
        <3>3. PICK n \in Nat : n = Cardinality(U)
            BY <2>4
        <3>4. \E t \in [1..(n + 1) -> U \cup {k}] : Rising(t)
            BY <2>2, <2>3, <3>3, RisingAdds
        <3> QED BY <3>1, <3>2, <3>3, <3>4
    <2> QED BY <2>5, <2>6
<1> HIDE DEF Sorts
<1>3. Bad = {}
    <2> SUFFICES ASSUME Bad # {} PROVE FALSE
        OBVIOUS
    <2>1. Bad \in SUBSET Nat
        OBVIOUS
    <2>2. PICK k \in Bad : \A n \in Bad : k <= n
        <3> HIDE DEF Bad
        <3> QED BY <2>1, LeastOf
    <2>3. k \in Nat /\ ~ Sorts(k) /\ k # 0
        BY <1>1, <2>2
    <2>4. k - 1 \in Nat /\ ~ (k <= k - 1)
        BY <2>3
    <2>5. k - 1 \notin Bad
        BY <2>2, <2>4
    <2>6. Sorts(k - 1)
        BY <2>4, <2>5
    <2> QED BY <1>2, <2>3, <2>6
<1>4. Sorts(m)
    BY <1>3
<1> QED BY <1>4 DEF Sorts

LEMMA OntoAll ==
    ASSUME NEW m \in Nat, NEW S \in SUBSET (1..m), NEW s \in [1..Cardinality(S) -> S],
           \A i, j \in 1..Cardinality(S) : i # j => s[i] # s[j]
    PROVE  \A x \in S : \E i \in 1..Cardinality(S) : s[i] = x
<1>1. PICK n \in Nat : n = Cardinality(S)
    BY FiniteSubset
<1>2. IsFiniteSet(S)
    BY FiniteSubset
<1>3. s \in Injection(1..n, S)
    BY <1>1 DEF Injection, IsInjective
<1>4. Cardinality(1..n) = n
    BY <1>1, FS_Interval
<1>5. s \in Surjection(1..n, S)
    BY <1>1, <1>2, <1>3, <1>4, FS_Injection
<1> QED BY <1>1, <1>5 DEF Surjection

LEMMA AscendingIs ==
    ASSUME NEW m \in Nat, NEW S \in SUBSET (1..m)
    PROVE  \E n \in Nat : /\ Ascending(S) \in [1..n -> S] /\ Rising(Ascending(S))
                          /\ \A x \in S : \E i \in 1..n : Ascending(S)[i] = x
<1>1. PICK s : s = Ascending(S)
    OBVIOUS
<1>2. PICK n \in Nat : n = Cardinality(S)
    BY FiniteSubset
<1>3. s \in [1..n -> S] /\ Rising(s)
    BY <1>1, <1>2, RisingExists DEF Ascending
<1>4. ASSUME NEW i \in 1..n, NEW j \in 1..n, i # j
      PROVE  s[i] # s[j]
    <2>1. s[i] \in 1..m /\ s[j] \in 1..m
        BY <1>3
    <2>2. (i < j => s[i] < s[j]) /\ (j < i => s[j] < s[i])
        BY <1>3 DEF Rising
    <2> QED BY <1>4, <2>1, <2>2
<1>5. \A x \in S : \E i \in 1..n : s[i] = x
    <2>1. s \in [1..Cardinality(S) -> S] /\ \A i, j \in 1..Cardinality(S) : i # j => s[i] # s[j]
        BY <1>2, <1>3, <1>4
    <2>2. \A x \in S : \E i \in 1..Cardinality(S) : s[i] = x
        BY <2>1, OntoAll
    <2> QED BY <1>2, <2>2
<1> QED BY <1>1, <1>3, <1>5

LEMMA DescendingIs ==
    ASSUME NEW S \in SUBSET (1..MaxReadSeq)
    PROVE  \E n \in Nat : /\ Descending(S) \in [1..n -> S] /\ Falling(Descending(S))
                          /\ \A x \in S : \E i \in 1..n : Descending(S)[i] = x
                          /\ n = Cardinality(S)
<1>0. PICK m \in Nat : m = MaxReadSeq
    BY ReadsAssumption
<1>a. S \in SUBSET (1..m)
    BY <1>0
<1>1. PICK n \in Nat : n = Cardinality(S)
    BY <1>a, FiniteSubset
<1>2. PICK r \in [1..n -> S] : Rising(r)
    BY <1>1, <1>a, RisingExists
<1> DEFINE f == [i \in 1..n |-> r[n + 1 - i]]
<1>3. \A i \in 1..n : n + 1 - i \in 1..n
    OBVIOUS
<1>4. f \in [1..n -> S]
    BY <1>2, <1>3
<1>5. Falling(f)
    <2> SUFFICES ASSUME NEW i \in 1..n, NEW j \in 1..n, i < j PROVE f[j] < f[i]
        BY DEF Falling
    <2>1. n + 1 - j < n + 1 - i /\ n + 1 - j \in 1..n /\ n + 1 - i \in 1..n
        BY <1>3
    <2>2. r[n + 1 - j] < r[n + 1 - i]
        BY <1>2, <2>1 DEF Rising
    <2> QED BY <2>2
<1>6. PICK s : s = Descending(S)
    OBVIOUS
<1>7. s \in [1..n -> S] /\ Falling(s)
    <2> HIDE DEF f
    <2> QED BY <1>1, <1>4, <1>5, <1>6 DEF Descending
<1>8. ASSUME NEW i \in 1..n, NEW j \in 1..n, i # j
      PROVE  s[i] # s[j]
    <2>1. s[i] \in 1..m /\ s[j] \in 1..m
        BY <1>7, <1>a
    <2>2. (i < j => s[j] < s[i]) /\ (j < i => s[i] < s[j])
        BY <1>7 DEF Falling
    <2> QED BY <1>8, <2>1, <2>2
<1>9. \A x \in S : \E i \in 1..n : s[i] = x
    <2>1. s \in [1..Cardinality(S) -> S] /\ \A i, j \in 1..Cardinality(S) : i # j => s[i] # s[j]
        BY <1>1, <1>7, <1>8
    <2>2. \A x \in S : \E i \in 1..Cardinality(S) : s[i] = x
        BY <1>a, <2>1, OntoAll
    <2> QED BY <1>1, <2>2
<1> QED BY <1>1, <1>6, <1>7, <1>9

LEMMA FirstOfIs ==
    ASSUME NEW s \in Seq(Nat), NEW limit \in Nat
    PROVE  \E k \in Nat : /\ k <= Len(s) /\ k <= limit /\ (k = Len(s) \/ k = limit)
                          /\ FirstOf(s, limit) = [i \in 1..k |-> s[i]]
<1>1. PICK k \in Nat : k = IF Len(s) < limit THEN Len(s) ELSE limit
    BY LenProperties
<1>2. k <= Len(s) /\ k <= limit /\ (k = Len(s) \/ k = limit)
    BY <1>1, LenProperties
<1>3. FirstOf(s, limit) = [i \in 1..k |-> s[i]]
    <2>1. FirstOf(s, limit) = SubSeq(s, 1, k)
        BY <1>1 DEF FirstOf
    <2>2. k \in 0..Len(s)
        BY <1>2, LenProperties
    <2>3. SubSeq(s, 1, k) = [i \in 1..k |-> s[i]]
        BY <2>2, SubSeqRestrict DEF Restrict
    <2> QED BY <2>1, <2>3
<1> QED BY <1>2, <1>3

\* A page: the first of a set, and it has all of it or ends below the rest.
LEMMA AscendingPage ==
    ASSUME NEW m \in Nat, NEW S \in SUBSET (1..m), NEW limit \in Nat \ {0}, NEW page,
           page = FirstOf(Ascending(S), limit)
    PROVE  \E k \in Nat : /\ page \in [1..k -> S] /\ Rising(page) /\ k <= limit
                          /\ \A x \in S : \/ \E i \in 1..k : page[i] = x
                                          \/ k = limit /\ page[k] < x
<1>1. PICK s : s = Ascending(S)
    OBVIOUS
<1>2. PICK n \in Nat : /\ s \in [1..n -> S] /\ Rising(s)
                       /\ \A x \in S : \E i \in 1..n : s[i] = x
    <2>1. \E n \in Nat : /\ Ascending(S) \in [1..n -> S] /\ Rising(Ascending(S))
                         /\ \A x \in S : \E i \in 1..n : Ascending(S)[i] = x
        BY AscendingIs
    <2> QED BY <1>1, <2>1
<1>3. PICK k \in Nat : /\ k <= n /\ k <= limit /\ (k = n \/ k = limit)
                       /\ page \in [1..k -> S] /\ \A i \in 1..k : page[i] = s[i]
    <2>1. s \in [1..n -> Nat]
        <3>1. s \in [1..n -> S]
            BY <1>2
        <3>2. \A x \in S : x \in Nat
            OBVIOUS
        <3> QED BY ONLY <3>1, <3>2
    <2>2. s \in Seq(Nat) /\ Len(s) = n
        BY <2>1, SeqOf
    <2>3. PICK k \in Nat : /\ k <= Len(s) /\ k <= limit /\ (k = Len(s) \/ k = limit)
                           /\ FirstOf(s, limit) = [i \in 1..k |-> s[i]]
        BY <2>2, FirstOfIs
    <2>4. page = [i \in 1..k |-> s[i]]
        BY <1>1, <2>3
    <2>5. \A i \in 1..k : s[i] \in S
        BY <1>2, <2>2, <2>3
    <2> QED BY <2>2, <2>3, <2>4, <2>5
<1>4. Rising(page)
    <2> SUFFICES ASSUME NEW i \in 1..k, NEW j \in 1..k, i < j PROVE page[i] < page[j]
        BY <1>3 DEF Rising
    <2>1. i \in 1..n /\ j \in 1..n /\ page[i] = s[i] /\ page[j] = s[j]
        BY <1>3
    <2> QED BY <1>2, <2>1 DEF Rising
<1>5. ASSUME NEW x \in S
      PROVE  (\E i \in 1..k : page[i] = x) \/ (k = limit /\ page[k] < x)
    <2>1. PICK i \in 1..n : s[i] = x
        BY <1>2
    <2>2. CASE i <= k
        <3>1. i \in 1..k
            BY <2>2
        <3> QED BY <1>3, <2>1, <3>1
    <2>3. CASE k < i
        <3>1. k = limit /\ k \in 1..k /\ k \in 1..n
            BY <1>3, <2>3
        <3>2. s[k] < s[i]
            BY <1>2, <2>3, <3>1 DEF Rising
        <3> QED BY <1>3, <2>1, <3>1, <3>2
    <2> QED BY <2>2, <2>3
<1> QED BY <1>3, <1>4, <1>5

\* The newest entries of a set of sequences.
FirstDown(page, k, S, limit) ==
    /\ page \in [1..k -> S] /\ Falling(page) /\ k <= limit
    /\ \A x \in S : (\E i \in 1..k : page[i] = x) \/ (k = limit /\ x < page[k])

LEMMA DescendingPage ==
    ASSUME NEW S \in SUBSET (1..MaxReadSeq), NEW limit \in Nat \ {0}, NEW page,
           page = FirstOf(Descending(S), limit)
    PROVE  \E k \in Nat : FirstDown(page, k, S, limit)
<1>1. PICK s : s = Descending(S)
    OBVIOUS
<1>2. PICK n \in Nat : /\ s \in [1..n -> S] /\ Falling(s)
                       /\ \A x \in S : \E i \in 1..n : s[i] = x
    <2>1. \E n \in Nat : /\ Descending(S) \in [1..n -> S] /\ Falling(Descending(S))
                         /\ \A x \in S : \E i \in 1..n : Descending(S)[i] = x
        BY DescendingIs
    <2> QED BY <1>1, <2>1
<1>3. PICK k \in Nat : /\ k <= n /\ k <= limit /\ (k = n \/ k = limit)
                       /\ page \in [1..k -> S] /\ \A i \in 1..k : page[i] = s[i]
    <2>1. s \in [1..n -> Nat]
        <3>1. s \in [1..n -> S]
            BY <1>2
        <3>2. \A x \in S : x \in Nat
            OBVIOUS
        <3> QED BY ONLY <3>1, <3>2
    <2>2. s \in Seq(Nat) /\ Len(s) = n
        BY <2>1, SeqOf
    <2>3. PICK k \in Nat : /\ k <= Len(s) /\ k <= limit /\ (k = Len(s) \/ k = limit)
                           /\ FirstOf(s, limit) = [i \in 1..k |-> s[i]]
        BY <2>2, FirstOfIs
    <2>4. page = [i \in 1..k |-> s[i]]
        BY <1>1, <2>3
    <2>5. \A i \in 1..k : s[i] \in S
        BY <1>2, <2>2, <2>3
    <2> QED BY <2>2, <2>3, <2>4, <2>5
<1>4. Falling(page)
    <2> SUFFICES ASSUME NEW i \in 1..k, NEW j \in 1..k, i < j PROVE page[j] < page[i]
        BY <1>3 DEF Falling
    <2>1. i \in 1..n /\ j \in 1..n /\ page[i] = s[i] /\ page[j] = s[j]
        BY <1>3
    <2> QED BY <1>2, <2>1 DEF Falling
<1>5. ASSUME NEW x \in S
      PROVE  (\E i \in 1..k : page[i] = x) \/ (k = limit /\ x < page[k])
    <2>1. PICK i \in 1..n : s[i] = x
        BY <1>2
    <2>2. CASE i <= k
        <3>1. i \in 1..k
            BY <2>2
        <3> QED BY <1>3, <2>1, <3>1
    <2>3. CASE k < i
        <3>1. k = limit /\ k \in 1..k /\ k \in 1..n
            BY <1>3, <2>3
        <3>2. s[i] < s[k]
            BY <1>2, <2>3, <3>1 DEF Falling
        <3> QED BY <1>3, <2>1, <3>1, <3>2
    <2> QED BY <2>2, <2>3
<1>6. FirstDown(page, k, S, limit)
    BY <1>3, <1>4, <1>5 DEF FirstDown
<1> QED BY <1>6

\* Two lists of entries that rise and have the same entries are the same list.
LEMMA SameEntries ==
    ASSUME NEW e \in Entries, NEW f \in Entries, RisingPaths(e), RisingPaths(f), Range(e) = Range(f)
    PROVE  e = f
<1>1. PICK m \in Nat : m = Len(e) /\ DOMAIN e = 1..m
    BY LenProperties DEF Entries
<1>2. PICK n \in Nat : n = Len(f) /\ DOMAIN f = 1..n
    BY LenProperties DEF Entries
<1>3. /\ \A i \in 1..m : e[i] \in Paths \X Versions /\ e[i][1] \in Int
      /\ \A i \in 1..n : f[i] \in Paths \X Versions /\ f[i][1] \in Int
    <2>1. e \in [1..m -> Paths \X Versions] /\ f \in [1..n -> Paths \X Versions]
        BY <1>1, <1>2, LenProperties DEF Entries
    <2> QED BY <2>1, ReadsAssumption DEF Paths
<1>4. /\ \A i, j \in 1..m : i < j => e[i][1] < e[j][1]
      /\ \A i, j \in 1..n : i < j => f[i][1] < f[j][1]
    BY <1>1, <1>2 DEF RisingPaths
<1>5. /\ \A i \in 1..m : \E j \in 1..n : f[j] = e[i]
      /\ \A j \in 1..n : \E i \in 1..m : f[j] = e[i]
    BY <1>1, <1>2 DEF Range
<1> DEFINE Agrees(i) == i \in 1..m <=> i \in 1..n
           Bad == {i \in Nat : ~ ((i \in 1..m <=> i \in 1..n) /\ (i \in 1..m => e[i] = f[i]))}
<1>6. Bad = {}
    <2> SUFFICES ASSUME Bad # {} PROVE FALSE
        OBVIOUS
    <2>1. Bad \in SUBSET Nat
        OBVIOUS
    <2>2. PICK k \in Bad : \A i \in Bad : k <= i
        <3> HIDE DEF Bad
        <3> QED BY <2>1, LeastOf
    <2>3. k \in Nat /\ ~ ((k \in 1..m <=> k \in 1..n) /\ (k \in 1..m => e[k] = f[k]))
        BY <2>2
    <2>4. \A i \in Nat : i < k => (i \in 1..m <=> i \in 1..n) /\ (i \in 1..m => e[i] = f[i])
        BY <2>2
    <2> HIDE DEF Bad
    <2>5. ASSUME k \in 1..m PROVE k \in 1..n /\ f[k][1] <= e[k][1]
        <3>1. PICK j \in 1..n : f[j] = e[k]
            BY <1>5, <2>5
        <3>2. CASE j < k
            <4>1. j \in 1..m /\ e[j] = f[j] /\ e[j][1] < e[k][1]
                BY <1>4, <2>3, <2>4, <2>5, <3>2
            <4> QED BY <1>3, <3>1, <4>1
        <3>3. CASE j = k
            BY <1>3, <3>1, <3>3
        <3>4. CASE k < j
            <4>1. k \in 1..n
                BY <2>5, <3>4
            <4>2. f[k][1] < f[j][1]
                BY <1>4, <3>4, <4>1
            <4> QED BY <1>3, <2>5, <3>1, <4>1, <4>2
        <3> QED BY <2>3, <3>2, <3>3, <3>4
    <2>6. ASSUME k \in 1..n PROVE k \in 1..m /\ e[k][1] <= f[k][1]
        <3>1. PICK j \in 1..m : f[k] = e[j]
            BY <1>5, <2>6
        <3>2. CASE j < k
            <4>1. j \in 1..n /\ e[j] = f[j] /\ f[j][1] < f[k][1]
                BY <1>4, <2>3, <2>4, <2>6, <3>2
            <4> QED BY <1>3, <3>1, <4>1
        <3>3. CASE j = k
            BY <1>3, <3>1, <3>3
        <3>4. CASE k < j
            <4>1. k \in 1..m
                BY <2>6, <3>4
            <4>2. e[k][1] < e[j][1]
                BY <1>4, <3>4, <4>1
            <4> QED BY <1>3, <2>6, <3>1, <4>1, <4>2
        <3> QED BY <2>3, <3>2, <3>3, <3>4
    <2>7. k \in 1..m /\ k \in 1..n /\ e[k] # f[k] /\ e[k][1] = f[k][1]
        BY <1>3, <2>3, <2>5, <2>6
    <2>8. PICK j \in 1..n : f[j] = e[k]
        BY <1>5, <2>7
    <2>9. j < k \/ k < j
        BY <2>7, <2>8
    <2>10. f[j][1] = f[k][1]
        BY <2>7, <2>8
    <2> QED BY <1>3, <1>4, <2>7, <2>9, <2>10
<1>7. \A i \in Nat : (i \in 1..m <=> i \in 1..n) /\ (i \in 1..m => e[i] = f[i])
    BY <1>6
<1> HIDE DEF Bad
<1>8. 1..m = 1..n
    BY <1>7
<1>9. DOMAIN e = DOMAIN f /\ \A i \in DOMAIN e : e[i] = f[i]
    BY <1>1, <1>2, <1>7, <1>8
<1>10. e = [i \in DOMAIN e |-> e[i]] /\ f = [i \in DOMAIN f |-> f[i]]
    <2>1. e \in [1..m -> Paths \X Versions] /\ f \in [1..n -> Paths \X Versions]
        BY <1>1, <1>2, LenProperties DEF Entries
    <2> QED BY <2>1
<1> QED BY <1>9, <1>10

-----------------------------------------------------------------------------
(* Rows and versions.                                                      *)

LEMMA RowFields ==
    ASSUME NEW r \in ReadRows
    PROVE  /\ r.seq \in Nat /\ 1 <= r.seq /\ r.seq <= MaxReadSeq /\ r.branch \in Names
           /\ r.path \in Paths /\ r.path \in Nat /\ r.ver \in Versions /\ r.ver \in Nat
           /\ r.was \in Versions /\ r.replay \in BOOLEAN
BY ReadsAssumption DEF ReadRows, Paths, Versions

\* The version a set of rows shows is that of its newest row.
LEMMA VersionTop ==
    ASSUME NEW rows \in SUBSET ReadRows, \A r, q \in rows : r.seq = q.seq => r = q,
           NEW t \in rows, \A q \in rows : q.seq <= t.seq
    PROVE  Newest(rows) = t /\ VersionIn(rows) = t.ver
<1>1. PICK n : n = Newest(rows)
    OBVIOUS
<1>2. n \in rows /\ \A q \in rows : q.seq <= n.seq
    BY <1>1 DEF Newest
<1>3. n.seq \in Nat /\ t.seq \in Nat
    BY <1>2, RowFields
<1>4. n.seq = t.seq
    BY <1>2, <1>3
<1>5. n = t
    BY <1>2, <1>4
<1> QED BY <1>1, <1>5 DEF VersionIn

LEMMA TopRow ==
    ASSUME NEW rows \in SUBSET ReadRows, \A r, q \in rows : r.seq = q.seq => r = q, rows # {}
    PROVE  \E t \in rows : /\ \A q \in rows : q.seq <= t.seq
                           /\ Newest(rows) = t /\ VersionIn(rows) = t.ver
<1> DEFINE seqs == {r.seq : r \in rows}
<1>1. seqs \in SUBSET Nat /\ seqs # {} /\ \A x \in seqs : x <= MaxReadSeq
    BY RowFields
<1>2. PICK x \in seqs : \A y \in seqs : y <= x
    <2> HIDE DEF seqs
    <2> QED BY <1>1, GreatestOf, ReadsAssumption
<1>3. PICK t \in rows : t.seq = x
    BY <1>2
<1>4. \A q \in rows : q.seq <= t.seq
    BY <1>2, <1>3
<1> HIDE DEF seqs
<1>5. Newest(rows) = t /\ VersionIn(rows) = t.ver
    BY <1>4, VersionTop
<1> QED BY <1>4, <1>5

LEMMA VersionType ==
    ASSUME NEW rows \in SUBSET ReadRows, \A r, q \in rows : r.seq = q.seq => r = q
    PROVE  VersionIn(rows) \in Versions
<1>1. CASE rows = {}
    BY <1>1, ReadsAssumption DEF VersionIn, Versions
<1>2. CASE rows # {}
    <2>1. PICK t \in rows : VersionIn(rows) = t.ver
        BY <1>2, TopRow
    <2> QED BY <2>1, RowFields
<1> QED BY <1>1, <1>2

\* The rows GetFile looks at.
FileRows(b, p, at) == {r \in Visible(b) : r.path = p /\ (at = Latest \/ r.seq <= at)}

LEMMA FileRowsFit ==
    ASSUME ReadsTypeOK, StoreFits, NEW b, NEW p, NEW at
    PROVE  /\ FileRows(b, p, at) \in SUBSET commits /\ FileRows(b, p, at) \in SUBSET ReadRows
           /\ \A r, q \in FileRows(b, p, at) : r.seq = q.seq => r = q
           /\ GetFile(b, p, at) = VersionIn(FileRows(b, p, at))
BY DEF FileRows, Visible, GetFile, ReadsTypeOK, StoreFits

LEMMA GetFileType ==
    ASSUME ReadsTypeOK, StoreFits, NEW b, NEW p, NEW at
    PROVE  GetFile(b, p, at) \in Versions /\ GetFile(b, p, at) \in Nat
<1>1. PICK rows : rows = FileRows(b, p, at)
    OBVIOUS
<1>2. rows \in SUBSET ReadRows /\ (\A r, q \in rows : r.seq = q.seq => r = q)
      /\ GetFile(b, p, at) = VersionIn(rows)
    BY <1>1, FileRowsFit
<1>3. VersionIn(rows) \in Versions
    BY <1>2, VersionType
<1>4. Versions \subseteq Nat
    BY ReadsAssumption DEF Versions
<1> QED BY <1>2, <1>3, <1>4

\* A version that is shown belongs to a visible row of the file.
LEMMA GetFileRow ==
    ASSUME ReadsTypeOK, StoreFits, NEW b, NEW p, NEW at, GetFile(b, p, at) # 0
    PROVE  \E r \in Visible(b) : r.path = p /\ r.ver = GetFile(b, p, at)
<1>1. PICK rows : rows = FileRows(b, p, at)
    OBVIOUS
<1>2. rows \in SUBSET ReadRows /\ (\A r, q \in rows : r.seq = q.seq => r = q)
      /\ GetFile(b, p, at) = VersionIn(rows)
    BY <1>1, FileRowsFit
<1>3. rows # {}
    BY <1>2 DEF VersionIn
<1>4. PICK t \in rows : VersionIn(rows) = t.ver
    BY <1>2, <1>3, TopRow
<1>5. t \in Visible(b) /\ t.path = p
    BY <1>1, <1>4 DEF FileRows
<1> QED BY <1>2, <1>4, <1>5

\* A commit's file at the commit is the commit's version.
LEMMA GetFileAt ==
    ASSUME ReadsTypeOK, StoreFits, NEW c \in commits
    PROVE  GetFile(c.branch, c.path, c.seq) = c.ver
<1>1. PICK rows : rows = FileRows(c.branch, c.path, c.seq)
    OBVIOUS
<1>2. rows \in SUBSET ReadRows /\ (\A r, q \in rows : r.seq = q.seq => r = q)
      /\ GetFile(c.branch, c.path, c.seq) = VersionIn(rows)
    BY <1>1, FileRowsFit
<1>3. c \in ReadRows
    BY DEF ReadsTypeOK
<1>4. c.seq \in Nat /\ 1 <= c.seq
    BY <1>3, RowFields
<1>5. c \in rows /\ \A q \in rows : q.seq <= c.seq
    BY <1>1, <1>4 DEF FileRows, Visible, Latest
<1>6. VersionIn(rows) = c.ver
    BY <1>2, <1>5, VersionTop
<1> QED BY <1>2, <1>6

-----------------------------------------------------------------------------
(* What a commit or a rebase does to the store.                            *)

LEMMA BranchFields ==
    ASSUME ReadsTypeOK
    PROVE  \A b \in Names : branches[b].head \in Nat /\ branches[b].base \in Nat
BY DEF ReadsTypeOK

\* The store only grows: new rows are above the head of their branch.
StoreGrows ==
    /\ commits \subseteq commits'
    /\ \A r \in commits' : r \notin commits => branches[r.branch].head < r.seq
    /\ \A b \in Names : /\ branches[b].head <= branches'[b].head
                         /\ branches[b].base <= branches'[b].base

\* The store has its types after the step.
StoreTyped == commits' \subseteq ReadRows /\ branches' \in [Names -> [head : Nat, base : Nat]]

LEMMA WriteGrows ==
    ASSUME ReadsTypeOK, StoreFits, NEW b \in Names, NEW p \in Paths, NEW s \in 1..MaxReadSeq,
           NEW del \in BOOLEAN, WriteFile(b, p, s, del)
    PROVE  /\ StoreGrows /\ StoreTyped
           /\ \E c : /\ commits' = commits \cup {c} /\ c \notin commits
                     /\ c.seq = s /\ c.branch = b /\ c.path = p /\ c.was = GetFile(b, p, Latest)
                     /\ c \in ReadRows
           /\ s \notin {r.seq : r \in commits} /\ branches[b].head < s
           /\ \A d \in Names : /\ branches'[d].base = branches[d].base
                               /\ d # b => branches'[d].head = branches[d].head
           /\ branches'[b].head = s
<1>1. PICK c : c = [seq |-> s, branch |-> b, path |-> p, replay |-> FALSE,
                    ver |-> IF del THEN 0 ELSE s, was |-> GetFile(b, p, Latest)]
    OBVIOUS
<1>2. s \notin {r.seq : r \in commits} /\ branches[b].head < s
    BY BranchFields DEF WriteFile, NewSeq
<1>3. commits' = commits \cup {c}
    BY <1>1 DEF WriteFile
<1>4. branches' = [branches EXCEPT ![b] = [head |-> s, base |-> branches[b].base]]
    BY DEF WriteFile
<1>5. branches \in [Names -> [head : Nat, base : Nat]] /\ commits \subseteq ReadRows
    BY DEF ReadsTypeOK
<1>6. GetFile(b, p, Latest) \in Versions
    BY GetFileType
<1>7. (IF del THEN 0 ELSE s) \in Versions
    BY ReadsAssumption DEF Versions
<1>8. c \in ReadRows
    BY <1>1, <1>6, <1>7 DEF ReadRows
<1>9. c.seq = s /\ c.branch = b /\ c.path = p /\ c.was = GetFile(b, p, Latest)
    BY <1>1
<1>10. c \notin commits
    BY <1>2, <1>9
<1>11. \A d \in Names : /\ branches'[d].base = branches[d].base
                        /\ d # b => branches'[d].head = branches[d].head
    BY <1>4, <1>5
<1>12. branches'[b].head = s
    BY <1>4, <1>5
<1>13. branches' \in [Names -> [head : Nat, base : Nat]]
    <2>1. [head |-> s, base |-> branches[b].base] \in [head : Nat, base : Nat]
        BY <1>5
    <2> QED BY <1>4, <1>5, <2>1
<1>14. StoreTyped
    BY <1>3, <1>5, <1>8, <1>13 DEF StoreTyped
<1>15. StoreGrows
    <2>1. \A d \in Names : branches[d].head <= branches'[d].head
        BY <1>2, <1>11, <1>12, BranchFields
    <2>2. \A d \in Names : branches[d].base <= branches'[d].base
        BY <1>11, BranchFields
    <2> QED BY <1>2, <1>3, <1>9, <2>1, <2>2 DEF StoreGrows
<1> QED BY <1>2, <1>3, <1>8, <1>9, <1>10, <1>11, <1>12, <1>14, <1>15

\* A new row is visible in its own branch only.
LEMMA NewRowVisible ==
    ASSUME ReadsTypeOK, StoreFits, StoreGrows, StoreTyped, NEW b \in Names,
           NEW r \in commits', r \notin commits, r \in Visible(b)',
           branches'[b].base <= branches[Main].head
    PROVE  r.branch = b
<1>1. r.branch = b \/ (r.branch = Main /\ r.seq <= branches'[b].base)
    BY DEF Visible
<1>2. branches[r.branch].head < r.seq
    BY DEF StoreGrows
<1>3. r.seq \in Nat
    BY RowFields DEF StoreTyped
<1>4. branches[Main].head \in Nat /\ branches'[b].base \in Nat
    BY BranchFields DEF StoreTyped, Names
<1> QED BY <1>1, <1>2, <1>3, <1>4

LEMMA VisibleGrows ==
    ASSUME ReadsTypeOK, StoreGrows, StoreTyped, NEW b \in Names, NEW r \in Visible(b)
    PROVE  r \in Visible(b)'
<1>1. r \in commits /\ (r.branch = b \/ (r.branch = Main /\ r.seq <= branches[b].base))
    BY DEF Visible
<1>2. r \in commits' /\ branches[b].base <= branches'[b].base
    BY <1>1 DEF StoreGrows
<1>3. r.seq \in Nat
    BY <1>1, RowFields DEF ReadsTypeOK
<1>4. branches[b].base \in Nat /\ branches'[b].base \in Nat
    BY BranchFields DEF StoreTyped
<1>5. r.branch = b \/ (r.branch = Main /\ r.seq <= branches'[b].base)
    BY <1>1, <1>2, <1>3, <1>4
<1> QED BY <1>2, <1>5 DEF Visible

\* A branch read at a sequence it has reached shows the same rows ever after, as
\* long as it keeps its base.
LEMMA RowsSteady ==
    ASSUME ReadsTypeOK, StoreFits, StoreGrows, StoreTyped, NEW b \in Names, NEW p, NEW at \in Nat,
           branches'[b].base = branches[b].base, at <= branches[b].head
    PROVE  {r \in Visible(b)' : r.path = p /\ r.seq <= at}
             = {r \in Visible(b) : r.path = p /\ r.seq <= at}
<1>1. branches[b].base <= branches[Main].head
    BY BranchFields DEF StoreFits, Names, Main
<1>2. ASSUME NEW r \in Visible(b)', r.seq <= at PROVE r \in Visible(b)
    <2>1. r \in commits' /\ (r.branch = b \/ (r.branch = Main /\ r.seq <= branches'[b].base))
        BY DEF Visible
    <2>2. r \in commits
        <3> SUFFICES ASSUME r \notin commits PROVE FALSE
            OBVIOUS
        <3>1. r.branch = b
            BY <1>1, <2>1, NewRowVisible
        <3>2. branches[b].head < r.seq
            BY <2>1, <3>1 DEF StoreGrows
        <3>3. r.seq \in Nat /\ branches[b].head \in Nat
            BY <2>1, RowFields, BranchFields DEF StoreTyped
        <3> QED BY <1>2, <3>2, <3>3
    <2> QED BY <2>1, <2>2 DEF Visible
<1>3. \A r \in Visible(b) : r \in Visible(b)'
    BY VisibleGrows
<1> QED BY <1>2, <1>3

LEMMA GetFileSteady ==
    ASSUME ReadsTypeOK, StoreFits, StoreGrows, StoreTyped, NEW b \in Names, NEW p, NEW at \in Nat,
           branches'[b].base = branches[b].base, at <= branches[b].head, at # Latest
    PROVE  GetFile(b, p, at)' = GetFile(b, p, at)
<1>1. PICK R : R = {r \in Visible(b) : r.path = p /\ r.seq <= at}
    OBVIOUS
<1>2. R = {r \in Visible(b)' : r.path = p /\ r.seq <= at}
    BY <1>1, RowsSteady
<1>3. GetFile(b, p, at) = VersionIn(R)
    <2>1. R = {r \in Visible(b) : r.path = p /\ (at = Latest \/ r.seq <= at)}
        BY <1>1
    <2> QED BY <2>1 DEF GetFile
<1>4. GetFile(b, p, at)' = VersionIn(R)
    <2>1. R = {r \in Visible(b)' : r.path = p /\ (at = Latest \/ r.seq <= at)}
        BY <1>2
    <2> QED BY <2>1 DEF GetFile, VersionIn, Newest
<1> QED BY <1>3, <1>4

LEMMA WriteStore ==
    ASSUME ReadsTypeOK, StoreFits, NEW b \in Names, NEW p \in Paths, NEW s \in 1..MaxReadSeq,
           NEW del \in BOOLEAN, WriteFile(b, p, s, del)
    PROVE  StoreFits'
<1>1. /\ StoreGrows /\ StoreTyped
      /\ s \notin {r.seq : r \in commits} /\ branches[b].head < s
      /\ \A d \in Names : /\ branches'[d].base = branches[d].base
                          /\ d # b => branches'[d].head = branches[d].head
      /\ branches'[b].head = s
    BY WriteGrows
<1>2. PICK c : /\ commits' = commits \cup {c} /\ c \notin commits
               /\ c.seq = s /\ c.branch = b /\ c.path = p /\ c.was = GetFile(b, p, Latest)
               /\ c \in ReadRows
    BY WriteGrows
<1>3. \A r \in commits : r \in ReadRows /\ r.seq \in Nat /\ r.branch \in Names
    BY RowFields DEF ReadsTypeOK
<1>4. \A d \in Names : branches[d].head \in Nat /\ branches[d].base \in Nat
    BY BranchFields
<1>5. \A d \in Names : branches'[d].head \in Nat /\ branches'[d].base \in Nat
    BY <1>1 DEF StoreTyped
<1>6. \A d \in Names : branches[d].head <= branches'[d].head
    BY <1>1 DEF StoreGrows
<1>7. /\ \A r, q \in commits : r.seq = q.seq => r = q
      /\ \A r \in commits : r.seq <= branches[r.branch].head
      /\ \A d \in Names : branches[d].base <= branches[d].head
      /\ \A d \in Names : \/ branches[d].head = branches[d].base
                          \/ \E r \in commits : r.branch = d /\ r.seq = branches[d].head
      /\ branches[Main].base = 0 /\ branches["topic"].base <= branches[Main].head
      /\ \A r \in commits : r.branch = "topic" =>
           \E q \in commits : /\ q.branch = "topic" /\ q.path = r.path
                               /\ branches["topic"].base < q.seq
      /\ \A r \in commits : r.replay \/ r.was = VersionIn(RowsBefore(r))
    BY DEF StoreFits
<1>8. \A d \in Names : branches[d].base <= branches[Main].head
    BY <1>4, <1>7 DEF Names, Main
<1>9. \A r, q \in commits' : r.seq = q.seq => r = q
    BY <1>1, <1>2, <1>7
<1>10. \A r \in commits' : r.seq <= branches'[r.branch].head
    <2> SUFFICES ASSUME NEW r \in commits' PROVE r.seq <= branches'[r.branch].head
        OBVIOUS
    <2>1. CASE r = c
        BY <1>1, <1>2, <2>1
    <2>2. CASE r \in commits
        <3>1. r.branch \in Names /\ r.seq <= branches[r.branch].head
            BY <1>3, <1>7, <2>2
        <3>2. branches[r.branch].head <= branches'[r.branch].head
            BY <1>6, <3>1
        <3>3. r.seq \in Nat /\ branches[r.branch].head \in Nat /\ branches'[r.branch].head \in Nat
            BY <1>3, <1>4, <1>5, <2>2, <3>1
        <3> QED BY <3>1, <3>2, <3>3
    <2> QED BY <1>2, <2>1, <2>2
<1>11. \A d \in Names : branches'[d].base <= branches'[d].head
    <2> SUFFICES ASSUME NEW d \in Names PROVE branches'[d].base <= branches'[d].head
        OBVIOUS
    <2> QED BY <1>1, <1>4, <1>5, <1>6, <1>7
<1>12. \A d \in Names : \/ branches'[d].head = branches'[d].base
                        \/ \E r \in commits' : r.branch = d /\ r.seq = branches'[d].head
    <2> SUFFICES ASSUME NEW d \in Names
                 PROVE  \/ branches'[d].head = branches'[d].base
                        \/ \E r \in commits' : r.branch = d /\ r.seq = branches'[d].head
        OBVIOUS
    <2>1. CASE d = b
        BY <1>1, <1>2, <2>1
    <2>2. CASE d # b
        BY <1>1, <1>2, <1>7, <2>2
    <2> QED BY <2>1, <2>2
<1>13. branches'[Main].base = 0 /\ branches'["topic"].base <= branches'[Main].head
    <2>1. Main \in Names /\ "topic" \in Names
        BY DEF Names
    <2> QED BY <1>1, <1>4, <1>5, <1>6, <1>7, <2>1
<1>14. \A r \in commits' : r.branch = "topic" =>
           \E q \in commits' : /\ q.branch = "topic" /\ q.path = r.path
                                /\ branches'["topic"].base < q.seq
    <2> SUFFICES ASSUME NEW r \in commits', r.branch = "topic"
                 PROVE  \E q \in commits' : /\ q.branch = "topic" /\ q.path = r.path
                                             /\ branches'["topic"].base < q.seq
        OBVIOUS
    <2>0. "topic" \in Names
        BY DEF Names
    <2>1. CASE r = c
        <3>1. b = "topic" /\ branches'["topic"].base = branches["topic"].base
            BY <1>1, <1>2, <2>0, <2>1
        <3>2. branches["topic"].base < s
            BY <1>1, <1>4, <1>7, <2>0, <3>1
        <3> QED BY <1>2, <2>1, <3>1, <3>2
    <2>2. CASE r \in commits
        <3>1. PICK q \in commits : /\ q.branch = "topic" /\ q.path = r.path
                                    /\ branches["topic"].base < q.seq
            BY <1>7, <2>2
        <3> QED BY <1>1, <1>2, <2>0, <3>1
    <2> QED BY <1>2, <2>1, <2>2
<1>15. \A r \in commits' : r.replay \/ r.was = VersionIn(RowsBefore(r)')
    <2> SUFFICES ASSUME NEW r \in commits' PROVE r.replay \/ r.was = VersionIn(RowsBefore(r)')
        OBVIOUS
    <2>1. CASE r = c
        <3>1. PICK R : R = {q \in Visible(b) : q.path = p}
            OBVIOUS
        <3>2. GetFile(b, p, Latest) = VersionIn(R)
            <4>1. R = {q \in Visible(b) : q.path = p /\ (Latest = Latest \/ q.seq <= Latest)}
                BY <3>1
            <4> QED BY <4>1 DEF GetFile
        <3>3. R = RowsBefore(r)'
            <4>1. \A q \in Visible(b) : q.seq < s
                <5> SUFFICES ASSUME NEW q \in Visible(b) PROVE q.seq < s
                    OBVIOUS
                <5>1. q \in commits /\ (q.branch = b \/ (q.branch = Main /\ q.seq <= branches[b].base))
                    BY DEF Visible
                <5>2. q.seq <= branches[b].head
                    BY <1>3, <1>4, <1>7, <5>1
                <5> QED BY <1>1, <1>3, <1>4, <5>1, <5>2
            <4>2. \A q \in Visible(b) : q \in Visible(b)'
                BY <1>1, VisibleGrows
            <4>3. ASSUME NEW q \in Visible(b)', q.seq < s PROVE q \in Visible(b)
                <5>1. q \in commits' /\ (q.branch = b \/ (q.branch = Main /\ q.seq <= branches'[b].base))
                    BY DEF Visible
                <5>2. q \in commits
                    BY <1>2, <4>3, <5>1
                <5> QED BY <1>1, <5>1, <5>2 DEF Visible
            <4>4. RowsBefore(r)' = {q \in Visible(b)' : q.path = p /\ q.seq < s}
                BY <1>2, <2>1 DEF RowsBefore, Visible
            <4> QED BY <3>1, <4>1, <4>2, <4>3, <4>4
        <3> QED BY <1>2, <2>1, <3>2, <3>3
    <2>2. CASE r \in commits
        <3>1. r.branch \in Names /\ r.seq \in Nat /\ r.seq <= branches[r.branch].head
            BY <1>3, <1>7, <2>2
        <3>2. RowsBefore(r)' = RowsBefore(r)
            <4>1. PICK d \in Names : d = r.branch
                BY <3>1
            <4>2. \A q \in Visible(d) : q \in Visible(d)'
                BY <1>1, VisibleGrows
            <4>3. ASSUME NEW q \in Visible(d)', q.seq < r.seq PROVE q \in Visible(d)
                <5>1. q \in commits' /\ (q.branch = d \/ (q.branch = Main /\ q.seq <= branches'[d].base))
                    BY DEF Visible
                <5>2. branches'[d].base = branches[d].base /\ branches'[d].base <= branches[Main].head
                    BY <1>1, <1>8
                <5>3. q \in commits
                    <6> SUFFICES ASSUME q \notin commits PROVE FALSE
                        OBVIOUS
                    <6>1. q.branch = d
                        BY <1>1, <5>1, <5>2, NewRowVisible
                    <6>2. q = c /\ d = b
                        BY <1>2, <5>1, <6>1
                    <6> QED BY <1>1, <1>2, <1>4, <3>1, <4>1, <4>3, <6>2
                <5> QED BY <5>1, <5>2, <5>3 DEF Visible
            <4>4. RowsBefore(r)' = {q \in Visible(d)' : q.path = r.path /\ q.seq < r.seq}
                BY <4>1 DEF RowsBefore, Visible
            <4>5. RowsBefore(r) = {q \in Visible(d) : q.path = r.path /\ q.seq < r.seq}
                BY <4>1 DEF RowsBefore
            <4> QED BY <4>2, <4>3, <4>4, <4>5
        <3> QED BY <1>7, <2>2, <3>2
    <2> QED BY <1>2, <2>1, <2>2
<1>16. \A r \in commits' : r.replay \/ r.was = VersionIn(RowsBefore(r))'
    BY <1>15 DEF VersionIn, Newest
<1> QED BY <1>9, <1>10, <1>11, <1>12, <1>13, <1>14, <1>16 DEF StoreFits

\* The rows a rebase adds: for every row after the base one above both heads.
LEMMA RebaseGrows ==
    ASSUME ReadsTypeOK, StoreFits,
           NEW f \in [{x.seq : x \in branchCommitGroups} -> 1..MaxReadSeq], RebaseTopic(f)
    PROVE  /\ StoreGrows /\ StoreTyped
           /\ \A r \in commits' : r \in commits \/
                /\ r.branch = "topic" /\ r.replay
                /\ branches[Main].head < r.seq /\ branches["topic"].head < r.seq
                /\ r.seq <= branches'["topic"].head
           /\ \A x \in branchCommitGroups :
                \E r \in commits' : /\ r.branch = "topic" /\ r.path = x.path
                                    /\ branches[Main].head < r.seq
           /\ \A r, q \in commits' : r.seq = q.seq => r = q
           /\ branches'[Main] = branches[Main]
           /\ branches'["topic"].base = branches[Main].head
           /\ branches'["topic"].base <= branches'["topic"].head
           /\ \/ branches'["topic"].head = branches'["topic"].base
              \/ \E r \in commits' : r.branch = "topic" /\ r.seq = branches'["topic"].head
<1>1. PICK old : old = branchCommitGroups
    OBVIOUS
<1>2. PICK newHead : newHead = IF old = {} THEN branches[Main].head ELSE f[Newest(old).seq]
    OBVIOUS
<1>3. PICK new : new = {[seq |-> f[x.seq], branch |-> "topic", path |-> x.path, ver |-> x.ver,
                         replay |-> TRUE, was |-> x.was] : x \in old}
    OBVIOUS
<1>4. commits' = commits \cup new
    BY <1>1, <1>3 DEF RebaseTopic
<1>5. branches' = [branches EXCEPT !["topic"] = [head |-> newHead, base |-> branches[Main].head]]
    BY <1>1, <1>2 DEF RebaseTopic
<1>6. /\ \A q \in DOMAIN f : NewSeq(f[q], "topic") /\ NewSeq(f[q], Main)
      /\ \A q, t \in DOMAIN f : q < t => f[q] < f[t]
    BY DEF RebaseTopic
<1>7. \A x \in old : /\ x \in commits /\ x \in ReadRows /\ x.branch = "topic" /\ x.seq \in Nat
                     /\ branches["topic"].base < x.seq /\ x.seq \in DOMAIN f
    BY <1>1, RowFields DEF branchCommitGroups, ReadsTypeOK
<1>8. Main \in Names /\ "topic" \in Names /\ Main # "topic"
    BY DEF Names, Main
<1>9. /\ branches[Main].head \in Nat /\ branches["topic"].head \in Nat
      /\ branches[Main].base \in Nat /\ branches["topic"].base \in Nat
    BY <1>8, BranchFields
<1>10. \A x \in old : /\ f[x.seq] \in 1..MaxReadSeq /\ f[x.seq] \notin {r.seq : r \in commits}
                      /\ branches[Main].head < f[x.seq] /\ branches["topic"].head < f[x.seq]
    <2> SUFFICES ASSUME NEW x \in old
                 PROVE  /\ f[x.seq] \in 1..MaxReadSeq /\ f[x.seq] \notin {r.seq : r \in commits}
                        /\ branches[Main].head < f[x.seq] /\ branches["topic"].head < f[x.seq]
        OBVIOUS
    <2>1. NewSeq(f[x.seq], "topic") /\ NewSeq(f[x.seq], Main)
        BY <1>6, <1>7
    <2> QED BY <1>9, <2>1 DEF NewSeq
<1>11. \A r \in new : /\ r \in ReadRows /\ r.branch = "topic" /\ r.replay
                      /\ \E x \in old : /\ r.seq = f[x.seq] /\ r.path = x.path
                                        /\ r.ver = x.ver /\ r.was = x.was
    <2> SUFFICES ASSUME NEW r \in new
                 PROVE  /\ r \in ReadRows /\ r.branch = "topic" /\ r.replay
                        /\ \E x \in old : /\ r.seq = f[x.seq] /\ r.path = x.path
                                          /\ r.ver = x.ver /\ r.was = x.was
        OBVIOUS
    <2>1. PICK x \in old : r = [seq |-> f[x.seq], branch |-> "topic", path |-> x.path, ver |-> x.ver,
                                replay |-> TRUE, was |-> x.was]
        BY <1>3
    <2>2. x.path \in Paths /\ x.ver \in Versions /\ x.was \in Versions
        BY <1>7, RowFields
    <2>3. r \in ReadRows
        BY <1>8, <1>10, <2>1, <2>2 DEF ReadRows
    <2> QED BY <2>1, <2>3
<1>12. \A x, y \in old : f[x.seq] = f[y.seq] => x = y
    <2> SUFFICES ASSUME NEW x \in old, NEW y \in old, f[x.seq] = f[y.seq] PROVE x = y
        OBVIOUS
    <2>1. f[x.seq] \in Nat /\ x.seq \in Nat /\ y.seq \in Nat
        BY <1>7, <1>10
    <2>2. x.seq = y.seq
        BY <1>6, <1>7, <2>1
    <2> QED BY <1>7, <2>2 DEF StoreFits
<1>13. \A r, q \in commits' : r.seq = q.seq => r = q
    <2> SUFFICES ASSUME NEW r \in commits', NEW q \in commits', r.seq = q.seq PROVE r = q
        OBVIOUS
    <2>1. CASE r \in commits /\ q \in commits
        BY <2>1 DEF StoreFits
    <2>2. CASE r \in commits /\ q \in new
        BY <1>10, <1>11, <2>2
    <2>3. CASE r \in new /\ q \in commits
        BY <1>10, <1>11, <2>3
    <2>4. CASE r \in new /\ q \in new
        <3>1. PICK x \in old : r = [seq |-> f[x.seq], branch |-> "topic", path |-> x.path,
                                    ver |-> x.ver, replay |-> TRUE, was |-> x.was]
            BY <1>3, <2>4
        <3>2. PICK y \in old : q = [seq |-> f[y.seq], branch |-> "topic", path |-> y.path,
                                    ver |-> y.ver, replay |-> TRUE, was |-> y.was]
            BY <1>3, <2>4
        <3>3. f[x.seq] = f[y.seq]
            BY <3>1, <3>2
        <3>4. x = y
            BY <1>12, <3>3
        <3> QED BY <3>1, <3>2, <3>4
    <2> QED BY <1>4, <2>1, <2>2, <2>3, <2>4
<1>14. \A x \in old : \E r \in new : /\ r.branch = "topic" /\ r.path = x.path /\ r.seq = f[x.seq]
    <2> SUFFICES ASSUME NEW x \in old
                 PROVE  \E r \in new : r.branch = "topic" /\ r.path = x.path /\ r.seq = f[x.seq]
        OBVIOUS
    <2>1. PICK r : r = [seq |-> f[x.seq], branch |-> "topic", path |-> x.path, ver |-> x.ver,
                        replay |-> TRUE, was |-> x.was]
        OBVIOUS
    <2>2. r \in new
        BY <1>3, <2>1
    <2> QED BY <2>1, <2>2
<1>15. /\ branches'[Main] = branches[Main] /\ branches'["topic"].head = newHead
       /\ branches'["topic"].base = branches[Main].head
    BY <1>5, <1>8 DEF ReadsTypeOK
<1>16. branches["topic"].base <= branches[Main].head
    BY DEF StoreFits
<1>17. CASE old = {}
    <2>1. newHead = branches[Main].head
        BY <1>2, <1>17
    <2>2. \A r \in commits : r.branch # "topic"
        BY <1>1, <1>17 DEF StoreFits, branchCommitGroups
    <2>3. branches["topic"].head = branches["topic"].base
        BY <1>8, <2>2 DEF StoreFits
    <2>4. new = {} /\ commits' = commits
        BY <1>3, <1>4, <1>17
    <2>5. StoreTyped
        <3>1. [head |-> newHead, base |-> branches[Main].head] \in [head : Nat, base : Nat]
            BY <1>9, <2>1
        <3> QED BY <1>5, <2>4, <3>1 DEF StoreTyped, ReadsTypeOK
    <2>6. \A d \in Names : branches[d].head <= branches'[d].head /\ branches[d].base <= branches'[d].base
        BY <1>8, <1>9, <1>15, <1>16, <2>1, <2>3 DEF Names
    <2>7. StoreGrows
        BY <2>4, <2>6 DEF StoreGrows
    <2>8. branches'["topic"].base <= branches'["topic"].head
        BY <1>9, <1>15, <2>1
    <2> QED BY <1>1, <1>13, <1>15, <1>17, <2>1, <2>4, <2>5, <2>7, <2>8
<1>18. CASE old # {}
    <2>1. old \in SUBSET ReadRows /\ \A r, q \in old : r.seq = q.seq => r = q
        BY <1>7 DEF StoreFits
    <2>2. PICK t \in old : (\A q \in old : q.seq <= t.seq) /\ Newest(old) = t
        BY <1>18, <2>1, TopRow
    <2>3. newHead = f[t.seq] /\ newHead \in Nat
        BY <1>2, <1>10, <1>18, <2>2
    <2>4. \A x \in old : f[x.seq] <= newHead
        <3> SUFFICES ASSUME NEW x \in old PROVE f[x.seq] <= newHead
            OBVIOUS
        <3>1. x.seq \in Nat /\ t.seq \in Nat /\ x.seq <= t.seq /\ f[x.seq] \in Nat
            BY <1>7, <1>10, <2>2
        <3>2. x.seq = t.seq \/ x.seq < t.seq
            BY <3>1
        <3>3. x.seq < t.seq => f[x.seq] < f[t.seq]
            BY <1>6, <1>7, <2>2
        <3> QED BY <2>3, <3>1, <3>2, <3>3
    <2>5. branches[Main].head < newHead /\ branches["topic"].head < newHead
        BY <1>10, <2>2, <2>3
    <2>6. StoreTyped
        <3>1. [head |-> newHead, base |-> branches[Main].head] \in [head : Nat, base : Nat]
            BY <1>9, <2>3
        <3>2. branches' \in [Names -> [head : Nat, base : Nat]]
            BY <1>5, <3>1 DEF ReadsTypeOK
        <3>3. commits' \subseteq ReadRows
            BY <1>4, <1>11 DEF ReadsTypeOK
        <3> QED BY <3>2, <3>3 DEF StoreTyped
    <2>7. \A d \in Names : branches[d].head <= branches'[d].head /\ branches[d].base <= branches'[d].base
        BY <1>8, <1>9, <1>15, <1>16, <2>3, <2>5 DEF Names
    <2>8. \A r \in commits' : r \in commits \/
                /\ r.branch = "topic" /\ r.replay
                /\ branches[Main].head < r.seq /\ branches["topic"].head < r.seq
                /\ r.seq <= branches'["topic"].head
        BY <1>4, <1>10, <1>11, <1>15, <2>4
    <2>9. StoreGrows
        <3>1. \A r \in commits' : r \notin commits => branches[r.branch].head < r.seq
            BY <2>8
        <3>2. commits \subseteq commits'
            BY <1>4
        <3> QED BY <2>7, <3>1, <3>2 DEF StoreGrows
    <2>10. branches'["topic"].base <= branches'["topic"].head
        BY <1>9, <1>15, <2>3, <2>5
    <2>11. \E r \in commits' : r.branch = "topic" /\ r.seq = branches'["topic"].head
        BY <1>4, <1>14, <1>15, <2>2, <2>3
    <2>12. \A x \in branchCommitGroups :
                \E r \in commits' : /\ r.branch = "topic" /\ r.path = x.path
                                    /\ branches[Main].head < r.seq
        BY <1>1, <1>4, <1>10, <1>14
    <2> QED BY <1>13, <1>15, <2>6, <2>8, <2>9, <2>10, <2>11, <2>12
<1> QED BY <1>17, <1>18

\* A rebase shows main as before, and the topic's own paths too: none of them was
\* changed on main since the base.
LEMMA RebaseStore ==
    ASSUME ReadsTypeOK, StoreFits,
           NEW f \in [{x.seq : x \in branchCommitGroups} -> 1..MaxReadSeq], RebaseTopic(f)
    PROVE  StoreFits'
<1>1. /\ StoreGrows /\ StoreTyped
      /\ branches'[Main] = branches[Main]
      /\ branches'["topic"].base = branches[Main].head
      /\ branches'["topic"].base <= branches'["topic"].head
      /\ \/ branches'["topic"].head = branches'["topic"].base
         \/ \E r \in commits' : r.branch = "topic" /\ r.seq = branches'["topic"].head
      /\ \A r, q \in commits' : r.seq = q.seq => r = q
    BY RebaseGrows
<1>2. \A r \in commits' : r \in commits \/
                /\ r.branch = "topic" /\ r.replay
                /\ branches[Main].head < r.seq /\ branches["topic"].head < r.seq
                /\ r.seq <= branches'["topic"].head
    BY RebaseGrows
<1>3. \A x \in branchCommitGroups :
                \E r \in commits' : /\ r.branch = "topic" /\ r.path = x.path
                                    /\ branches[Main].head < r.seq
    BY RebaseGrows
<1>4. latestChanges("topic", branches["topic"].base)
         \cap latestChanges(Main, branches["topic"].base) = {}
    BY DEF RebaseTopic
<1>5. Main \in Names /\ "topic" \in Names /\ Main # "topic"
    BY DEF Names, Main
<1>6. \A d \in Names : branches[d].head \in Nat /\ branches[d].base \in Nat
    BY BranchFields
<1>7. \A d \in Names : branches'[d].head \in Nat /\ branches'[d].base \in Nat
    BY <1>1 DEF StoreTyped
<1>8. \A r \in commits : r \in ReadRows /\ r.seq \in Nat /\ r.branch \in Names
    BY RowFields DEF ReadsTypeOK
<1>9. \A d \in Names : branches[d].head <= branches'[d].head
    BY <1>1 DEF StoreGrows
<1>10. /\ \A r \in commits : r.seq <= branches[r.branch].head
       /\ \A d \in Names : branches[d].base <= branches[d].head
       /\ \A d \in Names : \/ branches[d].head = branches[d].base
                           \/ \E r \in commits : r.branch = d /\ r.seq = branches[d].head
       /\ branches[Main].base = 0 /\ branches["topic"].base <= branches[Main].head
       /\ \A r \in commits : r.branch = "topic" =>
            \E q \in commits : /\ q.branch = "topic" /\ q.path = r.path
                                /\ branches["topic"].base < q.seq
       /\ \A r \in commits : r.replay \/ r.was = VersionIn(RowsBefore(r))
    BY DEF StoreFits
<1>11. \A r \in commits' : r.seq <= branches'[r.branch].head
    <2> SUFFICES ASSUME NEW r \in commits' PROVE r.seq <= branches'[r.branch].head
        OBVIOUS
    <2>1. CASE r \in commits
        <3>1. r.branch \in Names /\ r.seq <= branches[r.branch].head
            BY <1>8, <1>10, <2>1
        <3>2. branches[r.branch].head <= branches'[r.branch].head
            BY <1>9, <3>1
        <3>3. r.seq \in Nat /\ branches[r.branch].head \in Nat /\ branches'[r.branch].head \in Nat
            BY <1>6, <1>7, <1>8, <2>1, <3>1
        <3> QED BY <3>1, <3>2, <3>3
    <2>2. CASE r \notin commits
        BY <1>2, <2>2
    <2> QED BY <2>1, <2>2
<1>12. \A d \in Names : branches'[d].base <= branches'[d].head
    <2>1. branches'[Main].base <= branches'[Main].head
        BY <1>1, <1>5, <1>10
    <2> QED BY <1>1, <2>1 DEF Names
<1>13. \A d \in Names : \/ branches'[d].head = branches'[d].base
                        \/ \E r \in commits' : r.branch = d /\ r.seq = branches'[d].head
    <2>1. \/ branches'[Main].head = branches'[Main].base
          \/ \E r \in commits' : r.branch = Main /\ r.seq = branches'[Main].head
        <3>1. commits \subseteq commits'
            BY <1>1 DEF StoreGrows
        <3> QED BY <1>1, <1>5, <1>10, <3>1
    <2> QED BY <1>1, <2>1 DEF Names
<1>14. branches'[Main].base = 0 /\ branches'["topic"].base <= branches'[Main].head
    BY <1>1, <1>5, <1>6, <1>10
<1>15. \A r \in commits : r.branch = "topic" =>
           \E x \in branchCommitGroups : x.path = r.path
    BY <1>10 DEF branchCommitGroups
<1>16. \A r \in commits' : r.branch = "topic" =>
           \E q \in commits' : /\ q.branch = "topic" /\ q.path = r.path
                                /\ branches'["topic"].base < q.seq
    <2> SUFFICES ASSUME NEW r \in commits', r.branch = "topic"
                 PROVE  \E q \in commits' : /\ q.branch = "topic" /\ q.path = r.path
                                             /\ branches'["topic"].base < q.seq
        OBVIOUS
    <2>1. CASE r \in commits
        <3>1. PICK x \in branchCommitGroups : x.path = r.path
            BY <1>15, <2>1
        <3> QED BY <1>1, <1>3, <3>1
    <2>2. CASE r \notin commits
        BY <1>1, <1>2, <2>2
    <2> QED BY <2>1, <2>2
<1>17. \A r \in commits' : r.replay \/ r.was = VersionIn(RowsBefore(r)')
    <2> SUFFICES ASSUME NEW r \in commits', ~ r.replay PROVE r.was = VersionIn(RowsBefore(r)')
        OBVIOUS
    <2>1. r \in commits
        BY <1>2
    <2>2. PICK d \in Names : d = r.branch
        BY <1>8, <2>1
    <2>3. \A q \in Visible(d) : q \in Visible(d)'
        BY <1>1, VisibleGrows
    <2>4. ASSUME NEW q \in Visible(d)', q.path = r.path, q.seq < r.seq PROVE q \in Visible(d)
        <3>1. q \in commits' /\ (q.branch = d \/ (q.branch = Main /\ q.seq <= branches'[d].base))
            BY DEF Visible
        <3>2. r.seq \in Nat /\ r.seq <= branches[d].head
            BY <1>8, <1>10, <2>1, <2>2
        <3>3. q.seq \in Nat
            BY <1>1, <3>1, RowFields DEF StoreTyped
        <3>4. q \in commits
            <4> SUFFICES ASSUME q \notin commits PROVE FALSE
                OBVIOUS
            <4>1. q.branch = "topic" /\ branches["topic"].head < q.seq
                BY <1>2, <3>1
            <4>2. d = "topic"
                BY <1>5, <3>1, <4>1
            <4> QED BY <1>5, <1>6, <2>4, <3>2, <3>3, <4>1, <4>2
        <3>5. CASE q.branch = d
            BY <3>4, <3>5 DEF Visible
        <3>6. CASE q.branch = Main /\ d = "topic"
            <4>1. PICK x \in branchCommitGroups : x.path = r.path
                BY <1>15, <2>1, <2>2, <3>6
            <4>2. r.path \in latestChanges("topic", branches["topic"].base)
                BY <4>1 DEF latestChanges, branchCommitGroups
            <4>3. ~ (branches["topic"].base < q.seq)
                <5> SUFFICES ASSUME branches["topic"].base < q.seq PROVE FALSE
                    OBVIOUS
                <5>1. q.path \in latestChanges(Main, branches["topic"].base)
                    BY <3>4, <3>6 DEF latestChanges
                <5> QED BY <1>4, <2>4, <4>2, <5>1
            <4>4. q.seq <= branches[d].base
                BY <1>5, <1>6, <3>3, <3>6, <4>3
            <4> QED BY <3>4, <3>6, <4>4 DEF Visible
        <3> QED BY <3>1, <3>5, <3>6 DEF Names
    <2>5. RowsBefore(r)' = {q \in Visible(d)' : q.path = r.path /\ q.seq < r.seq}
        BY <2>2 DEF RowsBefore, Visible
    <2>6. RowsBefore(r) = {q \in Visible(d) : q.path = r.path /\ q.seq < r.seq}
        BY <2>2 DEF RowsBefore
    <2>7. RowsBefore(r)' = RowsBefore(r)
        BY <2>3, <2>4, <2>5, <2>6
    <2> QED BY <1>10, <2>1, <2>7
<1>18. \A r \in commits' : r.replay \/ r.was = VersionIn(RowsBefore(r))'
    BY <1>17 DEF VersionIn, Newest
<1> QED BY <1>1, <1>11, <1>12, <1>13, <1>14, <1>16, <1>18 DEF StoreFits

-----------------------------------------------------------------------------
(* The pages that the queries answer.                                      *)

LEMMA TreeIs ==
    ASSUME NEW b, NEW at, NEW after, NEW page, page = MaterializeTree(b, at, PageSize, after)
    PROVE  \E k \in Nat :
               /\ page \in Seq(Paths) /\ Len(page) = k /\ DOMAIN page = 1..k
               /\ Rising(page) /\ k <= PageSize
               /\ \A i \in 1..k : page[i] \in Paths /\ page[i] > after /\ GetFile(b, page[i], at) # 0
               /\ \A p \in Paths : p > after /\ GetFile(b, p, at) # 0 =>
                      (\E i \in 1..k : page[i] = p) \/ (k = PageSize /\ page[k] < p)
<1>1. PICK S : S = {p \in Paths : p > after /\ GetFile(b, p, at) # 0}
    OBVIOUS
<1>2. S \in SUBSET (1..NPaths) /\ NPaths \in Nat /\ PageSize \in Nat \ {0}
    BY <1>1, ReadsAssumption DEF Paths
<1>3. page = FirstOf(Ascending(S), PageSize)
    BY <1>1 DEF MaterializeTree
<1>4. PICK k \in Nat : /\ page \in [1..k -> S] /\ Rising(page) /\ k <= PageSize
                       /\ \A x \in S : \/ \E i \in 1..k : page[i] = x
                                       \/ k = PageSize /\ page[k] < x
    BY <1>2, <1>3, AscendingPage
<1>5. \A i \in 1..k : page[i] \in S
    BY <1>4
<1>6. page \in [1..k -> Paths]
    <2>1. S \subseteq Paths
        BY <1>1
    <2> QED BY <1>4, <1>5, <2>1
<1>7. page \in Seq(Paths) /\ Len(page) = k /\ DOMAIN page = 1..k
    BY <1>6, SeqOf
<1>8. \A i \in 1..k : page[i] \in Paths /\ page[i] > after /\ GetFile(b, page[i], at) # 0
    BY <1>1, <1>5
<1>9. \A p \in Paths : p > after /\ GetFile(b, p, at) # 0 =>
          (\E i \in 1..k : page[i] = p) \/ (k = PageSize /\ page[k] < p)
    BY <1>1, <1>4
<1> QED BY <1>4, <1>7, <1>8, <1>9

HistoryOf(page, b, p, limit, after) ==
    /\ page \in Seq(Nat) /\ Falling(page) /\ Len(page) <= limit
    /\ \A i \in DOMAIN page : 1 <= page[i] /\ (after = Latest \/ page[i] < after)
    /\ \A r \in Visible(b) : r.path = p /\ (after = Latest \/ r.seq < after) =>
           \/ \E i \in DOMAIN page : page[i] = r.seq
           \/ Len(page) = limit /\ r.seq < page[Len(page)]

LEMMA HistoryIs ==
    ASSUME ReadsTypeOK, NEW b, NEW p, NEW limit \in Nat \ {0}, NEW after, NEW page,
           page = GetFileHistory(b, p, limit, after)
    PROVE  HistoryOf(page, b, p, limit, after)
<1>1. PICK rows : rows = {r \in Visible(b) : r.path = p /\ (after = Latest \/ r.seq < after)}
    OBVIOUS
<1>2. PICK S : S = {r.seq : r \in rows}
    OBVIOUS
<1>3. \A r \in rows : r \in ReadRows
    BY <1>1 DEF Visible, ReadsTypeOK
<1>4. \A r \in rows : r.seq \in Nat /\ 1 <= r.seq /\ r.seq <= MaxReadSeq
    BY <1>3, RowFields
<1>5. S \in SUBSET (1..MaxReadSeq) /\ MaxReadSeq \in Nat
    BY <1>2, <1>4, ReadsAssumption
<1>6. page = FirstOf(Descending(S), limit)
    BY <1>1, <1>2 DEF GetFileHistory
<1>7. PICK k \in Nat : /\ page \in [1..k -> S] /\ Falling(page) /\ k <= limit
                       /\ \A x \in S : \/ \E i \in 1..k : page[i] = x
                                       \/ k = limit /\ x < page[k]
    <2>1. PICK k \in Nat : FirstDown(page, k, S, limit)
        BY <1>5, <1>6, DescendingPage
    <2> QED BY <2>1 DEF FirstDown
<1>8. \A i \in 1..k : page[i] \in S
    BY <1>7
<1>9. page \in [1..k -> Nat]
    <2>1. S \subseteq Nat
        BY <1>5
    <2> QED BY <1>7, <1>8, <2>1
<1>10. page \in Seq(Nat) /\ Len(page) = k /\ DOMAIN page = 1..k
    BY <1>9, SeqOf
<1>11. \A x \in S : 1 <= x /\ (after = Latest \/ x < after)
    BY <1>1, <1>2, <1>4
<1>12. \A i \in 1..k : 1 <= page[i] /\ (after = Latest \/ page[i] < after)
    BY <1>8, <1>11
<1>13. \A r \in Visible(b) : r.path = p /\ (after = Latest \/ r.seq < after) => r.seq \in S
    BY <1>1, <1>2
<1> QED BY <1>7, <1>10, <1>12, <1>13 DEF HistoryOf

LEMMA LogRowsAre ==
    ASSUME ReadsTypeOK, NEW b, NEW from, NEW to, NEW rows,
           rows = chainToLogRows(GetChain(from, to), b)
    PROVE  \E k \in Nat :
               /\ rows \in Seq(Nat) /\ Len(rows) = k /\ DOMAIN rows = 1..k /\ Falling(rows)
               /\ \A i \in 1..k : from <= rows[i] /\ rows[i] <= to
               /\ \A r \in commits : r.branch = b /\ from <= r.seq /\ r.seq <= to =>
                      \E i \in 1..k : rows[i] = r.seq
<1>1. PICK R : R = {x \in GetChain(from, to) : x.branch = b}
    OBVIOUS
<1>2. PICK S : S = {r.seq : r \in R}
    OBVIOUS
<1>3. \A r \in R : r \in ReadRows /\ from <= r.seq /\ r.seq <= to
    BY <1>1 DEF GetChain, ReadsTypeOK
<1>4. \A r \in R : r.seq \in Nat /\ 1 <= r.seq /\ r.seq <= MaxReadSeq
    BY <1>3, RowFields
<1>5. S \in SUBSET (1..MaxReadSeq) /\ MaxReadSeq \in Nat
    BY <1>2, <1>4, ReadsAssumption
<1>6. rows = Descending(S)
    BY <1>1, <1>2 DEF chainToLogRows
<1>7. \E k \in Nat : /\ Descending(S) \in [1..k -> S] /\ Falling(Descending(S))
                     /\ \A x \in S : \E i \in 1..k : Descending(S)[i] = x
    BY <1>5, DescendingIs
<1>8. PICK k \in Nat : /\ rows \in [1..k -> S] /\ Falling(rows)
                       /\ \A x \in S : \E i \in 1..k : rows[i] = x
    BY <1>6, <1>7
<1>9. \A i \in 1..k : rows[i] \in S
    BY <1>8
<1>10. rows \in [1..k -> Nat]
    <2>1. S \subseteq Nat
        BY <1>5
    <2> QED BY <1>8, <1>9, <2>1
<1>11. rows \in Seq(Nat) /\ Len(rows) = k /\ DOMAIN rows = 1..k
    BY <1>10, SeqOf
<1>12. \A x \in S : from <= x /\ x <= to
    BY <1>2, <1>3
<1>13. \A i \in 1..k : from <= rows[i] /\ rows[i] <= to
    BY <1>9, <1>12
<1>14. \A r \in commits : r.branch = b /\ from <= r.seq /\ r.seq <= to => r.seq \in S
    BY <1>1, <1>2 DEF GetChain
<1> QED BY <1>8, <1>11, <1>13, <1>14

-----------------------------------------------------------------------------
(* The types of the reader.                                                *)

ReadOps == Listings \cup Logs \cup FilePages \cup {"idle"}
ReaderTyped(x) == x \in Readers(IF x.op \in Listings THEN Entries ELSE Seq(Nat))

LEMMA OpsApart ==
    /\ Listings \cap (Logs \cup FilePages \cup {"idle"}) = {}
    /\ Logs \cap (FilePages \cup {"idle"}) = {}
    /\ "idle" \notin FilePages
BY DEF Listings, Logs, FilePages

LEMMA ReaderFields ==
    ASSUME ReadsTypeOK
    PROVE  /\ rd.op \in ReadOps /\ rd.b \in Names /\ rd.at \in Nat /\ rd.p \in Nat
           /\ rd.after \in Nat /\ rd.todo \in Seq(Paths) /\ rd.last \in BOOLEAN
           /\ rd.due \in SUBSET Nat /\ rd.touched \in SUBSET Paths /\ rd.skipped \in SUBSET Paths
           /\ rd.op \in Listings => rd.got \in Entries /\ rd \in Readers(Entries)
           /\ rd.op \notin Listings => rd.got \in Seq(Nat) /\ rd \in Readers(Seq(Nat))
<1>1. PICK G : rd \in Readers(G) /\ (rd.op \in Listings => G = Entries)
               /\ (rd.op \notin Listings => G = Seq(Nat))
    BY DEF ReadsTypeOK
<1> QED BY <1>1 DEF Readers, ReadOps

LEMMA ListingTyped ==
    ASSUME NEW x \in Readers(Entries), x.op \in Listings
    PROVE  ReaderTyped(x)
BY DEF ReaderTyped

LEMMA OtherTyped ==
    ASSUME NEW x \in Readers(Seq(Nat)), x.op \notin Listings
    PROVE  ReaderTyped(x)
BY DEF ReaderTyped

LEMMA BeginTyped ==
    ASSUME NEW op \in ReadOps, NEW b \in Names, NEW at \in Nat
    PROVE  /\ Begin(op, b, at) \in Readers(Entries) /\ Begin(op, b, at) \in Readers(Seq(Nat))
           /\ ReaderTyped(Begin(op, b, at)) /\ Begin(op, b, at).op = op
<1>1. <<>> \in Entries /\ <<>> \in Seq(Nat) /\ <<>> \in Seq(Paths)
    BY DEF Entries
<1>2. PICK x : x = Begin(op, b, at)
    OBVIOUS
<1>3. x.op = op
    BY <1>2 DEF Begin, Start
<1>4. x \in Readers(Entries)
    BY <1>1, <1>2 DEF Begin, Start, Readers, ReadOps
<1>5. x \in Readers(Seq(Nat))
    BY <1>1, <1>2 DEF Begin, Start, Readers, ReadOps
<1>6. ReaderTyped(x)
    BY <1>3, <1>4, <1>5, ListingTyped, OtherTyped
<1> QED BY <1>2, <1>3, <1>4, <1>5, <1>6

LEMMA TreePageTyped ==
    ASSUME ReadsTypeOK, StoreFits, TreePage
    PROVE  ReaderTyped(rd')
<1>1. PICK page : page = MaterializeTree(rd.b, rd.at, PageSize, rd.after)
    OBVIOUS
<1>2. PICK k \in Nat : /\ page \in Seq(Paths) /\ Len(page) = k /\ DOMAIN page = 1..k /\ k <= PageSize
                       /\ \A i \in 1..k : page[i] \in Paths
    BY <1>1, TreeIs
<1>3. rd.op = "tree" /\ rd.op \in Listings
    BY DEF TreePage, Reading, Listings
<1>4. rd \in Readers(Entries) /\ rd.got \in Entries /\ rd.after \in Nat
    BY <1>3, ReaderFields
<1> DEFINE more == [i \in DOMAIN page |-> <<page[i], GetFile(rd.b, page[i], rd.at)>>]
           op == IF LastPage(page) THEN "listed" ELSE "tree"
           after == IF LastPage(page) THEN rd.after ELSE page[Len(page)]
<1>5. more \in [1..k -> Paths \X Versions]
    <2>1. \A i \in 1..k : GetFile(rd.b, page[i], rd.at) \in Versions
        BY GetFileType
    <2> QED BY <1>2, <2>1
<1>6. more \in Seq(Paths \X Versions)
    <2> HIDE DEF more
    <2> QED BY <1>5, SeqOf
<1>7. rd.got \o more \in Entries
    <2> HIDE DEF more
    <2> QED BY <1>4, <1>6, ConcatProperties DEF Entries
<1>8. op \in Listings
    BY DEF Listings
<1>9. after \in Nat
    <2>1. CASE LastPage(page)
        BY <1>4, <2>1
    <2>2. CASE ~ LastPage(page)
        <3>1. k \in 1..k
            BY <1>2, <2>2, ReadsAssumption DEF LastPage
        <3>2. page[k] \in Nat
            BY <1>2, <3>1, ReadsAssumption DEF Paths
        <3> QED BY <1>2, <2>2, <3>2
    <2> QED BY <2>1, <2>2
<1>10. rd' = [rd EXCEPT !.got = rd.got \o more, !.op = op, !.after = after]
    BY <1>1 DEF TreePage
<1> HIDE DEF more, op, after
<1>11. rd' \in Readers(Entries) /\ rd'.op \in Listings
    BY <1>4, <1>7, <1>8, <1>9, <1>10 DEF Readers
<1> QED BY <1>11, ListingTyped

LEMMA ArchivePageTyped ==
    ASSUME ReadsTypeOK, ArchivePage
    PROVE  ReaderTyped(rd')
<1>1. PICK page : page = MaterializeTree(rd.b, rd.at, PageSize, rd.after)
    OBVIOUS
<1>2. PICK k \in Nat : /\ page \in Seq(Paths) /\ Len(page) = k /\ DOMAIN page = 1..k /\ k <= PageSize
                       /\ \A i \in 1..k : page[i] \in Paths
    BY <1>1, TreeIs
<1>3. rd.op \in Listings
    BY DEF ArchivePage, Archiving, Listings
<1>4. rd \in Readers(Entries) /\ rd.after \in Nat
    BY <1>3, ReaderFields
<1> DEFINE after == IF page = <<>> THEN rd.after ELSE page[Len(page)]
           last == LastPage(page)
<1>5. after \in Nat
    <2>1. CASE page = <<>>
        BY <1>4, <2>1
    <2>2. CASE page # <<>>
        <3>1. k \in 1..k
            BY <1>2, <2>2, EmptySeq
        <3>2. page[k] \in Nat
            BY <1>2, <3>1, ReadsAssumption DEF Paths
        <3> QED BY <1>2, <2>2, <3>2
    <2> QED BY <2>1, <2>2
<1>6. last \in BOOLEAN
    BY DEF LastPage
<1>7. rd' = [rd EXCEPT !.todo = page, !.last = last, !.after = after]
    BY <1>1 DEF ArchivePage
<1> HIDE DEF after, last
<1>8. rd' \in Readers(Entries) /\ rd'.op = rd.op
    BY <1>2, <1>4, <1>5, <1>6, <1>7 DEF Readers
<1> QED BY <1>3, <1>8, ListingTyped

LEMMA ArchivePageFailsTyped ==
    ASSUME ReadsTypeOK, ArchivePageFails
    PROVE  /\ ReaderTyped(rd') /\ url' \in Archives /\ rd.op \in {"archive", "presign", "serve"}
           /\ rd.op = "presign" => rd'.op = "idle" /\ url' = NoUrl
           /\ rd.op # "presign" => rd'.op = rd.op /\ url' = url
<1>1. rd.op \in {"archive", "presign", "serve"} /\ rd.op \in Listings
    BY DEF ArchivePageFails, Archiving, Listings
<1>2. CASE rd.op = "presign"
    <2>1. NoUrl \in Archives
        <3>1. <<>> \in Entries /\ NoSig \in Names \X Nat
            BY DEF Entries, NoSig, Names, Latest
        <3> QED BY <3>1 DEF NoUrl, Archives, Archive
    <2>2. PICK op \in ReadOps, b \in Names, at \in Nat : op = "idle" /\ b = Main /\ at = Latest
        BY DEF ReadOps, Names, Latest
    <2>3. rd' = Begin(op, b, at) /\ url' = NoUrl
        BY <1>2, <2>2 DEF ArchivePageFails, NoReader
    <2>4. ReaderTyped(Begin(op, b, at)) /\ Begin(op, b, at).op = op
        BY BeginTyped
    <2> QED BY <1>1, <1>2, <2>1, <2>2, <2>3, <2>4
<1>3. CASE rd.op # "presign"
    <2>1. PICK skipped : skipped = rd.skipped \cup {p \in Paths : p > rd.after}
        OBVIOUS
    <2>2. rd \in Readers(Entries) /\ skipped \in SUBSET Paths
        BY <1>1, <2>1, ReaderFields
    <2>3. rd' = [rd EXCEPT !.last = TRUE, !.skipped = skipped] /\ url' = url
        BY <1>3, <2>1 DEF ArchivePageFails
    <2>4. rd' \in Readers(Entries) /\ rd'.op = rd.op
        BY <2>2, <2>3 DEF Readers
    <2>5. ReaderTyped(rd')
        BY <1>1, <2>4, ListingTyped
    <2> QED BY <1>1, <1>3, <2>3, <2>4, <2>5 DEF ReadsTypeOK
<1> QED BY <1>2, <1>3

\* The sequences a job may have been started for.
LEMMA JobPointFits ==
    ASSUME ReadsTypeOK, StoreFits, NEW b \in Names, NEW at \in JobPoints(b)
    PROVE  at \in Nat /\ 0 < at /\ at <= branches[b].head
<1>1. PICK h \in Nat : h = branches[b].head
    BY BranchFields
<1>2. CASE at = branches[b].head
    <2>1. at # 0 /\ at = h
        BY <1>1, <1>2 DEF JobPoints, Latest
    <2>2. 0 < h /\ h <= h
        BY <2>1
    <2> QED BY <1>1, <2>1, <2>2
<1>3. CASE at # branches[b].head
    <2>1. PICK r \in commits : r.branch = b /\ r.seq = at
        BY <1>3 DEF JobPoints, ReadPoints
    <2>2. r.seq \in Nat /\ 1 <= r.seq
        BY RowFields DEF ReadsTypeOK
    <2>3. r.seq <= branches[r.branch].head
        BY DEF StoreFits
    <2>4. 0 < r.seq
        BY <2>2
    <2> QED BY <2>1, <2>2, <2>3, <2>4
<1> QED BY <1>2, <1>3

LEMMA ArchiveFileTyped ==
    ASSUME ReadsTypeOK, StoreFits, NEW ok \in BOOLEAN, ArchiveFile(ok)
    PROVE  ReaderTyped(rd')
<1>1. rd.op \in Listings /\ rd.todo # <<>>
    BY DEF ArchiveFile, Archiving, Listings
<1>2. /\ rd \in Readers(Entries) /\ rd.got \in Entries /\ rd.todo \in Seq(Paths)
      /\ rd.skipped \in SUBSET Paths
    BY <1>1, ReaderFields
<1>3. PICK p : p = Head(rd.todo)
    OBVIOUS
<1>4. PICK v : v = GetFile(rd.b, p, rd.at)
    OBVIOUS
<1>5. p \in Paths /\ Tail(rd.todo) \in Seq(Paths)
    BY <1>1, <1>2, <1>3, HeadTailProperties
<1>6. v \in Versions
    BY <1>4, GetFileType
<1> DEFINE got == IF ok /\ v # 0 THEN Append(rd.got, <<p, v>>) ELSE rd.got
           skipped == IF ok THEN rd.skipped ELSE rd.skipped \cup {p}
<1>7. got \in Entries
    <2>1. <<p, v>> \in Paths \X Versions
        BY <1>5, <1>6
    <2>2. Append(rd.got, <<p, v>>) \in Entries
        BY <1>2, <2>1, AppendProperties DEF Entries
    <2> QED BY <1>2, <2>2
<1>8. skipped \in SUBSET Paths
    BY <1>2, <1>5
<1>9. rd' = [rd EXCEPT !.todo = Tail(rd.todo), !.got = got, !.skipped = skipped]
    BY <1>3, <1>4 DEF ArchiveFile
<1> HIDE DEF got, skipped
<1>10. rd' \in Readers(Entries) /\ rd'.op = rd.op
    BY <1>2, <1>5, <1>7, <1>8, <1>9 DEF Readers
<1> QED BY <1>1, <1>10, ListingTyped

LEMMA ArchiveEndTyped ==
    ASSUME ReadsTypeOK, ArchiveEnd
    PROVE  ReaderTyped(rd') /\ url' \in Archives
           /\ \/ rd.op = "archive" /\ rd'.op = "listed"
              \/ rd.op = "presign" /\ rd'.op = "signed"
              \/ rd.op = "serve" /\ rd'.op = "served"
<1>1. rd.op \in {"archive", "presign", "serve"}
    BY DEF ArchiveEnd, Archiving
<1>2. rd.op \in Listings
    BY <1>1 DEF Listings
<1>3. /\ rd \in Readers(Entries) /\ rd.got \in Entries /\ rd.b \in Names /\ rd.at \in Nat
      /\ rd.skipped \in SUBSET Paths
    BY <1>2, ReaderFields
<1> DEFINE op == CASE rd.op = "archive" -> "listed" [] rd.op = "presign" -> "signed"
                   [] rd.op = "serve" -> "served"
<1>4. \/ rd.op = "archive" /\ op = "listed"
      \/ rd.op = "presign" /\ op = "signed"
      \/ rd.op = "serve" /\ op = "served"
    BY <1>1
<1>5. rd' = [rd EXCEPT !.op = op]
    BY DEF ArchiveEnd, Finished
<1>6. op \in Listings
    BY <1>4 DEF Listings
<1> HIDE DEF op
<1>7. rd' \in Readers(Entries) /\ rd'.op = op
    BY <1>3, <1>5, <1>6 DEF Readers
<1>8. ReaderTyped(rd')
    BY <1>6, <1>7, ListingTyped
<1>9. url \in Archives
    BY DEF ReadsTypeOK
<1>10. url' \in Archives
    <2>1. CASE rd.op # "presign"
        BY <1>9, <2>1 DEF ArchiveEnd
    <2>2. CASE rd.op = "presign"
        <3>1. url' = Archive(Sign(rd.b, rd.at), rd.b, url.rebased, rd.got, rd.skipped)
            BY <2>2 DEF ArchiveEnd
        <3>2. url.rebased \in BOOLEAN
            BY <1>9 DEF Archives
        <3> QED BY <1>3, <3>1, <3>2 DEF Archive, Archives, Sign
    <2> QED BY <2>1, <2>2
<1> QED BY <1>4, <1>7, <1>8, <1>10

LEMMA FinishedTyped ==
    ASSUME ReadsTypeOK, rd.op \notin Listings, NEW op \in ReadOps \ Listings
    PROVE  [rd EXCEPT !.op = op] \in Readers(Seq(Nat)) /\ [rd EXCEPT !.op = op].op = op
<1>1. rd \in Readers(Seq(Nat))
    BY ReaderFields
<1> QED BY <1>1 DEF Readers, ReadOps

LEMMA HistoryPageTyped ==
    ASSUME ReadsTypeOK, HistoryPage
    PROVE  ReaderTyped(rd') /\ rd'.op \in Logs
<1>1. PICK page : page = GetFileHistory(rd.b, rd.p, PageSize, rd.after)
    OBVIOUS
<1>0. PageSize \in Nat \ {0}
    BY ReadsAssumption
<1>2. PICK k \in Nat : page \in Seq(Nat) /\ Len(page) = k /\ DOMAIN page = 1..k
    <2>1. PICK b, p, after : b = rd.b /\ p = rd.p /\ after = rd.after
        OBVIOUS
    <2>2. page = GetFileHistory(b, p, PageSize, after)
        BY <1>1, <2>1
    <2>3. page \in Seq(Nat)
        BY ONLY ReadsTypeOK, <1>0, <2>2, HistoryIs DEF HistoryOf
    <2> QED BY <2>3, LenProperties
<1>3. rd.op = "history"
    BY DEF HistoryPage, Reading
<1>4. rd \in Readers(Seq(Nat)) /\ rd.got \in Seq(Nat) /\ rd.after \in Nat
    BY <1>3, ReaderFields DEF Listings
<1> DEFINE op == IF LastPage(page) THEN "logged" ELSE "history"
           after == IF page = <<>> THEN rd.after ELSE page[Len(page)]
<1>5. after \in Nat
    <2>1. CASE page # <<>>
        <3>1. k \in 1..k
            BY <1>2, <2>1, EmptySeq
        <3>2. page[k] \in Nat
            BY <1>2, <3>1, ElementOfSeq
        <3> QED BY <1>2, <2>1, <3>2
    <2> QED BY <1>4, <2>1
<1>6. op \in Logs
    BY DEF Logs
<1>7. rd.got \o page \in Seq(Nat)
    BY <1>2, <1>4, ConcatProperties
<1>8. rd' = [rd EXCEPT !.got = rd.got \o page, !.op = op, !.after = after]
    BY <1>1 DEF HistoryPage
<1> HIDE DEF op, after
<1>9. rd' \in Readers(Seq(Nat)) /\ rd'.op \in Logs
    BY <1>4, <1>5, <1>6, <1>7, <1>8 DEF Readers
<1> QED BY <1>9, OpsApart, OtherTyped

LEMMA WindowStartIs ==
    ASSUME NEW to \in Int
    PROVE  /\ WindowStart(to) \in Nat /\ 1 <= WindowStart(to)
           /\ WindowStart(to) = 1 \/ WindowStart(to) = to - PageSize + 1
<1>1. PageSize \in Nat
    BY ReadsAssumption
<1>2. CASE to - PageSize + 1 < 1
    BY <1>1, <1>2 DEF WindowStart
<1>3. CASE ~ (to - PageSize + 1 < 1)
    <2>1. WindowStart(to) = to - PageSize + 1
        BY <1>3 DEF WindowStart
    <2> QED BY <1>1, <1>3, <2>1
<1> QED BY <1>2, <1>3

\* A log window: the rows from its start on.
LEMMA WindowIs ==
    ASSUME ReadsTypeOK, rd.op \in {"log first", "log"}, NEW to \in Int, rd' = LogWindow(rd, to)
    PROVE  /\ ReaderTyped(rd') /\ rd'.op \in Logs
           /\ \E w \in Nat, rows \in Seq(Nat) :
                /\ w = WindowStart(to) /\ 1 <= w /\ (w = 1 \/ w = to - PageSize + 1)
                /\ rows = chainToLogRows(GetChain(w, to), rd.b)
                /\ rd' = [rd EXCEPT !.got = rd.got \o rows, !.after = w,
                                    !.op = IF w > 1 THEN "log" ELSE "logged"]
<1>1. PICK w : w = WindowStart(to)
    OBVIOUS
<1>2. w \in Nat /\ 1 <= w /\ (w = 1 \/ w = to - PageSize + 1)
    BY <1>1, WindowStartIs
<1>3. PICK rows : rows = chainToLogRows(GetChain(w, to), rd.b)
    OBVIOUS
<1>4. rows \in Seq(Nat)
    BY <1>3, LogRowsAre
<1>5. rd \in Readers(Seq(Nat)) /\ rd.got \in Seq(Nat)
    BY ReaderFields DEF Listings
<1>6. rd.got \o rows \in Seq(Nat)
    BY <1>4, <1>5, ConcatProperties
<1> DEFINE op == IF w > 1 THEN "log" ELSE "logged"
<1>7. op \in Logs
    BY DEF Logs
<1>8. rd' = [rd EXCEPT !.got = rd.got \o rows, !.after = w, !.op = op]
    BY <1>1, <1>3 DEF LogWindow
<1>9. rd' \in Readers(Seq(Nat)) /\ rd'.op \in Logs
    <2> HIDE DEF op
    <2> QED BY <1>2, <1>5, <1>6, <1>7, <1>8 DEF Readers
<1>10. ReaderTyped(rd')
    BY <1>9, OpsApart, OtherTyped
<1> QED BY <1>1, <1>2, <1>3, <1>4, <1>8, <1>9, <1>10

LEMMA WalkTyped ==
    ASSUME ReadsTypeOK, WalkCommit
    PROVE  ReaderTyped(rd') /\ rd'.op \in Logs
<1>1. rd.op = "walk"
    BY DEF WalkCommit, Reading
<1>2. rd \in Readers(Seq(Nat)) /\ rd.got \in Seq(Nat) /\ rd.after \in Nat /\ rd.at \in Nat
    BY <1>1, ReaderFields DEF Listings
<1> DEFINE found == \E r \in GetCommit(rd.after) : r.branch = rd.b
           got == IF found THEN Append(rd.got, rd.after) ELSE rd.got
<1>3. got \in Seq(Nat)
    <2>1. Append(rd.got, rd.after) \in Seq(Nat)
        BY <1>2, AppendProperties
    <2> HIDE DEF found
    <2> QED BY <1>2, <2>1
<1>4. CASE rd.after > rd.at /\ Len(rd.got) < HistLimit
    <2>1. rd' = [rd EXCEPT !.after = rd.after - 1, !.got = got]
        BY <1>4 DEF WalkCommit
    <2>2. rd.after - 1 \in Nat
        BY <1>2, <1>4
    <2> HIDE DEF got
    <2>3. rd' \in Readers(Seq(Nat)) /\ rd'.op = rd.op
        BY <1>2, <1>3, <2>1, <2>2 DEF Readers
    <2> QED BY <1>1, <2>3, OtherTyped DEF Listings, Logs
<1>5. CASE ~ (rd.after > rd.at /\ Len(rd.got) < HistLimit)
    <2>1. rd' = [rd EXCEPT !.op = "logged"]
        BY <1>5 DEF WalkCommit, Finished
    <2>2. rd' \in Readers(Seq(Nat)) /\ rd'.op = "logged"
        BY <1>1, <2>1, FinishedTyped DEF ReadOps, Listings, Logs
    <2> QED BY <2>2, OtherTyped DEF Listings, Logs
<1> QED BY <1>4, <1>5

LEMMA StartTyped ==
    ASSUME NEW op \in Logs \cup FilePages, NEW b \in Names, NEW at \in Nat,
           NEW p \in Nat, NEW after \in Nat, NEW due \in SUBSET Nat, NEW got \in Seq(Nat)
    PROVE  ReaderTyped(Start(op, b, at, p, after, due, got))
<1>1. <<>> \in Seq(Paths) /\ {} \in SUBSET Paths
    OBVIOUS
<1>2. op \in Listings \cup Logs \cup FilePages \cup {"idle"}
    OBVIOUS
<1>3. PICK x : x = Start(op, b, at, p, after, due, got)
    OBVIOUS
<1>4. x \in Readers(Seq(Nat))
    BY <1>1, <1>2, <1>3 DEF Start, Readers
<1>5. op \notin Listings
    BY OpsApart
<1>6. x.op = op
    BY <1>3 DEF Start
<1>7. ReaderTyped(x)
    BY <1>4, <1>5, <1>6, OtherTyped
<1> QED BY <1>3, <1>7

LEMMA StartFields ==
    ASSUME NEW op, NEW b, NEW at, NEW p, NEW after, NEW due, NEW got, NEW x,
           x = Start(op, b, at, p, after, due, got)
    PROVE  /\ x.op = op /\ x.b = b /\ x.at = at /\ x.p = p /\ x.after = after
           /\ x.due = due /\ x.got = got /\ x.todo = <<>> /\ x.last = FALSE /\ x.touched = {}
           /\ x.skipped = {}
BY DEF Start

-----------------------------------------------------------------------------
(* Pages that belong together.                                             *)

LEMMA StoreKept ==
    ASSUME StoreFits, UNCHANGED <<commits, branches>>
    PROVE  StoreFits'
<1>1. \A c : RowsBefore(c)' = RowsBefore(c)
    BY DEF RowsBefore, Visible
<1>2. \A c : VersionIn(RowsBefore(c))' = VersionIn(RowsBefore(c))
    <2> SUFFICES ASSUME NEW c PROVE VersionIn(RowsBefore(c))' = VersionIn(RowsBefore(c))
        OBVIOUS
    <2>1. VersionIn(RowsBefore(c))' = VersionIn(RowsBefore(c)')
        BY DEF VersionIn, Newest
    <2> QED BY <1>1, <2>1
<1> QED BY <1>2 DEF StoreFits

LEMMA GetFileKept ==
    ASSUME UNCHANGED <<commits, branches>>, NEW b, NEW p, NEW at
    PROVE  GetFile(b, p, at)' = GetFile(b, p, at) /\ Visible(b)' = Visible(b)
<1>1. Visible(b)' = Visible(b)
    BY DEF Visible
<1>2. PICK R : R = {r \in Visible(b) : r.path = p /\ (at = Latest \/ r.seq <= at)}
    OBVIOUS
<1>3. R = {r \in Visible(b)' : r.path = p /\ (at = Latest \/ r.seq <= at)}
    BY <1>1, <1>2
<1>4. GetFile(b, p, at) = VersionIn(R)
    BY <1>2 DEF GetFile
<1>5. GetFile(b, p, at)' = VersionIn(R)
    BY <1>3 DEF GetFile, VersionIn, Newest
<1> QED BY <1>1, <1>4, <1>5

PagesSound == PageFits /\ HistoryShowsFile /\ CommitDiffIsCommit /\ ContextDiffCoversCommits

LEMMA DiffsStep ==
    ASSUME ReadsTypeOK, StoreFits, UNCHANGED <<commits, branches>>, ReaderTyped(rd'),
           url' \in Archives, PagesSound'
    PROVE  DiffsSound'
<1>1. StoreFits'
    BY StoreKept
<1>2. ReadsTypeOK'
    BY DEF ReadsTypeOK, ReaderTyped
<1> QED BY <1>1, <1>2 DEF DiffsSound, PagesSound

\* A reader that shows no page.
LEMMA OtherDiffs ==
    ASSUME ReadsTypeOK, StoreFits, UNCHANGED <<commits, branches>>, ReaderTyped(rd'),
           url' \in Archives, rd'.op \notin FilePages
    PROVE  DiffsSound'
<1>1. PagesSound'
    BY DEF PagesSound, PageFits, HistoryShowsFile, CommitDiffIsCommit, ContextDiffCoversCommits, FilePages
<1> QED BY <1>1, DiffsStep

LEMMA FileDiffs ==
    ASSUME ReadsTypeOK, StoreFits, NEW b \in Names, NEW p \in Paths, NEW at \in ReadPoints(b),
           handleFile(b, p, at)
    PROVE  DiffsSound'
<1>1. at \in Nat
    BY RowFields DEF ReadPoints, Latest, ReadsTypeOK
<1>2. PICK op : op = "file"
    OBVIOUS
<1>3. p \in Nat /\ op \in Logs \cup FilePages
    BY <1>2, ReadsAssumption DEF Paths, FilePages
<1>4. 0 \in Nat /\ {} \in SUBSET Nat /\ <<>> \in Seq(Nat)
    OBVIOUS
<1>5. rd' = Start(op, b, at, p, 0, {}, <<>>)
    BY <1>2 DEF handleFile
<1>6. ReaderTyped(rd') /\ rd'.op = op
    <2>1. ReaderTyped(Start(op, b, at, p, 0, {}, <<>>))
        BY <1>1, <1>3, <1>4, StartTyped
    <2>2. rd'.op = op
        BY <1>5 DEF Start
    <2> QED BY <1>5, <2>1, <2>2
<1>7. PagesSound'
    BY <1>2, <1>5, <1>6 DEF PagesSound, PageFits, HistoryShowsFile, CommitDiffIsCommit,
                            ContextDiffCoversCommits
<1>8. UNCHANGED <<commits, branches>> /\ url' \in Archives
    BY DEF handleFile, OnlyReader, ReadsTypeOK
<1> QED BY <1>5, <1>6, <1>7, <1>8, DiffsStep

LEMMA FileContentDiffs ==
    ASSUME ReadsTypeOK, StoreFits, FilePageContent
    PROVE  DiffsSound'
<1>1. rd.op = "file"
    BY DEF FilePageContent, Reading
<1>2. PICK b, p, at : b = rd.b /\ p = rd.p /\ at = rd.at
    OBVIOUS
<1>3. PICK v : v = GetFile(b, p, at)
    OBVIOUS
<1>4. v \in Nat
    BY <1>3, GetFileType
<1>5. rd' = [rd EXCEPT !.op = "file read", !.due = {v}]
    BY <1>2, <1>3 DEF FilePageContent
<1>6. rd \in Readers(Seq(Nat))
    BY <1>1, ReaderFields DEF Listings
<1>7. rd' \in Readers(Seq(Nat)) /\ rd'.op = "file read" /\ rd'.b = b /\ rd'.p = p /\ rd'.due = {v}
    BY <1>2, <1>4, <1>5, <1>6 DEF Readers, FilePages
<1>8. ReaderTyped(rd')
    BY <1>7, OtherTyped DEF Listings
<1>9. UNCHANGED <<commits, branches>> /\ url' \in Archives
    BY DEF FilePageContent, OnlyReader, ReadsTypeOK
<1>10. v # 0 => \E r \in Visible(b) : r.path = p /\ r.ver = v
    BY <1>3, GetFileRow
<1>11. Visible(b)' = Visible(b)
    BY <1>9, GetFileKept
<1>12. \A w \in rd'.due \ {0} : \E r \in Visible(b)' : r.path = p /\ r.ver = w
    BY <1>7, <1>10, <1>11
<1>14. PagesSound'
    <2>1. \A w \in rd'.due \ {0} : \E r \in {r \in commits' : r.branch = rd'.b
                \/ (r.branch = Main /\ r.seq <= branches'[rd'.b].base)} : r.path = rd'.p /\ r.ver = w
        BY <1>7, <1>12 DEF Visible
    <2> QED BY <1>7, <2>1 DEF PagesSound, PageFits, Visible, HistoryShowsFile, CommitDiffIsCommit,
               ContextDiffCoversCommits
<1> QED BY <1>8, <1>9, <1>14, DiffsStep

LEMMA FileHistoryDiffs ==
    ASSUME ReadsTypeOK, StoreFits, PageFits, FilePageHistory
    PROVE  DiffsSound'
<1>1. rd.op = "file read"
    BY DEF FilePageHistory, Reading
<1>2. PICK b, p : b = rd.b /\ p = rd.p
    OBVIOUS
<1>3. PICK page : page = GetFileHistory(b, p, HistLimit, Latest)
    OBVIOUS
<1>4. HistLimit \in Nat \ {0}
    BY ReadsAssumption
<1>5. page \in Seq(Nat)
    BY ONLY ReadsTypeOK, <1>3, <1>4, HistoryIs DEF HistoryOf
<1>6. \A r \in Visible(b) : r.path = p /\ (Latest = Latest \/ r.seq < Latest) =>
                  \/ \E i \in DOMAIN page : page[i] = r.seq
                  \/ Len(page) = HistLimit /\ r.seq < page[Len(page)]
    BY ONLY ReadsTypeOK, <1>3, <1>4, HistoryIs DEF HistoryOf
<1>7. rd' = [rd EXCEPT !.op = "file shown", !.got = page]
    BY <1>2, <1>3 DEF FilePageHistory
<1>8. rd \in Readers(Seq(Nat))
    BY <1>1, ReaderFields DEF Listings
<1>9. /\ rd' \in Readers(Seq(Nat)) /\ rd'.op = "file shown" /\ rd'.b = b /\ rd'.p = p
      /\ rd'.due = rd.due /\ rd'.got = page
    BY <1>2, <1>5, <1>7, <1>8 DEF Readers, FilePages
<1>10. ReaderTyped(rd')
    BY <1>9, OtherTyped DEF Listings
<1>11. UNCHANGED <<commits, branches>> /\ url' \in Archives
    BY DEF FilePageHistory, OnlyReader, ReadsTypeOK
<1>12. \A v \in rd.due \ {0} : \E r \in Visible(b) : r.path = p /\ r.ver = v
    BY <1>1, <1>2 DEF PageFits
<1>13. PageFits'
    <2>1. \A w \in rd'.due \ {0} : \E r \in {r \in commits' : r.branch = rd'.b
                \/ (r.branch = Main /\ r.seq <= branches'[rd'.b].base)} : r.path = rd'.p /\ r.ver = w
        BY <1>9, <1>11, <1>12 DEF Visible
    <2> QED BY <1>9, <2>1 DEF PageFits, Visible
<1>14. HistoryShowsFile'
    <2> SUFFICES ASSUME NEW v \in rd.due \ {0}
                 PROVE  Len(page) = HistLimit \/ \E r \in commits : r.seq \in Range(page) /\ r.ver = v
        BY <1>9, <1>11 DEF HistoryShowsFile
    <2>1. PICK r \in Visible(b) : r.path = p /\ r.ver = v
        BY <1>12
    <2>2. r \in commits
        BY <2>1 DEF Visible
    <2>3. (\E i \in DOMAIN page : page[i] = r.seq) \/ Len(page) = HistLimit
        BY <1>6, <2>1
    <2> QED BY <2>1, <2>2, <2>3 DEF Range
<1>15. PagesSound'
    BY <1>9, <1>13, <1>14 DEF PagesSound, CommitDiffIsCommit, ContextDiffCoversCommits
<1> QED BY <1>10, <1>11, <1>15, DiffsStep

LEMMA DiffBeginDiffs ==
    ASSUME ReadsTypeOK, StoreFits, NEW c \in commits, handleCommitFileDiffPartial(c)
    PROVE  DiffsSound'
<1>1. c \in ReadRows
    BY DEF ReadsTypeOK
<1>2. c.branch \in Names /\ c.seq \in Nat /\ c.path \in Nat /\ c.ver \in Nat
    BY <1>1, RowFields
<1>3. GetFile(c.branch, c.path, c.seq) = c.ver
    BY GetFileAt
<1>4. PICK op, b, at, p, got : /\ op = "diff" /\ b = c.branch /\ at = c.seq /\ p = c.path
                               /\ got = <<c.ver>>
    OBVIOUS
<1>5. rd' = Start(op, b, at, p, 0, {}, got)
    BY <1>3, <1>4 DEF handleCommitFileDiffPartial
<1>6. op \in Logs \cup FilePages /\ b \in Names /\ at \in Nat /\ p \in Nat /\ got \in Seq(Nat)
    BY <1>2, <1>4 DEF FilePages
<1>7. ReaderTyped(rd')
    <2>1. 0 \in Nat /\ {} \in SUBSET Nat
        OBVIOUS
    <2>2. ReaderTyped(Start(op, b, at, p, 0, {}, got))
        BY <1>6, <2>1, StartTyped
    <2> QED BY <1>5, <2>2
<1>8. rd'.op = op /\ rd'.b = b /\ rd'.at = at /\ rd'.p = p /\ rd'.got = got
    BY <1>5 DEF Start
<1>9. UNCHANGED <<commits, branches>> /\ url' \in Archives
    BY DEF handleCommitFileDiffPartial, OnlyReader, ReadsTypeOK
<1>10. \E x \in commits' : x.seq = rd'.at /\ x.branch = rd'.b /\ x.path = rd'.p /\ rd'.got = <<x.ver>>
    BY <1>4, <1>8, <1>9
<1>11. PagesSound'
    BY <1>4, <1>8, <1>10 DEF PagesSound, PageFits, HistoryShowsFile, CommitDiffIsCommit,
                              ContextDiffCoversCommits
<1> QED BY <1>7, <1>9, <1>11, DiffsStep

\* The file just before a commit is what the commit replaced.
LEMMA DiffPreviousDiffs ==
    ASSUME ReadsTypeOK, StoreFits, PageFits, DiffPrevious
    PROVE  DiffsSound'
<1>1. rd.op = "diff"
    BY DEF DiffPrevious, Reading
<1>2. PICK c \in commits : /\ c.seq = rd.at /\ c.branch = rd.b /\ c.path = rd.p
                           /\ rd.got = <<c.ver>>
    BY <1>1 DEF PageFits
<1>3. c \in ReadRows
    BY DEF ReadsTypeOK
<1>4. c.seq \in Nat /\ 1 <= c.seq /\ c.ver \in Nat
    BY <1>3, RowFields
<1>5. PICK was : was = IF rd.at = 1 THEN 0 ELSE GetFile(rd.b, rd.p, rd.at - 1)
    OBVIOUS
<1>6. was = VersionIn(RowsBefore(c))
    <2>1. CASE rd.at = 1
        <3>1. \A r \in Visible(c.branch) : r.seq \in Nat /\ 1 <= r.seq
            BY RowFields DEF Visible, ReadsTypeOK
        <3>2. RowsBefore(c) = {}
            BY <1>2, <1>4, <2>1, <3>1 DEF RowsBefore
        <3> QED BY <1>5, <2>1, <3>2 DEF VersionIn
    <2>2. CASE rd.at # 1
        <3>1. PICK b, p, at : b = rd.b /\ p = rd.p /\ at = rd.at - 1
            OBVIOUS
        <3>2. at \in Nat /\ at # Latest /\ at = c.seq - 1
            BY <1>2, <1>4, <2>2, <3>1 DEF Latest
        <3>3. \A r \in Visible(b) : r.seq \in Nat
            BY RowFields DEF Visible, ReadsTypeOK
        <3>4. \A r \in Visible(b) : (at = Latest \/ r.seq <= at) <=> r.seq < c.seq
            BY <1>4, <3>2, <3>3
        <3>5. RowsBefore(c) = {r \in Visible(b) : r.path = p /\ (at = Latest \/ r.seq <= at)}
            BY <1>2, <3>1, <3>4 DEF RowsBefore
        <3>6. GetFile(b, p, at) = VersionIn(RowsBefore(c))
            BY <3>5 DEF GetFile
        <3> QED BY <1>5, <2>2, <3>1, <3>6
    <2> QED BY <2>1, <2>2
<1>7. was \in Nat
    <2>1. GetFile(rd.b, rd.p, rd.at - 1) \in Nat
        BY GetFileType
    <2> QED BY <1>5, <2>1
<1>8. PICK got : got = <<was, c.ver>>
    OBVIOUS
<1>9. got \in Seq(Nat)
    BY <1>4, <1>7, <1>8
<1>10. rd' = [rd EXCEPT !.op = "diffed", !.got = got]
    <2>1. rd.got[1] = c.ver
        BY <1>2
    <2> QED BY <1>5, <1>8, <2>1 DEF DiffPrevious, Finished
<1>11. rd \in Readers(Seq(Nat))
    BY <1>1, ReaderFields DEF Listings
<1>12. rd' \in Readers(Seq(Nat)) /\ rd'.op = "diffed" /\ rd'.at = rd.at /\ rd'.got = got
    BY <1>9, <1>10, <1>11 DEF Readers, FilePages
<1>13. ReaderTyped(rd')
    BY <1>12, OtherTyped DEF Listings
<1>14. UNCHANGED <<commits, branches>> /\ url' \in Archives
    BY DEF DiffPrevious, OnlyReader, ReadsTypeOK
<1>15. ASSUME NEW x \in commits, x.seq = rd.at PROVE x.replay \/ got = <<x.was, x.ver>>
    <2>1. x = c
        BY <1>2, <1>15 DEF StoreFits
    <2>2. c.replay \/ c.was = VersionIn(RowsBefore(c))
        BY DEF StoreFits
    <2> QED BY <1>6, <1>8, <2>1, <2>2
<1>16. CommitDiffIsCommit'
    BY <1>12, <1>14, <1>15 DEF CommitDiffIsCommit, GetCommit
<1>17. PagesSound'
    BY <1>12, <1>16 DEF PagesSound, PageFits, HistoryShowsFile, ContextDiffCoversCommits
<1> QED BY <1>13, <1>14, <1>17, DiffsStep

LEMMA AssembleDiffs ==
    ASSUME ReadsTypeOK, StoreFits, AssembleAgentContext
    PROVE  DiffsSound'
<1>1. PICK op, b, at, after : /\ op = "context" /\ b = "topic" /\ at = branches["topic"].base
                              /\ after = branches["topic"].head
    OBVIOUS
<1>2. rd' = Start(op, b, at, 0, after, {}, <<>>)
    BY <1>1 DEF AssembleAgentContext
<1>3. op \in Logs \cup FilePages /\ b \in Names /\ at \in Nat /\ after \in Nat
    BY <1>1, BranchFields DEF FilePages, Names
<1>4. ReaderTyped(rd')
    <2>1. 0 \in Nat /\ {} \in SUBSET Nat /\ <<>> \in Seq(Nat)
        OBVIOUS
    <2>2. ReaderTyped(Start(op, b, at, 0, after, {}, <<>>))
        BY <1>3, <2>1, StartTyped
    <2> QED BY <1>2, <2>2
<1>5. rd'.op = op /\ rd'.b = b /\ rd'.after = after
    BY <1>2 DEF Start
<1>6. UNCHANGED <<commits, branches>> /\ url' \in Archives
    BY DEF AssembleAgentContext, OnlyReader, ReadsTypeOK
<1>7. rd'.b = "topic" /\ rd'.after <= branches'["topic"].head
    BY <1>1, <1>3, <1>5, <1>6
<1>8. PagesSound'
    BY <1>1, <1>5, <1>7 DEF PagesSound, PageFits, HistoryShowsFile, CommitDiffIsCommit,
                             ContextDiffCoversCommits
<1> QED BY <1>4, <1>6, <1>8, DiffsStep

LEMMA GetDiffDiffs ==
    ASSUME ReadsTypeOK, StoreFits, PageFits, GetDiff
    PROVE  DiffsSound'
<1>1. rd.op = "context"
    BY DEF GetDiff, Reading
<1>2. rd.b = "topic" /\ rd.after <= branches["topic"].head
    BY <1>1 DEF PageFits
<1>3. PICK base \in Nat : base = branches["topic"].base
    BY BranchFields DEF Names
<1>4. rd' = [rd EXCEPT !.op = "context base", !.p = base]
    BY <1>2, <1>3 DEF GetDiff
<1>5. rd \in Readers(Seq(Nat))
    BY <1>1, ReaderFields DEF Listings
<1>6. /\ rd' \in Readers(Seq(Nat)) /\ rd'.op = "context base" /\ rd'.b = rd.b /\ rd'.after = rd.after
      /\ rd'.p = base
    BY <1>3, <1>4, <1>5 DEF Readers, FilePages
<1>7. ReaderTyped(rd')
    BY <1>6, OtherTyped DEF Listings
<1>8. UNCHANGED <<commits, branches>> /\ url' \in Archives
    BY DEF GetDiff, OnlyReader, ReadsTypeOK
<1>9. /\ rd'.b = "topic" /\ rd'.after <= branches'["topic"].head
      /\ rd'.p <= branches'["topic"].base
    <2>1. base <= branches'["topic"].base
        BY <1>3, <1>8
    <2>2. rd'.after <= branches'["topic"].head
        BY <1>2, <1>6, <1>8
    <2> QED BY <1>2, <1>6, <2>1, <2>2
<1>10. PagesSound'
    BY <1>6, <1>9 DEF PagesSound, PageFits, HistoryShowsFile, CommitDiffIsCommit,
                      ContextDiffCoversCommits
<1> QED BY <1>7, <1>8, <1>10, DiffsStep

\* The changes since a base the branch has had cover all the commits of the branch.
LEMMA DiffChangesDiffs ==
    ASSUME ReadsTypeOK, StoreFits, PageFits, DiffChanges
    PROVE  DiffsSound'
<1>1. rd.op = "context base"
    BY DEF DiffChanges, Reading
<1>2. rd.b = "topic" /\ rd.after <= branches["topic"].head /\ rd.p <= branches["topic"].base
    BY <1>1 DEF PageFits
<1>3. rd.p \in Nat /\ branches["topic"].base \in Nat
    BY ReaderFields, BranchFields DEF Names
<1>4. PICK due : due = latestChanges(rd.b, rd.p)
    OBVIOUS
<1>5. due \in SUBSET Nat
    <2>1. \A r \in commits : r.path \in Nat
        BY RowFields DEF ReadsTypeOK
    <2> QED BY <1>4, <2>1 DEF latestChanges
<1>6. \A r \in commits : r.branch = "topic" => r.path \in due
    <2> SUFFICES ASSUME NEW r \in commits, r.branch = "topic" PROVE r.path \in due
        OBVIOUS
    <2>1. PICK q \in commits : /\ q.branch = "topic" /\ q.path = r.path
                                /\ branches["topic"].base < q.seq
        BY DEF StoreFits
    <2>2. q.seq \in Nat
        BY <2>1, RowFields DEF ReadsTypeOK
    <2>3. q.seq > rd.p
        BY <1>2, <1>3, <2>1, <2>2
    <2> QED BY <1>2, <1>4, <2>1, <2>3 DEF latestChanges
<1>7. rd' = [rd EXCEPT !.op = "context diff", !.due = due]
    BY <1>4 DEF DiffChanges
<1>8. rd \in Readers(Seq(Nat))
    BY <1>1, ReaderFields DEF Listings
<1>9. /\ rd' \in Readers(Seq(Nat)) /\ rd'.op = "context diff" /\ rd'.b = rd.b /\ rd'.after = rd.after
      /\ rd'.due = due
    BY <1>5, <1>7, <1>8 DEF Readers, FilePages
<1>10. ReaderTyped(rd')
    BY <1>9, OtherTyped DEF Listings
<1>11. UNCHANGED <<commits, branches>> /\ url' \in Archives
    BY DEF DiffChanges, OnlyReader, ReadsTypeOK
<1>12. /\ rd'.b = "topic" /\ rd'.after <= branches'["topic"].head
       /\ \A r \in commits' : r.branch = "topic" => r.path \in rd'.due
    BY <1>2, <1>6, <1>9, <1>11
<1>13. PagesSound'
    BY <1>9, <1>12 DEF PagesSound, PageFits, HistoryShowsFile, CommitDiffIsCommit,
                       ContextDiffCoversCommits
<1> QED BY <1>10, <1>11, <1>13, DiffsStep

LEMMA ContextCommitsDiffs ==
    ASSUME ReadsTypeOK, StoreFits, PageFits, ContextCommits
    PROVE  DiffsSound'
<1>1. rd.op = "context diff"
    BY DEF ContextCommits, Reading
<1>2. /\ rd.b = "topic"
      /\ \A r \in commits : r.branch = "topic" /\ rd.at < r.seq /\ r.seq <= rd.after => r.path \in rd.due
    BY <1>1 DEF PageFits
<1>3. rd.at \in Nat /\ rd.after \in Nat
    BY ReaderFields
<1>4. PICK S : S = {r.path : r \in RecentCommits(rd.at + 1, rd.after)}
    OBVIOUS
<1>5. ASSUME NEW r \in RecentCommits(rd.at + 1, rd.after)
      PROVE  r \in commits /\ r.path \in rd.due
    <2>1. PICK n \in Nat : n = MaxCommitRange
        BY ReadsAssumption
    <2>2. PICK at \in Nat, to \in Nat : at = rd.at /\ to = rd.after
        BY <1>3
    <2>3. PICK from : from = IF to - (at + 1) + 1 > n THEN to - n + 1 ELSE at + 1
        OBVIOUS
    <2>4. r \in commits /\ from <= r.seq /\ r.seq <= to /\ r.branch = "topic"
        BY <1>2, <2>1, <2>2, <2>3 DEF RecentCommits, GetChain
    <2>5. r.seq \in Nat
        BY <2>4, RowFields DEF ReadsTypeOK
    <2>6. from \in Int /\ at < from
        BY ONLY <2>3, n \in Nat, at \in Nat, to \in Nat
    <2>7. at < r.seq
        BY <2>4, <2>5, <2>6
    <2> QED BY <1>2, <2>2, <2>4, <2>7
<1>6. S \subseteq rd.due
    BY <1>4, <1>5
<1>7. S \in SUBSET (1..NPaths) /\ NPaths \in Nat
    <2>1. \A r \in commits : r.path \in Paths
        BY RowFields DEF ReadsTypeOK
    <2> QED BY <1>4, <1>5, <2>1, ReadsAssumption DEF Paths
<1>8. PICK got : got = Ascending(S)
    OBVIOUS
<1>9. \E n \in Nat : /\ Ascending(S) \in [1..n -> S] /\ Rising(Ascending(S))
                     /\ \A x \in S : \E i \in 1..n : Ascending(S)[i] = x
    BY <1>7, AscendingIs
<1>10. PICK n \in Nat : got \in [1..n -> S]
    BY <1>8, <1>9
<1>11. \A i \in DOMAIN got : got[i] \in S
    BY <1>10
<1>12. got \in Seq(Nat)
    <2>1. got \in [1..n -> Nat]
        <3>1. S \subseteq Nat
            BY <1>7
        <3> QED BY <1>10, <1>11, <3>1
    <2> QED BY <2>1, SeqOf
<1>13. Range(got) \subseteq rd.due
    BY <1>6, <1>11 DEF Range
<1>14. rd' = [rd EXCEPT !.op = "context read", !.got = got]
    BY <1>4, <1>8 DEF ContextCommits, Finished
<1>15. rd \in Readers(Seq(Nat))
    BY <1>1, ReaderFields DEF Listings
<1>16. rd' \in Readers(Seq(Nat)) /\ rd'.op = "context read" /\ rd'.due = rd.due /\ rd'.got = got
    BY <1>12, <1>14, <1>15 DEF Readers, FilePages
<1>17. ReaderTyped(rd')
    BY <1>16, OtherTyped DEF Listings
<1>18. UNCHANGED <<commits, branches>> /\ url' \in Archives
    BY DEF ContextCommits, OnlyReader, ReadsTypeOK
<1>19. Range(rd'.got) \subseteq rd'.due
    BY <1>13, <1>16
<1>20. PagesSound'
    <2>1. ContextDiffCoversCommits'
        BY <1>19 DEF ContextDiffCoversCommits, Range
    <2> QED BY <1>16, <2>1 DEF PagesSound, PageFits, HistoryShowsFile, CommitDiffIsCommit
<1> QED BY <1>17, <1>18, <1>20, DiffsStep

\* What a reader notes of a commit or a rebase.
LEMMA NotesReader ==
    ASSUME ReadsTypeOK, ReaderNotes
    PROVE  /\ ReaderTyped(rd') /\ rd'.op = rd.op /\ ~ Done
           /\ ~ Listing => rd' = rd
           /\ Listing => \E T \in SUBSET Paths :
                 /\ rd' = [rd EXCEPT !.touched = T] /\ rd.touched \subseteq T
                 /\ \A b, at : b = rd.b /\ at = rd.at =>
                        \A p \in Paths \ T : GetFile(b, p, at)' = GetFile(b, p, at)
<1>1. ~ Done
    BY DEF ReaderNotes
<1>2. CASE ~ Listing
    <2>1. rd' = rd
        BY <1>2 DEF ReaderNotes
    <2>2. ReaderTyped(rd)
        BY DEF ReadsTypeOK, ReaderTyped
    <2> QED BY <1>1, <1>2, <2>1, <2>2
<1>3. CASE Listing
    <2>1. PICK T : T = rd.touched \cup Moved
        OBVIOUS
    <2>2. T \in SUBSET Paths /\ rd.touched \subseteq T
        BY <2>1, ReaderFields DEF Moved
    <2>3. rd' = [rd EXCEPT !.touched = T]
        BY <1>3, <2>1 DEF ReaderNotes
    <2>4. rd.op \in Listings
        BY <1>3 DEF Listing, Listings
    <2>5. rd \in Readers(Entries)
        BY <2>4, ReaderFields
    <2>6. rd' \in Readers(Entries) /\ rd'.op = rd.op
        BY <2>2, <2>3, <2>5 DEF Readers
    <2>7. ReaderTyped(rd')
        BY <2>4, <2>6, ListingTyped
    <2>8. ASSUME NEW b, NEW at, b = rd.b, at = rd.at, NEW p \in Paths \ T
          PROVE  GetFile(b, p, at)' = GetFile(b, p, at)
        <3>1. p \notin Moved
            BY <2>1
        <3> QED BY <2>8, <3>1 DEF Moved
    <2> QED BY <1>1, <1>3, <2>2, <2>3, <2>6, <2>7, <2>8
<1> QED BY <1>2, <1>3

LEMMA WriteDiffs ==
    ASSUME ReadsTypeOK, StoreFits, PageFits, StoreGrows, StoreTyped, StoreFits', ReaderNotes,
           url' \in Archives
    PROVE  DiffsSound'
<1>1. ReaderTyped(rd') /\ rd'.op = rd.op /\ ~ Done
    BY NotesReader
<1>2. ReadsTypeOK'
    BY <1>1 DEF StoreTyped, ReadsTypeOK, ReaderTyped
<1>3. CASE rd.op \notin FilePages
    <2>1. PagesSound'
        BY <1>1, <1>3 DEF PagesSound, PageFits, HistoryShowsFile, CommitDiffIsCommit,
                          ContextDiffCoversCommits, FilePages
    <2> QED BY <1>2, <2>1 DEF DiffsSound, PagesSound
<1>4. CASE rd.op \in FilePages
    <2>1. ~ Listing
        BY <1>4 DEF Listing, FilePages
    <2>2. rd' = rd
        BY <2>1, NotesReader
    <2>3. rd.op \notin {"file shown", "diffed", "context read"}
        BY <1>1 DEF Done
    <2>4. PICK b \in Names : b = rd.b
        BY ReaderFields
    <2>5. \A r \in Visible(b) : r \in Visible(b)'
        BY VisibleGrows
    <2>6. "topic" \in Names
        BY DEF Names
    <2>7. /\ branches["topic"].head \in Nat /\ branches'["topic"].head \in Nat
          /\ branches["topic"].base \in Nat /\ branches'["topic"].base \in Nat
        BY <2>6, BranchFields DEF StoreTyped
    <2>8. /\ branches["topic"].head <= branches'["topic"].head
          /\ branches["topic"].base <= branches'["topic"].base
        BY <2>6 DEF StoreGrows
    <2>9. rd.after \in Nat /\ rd.p \in Nat
        BY ReaderFields
    <2>10. rd.op = "file read" =>
              \A v \in rd'.due \ {0} : \E r \in {r \in commits' : r.branch = rd'.b
                \/ (r.branch = Main /\ r.seq <= branches'[rd'.b].base)} : r.path = rd'.p /\ r.ver = v
        <3>1. rd.op = "file read" =>
                 \A v \in rd.due \ {0} : \E r \in Visible(b) : r.path = rd.p /\ r.ver = v
            BY <2>4 DEF PageFits
        <3>2. rd.op = "file read" =>
                 \A v \in rd.due \ {0} : \E r \in Visible(b)' : r.path = rd.p /\ r.ver = v
            BY <2>5, <3>1
        <3> QED BY <2>2, <2>4, <3>2 DEF Visible
    <2>11. rd.op = "diff" => \E c \in commits' : /\ c.seq = rd'.at /\ c.branch = rd'.b /\ c.path = rd'.p
                                                  /\ rd'.got = <<c.ver>>
        BY <2>2 DEF PageFits, StoreGrows
    <2>12. rd.op \in {"context", "context base", "context diff"} =>
              rd'.b = "topic" /\ rd'.after <= branches'["topic"].head
        <3> SUFFICES ASSUME rd.op \in {"context", "context base", "context diff"}
                     PROVE  rd.b = "topic" /\ rd.after <= branches'["topic"].head
            BY <2>2
        <3>1. rd.b = "topic" /\ rd.after <= branches["topic"].head
            BY DEF PageFits
        <3>2. PICK a \in Nat, h \in Nat, k \in Nat :
                 a = rd.after /\ h = branches["topic"].head /\ k = branches'["topic"].head
            BY <2>7, <2>9
        <3>3. a <= h
            BY <3>1, <3>2
        <3>4. h <= k
            BY <2>8, <3>2
        <3>5. a <= k
            BY ONLY a \in Nat, h \in Nat, k \in Nat, <3>3, <3>4
        <3> QED BY <3>1, <3>2, <3>5
    <2>13. rd.op = "context base" => rd'.p <= branches'["topic"].base
        <3> SUFFICES ASSUME rd.op = "context base" PROVE rd.p <= branches'["topic"].base
            BY <2>2
        <3>1. rd.p <= branches["topic"].base
            BY DEF PageFits
        <3>2. PICK a \in Nat, h \in Nat, k \in Nat :
                 a = rd.p /\ h = branches["topic"].base /\ k = branches'["topic"].base
            BY <2>7, <2>9
        <3>3. a <= h
            BY <3>1, <3>2
        <3>4. h <= k
            BY <2>8, <3>2
        <3>5. a <= k
            BY ONLY a \in Nat, h \in Nat, k \in Nat, <3>3, <3>4
        <3> QED BY <3>2, <3>5
    <2>14. rd.op = "context diff" =>
              \A r \in commits' :
                  r.branch = "topic" /\ rd'.at < r.seq /\ r.seq <= rd'.after => r.path \in rd'.due
        <3> SUFFICES ASSUME rd.op = "context diff", NEW r \in commits', r.branch = "topic",
                            rd.at < r.seq, r.seq <= rd.after
                     PROVE  r.path \in rd.due
            BY <2>2
        <3>1. r.seq \in Nat
            BY RowFields DEF StoreTyped
        <3>2. rd.after <= branches["topic"].head
            BY DEF PageFits
        <3>3. r \in commits
            <4>1. r \notin commits => branches["topic"].head < r.seq
                BY DEF StoreGrows
            <4>2. PICK a \in Nat, h \in Nat, k \in Nat :
                     a = rd.after /\ h = branches["topic"].head /\ k = r.seq
                BY <2>7, <2>9, <3>1
            <4>3. k <= a
                BY <4>2
            <4>4. a <= h
                BY <3>2, <4>2
            <4>5. ~ (h < k)
                BY ONLY a \in Nat, h \in Nat, k \in Nat, <4>3, <4>4
            <4> QED BY <4>1, <4>2, <4>5
        <3> QED BY <3>3 DEF PageFits
    <2>15. PageFits'
        BY <1>1, <2>3, <2>10, <2>11, <2>12, <2>13, <2>14 DEF PageFits, Visible
    <2>16. PagesSound'
        BY <1>1, <2>3, <2>15 DEF PagesSound, HistoryShowsFile, CommitDiffIsCommit,
                                 ContextDiffCoversCommits
    <2> QED BY <1>2, <2>16 DEF DiffsSound, PagesSound
<1> QED BY <1>3, <1>4

LEMMA BeginDiffs ==
    ASSUME ReadsTypeOK, StoreFits, UNCHANGED <<commits, branches>>, url' \in Archives,
           NEW op \in ReadOps \ FilePages, NEW b \in Names, NEW at \in Nat, rd' = Begin(op, b, at)
    PROVE  DiffsSound'
<1>1. ReaderTyped(Begin(op, b, at)) /\ Begin(op, b, at).op = op
    BY BeginTyped
<1>2. ReaderTyped(rd') /\ rd'.op \notin FilePages
    BY <1>1
<1> QED BY <1>2, OtherDiffs

LEMMA StartDiffs ==
    ASSUME ReadsTypeOK, StoreFits, UNCHANGED <<commits, branches>>, url' \in Archives,
           NEW op \in Logs, NEW b \in Names, NEW at \in Nat, NEW p \in Nat, NEW after \in Nat,
           NEW due \in SUBSET Nat, rd' = Start(op, b, at, p, after, due, <<>>)
    PROVE  DiffsSound'
<1>1. <<>> \in Seq(Nat) /\ op \in Logs \cup FilePages
    OBVIOUS
<1>2. ReaderTyped(Start(op, b, at, p, after, due, <<>>))
    BY <1>1, StartTyped
<1>3. rd'.op = op
    BY DEF Start
<1>4. ReaderTyped(rd') /\ rd'.op \notin FilePages
    BY <1>2, <1>3, OpsApart
<1> QED BY <1>4, OtherDiffs

LEMMA DueSets ==
    ASSUME ReadsTypeOK, NEW b \in Names, NEW p
    PROVE  /\ {r.seq : r \in {x \in Visible(b) : x.path = p}} \in SUBSET Nat
           /\ {r.seq : r \in {x \in commits : x.branch = b}} \in SUBSET Nat
           /\ {r.seq : r \in {x \in commits : x.branch = b /\ x.seq > branches[b].base}}
                 \in SUBSET (1..MaxReadSeq)
<1>1. \A r \in commits : r.seq \in Nat /\ r.seq \in 1..MaxReadSeq
    BY RowFields, ReadsAssumption DEF ReadsTypeOK
<1> QED BY <1>1 DEF Visible

LEMMA DiffsNext ==
    ASSUME DiffsSound, [ReadsNext]_readVars
    PROVE  DiffsSound'
<1>0. ReadsTypeOK /\ StoreFits /\ PageFits
    BY DEF DiffsSound
<1> USE <1>0
<1>t. url \in Archives /\ \A b \in Names : branches[b].head \in Nat /\ branches[b].base \in Nat
    BY BranchFields DEF ReadsTypeOK
<1>o. /\ {"tree", "archive", "presign", "serve", "idle"} \subseteq ReadOps \ FilePages
      /\ {"history", "log first", "walk"} \subseteq Logs
    BY DEF ReadOps, Listings, Logs, FilePages
<1>1. ASSUME NEW b \in Names, NEW p \in Paths, NEW s \in 1..MaxReadSeq, NEW del \in BOOLEAN,
             WriteFile(b, p, s, del)
      PROVE  DiffsSound'
    <2>1. StoreGrows /\ StoreTyped
        BY <1>1, WriteGrows
    <2>2. StoreFits'
        BY <1>1, WriteStore
    <2>3. ReaderNotes /\ url' \in Archives
        BY <1>1, <1>t DEF WriteFile
    <2> QED BY <2>1, <2>2, <2>3, WriteDiffs
<1>2. ASSUME NEW f \in [{x.seq : x \in branchCommitGroups} -> 1..MaxReadSeq], RebaseTopic(f)
      PROVE  DiffsSound'
    <2>1. StoreGrows /\ StoreTyped
        BY <1>2, RebaseGrows
    <2>2. StoreFits'
        BY <1>2, RebaseStore
    <2>3. ReaderNotes /\ url' = IF url.b = "topic" THEN [url EXCEPT !.rebased = TRUE] ELSE url
        BY <1>2 DEF RebaseTopic
    <2>4. url' \in Archives
        BY <1>t, <2>3 DEF Archives
    <2> QED BY <2>1, <2>2, <2>3, <2>4, WriteDiffs
<1>3. ASSUME NEW b \in Names, NEW at \in ReadPoints(b), handleTree(b, at)
      PROVE  DiffsSound'
    <2>1. at \in Nat
        BY RowFields DEF ReadPoints, Latest, ReadsTypeOK
    <2>2. UNCHANGED <<commits, branches>> /\ url' \in Archives
        BY <1>3, <1>t DEF handleTree, OnlyReader
    <2>3. PICK op \in ReadOps \ FilePages : op = "tree"
        BY <1>o
    <2>4. rd' = Begin(op, b, at)
        BY <1>3, <2>3 DEF handleTree
    <2> QED BY <2>1, <2>2, <2>4, BeginDiffs
<1>4. ASSUME NEW b \in Names, handleArchive(b, Latest)
      PROVE  DiffsSound'
    <2>1. PICK at \in Nat : at = Latest
        BY DEF Latest
    <2>2. UNCHANGED <<commits, branches>> /\ url' \in Archives
        BY <1>4, <1>t DEF handleArchive, OnlyReader
    <2>3. PICK op \in ReadOps \ FilePages : op = "archive"
        BY <1>o
    <2>4. rd' = Begin(op, b, at)
        BY <1>4, <2>1, <2>3 DEF handleArchive
    <2> QED BY <2>2, <2>4, BeginDiffs
<1>5. ASSUME NEW b \in Names, NEW at \in 1..MaxReadSeq, handlePresignedArchive(b, at)
      PROVE  DiffsSound'
    <2>1. at \in Nat
        OBVIOUS
    <2>2. UNCHANGED <<commits, branches>> /\ url' \in Archives
        BY <1>5, <1>t DEF handlePresignedArchive, OnlyReader
    <2>3. PICK op \in ReadOps \ FilePages : op = "serve"
        BY <1>o
    <2>4. rd' = Begin(op, b, at)
        BY <1>5, <2>3 DEF handlePresignedArchive
    <2> QED BY <2>1, <2>2, <2>4, BeginDiffs
<1>6. CASE TreePage
    <2>1. ReaderTyped(rd') /\ rd'.op \notin FilePages
        <3>1. rd'.op \in {"listed", "tree"}
            BY <1>6, ReaderFields DEF TreePage, Readers, Listings, Reading
        <3> QED BY <1>6, <3>1, TreePageTyped DEF FilePages
    <2>2. UNCHANGED <<commits, branches>> /\ url' \in Archives
        BY <1>6, <1>t DEF TreePage, OnlyReader
    <2> QED BY <2>1, <2>2, OtherDiffs
<1>7. ASSUME NEW b \in Names, NEW at \in JobPoints(b), handleArchivePresign(b, at)
      PROVE  DiffsSound'
    <2>1. at \in Nat
        BY JobPointFits
    <2>2. UNCHANGED <<commits, branches>>
        BY <1>7 DEF handleArchivePresign
    <2>3. url' \in Archives
        <3>1. url' = Archive(NoSig, b, FALSE, <<>>, {})
            BY <1>7 DEF handleArchivePresign
        <3>2. <<>> \in Entries /\ NoSig \in Names \X Nat
            BY DEF Entries, NoSig, Names, Latest
        <3> QED BY <3>1, <3>2 DEF Archives, Archive
    <2>4. PICK op \in ReadOps \ FilePages : op = "presign"
        BY <1>o
    <2>5. rd' = Begin(op, b, at)
        BY <1>7, <2>4 DEF handleArchivePresign
    <2> QED BY <2>1, <2>2, <2>3, <2>5, BeginDiffs
<1>8. ASSUME NEW b \in Names, handleCommitLog(b)
      PROVE  DiffsSound'
    <2>1. PICK due \in SUBSET Nat : due = {r.seq : r \in {x \in commits : x.branch = b}}
        BY DueSets
    <2>2. PICK after \in Nat, at \in Nat, op \in Logs :
             after = branches[b].head /\ at = Latest /\ op = "log first"
        BY <1>t, <1>o DEF Latest
    <2>3. rd' = Start(op, b, at, 0, after, due, <<>>)
        BY <1>8, <2>1, <2>2 DEF handleCommitLog
    <2>4. UNCHANGED <<commits, branches>> /\ url' \in Archives
        BY <1>8, <1>t DEF handleCommitLog, OnlyReader
    <2>5. 0 \in Nat
        OBVIOUS
    <2> QED BY <2>3, <2>4, <2>5, StartDiffs
<1>9. ASSUME NEW b \in Names, logBranch(b)
      PROVE  DiffsSound'
    <2>1. PICK own \in SUBSET (1..MaxReadSeq) :
             own = {r.seq : r \in {x \in commits : x.branch = b /\ x.seq > branches[b].base}}
        BY DueSets
    <2>2. PICK due : due = Range(FirstOf(Descending(own), HistLimit))
        OBVIOUS
    <2>9. PICK page : page = FirstOf(Descending(own), HistLimit)
        OBVIOUS
    <2>3. PICK k \in Nat : page \in [1..k -> own]
        BY <2>1, <2>9, DescendingPage, ReadsAssumption DEF FirstDown
    <2>10. due = Range(page)
        BY <2>2, <2>9
    <2>4. due \in SUBSET Nat
        <3>1. \A i \in 1..k : page[i] \in own
            BY <2>3
        <3>2. DOMAIN page = 1..k
            BY <2>3
        <3>3. own \subseteq Nat
            BY <2>1
        <3> QED BY <2>10, <3>1, <3>2, <3>3 DEF Range
    <2>5. PICK after \in Nat, at \in Nat, op \in Logs :
             after = branches[b].head /\ at = branches[b].base /\ op = "walk"
        BY <1>t, <1>o
    <2>6. rd' = Start(op, b, at, 0, after, due, <<>>)
        BY <1>9, <2>1, <2>2, <2>5 DEF logBranch
    <2>7. UNCHANGED <<commits, branches>> /\ url' \in Archives
        BY <1>9, <1>t DEF logBranch, OnlyReader
    <2>8. 0 \in Nat
        OBVIOUS
    <2> QED BY <2>4, <2>6, <2>7, <2>8, StartDiffs
<1>10. CASE UrlExpires
    <2>1. NoUrl \in Archives
        <3>1. <<>> \in Entries /\ NoSig \in Names \X Nat
            BY DEF Entries, NoSig, Names, Latest
        <3> QED BY <3>1 DEF NoUrl, Archives, Archive
    <2>2. UNCHANGED <<commits, branches>> /\ url' \in Archives /\ rd' = rd /\ rd.op = "idle"
        BY <1>10, <2>1 DEF UrlExpires, Reading
    <2>3. ReaderTyped(rd') /\ rd'.op \notin FilePages
        BY <2>2 DEF ReadsTypeOK, ReaderTyped, FilePages
    <2> QED BY <2>2, <2>3, OtherDiffs
<1>11. CASE ArchivePage
    <2>1. ReaderTyped(rd') /\ rd'.op \notin FilePages
        <3>1. rd'.op \in {"archive", "presign", "serve"}
            BY <1>11, ReaderFields DEF ArchivePage, Archiving, Readers, Listings
        <3> QED BY <1>11, <3>1, ArchivePageTyped DEF FilePages
    <2>2. UNCHANGED <<commits, branches>> /\ url' \in Archives
        BY <1>11, <1>t DEF ArchivePage, OnlyReader
    <2> QED BY <2>1, <2>2, OtherDiffs
<1>12. ASSUME NEW ok \in BOOLEAN, ArchiveFile(ok)
       PROVE  DiffsSound'
    <2>1. ReaderTyped(rd') /\ rd'.op \notin FilePages
        <3>1. rd'.op \in {"archive", "presign", "serve"}
            BY <1>12, ReaderFields DEF ArchiveFile, Archiving, Readers, Listings
        <3> QED BY <1>12, <3>1, ArchiveFileTyped DEF FilePages
    <2>2. UNCHANGED <<commits, branches>> /\ url' \in Archives
        BY <1>12, <1>t DEF ArchiveFile, OnlyReader
    <2> QED BY <2>1, <2>2, OtherDiffs
<1>13. CASE ArchiveEnd
    <2>1. ReaderTyped(rd') /\ url' \in Archives /\ rd'.op \in {"listed", "signed", "served"}
        BY <1>13, ArchiveEndTyped
    <2>2. UNCHANGED <<commits, branches>>
        BY <1>13 DEF ArchiveEnd
    <2>3. rd'.op \notin FilePages
        BY <2>1 DEF FilePages
    <2> QED BY <2>1, <2>2, <2>3, OtherDiffs
<1>14. ASSUME NEW b \in Names, NEW p \in Paths, handleFileHistory(b, p)
       PROVE  DiffsSound'
    <2>1. PICK due \in SUBSET Nat : due = {r.seq : r \in {x \in Visible(b) : x.path = p}}
        BY DueSets
    <2>2. PICK at \in Nat, op \in Logs : at = Latest /\ op = "history"
        BY <1>o DEF Latest
    <2>3. rd' = Start(op, b, at, p, 0, due, <<>>)
        BY <1>14, <2>1, <2>2 DEF handleFileHistory
    <2>4. UNCHANGED <<commits, branches>> /\ url' \in Archives
        BY <1>14, <1>t DEF handleFileHistory, OnlyReader
    <2>5. 0 \in Nat /\ p \in Nat
        BY ReadsAssumption DEF Paths
    <2> QED BY <2>3, <2>4, <2>5, StartDiffs
<1>15. CASE HistoryPage
    <2>1. ReaderTyped(rd') /\ rd'.op \notin FilePages
        BY <1>15, HistoryPageTyped, OpsApart
    <2>2. UNCHANGED <<commits, branches>> /\ url' \in Archives
        BY <1>15, <1>t DEF HistoryPage, OnlyReader
    <2> QED BY <2>1, <2>2, OtherDiffs
<1>16. CASE LogFirstRows
    <2>1. PICK to \in Int : to = rd.after
        BY ReaderFields
    <2>2. rd' = LogWindow(rd, to) /\ rd.op \in {"log first", "log"}
        BY <1>16, <2>1 DEF LogFirstRows, Reading
    <2>3. ReaderTyped(rd') /\ rd'.op \notin FilePages
        BY <2>2, WindowIs, OpsApart
    <2>4. UNCHANGED <<commits, branches>> /\ url' \in Archives
        BY <1>16, <1>t DEF LogFirstRows, OnlyReader
    <2> QED BY <2>3, <2>4, OtherDiffs
<1>18. CASE WalkCommit
    <2>1. ReaderTyped(rd') /\ rd'.op \notin FilePages
        BY <1>18, WalkTyped, OpsApart
    <2>2. UNCHANGED <<commits, branches>> /\ url' \in Archives
        BY <1>18, <1>t DEF WalkCommit, OnlyReader
    <2> QED BY <2>1, <2>2, OtherDiffs
<1>19. CASE Answered
    <2>1. PICK op \in ReadOps \ FilePages, b \in Names, at \in Nat : op = "idle" /\ b = Main /\ at = Latest
        BY <1>o DEF Names, Latest
    <2>2. rd' = Begin(op, b, at)
        BY <1>19, <2>1 DEF Answered, NoReader
    <2>3. UNCHANGED <<commits, branches>> /\ url' \in Archives
        BY <1>19, <1>t DEF Answered, OnlyReader
    <2> QED BY <2>2, <2>3, BeginDiffs
<1>20. CASE UNCHANGED readVars
    <2>1. StoreFits'
        BY <1>20, StoreKept DEF readVars
    <2>2. \A b : Visible(b)' = Visible(b)
        BY <1>20 DEF Visible, readVars
    <2> QED BY <1>20, <2>1 DEF readVars, DiffsSound, ReadsTypeOK, PageFits, HistoryShowsFile,
               CommitDiffIsCommit, ContextDiffCoversCommits, Visible, GetCommit
<1>17. CASE handleLogRowsPartial
    <2>1. PICK to \in Int : to = rd.after - 1
        BY ReaderFields
    <2>2. rd' = LogWindow(rd, to) /\ rd.op \in {"log first", "log"}
        BY <1>17, <2>1 DEF handleLogRowsPartial, Reading
    <2>3. ReaderTyped(rd') /\ rd'.op \notin FilePages
        BY <2>2, WindowIs, OpsApart
    <2>4. UNCHANGED <<commits, branches>> /\ url' \in Archives
        BY <1>17, <1>t DEF handleLogRowsPartial, OnlyReader
    <2> QED BY <2>3, <2>4, OtherDiffs
<1>21. ASSUME NEW b \in Names, NEW p \in Paths, NEW at \in ReadPoints(b), handleFile(b, p, at)
       PROVE  DiffsSound'
    BY <1>21, FileDiffs
<1>22. ASSUME NEW c \in commits, handleCommitFileDiffPartial(c)
       PROVE  DiffsSound'
    BY <1>22, DiffBeginDiffs
<1>23. CASE FilePageContent
    BY <1>23, FileContentDiffs
<1>24. CASE FilePageHistory
    BY <1>24, FileHistoryDiffs
<1>25. CASE DiffPrevious
    BY <1>25, DiffPreviousDiffs
<1>26. CASE AssembleAgentContext
    BY <1>26, AssembleDiffs
<1>27. CASE GetDiff
    BY <1>27, GetDiffDiffs
<1>28. CASE DiffChanges
    BY <1>28, DiffChangesDiffs
<1>29. CASE ContextCommits
    BY <1>29, ContextCommitsDiffs
<1>31. CASE ArchivePageFails
    <2>1. ReaderTyped(rd') /\ url' \in Archives /\ rd'.op \in {"idle", "archive", "serve"}
        BY <1>31, ArchivePageFailsTyped
    <2>2. UNCHANGED <<commits, branches>>
        BY <1>31 DEF ArchivePageFails
    <2>3. rd'.op \notin FilePages
        BY <2>1 DEF FilePages
    <2> QED BY <2>1, <2>2, <2>3, OtherDiffs
<1>30. CASE ReadsNext
    BY <1>31, <1>1, <1>2, <1>3, <1>4, <1>5, <1>6, <1>7, <1>8, <1>9, <1>10, <1>11, <1>12, <1>13, <1>14,
       <1>15, <1>16, <1>17, <1>18, <1>19, <1>21, <1>22, <1>23, <1>24, <1>25, <1>26, <1>27, <1>28,
       <1>29, <1>30 DEF ReadsNext
<1> QED BY <1>20, <1>30

LEMMA DiffsInit ==
    ASSUME ReadsInit
    PROVE  DiffsSound
<1>1. commits = {} /\ rd = NoReader /\ url = NoUrl
      /\ branches = [b \in Names |-> [head |-> 0, base |-> 0]]
    BY DEF ReadsInit
<1>2. rd.op = "idle" /\ rd \in Readers(Seq(Nat))
    <2>1. PICK op \in ReadOps, b \in Names, at \in Nat : op = "idle" /\ b = Main /\ at = Latest
        BY DEF ReadOps, Names, Latest
    <2>2. rd = Begin(op, b, at)
        BY <1>1, <2>1 DEF NoReader
    <2>3. Begin(op, b, at) \in Readers(Seq(Nat)) /\ Begin(op, b, at).op = op
        BY BeginTyped
    <2> QED BY <2>1, <2>2, <2>3
<1>3. url \in Archives
    <2>1. <<>> \in Entries /\ NoSig \in Names \X Nat
        BY DEF Entries, NoSig, Names, Latest
    <2> QED BY <1>1, <2>1 DEF NoUrl, Archives, Archive
<1>4. ReadsTypeOK
    <2>1. rd \in Readers(IF rd.op \in Listings THEN Entries ELSE Seq(Nat))
        BY <1>2 DEF Listings
    <2>2. branches \in [Names -> [head : Nat, base : Nat]]
        BY <1>1
    <2> QED BY <1>1, <1>3, <2>1, <2>2 DEF ReadsTypeOK
<1>5. \A b \in Names : branches[b].head = 0 /\ branches[b].base = 0
    BY <1>1
<1>6. StoreFits
    BY <1>1, <1>5 DEF StoreFits, Names, Main
<1>7. PagesSound
    BY <1>2 DEF PagesSound, PageFits, HistoryShowsFile, CommitDiffIsCommit, ContextDiffCoversCommits
<1> QED BY <1>4, <1>6, <1>7 DEF DiffsSound, PagesSound

\* Pages that show a file with its history, the diff of a commit, or a branch with
\* its changes and commits, show what belongs together, whatever is committed and
\* rebased between their queries (handleFile, handleCommitFileDiffPartial,
\* AssembleAgentContext).
THEOREM DiffsHold == ReadsSpec => []DiffsSound
<1>1. ReadsInit => DiffsSound
    BY DiffsInit
<1>2. DiffsSound /\ [ReadsNext]_readVars => DiffsSound'
    BY DiffsNext
<1> QED BY <1>1, <1>2, PTL DEF ReadsSpec

-----------------------------------------------------------------------------
(* Listings.                                                               *)

LEMMA ConcatIs ==
    ASSUME NEW S, NEW s \in Seq(S), NEW t \in Seq(S), NEW m, NEW n, m = Len(s), n = Len(t)
    PROVE  /\ m \in Nat /\ n \in Nat /\ s \o t \in Seq(S)
           /\ DOMAIN s = 1..m /\ DOMAIN t = 1..n /\ DOMAIN (s \o t) = 1..(m + n)
           /\ \A i \in 1..m : (s \o t)[i] = s[i]
           /\ \A j \in 1..n : m + j \in 1..(m + n) /\ (s \o t)[m + j] = t[j]
           /\ \A i \in 1..(m + n) : i \in 1..m \/ (i - m \in 1..n /\ m < i /\ (s \o t)[i] = t[i - m])
<1>1. m \in Nat /\ n \in Nat /\ DOMAIN s = 1..m /\ DOMAIN t = 1..n
    BY LenProperties
<1>2. s \o t \in Seq(S) /\ Len(s \o t) = m + n
    BY ConcatProperties
<1>3. DOMAIN (s \o t) = 1..(m + n)
    BY <1>2, LenProperties
<1>4. \A i \in 1..(m + n) : (s \o t)[i] = IF i <= m THEN s[i] ELSE t[i - m]
    BY <1>2, ConcatProperties
<1>5. \A i \in 1..m : i \in 1..(m + n) /\ i <= m
    BY <1>1
<1>6. \A j \in 1..n : m + j \in 1..(m + n) /\ ~ (m + j <= m) /\ m + j - m = j
    BY <1>1
<1>7. \A i \in 1..(m + n) : i \in 1..m \/ (i - m \in 1..n /\ m < i /\ ~ (i <= m))
    BY <1>1
<1> QED BY <1>1, <1>2, <1>3, <1>4, <1>5, <1>6, <1>7

LEMMA HeadTailIs ==
    ASSUME NEW S, NEW s \in Seq(S), s # <<>>, NEW n, n = Len(s)
    PROVE  /\ n \in Nat /\ 1 \in 1..n /\ Head(s) = s[1] /\ Head(s) \in S /\ DOMAIN s = 1..n
           /\ Tail(s) \in Seq(S) /\ DOMAIN Tail(s) = 1..(n - 1)
           /\ \A i \in 1..(n - 1) : i + 1 \in 1..n /\ Tail(s)[i] = s[i + 1]
           /\ \A i \in 1..n : i = 1 \/ (i - 1 \in 1..(n - 1) /\ Tail(s)[i - 1] = s[i])
<1>1. n \in Nat /\ DOMAIN s = 1..n /\ n # 0
    BY LenProperties, EmptySeq
<1>2. Head(s) = s[1] /\ Head(s) \in S /\ Tail(s) \in Seq(S) /\ Len(Tail(s)) = n - 1
    BY HeadTailProperties
<1>3. DOMAIN Tail(s) = 1..(n - 1)
    BY <1>2, LenProperties
<1>4. \A i \in 1..(n - 1) : i + 1 \in 1..n
    BY <1>1
<1>5. \A i \in 1..(n - 1) : Tail(s)[i] = s[i + 1]
    BY <1>2, HeadTailProperties
<1>6. \A i \in 1..n : i = 1 \/ (i - 1 \in 1..(n - 1) /\ i - 1 + 1 = i)
    BY <1>1
<1> QED BY <1>1, <1>2, <1>3, <1>4, <1>5, <1>6

\* A listing fits a view of the store on a set of paths.
ViewFits(got, todo, after, over, steady, view) ==
    /\ RisingPaths(got) /\ Rising(todo)
    /\ \A i \in DOMAIN got, k \in DOMAIN todo : got[i][1] < todo[k]
    /\ \A k \in DOMAIN todo : todo[k] <= after
    /\ \A p \in steady :
           /\ (p <= after \/ over) /\ view[p] # 0 => p \in Range(todo) \/ <<p, view[p]>> \in Range(got)
           /\ view[p] = 0 => p \notin Range(todo)
           /\ \A i \in DOMAIN got : got[i][1] = p => got[i] = <<p, view[p]>> /\ view[p] # 0
GotBelow(got, after) == \A i \in DOMAIN got : got[i][1] <= after

\* A page of the paths after a cursor that exist in a view.
PageOf(page, k, after, view) ==
    /\ page \in Seq(Paths) /\ k \in Nat /\ DOMAIN page = 1..k /\ Len(page) = k
    /\ Rising(page) /\ k <= PageSize
    /\ \A i \in 1..k : page[i] \in Paths /\ page[i] > after /\ view[page[i]] # 0
    /\ \A p \in Paths : p > after /\ view[p] # 0 =>
            (\E i \in 1..k : page[i] = p) \/ (k = PageSize /\ page[k] < p)

LEMMA EntryFields ==
    ASSUME NEW got \in Entries, NEW i \in DOMAIN got
    PROVE  got[i] = <<got[i][1], got[i][2]>> /\ got[i][1] \in Paths /\ got[i][1] \in Nat /\ got[i][2] \in Versions
<1>1. got[i] \in Paths \X Versions
    BY ElementOfSeq, LenProperties DEF Entries
<1>2. PICK p \in Paths, v \in Versions : got[i] = <<p, v>>
    BY <1>1
<1>3. got[i][1] = p /\ got[i][2] = v
    BY <1>2
<1>4. p \in Nat
    BY ReadsAssumption DEF Paths
<1> QED BY <1>2, <1>3, <1>4

LEMMA TreeViewFits ==
    ASSUME NEW got \in Entries, NEW after \in Nat, NEW over \in BOOLEAN, NEW steady \in SUBSET Paths,
           NEW view \in [Paths -> Versions], NEW page, NEW k, PageOf(page, k, after, view),
           ViewFits(got, <<>>, after, over, steady, view), GotBelow(got, after),
           NEW more, more = [i \in 1..k |-> <<page[i], view[page[i]]>>],
           NEW last, last = IF k < PageSize THEN after ELSE page[k],
           NEW over2 \in BOOLEAN, over2 => over \/ k < PageSize
    PROVE  /\ ViewFits(got \o more, <<>>, last, over2, steady, view)
           /\ ~ (k < PageSize) => GotBelow(got \o more, last)
<1>00. /\ page \in Seq(Paths) /\ k \in Nat /\ DOMAIN page = 1..k /\ Len(page) = k
       /\ Rising(page) /\ k <= PageSize
       /\ \A i \in 1..k : page[i] \in Paths /\ page[i] > after /\ view[page[i]] # 0
       /\ \A p \in Paths : p > after /\ view[p] # 0 =>
               (\E i \in 1..k : page[i] = p) \/ (k = PageSize /\ page[k] < p)
    BY DEF PageOf
<1> USE <1>00
<1>0. PageSize \in Nat /\ PageSize # 0 /\ Paths \subseteq Nat
    BY ReadsAssumption DEF Paths
<1>1. more \in Seq(Paths \X Versions) /\ Len(more) = k /\ DOMAIN more = 1..k
    <2>1. more \in [1..k -> Paths \X Versions]
        OBVIOUS
    <2> QED BY <2>1, SeqOf
<1>2. PICK m : m = Len(got)
    OBVIOUS
<1>3. PICK all : all = got \o more
    OBVIOUS
<1>4. /\ m \in Nat /\ all \in Seq(Paths \X Versions)
      /\ DOMAIN got = 1..m /\ DOMAIN all = 1..(m + k)
      /\ \A i \in 1..m : all[i] = got[i]
      /\ \A j \in 1..k : m + j \in 1..(m + k) /\ all[m + j] = more[j]
      /\ \A i \in 1..(m + k) : i \in 1..m \/ (i - m \in 1..k /\ m < i /\ all[i] = more[i - m])
    BY <1>1, <1>2, <1>3, ConcatIs DEF Entries
<1>5. \A j \in 1..k : /\ more[j] = <<page[j], view[page[j]]>> /\ more[j][1] = page[j]
                      /\ page[j] \in Nat /\ after < page[j]
    BY <1>0
<1>6. \A i \in 1..m : got[i][1] \in Nat /\ got[i][1] <= after
    BY <1>4, EntryFields DEF GotBelow
<1>7. \A i \in 1..(m + k) : \/ i \in 1..m /\ all[i] = got[i]
                            \/ i - m \in 1..k /\ m < i /\ all[i] = <<page[i - m], view[page[i - m]]>>
    BY <1>4, <1>5
<1>8. RisingPaths(all)
    <2> SUFFICES ASSUME NEW i \in 1..(m + k), NEW j \in 1..(m + k), i < j
                 PROVE  all[i][1] < all[j][1]
        BY <1>4 DEF RisingPaths
    <2>1. CASE i \in 1..m /\ j \in 1..m
        BY <1>4, <2>1 DEF ViewFits, RisingPaths
    <2>2. CASE i \in 1..m /\ j \notin 1..m
        <3>1. all[i] = got[i]
            BY <1>4, <2>2
        <3>2. j - m \in 1..k /\ all[j] = <<page[j - m], view[page[j - m]]>>
            BY <1>7, <2>2
        <3>3. all[j][1] = page[j - m]
            BY <3>2
        <3>4. page[j - m] \in Nat /\ after < page[j - m]
            BY <1>5, <3>2
        <3>5. got[i][1] \in Nat /\ got[i][1] <= after
            BY <1>6, <2>2
        <3> QED BY <3>1, <3>3, <3>4, <3>5
    <2>3. CASE i \notin 1..m
        <3>1. m < i /\ j \notin 1..m
            BY <1>4, <1>7, <2>3
        <3>2. /\ i - m \in 1..k /\ all[i][1] = page[i - m]
              /\ j - m \in 1..k /\ all[j][1] = page[j - m] /\ i - m < j - m
            BY <1>4, <1>7, <2>3, <3>1
        <3> QED BY <3>2 DEF Rising
    <2> QED BY <2>1, <2>2, <2>3
<1>9. ASSUME NEW p \in steady
      PROVE  /\ (p <= last \/ over2) /\ view[p] # 0 => <<p, view[p]>> \in Range(all)
             /\ \A i \in DOMAIN all : all[i][1] = p => all[i] = <<p, view[p]>> /\ view[p] # 0
    <2>1. p \in Paths /\ p \in Nat
        BY <1>0
    <2>2. \A x \in Range(got) : x \in Range(all)
        <3>1. \A i \in 1..m : i \in 1..(m + k)
            BY <1>4
        <3> SUFFICES ASSUME NEW x \in Range(got) PROVE x \in Range(all)
            OBVIOUS
        <3>2. PICK i \in 1..m : x = got[i]
            BY <1>4 DEF Range
        <3>3. i \in DOMAIN all /\ x = all[i]
            BY <1>4, <3>1, <3>2
        <3> QED BY ONLY <3>3 DEF Range
    <2>3. \A j \in 1..k : <<page[j], view[page[j]]>> \in Range(all)
        <3> SUFFICES ASSUME NEW j \in 1..k PROVE <<page[j], view[page[j]]>> \in Range(all)
            OBVIOUS
        <3>1. m + j \in DOMAIN all /\ all[m + j] = more[j]
            BY <1>4
        <3>2. more[j] = <<page[j], view[page[j]]>>
            BY <1>5
        <3>3. all[m + j] \in Range(all)
            BY <3>1 DEF Range
        <3> QED BY <3>1, <3>2, <3>3
    <2>4. ASSUME p <= last \/ over2, view[p] # 0
          PROVE  <<p, view[p]>> \in Range(all)
        <3>1. CASE p <= after \/ over
            <4>1. p \in Range(<<>>) \/ <<p, view[p]>> \in Range(got)
                BY <2>4, <3>1 DEF ViewFits
            <4>2. p \notin Range(<<>>)
                BY DEF Range
            <4> QED BY <2>2, <4>1, <4>2
        <3>2. CASE ~ (p <= after) /\ ~ over
            <4>1. p > after
                BY <2>1, <3>2
            <4>2. (\E i \in 1..k : page[i] = p) \/ (k = PageSize /\ page[k] < p)
                BY <2>1, <2>4, <4>1
            <4>3. ~ (k = PageSize /\ page[k] < p)
                <5> SUFFICES ASSUME k = PageSize, page[k] < p PROVE FALSE
                    OBVIOUS
                <5>1. p <= page[k]
                    BY <1>0, <2>4, <3>2
                <5>2. k \in 1..k
                    BY <1>0
                <5> QED BY <1>5, <2>1, <5>1, <5>2
            <4>4. PICK i \in 1..k : page[i] = p
                BY <4>2, <4>3
            <4> QED BY <2>3, <4>4
        <3> QED BY <3>1, <3>2
    <2>5. ASSUME NEW i \in 1..(m + k), all[i][1] = p
          PROVE  all[i] = <<p, view[p]>> /\ view[p] # 0
        <3>1. CASE i \in 1..m /\ all[i] = got[i]
            <4>1. \A h \in DOMAIN got : got[h][1] = p => got[h] = <<p, view[p]>> /\ view[p] # 0
                BY DEF ViewFits
            <4>2. i \in DOMAIN got
                BY <1>4, <3>1
            <4> QED BY <2>5, <3>1, <4>1, <4>2
        <3>2. CASE i - m \in 1..k /\ all[i] = <<page[i - m], view[page[i - m]]>>
            <4>1. page[i - m] = p
                BY <2>5, <3>2
            <4> QED BY <3>2, <4>1
        <3> QED BY <1>7, <3>1, <3>2
    <2> QED BY <1>4, <2>4, <2>5
<1>10. ViewFits(all, <<>>, last, over2, steady, view)
    <2>1. Rising(<<>>) /\ DOMAIN <<>> = {} /\ Range(<<>>) = {}
        BY DEF Rising, Range
    <2> QED BY <1>8, <1>9, <2>1 DEF ViewFits
<1>11. ASSUME ~ (k < PageSize) PROVE GotBelow(all, last)
    <2>1. last = page[k] /\ k \in 1..k
        BY <1>0, <1>11
    <2>2. \A j \in 1..k : page[j] <= page[k]
        <3> SUFFICES ASSUME NEW j \in 1..k PROVE page[j] <= page[k]
            OBVIOUS
        <3>1. page[j] \in Nat /\ page[k] \in Nat
            BY <1>5, <2>1
        <3>2. CASE j < k
            <4>1. page[j] < page[k]
                BY <2>1, <3>2 DEF Rising
            <4> QED BY <3>1, <4>1
        <3>3. CASE j = k
            BY <3>1, <3>3
        <3> QED BY <3>2, <3>3
    <2> SUFFICES ASSUME NEW i \in 1..(m + k) PROVE all[i][1] <= page[k]
        BY <1>4, <2>1 DEF GotBelow
    <2>3. CASE i \in 1..m /\ all[i] = got[i]
        BY <1>5, <1>6, <2>1, <2>3
    <2>4. CASE i - m \in 1..k /\ all[i] = <<page[i - m], view[page[i - m]]>>
        BY <2>2, <2>4
    <2> QED BY <1>7, <2>3, <2>4
<1> QED BY <1>3, <1>10, <1>11

LEMMA PageViewFits ==
    ASSUME NEW got \in Entries, NEW after \in Nat, NEW over \in BOOLEAN, NEW steady \in SUBSET Paths,
           NEW view \in [Paths -> Versions], NEW page, NEW k, PageOf(page, k, after, view),
           ViewFits(got, <<>>, after, over, steady, view), GotBelow(got, after),
           NEW last, last = IF page = <<>> THEN after ELSE page[k],
           NEW over2 \in BOOLEAN, over2 => over \/ k < PageSize
    PROVE  ViewFits(got, page, last, over2, steady, view) /\ GotBelow(got, last)
<1>00. /\ page \in Seq(Paths) /\ k \in Nat /\ DOMAIN page = 1..k /\ Len(page) = k
       /\ Rising(page) /\ k <= PageSize
       /\ \A i \in 1..k : page[i] \in Paths /\ page[i] > after /\ view[page[i]] # 0
       /\ \A p \in Paths : p > after /\ view[p] # 0 =>
               (\E i \in 1..k : page[i] = p) \/ (k = PageSize /\ page[k] < p)
    BY DEF PageOf
<1> USE <1>00
<1>0. PageSize \in Nat /\ PageSize # 0 /\ Paths \subseteq Nat
    BY ReadsAssumption DEF Paths
<1>1. \A i \in 1..k : page[i] \in Nat /\ after < page[i]
    BY <1>0
<1>2. \A i \in DOMAIN got : got[i][1] \in Nat /\ got[i][1] <= after
    BY EntryFields DEF GotBelow
<1>3. page # <<>> => k \in 1..k
    BY EmptySeq
<1>4. page = <<>> => k = 0
    BY EmptySeq
<1>5. last \in Nat /\ after <= last
    BY <1>1, <1>3
<1>6. \A i \in 1..k : page[i] <= last
    <2> SUFFICES ASSUME NEW i \in 1..k PROVE page[i] <= last
        OBVIOUS
    <2>1. k # 0
        OBVIOUS
    <2>2. last = page[k] /\ k \in 1..k
        BY <1>3, <1>4, <2>1
    <2>3. page[i] \in Nat /\ page[k] \in Nat
        BY <1>1, <2>2
    <2>4. CASE i < k
        <3>1. page[i] < page[k]
            BY <2>2, <2>4 DEF Rising
        <3> QED BY <2>2, <2>3, <3>1
    <2>5. CASE i = k
        BY <2>2, <2>3, <2>5
    <2> QED BY <2>4, <2>5
<1>7. GotBelow(got, last)
    BY <1>2, <1>5 DEF GotBelow
<1>8. \A i \in DOMAIN got, j \in DOMAIN page : got[i][1] < page[j]
    BY <1>1, <1>2
<1>9. ASSUME NEW p \in steady
      PROVE  /\ (p <= last \/ over2) /\ view[p] # 0
                    => p \in Range(page) \/ <<p, view[p]>> \in Range(got)
             /\ view[p] = 0 => p \notin Range(page)
             /\ \A i \in DOMAIN got : got[i][1] = p => got[i] = <<p, view[p]>> /\ view[p] # 0
    <2>1. p \in Paths /\ p \in Nat
        BY <1>0
    <2>2. \A i \in DOMAIN got : got[i][1] = p => got[i] = <<p, view[p]>> /\ view[p] # 0
        BY DEF ViewFits
    <2>3. view[p] = 0 => p \notin Range(page)
        BY DEF Range
    <2>4. ASSUME p <= last \/ over2, view[p] # 0
          PROVE  p \in Range(page) \/ <<p, view[p]>> \in Range(got)
        <3>1. CASE p <= after \/ over
            <4>1. p \in Range(<<>>) \/ <<p, view[p]>> \in Range(got)
                BY <2>4, <3>1 DEF ViewFits
            <4>2. p \notin Range(<<>>)
                BY DEF Range
            <4> QED BY <4>1, <4>2
        <3>2. CASE ~ (p <= after) /\ ~ over
            <4>1. p > after
                BY <2>1, <3>2
            <4>2. (\E i \in 1..k : page[i] = p) \/ (k = PageSize /\ page[k] < p)
                BY <2>1, <2>4, <4>1
            <4>3. ~ (k = PageSize /\ page[k] < p)
                <5> SUFFICES ASSUME k = PageSize, page[k] < p PROVE FALSE
                    OBVIOUS
                <5>1. p <= last
                    BY <1>0, <2>4, <3>2
                <5>2. k \in 1..k /\ last = page[k]
                    BY <1>0, <1>4
                <5> QED BY <1>1, <2>1, <5>1, <5>2
            <4>4. PICK i \in 1..k : page[i] = p
                BY <4>2, <4>3
            <4> QED BY <4>4 DEF Range
        <3> QED BY <3>1, <3>2
    <2> QED BY <2>2, <2>3, <2>4
<1>10. RisingPaths(got)
    BY DEF ViewFits
<1> QED BY <1>6, <1>7, <1>8, <1>9, <1>10 DEF ViewFits

\* One file of an archive is read: it is added, or it is gone, or it is skipped.
LEMMA FileViewFits ==
    ASSUME NEW got \in Entries, NEW todo \in Seq(Paths), todo # <<>>, NEW after \in Nat,
           NEW over \in BOOLEAN, NEW steady \in SUBSET Paths, NEW view \in [Paths -> Versions],
           ViewFits(got, todo, after, over, steady, view), GotBelow(got, after),
           NEW p0, p0 = Head(todo), NEW left, left \subseteq steady, NEW more,
           \/ view[p0] # 0 /\ more = Append(got, <<p0, view[p0]>>)
           \/ more = got /\ (p0 \in left => view[p0] = 0)
    PROVE  ViewFits(more, Tail(todo), after, over, left, view) /\ GotBelow(more, after)
<1>0. Paths \subseteq Nat
    BY ReadsAssumption DEF Paths
<1>1. PICK n : n = Len(todo)
    OBVIOUS
<1>2. PICK rest : rest = Tail(todo)
    OBVIOUS
<1>3. /\ n \in Nat /\ 1 \in 1..n /\ p0 = todo[1] /\ p0 \in Paths /\ DOMAIN todo = 1..n
      /\ rest \in Seq(Paths) /\ DOMAIN rest = 1..(n - 1)
      /\ \A i \in 1..(n - 1) : i + 1 \in 1..n /\ rest[i] = todo[i + 1]
      /\ \A i \in 1..n : i = 1 \/ (i - 1 \in 1..(n - 1) /\ rest[i - 1] = todo[i])
    BY <1>1, <1>2, HeadTailIs
<1>4. PICK m : m = Len(got)
    OBVIOUS
<1>5. m \in Nat /\ DOMAIN got = 1..m
    BY <1>4, LenProperties DEF Entries
<1>6. \A i \in 1..m : got[i][1] \in Nat /\ got[i][1] <= after /\ got[i][1] < p0
    <2>1. \A i \in 1..m : got[i][1] \in Nat
        BY <1>5, EntryFields
    <2>2. \A i \in 1..m : got[i][1] <= after
        BY <1>5 DEF GotBelow
    <2>3. \A i \in 1..m : got[i][1] < todo[1]
        BY <1>3, <1>5 DEF ViewFits
    <2> QED BY <1>3, <2>1, <2>2, <2>3
<1>7. \A i \in 1..n : todo[i] \in Paths /\ todo[i] \in Nat /\ todo[i] <= after
    BY <1>0, <1>3, ElementOfSeq, LenProperties DEF ViewFits
<1>8. Rising(rest)
    <2> SUFFICES ASSUME NEW i \in 1..(n - 1), NEW j \in 1..(n - 1), i < j PROVE rest[i] < rest[j]
        BY <1>3 DEF Rising
    <2>1. i + 1 \in 1..n /\ j + 1 \in 1..n /\ i + 1 < j + 1
        BY <1>3
    <2>2. todo[i + 1] < todo[j + 1]
        BY <1>3, <2>1 DEF ViewFits, Rising
    <2> QED BY <1>3, <2>2
<1>9. \A i \in 1..(n - 1) : rest[i] <= after /\ p0 < rest[i] /\ rest[i] \in Nat
    <2> SUFFICES ASSUME NEW i \in 1..(n - 1) PROVE rest[i] <= after /\ p0 < rest[i] /\ rest[i] \in Nat
        OBVIOUS
    <2>1. i + 1 \in 1..n /\ rest[i] = todo[i + 1] /\ 1 < i + 1
        BY <1>3
    <2>2. todo[1] < todo[i + 1]
        BY <1>3, <2>1 DEF ViewFits, Rising
    <2> QED BY <1>3, <1>7, <2>1, <2>2
<1>10. \A p : p \in Range(todo) <=> p = p0 \/ p \in Range(rest)
    <2> SUFFICES ASSUME NEW p PROVE p \in Range(todo) <=> p = p0 \/ p \in Range(rest)
        OBVIOUS
    <2>1. ASSUME p \in Range(todo) PROVE p = p0 \/ p \in Range(rest)
        <3>1. PICK i \in 1..n : p = todo[i]
            BY <1>3, <2>1 DEF Range
        <3>2. CASE i = 1
            BY <1>3, <3>1, <3>2
        <3>3. CASE i # 1
            BY <1>3, <3>1, <3>3 DEF Range
        <3> QED BY <3>2, <3>3
    <2>2. ASSUME p = p0 PROVE p \in Range(todo)
        BY <1>3, <2>2 DEF Range
    <2>3. ASSUME p \in Range(rest) PROVE p \in Range(todo)
        BY <1>3, <2>3 DEF Range
    <2> QED BY <2>1, <2>2, <2>3
<1>11. p0 \notin Range(rest)
    <2> SUFFICES ASSUME p0 \in Range(rest) PROVE FALSE
        OBVIOUS
    <2>1. PICK i \in 1..(n - 1) : p0 = rest[i]
        BY <1>3 DEF Range
    <2>2. p0 < rest[i] /\ rest[i] \in Nat
        BY <1>9
    <2> QED BY <2>1, <2>2
<1>12. CASE view[p0] # 0 /\ more = Append(got, <<p0, view[p0]>>)
    <2>1. PICK e : e = <<p0, view[p0]>>
        OBVIOUS
    <2>2. more = Append(got, e) /\ e \in Paths \X Versions /\ e[1] = p0
        BY <1>3, <1>12, <2>1
    <2>3. /\ DOMAIN more = 1..(m + 1) /\ more[m + 1] = e
          /\ \A i \in 1..m : more[i] = got[i]
        <3>1. got \in Seq(Paths \X Versions)
            BY DEF Entries
        <3>2. Len(more) = m + 1 /\ \A i \in 1..m : more[i] = got[i]
            BY <1>4, <2>2, <3>1, AppendProperties
        <3>3. more[m + 1] = e /\ more \in Seq(Paths \X Versions)
            BY <1>4, <2>2, <3>1, AppendProperties
        <3> QED BY <3>2, <3>3, LenProperties
    <2>4. \A i \in 1..(m + 1) : i \in 1..m \/ i = m + 1
        BY <1>5
    <2>5. RisingPaths(more)
        <3> SUFFICES ASSUME NEW i \in 1..(m + 1), NEW j \in 1..(m + 1), i < j
                     PROVE  more[i][1] < more[j][1]
            BY <2>3 DEF RisingPaths
        <3>1. i \in 1..m
            BY <1>5
        <3>2. CASE j \in 1..m
            BY <1>5, <2>3, <3>1, <3>2 DEF ViewFits, RisingPaths
        <3>3. CASE j = m + 1
            BY <1>6, <2>2, <2>3, <3>1, <3>3
        <3> QED BY <2>4, <3>2, <3>3
    <2>6. \A i \in 1..(m + 1), j \in 1..(n - 1) : more[i][1] < rest[j]
        <3> SUFFICES ASSUME NEW i \in 1..(m + 1), NEW j \in 1..(n - 1) PROVE more[i][1] < rest[j]
            OBVIOUS
        <3>1. CASE i \in 1..m
            <4>1. got[i][1] \in Nat /\ got[i][1] < p0 /\ p0 < rest[j] /\ rest[j] \in Nat /\ p0 \in Nat
                BY <1>0, <1>3, <1>6, <1>9, <3>1
            <4>2. got[i][1] < rest[j]
                BY ONLY <4>1
            <4>3. more[i] = got[i]
                BY <2>3, <3>1
            <4> QED BY <4>2, <4>3
        <3>2. CASE i = m + 1
            BY <1>9, <2>2, <2>3, <3>2
        <3> QED BY <2>4, <3>1, <3>2
    <2>7. GotBelow(more, after)
        <3>1. p0 <= after
            BY <1>3, <1>7
        <3> QED BY <1>6, <2>2, <2>3, <2>4, <3>1 DEF GotBelow
    <2>8. ASSUME NEW p \in left
          PROVE  /\ (p <= after \/ over) /\ view[p] # 0
                        => p \in Range(rest) \/ <<p, view[p]>> \in Range(more)
                 /\ view[p] = 0 => p \notin Range(rest)
                 /\ \A i \in DOMAIN more : more[i][1] = p => more[i] = <<p, view[p]>> /\ view[p] # 0
        <3>1. p \in steady
            OBVIOUS
        <3>2. /\ (p <= after \/ over) /\ view[p] # 0 => p \in Range(todo) \/ <<p, view[p]>> \in Range(got)
              /\ view[p] = 0 => p \notin Range(todo)
              /\ \A i \in 1..m : got[i][1] = p => got[i] = <<p, view[p]>> /\ view[p] # 0
            BY <1>5, <3>1 DEF ViewFits
        <3>3. e \in Range(more)
            <4>1. m + 1 \in 1..(m + 1)
                BY <1>5
            <4> QED BY <2>3, <4>1 DEF Range
        <3>4. \A x \in Range(got) : x \in Range(more)
            <4>1. \A i \in 1..m : i \in 1..(m + 1)
                BY <1>5
            <4> QED BY <1>5, <2>3, <4>1 DEF Range
        <3>5. (p <= after \/ over) /\ view[p] # 0 => p \in Range(rest) \/ <<p, view[p]>> \in Range(more)
            <4>1. CASE p = p0
                BY <2>1, <3>3, <4>1
            <4>2. CASE p # p0
                BY <1>10, <3>2, <3>4, <4>2
            <4> QED BY <4>1, <4>2
        <3>6. view[p] = 0 => p \notin Range(rest)
            BY <1>10, <3>2
        <3>7. ASSUME NEW i \in 1..(m + 1), more[i][1] = p
              PROVE  more[i] = <<p, view[p]>> /\ view[p] # 0
            <4>1. CASE i \in 1..m
                BY <2>3, <3>2, <3>7, <4>1
            <4>2. CASE i = m + 1
                <5>1. p = p0
                    BY <2>2, <2>3, <3>7, <4>2
                <5> QED BY <1>12, <2>1, <2>3, <4>2, <5>1
            <4> QED BY <2>4, <4>1, <4>2
        <3> QED BY <2>3, <3>5, <3>6, <3>7
    <2> QED BY <1>2, <1>3, <1>8, <1>9, <2>3, <2>5, <2>6, <2>7, <2>8 DEF ViewFits
<1>13. CASE more = got /\ (p0 \in left => view[p0] = 0)
    <2>1. more = got
        BY <1>13
    <2>2. ASSUME NEW p \in left
          PROVE  /\ (p <= after \/ over) /\ view[p] # 0
                        => p \in Range(rest) \/ <<p, view[p]>> \in Range(got)
                 /\ view[p] = 0 => p \notin Range(rest)
                 /\ \A i \in DOMAIN got : got[i][1] = p => got[i] = <<p, view[p]>> /\ view[p] # 0
        <3>1. p \in steady /\ (p = p0 => view[p] = 0)
            BY <1>13
        <3>2. /\ (p <= after \/ over) /\ view[p] # 0 => p \in Range(todo) \/ <<p, view[p]>> \in Range(got)
              /\ view[p] = 0 => p \notin Range(todo)
              /\ \A i \in DOMAIN got : got[i][1] = p => got[i] = <<p, view[p]>> /\ view[p] # 0
            BY <3>1 DEF ViewFits
        <3> QED BY <1>10, <3>1, <3>2
    <2>3. \A i \in DOMAIN got, j \in DOMAIN rest : got[i][1] < rest[j]
        <3> SUFFICES ASSUME NEW i \in 1..m, NEW j \in 1..(n - 1) PROVE got[i][1] < rest[j]
            BY <1>3, <1>5
        <3>1. got[i][1] \in Nat /\ got[i][1] < p0 /\ p0 < rest[j] /\ rest[j] \in Nat /\ p0 \in Nat
            BY <1>0, <1>3, <1>6, <1>9
        <3> QED BY <3>1
    <2>4. RisingPaths(got)
        BY DEF ViewFits
    <2> QED BY <1>2, <1>3, <1>8, <1>9, <2>1, <2>2, <2>3, <2>4 DEF ViewFits
<1> QED BY <1>12, <1>13

\* What ListingFits says of the reader, over constants.
SteadyIn(op, touched, skipped, rebased) ==
    IF op \in {"presign", "serve", "signed", "served"} /\ rebased = TRUE THEN {}
    ELSE Paths \ (touched \cup skipped)
OverIn(op, last) == last = TRUE \/ op \in {"listed", "signed", "served"}
ListFits(op, got, todo, after, last, touched, skipped, rebased, view) ==
    /\ ViewFits(got, todo, after, OverIn(op, last), SteadyIn(op, touched, skipped, rebased), view)
    /\ op # "listed" => GotBelow(got, after)
    /\ op \in {"tree", "listed", "signed", "served"} => todo = <<>>
    /\ op \notin {"tree", "archive", "listed"} => touched = {}

LEMMA GetFileNow ==
    ASSUME NEW b, NEW at, rd'.b = b, rd'.at = at
    PROVE  \A p \in Paths : GetFile(rd.b, p, rd.at)' = GetFile(b, p, at)'
BY DEF GetFile, Visible, VersionIn, Newest

LEMMA ListingNow ==
    ASSUME NEW view, rd'.last \in BOOLEAN, url'.rebased \in BOOLEAN,
           \A p \in Paths : GetFile(rd.b, p, rd.at)' = view[p],
           ListFits(rd'.op, rd'.got, rd'.todo, rd'.after, rd'.last, rd'.touched, rd'.skipped,
                    url'.rebased, view)
    PROVE  ListingFits'
<1>1. PICK op, got, todo, after, last, touched, skipped, rebased :
          /\ rd'.op = op /\ rd'.got = got /\ rd'.todo = todo /\ rd'.after = after
          /\ rd'.last = last /\ rd'.touched = touched /\ rd'.skipped = skipped
          /\ url'.rebased = rebased
    OBVIOUS
<1>2. /\ ListFits(op, got, todo, after, last, touched, skipped, rebased, view)
      /\ last \in BOOLEAN /\ rebased \in BOOLEAN
    BY <1>1
<1>3. PICK steady : steady = SteadyIn(op, touched, skipped, rebased)
    OBVIOUS
<1>4. PICK over : over = OverIn(op, last)
    OBVIOUS
<1>5. \A p \in Paths : Steady(p)' => p \in steady
    BY <1>1, <1>2, <1>3 DEF Steady, SteadyIn
<1>6. Over' => over
    BY <1>1, <1>2, <1>4 DEF Over, OverIn
<1>7. ViewFits(got, todo, after, over, steady, view)
    BY <1>2, <1>3, <1>4 DEF ListFits
<1>8. ASSUME NEW p \in Paths, Steady(p)'
      PROVE  LET v == GetFile(rd.b, p, rd.at)' IN
             /\ (p <= after \/ Over') /\ v # 0 => p \in Range(todo) \/ <<p, v>> \in Range(got)
             /\ v = 0 => p \notin Range(todo)
             /\ \A i \in DOMAIN got : got[i][1] = p => got[i] = <<p, v>> /\ v # 0
    BY <1>5, <1>6, <1>7, <1>8 DEF ViewFits
<1>9. /\ op # "listed" => \A i \in DOMAIN got : got[i][1] <= after
      /\ op \in {"tree", "listed", "signed", "served"} => todo = <<>>
      /\ op \notin {"tree", "archive", "listed"} => touched = {}
    BY <1>2 DEF ListFits, GotBelow
<1> QED BY <1>1, <1>7, <1>8, <1>9 DEF ListingFits, ViewFits

LEMMA ListingView ==
    ASSUME ReadsTypeOK, StoreFits, ListingFits, rd.op \in Listings,
           NEW op, NEW b, NEW at, NEW got, NEW todo, NEW after, NEW last, NEW touched, NEW skipped,
           NEW rebased, last \in BOOLEAN, rebased \in BOOLEAN,
           rd.op = op, rd.b = b, rd.at = at, rd.got = got, rd.todo = todo, rd.after = after,
           rd.last = last, rd.touched = touched, rd.skipped = skipped, url.rebased = rebased
    PROVE  \E view \in [Paths -> Versions] :
           /\ \A p \in Paths : GetFile(b, p, at) = view[p]
           /\ ListFits(op, got, todo, after, last, touched, skipped, rebased, view)
<1>1. PICK view : view = [p \in Paths |-> GetFile(b, p, at)]
    OBVIOUS
<1>2. view \in [Paths -> Versions] /\ \A p \in Paths : GetFile(b, p, at) = view[p]
    BY <1>1, GetFileType
<1>3. PICK steady : steady = SteadyIn(op, touched, skipped, rebased)
    OBVIOUS
<1>4. PICK over : over = OverIn(op, last)
    OBVIOUS
<1>5. \A p \in steady : p \in Paths /\ Steady(p)
    BY <1>3 DEF Steady, SteadyIn
<1>6. over => Over
    BY <1>4 DEF Over, OverIn
<1>7. ViewFits(got, todo, after, over, steady, view)
    <2>1. ASSUME NEW p \in steady
          PROVE /\ (p <= after \/ over) /\ view[p] # 0 => p \in Range(todo) \/ <<p, view[p]>> \in Range(got)
                /\ view[p] = 0 => p \notin Range(todo)
                /\ \A i \in DOMAIN got : got[i][1] = p => got[i] = <<p, view[p]>> /\ view[p] # 0
        <3>1. p \in Paths /\ Steady(p) /\ GetFile(b, p, at) = view[p]
            BY <1>2, <1>5
        <3>2. LET v == GetFile(rd.b, p, rd.at) IN
               /\ (p <= rd.after \/ Over) /\ v # 0 => p \in Range(rd.todo) \/ <<p, v>> \in Range(rd.got)
               /\ v = 0 => p \notin Range(rd.todo)
               /\ \A i \in DOMAIN rd.got : rd.got[i][1] = p => rd.got[i] = <<p, v>> /\ v # 0
            BY <3>1 DEF ListingFits
        <3>3. GetFile(rd.b, p, rd.at) = view[p]
            BY <3>1
        <3> QED BY <1>6, <3>2, <3>3
    <2> QED BY <2>1 DEF ListingFits, ViewFits
<1>8. /\ op # "listed" => GotBelow(got, after)
      /\ op \in {"tree", "listed", "signed", "served"} => todo = <<>>
      /\ op \notin {"tree", "archive", "listed"} => touched = {}
    BY DEF ListingFits, GotBelow
<1> QED BY <1>2, <1>3, <1>4, <1>7, <1>8 DEF ListFits

LEMMA ViewNarrows ==
    ASSUME NEW got, NEW todo, NEW after, NEW over, NEW steady, NEW view,
           ViewFits(got, todo, after, over, steady, view),
           NEW over2, over2 => over, NEW steady2, steady2 \subseteq steady,
           NEW view2, \A p \in steady2 : view2[p] = view[p]
    PROVE  ViewFits(got, todo, after, over2, steady2, view2)
<1>1. ASSUME NEW p \in steady2
      PROVE /\ (p <= after \/ over2) /\ view2[p] # 0 => p \in Range(todo) \/ <<p, view2[p]>> \in Range(got)
            /\ view2[p] = 0 => p \notin Range(todo)
            /\ \A i \in DOMAIN got : got[i][1] = p => got[i] = <<p, view2[p]>> /\ view2[p] # 0
    <2>1. p \in steady /\ view2[p] = view[p]
        OBVIOUS
    <2>2. /\ (p <= after \/ over) /\ view[p] # 0 => p \in Range(todo) \/ <<p, view[p]>> \in Range(got)
          /\ view[p] = 0 => p \notin Range(todo)
          /\ \A i \in DOMAIN got : got[i][1] = p => got[i] = <<p, view[p]>> /\ view[p] # 0
        BY <2>1 DEF ViewFits
    <2> QED BY <2>1, <2>2
<1> QED BY <1>1 DEF ViewFits

LEMMA StartListing ==
    ASSUME ReadsTypeOK, StoreFits, UNCHANGED <<commits, branches>>, url' \in Archives,
           NEW op \in {"tree", "archive", "presign", "serve"}, NEW b \in Names, NEW at \in Nat,
           rd' = Begin(op, b, at)
    PROVE  ListingFits'
<1>1. /\ rd'.op = op /\ rd'.b = b /\ rd'.at = at /\ rd'.got = <<>> /\ rd'.todo = <<>>
      /\ rd'.after = 0 /\ rd'.last = FALSE /\ rd'.touched = {} /\ rd'.skipped = {}
    BY DEF Begin, Start
<1>2. PICK view : view = [p \in Paths |-> GetFile(b, p, at)]
    OBVIOUS
<1>3. \A p \in Paths : GetFile(b, p, at)' = view[p]
    BY <1>2, GetFileKept
<1>4. PICK rebased : rebased = url'.rebased
    OBVIOUS
<1>5. rebased \in BOOLEAN
    BY <1>4 DEF Archives
<1>6. \A p \in Paths : ~ (p <= 0)
    BY ReadsAssumption DEF Paths
<1>7. PICK steady : steady = SteadyIn(op, {}, {}, rebased)
    OBVIOUS
<1>8. steady \subseteq Paths
    BY <1>7 DEF SteadyIn
<1>9. OverIn(op, FALSE) = FALSE
    BY DEF OverIn
<1>10. ViewFits(<<>>, <<>>, 0, FALSE, steady, view)
    <2>1. DOMAIN <<>> = {} /\ Range(<<>>) = {}
        BY DEF Range
    <2> QED BY <1>6, <1>8, <2>1 DEF ViewFits, RisingPaths, Rising
<1>11. ListFits(op, <<>>, <<>>, 0, FALSE, {}, {}, rebased, view)
    <2>1. DOMAIN <<>> = {}
        OBVIOUS
    <2> QED BY <1>7, <1>9, <1>10, <2>1 DEF ListFits, GotBelow
<1>12. \A p \in Paths : GetFile(rd.b, p, rd.at)' = view[p]
    BY <1>1, <1>3, GetFileNow
<1>13. ListFits(rd'.op, rd'.got, rd'.todo, rd'.after, rd'.last, rd'.touched, rd'.skipped,
                url'.rebased, view)
    BY <1>1, <1>4, <1>11
<1>14. rd'.last \in BOOLEAN /\ url'.rebased \in BOOLEAN
    BY <1>1, <1>4, <1>5
<1> QED BY <1>12, <1>13, <1>14, ListingNow

\* The parts of the reader that the lemmas about listings speak of.
LEMMA ListingParts ==
    ASSUME ReadsTypeOK, StoreFits, ListingFits, rd.op \in Listings,
           NEW op, NEW b, NEW at, NEW got, NEW todo, NEW after, NEW last, NEW touched, NEW skipped,
           NEW rebased,
           rd.op = op, rd.b = b, rd.at = at, rd.got = got, rd.todo = todo, rd.after = after,
           rd.last = last, rd.touched = touched, rd.skipped = skipped, url.rebased = rebased
    PROVE  /\ b \in Names /\ at \in Nat /\ got \in Entries /\ todo \in Seq(Paths) /\ after \in Nat
           /\ last \in BOOLEAN /\ touched \in SUBSET Paths /\ skipped \in SUBSET Paths
           /\ rebased \in BOOLEAN
           /\ OverIn(op, last) \in BOOLEAN /\ SteadyIn(op, touched, skipped, rebased) \in SUBSET Paths
           /\ \E view \in [Paths -> Versions] :
                /\ \A p \in Paths : GetFile(b, p, at) = view[p]
                /\ ListFits(op, got, todo, after, last, touched, skipped, rebased, view)
<1>1. /\ b \in Names /\ at \in Nat /\ got \in Entries /\ todo \in Seq(Paths) /\ after \in Nat
      /\ last \in BOOLEAN /\ touched \in SUBSET Paths /\ skipped \in SUBSET Paths
    BY ReaderFields
<1>2. rebased \in BOOLEAN
    BY DEF ReadsTypeOK, Archives
<1>3. \E view \in [Paths -> Versions] :
                /\ \A p \in Paths : GetFile(b, p, at) = view[p]
                /\ ListFits(op, got, todo, after, last, touched, skipped, rebased, view)
    BY <1>1, <1>2, ListingView
<1>4. OverIn(op, last) \in BOOLEAN /\ SteadyIn(op, touched, skipped, rebased) \in SUBSET Paths
    BY DEF OverIn, SteadyIn
<1> QED BY <1>1, <1>2, <1>3, <1>4

LEMMA TreePageListing ==
    ASSUME ReadsTypeOK, StoreFits, ListingFits, TreePage
    PROVE  ListingFits'
<1>1. PICK op, b, at, got, todo, after, last, touched, skipped, rebased :
          /\ rd.op = op /\ rd.b = b /\ rd.at = at /\ rd.got = got /\ rd.todo = todo
          /\ rd.after = after /\ rd.last = last /\ rd.touched = touched /\ rd.skipped = skipped
          /\ url.rebased = rebased
    OBVIOUS
<1>2. op = "tree" /\ rd.op \in Listings
    BY <1>1 DEF TreePage, Reading, Listings
<1>3. /\ b \in Names /\ at \in Nat /\ got \in Entries /\ todo \in Seq(Paths) /\ after \in Nat
      /\ last \in BOOLEAN /\ touched \in SUBSET Paths /\ skipped \in SUBSET Paths
      /\ rebased \in BOOLEAN
      /\ OverIn(op, last) \in BOOLEAN /\ SteadyIn(op, touched, skipped, rebased) \in SUBSET Paths
      /\ \E view \in [Paths -> Versions] :
             /\ \A p \in Paths : GetFile(b, p, at) = view[p]
             /\ ListFits(op, got, todo, after, last, touched, skipped, rebased, view)
    BY <1>1, <1>2, ListingParts
<1>4. PICK view \in [Paths -> Versions] :
             /\ \A p \in Paths : GetFile(b, p, at) = view[p]
             /\ ListFits(op, got, todo, after, last, touched, skipped, rebased, view)
    BY <1>3
<1>5. PICK page : page = MaterializeTree(b, at, PageSize, after)
    OBVIOUS
<1>6. PICK k \in Nat :
               /\ page \in Seq(Paths) /\ Len(page) = k /\ DOMAIN page = 1..k
               /\ Rising(page) /\ k <= PageSize
               /\ \A i \in 1..k : page[i] \in Paths /\ page[i] > after /\ GetFile(b, page[i], at) # 0
               /\ \A p \in Paths : p > after /\ GetFile(b, p, at) # 0 =>
                      (\E i \in 1..k : page[i] = p) \/ (k = PageSize /\ page[k] < p)
    BY <1>5, TreeIs
<1>7. PICK more : more = [i \in 1..k |-> <<page[i], view[page[i]]>>]
    OBVIOUS
<1>8. PICK end : end = IF k < PageSize THEN after ELSE page[k]
    OBVIOUS
<1>9. PICK op2 : op2 = IF k < PageSize THEN "listed" ELSE "tree"
    OBVIOUS
<1>10. rd' = [rd EXCEPT !.got = got \o more, !.op = op2, !.after = end]
    <2>1. more = [i \in DOMAIN page |-> <<page[i], GetFile(b, page[i], at)>>]
        BY <1>4, <1>6, <1>7
    <2>2. LastPage(page) <=> k < PageSize
        BY <1>6 DEF LastPage
    <2>3. rd' = [rd EXCEPT
           !.got = got \o [i \in DOMAIN page |-> <<page[i], GetFile(b, page[i], at)>>],
           !.op = IF LastPage(page) THEN "listed" ELSE "tree",
           !.after = IF LastPage(page) THEN after ELSE page[Len(page)]]
        BY <1>1, <1>5 DEF TreePage
    <2> QED BY <1>6, <1>8, <1>9, <2>1, <2>2, <2>3
<1>11. PICK over, steady : over = OverIn(op, last) /\ steady = SteadyIn(op, touched, skipped, rebased)
    OBVIOUS
<1>12. todo = <<>> /\ ViewFits(got, <<>>, after, over, steady, view) /\ GotBelow(got, after)
    BY <1>2, <1>4, <1>11 DEF ListFits
<1>13. over \in BOOLEAN /\ steady \in SUBSET Paths
    BY <1>3, <1>11
<1>14. PageOf(page, k, after, view)
    BY <1>4, <1>6 DEF PageOf
<1>16. PICK over2, steady2 : over2 = OverIn(op2, last) /\ steady2 = SteadyIn(op2, touched, skipped, rebased)
    OBVIOUS
<1>17. over2 \in BOOLEAN /\ (over2 => over \/ k < PageSize) /\ steady2 = steady
    BY <1>2, <1>9, <1>11, <1>16 DEF OverIn, SteadyIn
<1>18. /\ ViewFits(got \o more, <<>>, end, over2, steady2, view)
       /\ ~ (k < PageSize) => GotBelow(got \o more, end)
    <2>1. got \in Entries /\ after \in Nat
        BY <1>3
    <2> QED BY <1>7, <1>8, <1>12, <1>13, <1>14, <1>17, <2>1, TreeViewFits
<1>19. ListFits(op2, got \o more, <<>>, end, last, touched, skipped, rebased, view)
    BY <1>9, <1>16, <1>18 DEF ListFits
<1>20. \A p \in Paths : GetFile(b, p, at)' = view[p]
    BY <1>4, GetFileKept DEF TreePage, OnlyReader
<1>21. /\ rd'.op = op2 /\ rd'.b = b /\ rd'.at = at /\ rd'.got = got \o more /\ rd'.todo = <<>>
       /\ rd'.after = end /\ rd'.last = last /\ rd'.touched = touched /\ rd'.skipped = skipped
    <2>1. rd \in Readers(Entries)
        BY <1>2, ReaderFields
    <2> QED BY <1>1, <1>10, <1>12, <2>1 DEF Readers
<1>22. url'.rebased = rebased
    BY <1>1 DEF TreePage, OnlyReader
<1>23. \A p \in Paths : GetFile(rd.b, p, rd.at)' = view[p]
    BY <1>20, <1>21, GetFileNow
<1>24. ListFits(rd'.op, rd'.got, rd'.todo, rd'.after, rd'.last, rd'.touched, rd'.skipped,
                url'.rebased, view)
    BY <1>19, <1>21, <1>22
<1> QED BY <1>3, <1>21, <1>22, <1>23, <1>24, ListingNow

LEMMA ArchivePageListing ==
    ASSUME ReadsTypeOK, StoreFits, ListingFits, ArchivePage
    PROVE  ListingFits'
<1>1. PICK op, b, at, got, todo, after, last, touched, skipped, rebased :
          /\ rd.op = op /\ rd.b = b /\ rd.at = at /\ rd.got = got /\ rd.todo = todo
          /\ rd.after = after /\ rd.last = last /\ rd.touched = touched /\ rd.skipped = skipped
          /\ url.rebased = rebased
    OBVIOUS
<1>2. op \in {"archive", "presign", "serve"} /\ rd.op \in Listings
    BY <1>1 DEF ArchivePage, Archiving, Listings
<1>3. /\ b \in Names /\ at \in Nat /\ got \in Entries /\ todo \in Seq(Paths) /\ after \in Nat
      /\ last \in BOOLEAN /\ touched \in SUBSET Paths /\ skipped \in SUBSET Paths
      /\ rebased \in BOOLEAN
      /\ OverIn(op, last) \in BOOLEAN /\ SteadyIn(op, touched, skipped, rebased) \in SUBSET Paths
      /\ \E view \in [Paths -> Versions] :
             /\ \A p \in Paths : GetFile(b, p, at) = view[p]
             /\ ListFits(op, got, todo, after, last, touched, skipped, rebased, view)
    BY <1>1, <1>2, ListingParts
<1>4. PICK view \in [Paths -> Versions] :
             /\ \A p \in Paths : GetFile(b, p, at) = view[p]
             /\ ListFits(op, got, todo, after, last, touched, skipped, rebased, view)
    BY <1>3
<1>5. PICK page : page = MaterializeTree(b, at, PageSize, after)
    OBVIOUS
<1>6. PICK k \in Nat :
               /\ page \in Seq(Paths) /\ Len(page) = k /\ DOMAIN page = 1..k
               /\ Rising(page) /\ k <= PageSize
               /\ \A i \in 1..k : page[i] \in Paths /\ page[i] > after /\ GetFile(b, page[i], at) # 0
               /\ \A p \in Paths : p > after /\ GetFile(b, p, at) # 0 =>
                      (\E i \in 1..k : page[i] = p) \/ (k = PageSize /\ page[k] < p)
    BY <1>5, TreeIs
<1>7. PICK end : end = IF page = <<>> THEN after ELSE page[k]
    OBVIOUS
<1>8. PICK last2 : last2 = LastPage(page)
    OBVIOUS
<1>9. last2 = TRUE <=> k < PageSize
    BY <1>6, <1>8 DEF LastPage
<1>10. rd' = [rd EXCEPT !.todo = page, !.last = last2, !.after = end]
    <2>1. rd' = [rd EXCEPT !.todo = page, !.last = LastPage(page),
                           !.after = IF page = <<>> THEN after ELSE page[Len(page)]]
        BY <1>1, <1>5 DEF ArchivePage
    <2> QED BY <1>6, <1>7, <1>8, <2>1
<1>11. PICK over, steady : over = OverIn(op, last) /\ steady = SteadyIn(op, touched, skipped, rebased)
    OBVIOUS
<1>12. todo = <<>>
    BY <1>1 DEF ArchivePage
<1>13. ViewFits(got, <<>>, after, over, steady, view) /\ GotBelow(got, after)
    BY <1>2, <1>4, <1>11, <1>12 DEF ListFits
<1>14. PageOf(page, k, after, view)
    BY <1>4, <1>6 DEF PageOf
<1>15. PICK over2 : over2 = OverIn(op, last2)
    OBVIOUS
<1>16. over2 \in BOOLEAN /\ (over2 => over \/ k < PageSize)
    BY <1>2, <1>9, <1>11, <1>15 DEF OverIn
<1>17. ViewFits(got, page, end, over2, steady, view) /\ GotBelow(got, end)
    <2>1. got \in Entries /\ after \in Nat /\ over \in BOOLEAN /\ steady \in SUBSET Paths
        BY <1>3, <1>11
    <2> QED BY <1>7, <1>13, <1>14, <1>16, <2>1, PageViewFits
<1>18. ListFits(op, got, page, end, last2, touched, skipped, rebased, view)
    BY <1>2, <1>4, <1>11, <1>15, <1>17 DEF ListFits
<1>19. /\ rd'.op = op /\ rd'.b = b /\ rd'.at = at /\ rd'.got = got /\ rd'.todo = page
       /\ rd'.after = end /\ rd'.last = last2 /\ rd'.touched = touched /\ rd'.skipped = skipped
    <2>1. rd \in Readers(Entries)
        BY <1>2, ReaderFields
    <2> QED BY <1>1, <1>10, <2>1 DEF Readers
<1>20. url'.rebased = rebased
    BY <1>1 DEF ArchivePage, OnlyReader
<1>21. \A p \in Paths : GetFile(b, p, at)' = view[p]
    BY <1>4, GetFileKept DEF ArchivePage, OnlyReader
<1>22. \A p \in Paths : GetFile(rd.b, p, rd.at)' = view[p]
    BY <1>19, <1>21, GetFileNow
<1>23. ListFits(rd'.op, rd'.got, rd'.todo, rd'.after, rd'.last, rd'.touched, rd'.skipped,
                url'.rebased, view)
    BY <1>18, <1>19, <1>20
<1>24. rd'.last \in BOOLEAN
    BY ArchivePageTyped DEF ReaderTyped, Readers
<1> QED BY <1>3, <1>20, <1>22, <1>23, <1>24, ListingNow

\* A page that fails ends an archive at its cursor.
LEMMA ArchivePageFailsListing ==
    ASSUME ReadsTypeOK, StoreFits, ListingFits, ArchivePageFails, rd.op # "presign"
    PROVE  ListingFits' /\ rd'.b = rd.b /\ rd'.at = rd.at
<1>1. PICK op, b, at, got, todo, after, last, touched, skipped, rebased :
          /\ rd.op = op /\ rd.b = b /\ rd.at = at /\ rd.got = got /\ rd.todo = todo
          /\ rd.after = after /\ rd.last = last /\ rd.touched = touched /\ rd.skipped = skipped
          /\ url.rebased = rebased
    OBVIOUS
<1>2. op \in {"archive", "serve"} /\ rd.op \in Listings
    BY <1>1 DEF ArchivePageFails, Archiving, Listings
<1>3. /\ b \in Names /\ at \in Nat /\ got \in Entries /\ todo \in Seq(Paths) /\ after \in Nat
      /\ last \in BOOLEAN /\ touched \in SUBSET Paths /\ skipped \in SUBSET Paths
      /\ rebased \in BOOLEAN
      /\ OverIn(op, last) \in BOOLEAN /\ SteadyIn(op, touched, skipped, rebased) \in SUBSET Paths
      /\ \E view \in [Paths -> Versions] :
             /\ \A p \in Paths : GetFile(b, p, at) = view[p]
             /\ ListFits(op, got, todo, after, last, touched, skipped, rebased, view)
    BY <1>1, <1>2, ListingParts
<1>4. PICK view \in [Paths -> Versions] :
             /\ \A p \in Paths : GetFile(b, p, at) = view[p]
             /\ ListFits(op, got, todo, after, last, touched, skipped, rebased, view)
    BY <1>3
<1>5. PICK skipped2 : skipped2 = skipped \cup {p \in Paths : p > after}
    OBVIOUS
<1>6. rd' = [rd EXCEPT !.last = TRUE, !.skipped = skipped2] /\ url' = url
      /\ UNCHANGED <<commits, branches>>
    BY <1>1, <1>5 DEF ArchivePageFails
<1>7. PICK over, steady : over = OverIn(op, last) /\ steady = SteadyIn(op, touched, skipped, rebased)
    OBVIOUS
<1>8. PICK steady2 : steady2 = SteadyIn(op, touched, skipped2, rebased)
    OBVIOUS
<1>9. ViewFits(got, todo, after, over, steady, view) /\ GotBelow(got, after)
    BY <1>2, <1>4, <1>7 DEF ListFits
<1>10. steady2 \subseteq steady /\ \A p \in steady2 : p <= after
    <2>1. steady2 \subseteq steady /\ \A p \in steady2 : p \in Paths /\ ~ (p > after)
        BY <1>5, <1>7, <1>8 DEF SteadyIn
    <2>2. Paths \subseteq Nat
        BY ReadsAssumption DEF Paths
    <2> QED BY <1>3, <2>1, <2>2
<1>11. ViewFits(got, todo, after, TRUE, steady2, view)
    <2>1. ASSUME NEW p \in steady2
          PROVE /\ view[p] # 0 => p \in Range(todo) \/ <<p, view[p]>> \in Range(got)
                /\ view[p] = 0 => p \notin Range(todo)
                /\ \A i \in DOMAIN got : got[i][1] = p => got[i] = <<p, view[p]>> /\ view[p] # 0
        <3>1. p \in steady /\ p <= after
            BY <1>10
        <3> QED BY <1>9, <3>1 DEF ViewFits
    <2> QED BY <1>9, <2>1 DEF ViewFits
<1>12. OverIn(op, TRUE) = TRUE
    BY DEF OverIn
<1>13. ListFits(op, got, todo, after, TRUE, touched, skipped2, rebased, view)
    BY <1>2, <1>4, <1>8, <1>9, <1>11, <1>12 DEF ListFits
<1>14. /\ rd'.op = op /\ rd'.b = b /\ rd'.at = at /\ rd'.got = got /\ rd'.todo = todo
       /\ rd'.after = after /\ rd'.last = TRUE /\ rd'.touched = touched /\ rd'.skipped = skipped2
    <2>1. rd \in Readers(Entries)
        BY <1>2, ReaderFields
    <2> QED BY <1>1, <1>6, <2>1 DEF Readers
<1>15. url'.rebased = rebased
    BY <1>1, <1>6
<1>16. \A p \in Paths : GetFile(b, p, at)' = view[p]
    BY <1>4, <1>6, GetFileKept
<1>17. \A p \in Paths : GetFile(rd.b, p, rd.at)' = view[p]
    BY <1>14, <1>16, GetFileNow
<1>18. ListFits(rd'.op, rd'.got, rd'.todo, rd'.after, rd'.last, rd'.touched, rd'.skipped,
                url'.rebased, view)
    BY <1>13, <1>14, <1>15
<1>19. rd'.last \in BOOLEAN /\ url'.rebased \in BOOLEAN
    BY <1>3, <1>14, <1>15
<1>20. ListingFits'
    BY <1>17, <1>18, <1>19, ListingNow
<1> QED BY <1>1, <1>14, <1>20

LEMMA ArchiveFileListing ==
    ASSUME ReadsTypeOK, StoreFits, ListingFits, NEW ok \in BOOLEAN, ArchiveFile(ok)
    PROVE  ListingFits'
<1>1. PICK op, b, at, got, todo, after, last, touched, skipped, rebased :
          /\ rd.op = op /\ rd.b = b /\ rd.at = at /\ rd.got = got /\ rd.todo = todo
          /\ rd.after = after /\ rd.last = last /\ rd.touched = touched /\ rd.skipped = skipped
          /\ url.rebased = rebased
    OBVIOUS
<1>2. op \in {"archive", "presign", "serve"} /\ rd.op \in Listings
    BY <1>1 DEF ArchiveFile, Archiving, Listings
<1>3. /\ b \in Names /\ at \in Nat /\ got \in Entries /\ todo \in Seq(Paths) /\ after \in Nat
      /\ last \in BOOLEAN /\ touched \in SUBSET Paths /\ skipped \in SUBSET Paths
      /\ rebased \in BOOLEAN
      /\ OverIn(op, last) \in BOOLEAN /\ SteadyIn(op, touched, skipped, rebased) \in SUBSET Paths
      /\ \E view \in [Paths -> Versions] :
             /\ \A p \in Paths : GetFile(b, p, at) = view[p]
             /\ ListFits(op, got, todo, after, last, touched, skipped, rebased, view)
    BY <1>1, <1>2, ListingParts
<1>4. PICK view \in [Paths -> Versions] :
             /\ \A p \in Paths : GetFile(b, p, at) = view[p]
             /\ ListFits(op, got, todo, after, last, touched, skipped, rebased, view)
    BY <1>3
<1>5. PICK p0 : p0 = Head(todo)
    OBVIOUS
<1>6. todo # <<>>
    BY <1>1 DEF ArchiveFile
<1>7. p0 \in Paths
    BY <1>3, <1>5, <1>6, HeadTailProperties
<1>8. PICK more : more = IF ok /\ view[p0] # 0 THEN Append(got, <<p0, view[p0]>>) ELSE got
    OBVIOUS
<1>9. PICK skipped2 : skipped2 = IF ok THEN skipped ELSE skipped \cup {p0}
    OBVIOUS
<1>10. rd' = [rd EXCEPT !.todo = Tail(todo), !.got = more, !.skipped = skipped2]
    <2>1. GetFile(b, p0, at) = view[p0]
        BY <1>4, <1>7
    <2>2. rd' = [rd EXCEPT !.todo = Tail(todo),
                   !.got = IF ok /\ GetFile(b, p0, at) # 0 THEN Append(got, <<p0, GetFile(b, p0, at)>>) ELSE got,
                   !.skipped = IF ok THEN skipped ELSE skipped \cup {p0}]
        BY <1>1, <1>5 DEF ArchiveFile
    <2> QED BY <1>8, <1>9, <2>1, <2>2
<1>11. PICK over, steady : over = OverIn(op, last) /\ steady = SteadyIn(op, touched, skipped, rebased)
    OBVIOUS
<1>12. ViewFits(got, todo, after, over, steady, view) /\ GotBelow(got, after)
    BY <1>2, <1>4, <1>11 DEF ListFits
<1>13. PICK left : left = IF ok THEN steady ELSE steady \ {p0}
    OBVIOUS
<1>14. left = SteadyIn(op, touched, skipped2, rebased)
    BY <1>9, <1>11, <1>13 DEF SteadyIn
<1>15. ViewFits(more, Tail(todo), after, over, left, view) /\ GotBelow(more, after)
    <2>1. got \in Entries /\ todo \in Seq(Paths) /\ after \in Nat /\ over \in BOOLEAN /\ steady \in SUBSET Paths
        BY <1>3, <1>11
    <2>2. got \in Entries
        BY <2>1
    <2>3. todo \in Seq(Paths)
        BY <2>1
    <2>4. after \in Nat /\ over \in BOOLEAN /\ steady \in SUBSET Paths
        BY <2>1
    <2>5. view \in [Paths -> Versions]
        OBVIOUS
    <2>6. \/ view[p0] # 0 /\ more = Append(got, <<p0, view[p0]>>)
          \/ more = got /\ (p0 \in left => view[p0] = 0)
        BY <1>8, <1>13
    <2>7. left \subseteq steady
        BY <1>13
    <2> QED BY ONLY <1>5, <1>6, <1>12, <2>2, <2>3, <2>4, <2>5, <2>6, <2>7, FileViewFits
<1>18. ListFits(op, more, Tail(todo), after, last, touched, skipped2, rebased, view)
    BY <1>2, <1>4, <1>11, <1>14, <1>15 DEF ListFits
<1>19. /\ rd'.op = op /\ rd'.b = b /\ rd'.at = at /\ rd'.got = more /\ rd'.todo = Tail(todo)
       /\ rd'.after = after /\ rd'.last = last /\ rd'.touched = touched /\ rd'.skipped = skipped2
    <2>1. rd \in Readers(Entries)
        BY <1>2, ReaderFields
    <2>2. PICK rest : rest = Tail(todo)
        OBVIOUS
    <2>3. rd' = [rd EXCEPT !.todo = rest, !.got = more, !.skipped = skipped2]
        BY <1>10, <2>2
    <2> QED BY <1>1, <2>1, <2>2, <2>3 DEF Readers
<1>20. url'.rebased = rebased
    BY <1>1 DEF ArchiveFile, OnlyReader
<1>21. \A p \in Paths : GetFile(b, p, at)' = view[p]
    BY <1>4, GetFileKept DEF ArchiveFile, OnlyReader
<1>22. \A p \in Paths : GetFile(rd.b, p, rd.at)' = view[p]
    BY <1>19, <1>21, GetFileNow
<1>23. ListFits(rd'.op, rd'.got, rd'.todo, rd'.after, rd'.last, rd'.touched, rd'.skipped,
                url'.rebased, view)
    BY <1>18, <1>19, <1>20
<1> QED BY <1>3, <1>19, <1>20, <1>22, <1>23, ListingNow

LEMMA ArchiveEndListing ==
    ASSUME ReadsTypeOK, StoreFits, ListingFits, ArchiveEnd
    PROVE  ListingFits'
<1>1. PICK op, b, at, got, todo, after, last, touched, skipped, rebased :
          /\ rd.op = op /\ rd.b = b /\ rd.at = at /\ rd.got = got /\ rd.todo = todo
          /\ rd.after = after /\ rd.last = last /\ rd.touched = touched /\ rd.skipped = skipped
          /\ url.rebased = rebased
    OBVIOUS
<1>2. op \in {"archive", "presign", "serve"} /\ rd.op \in Listings
    BY <1>1 DEF ArchiveEnd, Archiving, Listings
<1>3. /\ b \in Names /\ at \in Nat /\ got \in Entries /\ todo \in Seq(Paths) /\ after \in Nat
      /\ last \in BOOLEAN /\ touched \in SUBSET Paths /\ skipped \in SUBSET Paths
      /\ rebased \in BOOLEAN
      /\ OverIn(op, last) \in BOOLEAN /\ SteadyIn(op, touched, skipped, rebased) \in SUBSET Paths
      /\ \E view \in [Paths -> Versions] :
             /\ \A p \in Paths : GetFile(b, p, at) = view[p]
             /\ ListFits(op, got, todo, after, last, touched, skipped, rebased, view)
    BY <1>1, <1>2, ListingParts
<1>4. PICK view \in [Paths -> Versions] :
             /\ \A p \in Paths : GetFile(b, p, at) = view[p]
             /\ ListFits(op, got, todo, after, last, touched, skipped, rebased, view)
    BY <1>3
<1>5. PICK op2 : op2 = rd'.op
    OBVIOUS
<1>6. \/ op = "archive" /\ op2 = "listed"
      \/ op = "presign" /\ op2 = "signed"
      \/ op = "serve" /\ op2 = "served"
    BY <1>1, <1>5, ArchiveEndTyped
<1>7. todo = <<>> /\ last = TRUE
    BY <1>1, <1>3 DEF ArchiveEnd
<1>8. OverIn(op2, last) = OverIn(op, last)
    BY <1>7 DEF OverIn
<1>9. SteadyIn(op2, touched, skipped, rebased) = SteadyIn(op, touched, skipped, rebased)
    BY <1>6 DEF SteadyIn
<1>10. ListFits(op2, got, todo, after, last, touched, skipped, rebased, view)
    BY <1>4, <1>6, <1>7, <1>8, <1>9 DEF ListFits
<1>19. /\ rd'.op = op2 /\ rd'.b = b /\ rd'.at = at /\ rd'.got = got /\ rd'.todo = todo
       /\ rd'.after = after /\ rd'.last = last /\ rd'.touched = touched /\ rd'.skipped = skipped
    <2>1. rd \in Readers(Entries)
        BY <1>2, ReaderFields
    <2>2. \E x : rd' = [rd EXCEPT !.op = x]
        BY DEF ArchiveEnd, Finished
    <2>3. PICK x : rd' = [rd EXCEPT !.op = x]
        BY <2>2
    <2> QED BY <1>1, <1>5, <2>1, <2>3 DEF Readers
<1>20. url'.rebased = rebased
    BY <1>1 DEF ArchiveEnd, Archive
<1>21. \A p \in Paths : GetFile(b, p, at)' = view[p]
    BY <1>4, GetFileKept DEF ArchiveEnd
<1>22. \A p \in Paths : GetFile(rd.b, p, rd.at)' = view[p]
    BY <1>19, <1>21, GetFileNow
<1>23. ListFits(rd'.op, rd'.got, rd'.todo, rd'.after, rd'.last, rd'.touched, rd'.skipped,
                url'.rebased, view)
    BY <1>10, <1>19, <1>20
<1> QED BY <1>3, <1>19, <1>20, <1>22, <1>23, ListingNow

LEMMA WriteListingBody ==
    ASSUME ReadsTypeOK, StoreFits, ListingFits, StoreGrows, StoreTyped, ReaderNotes,
           url'.rebased \in BOOLEAN, url.rebased = TRUE => url'.rebased = TRUE,
           rd.op \in {"presign", "serve"} =>
               /\ rd.at # Latest /\ rd.at <= branches[rd.b].head
               /\ url'.rebased = TRUE \/ branches'[rd.b].base = branches[rd.b].base,
           rd.op \in Listings
    PROVE  ListingFits'
<1>1. PICK op, b, at, got, todo, after, last, touched, skipped, rebased :
          /\ rd.op = op /\ rd.b = b /\ rd.at = at /\ rd.got = got /\ rd.todo = todo
          /\ rd.after = after /\ rd.last = last /\ rd.touched = touched /\ rd.skipped = skipped
          /\ url.rebased = rebased
    OBVIOUS
<1>2. op \in {"tree", "archive", "presign", "serve"} /\ rd.op \in Listings
    BY <1>1, NotesReader DEF Done, Listings
<1>3. /\ b \in Names /\ at \in Nat /\ got \in Entries /\ todo \in Seq(Paths) /\ after \in Nat
      /\ last \in BOOLEAN /\ touched \in SUBSET Paths /\ skipped \in SUBSET Paths
      /\ rebased \in BOOLEAN
      /\ OverIn(op, last) \in BOOLEAN /\ SteadyIn(op, touched, skipped, rebased) \in SUBSET Paths
      /\ \E view \in [Paths -> Versions] :
             /\ \A p \in Paths : GetFile(b, p, at) = view[p]
             /\ ListFits(op, got, todo, after, last, touched, skipped, rebased, view)
    BY <1>1, <1>2, ListingParts
<1>4. PICK view \in [Paths -> Versions] :
             /\ \A p \in Paths : GetFile(b, p, at) = view[p]
             /\ ListFits(op, got, todo, after, last, touched, skipped, rebased, view)
    BY <1>3
<1>5. PICK view2 : view2 = [p \in Paths |-> GetFile(b, p, at)']
    OBVIOUS
<1>6. \A p \in Paths : GetFile(b, p, at)' = view2[p]
    BY <1>5
<1>7. PICK rebased2 : url'.rebased = rebased2
    OBVIOUS
<1>8. \E T \in SUBSET Paths :
          /\ rd' = [rd EXCEPT !.touched = T] /\ touched \subseteq T
          /\ op \notin {"tree", "archive"} => T = touched
          /\ \A p \in SteadyIn(op, T, skipped, rebased2) : view2[p] = view[p]
    <2>1. CASE op \in {"tree", "archive"}
        <3>1. Listing
            BY <1>1, <2>1 DEF Listing
        <3>2. PICK T \in SUBSET Paths :
                 /\ rd' = [rd EXCEPT !.touched = T] /\ rd.touched \subseteq T
                 /\ \A bb, aa : bb = rd.b /\ aa = rd.at =>
                        \A p \in Paths \ T : GetFile(bb, p, aa)' = GetFile(bb, p, aa)
            BY <3>1, NotesReader
        <3>3. \A p \in Paths \ T : GetFile(b, p, at)' = GetFile(b, p, at)
            BY <1>1, <3>2
        <3>4. \A p \in Paths \ T : view2[p] = view[p]
            BY <1>4, <1>6, <3>3
        <3>5. SteadyIn(op, T, skipped, rebased2) \subseteq Paths \ T
            BY DEF SteadyIn
        <3>6. \A p \in SteadyIn(op, T, skipped, rebased2) : view2[p] = view[p]
            BY <3>4, <3>5
        <3> QED BY <1>1, <2>1, <3>2, <3>6
    <2>2. CASE op \in {"presign", "serve"}
        <3>1. ~ Listing
            BY <1>1, <2>2 DEF Listing
        <3>2. rd' = rd
            BY <3>1, NotesReader
        <3>3. rd' = [rd EXCEPT !.touched = touched]
            <4>1. rd \in Readers(Entries)
                BY <1>2, ReaderFields
            <4> QED BY <1>1, <3>2, <4>1 DEF Readers
        <3>4. ASSUME NEW p \in SteadyIn(op, touched, skipped, rebased2) PROVE view2[p] = view[p]
            <4>1. p \in Paths /\ rebased2 # TRUE
                BY <2>2 DEF SteadyIn
            <4>2. at # Latest /\ at <= branches[b].head /\ branches'[b].base = branches[b].base
                BY <1>1, <1>7, <2>2, <4>1
            <4>3. GetFile(b, p, at)' = GetFile(b, p, at)
                BY <1>3, <4>2, GetFileSteady
            <4> QED BY <1>4, <1>6, <4>1, <4>3
        <3> QED BY <1>3, <3>3, <3>4
    <2> QED BY <1>2, <2>1, <2>2
<1>9. PICK T \in SUBSET Paths :
          /\ rd' = [rd EXCEPT !.touched = T] /\ touched \subseteq T
          /\ op \notin {"tree", "archive"} => T = touched
          /\ \A p \in SteadyIn(op, T, skipped, rebased2) : view2[p] = view[p]
    BY <1>8
<1>10. PICK over, steady : over = OverIn(op, last) /\ steady = SteadyIn(op, touched, skipped, rebased)
    OBVIOUS
<1>11. PICK steady2 : steady2 = SteadyIn(op, T, skipped, rebased2)
    OBVIOUS
<1>12. ViewFits(got, todo, after, over, steady, view)
    BY <1>4, <1>10 DEF ListFits
<1>13. steady2 \subseteq steady
    BY <1>1, <1>7, <1>9, <1>10, <1>11 DEF SteadyIn
<1>14. ViewFits(got, todo, after, over, steady2, view2)
    <2>1. \A p \in steady2 : view2[p] = view[p]
        BY <1>9, <1>11
    <2>2. over => over
        OBVIOUS
    <2> QED BY ONLY <1>12, <1>13, <2>1, <2>2, ViewNarrows
<1>15. ListFits(op, got, todo, after, last, T, skipped, rebased2, view2)
    BY <1>4, <1>9, <1>10, <1>11, <1>14 DEF ListFits
<1>19. /\ rd'.op = op /\ rd'.b = b /\ rd'.at = at /\ rd'.got = got /\ rd'.todo = todo
       /\ rd'.after = after /\ rd'.last = last /\ rd'.touched = T /\ rd'.skipped = skipped
    <2>1. rd \in Readers(Entries)
        BY <1>2, ReaderFields
    <2> QED BY <1>1, <1>9, <2>1 DEF Readers
<1>22. \A p \in Paths : GetFile(rd.b, p, rd.at)' = view2[p]
    BY <1>6, <1>19, GetFileNow
<1>23. ListFits(rd'.op, rd'.got, rd'.todo, rd'.after, rd'.last, rd'.touched, rd'.skipped,
                url'.rebased, view2)
    BY <1>7, <1>15, <1>19
<1> QED BY <1>3, <1>19, <1>22, <1>23, ListingNow

\* A write: what it changes is noted by a listing, and a presigned archive is of a
\* sequence below it.
LEMMA WriteListing ==
    ASSUME ReadsTypeOK, StoreFits, ListingFits, StoreGrows, StoreTyped, ReaderNotes,
           url'.rebased \in BOOLEAN, url.rebased = TRUE => url'.rebased = TRUE,
           rd.op \in {"presign", "serve"} =>
               /\ rd.at # Latest /\ rd.at <= branches[rd.b].head
               /\ url'.rebased = TRUE \/ branches'[rd.b].base = branches[rd.b].base
    PROVE  ListingFits'
<1>0. CASE rd.op \notin Listings
    <2>1. rd'.op \notin Listings
        BY <1>0, NotesReader
    <2> QED BY <2>1 DEF ListingFits
<1>00. CASE rd.op \in Listings
  BY <1>00, WriteListingBody
<1> QED BY <1>0, <1>00

\* Complete, over a view.
CompleteIn(entries, view) ==
    /\ RisingPaths(entries)
    /\ \A p \in Paths, v \in Versions : <<p, v>> \in Range(entries) <=> v # 0 /\ v = view[p]

LEMMA WholeView ==
    ASSUME NEW got \in Entries, NEW view \in [Paths -> Versions], NEW after,
           ViewFits(got, <<>>, after, TRUE, Paths, view)
    PROVE  CompleteIn(got, view)
<1>1. RisingPaths(got)
    BY DEF ViewFits
<1>2. ASSUME NEW p \in Paths, NEW v \in Versions
      PROVE  <<p, v>> \in Range(got) <=> v # 0 /\ v = view[p]
    <2>1. /\ view[p] # 0 => p \in Range(<<>>) \/ <<p, view[p]>> \in Range(got)
          /\ \A i \in DOMAIN got : got[i][1] = p => got[i] = <<p, view[p]>> /\ view[p] # 0
        BY DEF ViewFits
    <2>2. p \notin Range(<<>>)
        BY DEF Range
    <2>3. ASSUME <<p, v>> \in Range(got) PROVE v # 0 /\ v = view[p]
        <3>1. PICK i \in DOMAIN got : got[i] = <<p, v>>
            BY <2>3 DEF Range
        <3>2. got[i] = <<p, view[p]>> /\ view[p] # 0
            BY <2>1, <3>1
        <3>3. got[i][2] = v /\ got[i][2] = view[p]
            <4>1. <<p, v>>[2] = v /\ <<p, view[p]>>[2] = view[p]
                OBVIOUS
            <4> QED BY <3>1, <3>2, <4>1
        <3> QED BY <3>2, <3>3
    <2>4. ASSUME v # 0, v = view[p] PROVE <<p, v>> \in Range(got)
        BY <2>1, <2>2, <2>4
    <2> QED BY <2>3, <2>4
<1> QED BY <1>1, <1>2 DEF CompleteIn

LEMMA SameView ==
    ASSUME NEW e \in Entries, NEW f \in Entries, NEW view, CompleteIn(e, view), CompleteIn(f, view)
    PROVE  e = f
<1>1. ASSUME NEW g \in Entries, NEW x \in Range(g)
      PROVE  \E p \in Paths, v \in Versions : x = <<p, v>>
    <2>1. PICK i \in DOMAIN g : x = g[i]
        BY DEF Range
    <2>2. g[i] = <<g[i][1], g[i][2]>> /\ g[i][1] \in Paths /\ g[i][2] \in Versions
        BY EntryFields
    <2> QED BY <2>1, <2>2
<1>2. ASSUME NEW x \in Range(e) PROVE x \in Range(f)
    <2>1. PICK p \in Paths, v \in Versions : x = <<p, v>>
        BY <1>1
    <2>2. v # 0 /\ v = view[p]
        BY <2>1 DEF CompleteIn
    <2> QED BY <2>1, <2>2 DEF CompleteIn
<1>3. ASSUME NEW x \in Range(f) PROVE x \in Range(e)
    <2>1. PICK p \in Paths, v \in Versions : x = <<p, v>>
        BY <1>1
    <2>2. v # 0 /\ v = view[p]
        BY <2>1 DEF CompleteIn
    <2> QED BY <2>1, <2>2 DEF CompleteIn
<1>4. Range(e) = Range(f) /\ RisingPaths(e) /\ RisingPaths(f)
    BY <1>2, <1>3 DEF CompleteIn
<1> QED BY <1>4, SameEntries

LEMMA CompleteNow ==
    ASSUME NEW c, NEW b, NEW a, NEW view, url'.checksum = c, url'.b = b, url'.sig[2] = a,
           \A p \in Paths : GetFile(b, p, a)' = view[p], CompleteIn(c, view)
    PROVE  Complete(url.checksum, url.b, url.sig[2])'
<1>1. \A p \in Paths : GetFile(url.b, p, url.sig[2])' = GetFile(b, p, a)'
    BY DEF GetFile, Visible, VersionIn, Newest
<1>2. \A p \in Paths : GetFile(url.b, p, url.sig[2])' = view[p]
    BY <1>1
<1> QED BY <1>2 DEF Complete, CompleteIn

LEMMA CompleteView ==
    ASSUME NEW c, NEW b, NEW a, Complete(c, b, a), NEW view, \A p \in Paths : GetFile(b, p, a) = view[p]
    PROVE  CompleteIn(c, view)
BY DEF Complete, CompleteIn

\* The presigned archive through a step that keeps its signature.
LEMMA UrlStep ==
    ASSUME ReadsTypeOK, StoreFits, UrlFits,
           url'.sig = url.sig, url'.b = url.b, url'.checksum = url.checksum,
           url'.partial = url.partial, ~ url'.rebased => ~ url.rebased,
           \A b \in Names : branches'[b].head \in Nat /\ branches[b].head <= branches'[b].head,
           \A b \in Names, a \in Nat :
               b = url.b /\ a = url.sig[2] /\ a # Latest /\ a <= branches[b].head /\ ~ url'.rebased =>
                   \A p \in Paths : GetFile(b, p, a)' = GetFile(b, p, a),
           rd'.op = "presign" => rd.op = "presign" /\ rd'.b = rd.b /\ rd'.at = rd.at,
           rd'.op \in {"serve", "served"} => rd'.at # Latest /\ url.sig = <<rd'.b, rd'.at>>
    PROVE  UrlFits'
<1>1. PICK sig, b, c, a : url.sig = sig /\ url.b = b /\ url.checksum = c /\ a = sig[2]
    OBVIOUS
<1>2. a \in Nat
    BY <1>1 DEF ReadsTypeOK, Archives
<1>3. ASSUME url'.sig # NoSig
      PROVE  /\ url'.sig[1] = url'.b /\ url'.b \in Names
             /\ 0 < url'.sig[2] /\ url'.sig[2] <= branches'[url'.b].head
             /\ ~ url'.rebased /\ url'.partial = {} => Complete(url.checksum, url.b, url.sig[2])'
    <2>1. sig[1] = b /\ b \in Names /\ 0 < a /\ a <= branches[b].head
        BY <1>1, <1>3 DEF UrlFits
    <2>2. a <= branches'[b].head
        <3>1. PICK h, k : h = branches[b].head /\ k = branches'[b].head
            OBVIOUS
        <3>2. h \in Nat /\ k \in Nat /\ a <= h /\ h <= k
            BY <2>1, <3>1, BranchFields
        <3>3. a <= k
            BY ONLY <1>2, <3>2
        <3> QED BY <3>1, <3>3
    <2>3. ASSUME ~ url'.rebased, url'.partial = {}
          PROVE  Complete(url.checksum, url.b, url.sig[2])'
        <3>1. Complete(c, b, a)
            <4>1. Complete(url.checksum, url.b, url.sig[2])
                BY <1>3, <2>3 DEF UrlFits
            <4> QED BY <1>1, <4>1
        <3>2. PICK view : view = [p \in Paths |-> GetFile(b, p, a)]
            OBVIOUS
        <3>3. \A p \in Paths : GetFile(b, p, a) = view[p]
            BY <3>2
        <3>4. CompleteIn(c, view)
            BY <3>1, <3>3, CompleteView
        <3>5. \A p \in Paths : GetFile(b, p, a)' = view[p]
            <4>1. a # Latest
                BY <1>2, <2>1 DEF Latest
            <4> QED BY <1>1, <1>2, <2>1, <2>3, <3>3, <4>1
        <3>6. url'.checksum = c /\ url'.b = b /\ url'.sig[2] = a
            BY <1>1
        <3> QED BY <3>4, <3>5, <3>6, CompleteNow
    <2> QED BY <1>1, <2>1, <2>2, <2>3
<1>4. ASSUME rd'.op = "presign"
      PROVE  url'.b = rd'.b /\ 0 < rd'.at /\ rd'.at <= branches'[rd'.b].head
    <2>1. url.b = rd.b /\ 0 < rd.at /\ rd.at <= branches[rd.b].head
        BY <1>4 DEF UrlFits
    <2>2. PICK t, d, h, k : t = rd.at /\ d = rd.b /\ h = branches[d].head /\ k = branches'[d].head
        OBVIOUS
    <2>3. t \in Nat /\ d \in Names /\ h \in Nat /\ k \in Nat /\ t <= h /\ h <= k
        BY <2>1, <2>2, BranchFields, ReaderFields
    <2>4. t <= k
        BY ONLY <2>3
    <2> QED BY <1>4, <2>1, <2>2, <2>4
<1>5. rd'.op \in {"serve", "served"} => url'.sig = Sign(rd.b, rd.at)' /\ rd'.at # Latest
    BY DEF Sign
<1> QED BY <1>3, <1>4, <1>5 DEF UrlFits

\* Nothing but the reader changes.
LEMMA UrlKept ==
    ASSUME ReadsTypeOK, StoreFits, UrlFits, UNCHANGED <<commits, branches, url>>,
           rd'.op = "presign" => rd.op = "presign" /\ rd'.b = rd.b /\ rd'.at = rd.at,
           rd'.op \in {"serve", "served"} => rd'.at # Latest /\ url.sig = <<rd'.b, rd'.at>>
    PROVE  UrlFits'
<1>1. \A b \in Names : branches'[b].head \in Nat /\ branches[b].head <= branches'[b].head
    BY BranchFields
<1>2. \A b \in Names, a \in Nat :
          b = url.b /\ a = url.sig[2] /\ a # Latest /\ a <= branches[b].head /\ ~ url'.rebased =>
                   \A p \in Paths : GetFile(b, p, a)' = GetFile(b, p, a)
    BY GetFileKept
<1>3. url'.sig = url.sig /\ url'.b = url.b /\ url'.checksum = url.checksum
      /\ url'.partial = url.partial /\ (~ url'.rebased => ~ url.rebased)
    OBVIOUS
<1> QED BY <1>1, <1>2, <1>3, UrlStep

\* A write.
LEMMA WriteUrl ==
    ASSUME ReadsTypeOK, StoreFits, UrlFits, StoreGrows, StoreTyped, ReaderNotes,
           url'.sig = url.sig, url'.b = url.b, url'.checksum = url.checksum,
           url'.partial = url.partial, ~ url'.rebased => ~ url.rebased,
           \A b \in Names : b = url.b /\ ~ url'.rebased => branches'[b].base = branches[b].base
    PROVE  UrlFits'
<1>1. \A b \in Names : branches'[b].head \in Nat /\ branches[b].head <= branches'[b].head
    BY DEF StoreGrows, StoreTyped
<1>2. \A b \in Names, a \in Nat :
          b = url.b /\ a = url.sig[2] /\ a # Latest /\ a <= branches[b].head /\ ~ url'.rebased =>
                   \A p \in Paths : GetFile(b, p, a)' = GetFile(b, p, a)
    BY GetFileSteady
<1>3. rd'.op = rd.op /\ (rd.op \notin {"tree", "archive"} => rd' = rd)
    BY NotesReader DEF Listing
<1>4. rd'.op = "presign" => rd.op = "presign" /\ rd'.b = rd.b /\ rd'.at = rd.at
    BY <1>3
<1>5. rd'.op \in {"serve", "served"} => rd'.at # Latest /\ url.sig = <<rd'.b, rd'.at>>
    BY <1>3 DEF UrlFits, Sign
<1> QED BY <1>1, <1>2, <1>4, <1>5, UrlStep

\* No checksum: after the request to presign, and when the url has expired.
LEMMA UnsignedUrl ==
    ASSUME url'.sig = NoSig, rd'.op \notin {"serve", "served"},
           rd'.op = "presign" => url'.b = rd'.b /\ 0 < rd'.at /\ rd'.at <= branches'[rd'.b].head
    PROVE  UrlFits'
BY DEF UrlFits

LEMMA PresignUrl ==
    ASSUME ReadsTypeOK, StoreFits, NEW b \in Names, NEW at \in JobPoints(b),
           handleArchivePresign(b, at)
    PROVE  UrlFits'
<1>1. 0 < at /\ at <= branches[b].head
    BY JobPointFits
<1>2. rd' = Begin("presign", b, at) /\ url' = Archive(NoSig, b, FALSE, <<>>, {})
      /\ branches' = branches
    BY DEF handleArchivePresign
<1>3. rd'.op = "presign" /\ rd'.b = b /\ rd'.at = at
    BY <1>2 DEF Begin, Start
<1>4. url'.sig = NoSig /\ url'.b = b
    BY <1>2 DEF Archive
<1> QED BY <1>1, <1>2, <1>3, <1>4, UnsignedUrl

LEMMA ArchiveEndUrl ==
    ASSUME ReadsTypeOK, StoreFits, ListingFits, UrlFits, ArchiveEnd
    PROVE  UrlFits'
<1>0. /\ \/ rd.op = "archive" /\ rd'.op = "listed"
         \/ rd.op = "presign" /\ rd'.op = "signed"
         \/ rd.op = "serve" /\ rd'.op = "served"
      /\ commits' = commits /\ branches' = branches
    BY ArchiveEndTyped DEF ArchiveEnd
<1>1. rd.op \in Listings
    BY <1>0 DEF Listings
<1>2. rd'.b = rd.b /\ rd'.at = rd.at
    <2>1. rd \in Readers(Entries)
        BY <1>1, ReaderFields
    <2>2. PICK x : rd' = [rd EXCEPT !.op = x]
        BY DEF ArchiveEnd, Finished
    <2> QED BY <2>1, <2>2 DEF Readers
<1>3. CASE rd.op # "presign"
    <2>1. UNCHANGED <<commits, branches, url>>
        BY <1>0, <1>3 DEF ArchiveEnd
    <2>2. rd'.op # "presign"
        BY <1>0
    <2>3. rd'.op \in {"serve", "served"} => rd'.at # Latest /\ url.sig = <<rd'.b, rd'.at>>
        BY <1>0, <1>2 DEF UrlFits, Sign
    <2> QED BY <2>1, <2>2, <2>3, UrlKept
<1>4. CASE rd.op = "presign"
    <2>1. PICK op, b, at, got, todo, after, last, touched, skipped, rebased :
              /\ rd.op = op /\ rd.b = b /\ rd.at = at /\ rd.got = got /\ rd.todo = todo
              /\ rd.after = after /\ rd.last = last /\ rd.touched = touched /\ rd.skipped = skipped
              /\ url.rebased = rebased
        OBVIOUS
    <2>2. /\ b \in Names /\ at \in Nat /\ got \in Entries
          /\ last \in BOOLEAN /\ touched \in SUBSET Paths /\ skipped \in SUBSET Paths
          /\ rebased \in BOOLEAN
          /\ \E view \in [Paths -> Versions] :
                 /\ \A p \in Paths : GetFile(b, p, at) = view[p]
                 /\ ListFits(op, got, todo, after, last, touched, skipped, rebased, view)
        BY <1>1, <2>1, ListingParts
    <2>3. PICK view \in [Paths -> Versions] :
                 /\ \A p \in Paths : GetFile(b, p, at) = view[p]
                 /\ ListFits(op, got, todo, after, last, touched, skipped, rebased, view)
        BY <2>2
    <2>4. op = "presign" /\ todo = <<>> /\ last = TRUE
        BY <1>4, <2>1, <2>2 DEF ArchiveEnd
    <2>5. 0 < at /\ at <= branches'[b].head
        BY <1>0, <1>4, <2>1 DEF UrlFits
    <2>6. url' = Archive(<<b, at>>, b, rebased, got, skipped)
        BY <1>4, <2>1 DEF ArchiveEnd, Sign
    <2>7. /\ url'.sig = <<b, at>> /\ url'.b = b /\ url'.rebased = rebased /\ url'.checksum = got
          /\ url'.partial = skipped
        BY <2>6 DEF Archive
    <2>8. url'.sig[1] = b /\ url'.sig[2] = at
        <3>1. <<b, at>>[1] = b /\ <<b, at>>[2] = at
            OBVIOUS
        <3> QED BY <2>7, <3>1
    <2>9. ASSUME ~ url'.rebased, url'.partial = {}
          PROVE  Complete(url.checksum, url.b, url.sig[2])'
        <3>1. SteadyIn(op, touched, skipped, rebased) = Paths
            <4>1. rebased # TRUE /\ skipped = {}
                BY <2>7, <2>9
            <4>2. touched = {}
                BY <2>3, <2>4 DEF ListFits
            <4> QED BY <4>1, <4>2 DEF SteadyIn
        <3>2. OverIn(op, last) = TRUE
            BY <2>4 DEF OverIn
        <3>3. ViewFits(got, <<>>, after, TRUE, Paths, view)
            BY <2>3, <2>4, <3>1, <3>2 DEF ListFits
        <3>4. CompleteIn(got, view)
            BY <2>2, <3>3, WholeView
        <3>5. \A p \in Paths : GetFile(b, p, at)' = view[p]
            BY <1>0, <2>3, GetFileKept
        <3> QED BY <2>7, <2>8, <3>4, <3>5, CompleteNow
    <2>10. rd'.op \notin {"presign", "serve", "served"}
        BY <1>0, <1>4
    <2> QED BY <2>2, <2>5, <2>7, <2>8, <2>9, <2>10 DEF UrlFits
<1> QED BY <1>3, <1>4

\* What a finished listing says.
LEMMA ListedSound ==
    ASSUME ReadsTypeOK, StoreFits, ListingFits, SkippedFits
    PROVE  ListedAsStored
<1>0. rd.op = "listed" => RisingPaths(rd.got)
    BY DEF ListingFits, Listings
<1> SUFFICES ASSUME rd.op = "listed", NEW p \in Paths \ rd.touched
             PROVE  LET v == GetFile(rd.b, p, rd.at)
                        hits == {i \in DOMAIN rd.got : rd.got[i][1] = p}
                    IN  IF v = 0 \/ p \in rd.skipped THEN hits = {}
                        ELSE \E i \in hits : hits = {i} /\ rd.got[i][2] = v
    BY <1>0 DEF ListedAsStored
<1> DEFINE v == GetFile(rd.b, p, rd.at)
           hits == {i \in DOMAIN rd.got : rd.got[i][1] = p}
<1>s. p \in rd.skipped => hits = {}
    BY DEF SkippedFits, Listings
<1> SUFFICES ASSUME p \notin rd.skipped
             PROVE  IF v = 0 THEN hits = {} ELSE \E i \in hits : hits = {i} /\ rd.got[i][2] = v
    BY <1>s
<1>1. Steady(p) /\ Over /\ rd.todo = <<>> /\ rd.got \in Entries
    <2>1. rd.op \in Listings
        BY DEF Listings
    <2> QED BY <2>1, ReaderFields DEF Steady, Over, ListingFits
<1>2. /\ v # 0 => <<p, v>> \in Range(rd.got)
      /\ \A i \in DOMAIN rd.got : rd.got[i][1] = p => rd.got[i] = <<p, v>> /\ v # 0
    <2>1. /\ v # 0 => p \in Range(rd.todo) \/ <<p, v>> \in Range(rd.got)
          /\ \A i \in DOMAIN rd.got : rd.got[i][1] = p => rd.got[i] = <<p, v>> /\ v # 0
        BY <1>1 DEF ListingFits, Listings
    <2>2. p \notin Range(rd.todo)
        BY <1>1 DEF Range
    <2> QED BY <2>1, <2>2
<1>3. CASE v = 0
    BY <1>2, <1>3
<1>4. CASE v # 0
    <2>1. PICK i \in DOMAIN rd.got : rd.got[i] = <<p, v>>
        BY <1>2, <1>4 DEF Range
    <2>2. rd.got[i][1] = p /\ rd.got[i][2] = v
        <3>1. <<p, v>>[1] = p /\ <<p, v>>[2] = v
            OBVIOUS
        <3> QED BY <2>1, <3>1
    <2>3. ASSUME NEW j \in hits PROVE j = i
        <3>1. j \in DOMAIN rd.got /\ rd.got[j][1] = p
            OBVIOUS
        <3>2. i \in Nat /\ j \in Nat /\ p \in Nat
            <4>1. DOMAIN rd.got = 1..Len(rd.got) /\ Len(rd.got) \in Nat
                BY <1>1, LenProperties DEF Entries
            <4>2. p \in Nat
                BY ReadsAssumption DEF Paths
            <4> QED BY <3>1, <4>1, <4>2
        <3>3. RisingPaths(rd.got)
            BY DEF ListingFits, Listings
        <3>4. ~ (i < j) /\ ~ (j < i)
            BY <2>2, <3>1, <3>2, <3>3 DEF RisingPaths
        <3> QED BY <3>2, <3>4
    <2> QED BY <1>4, <2>2, <2>3
<1> QED BY <1>3, <1>4

LEMMA ServedSound ==
    ASSUME ReadsTypeOK, StoreFits, ListingFits, UrlFits
    PROVE  ArchiveMatchesChecksum
<1>c. ASSUME rd.op = "served", ~ url.rebased, url.partial = {}
      PROVE  Complete(url.checksum, rd.b, rd.at)
    <2>1. PICK b, at : b = rd.b /\ at = rd.at
        OBVIOUS
    <2>2. url.sig = <<b, at>> /\ at # Latest
        BY <1>c, <2>1 DEF UrlFits, Sign
    <2>3. url.sig[2] = at /\ url.sig[1] = b /\ url.sig # NoSig
        <3>1. <<b, at>>[1] = b /\ <<b, at>>[2] = at /\ NoSig[2] = Latest
            BY DEF NoSig
        <3> QED BY <2>2, <3>1
    <2>4. Complete(url.checksum, url.b, url.sig[2]) /\ url.b = b
        BY <1>c, <2>3 DEF UrlFits
    <2>5. Complete(url.checksum, b, at)
        BY <2>3, <2>4
    <2> QED BY <2>1, <2>5
<1>w. ASSUME rd.op = "served", rd.got = url.checksum, ~ url.rebased, url.partial = {}
      PROVE  Complete(rd.got, rd.b, rd.at)
    BY <1>c, <1>w
<1> SUFFICES ASSUME rd.op = "served", ~ url.rebased, rd.skipped \cup url.partial = {}
             PROVE  rd.got = url.checksum
    BY <1>w DEF ArchiveMatchesChecksum
<1>1. PICK op, b, at, got, todo, after, last, touched, skipped, rebased :
          /\ rd.op = op /\ rd.b = b /\ rd.at = at /\ rd.got = got /\ rd.todo = todo
          /\ rd.after = after /\ rd.last = last /\ rd.touched = touched /\ rd.skipped = skipped
          /\ url.rebased = rebased
    OBVIOUS
<1>2. rd.op \in Listings
    BY DEF Listings
<1>3. /\ got \in Entries
      /\ \E view \in [Paths -> Versions] :
             /\ \A p \in Paths : GetFile(b, p, at) = view[p]
             /\ ListFits(op, got, todo, after, last, touched, skipped, rebased, view)
    BY <1>1, <1>2, ListingParts
<1>4. PICK view \in [Paths -> Versions] :
             /\ \A p \in Paths : GetFile(b, p, at) = view[p]
             /\ ListFits(op, got, todo, after, last, touched, skipped, rebased, view)
    BY <1>3
<1>5. SteadyIn(op, touched, skipped, rebased) = Paths /\ OverIn(op, last) = TRUE /\ todo = <<>>
    <2>1. rebased # TRUE /\ skipped = {} /\ op = "served"
        BY <1>1
    <2>2. touched = {} /\ todo = <<>>
        BY <1>4, <2>1 DEF ListFits
    <2> QED BY <2>1, <2>2 DEF SteadyIn, OverIn
<1>6. CompleteIn(got, view)
    <2>1. ViewFits(got, <<>>, after, TRUE, Paths, view)
        BY <1>4, <1>5 DEF ListFits
    <2> QED BY <1>3, <2>1, WholeView
<1>7. PICK c : c = url.checksum
    OBVIOUS
<1>8. c \in Entries
    BY <1>7 DEF ReadsTypeOK, Archives
<1>12. Complete(c, b, at)
    <2>1. url.partial = {}
        OBVIOUS
    <2> QED BY <1>1, <1>7, <1>c, <2>1
<1>13. CompleteIn(c, view)
    BY <1>4, <1>12, CompleteView
<1> QED BY <1>1, <1>3, <1>6, <1>7, <1>8, <1>13, SameView

\* A falling sequence has as many elements as entries.
LEMMA FallingCount ==
    ASSUME NEW k \in Nat, NEW s, DOMAIN s = 1..k, \A i \in 1..k : s[i] \in Nat, Falling(s)
    PROVE  IsFiniteSet(Range(s)) /\ Cardinality(Range(s)) = k
<1>1. PICK R : R = Range(s)
    OBVIOUS
<1>2. PICK f : f = [i \in 1..k |-> s[i]]
    OBVIOUS
<1>3. f \in [1..k -> R] /\ \A x \in R : \E i \in 1..k : f[i] = x
    BY <1>1, <1>2 DEF Range
<1>4. f \in Surjection(1..k, R)
    BY <1>3 DEF Surjection
<1>5. IsFiniteSet(1..k) /\ Cardinality(1..k) = k
    BY FS_Interval
<1>6. \A i, j \in 1..k : f[i] = f[j] => i = j
    <2> SUFFICES ASSUME NEW i \in 1..k, NEW j \in 1..k, s[i] = s[j] PROVE i = j
        BY <1>2
    <2>1. ~ (i < j) /\ ~ (j < i)
        BY DEF Falling
    <2> QED BY <2>1
<1>7. f \in Injection(1..k, R)
    BY <1>3, <1>6 DEF Injection, IsInjective
<1>8. IsFiniteSet(R) /\ (Cardinality(R) = Cardinality(1..k) <=> f \in Injection(1..k, R))
    BY <1>4, <1>5, FS_Surjection
<1> QED BY <1>1, <1>5, <1>7, <1>8

\* One more page of a log.
LEMMA LogConcat ==
    ASSUME NEW got \in Seq(Nat), NEW page \in Seq(Nat), Falling(got), Falling(page),
           \A i \in DOMAIN got, j \in DOMAIN page : page[j] < got[i],
           NEW all, all = got \o page
    PROVE  /\ all \in Seq(Nat) /\ Falling(all)
           /\ \A x : x \in Range(all) <=> x \in Range(got) \/ x \in Range(page)
<1>0. PICK m, n : m = Len(got) /\ n = Len(page)
    OBVIOUS
<1>1. /\ m \in Nat /\ n \in Nat /\ all \in Seq(Nat)
      /\ DOMAIN got = 1..m /\ DOMAIN page = 1..n /\ DOMAIN all = 1..(m + n)
      /\ \A i \in 1..m : all[i] = got[i]
      /\ \A j \in 1..n : m + j \in 1..(m + n) /\ all[m + j] = page[j]
      /\ \A i \in 1..(m + n) : i \in 1..m \/ (i - m \in 1..n /\ m < i /\ all[i] = page[i - m])
    BY <1>0, ConcatIs
<1>2. ASSUME NEW i \in 1..(m + n), NEW j \in 1..(m + n), i < j PROVE all[j] < all[i]
    <2>1. CASE i \in 1..m /\ j \in 1..m
        BY ONLY <1>1, <1>2, <2>1, Falling(got) DEF Falling
    <2>2. CASE i \in 1..m /\ j \notin 1..m
        <3>1. all[i] = got[i] /\ j - m \in 1..n /\ all[j] = page[j - m]
            BY ONLY <1>1, <2>2, i \in 1..(m + n), j \in 1..(m + n)
        <3>2. page[j - m] < got[i]
            BY ONLY <1>1, <2>2, <3>1, \A h \in DOMAIN got, l \in DOMAIN page : page[l] < got[h]
        <3> QED BY ONLY <3>1, <3>2
    <2>3. CASE i \notin 1..m
        <3>1. m < i /\ j \notin 1..m
            BY ONLY <1>1, <1>2, <2>3, i \in 1..(m + n), j \in 1..(m + n)
        <3>2. PICK c \in 1..n, d \in 1..n : c = i - m /\ d = j - m /\ all[i] = page[c] /\ all[j] = page[d]
            BY ONLY <1>1, <2>3, <3>1, i \in 1..(m + n), j \in 1..(m + n)
        <3>3. c < d
            BY ONLY <1>1, <1>2, <3>2, i \in 1..(m + n), j \in 1..(m + n)
        <3>4. page[d] < page[c]
            BY ONLY <1>1, <3>2, <3>3, Falling(page) DEF Falling
        <3> QED BY ONLY <3>2, <3>4
    <2> QED BY <2>1, <2>2, <2>3
<1>3. ASSUME NEW x \in Range(all) PROVE x \in Range(got) \/ x \in Range(page)
    <2>1. PICK i \in 1..(m + n) : x = all[i]
        BY ONLY <1>1, <1>3 DEF Range
    <2> QED BY ONLY <1>1, <2>1 DEF Range
<1>4. ASSUME NEW x \in Range(got) PROVE x \in Range(all)
    <2>1. PICK i \in 1..m : x = got[i]
        BY ONLY <1>1, <1>4 DEF Range
    <2>2. i \in 1..(m + n)
        BY ONLY <1>1, <2>1
    <2> QED BY ONLY <1>1, <2>1, <2>2 DEF Range
<1>5. ASSUME NEW x \in Range(page) PROVE x \in Range(all)
    <2>1. PICK j \in 1..n : x = page[j]
        BY ONLY <1>1, <1>5 DEF Range
    <2> QED BY ONLY <1>1, <2>1 DEF Range
<1>6. Falling(all)
    BY ONLY <1>1, <1>2 DEF Falling
<1> QED BY ONLY <1>1, <1>3, <1>4, <1>5, <1>6

LogsSound == LogFits /\ ListingComplete

LEMMA OtherLogs ==
    ASSUME rd'.op \notin Logs
    PROVE  LogsSound'
BY DEF LogsSound, LogFits, ListingComplete, Logs

\* A log that is done.
LEMMA LoggedNow ==
    ASSUME rd'.op = "logged", Falling(rd'.got), rd'.due \subseteq Range(rd'.got),
           rd'.got \in Seq(Nat)
    PROVE  LogsSound'
<1>1. \A i \in DOMAIN rd'.got : rd'.got[i] \in Nat
    BY ElementOfSeq, LenProperties
<1>2. \A i, j \in DOMAIN rd'.got : i < j => rd'.got[i] > rd'.got[j]
    BY <1>1 DEF Falling
<1>3. Falling(rd.got)'
    BY DEF Falling
<1>4. ListingComplete'
    BY <1>2 DEF ListingComplete
<1>5. LogFits'
    BY <1>3 DEF LogFits
<1> QED BY <1>4, <1>5 DEF LogsSound

LEMMA WriteLogs ==
    ASSUME ReadsTypeOK, StoreFits, LogsSound, StoreGrows, StoreTyped, ReaderNotes
    PROVE  LogsSound'
<1>1. CASE rd.op \notin Logs
    <2>1. rd'.op \notin Logs
        BY <1>1, NotesReader
    <2> QED BY <2>1, OtherLogs
<1>2. CASE rd.op \in Logs
    <2>1. rd' = rd /\ rd.op # "logged"
        BY <1>2, NotesReader DEF Listing, Done, Logs
    <2>2. rd.b \in Names /\ rd.after \in Nat
        BY ReaderFields
    <2>3. Falling(rd.got)'
        BY <1>2, <2>1 DEF LogsSound, LogFits, Falling
    <2>4. ASSUME rd.op = "history"
          PROVE  \A x \in rd.due : \E r \in Visible(rd.b)' : r.path = rd.p /\ r.seq = x
        <3>1. PICK b : b = rd.b
            OBVIOUS
        <3>2. \A r \in Visible(b) : r \in Visible(b)'
            BY <2>2, <3>1, VisibleGrows
        <3>3. \A r \in Visible(b)' : r \in Visible(rd.b)'
            BY <2>1, <3>1 DEF Visible
        <3>4. \A x \in rd.due : \E r \in Visible(b) : r.path = rd.p /\ r.seq = x
            BY <2>4, <3>1 DEF LogsSound, LogFits
        <3> QED BY <3>2, <3>3, <3>4
    <2>5. ASSUME rd.op \in {"log first", "log", "walk"}
          PROVE  \A x \in rd.due : \E r \in commits' : r.branch = rd.b /\ r.seq = x
        <3>1. \A x \in rd.due : \E r \in commits : r.branch = rd.b /\ r.seq = x
            BY <2>5 DEF LogsSound, LogFits
        <3> QED BY <3>1 DEF StoreGrows
    <2>6. ASSUME rd.op = "walk"
          PROVE  /\ rd.after <= branches'[rd.b].head
                 /\ \A r \in commits' : r.branch = rd.b /\ r.seq <= rd.after => r \in commits
        <3>1. PICK a, b, h, k : a = rd.after /\ b = rd.b /\ h = branches[b].head /\ k = branches'[b].head
            OBVIOUS
        <3>2. a \in Nat /\ h \in Nat /\ k \in Nat
            BY <2>2, <3>1, BranchFields DEF StoreTyped
        <3>3. a <= h /\ h <= k
            BY <2>2, <2>6, <3>1 DEF LogsSound, LogFits, StoreGrows
        <3>4. a <= k
            BY ONLY <3>2, <3>3
        <3>5. ASSUME NEW r \in commits', r.branch = b, r.seq <= a, r \notin commits PROVE FALSE
            <4>1. h < r.seq /\ r.seq \in Nat
                BY <3>1, <3>5, RowFields DEF StoreGrows, StoreTyped
            <4> QED BY ONLY <3>2, <3>3, <3>5, <4>1
        <3> QED BY <3>1, <3>4, <3>5
    <2>7. LogFits'
        BY <2>1, <2>3, <2>4, <2>5, <2>6 DEF LogsSound, LogFits
    <2>8. ListingComplete'
        BY <2>1 DEF ListingComplete
    <2> QED BY <2>7, <2>8 DEF LogsSound
<1> QED BY <1>1, <1>2

LEMMA HistoryPageLogs ==
    ASSUME ReadsTypeOK, StoreFits, LogsSound, HistoryPage
    PROVE  LogsSound'
<1>1. PICK b, p, got, after, due :
          rd.b = b /\ rd.p = p /\ rd.got = got /\ rd.after = after /\ rd.due = due
    OBVIOUS
<1>2. rd.op = "history" /\ rd.op \notin Listings /\ rd.op \in Logs
    BY DEF HistoryPage, Reading, Listings, Logs
<1>3. b \in Names /\ p \in Nat /\ got \in Seq(Nat) /\ after \in Nat /\ due \in SUBSET Nat
    BY <1>1, <1>2, ReaderFields
<1>4. PICK page : page = GetFileHistory(b, p, PageSize, after)
    OBVIOUS
<1>5. /\ page \in Seq(Nat) /\ Falling(page) /\ Len(page) <= PageSize
      /\ \A i \in DOMAIN page : 1 <= page[i] /\ (after = Latest \/ page[i] < after)
      /\ \A r \in Visible(b) : r.path = p /\ (after = Latest \/ r.seq < after) =>
             \/ \E i \in DOMAIN page : page[i] = r.seq
             \/ Len(page) = PageSize /\ r.seq < page[Len(page)]
    <2>1. PageSize \in Nat \ {0}
        BY ReadsAssumption
    <2>2. HistoryOf(page, b, p, PageSize, after)
        BY ONLY ReadsTypeOK, <1>4, <2>1, HistoryIs
    <2> QED BY <2>2 DEF HistoryOf
<1>6. PICK n : n = Len(page)
    OBVIOUS
<1>7. n \in Nat /\ DOMAIN page = 1..n /\ (page = <<>> <=> n = 0) /\ n <= PageSize
      /\ \A i \in 1..n : page[i] \in Nat
    BY <1>5, <1>6, LenProperties, EmptySeq, ElementOfSeq
<1>8. PICK all, op2, end : /\ all = got \o page /\ op2 = (IF n < PageSize THEN "logged" ELSE "history")
                           /\ end = IF page = <<>> THEN after ELSE page[n]
    OBVIOUS
<1>9. rd'.op = op2 /\ rd'.got = all /\ rd'.after = end /\ rd'.b = b /\ rd'.p = p /\ rd'.due = due
    <2>1. rd' = [rd EXCEPT !.got = got \o page,
                        !.op = IF LastPage(page) THEN "logged" ELSE "history",
                        !.after = IF page = <<>> THEN after ELSE page[Len(page)]]
        BY <1>1, <1>4 DEF HistoryPage
    <2>2. LastPage(page) <=> n < PageSize
        BY <1>6 DEF LastPage
    <2>3. rd' = [rd EXCEPT !.got = all, !.op = op2, !.after = end]
        BY <1>6, <1>8, <2>1, <2>2
    <2>4. rd \in Readers(Seq(Nat))
        BY <1>2, ReaderFields
    <2> QED BY <1>1, <2>3, <2>4 DEF Readers
<1>10. /\ Falling(got)
       /\ \A x \in due : \E r \in Visible(b) : r.path = p /\ r.seq = x
       /\ after = Latest => got = <<>>
       /\ \A i \in DOMAIN got : after <= got[i]
       /\ \A x \in due : x \in Range(got) \/ after = Latest \/ x < after
    BY <1>1, <1>2 DEF LogsSound, LogFits
<1>11. \A i \in DOMAIN got, j \in DOMAIN page : page[j] < got[i]
    <2> SUFFICES ASSUME NEW i \in DOMAIN got, NEW j \in DOMAIN page PROVE page[j] < got[i]
        OBVIOUS
    <2>1. after # Latest
        BY <1>10
    <2>2. page[j] < after /\ after <= got[i]
        BY <1>5, <1>10, <2>1
    <2>3. page[j] \in Nat /\ got[i] \in Nat
        BY <1>3, <1>7, ElementOfSeq, LenProperties
    <2> QED BY ONLY <1>3, <2>2, <2>3
<1>12. /\ all \in Seq(Nat) /\ Falling(all)
       /\ \A x : x \in Range(all) <=> x \in Range(got) \/ x \in Range(page)
    BY <1>3, <1>5, <1>8, <1>10, <1>11, LogConcat
<1>13. \A x \in due : \/ x \in Range(all)
                      \/ n = PageSize /\ x < page[n]
    <2> SUFFICES ASSUME NEW x \in due, x \notin Range(got)
                 PROVE  x \in Range(page) \/ (n = PageSize /\ x < page[n])
        BY <1>12
    <2>1. PICK r \in Visible(b) : r.path = p /\ r.seq = x
        BY <1>10
    <2>2. after = Latest \/ r.seq < after
        BY <1>10, <2>1
    <2>3. (\E i \in DOMAIN page : page[i] = x) \/ (n = PageSize /\ x < page[n])
        BY <1>5, <1>6, <2>1, <2>2
    <2> QED BY <2>3 DEF Range
<1>14. PageSize \in Nat /\ PageSize # 0
    BY ReadsAssumption
<1>15. CASE n < PageSize
    <2>1. rd'.op = "logged"
        BY <1>8, <1>9, <1>15
    <2>2. due \subseteq Range(all)
        BY <1>7, <1>13, <1>14, <1>15
    <2> QED BY <1>9, <1>12, <2>1, <2>2, LoggedNow
<1>16. CASE ~ (n < PageSize)
    <2>1. rd'.op = "history" /\ n = PageSize /\ n \in 1..n /\ end = page[n]
        BY <1>7, <1>8, <1>9, <1>14, <1>16
    <2>2. end \in Nat /\ 1 <= end /\ (after = Latest \/ end < after)
        BY <1>5, <1>7, <2>1
    <2>3. \A x \in Range(all) : end <= x
        <3> SUFFICES ASSUME NEW x \in Range(all) PROVE end <= x
            OBVIOUS
        <3>1. CASE x \in Range(got)
            <4>1. PICK i \in DOMAIN got : x = got[i]
                BY <3>1 DEF Range
            <4>2. got[i] \in Nat
                BY <1>3, <4>1, ElementOfSeq, LenProperties
            <4>3. page[n] < got[i]
                BY <1>7, <1>11, <2>1, <4>1
            <4> QED BY <2>1, <2>2, <4>1, <4>2, <4>3
        <3>2. CASE x \in Range(page)
            <4>1. PICK j \in 1..n : x = page[j]
                BY <1>7, <3>2 DEF Range
            <4>2. page[j] \in Nat
                BY <1>7
            <4>3. CASE j = n
                BY <2>1, <2>2, <4>1, <4>3
            <4>4. CASE j < n
                <5>1. page[n] < page[j]
                    BY <1>5, <1>7, <2>1, <4>4 DEF Falling
                <5> QED BY <2>1, <2>2, <4>1, <4>2, <5>1
            <4> QED BY ONLY <1>7, <4>1, <4>3, <4>4
        <3> QED BY <1>12, <3>1, <3>2
    <2>4. \A i \in DOMAIN all : end <= all[i]
        BY <2>3 DEF Range
    <2>5. \A x \in due : x \in Range(all) \/ x < end
        BY <1>13, <2>1
    <2>6. \A x \in due : \E r \in Visible(rd.b)' : r.path = p /\ r.seq = x
        <3>1. Visible(b)' = Visible(b)
            BY GetFileKept DEF HistoryPage, OnlyReader
        <3>2. Visible(rd.b)' = Visible(b)'
            BY <1>9 DEF Visible
        <3> QED BY <1>10, <3>1, <3>2
    <2>7. end # Latest
        BY <2>2 DEF Latest
    <2>8. Falling(rd.got)'
        BY <1>9, <1>12 DEF Falling
    <2>9. LogFits'
        BY <1>9, <2>1, <2>4, <2>5, <2>6, <2>7, <2>8 DEF LogFits
    <2>10. ListingComplete'
        BY <2>1 DEF ListingComplete
    <2> QED BY <2>9, <2>10 DEF LogsSound
<1> QED BY <1>15, <1>16

\* A window of the log of the web interface, from its last sequence to.
LEMMA WindowLogs ==
    ASSUME ReadsTypeOK, StoreFits, LogsSound, rd.op \in {"log first", "log"}, NEW to \in Int,
           rd' = LogWindow(rd, to), OnlyReader,
           \A i \in DOMAIN rd.got : to < rd.got[i],
           \A x \in rd.due : x \in Range(rd.got) \/ x <= to
    PROVE  LogsSound'
<1>1. PICK w \in Nat, rows \in Seq(Nat) :
          /\ w = WindowStart(to) /\ 1 <= w /\ (w = 1 \/ w = to - PageSize + 1)
          /\ rows = chainToLogRows(GetChain(w, to), rd.b)
          /\ rd' = [rd EXCEPT !.got = rd.got \o rows, !.after = w,
                              !.op = IF w > 1 THEN "log" ELSE "logged"]
    BY WindowIs
<1>2. PICK b, got, due : rd.b = b /\ rd.got = got /\ rd.due = due
    OBVIOUS
<1>3. rd.op \notin Listings /\ rd.op \in Logs
    BY DEF Listings, Logs
<1>4. b \in Names /\ got \in Seq(Nat) /\ due \in SUBSET Nat /\ rd \in Readers(Seq(Nat))
    BY <1>2, <1>3, ReaderFields
<1>5. PICK k \in Nat :
               /\ rows \in Seq(Nat) /\ Len(rows) = k /\ DOMAIN rows = 1..k /\ Falling(rows)
               /\ \A i \in 1..k : w <= rows[i] /\ rows[i] <= to
               /\ \A r \in commits : r.branch = b /\ w <= r.seq /\ r.seq <= to =>
                      \E i \in 1..k : rows[i] = r.seq
    <2>1. rows = chainToLogRows(GetChain(w, to), b)
        BY <1>1, <1>2
    <2> QED BY ONLY ReadsTypeOK, <2>1, LogRowsAre
<1>0. /\ w \in Nat /\ 1 <= w /\ (w = 1 \/ w = to - PageSize + 1) /\ to \in Int
      /\ PageSize \in Nat /\ PageSize # 0
    BY <1>1, ReadsAssumption
<1>6. PICK all : all = got \o rows
    OBVIOUS
<1>7. PICK op2 : op2 = IF w > 1 THEN "log" ELSE "logged"
    OBVIOUS
<1>8. rd'.op = op2 /\ rd'.got = all /\ rd'.after = w /\ rd'.b = b /\ rd'.due = due
    <2>1. rd' = [rd EXCEPT !.got = all, !.after = w, !.op = op2]
        BY <1>1, <1>2, <1>6, <1>7
    <2> QED BY <1>2, <1>4, <2>1 DEF Readers
<1>9. Falling(got)
    BY <1>2, <1>3 DEF LogsSound, LogFits
<1>10. \A i \in DOMAIN got, j \in DOMAIN rows : rows[j] < got[i]
    <2> SUFFICES ASSUME NEW i \in DOMAIN got, NEW j \in DOMAIN rows PROVE rows[j] < got[i]
        OBVIOUS
    <2>1. to < got[i] /\ rows[j] <= to
        BY <1>2, <1>5
    <2>2. rows[j] \in Nat /\ got[i] \in Nat
        BY <1>4, ElementOfSeq, LenProperties
    <2> QED BY ONLY <2>1, <2>2, to \in Int
<1>11. /\ all \in Seq(Nat) /\ Falling(all)
       /\ \A x : x \in Range(all) <=> x \in Range(got) \/ x \in Range(rows)
    BY <1>4, <1>5, <1>6, <1>9, <1>10, LogConcat
<1>12. \A x \in due : \E r \in commits : r.branch = b /\ r.seq = x
    BY <1>2 DEF LogsSound, LogFits
<1>13. \A x \in due : x \in Range(all) \/ x < w
    <2> SUFFICES ASSUME NEW x \in due, x \notin Range(got), ~ (x < w) PROVE x \in Range(rows)
        BY <1>11
    <2>1. x \in Nat /\ x <= to /\ w <= x
        <3>1. x \in Nat
            BY <1>4
        <3>2. x <= to
            BY <1>2
        <3>3. w <= x
            BY ONLY <1>0, <3>1, ~ (x < w)
        <3> QED BY <3>1, <3>2, <3>3
    <2>2. PICK r \in commits : r.branch = b /\ r.seq = x
        BY <1>12
    <2>3. PICK i \in 1..k : rows[i] = x
        BY <1>5, <2>1, <2>2
    <2> QED BY <1>5, <2>3 DEF Range
<1>14. CASE w = 1
    <2>1. rd'.op = "logged"
        <3>1. ~ (w > 1)
            BY ONLY <1>14
        <3>2. op2 = "logged"
            BY ONLY <1>7, <3>1
        <3> QED BY <1>8, <3>2
    <2>2. \A x \in due : ~ (x < w)
        <3> SUFFICES ASSUME NEW x \in due PROVE ~ (x < w)
            OBVIOUS
        <3>1. PICK r \in commits : r.seq = x
            BY <1>12
        <3>2. r.seq \in Nat /\ 1 <= r.seq
            BY RowFields DEF ReadsTypeOK
        <3> QED BY ONLY <1>14, <3>1, <3>2
    <2> QED BY <1>8, <1>11, <1>13, <2>1, <2>2, LoggedNow
<1>15. CASE w # 1
    <2>1. rd'.op = "log" /\ 1 < w
        <3>1. w > 1 /\ 1 < w
            BY ONLY <1>0, <1>15
        <3>2. op2 = "log"
            BY ONLY <1>7, <3>1
        <3> QED BY <1>8, <3>1, <3>2
    <2>2. \A i \in DOMAIN all : w <= all[i]
        <3> SUFFICES ASSUME NEW x \in Range(all) PROVE w <= x
            BY DEF Range
        <3>1. CASE x \in Range(got)
            <4>1. PICK i \in DOMAIN got : x = got[i]
                BY <3>1 DEF Range
            <4>2. got[i] \in Nat /\ to < got[i]
                BY <1>2, <1>4, <4>1, ElementOfSeq, LenProperties
            <4>3. w <= to
                BY ONLY <1>0, <1>15
            <4> QED BY ONLY <1>0, <4>1, <4>2, <4>3
        <3>2. CASE x \in Range(rows)
            BY <1>5, <3>2 DEF Range
        <3> QED BY <1>11, <3>1, <3>2
    <2>3. Falling(rd.got)'
        BY <1>8, <1>11 DEF Falling
    <2>4. commits' = commits
        BY DEF OnlyReader
    <2>5. LogFits'
        BY <1>8, <1>12, <1>13, <2>1, <2>2, <2>3, <2>4 DEF LogFits
    <2>6. ListingComplete'
        BY <2>1 DEF ListingComplete
    <2> QED BY <2>5, <2>6 DEF LogsSound
<1> QED BY <1>14, <1>15

LEMMA LogFirstLogs ==
    ASSUME ReadsTypeOK, StoreFits, LogsSound, LogFirstRows
    PROVE  LogsSound'
<1>1. PICK to \in Nat : to = rd.after
    BY ReaderFields
<1>2. rd.op = "log first" /\ rd' = LogWindow(rd, to) /\ OnlyReader
    BY <1>1 DEF LogFirstRows, Reading
<1>3. rd.got = <<>> /\ \A x \in rd.due : x <= to
    BY <1>1, <1>2 DEF LogsSound, LogFits
<1>4. \A i \in DOMAIN rd.got : to < rd.got[i]
    BY <1>3
<1>5. to \in Int /\ rd.op \in {"log first", "log"}
    <2>1. rd.op \in {"log first", "log"}
        BY ONLY <1>2
    <2>2. to \in Int
        BY ONLY to \in Nat
    <2> QED BY ONLY <2>1, <2>2
<1>6. \A x \in rd.due : x \in Range(rd.got) \/ x <= to
    BY <1>3
<1> QED BY ONLY ReadsTypeOK, StoreFits, LogsSound, <1>2, <1>4, <1>5, <1>6, WindowLogs

LEMMA LogRowsLogs ==
    ASSUME ReadsTypeOK, StoreFits, LogsSound, handleLogRowsPartial
    PROVE  LogsSound'
<1>1. PICK a, got, due : a = rd.after /\ got = rd.got /\ due = rd.due
    OBVIOUS
<1>0. a \in Nat
    BY <1>1, ReaderFields
<1>2. PICK to \in Int : to = a - 1
    BY <1>0
<1>3. rd.op = "log" /\ rd' = LogWindow(rd, to) /\ OnlyReader
    BY <1>1, <1>2 DEF handleLogRowsPartial, Reading
<1>4. got \in Seq(Nat) /\ due \in SUBSET Nat
    BY <1>1, <1>3, ReaderFields DEF Listings
<1>5. /\ \A i \in DOMAIN got : a <= got[i]
      /\ \A x \in due : x \in Range(got) \/ x < a
    BY <1>1, <1>3 DEF LogsSound, LogFits
<1>6. \A i \in DOMAIN got : to < got[i]
    <2> SUFFICES ASSUME NEW i \in DOMAIN got PROVE to < got[i]
        OBVIOUS
    <2>1. got[i] \in Nat /\ a <= got[i]
        BY <1>4, <1>5, ElementOfSeq, LenProperties
    <2> QED BY ONLY <1>0, <1>2, <2>1
<1>7. \A x \in due : x \in Range(got) \/ x <= to
    BY ONLY <1>0, <1>2, <1>4, <1>5
<1> QED BY <1>1, <1>3, <1>6, <1>7, WindowLogs

LEMMA HistoryStartLogs ==
    ASSUME ReadsTypeOK, StoreFits, NEW b \in Names, NEW p \in Paths, handleFileHistory(b, p)
    PROVE  LogsSound'
<1>1. PICK due : due = {r.seq : r \in {x \in Visible(b) : x.path = p}}
    OBVIOUS
<1>2. rd' = Start("history", b, Latest, p, 0, due, <<>>) /\ UNCHANGED <<commits, branches>>
    BY <1>1 DEF handleFileHistory, OnlyReader
<1>3. /\ rd'.op = "history" /\ rd'.b = b /\ rd'.p = p /\ rd'.after = 0 /\ rd'.due = due
      /\ rd'.got = <<>>
    BY <1>2 DEF Start
<1>4. \A x \in due : \E r \in Visible(rd.b)' : r.path = p /\ r.seq = x
    <2>1. Visible(b)' = Visible(b)
        BY <1>2, GetFileKept
    <2>2. Visible(rd.b)' = Visible(b)'
        BY <1>3 DEF Visible
    <2>3. \A x \in due : \E r \in Visible(b) : r.path = p /\ r.seq = x
        BY <1>1
    <2> QED BY <2>1, <2>2, <2>3
<1>5. Falling(rd.got)' /\ DOMAIN rd'.got = {} /\ 0 = Latest
    BY <1>3 DEF Falling, Latest
<1>6. LogFits'
    BY <1>3, <1>4, <1>5 DEF LogFits
<1>7. ListingComplete'
    BY <1>3 DEF ListingComplete
<1> QED BY <1>6, <1>7 DEF LogsSound

LEMMA CommitLogLogs ==
    ASSUME ReadsTypeOK, StoreFits, NEW b \in Names, handleCommitLog(b)
    PROVE  LogsSound'
<1>1. PICK due, h : due = {r.seq : r \in {x \in commits : x.branch = b}} /\ h = branches[b].head
    OBVIOUS
<1>2. rd' = Start("log first", b, Latest, 0, h, due, <<>>) /\ UNCHANGED <<commits, branches>>
    BY <1>1 DEF handleCommitLog, OnlyReader
<1>3. /\ rd'.op = "log first" /\ rd'.b = b /\ rd'.after = h /\ rd'.due = due
      /\ rd'.got = <<>>
    BY <1>2 DEF Start
<1>4. \A x \in due : \E r \in commits' : r.branch = b /\ r.seq = x
    BY <1>1, <1>2
<1>5. \A x \in due : x <= h
    BY <1>1 DEF StoreFits
<1>6. Falling(rd.got)' /\ DOMAIN rd'.got = {}
    <2>1. rd'.got = <<>>
        BY <1>3
    <2>2. DOMAIN rd'.got = {}
        BY ONLY <2>1
    <2> QED BY ONLY <2>2 DEF Falling
<1>7. LogFits'
    BY <1>3, <1>4, <1>5, <1>6 DEF LogFits
<1>8. ListingComplete'
    BY <1>3 DEF ListingComplete
<1> QED BY <1>7, <1>8 DEF LogsSound

LEMMA WalkStartLogs ==
    ASSUME ReadsTypeOK, StoreFits, NEW b \in Names, logBranch(b)
    PROVE  LogsSound'
<1>1. PICK own, base, h : /\ own = {r.seq : r \in {x \in commits : x.branch = b /\ x.seq > branches[b].base}}
                          /\ base = branches[b].base /\ h = branches[b].head
    OBVIOUS
<1>2. PICK page, due : page = FirstOf(Descending(own), HistLimit) /\ due = Range(page)
    OBVIOUS
<1>3. rd' = Start("walk", b, base, 0, h, due, <<>>) /\ UNCHANGED <<commits, branches>>
    BY <1>1, <1>2 DEF logBranch, OnlyReader
<1>4. /\ rd'.op = "walk" /\ rd'.b = b /\ rd'.at = base /\ rd'.after = h /\ rd'.due = due
      /\ rd'.got = <<>>
    BY <1>3 DEF Start
<1>5. own \in SUBSET (1..MaxReadSeq) /\ HistLimit \in Nat \ {0} /\ base \in Nat /\ h \in Nat
    BY <1>1, DueSets, BranchFields, ReadsAssumption
<1>6. PICK k \in Nat : /\ page \in [1..k -> own] /\ Falling(page) /\ k <= HistLimit
                       /\ \A x \in own : \/ \E i \in 1..k : page[i] = x
                                         \/ k = HistLimit /\ x < page[k]
    <2>1. PICK limit \in Nat \ {0} : limit = HistLimit
        BY <1>5
    <2>2. own \in SUBSET (1..MaxReadSeq) /\ page = FirstOf(Descending(own), limit)
        BY <1>2, <1>5, <2>1
    <2>4. own \in SUBSET (1..MaxReadSeq) /\ MaxReadSeq \in Nat
        BY <2>2, ReadsAssumption
    <2>5. page = FirstOf(Descending(own), limit)
        BY <2>2
    <2>3. PICK k \in Nat : FirstDown(page, k, own, limit)
        BY <2>4, <2>5, DescendingPage
    <2> QED BY <2>1, <2>3 DEF FirstDown
<1>7. DOMAIN page = 1..k /\ \A i \in 1..k : page[i] \in own /\ page[i] \in Nat
    <2>1. page \in [1..k -> own]
        BY <1>6
    <2>2. own \subseteq Nat
        BY <1>5
    <2> QED BY ONLY <2>1, <2>2
<1>8. Cardinality(due) = k
    BY ONLY <1>2, <1>6, <1>7, FallingCount
<1>9. due \subseteq own
    BY <1>2, <1>7 DEF Range
<1>10. \A x \in own : /\ \E r \in commits : r.branch = b /\ r.seq = x
                      /\ base < x /\ x <= h
    <2> SUFFICES ASSUME NEW x \in own
                 PROVE  (\E r \in commits : r.branch = b /\ r.seq = x) /\ base < x /\ x <= h
        OBVIOUS
    <2>1. PICK r \in commits : r.branch = b /\ r.seq > base /\ x = r.seq
        BY <1>1
    <2>2. r.seq \in Nat
        BY RowFields DEF ReadsTypeOK
    <2>3. r.seq <= h
        BY <1>1, <2>1 DEF StoreFits
    <2>4. base < r.seq
        BY ONLY <1>5, <2>1, <2>2
    <2> QED BY <2>1, <2>3, <2>4
<1>11. ASSUME NEW r \in commits, r.branch = b, base < r.seq, r.seq \notin due
       PROVE  k = HistLimit /\ \A x \in due : r.seq < x
    <2>1. r.seq \in Nat
        BY RowFields DEF ReadsTypeOK
    <2>2. r.seq \in own
        <3>1. r.seq > base
            BY ONLY <1>5, <1>11, <2>1
        <3> QED BY <1>1, <1>11, <3>1
    <2>3. k = HistLimit /\ r.seq < page[k]
        BY <1>2, <1>6, <1>7, <1>11, <2>2 DEF Range
    <2>4. k \in 1..k
        BY ONLY <1>5, <2>3
    <2>5. ASSUME NEW x \in due PROVE r.seq < x
        <3>1. PICK i \in 1..k : x = page[i]
            BY <1>2, <1>7 DEF Range
        <3>2. page[i] \in Nat /\ page[k] \in Nat
            BY <1>7, <2>4
        <3>3. CASE i = k
            BY <2>3, <3>1, <3>3
        <3>4. CASE i < k
            <4>1. page[k] < page[i]
                BY <1>6, <1>7, <2>4, <3>4 DEF Falling
            <4> QED BY ONLY <2>1, <2>3, <3>1, <3>2, <4>1
        <3> QED BY <3>3, <3>4
    <2> QED BY <2>3, <2>5
<1>12. Falling(rd.got)' /\ DOMAIN rd'.got = {}
    BY <1>4 DEF Falling
<1>13. commits' = commits /\ branches'[b].head = h
    BY <1>1, <1>3
<1>14. h <= h
    BY <1>5
<1>15. k <= HistLimit
    BY <1>6
<1>16. LogFits'
    BY <1>4, <1>8, <1>9, <1>10, <1>11, <1>12, <1>13, <1>14, <1>15 DEF LogFits
<1>17. ListingComplete'
    BY <1>4 DEF ListingComplete
<1> QED BY <1>16, <1>17 DEF LogsSound

LEMMA WalkLogs ==
    ASSUME ReadsTypeOK, StoreFits, LogsSound, WalkCommit
    PROVE  LogsSound'
<1>1. PICK b, at, after, got, due :
          rd.b = b /\ rd.at = at /\ rd.after = after /\ rd.got = got /\ rd.due = due
    OBVIOUS
<1>2. rd.op = "walk" /\ rd.op \notin Listings /\ rd.op \in Logs /\ UNCHANGED <<commits, branches>>
    BY DEF WalkCommit, Reading, Listings, Logs, OnlyReader
<1>3. /\ b \in Names /\ at \in Nat /\ after \in Nat /\ got \in Seq(Nat) /\ due \in SUBSET Nat
      /\ rd \in Readers(Seq(Nat))
    BY <1>1, <1>2, ReaderFields
<1>4. PICK n, h : n = Len(got) /\ h = branches[b].head
    OBVIOUS
<1>5. n \in Nat /\ DOMAIN got = 1..n /\ h \in Nat /\ \A i \in 1..n : got[i] \in Nat
    BY <1>3, <1>4, BranchFields, LenProperties, ElementOfSeq
<1>6. /\ Falling(got)
      /\ \A x \in due : \E r \in commits : r.branch = b /\ r.seq = x
      /\ after <= h
      /\ \A i \in 1..n : after < got[i] /\ got[i] \in due
      /\ \A x \in due : at < x /\ (x \in Range(got) \/ x <= after)
      /\ Cardinality(due) <= HistLimit
      /\ \A r \in commits : r.branch = b /\ at < r.seq /\ r.seq <= after /\ r.seq \notin due =>
             Cardinality(due) = HistLimit /\ \A x \in due : r.seq < x
    BY <1>1, <1>2, <1>4, <1>5 DEF LogsSound, LogFits
<1>7. HistLimit \in Nat
    BY ReadsAssumption
<1>8. IsFiniteSet(Range(got)) /\ Cardinality(Range(got)) = n
    BY ONLY <1>5, <1>6, FallingCount
<1>9. IsFiniteSet(due) /\ Cardinality(due) \in Nat
    <2>1. due \in SUBSET (1..MaxReadSeq) /\ MaxReadSeq \in Nat
        <3>1. ASSUME NEW x \in due PROVE x \in 1..MaxReadSeq
            <4>1. PICK r \in commits : r.seq = x
                BY <1>6
            <4>2. r.seq \in Nat /\ 1 <= r.seq /\ r.seq <= MaxReadSeq
                BY RowFields DEF ReadsTypeOK
            <4> QED BY <4>1, <4>2, ReadsAssumption
        <3> QED BY <3>1, ReadsAssumption
    <2> QED BY ONLY <2>1, FiniteSubset
<1>10. Range(got) \subseteq due
    BY <1>5, <1>6 DEF Range
<1>11. CASE ~ (after > at /\ n < HistLimit)
    <2>1. rd' = [rd EXCEPT !.op = "logged"]
        BY <1>1, <1>4, <1>11 DEF WalkCommit, Finished
    <2>2. rd'.op = "logged" /\ rd'.got = got /\ rd'.due = due
        BY <1>1, <1>3, <2>1 DEF Readers
    <2>3. CASE ~ (after > at)
        <3>1. ASSUME NEW x \in due PROVE x \in Range(got)
            <4>1. x \in Nat /\ at < x /\ (x \in Range(got) \/ x <= after)
                BY <1>3, <1>6
            <4>2. ~ (x <= after)
                BY ONLY <1>3, <2>3, <4>1
            <4> QED BY <4>1, <4>2
        <3> QED BY <1>3, <1>6, <2>2, <3>1, LoggedNow
    <2>4. CASE ~ (n < HistLimit)
        <3>1. Cardinality(Range(got)) <= Cardinality(due)
            BY ONLY <1>9, <1>10, FS_Subset
        <3>2. Cardinality(due) = Cardinality(Range(got))
            BY ONLY <1>5, <1>6, <1>7, <1>8, <1>9, <2>4, <3>1
        <3>3. due = Range(got)
            BY ONLY <1>9, <1>10, <3>2, FS_Subset
        <3> QED BY <1>3, <1>6, <2>2, <3>3, LoggedNow
    <2> QED BY <1>11, <2>3, <2>4
<1>12. CASE after > at /\ n < HistLimit
    <2>1. PICK found : found = \E r \in commits : r.seq = after /\ r.branch = b
        OBVIOUS
    <2>2. PICK more, below : more = (IF found THEN Append(got, after) ELSE got) /\ below = after - 1
        OBVIOUS
    <2>3. rd' = [rd EXCEPT !.after = below, !.got = more]
        <3>1. found <=> \E r \in GetCommit(after) : r.branch = b
            BY <2>1 DEF GetCommit
        <3>2. rd' = [rd EXCEPT !.after = after - 1,
                       !.got = IF \E r \in GetCommit(after) : r.branch = b THEN Append(got, after) ELSE got]
            BY <1>1, <1>4, <1>12 DEF WalkCommit
        <3> QED BY <2>2, <3>1, <3>2
    <2>4. rd'.op = "walk" /\ rd'.b = b /\ rd'.at = at /\ rd'.after = below /\ rd'.got = more /\ rd'.due = due
        BY <1>1, <1>2, <1>3, <2>3 DEF Readers
    <2>5. below \in Nat /\ below < after /\ at < after /\ below <= h
        BY ONLY <1>3, <1>5, <1>6, <1>12, <2>2
    <2>6. ASSUME NEW r \in commits, r.seq = after, r.branch = b PROVE after \in due
        <3> SUFFICES ASSUME after \notin due PROVE FALSE
            OBVIOUS
        <3>1. after <= after
            BY <1>3
        <3>2. Cardinality(due) = HistLimit /\ \A x \in due : after < x
            BY <1>6, <2>5, <2>6, <3>1
        <3>3. ASSUME NEW x \in due PROVE x \in Range(got)
            <4>1. x \in Nat /\ after < x
                BY <1>3, <3>2
            <4>2. ~ (x <= after)
                BY ONLY <1>3, <4>1
            <4> QED BY <1>6, <4>2
        <3>4. due = Range(got)
            BY <1>10, <3>3
        <3> QED BY ONLY <1>5, <1>7, <1>8, <1>12, <3>2, <3>4
    <2>7. /\ more \in Seq(Nat) /\ Falling(more)
          /\ \A i \in DOMAIN more : below < more[i] /\ more[i] \in due
          /\ \A x : x \in Range(got) => x \in Range(more)
          /\ found => after \in Range(more)
        <3>1. CASE found
            <4>1. PICK one : one = <<after>>
                OBVIOUS
            <4>2. /\ one \in Seq(Nat) /\ DOMAIN one = 1..1 /\ one[1] = after
                BY <1>3, <4>1
            <4>3. Range(one) = {after} /\ Falling(one)
                BY <4>2 DEF Range, Falling
            <4>4. more = got \o one
                BY <1>3, <2>2, <3>1, <4>1, AppendIsConcat
            <4>5. \A i \in DOMAIN got, j \in DOMAIN one : one[j] < got[i]
                BY <1>5, <1>6, <4>2
            <4>6. /\ more \in Seq(Nat) /\ Falling(more)
                  /\ \A x : x \in Range(more) <=> x \in Range(got) \/ x \in Range(one)
                BY ONLY <1>3, <1>6, <4>2, <4>3, <4>4, <4>5, LogConcat
            <4>7. \A x \in Range(more) : below < x /\ x \in due
                <5> SUFFICES ASSUME NEW x \in Range(more) PROVE below < x /\ x \in due
                    OBVIOUS
                <5>1. CASE x \in Range(got)
                    <6>1. PICK i \in 1..n : x = got[i]
                        BY <1>5, <5>1 DEF Range
                    <6>2. got[i] \in Nat /\ after < got[i] /\ got[i] \in due
                        BY <1>5, <1>6
                    <6> QED BY ONLY <1>3, <2>5, <6>1, <6>2
                <5>2. CASE x = after
                    BY <2>1, <2>5, <2>6, <3>1, <5>2
                <5> QED BY <4>3, <4>6, <5>1, <5>2
            <4> QED BY <4>3, <4>6, <4>7 DEF Range
        <3>2. CASE ~ found
            <4>1. more = got
                BY <2>2, <3>2
            <4>2. \A i \in 1..n : below < got[i] /\ got[i] \in due
                BY ONLY <1>3, <1>5, <1>6, <2>5
            <4> QED BY <1>3, <1>5, <1>6, <3>2, <4>1, <4>2
        <3> QED BY <3>1, <3>2
    <2>8. \A x \in due : at < x /\ (x \in Range(more) \/ x <= below)
        <3> SUFFICES ASSUME NEW x \in due, x \notin Range(more) PROVE at < x /\ x <= below
            BY <1>6
        <3>1. x \in Nat /\ at < x /\ x <= after
            BY <1>3, <1>6, <2>7
        <3>2. x # after
            <4> SUFFICES ASSUME x = after PROVE FALSE
                OBVIOUS
            <4>1. found
                BY <1>6, <2>1
            <4> QED BY <2>7, <4>1
        <3>3. x <= below
            BY ONLY <1>3, <2>2, <3>1, <3>2
        <3> QED BY <3>1, <3>3
    <2>9. ASSUME NEW r \in commits, r.branch = b, at < r.seq, r.seq <= below, r.seq \notin due
          PROVE  Cardinality(due) = HistLimit /\ \A x \in due : r.seq < x
        <3>1. r.seq \in Nat
            BY RowFields DEF ReadsTypeOK
        <3>2. r.seq <= after
            BY ONLY <1>3, <2>5, <2>9, <3>1
        <3> QED BY <1>6, <2>9, <3>2
    <2>10. commits' = commits /\ branches'[b].head = h
        BY <1>2, <1>4
    <2>11. Falling(rd.got)'
        BY <2>4, <2>7 DEF Falling
    <2>12. LogFits'
        BY <1>6, <2>4, <2>5, <2>7, <2>8, <2>9, <2>10, <2>11 DEF LogFits
    <2>13. ListingComplete'
        BY <2>4 DEF ListingComplete
    <2> QED BY <2>12, <2>13 DEF LogsSound
<1> QED BY <1>11, <1>12

\* What is kept from step to step.
ListingsFit == ListingFits /\ UrlFits /\ LogsSound

\* A presigned archive is read at a sequence its branch has reached.
LEMMA ReadPointFits ==
    ASSUME ReadsTypeOK, UrlFits, rd.op \in {"presign", "serve"}
    PROVE  rd.at # Latest /\ rd.at <= branches[rd.b].head /\ url.b = rd.b
<1>1. CASE rd.op = "presign"
    <2>1. url.b = rd.b /\ 0 < rd.at /\ rd.at <= branches[rd.b].head
        BY <1>1 DEF UrlFits
    <2> QED BY <2>1, ReaderFields DEF Latest
<1>2. CASE rd.op = "serve"
    <2>1. PICK b, at : b = rd.b /\ at = rd.at
        OBVIOUS
    <2>2. url.sig = <<b, at>> /\ at # Latest
        BY <1>2, <2>1 DEF UrlFits, Sign
    <2>3. <<b, at>>[1] = b /\ <<b, at>>[2] = at /\ NoSig[2] = Latest
        BY DEF NoSig
    <2>4. url.sig # NoSig /\ url.sig[1] = b /\ url.sig[2] = at
        BY <2>2, <2>3
    <2>5. url.sig[1] = url.b /\ url.sig[2] <= branches[url.b].head
        BY <2>4 DEF UrlFits
    <2> QED BY <2>1, <2>2, <2>4, <2>5
<1> QED BY <1>1, <1>2

LEMMA WriteFits ==
    ASSUME ReadsTypeOK, StoreFits, ListingsFit, StoreGrows, StoreTyped, ReaderNotes,
           url' \in Archives, url'.sig = url.sig, url'.b = url.b, url'.checksum = url.checksum,
           url'.partial = url.partial, ~ url'.rebased => ~ url.rebased,
           \A b \in Names : b = url.b => url'.rebased \/ branches'[b].base = branches[b].base
    PROVE  ListingsFit'
<1>1. url.rebased \in BOOLEAN /\ url'.rebased \in BOOLEAN
    BY DEF ReadsTypeOK, Archives
<1>2. url.rebased = TRUE => url'.rebased = TRUE
    BY <1>1
<1>3. rd.op \in {"presign", "serve"} =>
          /\ rd.at # Latest /\ rd.at <= branches[rd.b].head
          /\ url'.rebased = TRUE \/ branches'[rd.b].base = branches[rd.b].base
    <2> SUFFICES ASSUME rd.op \in {"presign", "serve"}
                 PROVE  /\ rd.at # Latest /\ rd.at <= branches[rd.b].head
                        /\ url'.rebased = TRUE \/ branches'[rd.b].base = branches[rd.b].base
        OBVIOUS
    <2>1. rd.at # Latest /\ rd.at <= branches[rd.b].head /\ url.b = rd.b
        BY ReadPointFits DEF ListingsFit
    <2>2. PICK b : b = rd.b
        OBVIOUS
    <2>3. b \in Names /\ b = url.b
        BY <2>1, <2>2, ReaderFields
    <2>4. url'.rebased \/ branches'[b].base = branches[b].base
        BY <2>3
    <2> QED BY <1>1, <2>1, <2>2, <2>4
<1>4. ListingFits /\ UrlFits /\ LogsSound
    BY DEF ListingsFit
<1>5. ListingFits'
    BY <1>1, <1>2, <1>3, <1>4, WriteListing
<1>6. UrlFits'
    BY <1>4, WriteUrl
<1>7. LogsSound'
    BY <1>4, WriteLogs
<1> QED BY <1>5, <1>6, <1>7 DEF ListingsFit

\* The reader turns to something that is not a listing.
LEMMA NoListing ==
    ASSUME ReadsTypeOK, StoreFits, ListingsFit, OnlyReader, rd'.op \notin Listings
    PROVE  ListingFits' /\ UrlFits'
<1>1. ListingFits'
    BY DEF ListingFits
<1>2. rd'.op # "presign" /\ rd'.op \notin {"serve", "served"}
    BY DEF Listings
<1>3. UNCHANGED <<commits, branches, url>> /\ UrlFits
    BY DEF OnlyReader, ListingsFit
<1>4. UrlFits'
    BY <1>2, <1>3, UrlKept
<1> QED BY <1>1, <1>4

LEMMA PageFitsOn ==
    ASSUME ReadsTypeOK, StoreFits, ListingsFit, OnlyReader, rd'.op \in FilePages \cup {"idle"}
    PROVE  ListingsFit'
<1>1. rd'.op \notin Listings /\ rd'.op \notin Logs
    BY OpsApart
<1>2. LogsSound'
    BY <1>1, OtherLogs
<1> QED BY <1>1, <1>2, NoListing DEF ListingsFit

LEMMA LogsFitOn ==
    ASSUME ReadsTypeOK, StoreFits, ListingsFit, OnlyReader, rd'.op \in Logs, LogsSound'
    PROVE  ListingsFit'
<1>1. rd'.op \notin Listings
    BY OpsApart
<1> QED BY <1>1, NoListing DEF ListingsFit

LEMMA ListingFitsOn ==
    ASSUME rd'.op \in Listings, ListingFits', UrlFits'
    PROVE  ListingsFit'
<1>1. rd'.op \notin Logs
    BY OpsApart
<1> QED BY <1>1, OtherLogs DEF ListingsFit

\* The operations that put a page together.
LEMMA PageOps ==
    ASSUME ReadsTypeOK
    PROVE  /\ \A b, p, at : handleFile(b, p, at) => rd'.op \in FilePages /\ OnlyReader
           /\ \A c : handleCommitFileDiffPartial(c) => rd'.op \in FilePages /\ OnlyReader
           /\ FilePageContent \/ FilePageHistory \/ DiffPrevious \/ AssembleAgentContext \/ GetDiff
                  \/ DiffChanges \/ ContextCommits => rd'.op \in FilePages /\ OnlyReader
<1>1. \A b, p, at : handleFile(b, p, at) => rd'.op \in FilePages /\ OnlyReader
    BY DEF handleFile, Start, FilePages
<1>2. \A c : handleCommitFileDiffPartial(c) => rd'.op \in FilePages /\ OnlyReader
    BY DEF handleCommitFileDiffPartial, Start, FilePages
<1>3. AssembleAgentContext => rd'.op \in FilePages /\ OnlyReader
    BY DEF AssembleAgentContext, Start, FilePages
<1>4. rd \in Readers(Seq(Nat)) \/ rd \in Readers(Entries)
    BY ReaderFields
<1>5. DOMAIN rd = {"op", "b", "at", "p", "after", "todo", "got", "last", "due", "touched", "skipped"}
    BY <1>4 DEF Readers
<1>6. CASE FilePageContent
    BY <1>5, <1>6 DEF FilePageContent, FilePages
<1>7. CASE FilePageHistory
    BY <1>5, <1>7 DEF FilePageHistory, FilePages
<1>8. CASE DiffPrevious
    BY <1>5, <1>8 DEF DiffPrevious, Finished, FilePages
<1>9. CASE GetDiff
    BY <1>5, <1>9 DEF GetDiff, FilePages
<1>10. CASE DiffChanges
    BY <1>5, <1>10 DEF DiffChanges, FilePages
<1>11. CASE ContextCommits
    BY <1>5, <1>11 DEF ContextCommits, Finished, FilePages
<1> QED BY <1>1, <1>2, <1>3, <1>6, <1>7, <1>8, <1>9, <1>10, <1>11

\* A listing begins, or goes on for the same branch and sequence.
LEMMA BeginListing ==
    ASSUME ReadsTypeOK, StoreFits, ListingsFit, OnlyReader,
           NEW op \in {"tree", "archive", "serve"}, NEW b \in Names, NEW at \in Nat,
           rd' = Begin(op, b, at), op = "serve" => at # Latest /\ url.sig = <<b, at>>
    PROVE  ListingsFit'
<1>1. UNCHANGED <<commits, branches, url>> /\ url' \in Archives
    BY DEF OnlyReader, ReadsTypeOK
<1>2. rd'.op = op /\ rd'.b = b /\ rd'.at = at
    BY DEF Begin, Start
<1>3. op \in {"tree", "archive", "presign", "serve"} /\ op \in Listings
    BY DEF Listings
<1>4. ListingFits'
    BY <1>1, <1>3, StartListing
<1>5. UrlFits
    BY DEF ListingsFit
<1>6. rd'.op # "presign" /\ (rd'.op \in {"serve", "served"} => op = "serve")
    BY <1>2
<1>7. rd'.op \in {"serve", "served"} => rd'.at # Latest /\ url.sig = <<rd'.b, rd'.at>>
    BY <1>2, <1>6
<1>8. UrlFits'
    BY <1>1, <1>5, <1>6, <1>7, UrlKept
<1> QED BY <1>2, <1>3, <1>4, <1>8, ListingFitsOn

LEMMA ListingGoesOn ==
    ASSUME ReadsTypeOK, StoreFits, ListingsFit, OnlyReader, ListingFits', rd'.op \in Listings,
           rd'.op = rd.op \/ rd'.op \in {"tree", "listed"}, rd'.b = rd.b, rd'.at = rd.at
    PROVE  ListingsFit'
<1>1. UNCHANGED <<commits, branches, url>> /\ UrlFits
    BY DEF OnlyReader, ListingsFit
<1>2. rd'.op = "presign" => rd.op = "presign" /\ rd'.b = rd.b /\ rd'.at = rd.at
    OBVIOUS
<1>3. rd'.op \in {"serve", "served"} => rd.op \in {"serve", "served"}
    OBVIOUS
<1>4. rd.op \in {"serve", "served"} => rd.at # Latest /\ url.sig = <<rd.b, rd.at>>
    BY <1>1 DEF UrlFits, Sign
<1>5. rd'.op \in {"serve", "served"} => rd'.at # Latest /\ url.sig = <<rd'.b, rd'.at>>
    BY <1>3, <1>4
<1>6. UrlFits'
    BY <1>1, <1>2, <1>5, UrlKept
<1> QED BY <1>6, ListingFitsOn

LEMMA ListingsKept ==
    ASSUME ListingsFit, UNCHANGED readVars
    PROVE  ListingsFit'
<1>1. rd' = rd /\ url' = url /\ UNCHANGED <<commits, branches>>
    BY DEF readVars
<1>2. \A b, p, at : GetFile(b, p, at)' = GetFile(b, p, at) /\ Visible(b)' = Visible(b)
    BY <1>1, GetFileKept
<1>3. \A p \in Paths : GetFile(rd.b, p, rd.at)' = GetFile(rd.b, p, rd.at)
    BY <1>1 DEF GetFile, Visible, VersionIn, Newest
<1>4. \A p : Steady(p)' <=> Steady(p)
    BY <1>1 DEF Steady
<1>5. ListingFits'
    BY <1>1, <1>3, <1>4 DEF ListingsFit, ListingFits, Over
<1>6. UrlFits'
    <2>1. \A p \in Paths : GetFile(url.b, p, url.sig[2])' = GetFile(url.b, p, url.sig[2])
        BY <1>1 DEF GetFile, Visible, VersionIn, Newest
    <2> QED BY <1>1, <2>1 DEF ListingsFit, UrlFits, Complete
<1>7. LogsSound'
    <2>1. Visible(rd.b)' = Visible(rd.b)
        BY <1>1 DEF Visible
    <2> QED BY <1>1, <2>1 DEF ListingsFit, LogsSound, LogFits, ListingComplete
<1> QED BY <1>5, <1>6, <1>7 DEF ListingsFit

LEMMA ListingsWrite ==
    ASSUME ReadsTypeOK, StoreFits, ListingsFit, NEW b \in Names, NEW p \in Paths,
           NEW s \in 1..MaxReadSeq, NEW del \in BOOLEAN, WriteFile(b, p, s, del)
    PROVE  ListingsFit'
<1>1. StoreGrows /\ StoreTyped /\ \A d \in Names : branches'[d].base = branches[d].base
    BY WriteGrows
<1>2. ReaderNotes /\ url' = url
    BY DEF WriteFile
<1>3. url' \in Archives
    BY <1>2 DEF ReadsTypeOK
<1>4. url'.sig = url.sig /\ url'.b = url.b /\ url'.checksum = url.checksum
      /\ url'.partial = url.partial /\ (~ url'.rebased => ~ url.rebased)
    BY <1>2
<1> QED BY <1>1, <1>2, <1>3, <1>4, WriteFits

LEMMA ListingsRebase ==
    ASSUME ReadsTypeOK, StoreFits, ListingsFit,
           NEW f \in [{x.seq : x \in branchCommitGroups} -> 1..MaxReadSeq], RebaseTopic(f)
    PROVE  ListingsFit'
<1>1. StoreGrows /\ StoreTyped /\ branches'[Main] = branches[Main]
    BY RebaseGrows
<1>2. ReaderNotes /\ url' = IF url.b = "topic" THEN [url EXCEPT !.rebased = TRUE] ELSE url
    BY DEF RebaseTopic
<1>3. url \in Archives
    BY DEF ReadsTypeOK
<1>4. url' \in Archives
    BY <1>2, <1>3 DEF Archives
<1>5. url'.sig = url.sig /\ url'.b = url.b /\ url'.checksum = url.checksum
      /\ url'.partial = url.partial
    BY <1>2, <1>3 DEF Archives
<1>6. CASE url.b = "topic"
    <2>1. url'.rebased = TRUE
        BY <1>2, <1>3, <1>6 DEF Archives
    <2> QED BY <1>1, <1>2, <1>4, <1>5, <2>1, WriteFits
<1>7. CASE url.b # "topic"
    <2>1. url' = url
        BY <1>2, <1>7
    <2>2. \A d \in Names : d = url.b => d = Main
        BY <1>7 DEF Names
    <2>3. \A d \in Names : d = url.b => branches'[d].base = branches[d].base
        BY <1>1, <2>2
    <2>4. ~ url'.rebased => ~ url.rebased
        BY <2>1
    <2> QED BY <1>1, <1>2, <1>4, <1>5, <2>3, <2>4, WriteFits
<1> QED BY <1>6, <1>7

LEMMA ListingsNext ==
    ASSUME DiffsSound, ListingsFit, [ReadsNext]_readVars
    PROVE  ListingsFit'
<1>0. ReadsTypeOK /\ StoreFits /\ ListingFits /\ UrlFits /\ LogsSound
    BY DEF DiffsSound, ListingsFit
<1> USE <1>0
<1>1. ASSUME NEW b \in Names, NEW p \in Paths, NEW s \in 1..MaxReadSeq, NEW del \in BOOLEAN,
             WriteFile(b, p, s, del)
      PROVE  ListingsFit'
    BY <1>1, ListingsWrite
<1>2. ASSUME NEW f \in [{x.seq : x \in branchCommitGroups} -> 1..MaxReadSeq], RebaseTopic(f)
      PROVE  ListingsFit'
    BY <1>2, ListingsRebase
<1>3. ASSUME NEW b \in Names, NEW at \in ReadPoints(b), handleTree(b, at)
      PROVE  ListingsFit'
    <2>1. at \in Nat
        BY RowFields DEF ReadPoints, Latest, ReadsTypeOK
    <2>2. PICK op \in {"tree", "archive", "serve"} : op = "tree"
        OBVIOUS
    <2>3. rd' = Begin(op, b, at) /\ OnlyReader /\ op # "serve"
        BY <1>3, <2>2 DEF handleTree
    <2> QED BY <2>1, <2>3, BeginListing
<1>4. ASSUME NEW b \in Names, handleArchive(b, Latest)
      PROVE  ListingsFit'
    <2>1. PICK at \in Nat : at = Latest
        BY DEF Latest
    <2>2. PICK op \in {"tree", "archive", "serve"} : op = "archive"
        OBVIOUS
    <2>3. rd' = Begin(op, b, at) /\ OnlyReader /\ op # "serve"
        BY <1>4, <2>1, <2>2 DEF handleArchive
    <2> QED BY <2>3, BeginListing
<1>5. ASSUME NEW b \in Names, NEW at \in 1..MaxReadSeq, handlePresignedArchive(b, at)
      PROVE  ListingsFit'
    <2>1. at \in Nat /\ at # Latest
        BY DEF Latest
    <2>2. PICK op \in {"tree", "archive", "serve"} : op = "serve"
        OBVIOUS
    <2>3. rd' = Begin(op, b, at) /\ OnlyReader /\ url.sig = <<b, at>>
        BY <1>5, <2>2 DEF handlePresignedArchive, Verify, Sign
    <2> QED BY <2>1, <2>3, BeginListing
<1>6. CASE TreePage
    <2>1. ListingFits' /\ OnlyReader
        BY <1>6, TreePageListing DEF TreePage
    <2>2. rd'.op \in {"tree", "listed"} /\ rd'.b = rd.b /\ rd'.at = rd.at
        BY <1>6, ReaderFields DEF TreePage, Readers, Listings, Reading
    <2>3. rd'.op \in Listings
        BY <2>2 DEF Listings
    <2> QED BY <2>1, <2>2, <2>3, ListingGoesOn
<1>7. ASSUME NEW b \in Names, NEW at \in JobPoints(b), handleArchivePresign(b, at)
      PROVE  ListingsFit'
    <2>1. at \in Nat
        BY JobPointFits
    <2>2. UNCHANGED <<commits, branches>>
        BY <1>7 DEF handleArchivePresign
    <2>3. url' \in Archives
        <3>1. url' = Archive(NoSig, b, FALSE, <<>>, {})
            BY <1>7 DEF handleArchivePresign
        <3>2. <<>> \in Entries /\ NoSig \in Names \X Nat
            BY DEF Entries, NoSig, Names, Latest
        <3> QED BY <3>1, <3>2 DEF Archives, Archive
    <2>4. PICK op \in {"tree", "archive", "presign", "serve"} : op = "presign"
        OBVIOUS
    <2>5. rd' = Begin(op, b, at)
        BY <1>7, <2>4 DEF handleArchivePresign
    <2>6. ListingFits'
        BY <2>1, <2>2, <2>3, <2>5, StartListing
    <2>7. rd'.op \in Listings
        BY <2>4, <2>5 DEF Begin, Start, Listings
    <2>8. UrlFits'
        BY <1>7, PresignUrl
    <2> QED BY <2>6, <2>7, <2>8, ListingFitsOn
<1>8. ASSUME NEW b \in Names, handleCommitLog(b)
      PROVE  ListingsFit'
    <2>1. LogsSound' /\ OnlyReader
        BY <1>8, CommitLogLogs DEF handleCommitLog
    <2>2. rd'.op \in Logs
        BY <1>8 DEF handleCommitLog, Start, Logs
    <2> QED BY <2>1, <2>2, LogsFitOn
<1>9. ASSUME NEW b \in Names, logBranch(b)
      PROVE  ListingsFit'
    <2>1. LogsSound' /\ OnlyReader
        BY <1>9, WalkStartLogs DEF logBranch
    <2>2. rd'.op \in Logs
        BY <1>9 DEF logBranch, Start, Logs
    <2> QED BY <2>1, <2>2, LogsFitOn
<1>10. CASE UrlExpires
    <2>1. rd' = rd /\ rd.op = "idle" /\ url' = NoUrl
        BY <1>10 DEF UrlExpires, Reading
    <2>2. rd'.op \notin Listings /\ rd'.op \notin Logs
        BY <2>1, OpsApart
    <2>3. ListingFits'
        BY <2>2 DEF ListingFits
    <2>4. url'.sig = NoSig /\ rd'.op \notin {"serve", "served"} /\ rd'.op # "presign"
        BY <2>1 DEF NoUrl, Archive
    <2>5. UrlFits'
        BY <2>4, UnsignedUrl
    <2> QED BY <2>2, <2>3, <2>5, OtherLogs DEF ListingsFit
<1>11. CASE ArchivePage
    <2>1. ListingFits' /\ OnlyReader
        BY <1>11, ArchivePageListing DEF ArchivePage
    <2>2. rd.op \in {"archive", "presign", "serve"} /\ rd'.op = rd.op /\ rd'.b = rd.b /\ rd'.at = rd.at
        BY <1>11, ReaderFields DEF ArchivePage, Archiving, Readers, Listings
    <2>3. rd'.op \in Listings
        BY <2>2 DEF Listings
    <2> QED BY <2>1, <2>2, <2>3, ListingGoesOn
<1>12. ASSUME NEW ok \in BOOLEAN, ArchiveFile(ok)
       PROVE  ListingsFit'
    <2>1. ListingFits' /\ OnlyReader
        BY <1>12, ArchiveFileListing DEF ArchiveFile
    <2>2. rd.op \in {"archive", "presign", "serve"} /\ rd'.op = rd.op /\ rd'.b = rd.b /\ rd'.at = rd.at
        BY <1>12, ReaderFields DEF ArchiveFile, Archiving, Readers, Listings
    <2>3. rd'.op \in Listings
        BY <2>2 DEF Listings
    <2> QED BY <2>1, <2>2, <2>3, ListingGoesOn
<1>13. CASE ArchiveEnd
    <2>1. ListingFits' /\ UrlFits'
        BY <1>13, ArchiveEndListing, ArchiveEndUrl
    <2>2. rd'.op \in {"listed", "signed", "served"}
        BY <1>13, ArchiveEndTyped
    <2>3. rd'.op \in Listings
        BY <2>2 DEF Listings
    <2> QED BY <2>1, <2>3, ListingFitsOn
<1>14. ASSUME NEW b \in Names, NEW p \in Paths, handleFileHistory(b, p)
       PROVE  ListingsFit'
    <2>1. LogsSound' /\ OnlyReader
        BY <1>14, HistoryStartLogs DEF handleFileHistory
    <2>2. rd'.op \in Logs
        BY <1>14 DEF handleFileHistory, Start, Logs
    <2> QED BY <2>1, <2>2, LogsFitOn
<1>15. CASE HistoryPage
    <2>1. LogsSound' /\ OnlyReader
        BY <1>15, HistoryPageLogs DEF HistoryPage
    <2>2. rd'.op \in Logs
        BY <1>15, HistoryPageTyped
    <2> QED BY <2>1, <2>2, LogsFitOn
<1>16. CASE LogFirstRows
    <2>1. LogsSound' /\ OnlyReader
        BY <1>16, LogFirstLogs DEF LogFirstRows
    <2>2. PICK to \in Int : to = rd.after
        BY ReaderFields
    <2>3. rd' = LogWindow(rd, to) /\ rd.op \in {"log first", "log"}
        BY <1>16, <2>2 DEF LogFirstRows, Reading
    <2>4. rd'.op \in Logs
        BY <2>3, WindowIs
    <2> QED BY <2>1, <2>4, LogsFitOn
<1>17. CASE handleLogRowsPartial
    <2>1. LogsSound' /\ OnlyReader
        BY <1>17, LogRowsLogs DEF handleLogRowsPartial
    <2>2. PICK to \in Int : to = rd.after - 1
        BY ReaderFields
    <2>3. rd' = LogWindow(rd, to) /\ rd.op \in {"log first", "log"}
        BY <1>17, <2>2 DEF handleLogRowsPartial, Reading
    <2>4. rd'.op \in Logs
        BY <2>3, WindowIs
    <2> QED BY <2>1, <2>4, LogsFitOn
<1>18. CASE WalkCommit
    <2>1. LogsSound' /\ OnlyReader
        BY <1>18, WalkLogs DEF WalkCommit
    <2>2. rd'.op \in Logs
        BY <1>18, WalkTyped
    <2> QED BY <2>1, <2>2, LogsFitOn
<1>19. CASE Answered
    <2>1. rd'.op = "idle" /\ OnlyReader
        BY <1>19 DEF Answered, NoReader, Begin, Start
    <2>2. rd'.op \in FilePages \cup {"idle"}
        BY <2>1
    <2> QED BY <2>1, <2>2, PageFitsOn
<1>20. CASE UNCHANGED readVars
    BY <1>20, ListingsKept
<1>21. ASSUME NEW b \in Names, NEW p \in Paths, NEW at \in ReadPoints(b), handleFile(b, p, at)
       PROVE  ListingsFit'
    <2>1. rd'.op \in FilePages /\ OnlyReader
        BY <1>21, PageOps
    <2> QED BY <2>1, PageFitsOn
<1>22. ASSUME NEW c \in commits, handleCommitFileDiffPartial(c)
       PROVE  ListingsFit'
    <2>1. rd'.op \in FilePages /\ OnlyReader
        BY <1>22, PageOps
    <2> QED BY <2>1, PageFitsOn
<1>23. CASE FilePageContent \/ FilePageHistory \/ DiffPrevious \/ AssembleAgentContext \/ GetDiff
               \/ DiffChanges \/ ContextCommits
    <2>1. rd'.op \in FilePages /\ OnlyReader
        BY <1>23, PageOps
    <2> QED BY <2>1, PageFitsOn
<1>25. CASE ArchivePageFails
    <2>1. CASE rd.op = "presign"
        <3>1. rd'.op = "idle" /\ url' = NoUrl
            BY <1>25, <2>1, ArchivePageFailsTyped
        <3>2. rd'.op \notin Listings /\ rd'.op \notin Logs
            BY <3>1, OpsApart
        <3>3. ListingFits'
            BY <3>2 DEF ListingFits
        <3>4. url'.sig = NoSig /\ rd'.op \notin {"serve", "served"} /\ rd'.op # "presign"
            BY <3>1 DEF NoUrl, Archive
        <3>5. UrlFits'
            BY <3>4, UnsignedUrl
        <3> QED BY <3>2, <3>3, <3>5, OtherLogs DEF ListingsFit
    <2>2. CASE rd.op # "presign"
        <3>1. ListingFits' /\ rd'.b = rd.b /\ rd'.at = rd.at
            BY <1>25, <2>2, ArchivePageFailsListing
        <3>2. rd'.op = rd.op /\ url' = url /\ rd'.op \in {"archive", "presign", "serve"}
            BY <1>25, <2>2, ArchivePageFailsTyped
        <3>3. rd'.op \in Listings /\ OnlyReader
            BY <1>25, <3>2 DEF Listings, OnlyReader, ArchivePageFails
        <3> QED BY <3>1, <3>2, <3>3, ListingGoesOn
    <2> QED BY <2>1, <2>2
<1>24. CASE ReadsNext
    BY <1>25, <1>1, <1>2, <1>3, <1>4, <1>5, <1>6, <1>7, <1>8, <1>9, <1>10, <1>11, <1>12, <1>13, <1>14,
       <1>15, <1>16, <1>17, <1>18, <1>19, <1>21, <1>22, <1>23, <1>24 DEF ReadsNext
<1> QED BY <1>20, <1>24

\* What a failed read leaves out stays out.
LEMMA SkippedNow ==
    ASSUME NEW got, NEW todo, NEW after, NEW last, NEW skipped,
           rd'.got = got, rd'.todo = todo, rd'.after = after, rd'.last = last, rd'.skipped = skipped,
           rd'.op = "tree" => skipped = {},
           \A i \in DOMAIN got : got[i][1] \notin skipped,
           \A k \in DOMAIN todo : todo[k] \notin skipped,
           last \/ \A p \in skipped : p <= after
    PROVE  SkippedFits'
BY DEF SkippedFits

LEMMA SkippedNone ==
    ASSUME rd'.skipped = {}
    PROVE  SkippedFits'
BY DEF SkippedFits

LEMMA SkippedWrite ==
    ASSUME ReadsTypeOK, SkippedFits, ReaderNotes
    PROVE  SkippedFits'
<1>1. CASE rd' = rd
    BY <1>1 DEF SkippedFits
<1>2. CASE rd' # rd
    <2>1. Listing /\ rd.op \in Listings
        BY <1>2, NotesReader DEF Listing, Listings
    <2>2. PICK T : rd' = [rd EXCEPT !.touched = T]
        BY <2>1, NotesReader
    <2>3. rd \in Readers(Entries)
        BY <2>1, ReaderFields
    <2>4. /\ rd'.op = rd.op /\ rd'.got = rd.got /\ rd'.todo = rd.todo /\ rd'.after = rd.after
          /\ rd'.last = rd.last /\ rd'.skipped = rd.skipped
        BY <2>2, <2>3 DEF Readers
    <2> QED BY <2>4 DEF SkippedFits
<1> QED BY <1>1, <1>2

LEMMA SkippedPage ==
    ASSUME ReadsTypeOK, StoreFits, SkippedFits, ArchivePage
    PROVE  SkippedFits'
<1>1. PICK op, b, at, got, after, skipped :
          /\ rd.op = op /\ rd.b = b /\ rd.at = at /\ rd.got = got
          /\ rd.after = after /\ rd.skipped = skipped
    OBVIOUS
<1>2. op \in {"archive", "presign", "serve"} /\ rd.op \in Listings /\ rd \in Readers(Entries)
    BY <1>1, ReaderFields DEF ArchivePage, Archiving, Listings
<1>3. after \in Nat /\ skipped \in SUBSET Paths /\ b \in Names /\ at \in Nat
    BY <1>1, ReaderFields
<1>4. PICK page : page = MaterializeTree(b, at, PageSize, after)
    OBVIOUS
<1>5. PICK k \in Nat :
               /\ page \in Seq(Paths) /\ Len(page) = k /\ DOMAIN page = 1..k
               /\ \A i \in 1..k : page[i] \in Paths /\ page[i] > after
    BY <1>1, <1>4, TreeIs
<1>6. PICK last2, end : last2 = LastPage(page) /\ end = IF page = <<>> THEN after ELSE page[k]
    OBVIOUS
<1>7. rd' = [rd EXCEPT !.todo = page, !.last = last2, !.after = end]
    <2>1. rd' = [rd EXCEPT !.todo = page, !.last = LastPage(page),
                           !.after = IF page = <<>> THEN after ELSE page[Len(page)]]
        BY <1>1, <1>4 DEF ArchivePage
    <2> QED BY <1>5, <1>6, <2>1
<1>8. /\ rd'.op = op /\ rd'.got = got /\ rd'.todo = page /\ rd'.after = end
      /\ rd'.last = last2 /\ rd'.skipped = skipped
    BY <1>1, <1>2, <1>7 DEF Readers
<1>9. /\ \A i \in DOMAIN got : got[i][1] \notin skipped
      /\ \A p \in skipped : p <= after
    BY <1>1, <1>2 DEF SkippedFits, ArchivePage
<1>10. Paths \subseteq Nat
    BY ReadsAssumption DEF Paths
<1>11. \A i \in DOMAIN page : page[i] \notin skipped
    <2>1. ASSUME NEW i \in 1..k, page[i] \in skipped PROVE FALSE
        <3>1. page[i] > after /\ page[i] <= after /\ page[i] \in Nat
            BY <1>5, <1>9, <1>10, <2>1
        <3> QED BY <1>3, <3>1
    <2> QED BY <1>5, <2>1
<1>12. end \in Nat /\ after <= end
    <2>1. CASE page = <<>>
        BY <1>3, <1>6, <2>1
    <2>2. CASE page # <<>>
        <3>1. k \in 1..k
            BY <1>5, <2>2, EmptySeq
        <3>2. end \in Nat /\ end > after
            BY <1>5, <1>6, <1>10, <2>2, <3>1
        <3> QED BY <1>3, <3>2
    <2> QED BY <2>1, <2>2
<1>13. \A p \in skipped : p <= end
    <2>1. ASSUME NEW p \in skipped PROVE p <= end
        <3>1. p \in Nat /\ p <= after
            BY <1>3, <1>9, <1>10
        <3> QED BY ONLY <1>3, <1>12, <3>1
    <2> QED BY <2>1
<1> QED BY <1>2, <1>8, <1>9, <1>11, <1>13, SkippedNow

LEMMA SkippedPageFails ==
    ASSUME ReadsTypeOK, ListingFits, SkippedFits, ArchivePageFails
    PROVE  SkippedFits'
<1>0. CASE rd.op = "presign"
    BY <1>0, ArchivePageFailsTyped, OpsApart DEF SkippedFits
<1>00. CASE rd.op # "presign"
    <2>1. PICK op, got, after, skipped :
              rd.op = op /\ rd.got = got /\ rd.after = after /\ rd.skipped = skipped
        OBVIOUS
    <2>2. op \in {"archive", "serve"} /\ rd.op \in Listings /\ rd \in Readers(Entries)
        BY <1>00, <2>1, ReaderFields DEF ArchivePageFails, Archiving, Listings
    <2>3. after \in Nat /\ got \in Entries
        BY <2>1, <2>2, ReaderFields
    <2>4. PICK more : more = skipped \cup {p \in Paths : p > after}
        OBVIOUS
    <2>5. rd' = [rd EXCEPT !.last = TRUE, !.skipped = more] /\ rd.todo = <<>>
        BY <1>00, <2>1, <2>4 DEF ArchivePageFails
    <2>6. /\ rd'.op = op /\ rd'.got = got /\ rd'.todo = <<>> /\ rd'.after = after
          /\ rd'.last = TRUE /\ rd'.skipped = more
        BY <2>1, <2>2, <2>5 DEF Readers
    <2>7. \A i \in DOMAIN got : got[i][1] \notin skipped
        BY <2>1, <2>2 DEF SkippedFits
    <2>8. \A i \in DOMAIN got : got[i][1] <= after
        BY <2>1, <2>2 DEF ListingFits
    <2>9. \A i \in DOMAIN got : got[i][1] \notin more
        <3>1. ASSUME NEW i \in DOMAIN got PROVE ~ (got[i][1] > after)
            <4>1. got[i][1] \in Paths /\ got[i][1] <= after
                BY <2>3, <2>8, EntryFields
            <4>2. got[i][1] \in Nat
                BY <4>1, ReadsAssumption DEF Paths
            <4> QED BY <2>3, <4>1, <4>2
        <3> QED BY <2>4, <2>7, <3>1
    <2>10. \A k \in DOMAIN <<>> : <<>>[k] \notin more
        OBVIOUS
    <2> QED BY <2>2, <2>6, <2>9, <2>10, SkippedNow
<1> QED BY <1>0, <1>00

LEMMA SkippedFile ==
    ASSUME ReadsTypeOK, StoreFits, ListingFits, SkippedFits, NEW ok \in BOOLEAN, ArchiveFile(ok)
    PROVE  SkippedFits'
<1>1. PICK op, got, todo, after, last, skipped :
          /\ rd.op = op /\ rd.got = got /\ rd.todo = todo
          /\ rd.after = after /\ rd.last = last /\ rd.skipped = skipped
    OBVIOUS
<1>2. op \in {"archive", "presign", "serve"} /\ rd.op \in Listings /\ rd \in Readers(Entries)
    BY <1>1, ReaderFields DEF ArchiveFile, Archiving, Listings
<1>3. got \in Entries /\ todo \in Seq(Paths) /\ todo # <<>> /\ after \in Nat
    BY <1>1, <1>2, ReaderFields DEF ArchiveFile
<1>4. PICK p0, v, n, rest : p0 = Head(todo) /\ v = GetFile(rd.b, p0, rd.at) /\ n = Len(todo)
                            /\ rest = Tail(todo)
    OBVIOUS
<1>5. /\ n \in Nat /\ 1 \in 1..n /\ p0 = todo[1] /\ p0 \in Paths /\ DOMAIN todo = 1..n
      /\ DOMAIN rest = 1..(n - 1) /\ \A i \in 1..(n - 1) : i + 1 \in 1..n /\ rest[i] = todo[i + 1]
    BY <1>3, <1>4, HeadTailIs
<1>6. PICK more, skipped2 :
          /\ more = IF ok /\ v # 0 THEN Append(got, <<p0, v>>) ELSE got
          /\ skipped2 = IF ok THEN skipped ELSE skipped \cup {p0}
    OBVIOUS
<1>7. rd' = [rd EXCEPT !.todo = rest, !.got = more, !.skipped = skipped2]
    BY <1>1, <1>4, <1>6 DEF ArchiveFile
<1>8. /\ rd'.op = op /\ rd'.got = more /\ rd'.todo = rest /\ rd'.after = after
      /\ rd'.last = last /\ rd'.skipped = skipped2
    BY <1>1, <1>2, <1>7 DEF Readers
<1>9. /\ \A i \in DOMAIN got : got[i][1] \notin skipped
      /\ \A k \in DOMAIN todo : todo[k] \notin skipped
      /\ last \/ \A p \in skipped : p <= after
    BY <1>1, <1>2 DEF SkippedFits
<1>10. /\ Rising(todo) /\ \A i \in DOMAIN got, k \in DOMAIN todo : got[i][1] < todo[k]
       /\ \A k \in DOMAIN todo : todo[k] <= after
    BY <1>1, <1>2 DEF ListingFits
<1>11. \A i \in 1..(n - 1) : rest[i] \notin skipped /\ rest[i] # p0
    <2>1. ASSUME NEW i \in 1..(n - 1) PROVE rest[i] \notin skipped /\ rest[i] # p0
        <3>1. i + 1 \in 1..n /\ rest[i] = todo[i + 1] /\ 1 < i + 1
            BY <1>5
        <3>2. todo[1] < todo[i + 1]
            BY <1>5, <1>10, <3>1 DEF Rising
        <3>3. todo[1] \in Nat
            BY <1>5, ReadsAssumption DEF Paths
        <3>4. todo[1] # todo[i + 1]
            BY <3>2, <3>3
        <3> QED BY <1>5, <1>9, <3>1, <3>4
    <2> QED BY <2>1
<1>12. \A i \in DOMAIN got : got[i][1] \notin skipped /\ got[i][1] # p0
    <2>1. ASSUME NEW i \in DOMAIN got PROVE got[i][1] # p0
        <3>1. got[i][1] < p0
            BY <1>5, <1>10
        <3>2. p0 \in Nat
            BY <1>5, ReadsAssumption DEF Paths
        <3> QED BY <3>1, <3>2
    <2> QED BY <1>9, <2>1
<1>13. \A i \in DOMAIN more : more[i][1] \notin skipped2
    <2>1. CASE ok /\ v # 0
        <3>1. more = Append(got, <<p0, v>>) /\ skipped2 = skipped
            BY <1>6, <2>1
        <3>2. ASSUME NEW i \in DOMAIN more PROVE more[i][1] \notin skipped
            <4>1. PICK m : m = Len(got)
                OBVIOUS
            <4>2. m \in Nat /\ DOMAIN got = 1..m /\ DOMAIN more = 1..(m + 1)
                  /\ more[m + 1] = <<p0, v>> /\ \A j \in 1..m : more[j] = got[j]
                BY <1>3, <3>1, <4>1, LenProperties, AppendProperties DEF Entries
            <4>3. i \in 1..m \/ i = m + 1
                BY <4>2
            <4>4. p0 \notin skipped /\ <<p0, v>>[1] = p0
                BY <1>5, <1>9
            <4>5. CASE i \in 1..m
                BY <1>9, <4>2, <4>5
            <4>6. CASE i = m + 1
                BY <4>2, <4>4, <4>6
            <4> QED BY <4>3, <4>5, <4>6
        <3> QED BY <3>1, <3>2
    <2>2. CASE ~ (ok /\ v # 0)
        BY <1>6, <1>12, <2>2
    <2> QED BY <2>1, <2>2
<1>14. \A k \in DOMAIN rest : rest[k] \notin skipped2
    BY <1>5, <1>6, <1>11
<1>15. last \/ \A p \in skipped2 : p <= after
    BY <1>5, <1>6, <1>9, <1>10
<1>16. rd'.op # "tree"
    BY <1>2, <1>8
<1> QED BY <1>8, <1>13, <1>14, <1>15, <1>16, SkippedNow

LEMMA SkippedTree ==
    ASSUME ReadsTypeOK, SkippedFits, TreePage
    PROVE  SkippedFits'
<1>1. rd.op = "tree" /\ rd.op \in Listings /\ rd \in Readers(Entries)
    BY ReaderFields DEF TreePage, Reading, Listings
<1>2. rd.skipped = {}
    BY <1>1 DEF SkippedFits
<1>3. PICK got, op, after : rd' = [rd EXCEPT !.got = got, !.op = op, !.after = after]
    BY DEF TreePage
<1>4. rd'.skipped = {}
    BY <1>1, <1>2, <1>3 DEF Readers
<1> QED BY <1>4, SkippedNone

LEMMA SkippedEnd ==
    ASSUME ReadsTypeOK, SkippedFits, ArchiveEnd
    PROVE  SkippedFits'
<1>1. rd'.op # "tree" /\ rd.op \in Listings /\ rd \in Readers(Entries)
    BY ArchiveEndTyped, ReaderFields DEF ArchiveEnd, Archiving, Listings
<1>2. PICK x : rd' = [rd EXCEPT !.op = x]
    BY DEF ArchiveEnd, Finished
<1>3. /\ rd'.got = rd.got /\ rd'.todo = rd.todo /\ rd'.after = rd.after
      /\ rd'.last = rd.last /\ rd'.skipped = rd.skipped
    BY <1>1, <1>2 DEF Readers
<1> QED BY <1>1, <1>3 DEF SkippedFits

LEMMA SkippedNext ==
    ASSUME DiffsSound, ListingsFit, SkippedFits, [ReadsNext]_readVars
    PROVE  SkippedFits'
<1>0. ReadsTypeOK /\ StoreFits /\ ListingFits
    BY DEF DiffsSound, ListingsFit
<1> USE <1>0
<1>1. ASSUME NEW b \in Names, NEW p \in Paths, NEW s \in 1..MaxReadSeq, NEW del \in BOOLEAN,
             WriteFile(b, p, s, del)
      PROVE  SkippedFits'
    BY <1>1, SkippedWrite DEF WriteFile
<1>2. ASSUME NEW f \in [{x.seq : x \in branchCommitGroups} -> 1..MaxReadSeq], RebaseTopic(f)
      PROVE  SkippedFits'
    BY <1>2, SkippedWrite DEF RebaseTopic
<1>3. ASSUME NEW b \in Names, NEW at, handleTree(b, at) \/ handleArchive(b, at)
                 \/ handlePresignedArchive(b, at) \/ handleArchivePresign(b, at)
      PROVE  SkippedFits'
    <2>1. rd'.skipped = {}
        <3>1. \A op : Begin(op, b, at).skipped = {}
            BY DEF Begin, Start
        <3>2. \E op : rd' = Begin(op, b, at)
            BY <1>3 DEF handleTree, handleArchive, handlePresignedArchive, handleArchivePresign
        <3> QED BY <3>1, <3>2
    <2> QED BY <2>1, SkippedNone
<1>4. CASE TreePage
    BY <1>4, SkippedTree
<1>5. CASE ArchivePage
    BY <1>5, SkippedPage
<1>6. CASE ArchivePageFails
    BY <1>6, SkippedPageFails
<1>7. ASSUME NEW ok \in BOOLEAN, ArchiveFile(ok)
      PROVE  SkippedFits'
    BY <1>7, SkippedFile
<1>8. CASE ArchiveEnd
    BY <1>8, SkippedEnd
<1>9. ASSUME NEW b \in Names, handleCommitLog(b) \/ logBranch(b)
      PROVE  SkippedFits'
    <2>1. \A op, at, p, after, due, got : Start(op, b, at, p, after, due, got).skipped = {}
        BY DEF Start
    <2>2. \E op, at, p, after, due, got : rd' = Start(op, b, at, p, after, due, got)
        BY <1>9 DEF handleCommitLog, logBranch
    <2>3. rd'.skipped = {}
        BY <2>1, <2>2
    <2> QED BY <2>3, SkippedNone
<1>10. ASSUME NEW b \in Names, NEW p \in Paths, handleFileHistory(b, p)
      PROVE  SkippedFits'
    <2>1. rd'.skipped = {}
        BY <1>10 DEF handleFileHistory, Start
    <2> QED BY <2>1, SkippedNone
<1>11. ASSUME rd'.op \in Logs \cup FilePages \cup {"idle"}
       PROVE  SkippedFits'
    BY <1>11, OpsApart DEF SkippedFits
<1>12. CASE HistoryPage
    BY <1>11, <1>12, HistoryPageTyped
<1>13. CASE LogFirstRows \/ handleLogRowsPartial
    <2>1. PICK a \in Int, c \in Int : a = rd.after /\ c = rd.after - 1
        BY ReaderFields
    <2>2. CASE LogFirstRows
        <3>1. rd' = LogWindow(rd, a) /\ rd.op \in {"log first", "log"}
            BY <2>1, <2>2 DEF LogFirstRows, Reading
        <3> QED BY <1>11, <3>1, WindowIs
    <2>3. CASE handleLogRowsPartial
        <3>1. rd' = LogWindow(rd, c) /\ rd.op \in {"log first", "log"}
            BY <2>1, <2>3 DEF handleLogRowsPartial, Reading
        <3> QED BY <1>11, <3>1, WindowIs
    <2> QED BY <1>13, <2>2, <2>3
<1>14. CASE WalkCommit
    BY <1>11, <1>14, WalkTyped
<1>15. CASE Answered
    BY <1>11, <1>15 DEF Answered, NoReader, Begin, Start
<1>16. CASE UrlExpires \/ UNCHANGED readVars
    <2>1. rd' = rd
        BY <1>16 DEF UrlExpires, readVars
    <2> QED BY <2>1 DEF SkippedFits
<1>17. ASSUME NEW b \in Names, NEW p \in Paths, NEW at \in ReadPoints(b), handleFile(b, p, at)
       PROVE  SkippedFits'
    BY <1>11, <1>17, PageOps
<1>18. ASSUME NEW c \in commits, handleCommitFileDiffPartial(c)
       PROVE  SkippedFits'
    BY <1>11, <1>18, PageOps
<1>19. CASE FilePageContent \/ FilePageHistory \/ DiffPrevious \/ AssembleAgentContext \/ GetDiff
               \/ DiffChanges \/ ContextCommits
    BY <1>11, <1>19, PageOps
<1>20. CASE ReadsNext
    BY <1>1, <1>2, <1>3, <1>4, <1>5, <1>6, <1>7, <1>8, <1>9, <1>10, <1>12, <1>13, <1>14,
       <1>15, <1>16, <1>17, <1>18, <1>19, <1>20 DEF ReadsNext
<1> QED BY <1>16, <1>20

LEMMA ListingsInit ==
    ASSUME ReadsInit
    PROVE  ListingsFit
<1>1. rd.op = "idle" /\ url.sig = NoSig
    BY DEF ReadsInit, NoReader, Begin, Start, NoUrl, Archive
<1>2. rd.op \notin Listings /\ rd.op \notin Logs
    BY <1>1, OpsApart
<1>3. ListingFits
    BY <1>2 DEF ListingFits
<1>4. UrlFits
    BY <1>1 DEF UrlFits
<1>5. LogsSound
    BY <1>1, <1>2 DEF LogsSound, LogFits, ListingComplete
<1> QED BY <1>3, <1>4, <1>5 DEF ListingsFit

\* Trees read in pages, archives, file histories and logs are put together from
\* several requests while commits and rebases land between them: a path that stays
\* as it is appears once, with its version, unless the read of it or of its page
\* failed, which leaves it out of an archive that is still well formed (handleTree,
\* writeArchive); the archive that is fetched is the one its checksum was computed
\* for, but for failed reads and a rebase of the branch, and one that the checksum
\* accepts is the whole tree unless the presigned one lacked files already or the
\* branch was rebased (handleArchivePresign, handlePresignedArchive); a history or
\* log is in descending order and misses no commit that was there when it began
\* (GetFileHistory, handleLogRowsPartial, logBranch).
THEOREM ListingsHold == ReadsSpec => []ListingsSound
<1>1. ReadsInit => ListingsFit /\ SkippedFits
    <2>1. ReadsInit => SkippedFits
        BY OpsApart DEF ReadsInit, SkippedFits, NoReader, Begin, Start
    <2> QED BY <2>1, ListingsInit
<1>2. DiffsSound /\ ListingsFit /\ SkippedFits /\ [ReadsNext]_readVars => (ListingsFit /\ SkippedFits)'
    BY ListingsNext, SkippedNext
<1>3. DiffsSound /\ ListingsFit /\ SkippedFits => ListingsSound
    <2> SUFFICES ASSUME DiffsSound, ListingsFit, SkippedFits PROVE ListingsSound
        OBVIOUS
    <2>1. ReadsTypeOK /\ StoreFits /\ ListingFits /\ UrlFits /\ LogFits /\ ListingComplete
        BY DEF DiffsSound, ListingsFit, LogsSound
    <2>2. ListedAsStored /\ ArchiveMatchesChecksum
        BY <2>1, ListedSound, ServedSound
    <2> QED BY <2>1, <2>2 DEF ListingsSound
<1> QED BY <1>1, <1>2, <1>3, DiffsHold, PTL DEF ReadsSpec
=============================================================================
