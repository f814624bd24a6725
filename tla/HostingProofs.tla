----------------------------- MODULE HostingProofs -----------------------------
(***************************************************************************)
(* Four services of hosting, each for itself: no object that a run is      *)
(* associated with is ever collected, for any number of runs, collectors,  *)
(* plans and digests; revoking the local write authority drains an         *)
(* activation and tells every bridge once, for any number of threads and   *)
(* callbacks; a model stream never mixes two executions of its call, for   *)
(* any number of activations, deltas and generations; and the answer of a  *)
(* call that is given up is read or handed back.                           *)
(***************************************************************************)
EXTENDS ObjectCollection, WriteAuthority, DurableStream, SyncBridge, SequenceTheorems, TLAPS

-----------------------------------------------------------------------------
(* Object collection.  What the digest lock protects is the argument: a     *)
(* commit that has passed its second look at the bucket keeps the locks of  *)
(* all it refers to, and a collector that deletes has the lock of a digest  *)
(* nobody is associated with, until its transaction has ended.              *)

\* What a commit in progress is made of.
UploadRecords ==
    [stage : {"off", "put", "lock", "persist"}, blobs : SUBSET Digests, refs : SUBSET Digests,
     left : SUBSET Digests]

CandidateLists == [Digests -> [version : Nat, generation : Nat]]

CollectorStages == {"off", "plan", "examine", "delete", "deleted", "missing"}

\* What a collector at work is made of.
CollectorRecords ==
    [stage : CollectorStages, plan : Plans \union {Nobody}, digest : Digests \union {0},
     seen : CandidateLists]

CollectionTypes ==
    /\ objectVersions \in [Digests -> Nat] /\ stored \in [Digests -> Nat]
    /\ blobRow \in [Digests -> [generation : Nat, state : {"none", "available", "deleted"}]]
    /\ associations \subseteq Uploaders \X Digests
    /\ digestLock \in [Digests -> Uploaders \union Collectors \union {Nobody}]
    /\ upload \in [Uploaders -> UploadRecords]
    /\ collector \in [Collectors -> CollectorRecords]

Applying(g) == collector[g].stage \in {"examine", "delete", "deleted", "missing"}

Deleting(g) == collector[g].stage \in {"delete", "deleted", "missing"}

\* A commit that was let through keeps its locks, and what it refers to is there.
CommitsHoldLocks ==
    \A r \in Uploaders : upload[r].stage = "persist" => HoldsLocks(r) /\ BlobsResolve(r)

\* A collector keeps the lock of its candidate ...
CollectorsHoldLocks ==
    \A g \in Collectors : Applying(g) =>
        collector[g].digest \in Digests /\ digestLock[collector[g].digest] = g

\* ... which nobody is associated with from the check to the end.
DeletedAreFree ==
    \A g \in Collectors : Deleting(g) => ~Associated(collector[g].digest)

CollectionInvariant ==
    /\ CollectionTypes
    /\ AssociatedObjectsExist
    /\ CommitsHoldLocks
    /\ CollectorsHoldLocks
    /\ DeletedAreFree

(* The empty bucket and the empty tables satisfy the invariant. *)
LEMMA CollectionStarts == ObjectInit => CollectionInvariant
BY CollectionBoundsAssumption
DEF ObjectInit, CollectionInvariant, CollectionTypes, UploadRecords, AssociatedObjectsExist, CommitsHoldLocks,
    CollectorsHoldLocks, DeletedAreFree, Applying, Deleting, NoRow, NoUpload, NoCandidate, NoPlan,
    IdleCollector, Associated, Digests, CollectorRecords, CollectorStages, CandidateLists

(* A commit in progress stays one when its stage or what it has left changes. *)
LEMMA UploadMoves ==
    ASSUME NEW u \in UploadRecords, NEW s \in {"off", "put", "lock", "persist"}
    PROVE  /\ [u EXCEPT !.stage = s] \in UploadRecords
           /\ [u EXCEPT !.stage = s].stage = s
           /\ [u EXCEPT !.stage = s].blobs = u.blobs /\ [u EXCEPT !.stage = s].refs = u.refs
BY DEF UploadRecords

LEMMA UploadPuts ==
    ASSUME NEW u \in UploadRecords, NEW some \in SUBSET Digests
    PROVE  /\ [u EXCEPT !.left = some] \in UploadRecords
           /\ [u EXCEPT !.left = some].stage = u.stage
           /\ [u EXCEPT !.left = some].blobs = u.blobs /\ [u EXCEPT !.left = some].refs = u.refs
BY DEF UploadRecords

(* What protects a commit does not depend on how far others have got. *)
LEMMA CommitIsUntouched ==
    ASSUME NEW q \in Uploaders, HoldsLocks(q), BlobsResolve(q),
           UNCHANGED <<stored, associations, blobRow, digestLock>>,
           upload'[q].blobs = upload[q].blobs, upload'[q].refs = upload[q].refs
    PROVE  HoldsLocks(q)' /\ BlobsResolve(q)'
BY DEF HoldsLocks, LocksOf, BlobsResolve

(* A step that lets no commit through and touches nothing shared is harmless. *)
LEMMA QuietUpload ==
    ASSUME AssociatedObjectsExist, CommitsHoldLocks, CollectorsHoldLocks, DeletedAreFree,
           UNCHANGED <<stored, associations, blobRow, digestLock, collector>>,
           \A q \in Uploaders : upload'[q].stage = "persist" =>
               /\ upload[q].stage = "persist"
               /\ upload'[q].blobs = upload[q].blobs /\ upload'[q].refs = upload[q].refs
    PROVE  AssociatedObjectsExist' /\ CommitsHoldLocks' /\ CollectorsHoldLocks' /\ DeletedAreFree'
<1>1. AssociatedObjectsExist'
  BY DEF AssociatedObjectsExist
<1>2. CommitsHoldLocks'
  BY CommitIsUntouched DEF CommitsHoldLocks
<1>3. CollectorsHoldLocks'
  BY DEF CollectorsHoldLocks, Applying
<1>4. DeletedAreFree'
  BY DEF DeletedAreFree, Deleting, Associated
<1> QED BY <1>1, <1>2, <1>3, <1>4

(* A step of a commit, from the first put to the transaction that associates
   its blobs, keeps the invariant. *)
LEMMA UploadingKeepsInvariant ==
    ASSUME CollectionInvariant, NEW r \in Uploaders, Uploading(r)
    PROVE  CollectionInvariant'
<1> USE CollectionActorsAssumption DEF CollectionInvariant
<1>1. ASSUME NEW blobs \in SUBSET Digests, NEW refs \in SUBSET Digests, StartUpload(r, blobs, refs)
      PROVE  CollectionInvariant'
  <2>1. CollectionTypes'
    BY <1>1 DEF CollectionTypes, UploadRecords, StartUpload, bucket, objectTables
  <2>2. /\ UNCHANGED <<stored, associations, blobRow, digestLock, collector>>
        /\ \A q \in Uploaders : upload'[q].stage = "persist" => upload'[q] = upload[q]
    BY <1>1 DEF CollectionTypes, UploadRecords, StartUpload, bucket, objectTables
  <2>3. /\ AssociatedObjectsExist' /\ CommitsHoldLocks'
        /\ CollectorsHoldLocks' /\ DeletedAreFree'
    BY <2>2, QuietUpload
  <2> QED BY <2>1, <2>3
<1>2. ASSUME NEW d \in Digests, PutIfAbsent(r, d)
      PROVE  CollectionInvariant'
  <2>1. CollectionTypes'
    <3>0. upload[r].left \ {d} \in SUBSET Digests
      BY DEF CollectionTypes, UploadRecords
    <3>1. [upload[r] EXCEPT !.left = upload[r].left \ {d}] \in UploadRecords
      BY <3>0, UploadPuts DEF CollectionTypes
    <3>2. upload' = [upload EXCEPT ![r] = [upload[r] EXCEPT !.left = upload[r].left \ {d}]]
      BY <1>2 DEF PutIfAbsent
    <3>3. upload' \in [Uploaders -> UploadRecords]
      BY <3>1, <3>2 DEF CollectionTypes
    <3>4. objectVersions[d] + 1 \in Nat
      BY DEF CollectionTypes
    <3>5. objectVersions' \in [Digests -> Nat] /\ stored' \in [Digests -> Nat]
      BY <1>2, <3>4 DEF CollectionTypes, PutIfAbsent, bucket
    <3> QED BY <1>2, <3>3, <3>5 DEF CollectionTypes, PutIfAbsent, objectTables
  <2>2. \A e \in Digests : stored[e] # 0 => stored'[e] # 0
    BY <1>2 DEF CollectionTypes, UploadRecords, PutIfAbsent, bucket
  <2>3. \A q \in Uploaders : upload'[q].stage = upload[q].stage /\ upload'[q].blobs = upload[q].blobs
                               /\ upload'[q].refs = upload[q].refs
    BY <1>2 DEF CollectionTypes, UploadRecords, PutIfAbsent
  <2>4. UNCHANGED <<associations, blobRow, digestLock, collector>>
    BY <1>2 DEF PutIfAbsent, objectTables
  <2>5. AssociatedObjectsExist' /\ CommitsHoldLocks'
    BY <2>2, <2>3, <2>4 DEF CollectionTypes, UploadRecords, AssociatedObjectsExist,
         CommitsHoldLocks, CollectorsHoldLocks, DeletedAreFree, Associated, HoldsLocks, LocksOf,
         BlobsResolve, Applying, Deleting
  <2>6. CollectorsHoldLocks' /\ DeletedAreFree'
    BY <2>4 DEF CollectionTypes, UploadRecords, AssociatedObjectsExist, CommitsHoldLocks,
         CollectorsHoldLocks, DeletedAreFree, Associated, HoldsLocks, LocksOf, BlobsResolve,
         Applying, Deleting
  <2> QED BY <2>1, <2>5, <2>6
<1>3. ASSUME PreparedBlobs(r)
      PROVE  CollectionInvariant'
  <2>1. CollectionTypes'
    <3>1. [upload[r] EXCEPT !.stage = "lock"] \in UploadRecords
      BY UploadMoves DEF CollectionTypes
    <3>2. upload' = [upload EXCEPT ![r] = [upload[r] EXCEPT !.stage = "lock"]]
      BY <1>3 DEF PreparedBlobs
    <3>3. upload' \in [Uploaders -> UploadRecords]
      BY <3>1, <3>2 DEF CollectionTypes
    <3> QED BY <1>3, <3>3 DEF CollectionTypes, PreparedBlobs, bucket, objectTables
  <2>2. /\ UNCHANGED <<stored, associations, blobRow, digestLock, collector>>
        /\ \A q \in Uploaders : upload'[q].stage = "persist" => upload'[q] = upload[q]
    BY <1>3 DEF CollectionTypes, UploadRecords, PreparedBlobs, bucket, objectTables
  <2>3. /\ AssociatedObjectsExist' /\ CommitsHoldLocks'
        /\ CollectorsHoldLocks' /\ DeletedAreFree'
    BY <2>2, QuietUpload
  <2> QED BY <2>1, <2>3
<1>4. ASSUME NEW d \in Digests, LockDigest(r, d)
      PROVE  CollectionInvariant'
  <2>1. CollectionTypes'
    BY <1>4 DEF CollectionTypes, UploadRecords, LockDigest, bucket, objectTables
  <2>2. /\ UNCHANGED <<stored, associations, blobRow, upload, collector>>
        /\ digestLock[d] = Nobody /\ digestLock' = [digestLock EXCEPT ![d] = r]
    BY <1>4 DEF LockDigest, bucket, objectTables
  <2>3. \A e \in Digests : digestLock[e] # Nobody => digestLock'[e] = digestLock[e]
    BY <2>2 DEF CollectionTypes
  <2>4. AssociatedObjectsExist' /\ DeletedAreFree'
    BY <2>2 DEF CollectionTypes, UploadRecords, AssociatedObjectsExist, CommitsHoldLocks,
         CollectorsHoldLocks, DeletedAreFree, Associated, HoldsLocks, LocksOf, BlobsResolve,
         Applying, Deleting
  <2>5. CommitsHoldLocks' /\ CollectorsHoldLocks'
    BY <2>2, <2>3 DEF CollectionTypes, UploadRecords, AssociatedObjectsExist, CommitsHoldLocks,
         CollectorsHoldLocks, DeletedAreFree, Associated, HoldsLocks, LocksOf, BlobsResolve,
         Applying, Deleting
  <2> QED BY <2>1, <2>4, <2>5
<1>5. ASSUME ResolveReferences(r)
      PROVE  CollectionInvariant'
  <2>1. CollectionTypes'
    <3>1. [upload[r] EXCEPT !.stage = "persist"] \in UploadRecords
      BY UploadMoves DEF CollectionTypes
    <3>2. upload' = [upload EXCEPT ![r] = [upload[r] EXCEPT !.stage = "persist"]]
      BY <1>5 DEF ResolveReferences
    <3>3. upload' \in [Uploaders -> UploadRecords]
      BY <3>1, <3>2 DEF CollectionTypes
    <3> QED BY <1>5, <3>3 DEF CollectionTypes, ResolveReferences, bucket, objectTables
  <2>2. /\ UNCHANGED <<stored, associations, blobRow, digestLock, collector>>
        /\ \A q \in Uploaders : /\ upload'[q].blobs = upload[q].blobs /\ upload'[q].refs = upload[q].refs
                               /\ (q # r => upload'[q].stage = upload[q].stage)
    BY <1>5 DEF CollectionTypes, UploadRecords, ResolveReferences, bucket, objectTables
  <2>3. HoldsLocks(r) /\ BlobsResolve(r)
    BY <1>5 DEF ResolveReferences
  <2>4. CommitsHoldLocks'
    <3> SUFFICES ASSUME NEW q \in Uploaders, upload'[q].stage = "persist"
                 PROVE  HoldsLocks(q)' /\ BlobsResolve(q)'
      BY DEF CommitsHoldLocks
    <3>1. HoldsLocks(q) /\ BlobsResolve(q)
      <4>1. CASE q = r
        BY <4>1, <2>3
      <4>2. CASE q # r
        BY <4>2, <2>2 DEF CommitsHoldLocks
      <4> QED BY <4>1, <4>2
    <3>2. /\ UNCHANGED <<stored, associations, blobRow, digestLock>>
          /\ upload'[q].blobs = upload[q].blobs /\ upload'[q].refs = upload[q].refs
      BY <2>2
    <3> QED BY <3>1, <3>2, CommitIsUntouched
  <2>5. AssociatedObjectsExist' /\ CollectorsHoldLocks' /\ DeletedAreFree'
    BY <2>2 DEF AssociatedObjectsExist, CollectorsHoldLocks, DeletedAreFree, Associated,
         Applying, Deleting
  <2> QED BY <2>1, <2>4, <2>5
<1>6. ASSUME PersistBlobs(r)
      PROVE  CollectionInvariant'
  <2>1. CollectionTypes'
    BY <1>6 DEF CollectionTypes, UploadRecords, PersistBlobs, bucket, objectTables, Revived,
         LocksFreed, NoUpload
  <2>2. HoldsLocks(r) /\ BlobsResolve(r)
    BY <1>6 DEF PersistBlobs, CommitsHoldLocks
  <2>3. /\ UNCHANGED <<stored, collector>> /\ upload' = [upload EXCEPT ![r] = NoUpload]
        /\ associations' = associations \union {<<r, d>> : d \in upload[r].blobs}
    BY <1>6 DEF PersistBlobs, bucket
  <2>4. /\ \A d \in Digests : blobRow[d].state = "available" => blobRow'[d].state = "available"
        /\ \A d \in upload[r].blobs : blobRow'[d].state = "available"
    BY <1>6 DEF PersistBlobs, Revived, CollectionTypes, UploadRecords
  <2>5. \A d \in Digests : digestLock[d] # r => digestLock'[d] = digestLock[d]
    BY <1>6 DEF PersistBlobs, LocksFreed
  <2>6. \A q \in Uploaders, d \in Digests :
           <<q, d>> \in associations' <=> <<q, d>> \in associations \/ (q = r /\ d \in upload[r].blobs)
    BY <2>3 DEF CollectionTypes
  <2>7. AssociatedObjectsExist'
    BY <2>2, <2>3, <2>4, <2>6 DEF AssociatedObjectsExist, BlobsResolve, CollectionTypes,
         UploadRecords
  <2>8. CommitsHoldLocks'
    BY <2>3, <2>4, <2>5, <2>6 DEF CommitsHoldLocks, HoldsLocks, LocksOf, BlobsResolve,
         CollectionTypes, UploadRecords, NoUpload
  <2>9. CollectorsHoldLocks'
    BY <2>3, <2>5 DEF CollectorsHoldLocks, Applying, CollectionTypes
  <2>10. DeletedAreFree'
    <3> SUFFICES ASSUME NEW g \in Collectors, Deleting(g)', NEW q \in Uploaders,
                        <<q, collector[g].digest>> \in associations'
                 PROVE  FALSE
      BY <2>3 DEF DeletedAreFree, Associated
    <3>1. /\ collector[g].digest \in Digests /\ digestLock[collector[g].digest] = g
          /\ ~Associated(collector[g].digest)
      BY <2>3 DEF Deleting, Applying, CollectorsHoldLocks, DeletedAreFree
    <3>2. collector[g].digest \in upload[r].blobs
      BY <2>6, <3>1 DEF Associated
    <3>3. digestLock[collector[g].digest] = r
      BY <2>2, <3>2 DEF HoldsLocks, LocksOf
    <3> QED BY <3>1, <3>3
  <2> QED BY <2>1, <2>7, <2>8, <2>9, <2>10
<1>7. ASSUME UploadStops(r)
      PROVE  CollectionInvariant'
  <2>1. CollectionTypes'
    BY <1>7 DEF CollectionTypes, UploadRecords, UploadStops, bucket, objectTables, LocksFreed,
         NoUpload
  <2>2. /\ UNCHANGED <<stored, associations, blobRow, collector>>
        /\ upload' = [upload EXCEPT ![r] = NoUpload]
    BY <1>7 DEF UploadStops, bucket, objectTables
  <2>3. \A d \in Digests : digestLock[d] # r => digestLock'[d] = digestLock[d]
    BY <1>7 DEF UploadStops, LocksFreed
  <2>4. AssociatedObjectsExist' /\ DeletedAreFree'
    BY <2>2 DEF CollectionTypes, UploadRecords, AssociatedObjectsExist, CommitsHoldLocks,
         CollectorsHoldLocks, DeletedAreFree, Associated, HoldsLocks, LocksOf, BlobsResolve,
         Applying, Deleting
  <2>5. CommitsHoldLocks' /\ CollectorsHoldLocks'
    BY <2>2, <2>3 DEF CollectionTypes, UploadRecords, NoUpload, AssociatedObjectsExist,
         CommitsHoldLocks, CollectorsHoldLocks, DeletedAreFree, Associated, HoldsLocks, LocksOf,
         BlobsResolve, Applying, Deleting
  <2> QED BY <2>1, <2>4, <2>5
<1> QED BY <1>1, <1>2, <1>3, <1>4, <1>5, <1>6, <1>7 DEF Uploading
(* A collector's record stays one when its stage changes. *)
LEMMA CollectorMoves ==
    ASSUME NEW c \in CollectorRecords, NEW s \in CollectorStages
    PROVE  /\ [c EXCEPT !.stage = s] \in CollectorRecords
           /\ [c EXCEPT !.stage = s].stage = s
           /\ [c EXCEPT !.stage = s].digest = c.digest
BY DEF CollectorRecords

(* A collector that rests. *)
LEMMA CollectorStarts ==
    /\ NoPlan \in CandidateLists
    /\ IdleCollector \in CollectorRecords /\ IdleCollector.stage = "off"
<1>1. NoPlan \in CandidateLists
  BY DEF NoPlan, NoCandidate, CandidateLists
<1> QED BY <1>1 DEF IdleCollector, CollectorRecords, CollectorStages

(* A step that only moves a collector that does not apply a candidate is
   harmless. *)
LEMMA QuietCollector ==
    ASSUME CollectionInvariant, NEW g \in Collectors, NEW c \in CollectorRecords,
           collector' = [collector EXCEPT ![g] = c], c.stage \in {"off", "plan"},
           UNCHANGED <<bucket, objectTables, digestLock, upload>>
    PROVE  CollectionInvariant'
<1> USE DEF CollectionInvariant
<1>1. CollectionTypes'
  BY DEF CollectionTypes, bucket, objectTables
<1>2. AssociatedObjectsExist'
  BY DEF AssociatedObjectsExist, bucket, objectTables
<1>3. CommitsHoldLocks'
  BY DEF CommitsHoldLocks, HoldsLocks, LocksOf, BlobsResolve, bucket, objectTables
<1>4. \A h \in Collectors : /\ (Applying(h)' => h # g)
                            /\ (h # g => collector'[h] = collector[h])
  BY DEF CollectionTypes, Applying
<1>5. CollectorsHoldLocks'
  BY <1>4 DEF CollectorsHoldLocks, Applying
<1>6. DeletedAreFree'
  BY <1>4 DEF DeletedAreFree, Deleting, Applying, Associated, objectTables
<1> QED BY <1>1, <1>2, <1>3, <1>5, <1>6

(* The collector gives up its candidate and the lock of its digest; the row of
   the digest may have changed, since nobody is associated with it and no commit
   that was let through refers to it. *)
LEMMA CandidateEnds ==
    ASSUME CollectionInvariant, NEW g \in Collectors,
           collector' = [collector EXCEPT ![g] = IdleCollector], digestLock' = LocksFreed(g),
           UNCHANGED <<bucket, associations, upload>>,
           blobRow' \in [Digests -> [generation : Nat, state : {"none", "available", "deleted"}]],
           \A d \in Digests : blobRow'[d] # blobRow[d] => Deleting(g) /\ d = collector[g].digest
    PROVE  CollectionInvariant'
<1> USE CollectionActorsAssumption DEF CollectionInvariant
<1>1. CollectionTypes'
  BY CollectorStarts DEF CollectionTypes, LocksFreed, bucket
<1>2. \A d \in Digests : blobRow'[d] # blobRow[d] => digestLock[d] = g /\ ~Associated(d)
  BY DEF DeletedAreFree, CollectorsHoldLocks, Applying, Deleting
<1>3. \A d \in Digests : digestLock[d] # g => digestLock'[d] = digestLock[d]
  BY DEF LocksFreed
<1>4. AssociatedObjectsExist'
  BY <1>2 DEF AssociatedObjectsExist, Associated, bucket
<1>5. CommitsHoldLocks'
  <2> SUFFICES ASSUME NEW r \in Uploaders, upload[r].stage = "persist"
               PROVE  HoldsLocks(r)' /\ BlobsResolve(r)'
    BY DEF CommitsHoldLocks
  <2>1. HoldsLocks(r) /\ BlobsResolve(r)
    BY DEF CommitsHoldLocks
  <2>2. \A d \in upload[r].blobs \union upload[r].refs :
           d \in Digests /\ digestLock[d] = r /\ digestLock[d] # g
    BY <2>1 DEF HoldsLocks, LocksOf
  <2>3. HoldsLocks(r)'
    BY <1>3, <2>2 DEF HoldsLocks, LocksOf
  <2>4. \A d \in upload[r].refs : blobRow'[d] = blobRow[d]
    BY <1>2, <2>2
  <2>5. BlobsResolve(r)'
    BY <2>1, <2>4 DEF BlobsResolve, bucket
  <2> QED BY <2>3, <2>5
<1>6. \A h \in Collectors : /\ (Applying(h)' => h # g)
                            /\ (h # g => collector'[h] = collector[h])
  BY CollectorStarts DEF CollectionTypes, Applying
<1>7. CollectorsHoldLocks'
  BY <1>3, <1>6 DEF CollectorsHoldLocks, Applying
<1>8. DeletedAreFree'
  BY <1>6 DEF DeletedAreFree, Deleting, Applying, Associated
<1> QED BY <1>1, <1>4, <1>5, <1>7, <1>8
(* A step of the collector, from the inventory to the receipt, keeps the
   invariant. *)
LEMMA CollectingKeepsInvariant ==
    ASSUME CollectionInvariant, NEW g \in Collectors, Collecting(g)
    PROVE  CollectionInvariant'
<1> USE CollectionActorsAssumption DEF CollectionInvariant
<1>1. ASSUME NEW p \in Plans, NEW old \in SUBSET Digests, TakeInventory(g, p, old)
      PROVE  CollectionInvariant'
  <2> DEFINE seen == [d \in Digests |-> IF d \in old THEN [NoCandidate EXCEPT !.version = stored[d]]
                                       ELSE NoCandidate]
             c == [IdleCollector EXCEPT !.stage = "plan", !.plan = p, !.seen = seen]
  <2>1. seen \in CandidateLists
    BY DEF CandidateLists, NoCandidate, CollectionTypes
  <2> HIDE DEF seen
  <2>2. c \in CollectorRecords /\ c.stage = "plan"
    BY <2>1 DEF IdleCollector, CollectorRecords, CollectorStages
  <2>3. /\ collector' = [collector EXCEPT ![g] = c]
        /\ UNCHANGED <<bucket, objectTables, digestLock, upload>>
    BY <1>1 DEF TakeInventory, seen
  <2> HIDE DEF c
  <2> QED BY <2>2, <2>3, QuietCollector
<1>2. ASSUME PlanCandidates(g)
      PROVE  CollectionInvariant'
  <2>1. /\ collector' = [collector EXCEPT ![g] = IdleCollector]
        /\ UNCHANGED <<bucket, objectTables, digestLock, upload>>
    BY <1>2 DEF PlanCandidates
  <2> QED BY <2>1, QuietCollector, CollectorStarts
<1>3. ASSUME NEW p \in Plans, NEW d \in Digests, LockCandidate(g, p, d)
      PROVE  CollectionInvariant'
  <2> DEFINE c == [IdleCollector EXCEPT !.stage = "examine", !.plan = p, !.digest = d]
  <2>1. c \in CollectorRecords /\ c.stage = "examine" /\ c.digest = d
    BY CollectorStarts DEF IdleCollector, CollectorRecords, CollectorStages
  <2>2. /\ collector' = [collector EXCEPT ![g] = c] /\ collector[g].stage = "off"
        /\ digestLock[d] = Nobody /\ digestLock' = [digestLock EXCEPT ![d] = g]
        /\ UNCHANGED <<bucket, objectTables, upload>>
    BY <1>3 DEF LockCandidate
  <2> HIDE DEF c
  <2>3. CollectionTypes'
    BY <2>1, <2>2 DEF CollectionTypes, bucket, objectTables
  <2>4. \A e \in Digests : digestLock[e] # Nobody => digestLock'[e] = digestLock[e]
    BY <2>2 DEF CollectionTypes
  <2>5. AssociatedObjectsExist'
    BY <2>2 DEF AssociatedObjectsExist, bucket, objectTables
  <2>6. CommitsHoldLocks'
    <3> SUFFICES ASSUME NEW r \in Uploaders, upload[r].stage = "persist"
                 PROVE  HoldsLocks(r)' /\ BlobsResolve(r)'
      BY <2>2 DEF CommitsHoldLocks
    <3>1. HoldsLocks(r) /\ BlobsResolve(r)
      BY DEF CommitsHoldLocks
    <3>2. HoldsLocks(r)'
      BY <2>2, <2>4, <3>1 DEF HoldsLocks, LocksOf
    <3>3. BlobsResolve(r)'
      BY <2>2, <3>1 DEF BlobsResolve, bucket, objectTables
    <3> QED BY <3>2, <3>3
  <2>7. \A h \in Collectors : h # g => collector'[h] = collector[h]
    BY <2>2 DEF CollectionTypes
  <2>8. collector'[g] = c /\ digestLock'[d] = g
    BY <2>2 DEF CollectionTypes
  <2>9. CollectorsHoldLocks'
    BY <2>1, <2>4, <2>7, <2>8 DEF CollectorsHoldLocks, Applying
  <2>10. DeletedAreFree'
    BY <2>1, <2>2, <2>7, <2>8 DEF DeletedAreFree, Deleting, Associated, objectTables
  <2> QED BY <2>3, <2>5, <2>6, <2>9, <2>10
<1>4. ASSUME SkipCandidate(g)
      PROVE  CollectionInvariant'
  <2>1. /\ collector' = [collector EXCEPT ![g] = IdleCollector] /\ digestLock' = LocksFreed(g)
        /\ UNCHANGED <<bucket, associations, upload>> /\ UNCHANGED blobRow
    BY <1>4 DEF SkipCandidate, EndCandidate
  <2> QED BY <2>1, CandidateEnds DEF CollectionTypes
<1>5. ASSUME ApproveCandidate(g)
      PROVE  CollectionInvariant'
  <2> DEFINE c == [collector[g] EXCEPT !.stage = "delete"]
  <2>1. c \in CollectorRecords /\ c.stage = "delete" /\ c.digest = collector[g].digest
    BY CollectorMoves DEF CollectionTypes, CollectorStages
  <2>2. /\ collector' = [collector EXCEPT ![g] = c] /\ Applying(g) /\ ~Associated(collector[g].digest)
        /\ UNCHANGED <<bucket, objectTables, digestLock, upload>>
    BY <1>5 DEF ApproveCandidate, Applying
  <2> HIDE DEF c
  <2>3. CollectionTypes'
    BY <2>1, <2>2 DEF CollectionTypes, bucket, objectTables
  <2>4. AssociatedObjectsExist'
    BY <2>2 DEF AssociatedObjectsExist, bucket, objectTables
  <2>5. CommitsHoldLocks'
    BY <2>2 DEF CommitsHoldLocks, HoldsLocks, LocksOf, BlobsResolve, bucket, objectTables
  <2>6. /\ \A h \in Collectors : h # g => collector'[h] = collector[h]
        /\ collector'[g] = c
    BY <2>2 DEF CollectionTypes
  <2>7. CollectorsHoldLocks'
    BY <2>1, <2>2, <2>6 DEF CollectorsHoldLocks, Applying
  <2>8. DeletedAreFree'
    BY <2>1, <2>2, <2>6 DEF DeletedAreFree, Deleting, Associated, objectTables
  <2> QED BY <2>3, <2>4, <2>5, <2>7, <2>8
<1>6. ASSUME DeleteIfMatch(g)
      PROVE  CollectionInvariant'
  <2> DEFINE d == collector[g].digest
             matches == stored[d] = CandidateOf(g).version
             next == IF matches THEN "deleted" ELSE "missing"
             c == [collector[g] EXCEPT !.stage = next]
  <2>0. next \in {"deleted", "missing"} /\ collector[g] \in CollectorRecords
    BY DEF CollectionTypes
  <2> HIDE DEF next
  <2>1. c \in CollectorRecords /\ c.stage \in {"deleted", "missing"} /\ c.digest = d
    BY <2>0 DEF CollectorRecords, CollectorStages
  <2>2. /\ collector' = [collector EXCEPT ![g] = c] /\ Applying(g) /\ Deleting(g)
        /\ stored' = stored \/ stored' = [stored EXCEPT ![d] = 0]
        /\ UNCHANGED <<objectVersions, objectTables, digestLock, upload>>
    BY <1>6 DEF DeleteIfMatch, Applying, Deleting, next
  <2> HIDE DEF c
  <2>3. d \in Digests /\ digestLock[d] = g /\ ~Associated(d)
    BY <2>2 DEF CollectorsHoldLocks, DeletedAreFree
  <2>4. CollectionTypes'
    BY <2>1, <2>2 DEF CollectionTypes, objectTables
  <2>5. \A e \in Digests : e # d => stored'[e] = stored[e]
    BY <2>2 DEF CollectionTypes
  <2>6. AssociatedObjectsExist'
    BY <2>2, <2>3, <2>5 DEF AssociatedObjectsExist, Associated, objectTables
  <2>7. CommitsHoldLocks'
    <3> SUFFICES ASSUME NEW r \in Uploaders, upload[r].stage = "persist"
                 PROVE  HoldsLocks(r)' /\ BlobsResolve(r)'
      BY <2>2 DEF CommitsHoldLocks
    <3>1. HoldsLocks(r) /\ BlobsResolve(r)
      BY DEF CommitsHoldLocks
    <3>2. \A e \in upload[r].blobs \union upload[r].refs : e \in Digests /\ e # d
      BY <2>3, <3>1 DEF HoldsLocks, LocksOf
    <3> QED BY <2>2, <2>5, <3>1, <3>2 DEF HoldsLocks, LocksOf, BlobsResolve, objectTables
  <2>8. /\ \A h \in Collectors : h # g => collector'[h] = collector[h]
        /\ collector'[g] = c
    BY <2>2 DEF CollectionTypes
  <2>9. CollectorsHoldLocks'
    BY <2>1, <2>2, <2>3, <2>8 DEF CollectorsHoldLocks, Applying
  <2>10. DeletedAreFree'
    BY <2>1, <2>2, <2>3, <2>8 DEF DeletedAreFree, Deleting, Associated, objectTables
  <2> QED BY <2>4, <2>6, <2>7, <2>9, <2>10
<1>7. ASSUME RecordDeletion(g)
      PROVE  CollectionInvariant'
  <2> DEFINE d == collector[g].digest
             row == [generation |-> blobRow[d].generation + 1, state |-> "deleted"]
  <2>1. Deleting(g) /\ d \in Digests
    BY <1>7 DEF RecordDeletion, Deleting, Applying, CollectorsHoldLocks
  <2>2. /\ collector' = [collector EXCEPT ![g] = IdleCollector] /\ digestLock' = LocksFreed(g)
        /\ UNCHANGED <<bucket, associations, upload>> /\ blobRow' = [blobRow EXCEPT ![d] = row]
    BY <1>7, <2>1 DEF RecordDeletion, EndCandidate, CollectionTypes
  <2>3. row \in [generation : Nat, state : {"none", "available", "deleted"}]
    BY <2>1 DEF CollectionTypes
  <2> HIDE DEF row
  <2>4. /\ blobRow' \in [Digests -> [generation : Nat, state : {"none", "available", "deleted"}]]
        /\ \A e \in Digests : blobRow'[e] # blobRow[e] => e = d
    BY <2>2, <2>3 DEF CollectionTypes
  <2> QED BY <2>1, <2>2, <2>4, CandidateEnds
<1>8. ASSUME CollectorStops(g)
      PROVE  CollectionInvariant'
  <2>1. /\ collector' = [collector EXCEPT ![g] = IdleCollector] /\ digestLock' = LocksFreed(g)
        /\ UNCHANGED <<bucket, associations, upload>> /\ UNCHANGED blobRow
    BY <1>8 DEF CollectorStops, objectTables
  <2> QED BY <2>1, CandidateEnds DEF CollectionTypes
<1>9. ASSUME DeleteRefused(g)
      PROVE  CollectionInvariant'
  <2>1. /\ collector' = [collector EXCEPT ![g] = IdleCollector] /\ digestLock' = LocksFreed(g)
        /\ UNCHANGED <<bucket, associations, upload>> /\ UNCHANGED blobRow
    BY <1>9 DEF DeleteRefused, EndCandidate
  <2> QED BY <2>1, CandidateEnds DEF CollectionTypes
<1> QED BY <1>1, <1>2, <1>3, <1>4, <1>5, <1>6, <1>7, <1>8, <1>9 DEF Collecting

(* No run loses an object (object_store.py, _apply_candidate against
   _persist_blobs): whatever plans are made and applied, by however many
   collectors that may die at any step, what a run is associated with stays
   available in PostgreSQL and in the bucket. *)
THEOREM ObjectsAreNeverLost == ObjectSpec => []AssociatedObjectsExist
<1>1. ObjectInit => CollectionInvariant
  BY CollectionStarts
<1>2. CollectionInvariant /\ [ObjectNext]_objectVars => CollectionInvariant'
  <2> SUFFICES ASSUME CollectionInvariant, [ObjectNext]_objectVars
               PROVE  CollectionInvariant'
    OBVIOUS
  <2>1. ASSUME NEW r \in Uploaders, Uploading(r)
        PROVE  CollectionInvariant'
    BY <2>1, UploadingKeepsInvariant
  <2>2. ASSUME NEW g \in Collectors, Collecting(g)
        PROVE  CollectionInvariant'
    BY <2>2, CollectingKeepsInvariant
  <2>3. CASE UNCHANGED objectVars
    <3>1. UNCHANGED <<objectVersions, stored, blobRow, associations, digestLock, upload, collector>>
      BY <2>3 DEF objectVars, bucket, objectTables
    <3>2. CollectionTypes'
      BY <3>1 DEF CollectionInvariant, CollectionTypes
    <3>3. /\ AssociatedObjectsExist' /\ CommitsHoldLocks'
          /\ CollectorsHoldLocks' /\ DeletedAreFree'
      BY <3>1, QuietUpload DEF CollectionInvariant
    <3> QED BY <3>2, <3>3 DEF CollectionInvariant
  <2> QED BY <2>1, <2>2, <2>3 DEF ObjectNext
<1>3. CollectionInvariant => AssociatedObjectsExist
  BY DEF CollectionInvariant
<1> QED BY <1>1, <1>2, <1>3, PTL DEF ObjectSpec

-----------------------------------------------------------------------------
(* The local write authority *)

AgentRecords ==
    [stage : {"rest", "external", "waiting", "notifying", "late"}, inside : BOOLEAN,
     running : SUBSET Callbacks]

LocalTypes ==
    /\ requested \in BOOLEAN /\ revoked \in BOOLEAN
    /\ mutex \in Agents \union {NoAgent}
    /\ callbacks \in SUBSET Callbacks
    /\ agents \in [Agents -> AgentRecords]
    /\ added \in SUBSET Callbacks /\ removed \in SUBSET Callbacks
    /\ ran \in [Callbacks -> Nat]

\* Who is in a mutation has the lock, and who revokes has published it before.
LockedInside ==
    /\ \A t \in Agents : agents[t].inside => mutex = t
    /\ \A t \in Agents : agents[t].stage \in {"waiting", "notifying"} => requested

\* A callback is in one place: registered, with one thread that will run it, or
\* run.  Nothing stays registered with a revoked authority.
ToldOnce ==
    /\ revoked => callbacks = {} /\ requested
    /\ \A c \in callbacks : c \in added /\ ran[c] = 0
    /\ \A t \in Agents : \A c \in agents[t].running :
          Calling(t) /\ c \in added /\ c \notin callbacks /\ ran[c] = 0
    /\ \A t, u \in Agents : t # u => agents[t].running \intersect agents[u].running = {}
    /\ \A c \in Callbacks : ran[c] <= 1 /\ (ran[c] = 1 => c \in added)
    /\ \A c \in added \ removed :
          ran[c] = 0 => c \in callbacks \/ \E t \in Agents : c \in agents[t].running

LocalInvariant == LocalTypes /\ LockedInside /\ RevocationDrains /\ ToldOnce

-----------------------------------------------------------------------------
(* Nothing has been asked of a new authority. *)
LEMMA LocalStarts == LocalInit => LocalInvariant
<1> SUFFICES ASSUME LocalInit PROVE LocalInvariant
  OBVIOUS
<1>1. Resting \in AgentRecords /\ Resting.running = {} /\ ~Resting.inside /\ Resting.stage = "rest"
  BY DEF Resting, AgentRecords
<1>2. \A t \in Agents : agents[t] = Resting
  BY DEF LocalInit
<1>3. LocalTypes
  BY <1>1 DEF LocalInit, LocalTypes
<1>4. LockedInside /\ RevocationDrains
  BY <1>1, <1>2 DEF LockedInside, RevocationDrains
<1>5. ToldOnce
  BY <1>1, <1>2 DEF LocalInit, ToldOnce, Calling
<1> QED BY <1>3, <1>4, <1>5 DEF LocalInvariant

(* A step of one thread leaves the others where they are. *)
LEMMA AgentBecomes ==
    ASSUME LocalTypes, NEW t \in Agents, NEW rec \in AgentRecords,
           agents' = [agents EXCEPT ![t] = rec]
    PROVE  /\ agents' \in [Agents -> AgentRecords] /\ agents'[t] = rec
           /\ \A u \in Agents : u # t => agents'[u] = agents[u]
BY DEF LocalTypes

(* A step that neither runs, takes nor registers a callback keeps their order. *)
LEMMA ToldOnceKept ==
    ASSUME ToldOnce, UNCHANGED <<revoked, callbacks, added, removed, ran>>, requested => requested',
           \A u \in Agents : /\ agents'[u].running = agents[u].running
                             /\ (agents[u].running # {} => Calling(u)')
    PROVE  ToldOnce'
<1>1. \A u \in Agents : \A c \in agents'[u].running :
         Calling(u)' /\ c \in added' /\ c \notin callbacks' /\ ran'[c] = 0
  BY DEF ToldOnce
<1>2. \A c \in added' \ removed' :
         ran'[c] = 0 => c \in callbacks' \/ \E u \in Agents : c \in agents'[u].running
  BY DEF ToldOnce
<1>3. \A u, v \in Agents : u # v => agents'[u].running \intersect agents'[v].running = {}
  BY DEF ToldOnce
<1> QED BY <1>1, <1>2, <1>3 DEF ToldOnce

(* The lock's part of the invariant, for a thread that keeps out of the lock. *)
LEMMA LockedInsideKept ==
    ASSUME LockedInside, RevocationDrains, UNCHANGED mutex, requested => requested', NEW t \in Agents,
           \A u \in Agents : u # t => agents'[u] = agents[u],
           agents'[t].inside = agents[t].inside,
           agents'[t].stage \in {"rest", "external", "late"}
             \/ (agents'[t].stage = "waiting" /\ requested')
             \/ agents'[t].stage = agents[t].stage
    PROVE  LockedInside' /\ RevocationDrains'
<1>1. LockedInside'
  BY DEF LockedInside
<1>2. RevocationDrains'
  BY DEF RevocationDrains
<1> QED BY <1>1, <1>2
-----------------------------------------------------------------------------
(* Entering and leaving a guarded mutation keeps the invariant. *)
LEMMA MutationKeepsInvariant ==
    ASSUME LocalInvariant, NEW t \in Agents, StartMutation(t) \/ EndMutation(t)
    PROVE  LocalInvariant'
<1> USE AgentsAssumption DEF LocalInvariant
<1>1. ASSUME StartMutation(t)
      PROVE  LocalInvariant'
  <2> DEFINE rec == [Resting EXCEPT !.inside = TRUE]
  <2>1. rec \in AgentRecords /\ rec.stage = "rest" /\ rec.running = {}
    BY DEF Resting, AgentRecords
  <2>2. /\ agents' = [agents EXCEPT ![t] = rec] /\ mutex' = t /\ ~requested /\ mutex \in {NoAgent, t}
        /\ agents[t].running = {}
        /\ UNCHANGED <<requested, revoked, callbacks, added, removed, ran>>
    BY <1>1 DEF StartMutation, Enters, Resting
  <2> HIDE DEF rec
  <2>3. agents' \in [Agents -> AgentRecords] /\ agents'[t] = rec
        /\ \A u \in Agents : u # t => agents'[u] = agents[u]
    BY <2>1, <2>2, AgentBecomes
  <2>4. LocalTypes'
    BY <2>2, <2>3 DEF LocalTypes
  <2>5. LockedInside' /\ RevocationDrains'
    BY <2>1, <2>2, <2>3 DEF LockedInside, RevocationDrains
  <2>6. ToldOnce'
    BY <2>1, <2>2, <2>3, ToldOnceKept DEF ToldOnce, Calling
  <2> QED BY <2>4, <2>5, <2>6
<1>2. ASSUME EndMutation(t)
      PROVE  LocalInvariant'
  <2>1. Resting \in AgentRecords /\ Resting.stage = "rest" /\ Resting.running = {} /\ ~Resting.inside
    BY DEF Resting, AgentRecords
  <2>2. /\ agents' = [agents EXCEPT ![t] = Resting] /\ mutex' = NoAgent
        /\ agents[t].stage = "rest" /\ agents[t].inside
        /\ UNCHANGED <<requested, revoked, callbacks, added, removed, ran>>
    BY <1>2 DEF EndMutation
  <2>3. agents' \in [Agents -> AgentRecords] /\ agents'[t] = Resting
        /\ \A u \in Agents : u # t => agents'[u] = agents[u]
    BY <2>1, <2>2, AgentBecomes
  <2>4. LocalTypes'
    BY <2>2, <2>3 DEF LocalTypes
  <2>5. LockedInside' /\ RevocationDrains'
    BY <2>1, <2>2, <2>3 DEF LockedInside, RevocationDrains
  <2>6. agents[t].running = {}
    BY <2>2 DEF ToldOnce, Calling
  <2>7. ToldOnce'
    BY <2>1, <2>2, <2>3, <2>6, ToldOnceKept DEF ToldOnce, Calling
  <2> QED BY <2>4, <2>5, <2>7
<1> QED BY <1>1, <1>2

(* An external call, the request to revoke, and the end of the notifications
   keep the invariant: the thread only changes its stage. *)
LEMMA StageKeepsInvariant ==
    ASSUME LocalInvariant, NEW t \in Agents,
           NEW s \in {"rest", "external", "waiting"}, s = "waiting" => requested',
           agents[t].running = {}, agents' = [agents EXCEPT ![t] = [agents[t] EXCEPT !.stage = s]],
           requested' \in BOOLEAN, requested => requested',
           UNCHANGED <<revoked, mutex, callbacks, added, removed, ran>>
    PROVE  LocalInvariant'
<1> USE DEF LocalInvariant
<1> DEFINE rec == [agents[t] EXCEPT !.stage = s]
<1>1. agents[t] \in AgentRecords
  BY DEF LocalTypes
<1>2. /\ rec \in AgentRecords /\ rec.stage = s /\ rec.inside = agents[t].inside
      /\ rec.running = {}
  BY <1>1 DEF AgentRecords
<1> HIDE DEF rec
<1>3. agents' = [agents EXCEPT ![t] = rec]
  BY DEF rec
<1>4. agents' \in [Agents -> AgentRecords] /\ agents'[t] = rec
      /\ \A u \in Agents : u # t => agents'[u] = agents[u]
  BY <1>2, <1>3, AgentBecomes
<1>5. LocalTypes'
  BY <1>4 DEF LocalTypes
<1>6. LockedInside' /\ RevocationDrains'
  <2>1. \/ agents'[t].stage \in {"rest", "external", "late"}
        \/ (agents'[t].stage = "waiting" /\ requested')
    BY <1>2, <1>4
  <2>2. agents'[t].inside = agents[t].inside
    BY <1>2, <1>4
  <2> QED BY <1>4, <2>1, <2>2, LockedInsideKept
<1>7. \A u \in Agents : /\ agents'[u].running = agents[u].running
                        /\ (agents[u].running # {} => Calling(u)')
  BY <1>2, <1>4 DEF ToldOnce, Calling
<1>8. ToldOnce'
  BY <1>7, ToldOnceKept
<1> QED BY <1>5, <1>6, <1>8
(* revoke, once it has the lock: the callbacks change hands. *)
LEMMA RevokeKeepsInvariant ==
    ASSUME LocalInvariant, NEW t \in Agents, Revoke(t)
    PROVE  LocalInvariant'
<1> USE AgentsAssumption DEF LocalInvariant
<1> DEFINE taken == IF revoked THEN {} ELSE callbacks
           rec == [agents[t] EXCEPT !.stage = "notifying", !.running = taken]
<1>1. agents[t] \in AgentRecords /\ taken \in SUBSET Callbacks
  BY DEF LocalTypes
<1>2. taken = callbacks
  BY DEF ToldOnce
<1>3. /\ agents' = [agents EXCEPT ![t] = rec] /\ mutex \in {NoAgent, t} /\ requested
      /\ revoked' = TRUE /\ callbacks' = {} /\ agents[t].stage = "waiting"
      /\ UNCHANGED <<requested, mutex, added, removed, ran>>
  BY DEF Revoke, RevokeEnters, Enters, LockedInside
<1> HIDE DEF taken
<1>4. /\ rec \in AgentRecords /\ rec.stage = "notifying" /\ rec.inside = agents[t].inside
      /\ rec.running = callbacks
  BY <1>1, <1>2 DEF AgentRecords
<1> HIDE DEF rec
<1>5. agents' \in [Agents -> AgentRecords] /\ agents'[t] = rec
      /\ \A u \in Agents : u # t => agents'[u] = agents[u]
  BY <1>3, <1>4, AgentBecomes
<1>6. LocalTypes'
  BY <1>3, <1>5 DEF LocalTypes
<1>7. LockedInside'
  BY <1>3, <1>4, <1>5 DEF LockedInside
<1>8. RevocationDrains'
  BY <1>3, <1>4, <1>5 DEF RevocationDrains, LockedInside
<1>9. agents[t].running = {}
  BY <1>3 DEF ToldOnce, Calling
<1>10. ToldOnce'
  <2>1. \A u \in Agents : \A c \in agents'[u].running :
           Calling(u)' /\ c \in added' /\ c \notin callbacks' /\ ran'[c] = 0
    BY <1>3, <1>4, <1>5 DEF ToldOnce, Calling
  <2>2. \A u, v \in Agents : u # v => agents'[u].running \intersect agents'[v].running = {}
    BY <1>3, <1>4, <1>5 DEF ToldOnce
  <2>3. \A c \in added' \ removed' : ran'[c] = 0 => \E u \in Agents : c \in agents'[u].running
    BY <1>3, <1>4, <1>5, <1>9 DEF ToldOnce
  <2> QED BY <1>3, <2>1, <2>2, <2>3 DEF ToldOnce
<1> QED BY <1>6, <1>7, <1>8, <1>10

(* A registration, before the request or after it. *)
LEMMA AddKeepsInvariant ==
    ASSUME LocalInvariant, NEW t \in Agents, NEW c \in Callbacks, AddCallback(t, c)
    PROVE  LocalInvariant'
<1> USE DEF LocalInvariant
<1>1. /\ agents[t].stage = "rest" /\ c \notin added /\ added' = added \union {c}
      /\ UNCHANGED <<requested, revoked, mutex, removed, ran>>
  BY DEF AddCallback
<1>2. agents[t].running = {} /\ ran[c] = 0 /\ c \notin callbacks
  <2>1. ran[c] \in Nat
    BY DEF LocalTypes
  <2> QED BY <1>1, <2>1 DEF ToldOnce, Calling
<1>3. CASE requested
  <2> DEFINE rec == [agents[t] EXCEPT !.stage = "late", !.running = {c}]
  <2>1. /\ rec \in AgentRecords /\ rec.stage = "late" /\ rec.inside = agents[t].inside
        /\ rec.running = {c}
    BY DEF LocalTypes, AgentRecords
  <2>2. agents' = [agents EXCEPT ![t] = rec] /\ UNCHANGED callbacks
    BY <1>3 DEF AddCallback, Registered
  <2> HIDE DEF rec
  <2>3. agents' \in [Agents -> AgentRecords] /\ agents'[t] = rec
        /\ \A u \in Agents : u # t => agents'[u] = agents[u]
    BY <2>1, <2>2, AgentBecomes
  <2>4. LocalTypes'
    BY <1>1, <2>2, <2>3 DEF LocalTypes
  <2>5. LockedInside' /\ RevocationDrains'
    BY <1>1, <2>1, <2>3, LockedInsideKept
  <2>6. \A u \in Agents : \A d \in agents'[u].running :
           Calling(u)' /\ d \in added' /\ d \notin callbacks' /\ ran'[d] = 0
    BY <1>1, <1>2, <2>1, <2>2, <2>3 DEF ToldOnce, Calling
  <2>7. \A u, v \in Agents : u # v => agents'[u].running \intersect agents'[v].running = {}
    BY <1>1, <1>2, <2>1, <2>3 DEF ToldOnce
  <2>8. \A d \in added' \ removed' :
           ran'[d] = 0 => d \in callbacks' \/ \E u \in Agents : d \in agents'[u].running
    BY <1>1, <1>2, <2>1, <2>2, <2>3 DEF ToldOnce
  <2>9. ToldOnce'
    BY <1>1, <2>2, <2>6, <2>7, <2>8 DEF ToldOnce
  <2> QED BY <2>4, <2>5, <2>9
<1>4. CASE ~requested
  <2>1. callbacks' = callbacks \union {c} /\ UNCHANGED agents
    BY <1>4 DEF AddCallback, Registered
  <2>2. LocalTypes'
    BY <1>1, <2>1 DEF LocalTypes
  <2>3. LockedInside' /\ RevocationDrains'
    BY <1>1, <2>1 DEF LockedInside, RevocationDrains
  <2>4. ~revoked
    BY <1>4 DEF ToldOnce
  <2>5. ToldOnce'
    BY <1>1, <1>2, <2>1, <2>4 DEF ToldOnce, Calling
  <2> QED BY <2>2, <2>3, <2>5
<1> QED BY <1>3, <1>4
(* Undoing a registration. *)
LEMMA RemoveKeepsInvariant ==
    ASSUME LocalInvariant, NEW t \in Agents, NEW c \in Callbacks, RemoveCallback(t, c)
    PROVE  LocalInvariant'
<1> USE DEF LocalInvariant
<1>1. /\ callbacks' = callbacks \ {c} /\ removed' = removed \union {c}
      /\ UNCHANGED <<requested, revoked, mutex, agents, added, ran>>
  BY DEF RemoveCallback
<1>2. LocalTypes'
  BY <1>1 DEF LocalTypes
<1>3. LockedInside' /\ RevocationDrains'
  BY <1>1 DEF LockedInside, RevocationDrains
<1>4. ToldOnce'
  BY <1>1 DEF ToldOnce, Calling
<1> QED BY <1>2, <1>3, <1>4

(* A callback runs. *)
LEMMA RunKeepsInvariant ==
    ASSUME LocalInvariant, NEW t \in Agents, RunCallback(t)
    PROVE  LocalInvariant'
<1> USE DEF LocalInvariant
<1>1. PICK c \in agents[t].running :
         /\ ran' = [ran EXCEPT ![c] = @ + 1]
         /\ agents' = [agents EXCEPT ![t] = [agents[t] EXCEPT !.running = agents[t].running \ {c}]]
  BY DEF RunCallback
<1>2. UNCHANGED <<requested, revoked, mutex, callbacks, added, removed>>
  BY DEF RunCallback
<1> DEFINE rec == [agents[t] EXCEPT !.running = agents[t].running \ {c}]
<1>3. agents[t] \in AgentRecords /\ c \in Callbacks
  BY DEF LocalTypes, AgentRecords
<1>4. /\ rec \in AgentRecords /\ rec.stage = agents[t].stage /\ rec.inside = agents[t].inside
      /\ rec.running = agents[t].running \ {c}
  BY <1>3 DEF AgentRecords
<1> HIDE DEF rec
<1>5. agents' = [agents EXCEPT ![t] = rec]
  BY <1>1 DEF rec
<1>6. agents' \in [Agents -> AgentRecords] /\ agents'[t] = rec
      /\ \A u \in Agents : u # t => agents'[u] = agents[u]
  BY <1>4, <1>5, AgentBecomes
<1>7. ran[c] = 0 /\ c \in added /\ c \notin callbacks
  BY DEF ToldOnce
<1>8. /\ ran' \in [Callbacks -> Nat] /\ ran'[c] = 1
      /\ \A d \in Callbacks : d # c => ran'[d] = ran[d]
  BY <1>1, <1>3, <1>7 DEF LocalTypes
<1>9. LocalTypes'
  BY <1>2, <1>6, <1>8 DEF LocalTypes
<1>10. LockedInside' /\ RevocationDrains'
  BY <1>2, <1>4, <1>6, LockedInsideKept
<1>11. \A u \in Agents : u # t => c \notin agents[u].running
  BY DEF ToldOnce
<1>12. \A u \in Agents : agents'[u].running = agents[u].running \ {c} /\ (Calling(u) => Calling(u)')
  BY <1>4, <1>6, <1>11 DEF Calling
<1>13. ToldOnce'
  <2>1. \A u \in Agents : \A d \in agents'[u].running :
           Calling(u)' /\ d \in added' /\ d \notin callbacks' /\ ran'[d] = 0
    <3> SUFFICES ASSUME NEW u \in Agents, NEW d \in agents'[u].running
                 PROVE  Calling(u)' /\ d \in added' /\ d \notin callbacks' /\ ran'[d] = 0
      OBVIOUS
    <3>1. d \in agents[u].running /\ d # c
      BY <1>12
    <3>2. d \in Callbacks
      BY <3>1 DEF LocalTypes, AgentRecords
    <3> QED BY <1>2, <1>8, <1>12, <3>1, <3>2 DEF ToldOnce
  <2>2. \A u, v \in Agents : u # v => agents'[u].running \intersect agents'[v].running = {}
    BY <1>12 DEF ToldOnce
  <2>3. \A d \in added' \ removed' :
           ran'[d] = 0 => d \in callbacks' \/ \E u \in Agents : d \in agents'[u].running
    <3> SUFFICES ASSUME NEW d \in added \ removed, ran'[d] = 0
                 PROVE  d \in callbacks \/ \E u \in Agents : d \in agents'[u].running
      BY <1>2
    <3>1. d # c /\ d \in Callbacks
      BY <1>8 DEF LocalTypes
    <3>2. ran[d] = 0
      BY <1>8, <3>1
    <3>3. d \in callbacks \/ \E u \in Agents : d \in agents[u].running
      BY <3>2 DEF ToldOnce
    <3> QED BY <1>12, <3>1, <3>3
  <2>4. \A d \in callbacks' : d \in added' /\ ran'[d] = 0
    BY <1>2, <1>7, <1>8 DEF ToldOnce, LocalTypes
  <2>5. \A d \in Callbacks : ran'[d] <= 1 /\ (ran'[d] = 1 => d \in added')
    BY <1>2, <1>7, <1>8 DEF ToldOnce
  <2> QED BY <1>2, <2>1, <2>2, <2>3, <2>4, <2>5 DEF ToldOnce
<1> QED BY <1>9, <1>10, <1>13

(* Every step of every thread keeps the invariant. *)
LEMMA LocalInvariantHolds == LocalSpec => []LocalInvariant
<1>1. LocalInvariant /\ [LocalNext]_localVars => LocalInvariant'
  <2> SUFFICES ASSUME LocalInvariant, [LocalNext]_localVars
               PROVE  LocalInvariant'
    OBVIOUS
  <2>1. ASSUME NEW t \in Agents,
               \/ StartExternal(t) \/ EndExternal(t) \/ RequestRevoke(t) \/ Return(t)
        PROVE  LocalInvariant'
    <3>1. agents[t].running = {}
      <4>1. ~Calling(t) \/ agents[t].running = {}
        BY <2>1 DEF StartExternal, EndExternal, RequestRevoke, Return, Calling, Resting
      <4> QED BY <4>1 DEF LocalInvariant, ToldOnce
    <3>2. CASE StartExternal(t)
      <4>1. agents' = [agents EXCEPT ![t] = [agents[t] EXCEPT !.stage = "external"]]
        BY <3>2 DEF StartExternal
      <4> QED BY <3>1, <3>2, <4>1, StageKeepsInvariant DEF StartExternal, LocalInvariant, LocalTypes
    <3>3. CASE EndExternal(t)
      <4>1. agents' = [agents EXCEPT ![t] = [agents[t] EXCEPT !.stage = "rest"]]
        BY <3>3 DEF EndExternal
      <4> QED BY <3>1, <3>3, <4>1, StageKeepsInvariant DEF EndExternal, LocalInvariant, LocalTypes
    <3>4. CASE RequestRevoke(t)
      <4>1. agents' = [agents EXCEPT ![t] = [agents[t] EXCEPT !.stage = "waiting"]]
        BY <3>4 DEF RequestRevoke
      <4> QED BY <3>1, <3>4, <4>1, StageKeepsInvariant DEF RequestRevoke
    <3>5. CASE Return(t)
      <4>1. agents' = [agents EXCEPT ![t] = [agents[t] EXCEPT !.stage = "rest"]]
        BY <3>5 DEF Return
      <4> QED BY <3>1, <3>5, <4>1, StageKeepsInvariant DEF Return, LocalInvariant, LocalTypes
    <3> QED BY <2>1, <3>2, <3>3, <3>4, <3>5
  <2>2. CASE UNCHANGED localVars
    BY <2>2 DEF localVars, LocalInvariant, LocalTypes, LockedInside, RevocationDrains, ToldOnce, Calling
  <2> QED BY <2>1, <2>2, MutationKeepsInvariant, RevokeKeepsInvariant, AddKeepsInvariant,
          RemoveKeepsInvariant, RunKeepsInvariant DEF LocalNext
<1> QED BY <1>1, LocalStarts, PTL DEF LocalSpec

(* A revocation that returns has drained the activation (authority.py, revoke
   against guard_local_mutation): no other thread is inside a mutation. *)
THEOREM RevocationDrainsAlways == LocalSpec => []RevocationDrains
<1>1. LocalInvariant => RevocationDrains
  BY DEF LocalInvariant
<1> QED BY <1>1, LocalInvariantHolds, PTL

(* Every callback registered with the authority runs once it is revoked, and
   only once (authority.py, revoke against add_revoke_callback). *)
THEOREM BridgesAreAlwaysToldOnce == LocalSpec => []BridgesAreToldOnce
<1>1. LocalInvariant => BridgesAreToldOnce
  <2> SUFFICES ASSUME LocalInvariant PROVE BridgesAreToldOnce
    OBVIOUS
  <2>1. \A c \in Callbacks : ran[c] <= 1
    BY DEF LocalInvariant, ToldOnce
  <2>2. ASSUME revoked, \A t \in Agents : ~Calling(t), NEW c \in added \ removed
        PROVE  ran[c] = 1
    <3>1. c \in Callbacks /\ ran[c] \in Nat
      BY DEF LocalInvariant, LocalTypes
    <3>2. ran[c] # 0
      BY <2>2 DEF LocalInvariant, ToldOnce
    <3> QED BY <2>1, <3>1, <3>2
  <2> QED BY <2>1, <2>2 DEF BridgesAreToldOnce
<1> QED BY <1>1, LocalInvariantHolds, PTL

-----------------------------------------------------------------------------
(* DurableStream: what the state is made of *)

Texts == Seq(Nat)

StreamHeads == [gen : Nat, sealed : BOOLEAN, final : Texts]

Lanes == [on : BOOLEAN, reset : BOOLEAN, gen : Nat, text : Texts, buffer : Texts]

WriterStages ==
    {"off", "open", "second", "ready", "dispatched", "prepare", "settle", "close", "rebuild",
     "rebuilding", "seal", "sealing", "aborted", "done"}

StreamWriters ==
    [stage : WriterStages, token : Nat, noop : BOOLEAN, broken : BOOLEAN, failed : BOOLEAN,
     lane : [Channels -> Lanes], inflight : Channels \union {"none"}, said : [Channels -> Nat],
     outcome : {"none", "completed", "failed"}, final : Texts, sealing : SUBSET Channels,
     snapshot : Texts]

StreamCalls ==
    [state : {"idle", "started", "doubt", "settled"}, text : Texts, streamed : Nat, said : Texts]

StreamTypes ==
    /\ generation \in Nat /\ holder \in Activations \union {NoActivation}
    /\ durableCall \in BOOLEAN /\ runOver \in BOOLEAN
    /\ streamCall \in StreamCalls
    /\ streamHead \in [Channels -> StreamHeads]
    /\ chunks \in [Channels -> Seq(Texts)]
    /\ writer \in [Activations -> StreamWriters]

\* A text whose bytes are of dispatch k, and a channel that shows no others.
Of(text, k) == \A i \in 1 .. Len(text) : text[i] = k

Shows(c, k) == streamHead[c].gen > 0 => Of(Content(c), k)

Blank(c) == streamHead[c].gen > 0 => Content(c) = <<>>

InHand(h) == h.inflight # "none" \/ \E c \in Channels : h.lane[c].buffer # <<>>

Dispatching(h) == h.stage \in {"dispatched", "prepare", "settle"}

Sealing(h) == h.stage \in {"rebuild", "rebuilding", "seal", "sealing"}

\* A dispatch of which more bytes may come, and a completed call being closed.
Speaks(h) == Dispatching(h) \/ InHand(h)

Completes(h) == h.outcome = "completed" /\ (h.stage = "close" \/ Sealing(h))

(* What a writer knows of itself, current or not: its lanes; *)
LanesFit(h) ==
    /\ \A c \in Channels :
          /\ Of(h.lane[c].buffer, h.token)
          /\ IF h.lane[c].on THEN h.lane[c].gen > 0 ELSE h.lane[c] = NoLane
          /\ h.inflight = c => h.lane[c].on /\ ~h.failed
    /\ InHand(h) => ~h.noop /\ h.stage \in {"dispatched", "prepare", "settle", "close", "aborted"}
    /\ h.stage \in {"off", "open", "second", "ready"} =>
          /\ ~h.failed /\ ~h.broken /\ h.outcome = "none" /\ h.said = NoWriter.said
          /\ \A c \in Channels : h.lane[c].on /\ ~h.lane[c].reset => h.lane[c].text = <<>>

\* what it has said, and what of it is written;
Accounted(h) ==
    h.said["output"] = Len(h.lane["output"].text) + Len(h.lane["output"].buffer)
                         + (IF h.inflight = "output" THEN 1 ELSE 0)

DispatchFits(h) ==
    /\ Dispatching(h) =>
          /\ h.said = NoWriter.said => ~InHand(h) /\ ~h.failed
          /\ \A c \in Channels : ~h.lane[c].reset /\ Of(h.lane[c].text, h.token)
          /\ ~h.noop /\ ~h.failed /\ ~h.broken => Accounted(h)
    /\ h.stage \in {"prepare", "settle"} => h.outcome = "completed" /\ Of(h.final, h.token)
    /\ h.stage = "settle" => h.noop \/ (~h.broken /\ ~h.failed /\ ~InHand(h))

\* and what it closes.
ClosingFits(h) ==
    /\ Sealing(h) =>
          /\ ~h.noop /\ ~h.failed
          /\ \A c \in h.sealing : h.lane[c].on
    /\ h.stage = "rebuild" => Completes(h) /\ h.lane["output"].text # h.final
    /\ h.stage = "rebuilding" => Completes(h)
    /\ h.stage \in {"seal", "sealing"} /\ "output" \in h.sealing /\ h.outcome = "completed" =>
          h.lane["output"].text = h.final
    /\ h.stage = "sealing" => h.sealing # {}

WriterFits(h) == LanesFit(h) /\ DispatchFits(h) /\ ClosingFits(h)

(* The tables: a generation is of one dispatch, and so is what a reader sees
   of both channels and of the answer. *)
ChannelFits(head, generations) ==
    /\ Len(generations) = head.gen
    /\ head.gen = 0 => head = NoHead
    /\ head.sealed => generations[head.gen] = head.final
    /\ \A g \in 1 .. Len(generations) : \E k \in Nat : Of(generations[g], k)

OneVisible(k) == Of(streamCall.text, k) /\ \A c \in Channels : Shows(c, k)

StreamTablesFit ==
    /\ \A c \in Channels : ChannelFits(streamHead[c], chunks[c])
    /\ streamHead["reasoning"].gen > 0 => streamHead["output"].gen > 0
    /\ \E k \in Nat : OneVisible(k)

(* What the writer h of the current activation knows of the tables. *)
CurrentWriterFits(h) ==
    /\ \A c \in Channels : h.lane[c].on =>
          /\ h.lane[c].gen = streamHead[c].gen /\ streamHead[c].gen > 0
          /\ ~h.failed => h.lane[c].text = Content(c)
    /\ h.stage = "open" => \A c \in Channels : ~h.lane[c].on
    /\ h.stage = "second" => h.lane["output"].on /\ ~h.lane["reasoning"].on
    /\ ~h.noop /\ h.stage \in {"ready", "dispatched", "prepare", "settle", "close", "rebuild", "rebuilding"} =>
          /\ h.lane["output"].on
          /\ h.lane["reasoning"].on \/ streamHead["reasoning"].gen = 0

LaneFits(a, h) ==
    Holds(a, h.token) /\ h.stage \notin {"off", "aborted", "done"} => CurrentWriterFits(h)

(* A durable call: one writer at a time speaks, and none once it is settled. *)
DurableCallFits ==
    /\ streamCall.state = "idle" => \A c \in Channels : Blank(c)
    /\ streamCall.state # "settled" => streamCall.text = <<>> /\ published = {}
    /\ streamCall.state = "settled" =>
          /\ streamCall.streamed <= streamHead["output"].gen
          /\ streamCall.streamed > 0 => chunks["output"][streamCall.streamed] = streamCall.said
          /\ published # {} =>
                /\ published = {streamCall.text}
                /\ streamHead["output"].sealed /\ streamHead["output"].final = streamCall.text

DurableFits(a, h) ==
    /\ Speaks(h) =>
          /\ streamCall.state \in {"started", "doubt"}
          /\ \A c \in Channels : Shows(c, h.token)
    /\ Dispatching(h) /\ h.said = NoWriter.said => \A c \in Channels : Blank(c)
    /\ Completes(h) =>
          /\ streamCall.state = "settled" /\ h.final = streamCall.text
          /\ h.stage = "rebuilding" /\ Holds(a, h.token) =>
                streamHead["output"].gen > streamCall.streamed

OneSpeaks == \A a, b \in Activations : Speaks(writer[a]) /\ Speaks(writer[b]) => a = b

(* A call without a durable lifecycle: every writer speaks for itself. *)
PlainCallFits == streamCall.state = "idle" /\ streamCall.text = <<>>

PlainFits(a, h) ==
    /\ h.stage \notin {"prepare", "settle"}
    /\ InHand(h) => h.stage \in {"dispatched", "close"}
    /\ Completes(h) => Of(h.final, h.token)
    /\ Holds(a, h.token) /\ ~h.noop /\ (h.stage \in {"dispatched", "close"} \/ Sealing(h)) =>
          \A c \in Channels : Shows(c, h.token)

StreamInv ==
    /\ StreamTypes
    /\ StreamTablesFit
    /\ \A a \in Activations :
          /\ WriterFits(writer[a]) /\ writer[a].token <= generation
          /\ LaneFits(a, writer[a])
          /\ durableCall => DurableFits(a, writer[a])
          /\ ~durableCall => PlainFits(a, writer[a])
    /\ durableCall => DurableCallFits /\ OneSpeaks
    /\ ~durableCall => PlainCallFits

-----------------------------------------------------------------------------
(* The store *)

streamStore == <<streamHead, chunks, runOver>>

StoreTypes ==
    /\ streamHead \in [Channels -> StreamHeads]
    /\ chunks \in [Channels -> Seq(Texts)]
    /\ runOver \in BOOLEAN

(* A channel that exists shows a text. *)
LEMMA ContentIsText ==
    ASSUME StreamTypes, StreamTablesFit, NEW c \in Channels, streamHead[c].gen > 0
    PROVE  /\ streamHead[c].gen \in 1 .. Len(chunks[c])
           /\ Content(c) \in Texts
           /\ Content(c) = chunks[c][streamHead[c].gen]
<1>1. streamHead[c] \in StreamHeads /\ chunks[c] \in Seq(Texts)
  BY DEF StreamTypes
<1>2. streamHead[c].gen \in 1 .. Len(chunks[c])
  BY <1>1 DEF StreamTablesFit, ChannelFits, StreamHeads
<1>3. chunks[c][streamHead[c].gen] \in Texts
  BY <1>1, <1>2, ElementOfSeq
<1> QED BY <1>2, <1>3 DEF Content

(* A step that leaves a channel as it is leaves what it shows. *)
LEMMA ChannelKept ==
    ASSUME NEW c \in Channels, streamHead'[c] = streamHead[c], chunks'[c] = chunks[c]
    PROVE  /\ Content(c)' = Content(c)
           /\ \A k : Shows(c, k)' <=> Shows(c, k)
           /\ Blank(c)' <=> Blank(c)
BY DEF Content, Shows, Blank, Of

\* open leaves a channel of one empty generation.
LEMMA OpenEffect ==
    ASSUME StreamTypes, StreamTablesFit, NEW c \in Channels, StoreOpens(c), streamCall' = streamCall,
           streamHead[c].gen = 0, c = "reasoning" => streamHead["output"].gen > 0
    PROVE  /\ StoreTypes' /\ StreamTablesFit'
           /\ streamHead'[c].gen = 1 /\ Content(c)' = <<>>
           /\ \A d \in Channels : d # c => streamHead'[d] = streamHead[d] /\ chunks'[d] = chunks[d]
<1>0. streamHead[c] = NoHead /\ streamHead[c] \in StreamHeads
  BY DEF StreamTypes, StreamTablesFit, ChannelFits
<1>1. /\ streamHead'[c] = [NoHead EXCEPT !.gen = 1] /\ chunks'[c] = <<(<<>>)>>
      /\ \A d \in Channels : d # c => streamHead'[d] = streamHead[d] /\ chunks'[d] = chunks[d]
  BY <1>0 DEF StoreOpens, StreamTypes
<1>2. streamHead'[c] \in StreamHeads
  <2>1. <<>> \in Texts
    BY DEF Texts
  <2>2. streamHead'[c] = [gen |-> 1, sealed |-> FALSE, final |-> <<>>]
    BY <1>1 DEF NoHead
  <2> QED BY <2>1, <2>2 DEF StreamHeads
<1>3. chunks'[c] \in Seq(Texts) /\ Len(chunks'[c]) = 1 /\ chunks'[c][1] = <<>>
  BY <1>1 DEF Texts
<1>4. StoreTypes'
  BY <1>1, <1>2, <1>3 DEF StoreOpens, StreamTypes, StoreTypes
<1>5. streamHead'[c].gen = 1 /\ ~streamHead'[c].sealed /\ Content(c)' = <<>>
  BY <1>1, <1>3 DEF NoHead, Content
<1>6. \A d \in Channels : ChannelFits(streamHead'[d], chunks'[d])
  <2> SUFFICES ASSUME NEW d \in Channels PROVE ChannelFits(streamHead'[d], chunks'[d])
    OBVIOUS
  <2>1. CASE d = c
    <3>1. Of(chunks'[c][1], 0)
      BY <1>3 DEF Of
    <3> QED BY <2>1, <3>1, <1>3, <1>5 DEF ChannelFits
  <2>2. CASE d # c
    BY <2>2, <1>1 DEF StreamTablesFit
  <2> QED BY <2>1, <2>2
<1>7. PICK k \in Nat : Of(streamCall.text, k) /\ \A d \in Channels : Shows(d, k)
  BY DEF StreamTablesFit, OneVisible
<1>8. \A d \in Channels : Shows(d, k)'
  <2> SUFFICES ASSUME NEW d \in Channels PROVE Shows(d, k)'
    OBVIOUS
  <2>1. CASE d = c
    BY <2>1, <1>5 DEF Shows, Of
  <2>2. CASE d # c
    BY <2>2, <1>1, <1>7, ChannelKept
  <2> QED BY <2>1, <2>2
<1>9. streamHead'["reasoning"].gen > 0 => streamHead'["output"].gen > 0
  BY <1>1, <1>5 DEF StreamTablesFit, Channels
<1>10. (\E j \in Nat : OneVisible(j))'
  BY <1>7, <1>8 DEF Of, OneVisible
<1> QED BY <1>1, <1>4, <1>5, <1>6, <1>9, <1>10 DEF StreamTablesFit

\* reset leaves an empty generation above every earlier one, which stay.
LEMMA ResetEffect ==
    ASSUME StreamTypes, StreamTablesFit, NEW c \in Channels, StoreResets(c), streamCall' = streamCall,
           streamHead[c].gen > 0
    PROVE  /\ StoreTypes' /\ StreamTablesFit'
           /\ streamHead'[c].gen = streamHead[c].gen + 1 /\ Content(c)' = <<>>
           /\ \A g \in 1 .. streamHead[c].gen : chunks'[c][g] = chunks[c][g]
           /\ \A d \in Channels : d # c => streamHead'[d] = streamHead[d] /\ chunks'[d] = chunks[d]
<1>0. /\ streamHead[c] \in StreamHeads /\ chunks[c] \in Seq(Texts) /\ Len(chunks[c]) = streamHead[c].gen
      /\ <<>> \in Texts
  BY DEF StreamTypes, StreamTablesFit, ChannelFits, Texts
<1>1. /\ streamHead'[c] = [gen |-> streamHead[c].gen + 1, sealed |-> FALSE, final |-> <<>>]
      /\ chunks'[c] = Append(chunks[c], <<>>)
      /\ \A d \in Channels : d # c => streamHead'[d] = streamHead[d] /\ chunks'[d] = chunks[d]
  BY DEF StoreResets, StreamTypes
<1>2. streamHead'[c] \in StreamHeads
  BY <1>0, <1>1 DEF StreamHeads
<1>3. /\ chunks'[c] \in Seq(Texts) /\ Len(chunks'[c]) = streamHead[c].gen + 1
      /\ chunks'[c][streamHead[c].gen + 1] = <<>>
      /\ \A g \in 1 .. streamHead[c].gen : chunks'[c][g] = chunks[c][g]
  BY <1>0, <1>1 DEF StreamHeads
<1>4. StoreTypes'
  BY <1>1, <1>2, <1>3 DEF StoreResets, StreamTypes, StoreTypes
<1>5. streamHead'[c].gen = streamHead[c].gen + 1 /\ ~streamHead'[c].sealed /\ Content(c)' = <<>>
  BY <1>1, <1>3 DEF Content
<1>6. \A d \in Channels : ChannelFits(streamHead'[d], chunks'[d])
  <2> SUFFICES ASSUME NEW d \in Channels PROVE ChannelFits(streamHead'[d], chunks'[d])
    OBVIOUS
  <2>1. CASE d = c
    <3>1. \A g \in 1 .. Len(chunks'[c]) : \E k \in Nat : Of(chunks'[c][g], k)
      <4> SUFFICES ASSUME NEW g \in 1 .. Len(chunks'[c]) PROVE \E k \in Nat : Of(chunks'[c][g], k)
        OBVIOUS
      <4>1. CASE g = streamHead[c].gen + 1
        <5>1. Of(chunks'[c][g], 0)
          BY <4>1, <1>3 DEF Of
        <5> QED BY <5>1
      <4>2. CASE g # streamHead[c].gen + 1
        <5>1. g \in 1 .. Len(chunks[c]) /\ chunks'[c][g] = chunks[c][g]
          BY <4>2, <1>0, <1>3 DEF StreamHeads
        <5> QED BY <5>1 DEF StreamTablesFit, ChannelFits
      <4> QED BY <4>1, <4>2
    <3> QED BY <2>1, <3>1, <1>0, <1>3, <1>5 DEF ChannelFits, StreamHeads
  <2>2. CASE d # c
    BY <2>2, <1>1 DEF StreamTablesFit
  <2> QED BY <2>1, <2>2
<1>7. PICK k \in Nat : Of(streamCall.text, k) /\ \A d \in Channels : Shows(d, k)
  BY DEF StreamTablesFit, OneVisible
<1>8. \A d \in Channels : Shows(d, k)'
  <2> SUFFICES ASSUME NEW d \in Channels PROVE Shows(d, k)'
    OBVIOUS
  <2>1. CASE d = c
    BY <2>1, <1>5 DEF Shows, Of
  <2>2. CASE d # c
    BY <2>2, <1>1, <1>7, ChannelKept
  <2> QED BY <2>1, <2>2
<1>9. streamHead'["reasoning"].gen > 0 => streamHead'["output"].gen > 0
  <2>1. streamHead["reasoning"].gen > 0 => streamHead["output"].gen > 0
    BY DEF StreamTablesFit
  <2> QED BY <2>1, <1>0, <1>1, <1>5 DEF Channels, StreamHeads
<1>10. (\E j \in Nat : OneVisible(j))'
  BY <1>7, <1>8 DEF Of, OneVisible
<1> QED BY <1>1, <1>3, <1>4, <1>5, <1>6, <1>9, <1>10 DEF StreamTablesFit

(* The byte has to be of the dispatch that everything visible is of. *)
LEMMA AppendEffect ==
    ASSUME StreamTypes, StreamTablesFit, NEW c \in Channels, streamHead[c].gen > 0,
           ~streamHead[c].sealed, NEW byte \in Nat, StoreAppends(c, byte), streamCall' = streamCall,
           NEW k \in Nat, Of(streamCall.text, k), \A d \in Channels : Shows(d, k), byte = k
    PROVE  /\ StoreTypes' /\ StreamTablesFit'
           /\ streamHead' = streamHead
           /\ Content(c)' = Append(Content(c), byte)
           /\ \A d \in Channels : Shows(d, k)'
           /\ \A g \in 1 .. streamHead[c].gen : g # streamHead[c].gen => chunks'[c][g] = chunks[c][g]
           /\ \A d \in Channels : d # c => chunks'[d] = chunks[d]
<1> DEFINE n == streamHead[c].gen
<1>0. /\ streamHead[c] \in StreamHeads /\ chunks[c] \in Seq(Texts) /\ Len(chunks[c]) = n
      /\ n \in 1 .. Len(chunks[c]) /\ Content(c) \in Texts /\ Content(c) = chunks[c][n]
  BY ContentIsText DEF StreamTypes, StreamTablesFit, ChannelFits
<1>1. /\ streamHead' = streamHead /\ runOver' = runOver
      /\ chunks'[c] = [chunks[c] EXCEPT ![n] = Append(chunks[c][n], byte)]
      /\ \A d \in Channels : d # c => chunks'[d] = chunks[d]
      /\ DOMAIN chunks' = Channels /\ chunks' = [d \in Channels |-> chunks'[d]]
  BY DEF StoreAppends, StreamTypes
<1>2. Append(chunks[c][n], byte) \in Texts
  BY <1>0 DEF Texts
<1> HIDE DEF n
<1>3. chunks'[c] \in Seq(Texts) /\ Len(chunks'[c]) = n
  BY <1>0, <1>1, <1>2, ExceptSeq
<1>4. /\ chunks'[c][n] = Append(Content(c), byte)
      /\ \A g \in 1 .. n : g # n => chunks'[c][g] = chunks[c][g]
  BY <1>0, <1>1, ExceptSeq
<1>5. StoreTypes'
  BY <1>1, <1>3 DEF StreamTypes, StoreTypes
<1>6. Content(c)' = Append(Content(c), byte)
  BY <1>1, <1>4 DEF Content, n
<1>7. Of(Content(c)', k)
  <2>1. Of(Content(c), k)
    BY DEF Shows
  <2> QED BY <1>0, <1>6, <2>1 DEF Of, Texts
<1>8. \A d \in Channels : ChannelFits(streamHead'[d], chunks'[d])
  <2> SUFFICES ASSUME NEW d \in Channels PROVE ChannelFits(streamHead'[d], chunks'[d])
    OBVIOUS
  <2>1. CASE d = c
    <3>1. \A g \in 1 .. Len(chunks'[c]) : \E j \in Nat : Of(chunks'[c][g], j)
      <4> SUFFICES ASSUME NEW g \in 1 .. Len(chunks'[c]) PROVE \E j \in Nat : Of(chunks'[c][g], j)
        OBVIOUS
      <4>1. CASE g = n
        BY <4>1, <1>4, <1>6, <1>7
      <4>2. CASE g # n
        <5>1. g \in 1 .. Len(chunks[c]) /\ chunks'[c][g] = chunks[c][g]
          BY <4>2, <1>0, <1>3, <1>4
        <5> QED BY <5>1 DEF StreamTablesFit, ChannelFits
      <4> QED BY <4>1, <4>2
    <3> QED BY <2>1, <3>1, <1>0, <1>1, <1>3 DEF ChannelFits, StreamTablesFit, n
  <2>2. CASE d # c
    BY <2>2, <1>1 DEF StreamTablesFit
  <2> QED BY <2>1, <2>2
<1>9. \A d \in Channels : Shows(d, k)'
  <2> SUFFICES ASSUME NEW d \in Channels PROVE Shows(d, k)'
    OBVIOUS
  <2>1. CASE d = c
    BY <2>1, <1>7 DEF Shows, Of
  <2>2. CASE d # c
    BY <2>2, <1>1, ChannelKept
  <2> QED BY <2>1, <2>2
<1>10. (\E j \in Nat : OneVisible(j))'
  BY <1>9 DEF Of, OneVisible
<1>11. (streamHead["reasoning"].gen > 0 => streamHead["output"].gen > 0)'
  BY <1>1 DEF StreamTablesFit
<1>12. StreamTablesFit'
  BY <1>8, <1>10, <1>11 DEF StreamTablesFit
<1> QED BY <1>1, <1>4, <1>5, <1>6, <1>9, <1>12 DEF n

\* seal leaves every text as it is, and records what the channel shows.
LEMMA SealEffect ==
    ASSUME StreamTypes, StreamTablesFit, NEW c \in Channels, streamHead[c].gen > 0,
           StoreSeals(c, Content(c)), streamCall' = streamCall
    PROVE  /\ StoreTypes' /\ StreamTablesFit'
           /\ chunks' = chunks
           /\ streamHead'[c] = [streamHead[c] EXCEPT !.sealed = TRUE, !.final = Content(c)]
           /\ \A d \in Channels : streamHead'[d].gen = streamHead[d].gen /\ Content(d)' = Content(d)
           /\ \A d \in Channels : d # c => streamHead'[d] = streamHead[d]
<1>0. streamHead[c] \in StreamHeads /\ Content(c) \in Texts
  BY ContentIsText DEF StreamTypes
<1>1. /\ chunks' = chunks /\ runOver' = runOver
      /\ streamHead'[c] = [streamHead[c] EXCEPT !.sealed = TRUE, !.final = Content(c)]
      /\ \A d \in Channels : d # c => streamHead'[d] = streamHead[d]
      /\ streamHead' = [d \in Channels |-> streamHead'[d]]
  BY DEF StoreSeals, StreamTypes
<1>2. /\ streamHead'[c] \in StreamHeads /\ streamHead'[c].gen = streamHead[c].gen
      /\ streamHead'[c].final = Content(c)
  BY <1>0, <1>1 DEF StreamHeads
<1>3. StoreTypes'
  BY <1>1, <1>2 DEF StreamTypes, StoreTypes
<1>4. \A d \in Channels : streamHead'[d].gen = streamHead[d].gen /\ Content(d)' = Content(d)
  BY <1>1, <1>2 DEF Content
<1>5. \A d \in Channels : \A k : Shows(d, k)' <=> Shows(d, k)
  BY <1>4 DEF Shows, Of
<1>6. \A d \in Channels : ChannelFits(streamHead'[d], chunks'[d])
  <2> SUFFICES ASSUME NEW d \in Channels PROVE ChannelFits(streamHead'[d], chunks'[d])
    OBVIOUS
  <2>1. CASE d = c
    <3>1. ChannelFits(streamHead[c], chunks[c]) /\ chunks'[c] = chunks[c]
      BY <1>1 DEF StreamTablesFit
    <3>2. chunks[c][streamHead'[c].gen] = streamHead'[c].final /\ streamHead'[c].gen > 0
      BY <1>2, ContentIsText
    <3> QED BY <2>1, <3>1, <3>2, <1>2 DEF ChannelFits
  <2>2. CASE d # c
    BY <2>2, <1>1 DEF StreamTablesFit
  <2> QED BY <2>1, <2>2
<1>7. (\E j \in Nat : OneVisible(j))'
  BY <1>5 DEF StreamTablesFit, OneVisible, Of
<1>8. (streamHead["reasoning"].gen > 0 => streamHead["output"].gen > 0)'
  BY <1>4 DEF StreamTablesFit, Channels
<1>9. StreamTablesFit'
  BY <1>6, <1>7, <1>8 DEF StreamTablesFit
<1> QED BY <1>1, <1>3, <1>4, <1>9

-----------------------------------------------------------------------------
(* What a step of one activation leaves to show *)

\* What a step under an unchanged lease has to re-establish.
LEMMA StreamStep ==
    ASSUME StreamInv, NEW a \in Activations, UNCHANGED <<leaseVars, durableCall>>,
           writer' \in [Activations -> StreamWriters], streamCall' \in StreamCalls,
           \A b \in Activations : b # a => writer'[b] = writer[b],
           StoreTypes', StreamTablesFit',
           WriterFits(writer'[a]), writer'[a].token \in {0, writer[a].token},
           \A b \in Activations : LaneFits(b, writer[b])',
           durableCall =>
              /\ DurableCallFits' /\ OneSpeaks'
              /\ \A b \in Activations : DurableFits(b, writer[b])',
           ~durableCall => PlainCallFits' /\ \A b \in Activations : PlainFits(b, writer[b])'
    PROVE  StreamInv'
<1>1. StreamTypes'
  BY DEF StreamInv, StreamTypes, StoreTypes, leaseVars
<1>2. \A b \in Activations : (WriterFits(writer[b]) /\ writer[b].token <= generation)'
  <2> SUFFICES ASSUME NEW b \in Activations
               PROVE  WriterFits(writer'[b]) /\ writer'[b].token <= generation'
    BY DEF WriterFits
  <2>1. writer[b].token <= generation /\ WriterFits(writer[b]) /\ generation \in Nat
    BY DEF StreamInv, StreamTypes
  <2>2. writer[a].token <= generation
    BY DEF StreamInv
  <2> QED BY <2>1, <2>2 DEF leaseVars
<1>3. durableCall' = durableCall
  OBVIOUS
<1> QED BY <1>1, <1>2, <1>3 DEF StreamInv

(* Nothing the other activations rely on moves. *)
LEMMA OthersKept ==
    ASSUME StreamInv, NEW b \in Activations, writer'[b] = writer[b],
           UNCHANGED <<leaseVars, durableCall, streamCall, streamTables>>
    PROVE  /\ LaneFits(b, writer[b])'
           /\ durableCall => DurableFits(b, writer[b])'
           /\ ~durableCall => PlainFits(b, writer[b])'
<1>1. \A c \in Channels : Content(c)' = Content(c)
  BY DEF Content, streamTables
<1>2. \A c \in Channels : /\ Blank(c)' <=> Blank(c)
                          /\ Shows(c, writer[b].token)' <=> Shows(c, writer[b].token)
  BY <1>1 DEF Blank, Shows, Of, streamTables
<1>3. LaneFits(b, writer[b]) => LaneFits(b, writer[b])'
  BY <1>1 DEF LaneFits, CurrentWriterFits, Holds, leaseVars, streamTables
<1>4. DurableFits(b, writer[b]) => DurableFits(b, writer[b])'
  BY <1>1, <1>2 DEF DurableFits, Speaks, Dispatching, InHand, Completes, Sealing, Holds, leaseVars, streamTables
<1>5. PlainFits(b, writer[b]) => PlainFits(b, writer[b])'
  BY <1>1, <1>2 DEF PlainFits, InHand, Completes, Sealing, Holds, leaseVars, streamTables, Of
<1> QED BY <1>3, <1>4, <1>5 DEF StreamInv

\* A writer moves on and touches no table.
LEMMA LocalStep ==
    ASSUME StreamInv, NEW a \in Activations,
           UNCHANGED <<leaseVars, durableCall, streamCall, streamTables, published>>,
           writer' \in [Activations -> StreamWriters],
           \A b \in Activations : b # a => writer'[b] = writer[b],
           WriterFits(writer'[a]), writer'[a].token \in {0, writer[a].token},
           LaneFits(a, writer'[a]),
           durableCall => DurableFits(a, writer'[a]) /\ (Speaks(writer'[a]) => Speaks(writer[a])),
           ~durableCall => PlainFits(a, writer'[a])
    PROVE  StreamInv'
<1>1. streamCall' \in StreamCalls /\ StoreTypes' /\ StreamTablesFit'
  <2>1. \A c \in Channels : Content(c)' = Content(c)
    BY DEF Content, streamTables
  <2>2. \A k \in Nat : OneVisible(k) => OneVisible(k)'
    BY <2>1 DEF OneVisible, Shows, Of, streamTables
  <2>3. streamHead' = streamHead /\ chunks' = chunks /\ runOver' = runOver /\ streamCall' = streamCall
    BY DEF streamTables
  <2>4. StreamTablesFit'
    BY <2>2, <2>3 DEF StreamInv, StreamTablesFit
  <2> QED BY <2>3, <2>4 DEF StreamInv, StreamTypes, StoreTypes
<1>2. \A b \in Activations : b # a =>
         /\ LaneFits(b, writer[b])'
         /\ durableCall => DurableFits(b, writer[b])'
         /\ ~durableCall => PlainFits(b, writer[b])'
  BY OthersKept
<1>a. /\ LaneFits(a, writer[a])'
      /\ durableCall => DurableFits(a, writer[a])'
      /\ ~durableCall => PlainFits(a, writer[a])'
  <2>1. PICK h : h = writer'[a]
    OBVIOUS
  <2>2. \A c \in Channels : Content(c)' = Content(c)
    BY DEF Content, streamTables
  <2>3. \A c \in Channels : /\ Blank(c)' <=> Blank(c)
                            /\ Shows(c, writer[a].token)' <=> Shows(c, h.token)
    BY <2>1, <2>2 DEF Blank, Shows, Of, streamTables
  <2>4. LaneFits(a, h) => LaneFits(a, writer[a])'
    BY <2>1, <2>2 DEF LaneFits, CurrentWriterFits, Holds, leaseVars, streamTables
  <2>5. DurableFits(a, h) => DurableFits(a, writer[a])'
    BY <2>1, <2>3 DEF DurableFits, Speaks, Dispatching, InHand, Completes, Sealing, Holds, leaseVars, streamTables
  <2>6. PlainFits(a, h) => PlainFits(a, writer[a])'
    BY <2>1, <2>3 DEF PlainFits, InHand, Completes, Sealing, Holds, leaseVars, streamTables, Of
  <2> QED BY <2>1, <2>4, <2>5, <2>6
<1>3. durableCall => DurableCallFits' /\ OneSpeaks'
  <2> SUFFICES ASSUME durableCall PROVE DurableCallFits' /\ OneSpeaks'
    OBVIOUS
  <2>1. \A c \in Channels : Blank(c)' <=> Blank(c)
    BY DEF Blank, Content, streamTables
  <2>2. DurableCallFits'
    BY <2>1 DEF StreamInv, DurableCallFits, streamTables
  <2>3. \A b \in Activations : Speaks(writer'[b]) => Speaks(writer[b])
    OBVIOUS
  <2>4. OneSpeaks'
    <3> SUFFICES ASSUME NEW b \in Activations, NEW d \in Activations,
                        Speaks(writer'[b]), Speaks(writer'[d])
                 PROVE  b = d
      BY DEF OneSpeaks, Speaks, Dispatching, InHand
    <3> QED BY <2>3 DEF StreamInv, OneSpeaks
  <2> QED BY <2>2, <2>4
<1>4. ~durableCall => PlainCallFits'
  BY DEF StreamInv, PlainCallFits
<1>5. UNCHANGED <<leaseVars, durableCall>>
  OBVIOUS
<1>6. \A b \in Activations : LaneFits(b, writer[b])'
  BY <1>2, <1>a
<1>7. durableCall => \A b \in Activations : DurableFits(b, writer[b])'
  BY <1>2, <1>a
<1>8. ~durableCall => \A b \in Activations : PlainFits(b, writer[b])'
  BY <1>2, <1>a
<1> QED BY <1>1, <1>3, <1>4, <1>5, <1>6, <1>7, <1>8, StreamStep

(* The facts of one writer. *)
LEMMA WriterFacts ==
    ASSUME StreamInv, NEW a \in Activations
    PROVE  /\ writer \in [Activations -> StreamWriters] /\ writer[a] \in StreamWriters
           /\ WriterFits(writer[a]) /\ LaneFits(a, writer[a])
           /\ durableCall => DurableFits(a, writer[a])
           /\ ~durableCall => PlainFits(a, writer[a])
BY DEF StreamInv, StreamTypes

\* The types of a writer's fields.
LEMMA WriterFields ==
    ASSUME NEW w \in StreamWriters
    PROVE  /\ w.token \in Nat /\ w.final \in Texts /\ w.said \in [Channels -> Nat]
           /\ w.stage \in WriterStages /\ w.inflight \in Channels \union {"none"}
           /\ w.lane \in [Channels -> Lanes] /\ w.sealing \subseteq Channels
           /\ {w.noop, w.failed, w.broken} \subseteq BOOLEAN
           /\ \A c \in Channels :
                 /\ w.lane[c] \in Lanes /\ {w.lane[c].on, w.lane[c].reset} \subseteq BOOLEAN
                 /\ w.lane[c].gen \in Nat /\ w.lane[c].text \in Texts /\ w.lane[c].buffer \in Texts
                 /\ Len(w.lane[c].text) \in Nat /\ Len(w.lane[c].buffer) \in Nat
<1>1. w.lane \in [Channels -> Lanes]
  BY DEF StreamWriters
<1>2. \A c \in Channels : w.lane[c] \in Lanes
  BY <1>1
<1>3. \A c \in Channels : 
                 /\ w.lane[c] \in Lanes /\ {w.lane[c].on, w.lane[c].reset} \subseteq BOOLEAN
                 /\ w.lane[c].gen \in Nat /\ w.lane[c].text \in Texts /\ w.lane[c].buffer \in Texts
  BY <1>2 DEF Lanes
<1>4. \A c \in Channels : Len(w.lane[c].text) \in Nat /\ Len(w.lane[c].buffer) \in Nat
  BY <1>3 DEF Texts
<1>5. /\ w.token \in Nat /\ w.final \in Texts /\ w.said \in [Channels -> Nat]
      /\ w.stage \in WriterStages /\ w.inflight \in Channels \union {"none"}
      /\ w.sealing \subseteq Channels /\ {w.noop, w.failed, w.broken} \subseteq BOOLEAN
  BY DEF StreamWriters
<1> QED BY <1>1, <1>3, <1>4, <1>5

(* A lane of a writer changes. *)
LEMMA LaneTyped ==
    ASSUME NEW w \in StreamWriters, NEW c \in Channels, NEW l \in Lanes
    PROVE  [w.lane EXCEPT ![c] = l] \in [Channels -> Lanes]
BY DEF StreamWriters

-----------------------------------------------------------------------------
(* Steps of one writer alone *)

\* A writer without lanes: before it opens them, without a stream, and done.
Bare(stage, own, noop) ==
    [stage |-> stage, token |-> own, noop |-> noop, broken |-> FALSE, failed |-> FALSE,
     lane |-> [c \in Channels |-> NoLane], inflight |-> "none", said |-> [c \in Channels |-> 0],
     outcome |-> "none", final |-> <<>>, sealing |-> {}, snapshot |-> <<>>]

\* A writer without lanes fits, whatever the tables hold.
LEMMA BareWriter ==
    ASSUME NEW stage \in {"off", "open", "ready", "done"}, NEW own \in Nat, NEW noop \in BOOLEAN,
           NEW h, h = Bare(stage, own, noop)
    PROVE  /\ h \in StreamWriters /\ WriterFits(h) /\ \A c \in Channels : h.lane[c] = NoLane
           /\ h.stage = stage /\ h.token = own /\ h.noop = noop
           /\ ~InHand(h) /\ ~Dispatching(h) /\ ~Speaks(h) /\ ~Completes(h) /\ ~Sealing(h)
<1>1. NoLane \in Lanes /\ <<>> \in Texts
  <2>1. <<>> \in Texts
    BY DEF Texts
  <2> QED BY <2>1 DEF NoLane, Lanes
<1>2. [c \in Channels |-> NoLane] \in [Channels -> Lanes] /\ [c \in Channels |-> 0] \in [Channels -> Nat]
  BY <1>1
<1>3. h \in StreamWriters
  BY <1>1, <1>2 DEF Bare, StreamWriters, WriterStages
<1>4. /\ h.stage = stage /\ h.noop = noop /\ h.token = own /\ ~h.broken /\ ~h.failed
      /\ h.lane = [c \in Channels |-> NoLane] /\ h.inflight = "none" /\ h.said = [c \in Channels |-> 0]
      /\ h.outcome = "none" /\ h.final = <<>> /\ h.sealing = {} /\ h.snapshot = <<>>
  BY DEF Bare
<1>5. \A c \in Channels : h.lane[c] = NoLane
  BY <1>4
<1>6. \A c \in Channels : h.lane[c].buffer = <<>> /\ ~h.lane[c].on
  BY <1>5 DEF NoLane
<1>7. ~InHand(h) /\ ~Dispatching(h) /\ ~Speaks(h) /\ ~Completes(h) /\ ~Sealing(h)
  BY <1>4, <1>6 DEF InHand, Dispatching, Speaks, Completes, Sealing
<1>8. WriterFits(h)
  <2>1. \A c \in Channels : Of(h.lane[c].buffer, h.token)
    BY <1>6 DEF Of
  <2>2. h.said = NoWriter.said
    BY <1>4 DEF NoWriter
  <2> QED BY <1>4, <1>5, <1>6, <1>7, <2>1, <2>2 DEF WriterFits, LanesFit, DispatchFits, ClosingFits, Channels
<1> QED BY <1>3, <1>4, <1>5, <1>7, <1>8

\* A writer is left without lanes.
LEMMA BareStep ==
    ASSUME StreamInv, NEW a \in Activations,
           UNCHANGED <<leaseVars, durableCall, streamCall, streamTables, published>>,
           NEW stage \in {"ready", "done", "off"}, NEW noop \in BOOLEAN,
           stage = "ready" => noop, NEW own \in {0, writer[a].token}, writer' = [writer EXCEPT ![a] = Bare(stage, own, noop)]
    PROVE  StreamInv'
<1>0. /\ writer \in [Activations -> StreamWriters] /\ writer[a] \in StreamWriters
  BY WriterFacts
<1>1. PICK h : h = Bare(stage, own, noop)
  OBVIOUS
<1>2. own \in Nat
  BY <1>0 DEF StreamWriters
<1>3. /\ h \in StreamWriters /\ WriterFits(h) /\ \A c \in Channels : h.lane[c] = NoLane
      /\ ~InHand(h) /\ ~Dispatching(h) /\ ~Speaks(h) /\ ~Completes(h) /\ ~Sealing(h)
  BY <1>1, <1>2, BareWriter
<1>4. /\ writer'[a] = h /\ \A b \in Activations : b # a => writer'[b] = writer[b]
      /\ writer' \in [Activations -> StreamWriters]
  BY <1>0, <1>1, <1>3
<1>5. h.stage = stage /\ h.noop = noop /\ h.token = own
  BY <1>1, <1>2, BareWriter
<1>6. \A c \in Channels : ~h.lane[c].on
  BY <1>3 DEF NoLane
<1>7. LaneFits(a, h)
  BY <1>5, <1>6 DEF LaneFits, CurrentWriterFits
<1>8. DurableFits(a, h) /\ PlainFits(a, h)
  BY <1>3, <1>5 DEF DurableFits, PlainFits, Speaks, Dispatching, InHand, Completes, Sealing
<1> QED BY <1>3, <1>4, <1>5, <1>7, <1>8, LocalStep

\* safe_open_model_stream goes on without a stream.
LEMMA OpenFailsStep ==
    ASSUME StreamInv, NEW a \in Activations, OpenFails(a) PROVE StreamInv'
<1>1. /\ writer' = [writer EXCEPT ![a] = [NoWriter EXCEPT !.stage = "ready", !.noop = TRUE,
                                                          !.token = writer[a].token]]
      /\ UNCHANGED <<leaseVars, durableCall, streamCall, streamTables, published>>
  BY DEF OpenFails
<1>2. PICK h : h = [NoWriter EXCEPT !.stage = "ready", !.noop = TRUE, !.token = writer[a].token]
  OBVIOUS
<1>3. h = Bare("ready", writer[a].token, TRUE)
  BY <1>2 DEF NoWriter, Bare
<1> QED BY <1>1, <1>2, <1>3, BareStep

(* What a writer that is done, or has given up, leaves. *)
LEMMA DoneStep ==
    ASSUME StreamInv, NEW a \in Activations, StreamEnds(a) \/ StreamStops(a) PROVE StreamInv'
<1>1. /\ writer' = [writer EXCEPT ![a] = [NoWriter EXCEPT !.stage = "done"]]
      /\ UNCHANGED <<leaseVars, durableCall, streamCall, streamTables, published>>
  BY DEF StreamEnds, StreamStops
<1>2. PICK h : h = [NoWriter EXCEPT !.stage = "done"]
  OBVIOUS
<1>3. h = Bare("done", 0, FALSE)
  BY <1>2 DEF NoWriter, Bare
<1> QED BY <1>1, <1>2, <1>3, BareStep

(* A writer that keeps its lanes and goes on. *)
SameLanes(w, h) ==
    /\ h.lane = w.lane /\ h.inflight = w.inflight /\ h.token = w.token
    /\ h.noop = w.noop /\ h.failed = w.failed

LoadedStages == {"ready", "dispatched", "prepare", "settle", "close", "rebuild", "rebuilding"}

\* A writer that keeps its lanes keeps what is said of them.
LEMMA LanesStay ==
    ASSUME NEW w, NEW h, SameLanes(w, h), LanesFit(w),
           h.stage \notin {"off", "open", "second", "ready"},
           InHand(w) => h.stage \in {"dispatched", "prepare", "settle", "close", "aborted"}
    PROVE  LanesFit(h) /\ (InHand(h) <=> InHand(w))
BY DEF LanesFit, SameLanes, InHand

\* It keeps what it knows of the tables, too.
LEMMA LaneFitsStay ==
    ASSUME NEW a, NEW w, NEW h, SameLanes(w, h), LaneFits(a, w),
           w.stage \notin {"off", "aborted", "done"}, h.stage \notin {"open", "second"},
           h.stage \in LoadedStages => w.stage \in LoadedStages
    PROVE  LaneFits(a, h)
BY DEF LaneFits, CurrentWriterFits, SameLanes, LoadedStages

(* One writer moves to the record h, which fits. *)
LEMMA WriterMoves ==
    ASSUME StreamInv, NEW a \in Activations, NEW h \in StreamWriters,
           writer' = [writer EXCEPT ![a] = h],
           UNCHANGED <<leaseVars, durableCall, streamCall, streamTables, published>>,
           WriterFits(h), h.token = writer[a].token, LaneFits(a, h),
           durableCall => DurableFits(a, h) /\ (Speaks(h) => Speaks(writer[a])),
           ~durableCall => PlainFits(a, h)
    PROVE  StreamInv'
<1>1. /\ writer' \in [Activations -> StreamWriters] /\ writer'[a] = h
      /\ \A b \in Activations : b # a => writer'[b] = writer[b]
  BY WriterFacts
<1> QED BY <1>1, LocalStep

\* _next_batch_locked: a byte moves from the buffer to the worker's hands.
LEMMA TakeBatchStep ==
    ASSUME StreamInv, NEW a \in Activations, NEW c \in Channels, TakeBatch(a, c) PROVE StreamInv'
<1>a. PICK w : w = writer[a]
  OBVIOUS
<1>b. PICK h : h = writer'[a]
  OBVIOUS
<1>0. /\ writer \in [Activations -> StreamWriters] /\ w \in StreamWriters
      /\ WriterFits(w) /\ LaneFits(a, w)
      /\ durableCall => DurableFits(a, w)
      /\ ~durableCall => PlainFits(a, w)
  BY <1>a, WriterFacts
<1>1. /\ w.stage \in {"dispatched", "prepare", "settle", "close"}
      /\ w.inflight = "none" /\ ~w.failed /\ w.lane[c].buffer # <<>>
      /\ UNCHANGED <<leaseVars, durableCall, streamCall, streamTables, published>>
  BY <1>a DEF TakeBatch
<1>2. \A b \in Activations : b # a => writer'[b] = writer[b]
  BY <1>0 DEF TakeBatch
<1>3. PICK b : b = Tail(w.lane[c].buffer)
  OBVIOUS
<1>4. b \in Texts /\ Len(b) = Len(w.lane[c].buffer) - 1 /\ \A i \in 1 .. Len(b) : b[i] = w.lane[c].buffer[i+1]
  BY <1>0, <1>1, <1>3, WriterFields DEF Texts
<1>5. writer' \in [Activations -> StreamWriters]
  <2>1. PICK l : l = [w.lane[c] EXCEPT !.buffer = b]
    OBVIOUS
  <2>2. l \in Lanes
    <3>1. w.lane[c] \in Lanes
      BY <1>0, WriterFields
    <3> QED BY <3>1, <1>4, <2>1 DEF Lanes
  <2>3. PICK ls : ls = [w.lane EXCEPT ![c] = l]
    OBVIOUS
  <2>4. ls \in [Channels -> Lanes]
    BY <1>0, <2>2, <2>3, LaneTyped
  <2>5. [w EXCEPT !.inflight = c, !.lane = ls] \in StreamWriters
    BY <1>0, <2>4 DEF StreamWriters
  <2>6. writer' = [writer EXCEPT ![a] = [w EXCEPT !.inflight = c, !.lane = ls]]
    BY <1>a, <1>0, <1>3, <2>1, <2>3 DEF TakeBatch
  <2> QED BY <1>0, <2>5, <2>6
<1>6. /\ h.inflight = c /\ h.lane[c].buffer = b
      /\ \A d \in Channels : /\ h.lane[d].on = w.lane[d].on /\ h.lane[d].reset = w.lane[d].reset
                             /\ h.lane[d].gen = w.lane[d].gen /\ h.lane[d].text = w.lane[d].text
                             /\ d # c => h.lane[d] = w.lane[d]
  BY <1>a, <1>b, <1>0, <1>3, <1>4 DEF TakeBatch, StreamWriters, Lanes
<1>7. /\ h.stage = w.stage /\ h.token = w.token /\ h.noop = w.noop /\ h.broken = w.broken /\ h.failed = w.failed
      /\ h.said = w.said /\ h.outcome = w.outcome /\ h.final = w.final /\ h.sealing = w.sealing
  BY <1>a, <1>b, <1>0, <1>3, <1>4 DEF TakeBatch, StreamWriters, Lanes
<1>8. InHand(w) /\ InHand(h) /\ Speaks(w) /\ Speaks(h)
  BY <1>1, <1>6 DEF InHand, Speaks, Channels
<1>9. (Dispatching(h) <=> Dispatching(w)) /\ (Completes(h) <=> Completes(w)) /\ (Sealing(h) <=> Sealing(w))
  BY <1>7 DEF Dispatching, Completes, Sealing
<1>10. w.lane[c].on
  BY <1>0, <1>1 DEF WriterFits, LanesFit, NoLane
<1>c. "output" \in Channels
  BY DEF Channels
<1>11. WriterFits(h)
  <2>0. LanesFit(w) /\ DispatchFits(w)
    BY <1>0 DEF WriterFits
  <2>1. LanesFit(h)
    <3>1. \A d \in Channels : Of(w.lane[d].buffer, w.token) /\ (IF w.lane[d].on THEN w.lane[d].gen > 0 ELSE w.lane[d] = NoLane)
      BY <2>0 DEF LanesFit
    <3>2. Of(b, h.token)
      <4>1. Of(w.lane[c].buffer, w.token) /\ Len(w.lane[c].buffer) \in Nat
        BY <3>1, <1>0, WriterFields
      <4> QED BY <4>1, <1>4, <1>7 DEF Of
    <3> QED BY <3>1, <3>2, <2>0, <1>1, <1>6, <1>7, <1>8, <1>10 DEF LanesFit
  <2>2. Dispatching(h) /\ ~h.noop /\ ~h.failed /\ ~h.broken => Accounted(h)
    <3>1. Dispatching(w) /\ ~w.noop /\ ~w.failed /\ ~w.broken =>
                w.said["output"] = Len(w.lane["output"].text) + Len(w.lane["output"].buffer) + 0
      <4>1. (IF w.inflight = "output" THEN 1 ELSE 0) = 0
        BY <1>1
      <4>2. Dispatching(w) /\ ~w.noop /\ ~w.failed /\ ~w.broken => Accounted(w)
        BY <2>0 DEF DispatchFits
      <4> QED BY <4>1, <4>2 DEF Accounted
    <3>2. Len(w.lane["output"].text) \in Nat /\ Len(w.lane["output"].buffer) \in Nat
      BY <1>c, <1>0, WriterFields
    <3>3. CASE c = "output"
      <4>1. /\ Len(h.lane["output"].buffer) = Len(w.lane["output"].buffer) - 1
            /\ Len(h.lane["output"].text) = Len(w.lane["output"].text) /\ h.said = w.said
            /\ (IF h.inflight = "output" THEN 1 ELSE 0) = 1
        BY <3>3, <1>c, <1>4, <1>6, <1>7
      <4>2. Len(w.lane["output"].text) + Len(w.lane["output"].buffer) + 0
              = Len(w.lane["output"].text) + (Len(w.lane["output"].buffer) - 1) + 1
        BY <3>2
      <4> QED BY <4>1, <4>2, <3>1, <1>7, <1>9 DEF Accounted
    <3>4. CASE c # "output"
      BY <3>1, <3>2, <3>4, <1>c, <1>6, <1>7, <1>9 DEF Accounted
    <3> QED BY <3>3, <3>4
  <2>3. DispatchFits(h)
    BY <2>0, <2>2, <1>1, <1>6, <1>7, <1>8, <1>9 DEF DispatchFits, LanesFit
  <2>4. ClosingFits(h)
    BY <1>1, <1>7 DEF ClosingFits, Sealing
  <2> QED BY <2>1, <2>3, <2>4 DEF WriterFits
<1>12. LaneFits(a, h)
  BY <1>0, <1>c, <1>6, <1>7 DEF LaneFits, CurrentWriterFits, Channels
<1>13. durableCall => DurableFits(a, h)
  BY <1>0, <1>7, <1>8, <1>9 DEF DurableFits
<1>14. ~durableCall => PlainFits(a, h)
  BY <1>0, <1>1, <1>7, <1>8, <1>9 DEF PlainFits
<1> QED BY <1>a, <1>b, <1>1, <1>2, <1>5, <1>7, <1>8, <1>11, <1>12, <1>13, <1>14, LocalStep

\* The settled answer is recovered.
LEMMA RecoverAnswerStep ==
    ASSUME StreamInv, NEW a \in Activations, RecoverAnswer(a) PROVE StreamInv'
<1>a. PICK w : w = writer[a]
  OBVIOUS
<1>0. /\ writer \in [Activations -> StreamWriters] /\ w \in StreamWriters
      /\ WriterFits(w) /\ LaneFits(a, w) /\ LanesFit(w)
      /\ durableCall => DurableFits(a, w)
  BY <1>a, WriterFacts DEF WriterFits
<1>1. /\ w.stage = "ready" /\ durableCall /\ streamCall.state = "settled"
      /\ UNCHANGED <<leaseVars, durableCall, streamCall, streamTables, published>>
  BY <1>a DEF RecoverAnswer
<1>b. PICK h : h = [w EXCEPT !.stage = "close", !.outcome = "completed", !.final = streamCall.text,
                             !.said = NoWriter.said]
  OBVIOUS
<1>2. writer' = [writer EXCEPT ![a] = h]
  BY <1>a, <1>b, <1>0 DEF RecoverAnswer, Outcome
<1>3. h \in StreamWriters
  <2>1. streamCall.text \in Texts
    BY DEF StreamInv, StreamTypes, StreamCalls
  <2>2. NoWriter.said \in [Channels -> Nat]
    BY DEF NoWriter
  <2> QED BY <1>0, <1>b, <2>1, <2>2 DEF StreamWriters, WriterStages
<1>4. /\ h.stage = "close" /\ h.outcome = "completed" /\ h.final = streamCall.text /\ SameLanes(w, h)
  BY <1>0, <1>b DEF StreamWriters, SameLanes
<1>5. ~InHand(w) /\ ~InHand(h) /\ LanesFit(h)
  BY <1>0, <1>1, <1>4, LanesStay DEF LanesFit
<1>6. WriterFits(h) /\ ~Speaks(h)
  BY <1>4, <1>5 DEF WriterFits, DispatchFits, ClosingFits, Dispatching, Sealing, Completes, Speaks
<1>7. LaneFits(a, h)
  BY <1>0, <1>1, <1>4, LaneFitsStay DEF LoadedStages
<1>8. DurableFits(a, h)
  BY <1>1, <1>4, <1>6 DEF DurableFits, Speaks
<1> QED BY <1>a, <1>1, <1>2, <1>3, <1>4, <1>6, <1>7, <1>8, WriterMoves DEF SameLanes

\* The provider answers.
LEMMA ProviderAnswersStep ==
    ASSUME StreamInv, NEW a \in Activations, NEW n \in 0 .. MaxDeltas, ProviderAnswers(a, n)
    PROVE  StreamInv'
<1>a. PICK w : w = writer[a]
  OBVIOUS
<1>0. /\ writer \in [Activations -> StreamWriters] /\ w \in StreamWriters
      /\ WriterFits(w) /\ LaneFits(a, w) /\ LanesFit(w) /\ DispatchFits(w)
      /\ durableCall => DurableFits(a, w)
      /\ ~durableCall => PlainFits(a, w)
  BY <1>a, WriterFacts DEF WriterFits
<1>1. /\ w.stage = "dispatched"
      /\ UNCHANGED <<leaseVars, durableCall, streamCall, streamTables, published>>
  BY <1>a DEF ProviderAnswers
<1>c. PICK text : text = Bytes(n, w.token)
  OBVIOUS
<1>d. text \in Texts /\ Of(text, w.token)
  BY <1>0, <1>c, WriterFields, StreamBoundsAssumption DEF Bytes, Texts, Of
<1>e. w.said \in [Channels -> Nat] /\ NoWriter.said \in [Channels -> Nat]
  BY <1>0, WriterFields DEF NoWriter
<1>f. PICK h : h = IF durableCall
                   THEN [w EXCEPT !.stage = "prepare", !.outcome = "completed", !.final = text]
                   ELSE [w EXCEPT !.stage = "close", !.outcome = "completed", !.final = text,
                                  !.said = NoWriter.said]
  OBVIOUS
<1>2. writer' = [writer EXCEPT ![a] = h]
  BY <1>a, <1>c, <1>f, <1>0 DEF ProviderAnswers, Outcome
<1>3. h \in StreamWriters
  BY <1>0, <1>d, <1>e, <1>f DEF StreamWriters, WriterStages
<1>4. /\ h.stage = IF durableCall THEN "prepare" ELSE "close"
      /\ h.outcome = "completed" /\ h.final = text /\ h.broken = w.broken /\ SameLanes(w, h)
      /\ durableCall => h.said = w.said
  BY <1>0, <1>f DEF StreamWriters, SameLanes
<1>5. (InHand(h) <=> InHand(w)) /\ LanesFit(h)
  BY <1>0, <1>1, <1>4, LanesStay DEF LanesFit
<1>6. Dispatching(w) /\ (Dispatching(h) <=> durableCall) /\ ~Sealing(h) /\ (Completes(h) <=> ~durableCall)
  BY <1>1, <1>4 DEF Dispatching, Sealing, Completes
<1>7. DispatchFits(h)
  BY <1>0, <1>4, <1>5, <1>6, <1>d DEF DispatchFits, SameLanes, Accounted
<1>8. ClosingFits(h)
  BY <1>4, <1>6 DEF ClosingFits
<1>9. LaneFits(a, h)
  BY <1>0, <1>1, <1>4, LaneFitsStay DEF LoadedStages
<1>10. durableCall => DurableFits(a, h)
  BY <1>0, <1>4, <1>5, <1>6 DEF DurableFits, Speaks, SameLanes
<1>11. ~durableCall => PlainFits(a, h)
  BY <1>0, <1>1, <1>4, <1>5, <1>6, <1>d DEF PlainFits, SameLanes
<1>12. Speaks(w)
  BY <1>6 DEF Speaks
<1> QED BY <1>a, <1>1, <1>2, <1>3, <1>4, <1>5, <1>7, <1>8, <1>9, <1>10, <1>11, <1>12, WriterMoves
        DEF SameLanes, WriterFits

\* prepare_settlement returns with everything flushed.
LEMMA PrepareSettlementStep ==
    ASSUME StreamInv, NEW a \in Activations, PrepareSettlement(a) PROVE StreamInv'
<1>a. PICK w : w = writer[a]
  OBVIOUS
<1>0. /\ writer \in [Activations -> StreamWriters] /\ w \in StreamWriters
      /\ WriterFits(w) /\ LaneFits(a, w) /\ LanesFit(w) /\ DispatchFits(w)
      /\ durableCall => DurableFits(a, w)
      /\ ~durableCall => PlainFits(a, w)
  BY <1>a, WriterFacts DEF WriterFits
<1>1. /\ w.stage = "prepare"
      /\ w.noop \/ (~w.broken /\ w.inflight = "none" /\ ~w.failed
                      /\ \A c \in Channels : w.lane[c].buffer = <<>>)
      /\ UNCHANGED <<leaseVars, durableCall, streamCall, streamTables, published>>
  BY <1>a DEF PrepareSettlement, Flushed
<1>b. PICK h : h = [w EXCEPT !.stage = "settle"]
  OBVIOUS
<1>2. writer' = [writer EXCEPT ![a] = h]
  BY <1>a, <1>b, <1>0 DEF PrepareSettlement, StreamBecomes
<1>3. h \in StreamWriters
  BY <1>0, <1>b DEF StreamWriters, WriterStages
<1>4. /\ h.stage = "settle" /\ h.outcome = w.outcome /\ h.final = w.final /\ h.broken = w.broken
      /\ SameLanes(w, h) /\ h.said = w.said
  BY <1>0, <1>b DEF StreamWriters, SameLanes
<1>5. (InHand(h) <=> InHand(w)) /\ LanesFit(h) /\ (h.noop \/ (~h.broken /\ ~h.failed /\ ~InHand(h)))
  BY <1>0, <1>1, <1>4, LanesStay DEF InHand, SameLanes
<1>6. Dispatching(w) /\ Dispatching(h) /\ ~Sealing(h) /\ ~Completes(h)
  BY <1>1, <1>4 DEF Dispatching, Sealing, Completes
<1>7. DispatchFits(h)
  BY <1>0, <1>1, <1>4, <1>5, <1>6 DEF DispatchFits, SameLanes, Accounted
<1>8. ClosingFits(h)
  BY <1>4, <1>6 DEF ClosingFits
<1>9. LaneFits(a, h)
  BY <1>0, <1>1, <1>4, LaneFitsStay DEF LoadedStages
<1>10. durableCall => DurableFits(a, h)
  BY <1>0, <1>4, <1>5, <1>6 DEF DurableFits, Speaks, SameLanes
<1>11. durableCall
  BY <1>0, <1>1 DEF PlainFits
<1>12. Speaks(w)
  BY <1>6 DEF Speaks
<1> QED BY <1>a, <1>1, <1>2, <1>3, <1>4, <1>5, <1>7, <1>8, <1>9, <1>10, <1>11, <1>12, WriterMoves
        DEF SameLanes, WriterFits

\* close finds everything flushed, and the text the final one or not.
LEMMA CloseStreamStep ==
    ASSUME StreamInv, NEW a \in Activations, CloseStream(a) PROVE StreamInv'
<1>a. PICK w : w = writer[a]
  OBVIOUS
<1>0. /\ writer \in [Activations -> StreamWriters] /\ w \in StreamWriters
      /\ WriterFits(w) /\ LaneFits(a, w) /\ LanesFit(w)
      /\ durableCall => DurableFits(a, w)
      /\ ~durableCall => PlainFits(a, w)
  BY <1>a, WriterFacts DEF WriterFits
<1>1. /\ w.stage = "close" /\ ~w.noop /\ w.inflight = "none" /\ ~w.failed
      /\ \A c \in Channels : w.lane[c].buffer = <<>>
      /\ UNCHANGED <<leaseVars, durableCall, streamCall, streamTables, published>>
  BY <1>a DEF CloseStream, Flushed
<1>b. PICK h : h = [w EXCEPT !.stage = IF w.outcome # "completed" \/ w.lane["output"].text = w.final
                                       THEN "seal" ELSE "rebuild",
                             !.sealing = {c \in Channels : w.lane[c].on}]
  OBVIOUS
<1>2. writer' = [writer EXCEPT ![a] = h]
  BY <1>a, <1>b, <1>0 DEF CloseStream, Reconciled, OnLanes
<1>3. h \in StreamWriters
  BY <1>0, <1>b DEF StreamWriters, WriterStages
<1>4. /\ h.stage = IF w.outcome # "completed" \/ w.lane["output"].text = w.final THEN "seal" ELSE "rebuild"
      /\ h.outcome = w.outcome /\ h.final = w.final /\ h.broken = w.broken
      /\ SameLanes(w, h) /\ h.said = w.said /\ h.sealing = {c \in Channels : w.lane[c].on}
  BY <1>0, <1>b DEF StreamWriters, SameLanes
<1>5. ~InHand(w)
  BY <1>1 DEF InHand
<1>6. ~InHand(h) /\ LanesFit(h)
  BY <1>0, <1>4, <1>5, LanesStay
<1>7. ~Dispatching(h) /\ Sealing(h) /\ (Completes(h) => Completes(w)) /\ ~Speaks(h)
  BY <1>1, <1>4, <1>6 DEF Dispatching, Sealing, Completes, Speaks
<1>8. DispatchFits(h)
  BY <1>4, <1>7 DEF DispatchFits
<1>9. ClosingFits(h)
  BY <1>1, <1>4, <1>7 DEF ClosingFits, SameLanes, Sealing, Completes
<1>10. LaneFits(a, h)
  BY <1>0, <1>1, <1>4, LaneFitsStay DEF LoadedStages
<1>11. durableCall => DurableFits(a, h)
  BY <1>0, <1>4, <1>7 DEF DurableFits
<1>12. ~durableCall => PlainFits(a, h)
  BY <1>0, <1>1, <1>4, <1>6, <1>7 DEF PlainFits, SameLanes
<1> QED BY <1>a, <1>1, <1>2, <1>3, <1>4, <1>6, <1>7, <1>8, <1>9, <1>10, <1>11, <1>12, WriterMoves
        DEF SameLanes, WriterFits

\* The rebuilt text is the final one; a seal takes its snapshot.
LEMMA SealingStep ==
    ASSUME StreamInv, NEW a \in Activations, RebuildEnds(a) \/ SealSnapshot(a) PROVE StreamInv'
<1>a. PICK w : w = writer[a]
  OBVIOUS
<1>0. /\ writer \in [Activations -> StreamWriters] /\ w \in StreamWriters
      /\ WriterFits(w) /\ LaneFits(a, w) /\ LanesFit(w) /\ ClosingFits(w)
      /\ durableCall => DurableFits(a, w)
      /\ ~durableCall => PlainFits(a, w)
  BY <1>a, WriterFacts DEF WriterFits
<1>1. /\ \/ /\ w.stage = "rebuilding"
            /\ w.outcome = "completed" => w.lane["output"].text = w.final
         \/ w.stage = "seal" /\ w.sealing # {}
      /\ UNCHANGED <<leaseVars, durableCall, streamCall, streamTables, published>>
  <2>1. CASE RebuildEnds(a)
    BY <1>a, <2>1 DEF RebuildEnds, Reconciled
  <2>2. CASE SealSnapshot(a)
    BY <1>a, <2>2 DEF SealSnapshot
  <2> QED BY <2>1, <2>2
<1>2. \E h \in StreamWriters :
         /\ writer' = [writer EXCEPT ![a] = h]
         /\ h.stage = (IF w.stage = "seal" THEN "sealing" ELSE "seal")
         /\ h.outcome = w.outcome /\ h.final = w.final /\ SameLanes(w, h) /\ h.sealing = w.sealing
  <2>1. CASE RebuildEnds(a)
    <3>1. PICK h : h = [w EXCEPT !.stage = "seal"]
      OBVIOUS
    <3>2. h \in StreamWriters
      BY <1>0, <3>1 DEF StreamWriters, WriterStages
    <3>3. writer' = [writer EXCEPT ![a] = h] /\ w.stage = "rebuilding"
      BY <1>a, <1>0, <2>1, <3>1 DEF RebuildEnds, StreamBecomes
    <3>4. /\ h.stage = "seal"
          /\ h.outcome = w.outcome /\ h.final = w.final /\ SameLanes(w, h) /\ h.sealing = w.sealing
      BY <1>0, <3>1 DEF StreamWriters, SameLanes
    <3> QED BY <3>2, <3>3, <3>4
  <2>2. CASE SealSnapshot(a)
    <3>0. PICK c \in Channels : c = SealNext(a)
      BY DEF SealNext, Channels
    <3>1. PICK h : h = [w EXCEPT !.stage = "sealing", !.snapshot = Content(c)]
      OBVIOUS
    <3>2. Content(c) \in Texts
      <4>1. SealAccepted(c, w.lane[c].gen, w.lane[c].text) /\ StreamIsCurrent(a)
        BY <1>a, <2>2, <3>0 DEF SealSnapshot
      <4>2. c \in w.sealing /\ w.stage = "seal"
        BY <1>a, <1>0, <2>2, <3>0 DEF SealSnapshot, SealNext, Channels, StreamWriters
      <4>3. w.lane[c].on
        BY <1>0, <4>2 DEF ClosingFits, Sealing
      <4>4. streamHead[c].gen > 0
        BY <1>a, <1>0, <4>1, <4>2, <4>3 DEF LaneFits, CurrentWriterFits, StreamIsCurrent
      <4> QED BY <4>4, ContentIsText DEF StreamInv
    <3>3. h \in StreamWriters
      BY <1>0, <3>1, <3>2 DEF StreamWriters, WriterStages
    <3>4. writer' = [writer EXCEPT ![a] = h] /\ w.stage = "seal"
      BY <1>a, <1>0, <2>2, <3>0, <3>1 DEF SealSnapshot
    <3>5. /\ h.stage = "sealing"
          /\ h.outcome = w.outcome /\ h.final = w.final /\ SameLanes(w, h) /\ h.sealing = w.sealing
      BY <1>0, <3>1 DEF StreamWriters, SameLanes
    <3> QED BY <3>3, <3>4, <3>5
  <2> QED BY <2>1, <2>2
<1>b. PICK h \in StreamWriters :
         /\ writer' = [writer EXCEPT ![a] = h]
         /\ h.stage = (IF w.stage = "seal" THEN "sealing" ELSE "seal")
         /\ h.outcome = w.outcome /\ h.final = w.final /\ SameLanes(w, h) /\ h.sealing = w.sealing
  BY <1>2
<1>4. h.stage \in {"seal", "sealing"}
  BY <1>b
<1>5. ~InHand(w)
  BY <1>0, <1>1 DEF LanesFit
<1>6. ~InHand(h) /\ LanesFit(h)
  BY <1>0, <1>b, <1>4, <1>5, LanesStay
<1>7. ~Dispatching(h) /\ Sealing(h) /\ Sealing(w) /\ (Completes(h) => Completes(w)) /\ ~Speaks(h)
  BY <1>1, <1>b, <1>4, <1>6 DEF Dispatching, Sealing, Completes, Speaks
<1>8. DispatchFits(h)
  BY <1>4, <1>7 DEF DispatchFits
<1>9. ClosingFits(h)
  BY <1>0, <1>1, <1>b, <1>4, <1>7 DEF ClosingFits, SameLanes
<1>10. LaneFits(a, h)
  BY <1>0, <1>1, <1>b, <1>4, LaneFitsStay DEF LoadedStages
<1>11. durableCall => DurableFits(a, h)
  BY <1>0, <1>b, <1>4, <1>7 DEF DurableFits
<1>12. ~durableCall => PlainFits(a, h)
  BY <1>0, <1>1, <1>b, <1>4, <1>6, <1>7 DEF PlainFits, SameLanes
<1> QED BY <1>a, <1>1, <1>b, <1>6, <1>7, <1>8, <1>9, <1>10, <1>11, <1>12, WriterMoves
        DEF SameLanes, WriterFits

-----------------------------------------------------------------------------
(* Steps of the current writer on the tables *)

\* The current writer changes the tables: no other writer knows anything of
\* them that could be disturbed, but what a durable call promises.
LEMMA CurrentStep ==
    ASSUME StreamInv, NEW a \in Activations, StreamIsCurrent(a), UNCHANGED <<leaseVars, durableCall>>,
           streamCall' \in StreamCalls, StoreTypes', StreamTablesFit',
           NEW h \in StreamWriters, writer' = [writer EXCEPT ![a] = h],
           WriterFits(h), h.token = writer[a].token, LaneFits(a, h)',
           durableCall =>
              /\ DurableCallFits' /\ DurableFits(a, h)'
              /\ \A b \in Activations : b # a =>
                    DurableFits(b, writer[b])' /\ (Speaks(h) => ~Speaks(writer[b])),
           ~durableCall => PlainCallFits' /\ PlainFits(a, h)'
    PROVE  StreamInv'
<1>1. /\ writer' \in [Activations -> StreamWriters] /\ writer'[a] = h
      /\ \A b \in Activations : b # a => writer'[b] = writer[b]
  BY WriterFacts
<1>2. \A b \in Activations : LaneFits(b, writer[b])'
  <2> SUFFICES ASSUME NEW b \in Activations PROVE LaneFits(b, writer[b])'
    OBVIOUS
  <2>1. CASE b = a
    BY <2>1, <1>1 DEF LaneFits, CurrentWriterFits, Holds
  <2>2. CASE b # a
    BY <2>2 DEF LaneFits, Holds, StreamIsCurrent, leaseVars
  <2> QED BY <2>1, <2>2
<1>3. durableCall => OneSpeaks'
  <2> SUFFICES ASSUME durableCall, NEW b \in Activations, NEW d \in Activations,
                      Speaks(writer'[b]), Speaks(writer'[d])
               PROVE  b = d
    BY DEF OneSpeaks, Speaks, Dispatching, InHand
  <2> QED BY <1>1 DEF StreamInv, OneSpeaks
<1>4. durableCall => \A b \in Activations : DurableFits(b, writer[b])'
  <2> SUFFICES ASSUME durableCall, NEW b \in Activations PROVE DurableFits(b, writer[b])'
    OBVIOUS
  <2>1. CASE b = a
    BY <2>1, <1>1 DEF DurableFits, Speaks, Dispatching, InHand, Completes, Sealing, Holds
  <2>2. CASE b # a
    BY <2>2
  <2> QED BY <2>1, <2>2
<1>5. ~durableCall => \A b \in Activations : PlainFits(b, writer[b])'
  <2> SUFFICES ASSUME ~durableCall, NEW b \in Activations PROVE PlainFits(b, writer[b])'
    OBVIOUS
  <2>1. CASE b = a
    BY <2>1, <1>1 DEF PlainFits, InHand, Completes, Sealing, Holds, Of
  <2>2. CASE b # a
    <3>1. PlainFits(b, writer[b]) /\ writer'[b] = writer[b] /\ holder' = a /\ holder = a
      BY <2>2, <1>1 DEF StreamInv, StreamIsCurrent, Holds, leaseVars
    <3> QED BY <2>2, <3>1 DEF PlainFits, InHand, Completes, Sealing, Holds, Of
  <2> QED BY <2>1, <2>2
<1> QED BY <1>1, <1>2, <1>3, <1>4, <1>5, StreamStep

(* What another activation knows of a durable call survives a step after which
   no channel shows more than before. *)
LEMMA OthersDurable ==
    ASSUME StreamInv, durableCall, NEW b \in Activations, writer'[b] = writer[b],
           NEW a \in Activations, b # a, StreamIsCurrent(a), UNCHANGED leaseVars, streamCall' = streamCall,
           Speaks(writer[b]) => \A c \in Channels :
              /\ Shows(c, writer[b].token) => Shows(c, writer[b].token)'
              /\ Blank(c) => Blank(c)'
    PROVE  DurableFits(b, writer[b])'
<1>1. DurableFits(b, writer[b]) /\ ~Holds(b, writer[b].token) /\ ~Holds(b, writer[b].token)'
  BY DEF StreamInv, StreamIsCurrent, Holds, leaseVars
<1>2. /\ Speaks(writer[b])' <=> Speaks(writer[b])
      /\ Completes(writer[b])' <=> Completes(writer[b])
      /\ Dispatching(writer[b])' <=> Dispatching(writer[b])
      /\ writer'[b].token = writer[b].token /\ writer'[b].said = writer[b].said
      /\ writer'[b].final = writer[b].final
  BY DEF Speaks, Dispatching, InHand, Completes, Sealing
<1>3. Dispatching(writer[b]) => Speaks(writer[b])
  BY DEF Speaks
<1>4. Speaks(writer[b]) => \A c \in Channels : Shows(c, writer[b].token)' /\ (Blank(c) => Blank(c)')
  BY <1>1 DEF DurableFits
<1>5. NoWriter.said' = NoWriter.said
  BY DEF NoWriter
<1> QED BY <1>1, <1>2, <1>3, <1>4, <1>5 DEF DurableFits

\* A byte of the only visible dispatch is appended.
LEMMA AppendStep ==
    ASSUME StreamInv, NEW a \in Activations, StreamIsCurrent(a),
           UNCHANGED <<leaseVars, durableCall, streamCall, published>>,
           NEW c \in Channels, NEW byte \in Nat, streamHead[c].gen > 0, ~streamHead[c].sealed,
           StoreAppends(c, byte), OneVisible(byte),
           NEW h \in StreamWriters, writer' = [writer EXCEPT ![a] = h],
           WriterFits(h), h.token = writer[a].token, LaneFits(a, h)',
           durableCall =>
              /\ DurableFits(a, h)' /\ streamCall.state # "idle"
              /\ streamCall.state = "settled" => c = "output" /\ streamHead[c].gen > streamCall.streamed
              /\ \A b \in Activations : b # a => ~Speaks(writer[b]),
           ~durableCall => PlainFits(a, h)'
    PROVE  StreamInv'
<1>1. /\ StoreTypes' /\ StreamTablesFit' /\ streamHead' = streamHead
      /\ Content(c)' = Append(Content(c), byte)
      /\ \A g \in 1 .. streamHead[c].gen : g # streamHead[c].gen => chunks'[c][g] = chunks[c][g]
      /\ \A d \in Channels : d # c => chunks'[d] = chunks[d]
  BY AppendEffect DEF StreamInv, OneVisible
<1>2. \A b \in Activations : b # a => writer'[b] = writer[b]
  BY WriterFacts
<1>3. durableCall => \A b \in Activations : b # a => DurableFits(b, writer[b])'
  BY <1>2, OthersDurable
<1>4. ASSUME durableCall PROVE DurableCallFits'
  <2>1. DurableCallFits /\ streamCall.state # "idle" /\ streamCall \in StreamCalls
        /\ streamHead["output"] \in StreamHeads
    BY <1>4 DEF StreamInv, StreamTypes, Channels
  <2>2. streamCall.state = "settled" /\ streamCall.streamed > 0 =>
           chunks'["output"][streamCall.streamed] = chunks["output"][streamCall.streamed]
    BY <1>1, <1>4, <2>1 DEF StreamCalls, StreamHeads
  <2> QED BY <1>1, <2>1, <2>2 DEF DurableCallFits
<1>5. ~durableCall => PlainCallFits'
  BY DEF StreamInv, PlainCallFits
<1>6. streamCall' \in StreamCalls
  BY DEF StreamInv, StreamTypes
<1>7. UNCHANGED <<leaseVars, durableCall>>
  OBVIOUS
<1> QED BY <1>1, <1>3, <1>4, <1>5, <1>6, <1>7, CurrentStep

(* What is in hand belongs to the dispatch everybody sees. *)
LEMMA HandIsVisible ==
    ASSUME StreamInv, NEW a \in Activations, StreamIsCurrent(a), InHand(writer[a]),
           writer[a].stage # "aborted" \/ durableCall
    PROVE  /\ writer[a].token \in Nat /\ OneVisible(writer[a].token)
           /\ durableCall =>
                /\ streamCall.state \in {"started", "doubt"}
                /\ \A b \in Activations : b # a => ~Speaks(writer[b])
<1>1. WriterFits(writer[a]) /\ writer[a].token \in Nat
  BY WriterFacts, WriterFields
<1>2. CASE durableCall
  <2>1. Speaks(writer[a])
    BY DEF Speaks
  <2>2. DurableFits(a, writer[a]) /\ DurableCallFits /\ OneSpeaks
    BY <1>2 DEF StreamInv
  <2>3. /\ streamCall.state \in {"started", "doubt"} /\ streamCall.text = <<>>
        /\ \A c \in Channels : Shows(c, writer[a].token)
    BY <2>1, <2>2 DEF DurableFits, DurableCallFits
  <2>4. OneVisible(writer[a].token)
    BY <2>3 DEF OneVisible, Of
  <2> QED BY <1>1, <2>1, <2>2, <2>3, <2>4 DEF OneSpeaks
<1>3. CASE ~durableCall
  <2>1. PlainFits(a, writer[a]) /\ PlainCallFits
    BY <1>3 DEF StreamInv
  <2>2. ~writer[a].noop
    BY <1>1 DEF WriterFits, LanesFit
  <2>3. \A c \in Channels : Shows(c, writer[a].token)
    BY <2>1, <2>2 DEF PlainFits, StreamIsCurrent
  <2> QED BY <1>1, <1>3, <2>1, <2>3 DEF OneVisible, PlainCallFits, Of
<1> QED BY <1>2, <1>3

(* The lane that the flush worker has taken from. *)
LEMMA LaneInHand ==
    ASSUME StreamInv, NEW a \in Activations, writer[a].inflight # "none",
           NEW c, c = writer[a].inflight
    PROVE  /\ c \in Channels /\ InHand(writer[a]) /\ writer[a].lane[c].on /\ ~writer[a].failed
           /\ writer[a].lane[c].gen > 0 /\ ~writer[a].noop
           /\ writer[a].stage \in {"dispatched", "prepare", "settle", "close", "aborted"}
           /\ writer[a].said = NoWriter.said => ~Dispatching(writer[a])
<1>1. writer[a] \in StreamWriters /\ WriterFits(writer[a])
  BY WriterFacts
<1>2. c \in Channels
  BY <1>1, WriterFields
<1>3. InHand(writer[a])
  BY DEF InHand
<1> QED BY <1>1, <1>2, <1>3 DEF WriterFits, LanesFit, DispatchFits

\* _append, and the worker's cursor moves.
LEMMA FlushBatchStep ==
    ASSUME StreamInv, NEW a \in Activations, FlushBatch(a) PROVE StreamInv'
<1>a. PICK w : w = writer[a]
  OBVIOUS
<1>b. PICK c : c = w.inflight
  OBVIOUS
<1>0. /\ writer \in [Activations -> StreamWriters] /\ w \in StreamWriters
      /\ WriterFits(w) /\ LaneFits(a, w) /\ LanesFit(w) /\ DispatchFits(w)
      /\ durableCall => DurableFits(a, w)
      /\ ~durableCall => PlainFits(a, w)
  BY <1>a, WriterFacts DEF WriterFits
<1>1. /\ c # "none" /\ AppendByte(a, c, w.token) /\ StreamIsCurrent(a)
      /\ UNCHANGED <<leaseVars, durableCall, streamCall, published>>
  BY <1>a, <1>b DEF FlushBatch, AppendByte
<1>2. /\ c \in Channels /\ InHand(w) /\ w.lane[c].on /\ ~w.failed /\ w.lane[c].gen > 0 /\ ~w.noop
      /\ w.stage \in {"dispatched", "prepare", "settle", "close", "aborted"}
      /\ w.said = NoWriter.said => ~Dispatching(w)
  BY <1>1, <1>a, <1>b, LaneInHand
<1>3. PICK text : text = Append(w.lane[c].text, w.token)
  OBVIOUS
<1>4. /\ w.token \in Nat /\ w.lane[c] \in Lanes /\ w.lane[c].text \in Texts
      /\ text \in Texts /\ Len(text) = Len(w.lane[c].text) + 1
      /\ Of(w.lane[c].text, w.token) => Of(text, w.token)
  <2>1. w.token \in Nat /\ w.lane[c] \in Lanes /\ w.lane[c].text \in Texts
    BY <1>0, <1>2, WriterFields
  <2> QED BY <2>1, <1>3 DEF Texts, Of
<1>5. PICK l : l = [w.lane[c] EXCEPT !.text = text]
  OBVIOUS
<1>6. l \in Lanes /\ l.on /\ l.text = text /\ l.gen = w.lane[c].gen /\ l.reset = w.lane[c].reset
      /\ l.buffer = w.lane[c].buffer
  BY <1>2, <1>4, <1>5 DEF Lanes
<1>7. PICK h : h = [w EXCEPT !.inflight = "none", !.lane = [w.lane EXCEPT ![c] = l]]
  OBVIOUS
<1>8. writer' = [writer EXCEPT ![a] = h]
  BY <1>a, <1>b, <1>0, <1>2, <1>3, <1>5, <1>7 DEF FlushBatch
<1>9. h \in StreamWriters
  <2>1. [w.lane EXCEPT ![c] = l] \in [Channels -> Lanes]
    BY <1>0, <1>2, <1>6, LaneTyped
  <2> QED BY <1>0, <1>7, <2>1 DEF StreamWriters
<1>10. /\ h.stage = w.stage /\ h.token = w.token /\ h.noop = w.noop /\ h.broken = w.broken
       /\ h.failed = w.failed /\ h.said = w.said /\ h.outcome = w.outcome /\ h.final = w.final
       /\ h.sealing = w.sealing /\ h.inflight = "none"
       /\ h.lane[c] = l /\ \A d \in Channels : d # c => h.lane[d] = w.lane[d]
  BY <1>0, <1>2, <1>7 DEF StreamWriters
<1>11. /\ InHand(h) => InHand(w)
       /\ Dispatching(h) <=> Dispatching(w)
       /\ Completes(h) <=> Completes(w)
       /\ ~Sealing(h) /\ ~Sealing(w)
  BY <1>2, <1>10 DEF InHand, Dispatching, Completes, Sealing
<1>12. LanesFit(h)
  <2>1. \A d \in Channels :
          /\ Of(h.lane[d].buffer, h.token)
          /\ IF h.lane[d].on THEN h.lane[d].gen > 0 ELSE h.lane[d] = NoLane
          /\ h.inflight # d
    <3> SUFFICES ASSUME NEW d \in Channels
                 PROVE  /\ Of(h.lane[d].buffer, h.token)
                        /\ IF h.lane[d].on THEN h.lane[d].gen > 0 ELSE h.lane[d] = NoLane
                        /\ h.inflight # d
      OBVIOUS
    <3>1. /\ Of(w.lane[d].buffer, w.token)
          /\ IF w.lane[d].on THEN w.lane[d].gen > 0 ELSE w.lane[d] = NoLane
          /\ h.inflight # d
      BY <1>0, <1>10 DEF LanesFit, Channels
    <3> QED BY <3>1, <1>2, <1>6, <1>10
  <2>2. h.stage \notin {"off", "open", "second", "ready"} /\ ~h.noop
    BY <1>2, <1>10
  <2> QED BY <2>1, <2>2, <1>2, <1>10 DEF LanesFit
<1>13. Dispatching(w) /\ ~w.broken => Accounted(h)
  <2> SUFFICES ASSUME Dispatching(w), ~w.broken PROVE Accounted(h)
    OBVIOUS
  <2>1. Accounted(w)
    BY <1>0, <1>2 DEF DispatchFits
  <2>2. "output" \in Channels /\ Len(w.lane["output"].text) \in Nat /\ Len(w.lane["output"].buffer) \in Nat
    BY <1>0, WriterFields DEF Channels
  <2>3. (IF h.inflight = "output" THEN 1 ELSE 0) = 0
    BY <1>10
  <2>4. CASE c = "output"
    <3>1. /\ (IF w.inflight = "output" THEN 1 ELSE 0) = 1 /\ h.said = w.said
          /\ Len(h.lane["output"].text) = Len(w.lane["output"].text) + 1
          /\ Len(h.lane["output"].buffer) = Len(w.lane["output"].buffer)
      BY <2>4, <1>b, <1>4, <1>6, <1>10
    <3>2. Len(w.lane["output"].text) + Len(w.lane["output"].buffer) + 1
            = (Len(w.lane["output"].text) + 1) + Len(w.lane["output"].buffer) + 0
      <4>1. \A m, n \in Nat : m + n + 1 = (m + 1) + n + 0
        OBVIOUS
      <4> QED BY <4>1, <2>2
    <3> QED BY <2>1, <2>3, <3>1, <3>2 DEF Accounted
  <2>5. CASE c # "output"
    <3>1. (IF w.inflight = "output" THEN 1 ELSE 0) = 0 /\ h.said = w.said
          /\ h.lane["output"] = w.lane["output"]
      BY <2>2, <2>5, <1>b, <1>10
    <3> QED BY <2>1, <2>3, <3>1 DEF Accounted
  <2> QED BY <2>4, <2>5
<1>14. DispatchFits(h)
  BY <1>0, <1>2, <1>4, <1>6, <1>10, <1>11, <1>13 DEF DispatchFits
<1>15. ClosingFits(h)
  BY <1>2, <1>10, <1>11 DEF ClosingFits
<1>16. WriterFits(h)
  BY <1>12, <1>14, <1>15 DEF WriterFits
<1>17. ~durableCall => w.stage # "aborted"
  BY <1>0, <1>2 DEF PlainFits
<1>18. /\ OneVisible(w.token)
       /\ durableCall => /\ streamCall.state \in {"started", "doubt"}
                         /\ \A b \in Activations : b # a => ~Speaks(writer[b])
  BY <1>a, <1>1, <1>2, <1>17, HandIsVisible
<1>19. w.lane[c].gen = streamHead[c].gen
  BY <1>1, <1>a DEF AppendByte, AppendAcknowledged, AppendAccepted
<1>20. ASSUME AppendAccepted(c, w.lane[c].gen, Len(w.lane[c].text)), StoreAppends(c, w.token)
       PROVE  StreamInv'
  <2>1. streamHead[c].gen > 0 /\ ~streamHead[c].sealed
    BY <1>2, <1>19, <1>20 DEF AppendAccepted
  <2>2. /\ StreamTablesFit' /\ streamHead' = streamHead
        /\ Content(c)' = Append(Content(c), w.token)
        /\ \A d \in Channels : Shows(d, w.token)'
        /\ \A d \in Channels : d # c => chunks'[d] = chunks[d]
    <3>1. StreamTypes /\ StreamTablesFit
      BY DEF StreamInv
    <3>2. Of(streamCall.text, w.token) /\ \A d \in Channels : Shows(d, w.token)
      BY <1>18 DEF OneVisible
    <3>3. w.token \in Nat /\ streamCall' = streamCall
      BY <1>1, <1>4
    <3> QED BY <2>1, <1>2, <1>20, <3>1, <3>2, <3>3, AppendEffect
  <2>3. LaneFits(a, h)'
    <3> SUFFICES ASSUME Holds(a, h.token), h.stage \notin {"off", "aborted", "done"}
                 PROVE  CurrentWriterFits(h)'
      BY <1>1 DEF LaneFits, Holds, leaseVars
    <3>1. CurrentWriterFits(w)
      BY <1>0, <1>10 DEF LaneFits
    <3>2. h.lane[c].text = Content(c)'
      BY <3>1, <2>2, <1>2, <1>3, <1>6, <1>10 DEF CurrentWriterFits
    <3>3. \A d \in Channels : d # c => Content(d)' = Content(d)
      BY <2>2 DEF Content
    <3> QED BY <3>1, <3>2, <3>3, <2>2, <1>2, <1>6, <1>10 DEF CurrentWriterFits, Channels
  <2>4. durableCall => DurableFits(a, h)'
    BY <2>2, <1>0, <1>1, <1>2, <1>10, <1>11, <1>18 DEF DurableFits, Speaks, Completes
  <2>5. ~durableCall => PlainFits(a, h)'
    BY <2>2, <1>0, <1>1, <1>2, <1>10, <1>11 DEF PlainFits
  <2>6. w.token \in Nat
    BY <1>4
  <2>7. streamCall.state \in {"started", "doubt"} => streamCall.state # "idle" /\ streamCall.state # "settled"
    OBVIOUS
  <2> HIDE DEF Texts
  <2> QED BY <1>a, <1>1, <1>2, <1>8, <1>9, <1>10, <1>16, <1>18, <1>20, <2>1, <2>3, <2>4, <2>5, <2>6, <2>7, AppendStep
<1>21. ASSUME AppendAcknowledged(c, w.lane[c].gen, Len(w.lane[c].text), w.token), UNCHANGED streamTables
       PROVE  StreamInv'
  <2>1. w.stage = "aborted"
    <3> SUFFICES ASSUME w.stage # "aborted" PROVE FALSE
      OBVIOUS
    <3>1. w.lane[c].text = Content(c)
      BY <1>0, <1>1, <1>2, <1>a DEF LaneFits, CurrentWriterFits, StreamIsCurrent
    <3>2. Len(w.lane[c].text) \in Nat
      BY <1>0, <1>2, WriterFields
    <3> QED BY <3>1, <3>2, <1>21 DEF AppendAcknowledged
  <2>2. LaneFits(a, h)
    BY <2>1, <1>10 DEF LaneFits
  <2>3. Speaks(w)
    BY <1>2 DEF Speaks
  <2>4. durableCall => DurableFits(a, h)
    BY <2>3, <1>0, <1>10, <1>11 DEF DurableFits, Speaks, Completes
  <2>5. durableCall
    BY <1>17, <2>1
  <2> QED BY <1>a, <1>1, <1>8, <1>9, <1>10, <1>16, <1>21, <2>2, <2>3, <2>4, <2>5, WriterMoves
<1> QED BY <1>1, <1>20, <1>21, <1>a DEF AppendByte

\* _append reports an error, whatever it did.
LEMMA FlushFailsStep ==
    ASSUME StreamInv, NEW a \in Activations, FlushFails(a) PROVE StreamInv'
<1>a. PICK w : w = writer[a]
  OBVIOUS
<1>b. PICK c : c = w.inflight
  OBVIOUS
<1>0. /\ writer \in [Activations -> StreamWriters] /\ w \in StreamWriters
      /\ WriterFits(w) /\ LaneFits(a, w) /\ LanesFit(w) /\ DispatchFits(w)
      /\ durableCall => DurableFits(a, w)
      /\ ~durableCall => PlainFits(a, w)
  BY <1>a, WriterFacts DEF WriterFits
<1>1. /\ c # "none"
      /\ UNCHANGED streamTables \/ AppendByte(a, c, w.token)
      /\ UNCHANGED <<leaseVars, durableCall, streamCall, published>>
  BY <1>a, <1>b DEF FlushFails
<1>2. /\ c \in Channels /\ InHand(w) /\ w.lane[c].on /\ ~w.failed /\ w.lane[c].gen > 0 /\ ~w.noop
      /\ w.stage \in {"dispatched", "prepare", "settle", "close", "aborted"}
      /\ w.said = NoWriter.said => ~Dispatching(w)
  <2>1. c # "none"
    BY <1>a, <1>b DEF FlushFails
  <2> QED BY <2>1, <1>a, <1>b, LaneInHand
<1>3. w.token \in Nat
  BY <1>0, WriterFields
<1>7. PICK h : h = [w EXCEPT !.inflight = "none", !.failed = TRUE]
  OBVIOUS
<1>8. writer' = [writer EXCEPT ![a] = h]
  BY <1>a, <1>0, <1>7 DEF FlushFails
<1>9. h \in StreamWriters
  BY <1>0, <1>7 DEF StreamWriters
<1>10. /\ h.stage = w.stage /\ h.token = w.token /\ h.noop = w.noop /\ h.broken = w.broken
       /\ h.failed /\ h.said = w.said /\ h.outcome = w.outcome /\ h.final = w.final
       /\ h.sealing = w.sealing /\ h.inflight = "none" /\ h.lane = w.lane
  BY <1>0, <1>7 DEF StreamWriters
<1>11. /\ InHand(h) => InHand(w)
       /\ Dispatching(h) <=> Dispatching(w)
       /\ Completes(h) <=> Completes(w)
       /\ ~Sealing(h) /\ ~Sealing(w)
  BY <1>2, <1>10 DEF InHand, Dispatching, Completes, Sealing
<1>12. LanesFit(h)
  BY <1>0, <1>2, <1>10, <1>11 DEF LanesFit, Channels
<1>14. DispatchFits(h)
  BY <1>0, <1>2, <1>10, <1>11 DEF DispatchFits
<1>15. ClosingFits(h)
  BY <1>2, <1>10, <1>11 DEF ClosingFits
<1>16. WriterFits(h)
  BY <1>12, <1>14, <1>15 DEF WriterFits
<1>17. ~durableCall => w.stage # "aborted"
  BY <1>0, <1>2 DEF PlainFits
<1>18. Speaks(w)
  BY <1>2 DEF Speaks
<1>20. ASSUME AppendAccepted(c, w.lane[c].gen, Len(w.lane[c].text)), StoreAppends(c, w.token),
              StreamIsCurrent(a)
       PROVE  StreamInv'
  <2>0. /\ OneVisible(w.token)
        /\ durableCall => /\ streamCall.state \in {"started", "doubt"}
                          /\ \A b \in Activations : b # a => ~Speaks(writer[b])
    BY <1>a, <1>2, <1>17, <1>20, HandIsVisible
  <2>1. streamHead[c].gen > 0 /\ ~streamHead[c].sealed
    BY <1>2, <1>20 DEF AppendAccepted
  <2>2. /\ streamHead' = streamHead
        /\ \A d \in Channels : Shows(d, w.token)'
    <3>1. StreamTypes /\ StreamTablesFit
      BY DEF StreamInv
    <3>2. Of(streamCall.text, w.token) /\ \A d \in Channels : Shows(d, w.token)
      BY <2>0 DEF OneVisible
    <3> QED BY <2>1, <1>1, <1>2, <1>3, <1>20, <3>1, <3>2, AppendEffect
  <2>3. LaneFits(a, h)'
    <3> SUFFICES ASSUME Holds(a, h.token), h.stage \notin {"off", "aborted", "done"}
                 PROVE  CurrentWriterFits(h)'
      BY <1>1 DEF LaneFits, Holds, leaseVars
    <3>1. CurrentWriterFits(w)
      BY <1>0, <1>10 DEF LaneFits
    <3> QED BY <3>1, <2>2, <1>10 DEF CurrentWriterFits
  <2>4. durableCall => DurableFits(a, h)'
    BY <2>0, <2>2, <1>0, <1>1, <1>2, <1>10, <1>11 DEF DurableFits, Speaks, Completes
  <2>5. ~durableCall => PlainFits(a, h)'
    BY <2>2, <1>0, <1>1, <1>2, <1>10, <1>11 DEF PlainFits
  <2>7. streamCall.state \in {"started", "doubt"} => streamCall.state # "idle" /\ streamCall.state # "settled"
    OBVIOUS
  <2> QED BY <1>a, <1>1, <1>2, <1>3, <1>8, <1>9, <1>10, <1>16, <1>20, <2>0, <2>1, <2>3, <2>4, <2>5, <2>7,
             AppendStep
<1>21. ASSUME UNCHANGED streamTables PROVE StreamInv'
  <2>1. LaneFits(a, h)
    BY <1>0, <1>10 DEF LaneFits, CurrentWriterFits
  <2>2. durableCall => DurableFits(a, h)
    BY <1>18, <1>0, <1>10, <1>11 DEF DurableFits, Speaks
  <2>3. ~durableCall => PlainFits(a, h)
    BY <1>0, <1>10, <1>11 DEF PlainFits
  <2> QED BY <1>a, <1>1, <1>8, <1>9, <1>10, <1>16, <1>18, <1>21, <2>1, <2>2, <2>3, WriterMoves
<1> QED BY <1>1, <1>20, <1>21, <1>a DEF AppendByte

\* _reconcile_completed_output appends the next byte of the final text.
LEMMA RebuildByteStep ==
    ASSUME StreamInv, NEW a \in Activations, RebuildByte(a) PROVE StreamInv'
<1>a. PICK w : w = writer[a]
  OBVIOUS
<1>b. PICK c : c = "output"
  OBVIOUS
<1>0. /\ writer \in [Activations -> StreamWriters] /\ w \in StreamWriters
      /\ WriterFits(w) /\ LaneFits(a, w) /\ LanesFit(w) /\ ClosingFits(w)
      /\ durableCall => DurableFits(a, w)
      /\ ~durableCall => PlainFits(a, w)
  BY <1>a, WriterFacts DEF WriterFits
<1>c. PICK next : next = Len(w.lane[c].text) + 1
  OBVIOUS
<1>d. PICK byte : byte = w.final[next]
  OBVIOUS
<1>1. /\ w.stage = "rebuilding" /\ next <= Len(w.final) /\ AppendByte(a, c, byte) /\ StreamIsCurrent(a)
      /\ UNCHANGED <<leaseVars, durableCall, streamCall, published>>
  BY <1>a, <1>b, <1>c, <1>d DEF RebuildByte, AppendByte
<1>2. /\ c \in Channels /\ w.lane[c].on /\ ~w.failed /\ ~w.noop /\ Sealing(w) /\ Completes(w) /\ ~InHand(w)
      /\ ~Dispatching(w) /\ CurrentWriterFits(w)
  <2>1. "output" \in Channels
    BY DEF Channels
  <2>2. /\ Sealing(w) /\ ~w.noop /\ ~w.failed /\ Completes(w) /\ ~InHand(w) /\ ~Dispatching(w)
    BY <1>0, <1>1 DEF ClosingFits, Sealing, LanesFit, Dispatching
  <2>3. CurrentWriterFits(w)
    BY <1>0, <1>1, <1>a DEF LaneFits, StreamIsCurrent
  <2> QED BY <2>1, <2>2, <2>3, <1>1, <1>b DEF CurrentWriterFits
<1>3. PICK text : text = Append(w.lane[c].text, byte)
  OBVIOUS
<1>4. /\ next \in 1 .. Len(w.final) /\ byte \in Nat /\ w.lane[c] \in Lanes /\ w.lane[c].text \in Texts
      /\ text \in Texts
  <2>1. w.lane[c] \in Lanes /\ w.lane[c].text \in Texts /\ w.final \in Texts /\ Len(w.lane[c].text) \in Nat
    BY <1>0, <1>2, WriterFields
  <2>2. next \in 1 .. Len(w.final)
    BY <2>1, <1>1, <1>c DEF Texts
  <2>3. byte \in Nat
    BY <2>1, <2>2, <1>d DEF Texts
  <2> QED BY <2>1, <2>2, <2>3, <1>3 DEF Texts
<1>5. PICK l : l = [w.lane[c] EXCEPT !.text = text]
  OBVIOUS
<1>6. l \in Lanes /\ l.on /\ l.text = text /\ l.gen = w.lane[c].gen /\ l.reset = w.lane[c].reset
      /\ l.buffer = w.lane[c].buffer
  BY <1>2, <1>4, <1>5 DEF Lanes
<1>7. PICK h : h = [w EXCEPT !.lane = [w.lane EXCEPT ![c] = l]]
  OBVIOUS
<1>8. writer' = [writer EXCEPT ![a] = h]
  BY <1>a, <1>b, <1>c, <1>d, <1>0, <1>2, <1>3, <1>5, <1>7 DEF RebuildByte
<1>9. h \in StreamWriters
  <2>1. [w.lane EXCEPT ![c] = l] \in [Channels -> Lanes]
    BY <1>0, <1>2, <1>6, LaneTyped
  <2> QED BY <1>0, <1>7, <2>1 DEF StreamWriters
<1>10. /\ h.stage = w.stage /\ h.token = w.token /\ h.noop = w.noop /\ h.broken = w.broken
       /\ h.failed = w.failed /\ h.said = w.said /\ h.outcome = w.outcome /\ h.final = w.final
       /\ h.sealing = w.sealing /\ h.inflight = w.inflight
       /\ h.lane[c] = l /\ \A d \in Channels : d # c => h.lane[d] = w.lane[d]
  BY <1>0, <1>2, <1>7 DEF StreamWriters
<1>11. ~InHand(h) /\ ~Dispatching(h) /\ Completes(h) /\ Sealing(h) /\ ~Speaks(h)
  BY <1>2, <1>6, <1>10 DEF InHand, Dispatching, Completes, Sealing, Speaks
<1>12. LanesFit(h)
  <2>1. \A d \in Channels :
          /\ Of(h.lane[d].buffer, h.token)
          /\ IF h.lane[d].on THEN h.lane[d].gen > 0 ELSE h.lane[d] = NoLane
          /\ h.inflight # d
    <3> SUFFICES ASSUME NEW d \in Channels
                 PROVE  /\ Of(h.lane[d].buffer, h.token)
                        /\ IF h.lane[d].on THEN h.lane[d].gen > 0 ELSE h.lane[d] = NoLane
                        /\ h.inflight # d
      OBVIOUS
    <3>1. /\ Of(w.lane[d].buffer, w.token)
          /\ IF w.lane[d].on THEN w.lane[d].gen > 0 ELSE w.lane[d] = NoLane
          /\ w.inflight # d
      BY <1>0, <1>2 DEF LanesFit, InHand, Channels
    <3> QED BY <3>1, <1>2, <1>6, <1>10
  <2> QED BY <2>1, <1>1, <1>2, <1>10, <1>11 DEF LanesFit
<1>14. DispatchFits(h)
  BY <1>1, <1>10, <1>11 DEF DispatchFits
<1>15. ClosingFits(h)
  <2>1. \A d \in h.sealing : h.lane[d].on
    <3>1. w.sealing \subseteq Channels /\ \A d \in w.sealing : w.lane[d].on
      BY <1>0, <1>2, WriterFields DEF ClosingFits
    <3> QED BY <3>1, <1>6, <1>10
  <2> QED BY <2>1, <1>1, <1>2, <1>10, <1>11 DEF ClosingFits
<1>16. WriterFits(h)
  BY <1>12, <1>14, <1>15 DEF WriterFits
<1>17. w.lane[c].gen = streamHead[c].gen /\ streamHead[c].gen > 0 /\ w.lane[c].text = Content(c)
  BY <1>2 DEF CurrentWriterFits
<1>18. /\ OneVisible(byte)
       /\ durableCall => /\ streamCall.state = "settled" /\ streamHead[c].gen > streamCall.streamed
                         /\ \A b \in Activations : b # a => ~Speaks(writer[b])
  <2>1. CASE durableCall
    <3>1. /\ streamCall.state = "settled" /\ w.final = streamCall.text
          /\ streamHead[c].gen > streamCall.streamed
      BY <2>1, <1>0, <1>1, <1>2, <1>a, <1>b DEF DurableFits, StreamIsCurrent
    <3>2. \A b \in Activations : ~Speaks(writer[b])
      BY <2>1, <3>1 DEF StreamInv, DurableFits
    <3>3. PICK k \in Nat : OneVisible(k)
      BY DEF StreamInv, StreamTablesFit
    <3>4. byte = k
      BY <3>1, <3>3, <1>4, <1>d DEF OneVisible, Of
    <3> QED BY <3>1, <3>2, <3>3, <3>4
  <2>2. CASE ~durableCall
    <3>1. Of(w.final, w.token) /\ \A d \in Channels : Shows(d, w.token)
      BY <2>2, <1>0, <1>1, <1>2, <1>a DEF PlainFits, StreamIsCurrent
    <3>2. byte = w.token
      BY <3>1, <1>4, <1>d DEF Of
    <3>3. streamCall.text = <<>>
      BY <2>2 DEF StreamInv, PlainCallFits
    <3> QED BY <2>2, <3>1, <3>2, <3>3 DEF OneVisible, Of
  <2> QED BY <2>1, <2>2
<1>20. AppendAccepted(c, w.lane[c].gen, Len(w.lane[c].text)) /\ StoreAppends(c, byte)
  <2>1. ~AppendAcknowledged(c, w.lane[c].gen, Len(w.lane[c].text), byte)
    <3>1. Len(w.lane[c].text) \in Nat
      BY <1>0, <1>2, WriterFields
    <3> QED BY <3>1, <1>17 DEF AppendAcknowledged
  <2> QED BY <2>1, <1>1, <1>a DEF AppendByte
<1>21. ~streamHead[c].sealed
  BY <1>20 DEF AppendAccepted
<1>22. /\ streamHead' = streamHead
       /\ Content(c)' = Append(Content(c), byte)
       /\ \A d \in Channels : Shows(d, byte)'
       /\ \A d \in Channels : d # c => chunks'[d] = chunks[d]
  <2>1. StreamTypes /\ StreamTablesFit
    BY DEF StreamInv
  <2>2. Of(streamCall.text, byte) /\ \A d \in Channels : Shows(d, byte)
    BY <1>18 DEF OneVisible
  <2> QED BY <2>1, <2>2, <1>1, <1>2, <1>4, <1>17, <1>20, <1>21, AppendEffect
<1>23. LaneFits(a, h)'
  <2>1. h.lane[c].text = Content(c)'
    BY <1>3, <1>6, <1>10, <1>17, <1>22
  <2>2. \A d \in Channels : d # c => Content(d)' = Content(d)
    BY <1>22 DEF Content
  <2>3. CurrentWriterFits(h)'
    BY <2>1, <2>2, <1>1, <1>2, <1>6, <1>10, <1>17, <1>22 DEF CurrentWriterFits, Channels
  <2> QED BY <2>3 DEF LaneFits
<1>24. durableCall => DurableFits(a, h)'
  BY <1>0, <1>1, <1>2, <1>10, <1>11, <1>18, <1>22, <1>b DEF DurableFits
<1>25. ~durableCall => PlainFits(a, h)'
  <2> SUFFICES ASSUME ~durableCall PROVE PlainFits(a, h)'
    OBVIOUS
  <2>1. /\ Of(w.final, w.token) /\ \A d \in Channels : Shows(d, w.token)
    BY <1>0, <1>1, <1>2, <1>a DEF PlainFits, StreamIsCurrent
  <2>2. byte = w.token
    BY <2>1, <1>4, <1>d DEF Of
  <2> QED BY <2>1, <2>2, <1>1, <1>10, <1>11, <1>22 DEF PlainFits, Of
<1>26. streamCall.state = "settled" => streamCall.state # "idle"
  OBVIOUS
<1> QED BY <1>a, <1>b, <1>1, <1>2, <1>4, <1>8, <1>9, <1>10, <1>11, <1>16, <1>17, <1>18, <1>20, <1>21, <1>23,
           <1>24, <1>25, <1>26, AppendStep

\* A channel that nobody speaks into moves to a new generation; nothing
\* published is lost by it.
LEMMA ResetStep ==
    ASSUME StreamInv, NEW a \in Activations, StreamIsCurrent(a),
           UNCHANGED <<leaseVars, durableCall, streamCall, published>>,
           NEW c \in Channels, streamHead[c].gen > 0, StoreResets(c),
           NEW h \in StreamWriters, writer' = [writer EXCEPT ![a] = h],
           WriterFits(h), h.token = writer[a].token, LaneFits(a, h)', ~Speaks(h),
           durableCall =>
              /\ DurableFits(a, h)'
              /\ streamCall.state = "settled" /\ c = "output" =>
                    ~streamHead[c].sealed \/ streamHead[c].final # streamCall.text,
           ~durableCall => PlainFits(a, h)'
    PROVE  StreamInv'
<1>1. /\ StoreTypes' /\ StreamTablesFit'
      /\ streamHead'[c].gen = streamHead[c].gen + 1 /\ Content(c)' = <<>>
      /\ \A g \in 1 .. streamHead[c].gen : chunks'[c][g] = chunks[c][g]
      /\ \A d \in Channels : d # c => streamHead'[d] = streamHead[d] /\ chunks'[d] = chunks[d]
  BY ResetEffect DEF StreamInv
<1>2. \A b \in Activations : b # a => writer'[b] = writer[b]
  BY WriterFacts
<1>3. \A d \in Channels : (Blank(d) => Blank(d)') /\ \A k \in Nat : Shows(d, k) => Shows(d, k)'
  <2> SUFFICES ASSUME NEW d \in Channels
               PROVE  (Blank(d) => Blank(d)') /\ \A k \in Nat : Shows(d, k) => Shows(d, k)'
    OBVIOUS
  <2>1. CASE d = c
    BY <2>1, <1>1 DEF Blank, Shows, Of
  <2>2. CASE d # c
    BY <2>2, <1>1, ChannelKept
  <2> QED BY <2>1, <2>2
<1>4. \A b \in Activations : writer[b].token \in Nat
  BY WriterFacts, WriterFields
<1>5. durableCall => \A b \in Activations : b # a => DurableFits(b, writer[b])'
  BY <1>2, <1>3, <1>4, OthersDurable
<1>6. ASSUME durableCall PROVE DurableCallFits'
  <2>1. DurableCallFits /\ streamCall \in StreamCalls /\ "output" \in Channels
        /\ streamHead["output"] \in StreamHeads /\ streamHead[c] \in StreamHeads
    BY <1>6 DEF StreamInv, StreamTypes, Channels
  <2>2. streamCall'.state = "idle" => \A d \in Channels : Blank(d)'
    BY <1>3, <2>1 DEF DurableCallFits
  <2>3. streamCall'.state # "settled" => streamCall'.text = <<>> /\ published' = {}
    BY <2>1 DEF DurableCallFits
  <2>4. ASSUME streamCall.state = "settled"
        PROVE  /\ streamCall.streamed <= streamHead'["output"].gen
               /\ streamCall.streamed > 0 => chunks'["output"][streamCall.streamed] = streamCall.said
               /\ published # {} =>
                     /\ published = {streamCall.text}
                     /\ streamHead'["output"].sealed /\ streamHead'["output"].final = streamCall.text
    <3>1. /\ streamCall.streamed <= streamHead["output"].gen
          /\ streamCall.streamed > 0 => chunks["output"][streamCall.streamed] = streamCall.said
          /\ published # {} =>
                     /\ published = {streamCall.text}
                     /\ streamHead["output"].sealed /\ streamHead["output"].final = streamCall.text
          /\ streamCall.streamed \in Nat /\ streamHead["output"].gen \in Nat
      BY <2>1, <2>4 DEF DurableCallFits, StreamCalls, StreamHeads
    <3>2. CASE c = "output"
      <4>1. published = {}
        BY <3>1, <3>2, <1>6, <2>4
      <4>2. streamCall.streamed > 0 => chunks'["output"][streamCall.streamed] = chunks["output"][streamCall.streamed]
        BY <3>1, <3>2, <1>1
      <4> QED BY <4>1, <4>2, <3>1, <3>2, <1>1
    <3>3. CASE c # "output"
      BY <3>1, <3>3, <1>1, <2>1
    <3> QED BY <3>2, <3>3
  <2> QED BY <2>2, <2>3, <2>4 DEF DurableCallFits
<1>7. ~durableCall => PlainCallFits'
  BY DEF StreamInv, PlainCallFits
<1>8. streamCall' \in StreamCalls
  BY DEF StreamInv, StreamTypes
<1> QED BY <1>1, <1>5, <1>6, <1>7, <1>8, CurrentStep

\* _reconcile_completed_output starts a new generation: what is in the old
\* one is not the final text, so it was not published.
LEMMA RebuildStartsStep ==
    ASSUME StreamInv, NEW a \in Activations, RebuildStarts(a) PROVE StreamInv'
<1>a. PICK w : w = writer[a]
  OBVIOUS
<1>b. PICK c : c = "output"
  OBVIOUS
<1>0. /\ writer \in [Activations -> StreamWriters] /\ w \in StreamWriters
      /\ WriterFits(w) /\ LaneFits(a, w) /\ LanesFit(w) /\ ClosingFits(w)
      /\ durableCall => DurableFits(a, w)
      /\ ~durableCall => PlainFits(a, w)
  BY <1>a, WriterFacts DEF WriterFits
<1>1. /\ w.stage = "rebuild" /\ StreamIsCurrent(a) /\ StoreResets(c)
      /\ UNCHANGED <<leaseVars, durableCall, streamCall, published>>
  BY <1>a, <1>b DEF RebuildStarts
<1>2. /\ c \in Channels /\ w.lane[c].on /\ ~w.failed /\ ~w.noop /\ Sealing(w) /\ Completes(w) /\ ~InHand(w)
      /\ ~Dispatching(w) /\ CurrentWriterFits(w) /\ w.lane[c].text # w.final
  <2>1. "output" \in Channels
    BY DEF Channels
  <2>2. /\ Sealing(w) /\ ~w.noop /\ ~w.failed /\ Completes(w) /\ ~InHand(w) /\ ~Dispatching(w)
        /\ w.lane["output"].text # w.final
    BY <1>0, <1>1 DEF ClosingFits, Sealing, LanesFit, Dispatching
  <2>3. CurrentWriterFits(w)
    BY <1>0, <1>1, <1>a DEF LaneFits, StreamIsCurrent
  <2> QED BY <2>1, <2>2, <2>3, <1>1, <1>b DEF CurrentWriterFits
<1>3. /\ w.lane[c].gen = streamHead[c].gen /\ streamHead[c].gen > 0 /\ w.lane[c].text = Content(c)
      /\ w.lane["reasoning"].on \/ streamHead["reasoning"].gen = 0
      /\ \A d \in Channels : w.lane[d].on =>
            w.lane[d].gen = streamHead[d].gen /\ streamHead[d].gen > 0 /\ w.lane[d].text = Content(d)
  BY <1>1, <1>2 DEF CurrentWriterFits
<1>4. PICK gen : gen = streamHead'[c].gen
  OBVIOUS
<1>5. /\ gen = streamHead[c].gen + 1 /\ Content(c)' = <<>> /\ gen \in Nat /\ gen > 0
      /\ \A d \in Channels : d # c => streamHead'[d] = streamHead[d] /\ chunks'[d] = chunks[d]
  <2>1. streamHead[c] \in StreamHeads /\ StreamTypes /\ StreamTablesFit
    BY <1>2 DEF StreamInv, StreamTypes
  <2>2. /\ gen = streamHead[c].gen + 1 /\ Content(c)' = <<>>
        /\ \A d \in Channels : d # c => streamHead'[d] = streamHead[d] /\ chunks'[d] = chunks[d]
    BY <2>1, <1>1, <1>2, <1>3, <1>4, ResetEffect
  <2> QED BY <2>1, <2>2 DEF StreamHeads
<1>6. PICK l : l = [w.lane[c] EXCEPT !.text = <<>>, !.gen = gen]
  OBVIOUS
<1>7. l \in Lanes /\ l.on /\ l.text = <<>> /\ l.gen = gen /\ l.buffer = w.lane[c].buffer
  <2>1. <<>> \in Texts /\ w.lane[c] \in Lanes
    BY <1>0, <1>2, WriterFields DEF Texts
  <2> QED BY <2>1, <1>2, <1>5, <1>6 DEF Lanes
<1>n. PICK hs : hs = [w.lane EXCEPT ![c] = l]
  OBVIOUS
<1>8. PICK h : h = [w EXCEPT !.stage = "rebuilding", !.lane = hs]
  OBVIOUS
<1>k. hs \in [Channels -> Lanes] /\ hs[c] = l /\ \A d \in Channels : d # c => hs[d] = w.lane[d]
  BY <1>0, <1>2, <1>7, <1>n, WriterFields
<1>9. writer' = [writer EXCEPT ![a] = h]
  BY <1>a, <1>b, <1>0, <1>4, <1>6, <1>n, <1>8 DEF RebuildStarts, StreamWriters
<1>10. h \in StreamWriters
  BY <1>0, <1>8, <1>k DEF StreamWriters, WriterStages
<1>11. /\ h.stage = "rebuilding" /\ h.token = w.token /\ h.noop = w.noop /\ h.broken = w.broken
       /\ h.failed = w.failed /\ h.said = w.said /\ h.outcome = w.outcome /\ h.final = w.final
       /\ h.sealing = w.sealing /\ h.inflight = w.inflight
       /\ h.lane[c] = l /\ \A d \in Channels : d # c => h.lane[d] = w.lane[d]
  BY <1>0, <1>2, <1>8, <1>k DEF StreamWriters
<1>12. ~InHand(h) /\ ~Dispatching(h) /\ Completes(h) /\ Sealing(h) /\ ~Speaks(h)
  BY <1>2, <1>7, <1>11 DEF InHand, Dispatching, Completes, Sealing, Speaks
<1>13. LanesFit(h)
  <2>1. \A d \in Channels :
          /\ Of(h.lane[d].buffer, h.token)
          /\ IF h.lane[d].on THEN h.lane[d].gen > 0 ELSE h.lane[d] = NoLane
          /\ h.inflight # d
    <3> SUFFICES ASSUME NEW d \in Channels
                 PROVE  /\ Of(h.lane[d].buffer, h.token)
                        /\ IF h.lane[d].on THEN h.lane[d].gen > 0 ELSE h.lane[d] = NoLane
                        /\ h.inflight # d
      OBVIOUS
    <3>1. /\ Of(w.lane[d].buffer, w.token)
          /\ IF w.lane[d].on THEN w.lane[d].gen > 0 ELSE w.lane[d] = NoLane
          /\ w.inflight # d
      BY <1>0, <1>2 DEF LanesFit, InHand, Channels
    <3> QED BY <3>1, <1>2, <1>5, <1>7, <1>11
  <2> QED BY <2>1, <1>1, <1>2, <1>11, <1>12 DEF LanesFit
<1>14. ClosingFits(h)
  <2>1. \A d \in h.sealing : h.lane[d].on
    <3>1. w.sealing \subseteq Channels /\ \A d \in w.sealing : w.lane[d].on
      BY <1>0, <1>2, WriterFields DEF ClosingFits
    <3> QED BY <3>1, <1>7, <1>11
  <2> QED BY <2>1, <1>2, <1>11, <1>12 DEF ClosingFits
<1>15. WriterFits(h)
  BY <1>11, <1>12, <1>13, <1>14 DEF WriterFits, DispatchFits
<1>16. LaneFits(a, h)'
  <2>1. \A d \in Channels : d # c => Content(d)' = Content(d)
    BY <1>5 DEF Content
  <2>2. CurrentWriterFits(h)'
    <3>1. \A d \in Channels : h.lane[d].on =>
             /\ h.lane[d].gen = streamHead'[d].gen /\ streamHead'[d].gen > 0
             /\ h.lane[d].text = Content(d)'
      <4> SUFFICES ASSUME NEW d \in Channels, h.lane[d].on
                   PROVE  /\ h.lane[d].gen = streamHead'[d].gen /\ streamHead'[d].gen > 0
                          /\ h.lane[d].text = Content(d)'
        OBVIOUS
      <4>1. CASE d = c
        BY <4>1, <1>4, <1>5, <1>7, <1>11
      <4>2. CASE d # c
        BY <4>2, <2>1, <1>3, <1>5, <1>11
      <4> QED BY <4>1, <4>2
    <3>2. h.lane["output"].on /\ (h.lane["reasoning"].on \/ streamHead'["reasoning"].gen = 0)
      BY <1>b, <1>3, <1>5, <1>7, <1>11 DEF Channels
    <3> QED BY <3>1, <3>2, <1>11 DEF CurrentWriterFits
  <2> QED BY <2>2 DEF LaneFits
<1>17. ASSUME durableCall
       PROVE  /\ DurableFits(a, h)'
              /\ streamCall.state = "settled" /\ c = "output" =>
                    ~streamHead[c].sealed \/ streamHead[c].final # streamCall.text
  <2>1. streamCall.state = "settled" /\ w.final = streamCall.text
    BY <1>0, <1>2, <1>17 DEF DurableFits
  <2>2. /\ streamCall.streamed <= streamHead[c].gen /\ streamCall.streamed \in Nat
        /\ streamHead[c].gen \in Nat
    BY <2>1, <1>b, <1>2, <1>17 DEF StreamInv, DurableCallFits, StreamTypes, StreamCalls, StreamHeads
  <2>3. DurableFits(a, h)'
    BY <2>1, <2>2, <1>b, <1>1, <1>4, <1>5, <1>11, <1>12 DEF DurableFits
  <2>4. streamHead[c].sealed => Content(c) = streamHead[c].final
    BY <1>2, <1>3, ContentIsText DEF StreamInv, StreamTablesFit, ChannelFits
  <2> QED BY <2>1, <2>3, <2>4, <1>2, <1>3
<1>18. ~durableCall => PlainFits(a, h)'
  <2> SUFFICES ASSUME ~durableCall PROVE PlainFits(a, h)'
    OBVIOUS
  <2>1. /\ Of(w.final, w.token) /\ \A d \in Channels : Shows(d, w.token)
    BY <1>0, <1>1, <1>2, <1>a DEF PlainFits, StreamIsCurrent
  <2>2. \A d \in Channels : Shows(d, w.token)'
    <3> SUFFICES ASSUME NEW d \in Channels PROVE Shows(d, w.token)'
      OBVIOUS
    <3>1. CASE d = c
      BY <3>1, <1>5 DEF Shows, Of
    <3>2. CASE d # c
      BY <3>2, <1>5, <2>1, ChannelKept
    <3> QED BY <3>1, <3>2
  <2> QED BY <2>1, <2>2, <1>11, <1>12 DEF PlainFits, Of
<1> QED BY <1>a, <1>1, <1>2, <1>3, <1>9, <1>10, <1>11, <1>12, <1>15, <1>16, <1>17, <1>18, ResetStep

\* A channel is created.
LEMMA OpenStep ==
    ASSUME StreamInv, NEW a \in Activations, StreamIsCurrent(a),
           UNCHANGED <<leaseVars, durableCall, streamCall, published>>,
           NEW c \in Channels, streamHead[c] = NoHead, StoreOpens(c),
           c = "reasoning" => streamHead["output"].gen > 0,
           NEW h \in StreamWriters, writer' = [writer EXCEPT ![a] = h],
           WriterFits(h), h.token = writer[a].token, LaneFits(a, h)',
           Speaks(h) => Speaks(writer[a]),
           durableCall => DurableFits(a, h)',
           ~durableCall => PlainFits(a, h)'
    PROVE  StreamInv'
<1>0. streamHead[c].gen = 0 /\ ~streamHead[c].sealed
  BY DEF NoHead
<1>1. /\ StoreTypes' /\ StreamTablesFit'
      /\ streamHead'[c].gen = 1 /\ Content(c)' = <<>>
      /\ \A d \in Channels : d # c => streamHead'[d] = streamHead[d] /\ chunks'[d] = chunks[d]
  BY <1>0, OpenEffect DEF StreamInv
<1>2. \A b \in Activations : b # a => writer'[b] = writer[b]
  BY WriterFacts
<1>3. \A d \in Channels : (Blank(d) => Blank(d)') /\ \A k \in Nat : Shows(d, k) => Shows(d, k)'
  <2> SUFFICES ASSUME NEW d \in Channels
               PROVE  (Blank(d) => Blank(d)') /\ \A k \in Nat : Shows(d, k) => Shows(d, k)'
    OBVIOUS
  <2>1. CASE d = c
    BY <2>1, <1>1 DEF Blank, Shows, Of
  <2>2. CASE d # c
    BY <2>2, <1>1, ChannelKept
  <2> QED BY <2>1, <2>2
<1>4. \A b \in Activations : writer[b].token \in Nat
  BY WriterFacts, WriterFields
<1>5. durableCall => \A b \in Activations : b # a => DurableFits(b, writer[b])'
  BY <1>2, <1>3, <1>4, OthersDurable
<1>6. ASSUME durableCall PROVE DurableCallFits'
  <2>1. DurableCallFits /\ streamCall \in StreamCalls /\ "output" \in Channels
        /\ streamHead["output"] \in StreamHeads
    BY <1>6 DEF StreamInv, StreamTypes, Channels
  <2>2. streamCall'.state = "idle" => \A d \in Channels : Blank(d)'
    BY <1>3, <2>1 DEF DurableCallFits
  <2>3. streamCall'.state # "settled" => streamCall'.text = <<>> /\ published' = {}
    BY <2>1 DEF DurableCallFits
  <2>4. ASSUME streamCall.state = "settled"
        PROVE  /\ streamCall.streamed <= streamHead'["output"].gen
               /\ streamCall.streamed > 0 => chunks'["output"][streamCall.streamed] = streamCall.said
               /\ published # {} =>
                     /\ published = {streamCall.text}
                     /\ streamHead'["output"].sealed /\ streamHead'["output"].final = streamCall.text
    <3>1. /\ streamCall.streamed <= streamHead["output"].gen
          /\ streamCall.streamed > 0 => chunks["output"][streamCall.streamed] = streamCall.said
          /\ published # {} =>
                     /\ published = {streamCall.text}
                     /\ streamHead["output"].sealed /\ streamHead["output"].final = streamCall.text
          /\ streamCall.streamed \in Nat
      BY <2>1, <2>4 DEF DurableCallFits, StreamCalls
    <3>2. CASE c = "output"
      BY <3>1, <3>2, <1>0, <1>1
    <3>3. CASE c # "output"
      BY <3>1, <3>3, <1>1, <2>1
    <3> QED BY <3>2, <3>3
  <2> QED BY <2>2, <2>3, <2>4 DEF DurableCallFits
<1>7. ~durableCall => PlainCallFits'
  BY DEF StreamInv, PlainCallFits
<1>8. streamCall' \in StreamCalls
  BY DEF StreamInv, StreamTypes
<1>9. \A b \in Activations : b # a /\ durableCall => (Speaks(h) => ~Speaks(writer[b]))
  BY DEF StreamInv, OneSpeaks
<1> QED BY <1>1, <1>5, <1>6, <1>7, <1>8, <1>9, CurrentStep

(* A lane that the current writer opens. *)
LEMMA LaneOpens ==
    ASSUME StreamInv, NEW a \in Activations, NEW w, w = writer[a], StreamIsCurrent(a),
           UNCHANGED <<leaseVars, durableCall, streamCall, published>>,
           NEW c \in Channels, ~w.lane[c].on, streamHead[c] = NoHead, StoreOpens(c),
           NEW stage,
           \/ w.stage = "open" /\ c = "output" /\ stage = "ready"
           \/ w.stage = "second" /\ c = "reasoning" /\ stage = "ready"
           \/ w.stage = "dispatched" /\ c = "reasoning" /\ stage = "dispatched" /\ ~w.noop,
           writer' = [writer EXCEPT ![a].stage = stage,
                                    ![a].lane[c] = [NoLane EXCEPT !.on = TRUE, !.gen = 1]]
    PROVE  StreamInv'
<1>0. /\ writer \in [Activations -> StreamWriters] /\ w \in StreamWriters
      /\ WriterFits(w) /\ LaneFits(a, w) /\ LanesFit(w) /\ DispatchFits(w)
      /\ durableCall => DurableFits(a, w)
      /\ ~durableCall => PlainFits(a, w)
  BY WriterFacts DEF WriterFits
<1>1. CurrentWriterFits(w)
  BY <1>0 DEF LaneFits, StreamIsCurrent
<1>2. PICK l : l = [NoLane EXCEPT !.on = TRUE, !.gen = 1]
  OBVIOUS
<1>3. /\ l \in Lanes /\ l.on /\ ~l.reset /\ l.gen = 1 /\ l.text = <<>> /\ l.buffer = <<>>
  <2>1. <<>> \in Texts
    BY DEF Texts
  <2> QED BY <2>1, <1>2 DEF NoLane, Lanes
<1>4. PICK hs : hs = [w.lane EXCEPT ![c] = l]
  OBVIOUS
<1>5. hs \in [Channels -> Lanes] /\ hs[c] = l /\ \A d \in Channels : d # c => hs[d] = w.lane[d]
  BY <1>0, <1>3, <1>4, WriterFields
<1>6. PICK h : h = [w EXCEPT !.stage = stage, !.lane = hs]
  OBVIOUS
<1>7. writer' = [writer EXCEPT ![a] = h]
  BY <1>0, <1>2, <1>4, <1>6 DEF StreamWriters
<1>8. h \in StreamWriters
  BY <1>0, <1>5, <1>6 DEF StreamWriters, WriterStages
<1>9. /\ h.stage = stage /\ h.token = w.token /\ h.noop = w.noop /\ h.broken = w.broken
      /\ h.failed = w.failed /\ h.said = w.said /\ h.outcome = w.outcome /\ h.final = w.final
      /\ h.sealing = w.sealing /\ h.inflight = w.inflight
      /\ h.lane[c] = l /\ \A d \in Channels : d # c => h.lane[d] = w.lane[d]
  BY <1>0, <1>5, <1>6 DEF StreamWriters
<1>10. /\ w.lane[c] = NoLane /\ w.lane[c].buffer = <<>> /\ w.inflight # c
  BY <1>0 DEF LanesFit, NoLane
<1>11. /\ InHand(h) <=> InHand(w)
       /\ Dispatching(h) <=> Dispatching(w)
       /\ ~Completes(h) /\ ~Sealing(h)
       /\ Speaks(h) <=> Speaks(w)
  <2>1. InHand(h) <=> InHand(w)
    BY <1>3, <1>9, <1>10 DEF InHand
  <2> QED BY <2>1, <1>9 DEF Dispatching, Completes, Sealing, Speaks
<1>12. LanesFit(h)
  <2>1. \A d \in Channels :
          /\ Of(h.lane[d].buffer, h.token)
          /\ IF h.lane[d].on THEN h.lane[d].gen > 0 ELSE h.lane[d] = NoLane
          /\ h.inflight = d => h.lane[d].on /\ ~h.failed
    <3> SUFFICES ASSUME NEW d \in Channels
                 PROVE  /\ Of(h.lane[d].buffer, h.token)
                        /\ IF h.lane[d].on THEN h.lane[d].gen > 0 ELSE h.lane[d] = NoLane
                        /\ h.inflight = d => h.lane[d].on /\ ~h.failed
      OBVIOUS
    <3>1. CASE d = c
      BY <3>1, <1>3, <1>9, <1>10 DEF Of
    <3>2. CASE d # c
      BY <3>2, <1>0, <1>9 DEF LanesFit
    <3> QED BY <3>1, <3>2
  <2>2. InHand(h) => ~h.noop /\ h.stage = "dispatched"
    BY <1>0, <1>9, <1>11 DEF LanesFit
  <2>3. h.stage = "ready" =>
          /\ ~h.failed /\ ~h.broken /\ h.outcome = "none" /\ h.said = NoWriter.said
          /\ \A d \in Channels : h.lane[d].on /\ ~h.lane[d].reset => h.lane[d].text = <<>>
    BY <1>0, <1>3, <1>9 DEF LanesFit
  <2> QED BY <2>1, <2>2, <2>3, <1>9 DEF LanesFit
<1>13. DispatchFits(h)
  <2>1. Dispatching(h) => /\ \A d \in Channels : ~h.lane[d].reset /\ Of(h.lane[d].text, h.token)
                          /\ h.lane["output"] = w.lane["output"]
    BY <1>0, <1>3, <1>9, <1>11 DEF DispatchFits, Of, Dispatching, Channels
  <2> QED BY <2>1, <1>0, <1>9, <1>11 DEF DispatchFits, Accounted
<1>14. ClosingFits(h)
  BY <1>9, <1>11 DEF ClosingFits
<1>15. c = "reasoning" => streamHead["output"].gen > 0
  BY <1>1 DEF CurrentWriterFits, Channels
<1>16. /\ StreamTablesFit' /\ streamHead'[c].gen = 1 /\ Content(c)' = <<>>
       /\ \A d \in Channels : d # c => streamHead'[d] = streamHead[d] /\ chunks'[d] = chunks[d]
  BY <1>15, OpenEffect DEF StreamInv, NoHead
<1>17. LaneFits(a, h)'
  <2>1. \A d \in Channels : d # c => Content(d)' = Content(d)
    BY <1>16 DEF Content
  <2>2. \A d \in Channels : h.lane[d].on =>
             /\ h.lane[d].gen = streamHead'[d].gen /\ streamHead'[d].gen > 0
             /\ ~h.failed => h.lane[d].text = Content(d)'
    <3> SUFFICES ASSUME NEW d \in Channels, h.lane[d].on
                 PROVE  /\ h.lane[d].gen = streamHead'[d].gen /\ streamHead'[d].gen > 0
                        /\ ~h.failed => h.lane[d].text = Content(d)'
      OBVIOUS
    <3>1. CASE d = c
      BY <3>1, <1>3, <1>9, <1>16
    <3>2. CASE d # c
      BY <3>2, <2>1, <1>1, <1>9, <1>16 DEF CurrentWriterFits
    <3> QED BY <3>1, <3>2
  <2>3. h.lane["output"].on /\ (h.lane["reasoning"].on \/ streamHead'["reasoning"].gen = 0)
    <3>1. CASE c = "output"
      <4>1. streamHead["reasoning"].gen = 0
        BY <3>1 DEF StreamInv, StreamTypes, StreamTablesFit, StreamHeads, NoHead, Channels
      <4> QED BY <4>1, <3>1, <1>3, <1>9, <1>16 DEF Channels
    <3>2. CASE c = "reasoning"
      BY <3>2, <1>1, <1>3, <1>9 DEF CurrentWriterFits, Channels
    <3> QED BY <3>1, <3>2 DEF Channels
  <2>4. CurrentWriterFits(h)'
    BY <2>2, <2>3, <1>9 DEF CurrentWriterFits
  <2> QED BY <2>4 DEF LaneFits
<1>18. \A d \in Channels : (Blank(d) => Blank(d)') /\ (Shows(d, w.token) => Shows(d, w.token)')
  <2> SUFFICES ASSUME NEW d \in Channels
               PROVE  (Blank(d) => Blank(d)') /\ (Shows(d, w.token) => Shows(d, w.token)')
    OBVIOUS
  <2>1. CASE d = c
    BY <2>1, <1>16 DEF Blank, Shows, Of
  <2>2. CASE d # c
    BY <2>2, <1>16, ChannelKept
  <2> QED BY <2>1, <2>2
<1>19. durableCall => DurableFits(a, h)'
  BY <1>0, <1>9, <1>11, <1>18 DEF DurableFits
<1>20. ~durableCall => PlainFits(a, h)'
  BY <1>0, <1>9, <1>11, <1>18 DEF PlainFits, Holds, leaseVars
<1> QED BY <1>7, <1>8, <1>9, <1>11, <1>12, <1>13, <1>14, <1>15, <1>17, <1>19, <1>20, OpenStep DEF WriterFits

(* A lane that the current writer finds and loads. *)
LEMMA LaneHydrates ==
    ASSUME StreamInv, NEW a \in Activations, NEW w, w = writer[a], StreamIsCurrent(a),
           UNCHANGED <<leaseVars, durableCall, streamCall, streamTables, published>>,
           NEW c \in Channels, ~w.lane[c].on, streamHead[c] # NoHead,
           NEW stage,
           \/ w.stage = "open" /\ c = "output" /\ stage = "second"
           \/ w.stage = "second" /\ c = "reasoning" /\ stage = "ready",
           writer' = [writer EXCEPT ![a].stage = stage,
                                    ![a].lane[c] = [NoLane EXCEPT !.on = TRUE, !.reset = TRUE,
                                                                  !.gen = streamHead[c].gen,
                                                                  !.text = Content(c)]]
    PROVE  StreamInv'
<1>0. /\ writer \in [Activations -> StreamWriters] /\ w \in StreamWriters
      /\ WriterFits(w) /\ LaneFits(a, w) /\ LanesFit(w)
      /\ durableCall => DurableFits(a, w)
      /\ ~durableCall => PlainFits(a, w)
  BY WriterFacts DEF WriterFits
<1>1. CurrentWriterFits(w)
  BY <1>0 DEF LaneFits, StreamIsCurrent
<1>a. /\ streamHead[c].gen \in Nat /\ streamHead[c].gen > 0 /\ Content(c) \in Texts
  <2>1. StreamTypes /\ StreamTablesFit /\ streamHead[c] \in StreamHeads
    BY DEF StreamInv, StreamTypes
  <2>2. streamHead[c].gen \in Nat /\ streamHead[c].gen > 0
    BY <2>1 DEF StreamTablesFit, ChannelFits, StreamHeads
  <2> QED BY <2>1, <2>2, ContentIsText
<1>2. PICK l : l = [NoLane EXCEPT !.on = TRUE, !.reset = TRUE, !.gen = streamHead[c].gen,
                                  !.text = Content(c)]
  OBVIOUS
<1>3. /\ l \in Lanes /\ l.on /\ l.reset /\ l.gen = streamHead[c].gen /\ l.text = Content(c)
      /\ l.buffer = <<>>
  <2>1. <<>> \in Texts
    BY DEF Texts
  <2> QED BY <2>1, <1>a, <1>2 DEF NoLane, Lanes
<1>4. PICK hs : hs = [w.lane EXCEPT ![c] = l]
  OBVIOUS
<1>5. hs \in [Channels -> Lanes] /\ hs[c] = l /\ \A d \in Channels : d # c => hs[d] = w.lane[d]
  BY <1>0, <1>3, <1>4, WriterFields
<1>6. PICK h : h = [w EXCEPT !.stage = stage, !.lane = hs]
  OBVIOUS
<1>7. writer' = [writer EXCEPT ![a] = h]
  BY <1>0, <1>2, <1>4, <1>6 DEF StreamWriters
<1>8. h \in StreamWriters
  BY <1>0, <1>5, <1>6 DEF StreamWriters, WriterStages
<1>9. /\ h.stage = stage /\ h.token = w.token /\ h.noop = w.noop /\ h.broken = w.broken
      /\ h.failed = w.failed /\ h.said = w.said /\ h.outcome = w.outcome /\ h.final = w.final
      /\ h.sealing = w.sealing /\ h.inflight = w.inflight
      /\ h.lane[c] = l /\ \A d \in Channels : d # c => h.lane[d] = w.lane[d]
  BY <1>0, <1>5, <1>6 DEF StreamWriters
<1>10. /\ ~InHand(w) /\ w.lane[c] = NoLane
  BY <1>0 DEF LanesFit
<1>11. ~InHand(h) /\ ~Dispatching(h) /\ ~Completes(h) /\ ~Sealing(h) /\ ~Speaks(h)
  <2>1. ~InHand(h)
    BY <1>3, <1>9, <1>10 DEF InHand
  <2> QED BY <2>1, <1>9 DEF Dispatching, Completes, Sealing, Speaks
<1>12. LanesFit(h)
  <2>1. \A d \in Channels :
          /\ Of(h.lane[d].buffer, h.token)
          /\ IF h.lane[d].on THEN h.lane[d].gen > 0 ELSE h.lane[d] = NoLane
          /\ h.inflight # d
    <3> SUFFICES ASSUME NEW d \in Channels
                 PROVE  /\ Of(h.lane[d].buffer, h.token)
                        /\ IF h.lane[d].on THEN h.lane[d].gen > 0 ELSE h.lane[d] = NoLane
                        /\ h.inflight # d
      OBVIOUS
    <3>0. h.inflight # d
      BY <1>11 DEF InHand, Channels
    <3>1. CASE d = c
      BY <3>0, <3>1, <1>a, <1>3, <1>9 DEF Of
    <3>2. CASE d # c
      BY <3>0, <3>2, <1>0, <1>9 DEF LanesFit
    <3> QED BY <3>1, <3>2
  <2>3. /\ ~h.failed /\ ~h.broken /\ h.outcome = "none" /\ h.said = NoWriter.said
        /\ \A d \in Channels : h.lane[d].on /\ ~h.lane[d].reset => h.lane[d].text = <<>>
    BY <1>0, <1>3, <1>9 DEF LanesFit
  <2> QED BY <2>1, <2>3, <1>11 DEF LanesFit
<1>13. WriterFits(h)
  BY <1>9, <1>11, <1>12 DEF WriterFits, DispatchFits, ClosingFits
<1>17. LaneFits(a, h)
  <2>2. \A d \in Channels : h.lane[d].on =>
             /\ h.lane[d].gen = streamHead[d].gen /\ streamHead[d].gen > 0
             /\ ~h.failed => h.lane[d].text = Content(d)
    BY <1>1, <1>a, <1>3, <1>9 DEF CurrentWriterFits
  <2>3. /\ h.stage = "second" => h.lane["output"].on /\ ~h.lane["reasoning"].on
        /\ h.stage = "ready" => h.lane["output"].on /\ h.lane["reasoning"].on
    BY <1>1, <1>3, <1>9 DEF CurrentWriterFits, Channels
  <2> QED BY <2>2, <2>3, <1>9 DEF LaneFits, CurrentWriterFits
<1>19. durableCall => DurableFits(a, h)
  BY <1>11 DEF DurableFits
<1>20. ~durableCall => PlainFits(a, h)
  BY <1>9, <1>11 DEF PlainFits
<1> QED BY <1>7, <1>8, <1>9, <1>11, <1>13, <1>17, <1>19, <1>20, WriterMoves

\* _ensure_lane, of the output lane and of the reasoning lane.
LEMMA OpenLaneStep ==
    ASSUME StreamInv, NEW a \in Activations, OpenOutput(a) \/ OpenReasoning(a) PROVE StreamInv'
<1>1. CASE OpenOutput(a)
  <2>1. /\ writer[a].stage = "open" /\ "output" \in Channels /\ StreamIsCurrent(a)
        /\ ~writer[a].lane["output"].on
        /\ UNCHANGED <<leaseVars, durableCall, streamCall, published>>
    BY <1>1 DEF OpenOutput, EnsureLane, Channels
  <2>2. CASE streamHead["output"] = NoHead
    <3>1. /\ StoreOpens("output")
          /\ writer' = [writer EXCEPT ![a].stage = "ready",
                                      ![a].lane["output"] = [NoLane EXCEPT !.on = TRUE, !.gen = 1]]
      BY <1>1, <2>2 DEF OpenOutput, EnsureLane
    <3> QED BY <2>1, <2>2, <3>1, LaneOpens
  <2>3. CASE streamHead["output"] # NoHead
    <3>1. /\ UNCHANGED streamTables
          /\ writer' = [writer EXCEPT ![a].stage = "second",
                                      ![a].lane["output"] = [NoLane EXCEPT !.on = TRUE, !.reset = TRUE,
                                                                    !.gen = streamHead["output"].gen,
                                                                    !.text = Content("output")]]
      BY <1>1, <2>3 DEF OpenOutput, EnsureLane
    <3> QED BY <2>1, <2>3, <3>1, LaneHydrates
  <2> QED BY <2>2, <2>3
<1>2. CASE OpenReasoning(a)
  <2>1. /\ writer[a].stage = "second" /\ "reasoning" \in Channels /\ StreamIsCurrent(a)
        /\ ~writer[a].lane["reasoning"].on
        /\ UNCHANGED <<leaseVars, durableCall, streamCall, published>>
    BY <1>2 DEF OpenReasoning, EnsureLane, Channels
  <2>2. CASE streamHead["reasoning"] = NoHead
    <3>1. /\ StoreOpens("reasoning")
          /\ writer' = [writer EXCEPT ![a].stage = "ready",
                                      ![a].lane["reasoning"] = [NoLane EXCEPT !.on = TRUE, !.gen = 1]]
      BY <1>2, <2>2 DEF OpenReasoning, EnsureLane
    <3> QED BY <2>1, <2>2, <3>1, LaneOpens
  <2>3. CASE streamHead["reasoning"] # NoHead
    <3>1. /\ UNCHANGED streamTables
          /\ writer' = [writer EXCEPT ![a].stage = "ready",
                                      ![a].lane["reasoning"] = [NoLane EXCEPT !.on = TRUE, !.reset = TRUE,
                                                                    !.gen = streamHead["reasoning"].gen,
                                                                    !.text = Content("reasoning")]]
      BY <1>2, <2>3 DEF OpenReasoning, EnsureLane
    <3> QED BY <2>1, <2>3, <3>1, LaneHydrates
  <2> QED BY <2>2, <2>3
<1> QED BY <1>1, <1>2

(* A lane of an earlier execution, before the dispatch. *)
LEMMA LaneToReset ==
    ASSUME StreamInv, NEW a \in Activations, NEW c \in Channels, NEW w, w = writer[a],
           w.stage = "ready", w.lane[c].reset
    PROVE  /\ w.lane[c].on /\ w.lane[c].gen > 0 /\ w.lane[c].gen \in Nat
           /\ ~InHand(w) /\ ~Dispatching(w) /\ ~Sealing(w) /\ ~Completes(w) /\ ~Speaks(w)
<1>1. w \in StreamWriters /\ WriterFits(w) /\ LanesFit(w)
  BY WriterFacts DEF WriterFits
<1>2. w.lane[c].on /\ w.lane[c].gen > 0 /\ ~InHand(w)
  BY <1>1 DEF LanesFit, NoLane
<1> QED BY <1>1, <1>2, WriterFields DEF Dispatching, Sealing, Completes, Speaks

\* begin_dispatch moves a lane of an earlier execution to a new generation.
LEMMA ResetLaneStep ==
    ASSUME StreamInv, NEW a \in Activations, NEW c \in Channels, ResetLane(a, c) PROVE StreamInv'
<1>a. PICK w : w = writer[a]
  OBVIOUS
<1>0. /\ writer \in [Activations -> StreamWriters] /\ w \in StreamWriters
      /\ WriterFits(w) /\ LaneFits(a, w) /\ LanesFit(w)
  BY <1>a, WriterFacts DEF WriterFits
<1>1. /\ w.stage = "ready" /\ w.lane[c].reset /\ StreamIsCurrent(a) /\ StoreResets(c)
      /\ durableCall => streamCall.state = "idle"
      /\ streamHead[c].gen = w.lane[c].gen
      /\ UNCHANGED <<leaseVars, durableCall, streamCall, published>>
  BY <1>a DEF ResetLane, ResetAccepted
<1>2. /\ w.lane[c].on /\ streamHead[c].gen > 0 /\ streamHead[c].gen \in Nat
      /\ ~InHand(w) /\ ~Dispatching(w) /\ CurrentWriterFits(w)
  <2>1. w.lane[c].on /\ w.lane[c].gen > 0 /\ w.lane[c].gen \in Nat /\ ~InHand(w) /\ ~Dispatching(w)
    BY <1>1, <1>a, LaneToReset
  <2>2. CurrentWriterFits(w)
    BY <1>0, <1>1, <1>a DEF LaneFits, StreamIsCurrent
  <2> QED BY <2>1, <2>2, <1>1
<1>4. PICK gen : gen = streamHead'[c].gen
  OBVIOUS
<1>5. /\ gen = streamHead[c].gen + 1 /\ Content(c)' = <<>> /\ gen \in Nat /\ gen > 0
      /\ \A d \in Channels : d # c => streamHead'[d] = streamHead[d] /\ chunks'[d] = chunks[d]
  <2>1. StreamTypes /\ StreamTablesFit
    BY DEF StreamInv
  <2>2. /\ gen = streamHead[c].gen + 1 /\ Content(c)' = <<>>
        /\ \A d \in Channels : d # c => streamHead'[d] = streamHead[d] /\ chunks'[d] = chunks[d]
    BY <2>1, <1>1, <1>2, <1>4, ResetEffect
  <2> QED BY <2>2, <1>2
<1>6. PICK l : l = [w.lane[c] EXCEPT !.reset = FALSE, !.text = <<>>, !.gen = gen]
  OBVIOUS
<1>7. /\ l \in Lanes /\ l.on /\ ~l.reset /\ l.text = <<>> /\ l.gen = gen
      /\ l.buffer = w.lane[c].buffer
  <2>1. <<>> \in Texts /\ w.lane[c] \in Lanes
    BY <1>0, WriterFields DEF Texts
  <2> QED BY <2>1, <1>2, <1>5, <1>6 DEF Lanes
<1>n. PICK hs : hs = [w.lane EXCEPT ![c] = l]
  OBVIOUS
<1>8. PICK h : h = [w EXCEPT !.lane = hs]
  OBVIOUS
<1>k. hs \in [Channels -> Lanes] /\ hs[c] = l /\ \A d \in Channels : d # c => hs[d] = w.lane[d]
  BY <1>0, <1>7, <1>n, WriterFields
<1>9. writer' = [writer EXCEPT ![a] = h]
  BY <1>a, <1>0, <1>4, <1>6, <1>n, <1>8 DEF ResetLane, StreamWriters
<1>10. h \in StreamWriters
  BY <1>0, <1>8, <1>k DEF StreamWriters
<1>11. /\ h.stage = "ready" /\ h.token = w.token /\ h.noop = w.noop /\ h.broken = w.broken
       /\ h.failed = w.failed /\ h.said = w.said /\ h.outcome = w.outcome /\ h.final = w.final
       /\ h.sealing = w.sealing /\ h.inflight = w.inflight
       /\ h.lane[c] = l /\ \A d \in Channels : d # c => h.lane[d] = w.lane[d]
  BY <1>0, <1>1, <1>8, <1>k DEF StreamWriters
<1>12. ~InHand(h) /\ ~Dispatching(h) /\ ~Completes(h) /\ ~Sealing(h) /\ ~Speaks(h)
  <2>1. ~InHand(h)
    BY <1>2, <1>7, <1>11 DEF InHand
  <2> QED BY <2>1, <1>11 DEF Dispatching, Completes, Sealing, Speaks
<1>13. LanesFit(h)
  <2>1. \A d \in Channels :
          /\ Of(h.lane[d].buffer, h.token)
          /\ IF h.lane[d].on THEN h.lane[d].gen > 0 ELSE h.lane[d] = NoLane
          /\ h.inflight # d
    <3> SUFFICES ASSUME NEW d \in Channels
                 PROVE  /\ Of(h.lane[d].buffer, h.token)
                        /\ IF h.lane[d].on THEN h.lane[d].gen > 0 ELSE h.lane[d] = NoLane
                        /\ h.inflight # d
      OBVIOUS
    <3>1. /\ Of(w.lane[d].buffer, w.token)
          /\ IF w.lane[d].on THEN w.lane[d].gen > 0 ELSE w.lane[d] = NoLane
          /\ w.inflight # d
      BY <1>0, <1>2 DEF LanesFit, InHand, Channels
    <3> QED BY <3>1, <1>5, <1>7, <1>11
  <2>2. /\ ~h.failed /\ ~h.broken /\ h.outcome = "none" /\ h.said = NoWriter.said
        /\ \A d \in Channels : h.lane[d].on /\ ~h.lane[d].reset => h.lane[d].text = <<>>
    BY <1>0, <1>1, <1>7, <1>11 DEF LanesFit
  <2> QED BY <2>1, <2>2, <1>12 DEF LanesFit
<1>15. WriterFits(h)
  BY <1>11, <1>12, <1>13 DEF WriterFits, DispatchFits, ClosingFits
<1>16. LaneFits(a, h)'
  <2>1. \A d \in Channels : d # c => Content(d)' = Content(d)
    BY <1>5 DEF Content
  <2>2. \A d \in Channels : h.lane[d].on =>
             /\ h.lane[d].gen = streamHead'[d].gen /\ streamHead'[d].gen > 0
             /\ ~h.failed => h.lane[d].text = Content(d)'
    <3> SUFFICES ASSUME NEW d \in Channels, h.lane[d].on
                 PROVE  /\ h.lane[d].gen = streamHead'[d].gen /\ streamHead'[d].gen > 0
                        /\ ~h.failed => h.lane[d].text = Content(d)'
      OBVIOUS
    <3>1. CASE d = c
      BY <3>1, <1>4, <1>5, <1>7, <1>11
    <3>2. CASE d # c
      BY <3>2, <2>1, <1>2, <1>5, <1>11 DEF CurrentWriterFits
    <3> QED BY <3>1, <3>2
  <2>3. ~h.noop => h.lane["output"].on /\ (h.lane["reasoning"].on \/ streamHead'["reasoning"].gen = 0)
    BY <1>1, <1>2, <1>5, <1>7, <1>11 DEF CurrentWriterFits, Channels
  <2>4. CurrentWriterFits(h)'
    BY <2>2, <2>3, <1>11 DEF CurrentWriterFits
  <2> QED BY <2>4 DEF LaneFits
<1>17. durableCall => DurableFits(a, h)'
  BY <1>12 DEF DurableFits
<1>18. ~durableCall => PlainFits(a, h)'
  BY <1>11, <1>12 DEF PlainFits
<1> QED BY <1>a, <1>1, <1>2, <1>9, <1>10, <1>11, <1>12, <1>15, <1>16, <1>17, <1>18, ResetStep

\* The reset reports an error, whatever it did: the writer is aborted.
LEMMA ResetFailsStep ==
    ASSUME StreamInv, NEW a \in Activations, NEW c \in Channels, ResetFails(a, c) PROVE StreamInv'
<1>a. PICK w : w = writer[a]
  OBVIOUS
<1>0. /\ writer \in [Activations -> StreamWriters] /\ w \in StreamWriters
      /\ WriterFits(w) /\ LaneFits(a, w) /\ LanesFit(w)
  BY <1>a, WriterFacts DEF WriterFits
<1>1. /\ w.stage = "ready" /\ w.lane[c].reset
      /\ durableCall => streamCall.state = "idle"
      /\ \/ UNCHANGED streamTables
         \/ StreamIsCurrent(a) /\ streamHead[c].gen = w.lane[c].gen /\ StoreResets(c)
      /\ UNCHANGED <<leaseVars, durableCall, streamCall, published>>
  BY <1>a DEF ResetFails, ResetAccepted
<1>2. w.lane[c].on /\ w.lane[c].gen > 0 /\ ~InHand(w)
  BY <1>1, <1>a, LaneToReset
<1>3. PICK h : h = [w EXCEPT !.stage = "aborted"]
  OBVIOUS
<1>4. writer' = [writer EXCEPT ![a] = h]
  BY <1>a, <1>0, <1>3 DEF ResetFails, StreamBecomes
<1>5. h \in StreamWriters
  BY <1>0, <1>3 DEF StreamWriters, WriterStages
<1>6. h.stage = "aborted" /\ SameLanes(w, h)
  BY <1>0, <1>3 DEF StreamWriters, SameLanes
<1>7. ~InHand(h) /\ LanesFit(h)
  BY <1>0, <1>2, <1>6, LanesStay
<1>8. ~Dispatching(h) /\ ~Completes(h) /\ ~Sealing(h) /\ ~Speaks(h)
  BY <1>6, <1>7 DEF Dispatching, Completes, Sealing, Speaks
<1>9. WriterFits(h)
  BY <1>6, <1>7, <1>8 DEF WriterFits, DispatchFits, ClosingFits
<1>10. LaneFits(a, h) /\ LaneFits(a, h)'
  BY <1>6 DEF LaneFits
<1>11. DurableFits(a, h) /\ DurableFits(a, h)'
  BY <1>8 DEF DurableFits
<1>12. PlainFits(a, h) /\ PlainFits(a, h)'
  BY <1>6, <1>7, <1>8 DEF PlainFits
<1>13. h.token = w.token
  BY <1>6 DEF SameLanes
<1>14. CASE UNCHANGED streamTables
  BY <1>14, <1>a, <1>1, <1>4, <1>5, <1>8, <1>9, <1>10, <1>11, <1>12, <1>13, WriterMoves
<1>15. CASE StreamIsCurrent(a) /\ streamHead[c].gen = w.lane[c].gen /\ StoreResets(c)
  BY <1>15, <1>a, <1>1, <1>2, <1>4, <1>5, <1>8, <1>9, <1>10, <1>11, <1>12, <1>13, ResetStep
<1> QED BY <1>1, <1>14, <1>15

-----------------------------------------------------------------------------
(* Steps on the record of a durable call *)

\* The record of the call changes, and no table.
LEMMA CallStep ==
    ASSUME StreamInv, NEW a \in Activations, durableCall,
           UNCHANGED <<leaseVars, durableCall, streamTables, published>>,
           streamCall' \in StreamCalls, DurableCallFits',
           \E k \in Nat : Of(streamCall'.text, k) /\ \A c \in Channels : Shows(c, k),
           NEW h \in StreamWriters, writer' = [writer EXCEPT ![a] = h],
           WriterFits(h), h.token = writer[a].token, LaneFits(a, h), DurableFits(a, h)',
           \A b \in Activations : b # a =>
              DurableFits(b, writer[b])' /\ (Speaks(h) => ~Speaks(writer[b]))
    PROVE  StreamInv'
<1>1. /\ writer' \in [Activations -> StreamWriters] /\ writer'[a] = h
      /\ \A b \in Activations : b # a => writer'[b] = writer[b]
  BY WriterFacts
<1>2. streamHead' = streamHead /\ chunks' = chunks /\ runOver' = runOver
  BY DEF streamTables
<1>3. \A c \in Channels : Content(c)' = Content(c)
  BY <1>2 DEF Content
<1>4. StoreTypes' /\ StreamTablesFit'
  <2>1. \A k : (\A c \in Channels : Shows(c, k)) => \A c \in Channels : Shows(c, k)'
    BY <1>2, <1>3 DEF Shows, Of
  <2>2. \E k \in Nat : OneVisible(k)'
    BY <2>1 DEF OneVisible, Of
  <2> QED BY <2>2, <1>2 DEF StreamInv, StreamTypes, StoreTypes, StreamTablesFit
<1>5. \A b \in Activations : LaneFits(b, writer[b])'
  <2> SUFFICES ASSUME NEW b \in Activations PROVE LaneFits(b, writer[b])'
    OBVIOUS
  <2>1. PICK v : v = writer'[b]
    OBVIOUS
  <2>2. LaneFits(b, v)
    BY <2>1, <1>1 DEF StreamInv
  <2> QED BY <2>1, <2>2, <1>2, <1>3 DEF LaneFits, CurrentWriterFits, Holds, leaseVars
<1>6. OneSpeaks'
  <2> SUFFICES ASSUME NEW b \in Activations, NEW d \in Activations,
                      Speaks(writer'[b]), Speaks(writer'[d])
               PROVE  b = d
    BY DEF OneSpeaks, Speaks, Dispatching, InHand
  <2> QED BY <1>1 DEF StreamInv, OneSpeaks
<1>7. \A b \in Activations : DurableFits(b, writer[b])'
  <2> SUFFICES ASSUME NEW b \in Activations PROVE DurableFits(b, writer[b])'
    OBVIOUS
  <2>1. CASE b = a
    BY <2>1, <1>1 DEF DurableFits, Speaks, Dispatching, InHand, Completes, Sealing, Holds
  <2> QED BY <2>1
<1>8. UNCHANGED <<leaseVars, durableCall>>
  OBVIOUS
<1> QED BY <1>1, <1>4, <1>5, <1>6, <1>7, <1>8, StreamStep

(* The call is not settled by the step. *)
LEMMA OpenCallStep ==
    ASSUME StreamInv, NEW a \in Activations, durableCall,
           UNCHANGED <<leaseVars, durableCall, streamTables, published>>,
           streamCall.state # "settled",
           NEW s \in {"idle", "started", "doubt"}, streamCall' = [streamCall EXCEPT !.state = s],
           NEW h \in StreamWriters, writer' = [writer EXCEPT ![a] = h],
           WriterFits(h), h.token = writer[a].token, LaneFits(a, h),
           s = "idle" =>
              /\ \A c \in Channels : Blank(c)
              /\ \A b \in Activations : b # a => ~Speaks(writer[b]),
           Speaks(h) =>
              /\ s # "idle" /\ \A c \in Channels : Shows(c, h.token)
              /\ \A b \in Activations : b # a => ~Speaks(writer[b]),
           Dispatching(h) /\ h.said = NoWriter.said => \A c \in Channels : Blank(c),
           ~Completes(h)
    PROVE  StreamInv'
<1>0. streamCall \in StreamCalls /\ DurableCallFits /\ streamCall.text = <<>> /\ published = {}
  BY DEF StreamInv, StreamTypes, DurableCallFits
<1>1. streamCall'.state = s /\ streamCall'.text = <<>> /\ streamCall' \in StreamCalls
  BY <1>0 DEF StreamCalls
<1>2. streamHead' = streamHead /\ chunks' = chunks /\ runOver' = runOver
  BY DEF streamTables
<1>3. \A c \in Channels : (Blank(c)' <=> Blank(c)) /\ \A k : Shows(c, k)' <=> Shows(c, k)
  BY <1>2 DEF Blank, Shows, Of, Content
<1>4. DurableCallFits'
  BY <1>0, <1>1, <1>3 DEF DurableCallFits
<1>5. \E k \in Nat : Of(streamCall'.text, k) /\ \A c \in Channels : Shows(c, k)
  <2>1. PICK k \in Nat : OneVisible(k)
    BY DEF StreamInv, StreamTablesFit
  <2> QED BY <2>1, <1>1 DEF OneVisible, Of
<1>6. DurableFits(a, h)'
  BY <1>1, <1>3 DEF DurableFits
<1>7. \A b \in Activations : b # a => DurableFits(b, writer[b])'
  <2> SUFFICES ASSUME NEW b \in Activations, b # a PROVE DurableFits(b, writer[b])'
    OBVIOUS
  <2>1. PICK v : v = writer[b]
    OBVIOUS
  <2>2. writer'[b] = v
    BY <2>1, WriterFacts
  <2>3. DurableFits(b, v) /\ ~Completes(v)
    BY <2>1 DEF StreamInv, DurableFits
  <2>4. DurableFits(b, v)'
    BY <2>1, <2>3, <1>1, <1>3 DEF DurableFits
  <2> QED BY <2>1, <2>2, <2>4 DEF DurableFits, Speaks, Dispatching, InHand, Completes, Sealing, Holds
<1> QED BY <1>1, <1>4, <1>5, <1>6, <1>7, CallStep

(* A writer that dispatches. *)
LEMMA Speaker ==
    ASSUME StreamInv, durableCall, NEW a \in Activations, NEW w, w = writer[a], Dispatching(w)
    PROVE  /\ streamCall.state \in {"started", "doubt"}
           /\ \A c \in Channels : Shows(c, w.token)
           /\ w.said = NoWriter.said => \A c \in Channels : Blank(c)
           /\ \A b \in Activations : b # a => ~Speaks(writer[b])
BY DEF StreamInv, DurableFits, Speaks, OneSpeaks

\* A dispatch nobody heard of again is in doubt.
LEMMA RecoverDoubtStep ==
    ASSUME StreamInv, NEW a \in Activations, RecoverDoubt(a) PROVE StreamInv'
<1>a. PICK w : w = writer[a]
  OBVIOUS
<1>0. /\ writer \in [Activations -> StreamWriters] /\ w \in StreamWriters
      /\ WriterFits(w) /\ LaneFits(a, w) /\ LanesFit(w)
  BY <1>a, WriterFacts DEF WriterFits
<1>1. /\ w.stage = "ready" /\ durableCall /\ streamCall.state \in {"started", "doubt"}
      /\ streamCall' = [streamCall EXCEPT !.state = "doubt"]
      /\ UNCHANGED <<leaseVars, durableCall, streamTables, published>>
  BY <1>a DEF RecoverDoubt
<1>b. PICK h : h = [w EXCEPT !.stage = "close", !.outcome = "failed", !.final = <<>>,
                             !.said = NoWriter.said]
  OBVIOUS
<1>2. writer' = [writer EXCEPT ![a] = h]
  BY <1>a, <1>b, <1>0 DEF RecoverDoubt, Outcome
<1>3. h \in StreamWriters
  <2>1. <<>> \in Texts
    BY DEF Texts
  <2>2. NoWriter.said \in [Channels -> Nat]
    BY DEF NoWriter
  <2> QED BY <1>0, <1>b, <2>1, <2>2 DEF StreamWriters, WriterStages
<1>4. /\ h.stage = "close" /\ h.outcome = "failed" /\ SameLanes(w, h)
  BY <1>0, <1>b DEF StreamWriters, SameLanes
<1>5. ~InHand(w) /\ ~InHand(h) /\ LanesFit(h)
  BY <1>0, <1>1, <1>4, LanesStay DEF LanesFit
<1>6. WriterFits(h) /\ ~Speaks(h) /\ ~Dispatching(h) /\ ~Completes(h)
  BY <1>4, <1>5 DEF WriterFits, DispatchFits, ClosingFits, Dispatching, Sealing, Completes, Speaks
<1>7. LaneFits(a, h)
  BY <1>0, <1>1, <1>4, LaneFitsStay DEF LoadedStages
<1> QED BY <1>a, <1>1, <1>2, <1>3, <1>4, <1>6, <1>7, OpenCallStep DEF SameLanes

\* The dispatch starts with both channels blank.
LEMMA BeginDispatchStep ==
    ASSUME StreamInv, NEW a \in Activations, BeginDispatch(a) PROVE StreamInv'
<1>a. PICK w : w = writer[a]
  OBVIOUS
<1>0. /\ writer \in [Activations -> StreamWriters] /\ w \in StreamWriters
      /\ WriterFits(w) /\ LaneFits(a, w) /\ LanesFit(w)
      /\ durableCall => DurableFits(a, w)
      /\ ~durableCall => PlainFits(a, w)
  BY <1>a, WriterFacts DEF WriterFits
<1>1. /\ w.stage = "ready"
      /\ durableCall => streamCall.state = "idle"
      /\ \A c \in Channels : ~w.lane[c].reset
      /\ streamCall' = IF durableCall THEN [streamCall EXCEPT !.state = "started"] ELSE streamCall
      /\ UNCHANGED <<leaseVars, durableCall, streamTables, published>>
  BY <1>a DEF BeginDispatch
<1>b. PICK h : h = [w EXCEPT !.stage = "dispatched"]
  OBVIOUS
<1>2. writer' = [writer EXCEPT ![a] = h]
  BY <1>a, <1>b, <1>0 DEF BeginDispatch, StreamBecomes
<1>3. h \in StreamWriters
  BY <1>0, <1>b DEF StreamWriters, WriterStages
<1>4. /\ h.stage = "dispatched" /\ h.outcome = w.outcome /\ SameLanes(w, h) /\ h.said = w.said
  BY <1>0, <1>b DEF StreamWriters, SameLanes
<1>5. /\ ~InHand(w) /\ ~InHand(h) /\ LanesFit(h)
      /\ ~w.failed /\ w.said = NoWriter.said
      /\ \A c \in Channels : w.lane[c].text = <<>> /\ w.lane[c].buffer = <<>>
  <2>1. ~InHand(w)
    BY <1>0, <1>1 DEF LanesFit
  <2>2. \A c \in Channels : w.lane[c].text = <<>>
    BY <1>0, <1>1 DEF LanesFit, NoLane
  <2> QED BY <2>1, <2>2, <1>0, <1>1, <1>4, LanesStay DEF LanesFit, InHand
<1>6. Dispatching(h) /\ ~Completes(h) /\ ~Sealing(h) /\ Speaks(h)
  BY <1>4 DEF Dispatching, Sealing, Completes, Speaks
<1>7. DispatchFits(h)
  <2>1. \A c \in Channels : Of(h.lane[c].text, h.token)
    BY <1>4, <1>5 DEF SameLanes, Of
  <2>2. Accounted(h)
    <3>1. h.said["output"] = 0 /\ Len(h.lane["output"].text) = 0 /\ Len(h.lane["output"].buffer) = 0
          /\ h.inflight = "none"
      BY <1>4, <1>5 DEF SameLanes, NoWriter, InHand, Channels
    <3> QED BY <3>1 DEF Accounted
  <2> QED BY <2>1, <2>2, <1>1, <1>4, <1>5 DEF DispatchFits, SameLanes
<1>8. WriterFits(h)
  BY <1>4, <1>5, <1>6, <1>7 DEF WriterFits, ClosingFits
<1>9. LaneFits(a, h)
  BY <1>0, <1>1, <1>4, LaneFitsStay DEF LoadedStages
<1>10. CASE durableCall
  <2>1. \A c \in Channels : Blank(c) /\ Shows(c, h.token)
    BY <1>1, <1>10 DEF StreamInv, DurableCallFits, Blank, Shows, Of
  <2>2. \A b \in Activations : ~Speaks(writer[b])
    BY <1>1, <1>10 DEF StreamInv, DurableFits
  <2> QED BY <2>1, <2>2, <1>a, <1>1, <1>2, <1>3, <1>4, <1>6, <1>8, <1>9, <1>10, OpenCallStep DEF SameLanes
<1>11. CASE ~durableCall
  <2>1. Holds(a, h.token) /\ ~h.noop => \A c \in Channels : Shows(c, h.token)
    <3> SUFFICES ASSUME Holds(a, h.token), ~h.noop, NEW c \in Channels PROVE Shows(c, h.token)
      OBVIOUS
    <3>1. CurrentWriterFits(w)
      BY <1>0, <1>1, <1>4 DEF LaneFits, SameLanes
    <3>2. streamHead[c].gen > 0 => Content(c) = <<>>
      BY <3>1, <1>1, <1>4, <1>5 DEF CurrentWriterFits, SameLanes, Channels, StreamInv, StreamTypes,
                                     StreamHeads
    <3> QED BY <3>2 DEF Shows, Of
  <2>2. PlainFits(a, h)
    BY <2>1, <1>4, <1>5, <1>6 DEF PlainFits
  <2> QED BY <2>2, <1>a, <1>1, <1>2, <1>3, <1>4, <1>8, <1>9, <1>11, WriterMoves DEF SameLanes
<1> QED BY <1>10, <1>11

\* The provider refuses or is given up.
LEMMA ProviderFailsStep ==
    ASSUME StreamInv, NEW a \in Activations, ProviderFails(a) PROVE StreamInv'
<1>a. PICK w : w = writer[a]
  OBVIOUS
<1>0. /\ writer \in [Activations -> StreamWriters] /\ w \in StreamWriters
      /\ WriterFits(w) /\ LaneFits(a, w) /\ LanesFit(w) /\ DispatchFits(w)
      /\ ~durableCall => PlainFits(a, w)
  BY <1>a, WriterFacts DEF WriterFits
<1>c. PICK s : s = IF w.said = NoWriter.said /\ StreamIsCurrent(a) THEN "idle" ELSE "doubt"
  OBVIOUS
<1>1. /\ w.stage = "dispatched"
      /\ streamCall' = IF durableCall THEN [streamCall EXCEPT !.state = s] ELSE streamCall
      /\ UNCHANGED <<leaseVars, durableCall, streamTables, published>>
  BY <1>a, <1>c DEF ProviderFails
<1>b. PICK h : h = [w EXCEPT !.stage = "close", !.outcome = "failed", !.final = <<>>,
                             !.said = NoWriter.said]
  OBVIOUS
<1>2. writer' = [writer EXCEPT ![a] = h]
  BY <1>a, <1>b, <1>0 DEF ProviderFails, Outcome
<1>3. h \in StreamWriters
  <2>1. <<>> \in Texts
    BY DEF Texts
  <2>2. NoWriter.said \in [Channels -> Nat]
    BY DEF NoWriter
  <2> QED BY <1>0, <1>b, <2>1, <2>2 DEF StreamWriters, WriterStages
<1>4. /\ h.stage = "close" /\ h.outcome = "failed" /\ SameLanes(w, h)
  BY <1>0, <1>b DEF StreamWriters, SameLanes
<1>5. (InHand(h) <=> InHand(w)) /\ LanesFit(h)
  BY <1>0, <1>4, LanesStay DEF LanesFit
<1>6. /\ WriterFits(h) /\ ~Dispatching(h) /\ ~Completes(h) /\ Dispatching(w)
      /\ Speaks(h) <=> InHand(w)
  BY <1>1, <1>4, <1>5 DEF WriterFits, DispatchFits, ClosingFits, Dispatching, Sealing, Completes, Speaks
<1>7. LaneFits(a, h)
  BY <1>0, <1>1, <1>4, LaneFitsStay DEF LoadedStages
<1>8. CASE durableCall
  <2>1. /\ streamCall.state \in {"started", "doubt"}
        /\ \A c \in Channels : Shows(c, w.token)
        /\ w.said = NoWriter.said => \A c \in Channels : Blank(c)
        /\ \A b \in Activations : b # a => ~Speaks(writer[b])
    BY <1>8, <1>6, <1>a, Speaker
  <2>2. s \in {"idle", "doubt"} /\ (s = "idle" => w.said = NoWriter.said)
    BY <1>c
  <2>3. s = "idle" => ~Speaks(h)
    BY <2>2, <1>0, <1>6 DEF DispatchFits
  <2> QED BY <2>1, <2>2, <2>3, <1>a, <1>1, <1>2, <1>3, <1>4, <1>6, <1>7, <1>8, OpenCallStep DEF SameLanes
<1>9. CASE ~durableCall
  <2>1. PlainFits(a, h)
    BY <1>0, <1>1, <1>4, <1>5, <1>6, <1>9 DEF PlainFits, SameLanes, Sealing
  <2> QED BY <2>1, <1>a, <1>1, <1>2, <1>3, <1>4, <1>6, <1>7, <1>9, WriterMoves DEF SameLanes
<1> QED BY <1>8, <1>9

\* prepare_settlement raises, and the dispatch is in doubt.
LEMMA PrepareFailsStep ==
    ASSUME StreamInv, NEW a \in Activations, PrepareFails(a) PROVE StreamInv'
<1>a. PICK w : w = writer[a]
  OBVIOUS
<1>0. /\ writer \in [Activations -> StreamWriters] /\ w \in StreamWriters
      /\ WriterFits(w) /\ LaneFits(a, w) /\ LanesFit(w)
      /\ ~durableCall => PlainFits(a, w)
  BY <1>a, WriterFacts DEF WriterFits
<1>1. /\ w.stage = "prepare" /\ streamCall' = [streamCall EXCEPT !.state = "doubt"]
      /\ UNCHANGED <<leaseVars, durableCall, streamTables, published>>
  BY <1>a DEF PrepareFails
<1>b. PICK h : h = [w EXCEPT !.stage = "aborted"]
  OBVIOUS
<1>2. writer' = [writer EXCEPT ![a] = h]
  BY <1>a, <1>b, <1>0 DEF PrepareFails, StreamBecomes
<1>3. h \in StreamWriters
  BY <1>0, <1>b DEF StreamWriters, WriterStages
<1>4. h.stage = "aborted" /\ SameLanes(w, h)
  BY <1>0, <1>b DEF StreamWriters, SameLanes
<1>5. LanesFit(h)
  BY <1>0, <1>4, LanesStay
<1>6. WriterFits(h) /\ ~Dispatching(h) /\ ~Completes(h) /\ Dispatching(w)
  BY <1>1, <1>4, <1>5 DEF WriterFits, DispatchFits, ClosingFits, Dispatching, Sealing, Completes
<1>7. LaneFits(a, h)
  BY <1>4 DEF LaneFits
<1>8. durableCall
  BY <1>0, <1>1 DEF PlainFits
<1>9. /\ streamCall.state \in {"started", "doubt"}
      /\ \A c \in Channels : Shows(c, w.token)
      /\ \A b \in Activations : b # a => ~Speaks(writer[b])
  BY <1>8, <1>6, <1>a, Speaker
<1> QED BY <1>a, <1>1, <1>2, <1>3, <1>4, <1>6, <1>7, <1>8, <1>9, OpenCallStep DEF SameLanes

(* What is settled is what was streamed, if anything was. *)
LEMMA SettlementIsStreamed ==
    ASSUME StreamInv, durableCall, NEW a \in Activations, NEW w, w = writer[a], w.stage = "settle",
           StreamIsCurrent(a), NEW s, s = Settlement(a)
    PROVE  /\ s \in StreamCalls /\ s.state = "settled" /\ s.text = w.final /\ Of(w.final, w.token)
           /\ s.streamed <= streamHead["output"].gen
           /\ s.streamed > 0 => chunks["output"][s.streamed] = s.said
<1>0. /\ w \in StreamWriters /\ WriterFits(w) /\ LaneFits(a, w) /\ LanesFit(w) /\ DispatchFits(w)
      /\ "output" \in Channels
  BY WriterFacts DEF WriterFits, Channels
<1>1. PICK n : n = w.said["output"]
  OBVIOUS
<1>2. PICK said : said = Bytes(n, w.token)
  OBVIOUS
<1>3. PICK streamed : streamed = IF w.noop THEN 0 ELSE w.lane["output"].gen
  OBVIOUS
<1>4. s = [state |-> "settled", text |-> w.final, streamed |-> streamed, said |-> said]
  BY <1>1, <1>2, <1>3 DEF Settlement
<1>5. /\ n \in Nat /\ w.token \in Nat /\ w.final \in Texts /\ streamed \in Nat
      /\ w.lane["output"].text \in Texts /\ w.lane["output"].gen \in Nat
  BY <1>0, <1>1, <1>3, WriterFields
<1>6. said \in Texts
  BY <1>2, <1>5 DEF Bytes, Texts
<1>7. s \in StreamCalls
  BY <1>4, <1>5, <1>6 DEF StreamCalls
<1>8. s.state = "settled" /\ s.text = w.final /\ s.streamed = streamed /\ s.said = said
  BY <1>4
<1>9. Of(w.final, w.token)
  BY <1>0 DEF DispatchFits
<1>10. ASSUME ~w.noop
       PROVE  /\ w.lane["output"].gen = streamHead["output"].gen
              /\ chunks["output"][w.lane["output"].gen] = said
  <2>1. /\ ~w.broken /\ ~w.failed /\ ~InHand(w) /\ Accounted(w)
        /\ Of(w.lane["output"].text, w.token)
    BY <1>0, <1>10 DEF DispatchFits, Dispatching
  <2>2. CurrentWriterFits(w)
    BY <1>0 DEF LaneFits, StreamIsCurrent
  <2>3. /\ w.lane["output"].on /\ w.lane["output"].gen = streamHead["output"].gen
        /\ w.lane["output"].text = Content("output")
    BY <2>1, <2>2, <1>0, <1>10 DEF CurrentWriterFits
  <2>4. PICK text : text = w.lane["output"].text
    OBVIOUS
  <2>5. text \in Texts /\ Of(text, w.token) /\ Len(text) = n
    <3>1. w.inflight # "output" /\ w.lane["output"].buffer = <<>>
      BY <2>1, <1>0 DEF InHand
    <3>2. n = Len(text) + Len(w.lane["output"].buffer) + 0
      BY <2>1, <2>4, <3>1, <1>1 DEF Accounted
    <3>3. Len(w.lane["output"].buffer) = 0 /\ Len(text) \in Nat
      BY <3>1, <2>4, <1>5 DEF Texts
    <3> QED BY <3>2, <3>3, <2>1, <2>4, <1>5
  <2>6. text = said
    BY <2>5, <1>2, <1>5 DEF Texts, Of, Bytes
  <2> QED BY <2>3, <2>4, <2>6 DEF Content
<1>11. streamHead["output"].gen \in Nat
  BY <1>0 DEF StreamInv, StreamTypes, StreamHeads
<1> QED BY <1>3, <1>7, <1>8, <1>9, <1>10, <1>11

\* The answer is settled, or in doubt.
LEMMA SettleAnswerStep ==
    ASSUME StreamInv, NEW a \in Activations, SettleAnswer(a) PROVE StreamInv'
<1>a. PICK w : w = writer[a]
  OBVIOUS
<1>0. /\ writer \in [Activations -> StreamWriters] /\ w \in StreamWriters
      /\ WriterFits(w) /\ LaneFits(a, w) /\ LanesFit(w) /\ DispatchFits(w)
      /\ ~durableCall => PlainFits(a, w)
  BY <1>a, WriterFacts DEF WriterFits
<1>1. /\ w.stage = "settle"
      /\ UNCHANGED <<leaseVars, durableCall, streamTables, published>>
  BY <1>a DEF SettleAnswer
<1>2. durableCall
  BY <1>0, <1>1 DEF PlainFits
<1>3. PICK ended \in {"completed", "failed"}, final \in {w.final, <<>>} :
         /\ ended = "completed" => final = w.final /\ streamCall' = Settlement(a)
         /\ \/ StreamIsCurrent(a) /\ streamCall' = Settlement(a)
            \/ streamCall' = [streamCall EXCEPT !.state = "doubt"]
         /\ Outcome(a, ended, final)
         /\ streamCall' = Settlement(a) => StreamIsCurrent(a) \/ ended = "failed"
  BY <1>a DEF SettleAnswer
<1>b. PICK h : h = [w EXCEPT !.stage = "close", !.outcome = ended, !.final = final,
                             !.said = NoWriter.said]
  OBVIOUS
<1>4. writer' = [writer EXCEPT ![a] = h]
  BY <1>a, <1>b, <1>0, <1>3 DEF Outcome
<1>5. h \in StreamWriters
  <2>1. <<>> \in Texts /\ w.final \in Texts
    BY <1>0, WriterFields DEF Texts
  <2>2. NoWriter.said \in [Channels -> Nat]
    BY DEF NoWriter
  <2> QED BY <1>0, <1>3, <1>b, <2>1, <2>2 DEF StreamWriters, WriterStages
<1>6. h.stage = "close" /\ h.outcome = ended /\ h.final = final /\ SameLanes(w, h)
  BY <1>0, <1>b DEF StreamWriters, SameLanes
<1>7. ~InHand(w)
  BY <1>0, <1>1 DEF DispatchFits, LanesFit
<1>8. ~InHand(h) /\ LanesFit(h)
  BY <1>0, <1>6, <1>7, LanesStay
<1>9. /\ WriterFits(h) /\ ~Dispatching(h) /\ Dispatching(w) /\ ~Speaks(h) /\ ~Sealing(h)
  BY <1>1, <1>6, <1>8 DEF WriterFits, DispatchFits, ClosingFits, Dispatching, Sealing, Speaks
<1>10. LaneFits(a, h)
  BY <1>0, <1>1, <1>6, LaneFitsStay DEF LoadedStages
<1>11. /\ streamCall.state \in {"started", "doubt"}
       /\ \A c \in Channels : Shows(c, w.token)
       /\ \A b \in Activations : b # a => ~Speaks(writer[b])
  BY <1>2, <1>9, <1>a, Speaker
<1>12. ASSUME StreamIsCurrent(a), streamCall' = Settlement(a) PROVE StreamInv'
  <2>1. PICK s : s = streamCall'
    OBVIOUS
  <2>2. /\ s \in StreamCalls /\ s.state = "settled" /\ s.text = w.final /\ Of(w.final, w.token)
        /\ s.streamed <= streamHead["output"].gen
        /\ s.streamed > 0 => chunks["output"][s.streamed] = s.said
    BY <2>1, <1>a, <1>1, <1>2, <1>12, SettlementIsStreamed
  <2>3. published = {} /\ streamHead' = streamHead /\ chunks' = chunks
    BY <1>1, <1>2, <1>11 DEF StreamInv, DurableCallFits, streamTables
  <2>4. DurableCallFits'
    BY <2>1, <2>2, <2>3, <1>1 DEF DurableCallFits
  <2>5. \E k \in Nat : Of(streamCall'.text, k) /\ \A c \in Channels : Shows(c, k)
    <3>1. w.token \in Nat
      BY <1>0, WriterFields
    <3> QED BY <3>1, <2>1, <2>2, <1>11
  <2>6. DurableFits(a, h)'
    <3>1. Completes(h) => streamCall'.state = "settled" /\ h.final = streamCall'.text
      BY <2>1, <2>2, <1>3, <1>6 DEF Completes
    <3> QED BY <3>1, <1>6, <1>9 DEF DurableFits
  <2>7. \A b \in Activations : b # a => DurableFits(b, writer[b])'
    <3> SUFFICES ASSUME NEW b \in Activations, b # a PROVE DurableFits(b, writer[b])'
      OBVIOUS
    <3>1. PICK v : v = writer[b]
      OBVIOUS
    <3>2. writer'[b] = v
      BY <3>1, WriterFacts, <1>4
    <3>3. ~Speaks(v) /\ ~Completes(v)
      BY <3>1, <1>2, <1>11 DEF StreamInv, DurableFits
    <3>4. ~Speaks(writer'[b]) /\ ~Completes(writer'[b])
      BY <3>2, <3>3
    <3> QED BY <3>4 DEF DurableFits, Speaks, Dispatching, InHand, Completes, Sealing
  <2>8. streamCall' \in StreamCalls
    BY <2>1, <2>2
  <2> QED BY <2>4, <2>5, <2>6, <2>7, <2>8, <1>a, <1>1, <1>2, <1>4, <1>5, <1>6, <1>9, <1>10, CallStep DEF SameLanes
<1>13. ASSUME streamCall' = [streamCall EXCEPT !.state = "doubt"], streamCall' # Settlement(a) PROVE StreamInv'
  <2>1. ~Completes(h)
    BY <1>3, <1>6, <1>13 DEF Completes
  <2> QED BY <2>1, <1>a, <1>1, <1>2, <1>4, <1>5, <1>6, <1>9, <1>10, <1>11, <1>13, OpenCallStep DEF SameLanes
<1>14. ASSUME streamCall' = [streamCall EXCEPT !.state = "doubt"] PROVE streamCall' # Settlement(a)
  <2>1. streamCall'.state = "doubt"
    BY <1>14 DEF StreamInv, StreamTypes, StreamCalls
  <2> QED BY <2>1 DEF Settlement
<1> QED BY <1>3, <1>12, <1>13, <1>14

-----------------------------------------------------------------------------
(* A delta arrives *)

\* said, and not taken: there is no stream, or the writer is broken.
LEMMA DeltaIsDropped ==
    ASSUME StreamInv, NEW a \in Activations, NEW c \in Channels, NEW w, w = writer[a],
           w.stage = "dispatched", NEW h \in StreamWriters, writer' = [writer EXCEPT ![a] = h],
           UNCHANGED <<leaseVars, durableCall, streamCall, streamTables, published>>,
           SameLanes(w, h), h.stage = "dispatched", h.outcome = w.outcome, h.noop \/ h.broken,
           h.said = [w.said EXCEPT ![c] = @ + 1]
    PROVE  StreamInv'
<1>0. /\ w \in StreamWriters /\ WriterFits(w) /\ LaneFits(a, w) /\ LanesFit(w) /\ DispatchFits(w)
      /\ durableCall => DurableFits(a, w)
      /\ ~durableCall => PlainFits(a, w)
  BY WriterFacts DEF WriterFits
<1>1. h.said # NoWriter.said
  <2>1. w.said \in [Channels -> Nat]
    BY <1>0, WriterFields
  <2>2. h.said[c] = w.said[c] + 1 /\ w.said[c] \in Nat
    BY <2>1
  <2>3. NoWriter.said[c] = 0
    BY DEF NoWriter
  <2> QED BY <2>2, <2>3
<1>2. (InHand(h) <=> InHand(w)) /\ LanesFit(h)
  BY <1>0, LanesStay
<1>3. /\ Dispatching(h) /\ Dispatching(w) /\ Speaks(h) /\ Speaks(w) /\ ~Sealing(h) /\ ~Completes(h)
  BY DEF Dispatching, Speaks, Sealing, Completes
<1>4. DispatchFits(h)
  BY <1>0, <1>1, <1>2, <1>3 DEF DispatchFits, SameLanes
<1>5. WriterFits(h)
  BY <1>2, <1>3, <1>4 DEF WriterFits, ClosingFits
<1>6. LaneFits(a, h)
  BY <1>0, LaneFitsStay DEF LoadedStages
<1>7. durableCall => DurableFits(a, h)
  BY <1>0, <1>1, <1>3 DEF DurableFits, SameLanes
<1>8. ~durableCall => PlainFits(a, h)
  BY <1>0, <1>3 DEF PlainFits, SameLanes
<1> QED BY <1>3, <1>5, <1>6, <1>7, <1>8, WriterMoves DEF SameLanes

\* said, and buffered.
LEMMA DeltaIsBuffered ==
    ASSUME StreamInv, NEW a \in Activations, NEW c \in Channels, NEW w, w = writer[a],
           w.stage = "dispatched", ~w.noop, ~w.broken, ~w.failed, w.lane[c].on,
           UNCHANGED <<leaseVars, durableCall, streamCall, streamTables, published>>,
           writer' = [writer EXCEPT ![a].said[c] = @ + 1,
                                    ![a].lane[c].buffer = Append(@, w.token)]
    PROVE  StreamInv'
<1>0. /\ writer \in [Activations -> StreamWriters] /\ w \in StreamWriters
      /\ WriterFits(w) /\ LaneFits(a, w) /\ LanesFit(w) /\ DispatchFits(w)
      /\ durableCall => DurableFits(a, w)
      /\ ~durableCall => PlainFits(a, w)
  BY WriterFacts DEF WriterFits
<1>c. "output" \in Channels
  BY DEF Channels
<1>1. PICK buffer : buffer = Append(w.lane[c].buffer, w.token)
  OBVIOUS
<1>2. /\ w.token \in Nat /\ w.lane[c] \in Lanes /\ w.lane[c].buffer \in Texts
      /\ buffer \in Texts /\ Len(buffer) = Len(w.lane[c].buffer) + 1 /\ buffer # <<>>
      /\ Of(buffer, w.token)
  <2>1. w.token \in Nat /\ w.lane[c] \in Lanes /\ w.lane[c].buffer \in Texts
    BY <1>0, WriterFields
  <2>2. Of(w.lane[c].buffer, w.token)
    BY <1>0 DEF LanesFit
  <2>3. buffer \in Texts /\ Len(buffer) = Len(w.lane[c].buffer) + 1 /\ Len(w.lane[c].buffer) \in Nat
    BY <2>1, <1>1 DEF Texts
  <2>4. Of(buffer, w.token)
    BY <2>1, <2>2, <1>1 DEF Texts, Of
  <2>5. buffer # <<>>
    BY <2>3
  <2> QED BY <2>1, <2>3, <2>4, <2>5
<1>3. PICK l : l = [w.lane[c] EXCEPT !.buffer = buffer]
  OBVIOUS
<1>4. l \in Lanes /\ l.on /\ l.text = w.lane[c].text /\ l.gen = w.lane[c].gen /\ l.reset = w.lane[c].reset
      /\ l.buffer = buffer
  BY <1>2, <1>3 DEF Lanes
<1>5. PICK hs : hs = [w.lane EXCEPT ![c] = l]
  OBVIOUS
<1>6. hs \in [Channels -> Lanes] /\ hs[c] = l /\ \A d \in Channels : d # c => hs[d] = w.lane[d]
  BY <1>0, <1>4, <1>5, WriterFields
<1>7. PICK said : said = [w.said EXCEPT ![c] = @ + 1]
  OBVIOUS
<1>8. /\ said \in [Channels -> Nat] /\ said[c] = w.said[c] + 1 /\ w.said[c] \in Nat
      /\ \A d \in Channels : d # c => said[d] = w.said[d]
  <2>1. w.said \in [Channels -> Nat]
    BY <1>0, WriterFields
  <2> QED BY <2>1, <1>7
<1>9. PICK h : h = [w EXCEPT !.said = said, !.lane = hs]
  OBVIOUS
<1>10. writer' = [writer EXCEPT ![a] = h]
  BY <1>0, <1>1, <1>3, <1>5, <1>7, <1>9 DEF StreamWriters
<1>11. h \in StreamWriters
  BY <1>0, <1>6, <1>8, <1>9 DEF StreamWriters
<1>12. /\ h.stage = "dispatched" /\ h.token = w.token /\ h.noop = w.noop /\ h.broken = w.broken
       /\ h.failed = w.failed /\ h.said = said /\ h.outcome = w.outcome /\ h.final = w.final
       /\ h.sealing = w.sealing /\ h.inflight = w.inflight
       /\ h.lane[c] = l /\ \A d \in Channels : d # c => h.lane[d] = w.lane[d]
  BY <1>0, <1>6, <1>9 DEF StreamWriters
<1>13. /\ InHand(h) /\ Dispatching(h) /\ Dispatching(w) /\ Speaks(h) /\ Speaks(w) /\ ~Sealing(h) /\ ~Completes(h)
  <2>1. InHand(h)
    BY <1>2, <1>4, <1>12 DEF InHand
  <2> QED BY <2>1, <1>12 DEF Dispatching, Speaks, Sealing, Completes
<1>14. LanesFit(h)
  <2>1. \A d \in Channels :
          /\ Of(h.lane[d].buffer, h.token)
          /\ IF h.lane[d].on THEN h.lane[d].gen > 0 ELSE h.lane[d] = NoLane
          /\ h.inflight = d => h.lane[d].on /\ ~h.failed
    <3> SUFFICES ASSUME NEW d \in Channels
                 PROVE  /\ Of(h.lane[d].buffer, h.token)
                        /\ IF h.lane[d].on THEN h.lane[d].gen > 0 ELSE h.lane[d] = NoLane
                        /\ h.inflight = d => h.lane[d].on /\ ~h.failed
      OBVIOUS
    <3>1. /\ Of(w.lane[d].buffer, w.token)
          /\ IF w.lane[d].on THEN w.lane[d].gen > 0 ELSE w.lane[d] = NoLane
          /\ w.inflight = d => w.lane[d].on /\ ~w.failed
      BY <1>0 DEF LanesFit
    <3> QED BY <3>1, <1>2, <1>4, <1>12
  <2> QED BY <2>1, <1>12 DEF LanesFit
<1>15. Accounted(h)
  <2>1. w.said["output"] = Len(w.lane["output"].text) + Len(w.lane["output"].buffer)
                             + (IF w.inflight = "output" THEN 1 ELSE 0)
    BY <1>0, <1>13 DEF DispatchFits, Accounted
  <2>2. Len(w.lane["output"].text) \in Nat /\ Len(w.lane["output"].buffer) \in Nat
    BY <1>0, <1>c, WriterFields
  <2>3. PICK i \in {0, 1} : i = IF w.inflight = "output" THEN 1 ELSE 0
    OBVIOUS
  <2>4. CASE c = "output"
    <3>1. /\ h.said["output"] = w.said["output"] + 1
          /\ Len(h.lane["output"].text) = Len(w.lane["output"].text)
          /\ Len(h.lane["output"].buffer) = Len(w.lane["output"].buffer) + 1
          /\ i = IF h.inflight = "output" THEN 1 ELSE 0
      BY <2>3, <2>4, <1>2, <1>4, <1>8, <1>12
    <3>2. \A m, n \in Nat : (m + n + i) + 1 = m + (n + 1) + i
      BY <2>3
    <3>3. (Len(w.lane["output"].text) + Len(w.lane["output"].buffer) + i) + 1
            = Len(w.lane["output"].text) + (Len(w.lane["output"].buffer) + 1) + i
      BY <2>2, <3>2
    <3> QED BY <2>1, <2>3, <3>1, <3>3 DEF Accounted
  <2>5. CASE c # "output"
    <3>1. h.said["output"] = w.said["output"] /\ h.lane["output"] = w.lane["output"]
      BY <2>5, <1>c, <1>8, <1>12
    <3> QED BY <2>1, <3>1, <1>12 DEF Accounted
  <2> QED BY <2>4, <2>5
<1>16. h.said # NoWriter.said
  <2>1. NoWriter.said[c] = 0
    BY DEF NoWriter
  <2> QED BY <2>1, <1>8, <1>12
<1>17. WriterFits(h)
  <2>1. \A d \in Channels : ~h.lane[d].reset /\ Of(h.lane[d].text, h.token)
    BY <1>0, <1>4, <1>12, <1>13 DEF DispatchFits
  <2>2. DispatchFits(h)
    BY <2>1, <1>12, <1>15, <1>16 DEF DispatchFits
  <2> QED BY <2>2, <1>12, <1>13, <1>14 DEF WriterFits, ClosingFits
<1>18. LaneFits(a, h)
  <2>1. /\ h.lane["output"].on <=> w.lane["output"].on
        /\ h.lane["reasoning"].on <=> w.lane["reasoning"].on
        /\ \A d \in Channels : /\ h.lane[d].on <=> w.lane[d].on
                               /\ h.lane[d].gen = w.lane[d].gen /\ h.lane[d].text = w.lane[d].text
    BY <1>4, <1>12 DEF Channels
  <2>2. Holds(a, h.token) => CurrentWriterFits(w)
    BY <1>0, <1>12 DEF LaneFits
  <2> QED BY <2>1, <2>2, <1>12 DEF LaneFits, CurrentWriterFits
<1>19. durableCall => DurableFits(a, h)
  BY <1>0, <1>12, <1>13, <1>16 DEF DurableFits
<1>20. ~durableCall => PlainFits(a, h)
  BY <1>0, <1>12, <1>13 DEF PlainFits
<1> QED BY <1>10, <1>11, <1>12, <1>13, <1>17, <1>18, <1>19, <1>20, WriterMoves

\* push, in its four outcomes.
LEMMA PushStep ==
    ASSUME StreamInv, NEW a \in Activations, NEW c \in Channels, Push(a, c) PROVE StreamInv'
<1>a. PICK w : w = writer[a]
  OBVIOUS
<1>0. /\ writer \in [Activations -> StreamWriters] /\ w \in StreamWriters /\ LaneFits(a, w)
  BY <1>a, WriterFacts
<1>1. w.stage = "dispatched" /\ UNCHANGED <<leaseVars, durableCall, streamCall, published>>
  BY <1>a DEF Push
<1>2. PICK said : said = [w.said EXCEPT ![c] = @ + 1]
  OBVIOUS
<1>3. said \in [Channels -> Nat]
  <2>1. w.said \in [Channels -> Nat]
    BY <1>0, WriterFields
  <2> QED BY <2>1, <1>2
<1>4. CASE /\ w.noop \/ w.broken
           /\ writer' = [writer EXCEPT ![a].said[c] = @ + 1]
           /\ UNCHANGED streamTables
  <2>1. PICK h : h = [w EXCEPT !.said = said]
    OBVIOUS
  <2>2. h \in StreamWriters
    BY <1>0, <1>3, <2>1 DEF StreamWriters
  <2>3. writer' = [writer EXCEPT ![a] = h]
    BY <1>a, <1>0, <1>2, <1>4, <2>1 DEF StreamWriters
  <2>5. /\ SameLanes(w, h) /\ h.stage = "dispatched" /\ h.outcome = w.outcome
        /\ h.said = [w.said EXCEPT ![c] = @ + 1]
        /\ h.noop \/ h.broken
    BY <1>0, <1>1, <1>2, <1>4, <2>1 DEF StreamWriters, SameLanes
  <2> QED BY <1>a, <1>1, <1>4, <2>2, <2>3, <2>5, DeltaIsDropped
<1>5. CASE /\ ~w.noop /\ ~w.broken
           /\ writer' = [writer EXCEPT ![a].said[c] = @ + 1, ![a].broken = TRUE]
           /\ UNCHANGED streamTables
  <2>1. PICK h : h = [w EXCEPT !.said = said, !.broken = TRUE]
    OBVIOUS
  <2>2. h \in StreamWriters
    BY <1>0, <1>3, <2>1 DEF StreamWriters
  <2>3. writer' = [writer EXCEPT ![a] = h]
    BY <1>a, <1>0, <1>2, <1>5, <2>1 DEF StreamWriters
  <2>5. /\ SameLanes(w, h) /\ h.stage = "dispatched" /\ h.outcome = w.outcome
        /\ h.said = [w.said EXCEPT ![c] = @ + 1]
        /\ h.broken
    BY <1>0, <1>1, <1>2, <1>5, <2>1 DEF StreamWriters, SameLanes
  <2> QED BY <1>a, <1>1, <1>5, <2>2, <2>3, <2>5, DeltaIsDropped
<1>6. CASE /\ ~w.noop /\ ~w.broken /\ w.lane[c].on /\ ~w.failed
           /\ writer' = [writer EXCEPT ![a].said[c] = @ + 1,
                                       ![a].lane[c].buffer = Append(@, w.token)]
           /\ UNCHANGED streamTables
  BY <1>a, <1>1, <1>6, DeltaIsBuffered
<1>7. CASE ~w.noop /\ ~w.lane[c].on /\ EnsureLane(a, c, "dispatched")
  <2>1. StreamIsCurrent(a)
    BY <1>7 DEF EnsureLane
  <2>2. CurrentWriterFits(w)
    BY <2>1, <1>0, <1>1, <1>a DEF LaneFits, StreamIsCurrent
  <2>3. c = "reasoning" /\ streamHead[c].gen = 0
    BY <2>2, <1>1, <1>7 DEF CurrentWriterFits, Channels
  <2>4. streamHead[c] = NoHead
    BY <2>3 DEF StreamInv, StreamTablesFit, ChannelFits
  <2>5. /\ StoreOpens(c)
        /\ writer' = [writer EXCEPT ![a].stage = "dispatched",
                                    ![a].lane[c] = [NoLane EXCEPT !.on = TRUE, !.gen = 1]]
    BY <2>4, <1>7 DEF EnsureLane
  <2> QED BY <2>1, <2>3, <2>4, <2>5, <1>a, <1>1, <1>7, LaneOpens
<1> QED BY <1>a, <1>4, <1>5, <1>6, <1>7 DEF Push

-----------------------------------------------------------------------------
(* A channel is sealed *)

\* The lane that is sealed next is the writer's own, as the tables have it.
LEMMA LaneToSeal ==
    ASSUME StreamInv, NEW a \in Activations, NEW w, w = writer[a], w.stage \in {"seal", "sealing"},
           w.sealing # {}, StreamIsCurrent(a), NEW c, c = SealNext(a)
    PROVE  /\ c \in Channels /\ c \in w.sealing /\ w.lane[c].on /\ ~InHand(w) /\ ~w.noop
           /\ w.lane[c].gen = streamHead[c].gen /\ streamHead[c].gen > 0 /\ w.lane[c].text = Content(c)
           /\ CurrentWriterFits(w) /\ Sealing(w)
           /\ "output" \in w.sealing => c = "output"
<1>1. w \in StreamWriters /\ LanesFit(w) /\ ClosingFits(w) /\ LaneFits(a, w)
  BY WriterFacts DEF WriterFits
<1>2. w.sealing \subseteq Channels
  BY <1>1, WriterFields
<1>3. c \in w.sealing /\ c \in Channels /\ ("output" \in w.sealing => c = "output")
  BY <1>2 DEF SealNext, Channels
<1>4. Sealing(w)
  BY DEF Sealing
<1>5. w.lane[c].on /\ ~w.failed /\ ~w.noop /\ ~InHand(w)
  BY <1>1, <1>3, <1>4 DEF ClosingFits, LanesFit
<1>6. CurrentWriterFits(w)
  BY <1>1 DEF LaneFits, StreamIsCurrent
<1> QED BY <1>3, <1>4, <1>5, <1>6 DEF CurrentWriterFits

\* A channel is sealed with the text it shows, or was already.
LEMMA SealedStep ==
    ASSUME StreamInv, NEW a \in Activations, NEW w, w = writer[a], w.stage \in {"seal", "sealing"},
           w.sealing # {}, StreamIsCurrent(a), NEW c, c = SealNext(a), Sealed(a, c),
           StoreTypes', StreamTablesFit', chunks' = chunks,
           \A d \in Channels : streamHead'[d].gen = streamHead[d].gen,
           \A d \in Channels : d # c => streamHead'[d] = streamHead[d],
           streamHead'[c].sealed, streamHead'[c].final = w.lane[c].text,
           streamHead[c].sealed => streamHead'[c] = streamHead[c]
    PROVE  StreamInv'
<1>0. /\ writer \in [Activations -> StreamWriters] /\ w \in StreamWriters
      /\ LanesFit(w) /\ ClosingFits(w)
      /\ durableCall => DurableFits(a, w)
      /\ ~durableCall => PlainFits(a, w)
  BY WriterFacts DEF WriterFits
<1>1. /\ c \in Channels /\ c \in w.sealing /\ w.lane[c].on /\ ~InHand(w) /\ ~w.noop
      /\ CurrentWriterFits(w) /\ Sealing(w)
      /\ "output" \in w.sealing => c = "output"
  BY LaneToSeal
<1>2. UNCHANGED <<leaseVars, durableCall, streamCall>>
  BY DEF Sealed
<1>3. \A d \in Channels : Content(d)' = Content(d)
  BY DEF Content
<1>4. \A d \in Channels : (Blank(d)' <=> Blank(d)) /\ \A k : Shows(d, k)' <=> Shows(d, k)
  BY <1>3 DEF Blank, Shows, Of
<1>5. NoLane \in Lanes /\ NoLane.buffer = <<>> /\ <<>> \in Texts
  <2>1. <<>> \in Texts
    BY DEF Texts
  <2> QED BY <2>1 DEF NoLane, Lanes
<1>6. PICK hs : hs = [w.lane EXCEPT ![c] = NoLane]
  OBVIOUS
<1>7. hs \in [Channels -> Lanes] /\ hs[c] = NoLane /\ \A d \in Channels : d # c => hs[d] = w.lane[d]
  BY <1>0, <1>1, <1>5, <1>6, WriterFields
<1>8. PICK h : h = [w EXCEPT !.stage = "seal", !.sealing = @ \ {c}, !.snapshot = <<>>, !.lane = hs]
  OBVIOUS
<1>9. writer' = [writer EXCEPT ![a] = h]
  BY <1>0, <1>6, <1>8 DEF Sealed, StreamWriters
<1>10. h \in StreamWriters
  <2>1. w.sealing \ {c} \subseteq Channels
    BY <1>0, WriterFields
  <2> QED BY <2>1, <1>0, <1>5, <1>7, <1>8 DEF StreamWriters, WriterStages
<1>11. /\ h.stage = "seal" /\ h.token = w.token /\ h.noop = w.noop
       /\ h.failed = w.failed /\ h.said = w.said /\ h.outcome = w.outcome /\ h.final = w.final
       /\ h.sealing = w.sealing \ {c} /\ h.inflight = w.inflight
       /\ h.lane[c] = NoLane /\ \A d \in Channels : d # c => h.lane[d] = w.lane[d]
  BY <1>0, <1>7, <1>8 DEF StreamWriters
<1>12. /\ ~InHand(h) /\ ~Dispatching(h) /\ Sealing(h) /\ ~Speaks(h)
       /\ Completes(h) <=> w.outcome = "completed"
       /\ Completes(w) <=> w.outcome = "completed"
  <2>1. ~InHand(h)
    BY <1>1, <1>5, <1>11 DEF InHand
  <2> QED BY <2>1, <1>1, <1>11 DEF Dispatching, Sealing, Speaks, Completes
<1>13. LanesFit(h)
  <2>1. \A d \in Channels :
          /\ Of(h.lane[d].buffer, h.token)
          /\ IF h.lane[d].on THEN h.lane[d].gen > 0 ELSE h.lane[d] = NoLane
          /\ h.inflight # d
    <3> SUFFICES ASSUME NEW d \in Channels
                 PROVE  /\ Of(h.lane[d].buffer, h.token)
                        /\ IF h.lane[d].on THEN h.lane[d].gen > 0 ELSE h.lane[d] = NoLane
                        /\ h.inflight # d
      OBVIOUS
    <3>0. h.inflight # d
      BY <1>12 DEF InHand, Channels
    <3>1. CASE d = c
      BY <3>0, <3>1, <1>5, <1>11 DEF Of, NoLane
    <3>2. CASE d # c
      BY <3>0, <3>2, <1>0, <1>11 DEF LanesFit
    <3> QED BY <3>1, <3>2
  <2> QED BY <2>1, <1>11, <1>12 DEF LanesFit
<1>14. ClosingFits(h)
  <2>1. \A d \in h.sealing : h.lane[d].on
    <3>1. w.sealing \subseteq Channels /\ \A d \in w.sealing : w.lane[d].on
      BY <1>0, <1>1, WriterFields DEF ClosingFits
    <3> QED BY <3>1, <1>11
  <2>2. "output" \notin h.sealing
    BY <1>1, <1>11
  <2>3. ~h.noop /\ ~h.failed
    BY <1>0, <1>1, <1>11 DEF ClosingFits
  <2> QED BY <2>1, <2>2, <2>3, <1>11 DEF ClosingFits
<1>15. WriterFits(h)
  BY <1>11, <1>12, <1>13, <1>14 DEF WriterFits, DispatchFits
<1>16. LaneFits(a, h)'
  <2>2. \A d \in Channels : h.lane[d].on =>
             /\ h.lane[d].gen = streamHead'[d].gen /\ streamHead'[d].gen > 0
             /\ ~h.failed => h.lane[d].text = Content(d)'
    <3> SUFFICES ASSUME NEW d \in Channels, h.lane[d].on
                 PROVE  /\ h.lane[d].gen = streamHead'[d].gen /\ streamHead'[d].gen > 0
                        /\ ~h.failed => h.lane[d].text = Content(d)'
      OBVIOUS
    <3>1. d # c
      BY <1>11 DEF NoLane
    <3> QED BY <3>1, <1>1, <1>3, <1>11 DEF CurrentWriterFits
  <2>4. CurrentWriterFits(h)'
    BY <2>2, <1>11 DEF CurrentWriterFits
  <2> QED BY <2>4 DEF LaneFits
<1>17. durableCall => DurableFits(a, h)'
  BY <1>0, <1>2, <1>11, <1>12 DEF DurableFits
<1>18. ~durableCall => PlainFits(a, h)'
  BY <1>0, <1>1, <1>2, <1>4, <1>11, <1>12 DEF PlainFits, StreamIsCurrent, Of
<1>19. durableCall => \A b \in Activations : b # a => DurableFits(b, writer[b])'
  <2>1. \A b \in Activations : b # a => writer'[b] = writer[b]
    BY <1>9, WriterFacts
  <2> QED BY <2>1, <1>2, <1>4, OthersDurable
<1>20. ASSUME durableCall PROVE DurableCallFits'
  <2>1. DurableCallFits
    BY <1>20 DEF StreamInv
  <2>2. "output" \in Channels /\ published' = IF c = "output" /\ w.outcome = "completed"
                                              THEN published \union {w.final} ELSE published
    BY DEF Sealed, Channels
  <2>3. w.outcome = "completed" => streamCall.state = "settled" /\ w.final = streamCall.text
    BY <1>0, <1>12, <1>20 DEF DurableFits
  <2>4. streamCall.state # "settled" => streamCall.text = <<>> /\ published' = {}
    BY <2>1, <2>2, <2>3 DEF DurableCallFits
  <2>5. streamCall.state = "settled" /\ published' # {} =>
          /\ published' = {streamCall.text}
          /\ streamHead'["output"].sealed /\ streamHead'["output"].final = streamCall.text
    <3> SUFFICES ASSUME streamCall.state = "settled", published' # {}
                 PROVE  /\ published' = {streamCall.text}
                        /\ streamHead'["output"].sealed /\ streamHead'["output"].final = streamCall.text
      OBVIOUS
    <3>1. published # {} => /\ published = {streamCall.text}
                            /\ streamHead["output"].sealed /\ streamHead["output"].final = streamCall.text
      BY <2>1 DEF DurableCallFits
    <3>2. CASE c = "output" /\ w.outcome = "completed"
      <4>1. w.lane["output"].text = w.final
        BY <3>2, <1>0, <1>1 DEF ClosingFits
      <4> QED BY <4>1, <3>1, <3>2, <2>2, <2>3
    <3>3. CASE c = "output" /\ w.outcome # "completed"
      BY <3>1, <3>3, <2>2
    <3>4. CASE c # "output"
      BY <3>1, <3>4, <2>2
    <3> QED BY <3>2, <3>3, <3>4
  <2> QED BY <2>1, <2>2, <2>4, <2>5, <1>2, <1>4 DEF DurableCallFits
<1>21. ~durableCall => PlainCallFits'
  BY <1>2 DEF StreamInv, PlainCallFits
<1>22. streamCall' \in StreamCalls
  BY <1>2 DEF StreamInv, StreamTypes
<1>23. h.token = writer[a].token /\ (Speaks(h) => FALSE)
  BY <1>11, <1>12
<1> QED BY <1>2, <1>9, <1>10, <1>15, <1>16, <1>17, <1>18, <1>19, <1>20, <1>21, <1>22, <1>23, CurrentStep

\* The second transaction of seal commits.
LEMMA SealCommitStep ==
    ASSUME StreamInv, NEW a \in Activations, SealCommit(a) PROVE StreamInv'
<1>a. PICK w : w = writer[a]
  OBVIOUS
<1>b. PICK c : c = SealNext(a)
  OBVIOUS
<1>1. /\ w.stage = "sealing" /\ StreamIsCurrent(a) /\ SealAccepted(c, w.lane[c].gen, w.lane[c].text)
      /\ StoreSeals(c, w.lane[c].text) /\ Sealed(a, c)
  BY <1>a, <1>b DEF SealCommit
<1>2. w.sealing # {}
  BY <1>a, <1>1, WriterFacts DEF WriterFits, ClosingFits
<1>3. c \in Channels /\ streamHead[c].gen > 0 /\ w.lane[c].text = Content(c)
  BY <1>a, <1>b, <1>1, <1>2, LaneToSeal
<1>4. streamCall' = streamCall
  BY <1>1 DEF Sealed
<1>5. /\ StoreTypes' /\ StreamTablesFit' /\ chunks' = chunks
      /\ streamHead'[c] = [streamHead[c] EXCEPT !.sealed = TRUE, !.final = Content(c)]
      /\ \A d \in Channels : streamHead'[d].gen = streamHead[d].gen
      /\ \A d \in Channels : d # c => streamHead'[d] = streamHead[d]
  BY <1>1, <1>3, <1>4, SealEffect DEF StreamInv
<1>6. streamHead'[c].sealed /\ streamHead'[c].final = w.lane[c].text
  BY <1>3, <1>5 DEF StreamInv, StreamTypes, StreamHeads
<1>7. ~streamHead[c].sealed
  BY <1>1 DEF SealAccepted
<1>8. /\ StoreTypes' /\ StreamTablesFit' /\ chunks' = chunks
      /\ \A d \in Channels : streamHead'[d].gen = streamHead[d].gen
      /\ \A d \in Channels : d # c => streamHead'[d] = streamHead[d]
  BY <1>5
<1>9. w.stage \in {"seal", "sealing"} /\ StreamIsCurrent(a) /\ Sealed(a, c)
  BY <1>1
<1> QED BY <1>a, <1>b, <1>2, <1>6, <1>7, <1>8, <1>9, SealedStep

\* seal of a channel that is sealed with this text is acknowledged.
LEMMA SealAgainStep ==
    ASSUME StreamInv, NEW a \in Activations, SealAgain(a) PROVE StreamInv'
<1>a. PICK w : w = writer[a]
  OBVIOUS
<1>b. PICK c : c = SealNext(a)
  OBVIOUS
<1>1. /\ w.stage = "seal" /\ w.sealing # {} /\ StreamIsCurrent(a)
      /\ streamHead[c].sealed /\ streamHead[c].final = w.lane[c].text
      /\ streamHead' = streamHead /\ chunks' = chunks /\ runOver' = runOver /\ Sealed(a, c)
  BY <1>a, <1>b DEF SealAgain, SealAcknowledged, streamTables
<1>2. StoreTypes'
  BY <1>1 DEF StreamInv, StreamTypes, StoreTypes
<1>3. StreamTablesFit'
  <2>1. streamCall' = streamCall
    BY <1>1 DEF Sealed
  <2>2. \A c_1 \in Channels : Content(c_1)' = Content(c_1)
    BY <1>1 DEF Content
  <2>3. \A k : OneVisible(k) => OneVisible(k)'
    BY <2>1, <2>2, <1>1 DEF OneVisible, Shows, Of
  <2> QED BY <2>3, <1>1 DEF StreamInv, StreamTablesFit
<1> QED BY <1>a, <1>b, <1>1, <1>2, <1>3, SealedStep

-----------------------------------------------------------------------------
(* The lease moves, and an activation begins or is over *)

\* A writer that has not begun, or is over.
Idle(h, n) ==
    \E stage \in {"off", "open"}, own \in 0 .. n, noop \in BOOLEAN : h = Bare(stage, own, noop)

\* It fits whatever the tables hold.
LEMMA IdleWriterFits ==
    ASSUME NEW h, generation' \in Nat, Idle(h, generation')
    PROVE  /\ h \in StreamWriters /\ WriterFits(h) /\ h.token <= generation' /\ ~Speaks(h)
           /\ \A a : LaneFits(a, h)' /\ DurableFits(a, h)' /\ PlainFits(a, h)'
<1>1. PICK stage \in {"off", "open"}, own \in 0 .. generation', noop \in BOOLEAN :
         h = Bare(stage, own, noop)
  BY DEF Idle
<1>2. own \in Nat /\ own <= generation'
  BY <1>1
<1>3. /\ h \in StreamWriters /\ WriterFits(h) /\ \A c \in Channels : h.lane[c] = NoLane
      /\ h.stage = stage /\ h.token = own
      /\ ~InHand(h) /\ ~Dispatching(h) /\ ~Speaks(h) /\ ~Completes(h) /\ ~Sealing(h)
  <2>1. stage \in {"off", "open", "ready", "done"}
    OBVIOUS
  <2> QED BY <2>1, <1>1, <1>2, BareWriter
<1>4. \A c \in Channels : ~h.lane[c].on
  BY <1>3 DEF NoLane
<1>5. \A a : LaneFits(a, h)'
  BY <1>1, <1>3, <1>4 DEF LaneFits, CurrentWriterFits
<1>6. \A a : DurableFits(a, h)' /\ PlainFits(a, h)'
  BY <1>1, <1>3 DEF DurableFits, PlainFits
<1> QED BY <1>2, <1>3, <1>5, <1>6

\* The lease moves: who did not hold it before does not hold it with an
\* earlier token after.
LEMMA LeaseStep ==
    ASSUME StreamInv, UNCHANGED <<durableCall, streamCall, streamHead, chunks, published>>,
           runOver' \in BOOLEAN, generation' \in Nat, generation <= generation',
           holder' \in Activations \union {NoActivation},
           \A b \in Activations : \A own \in 0 .. generation : Holds(b, own)' => Holds(b, own),
           DOMAIN writer' = Activations, writer' = [b \in Activations |-> writer'[b]],
           \A b \in Activations : writer'[b] = writer[b] \/ Idle(writer'[b], generation')
    PROVE  StreamInv'
<1>1. \A c \in Channels : Content(c)' = Content(c)
  BY DEF Content
<1>2. \A c \in Channels : (Blank(c)' <=> Blank(c)) /\ \A k : Shows(c, k)' <=> Shows(c, k)
  BY <1>1 DEF Blank, Shows, Of
<1>3. StreamTablesFit'
  <2>1. \A k : OneVisible(k) => OneVisible(k)'
    BY <1>2 DEF OneVisible, Of
  <2> QED BY <2>1 DEF StreamInv, StreamTablesFit
<1>4. \A b \in Activations : Idle(writer'[b], generation') =>
         /\ writer'[b] \in StreamWriters /\ WriterFits(writer'[b]) /\ writer'[b].token <= generation'
         /\ ~Speaks(writer'[b])
         /\ LaneFits(b, writer[b])' /\ DurableFits(b, writer[b])' /\ PlainFits(b, writer[b])'
  <2> SUFFICES ASSUME NEW b \in Activations, Idle(writer'[b], generation')
               PROVE  /\ writer'[b] \in StreamWriters /\ WriterFits(writer'[b])
                      /\ writer'[b].token <= generation' /\ ~Speaks(writer'[b])
                      /\ LaneFits(b, writer[b])' /\ DurableFits(b, writer[b])' /\ PlainFits(b, writer[b])'
    OBVIOUS
  <2>1. PICK h : h = writer'[b]
    OBVIOUS
  <2>2. Idle(h, generation')
    BY <2>1 DEF Idle
  <2>3. /\ h \in StreamWriters /\ WriterFits(h) /\ h.token <= generation' /\ ~Speaks(h)
        /\ LaneFits(b, h)' /\ DurableFits(b, h)' /\ PlainFits(b, h)'
    BY <2>2, IdleWriterFits
  <2>4. LaneFits(b, writer[b])'
    BY <2>1, <2>3 DEF LaneFits, CurrentWriterFits, Holds
  <2>5. DurableFits(b, writer[b])'
    BY <2>1, <2>3 DEF DurableFits, Speaks, Dispatching, InHand, Completes, Sealing, Holds
  <2>6. PlainFits(b, writer[b])'
    BY <2>1, <2>3 DEF PlainFits, InHand, Completes, Sealing, Holds, Of
  <2> QED BY <2>1, <2>3, <2>4, <2>5, <2>6
<1>5. \A b \in Activations : writer'[b] = writer[b] =>
         /\ writer'[b] \in StreamWriters /\ WriterFits(writer'[b]) /\ writer'[b].token <= generation'
         /\ LaneFits(b, writer[b])'
         /\ durableCall => DurableFits(b, writer[b])'
         /\ ~durableCall => PlainFits(b, writer[b])'
  <2> SUFFICES ASSUME NEW b \in Activations, writer'[b] = writer[b]
               PROVE  /\ writer'[b] \in StreamWriters /\ WriterFits(writer'[b])
                      /\ writer'[b].token <= generation'
                      /\ LaneFits(b, writer[b])'
                      /\ durableCall => DurableFits(b, writer[b])'
                      /\ ~durableCall => PlainFits(b, writer[b])'
    OBVIOUS
  <2>1. PICK v : v = writer[b]
    OBVIOUS
  <2>2. /\ v \in StreamWriters /\ WriterFits(v) /\ v.token <= generation /\ v.token \in Nat
        /\ LaneFits(b, v)
        /\ durableCall => DurableFits(b, v)
        /\ ~durableCall => PlainFits(b, v)
    BY <2>1, WriterFacts, WriterFields DEF StreamInv
  <2>3. generation \in Nat /\ v.token \in 0 .. generation
    BY <2>2 DEF StreamInv, StreamTypes
  <2>4. Holds(b, v.token)' => Holds(b, v.token)
    BY <2>3
  <2>5. LaneFits(b, v)'
    BY <2>2, <2>4, <1>1 DEF LaneFits, CurrentWriterFits
  <2>6. durableCall => DurableFits(b, v)'
    BY <2>2, <2>4, <1>2 DEF DurableFits
  <2>7. ~durableCall => PlainFits(b, v)'
    BY <2>2, <2>4, <1>2 DEF PlainFits
  <2>8. LaneFits(b, writer[b])'
    BY <2>1, <2>5 DEF LaneFits, CurrentWriterFits, Holds
  <2>9. durableCall => DurableFits(b, writer[b])'
    BY <2>1, <2>6 DEF DurableFits, Speaks, Dispatching, InHand, Completes, Sealing, Holds
  <2>10. ~durableCall => PlainFits(b, writer[b])'
    BY <2>1, <2>7 DEF PlainFits, InHand, Completes, Sealing, Holds, Of
  <2> QED BY <2>1, <2>2, <2>3, <2>8, <2>9, <2>10
<1>6. \A b \in Activations :
         /\ writer'[b] \in StreamWriters /\ WriterFits(writer'[b]) /\ writer'[b].token <= generation'
         /\ LaneFits(b, writer[b])'
         /\ durableCall => DurableFits(b, writer[b])'
         /\ ~durableCall => PlainFits(b, writer[b])'
  BY <1>4, <1>5
<1>7. StreamTypes'
  <2>1. writer' \in [Activations -> StreamWriters]
    BY <1>6
  <2> QED BY <2>1 DEF StreamInv, StreamTypes
<1>8. durableCall => DurableCallFits' /\ OneSpeaks'
  <2> SUFFICES ASSUME durableCall PROVE DurableCallFits' /\ OneSpeaks'
    OBVIOUS
  <2>1. DurableCallFits'
    BY <1>2 DEF StreamInv, DurableCallFits
  <2>2. \A b \in Activations : Speaks(writer'[b]) => Speaks(writer[b])
    BY <1>4
  <2>3. OneSpeaks'
    <3> SUFFICES ASSUME NEW b \in Activations, NEW d \in Activations,
                        Speaks(writer'[b]), Speaks(writer'[d])
                 PROVE  b = d
      BY DEF OneSpeaks, Speaks, Dispatching, InHand
    <3> QED BY <2>2 DEF StreamInv, OneSpeaks
  <2> QED BY <2>1, <2>3
<1>9. ~durableCall => PlainCallFits'
  BY DEF StreamInv, PlainCallFits
<1>10. \A b \in Activations : (WriterFits(writer[b]) /\ writer[b].token <= generation)'
  <2>1. \A b \in Activations : WriterFits(writer'[b]) /\ writer'[b].token <= generation'
    BY <1>6
  <2> QED BY <2>1 DEF WriterFits
<1>11. durableCall' = durableCall
  OBVIOUS
<1> QED BY <1>3, <1>6, <1>7, <1>8, <1>9, <1>10, <1>11 DEF StreamInv

\* An activation is granted the lease and starts.
LEMMA StartStreamStep ==
    ASSUME StreamInv, NEW a \in Activations, StartStream(a) PROVE StreamInv'
<1>1. /\ holder = NoActivation /\ holder' = a /\ generation' = generation + 1 /\ generation \in Nat
      /\ writer' = [writer EXCEPT ![a] = [NoWriter EXCEPT !.stage = "open", !.token = generation']]
      /\ UNCHANGED <<durableCall, streamCall, streamTables, published>>
      /\ writer \in [Activations -> StreamWriters] /\ runOver \in BOOLEAN
  BY DEF StartStream, Granted, Lease!Grant, StreamInv, StreamTypes
<1>2. PICK g : g = generation'
  OBVIOUS
<1>3. g \in Nat /\ g = generation + 1 /\ generation <= g
  BY <1>1, <1>2
<1>4. PICK h : h = [NoWriter EXCEPT !.stage = "open", !.token = g]
  OBVIOUS
<1>n. PICK noop \in BOOLEAN : noop = FALSE
  OBVIOUS
<1>5. h = Bare("open", g, noop)
  BY <1>4, <1>n DEF NoWriter, Bare
<1>6. Idle(h, g)
  BY <1>3, <1>5 DEF Idle
<1>7. writer' = [writer EXCEPT ![a] = h]
  BY <1>1, <1>2, <1>4
<1>8. /\ DOMAIN writer' = Activations /\ writer' = [b \in Activations |-> writer'[b]]
      /\ \A b \in Activations : writer'[b] = writer[b] \/ Idle(writer'[b], g)
  BY <1>1, <1>6, <1>7
<1>9. \A b \in Activations : \A own \in 0 .. generation : Holds(b, own)' => Holds(b, own)
  BY <1>1 DEF Holds
<1> QED BY <1>1, <1>2, <1>3, <1>8, <1>9, LeaseStep DEF streamTables

\* An activation is over.
LEMMA StreamActivationEndsStep ==
    ASSUME StreamInv, NEW a \in Activations, StreamActivationEnds(a) PROVE StreamInv'
<1>1. /\ holder' \in {holder, NoActivation} /\ generation' = generation /\ generation \in Nat
      /\ writer' = [writer EXCEPT ![a] = NoWriter]
      /\ UNCHANGED <<durableCall, streamCall, streamHead, chunks, published>>
      /\ writer \in [Activations -> StreamWriters] /\ runOver' \in BOOLEAN
      /\ holder \in Activations \union {NoActivation}
  BY DEF StreamActivationEnds, Released, StreamInv, StreamTypes
<1>n. PICK noop \in BOOLEAN : noop = FALSE
  OBVIOUS
<1>2. NoWriter = Bare("off", 0, noop)
  BY <1>n DEF NoWriter, Bare
<1>3. Idle(NoWriter, generation')
  BY <1>1, <1>2 DEF Idle
<1>4. /\ DOMAIN writer' = Activations /\ writer' = [b \in Activations |-> writer'[b]]
      /\ \A b \in Activations : writer'[b] = writer[b] \/ Idle(writer'[b], generation')
  BY <1>1, <1>3
<1>5. \A b \in Activations : \A own \in 0 .. generation : Holds(b, own)' => Holds(b, own)
  BY <1>1, ActivationsAssumption DEF Holds
<1> QED BY <1>1, <1>4, <1>5, LeaseStep

\* The lease lapses.
LEMMA StreamLeaseExpiresStep ==
    ASSUME StreamInv, StreamLeaseExpires PROVE StreamInv'
<1>1. /\ holder' = NoActivation /\ generation' = generation /\ generation \in Nat
      /\ writer' = writer /\ runOver' = runOver
      /\ UNCHANGED <<durableCall, streamCall, streamHead, chunks, published>>
      /\ writer \in [Activations -> StreamWriters] /\ runOver' \in BOOLEAN
  BY DEF StreamLeaseExpires, Lease!Lapse, StreamInv, StreamTypes, streamTables
<1>2. DOMAIN writer' = Activations /\ writer' = [b \in Activations |-> writer'[b]]
  BY <1>1
<1>3. \A b \in Activations : \A own \in 0 .. generation : Holds(b, own)' => Holds(b, own)
  BY <1>1, ActivationsAssumption DEF Holds
<1> QED BY <1>1, <1>2, <1>3, LeaseStep

-----------------------------------------------------------------------------
(* The invariant holds *)

\* The invariant holds initially.
LEMMA StreamInvInit == StreamInit => StreamInv
<1> SUFFICES ASSUME StreamInit PROVE StreamInv
  OBVIOUS
<1>1. /\ generation = 0 /\ holder = NoActivation /\ durableCall \in BOOLEAN /\ runOver = FALSE
      /\ streamCall = [state |-> "idle", text |-> <<>>, streamed |-> 0, said |-> <<>>]
      /\ streamHead = [c \in Channels |-> NoHead] /\ chunks = [c \in Channels |-> <<>>]
      /\ writer = [a \in Activations |-> NoWriter] /\ published = {}
  BY DEF StreamInit, Lease!Init
<1>2. PICK h : h = NoWriter
  OBVIOUS
<1>n. PICK noop \in BOOLEAN : noop = FALSE
  OBVIOUS
<1>3. h = Bare("off", 0, noop)
  BY <1>2, <1>n DEF NoWriter, Bare
<1>4. /\ h \in StreamWriters /\ WriterFits(h) /\ h.stage = "off" /\ h.token = 0
      /\ ~InHand(h) /\ ~Dispatching(h) /\ ~Speaks(h) /\ ~Completes(h) /\ ~Sealing(h)
  <2>1. "off" \in {"off", "open", "ready", "done"} /\ 0 \in Nat
    OBVIOUS
  <2> QED BY <2>1, <1>3, BareWriter
<1>5. <<>> \in Texts /\ <<>> \in Seq(Texts) /\ Len(<<>>) = 0
  BY DEF Texts
<1>6. NoHead \in StreamHeads /\ NoHead.gen = 0 /\ ~NoHead.sealed
  BY <1>5 DEF NoHead, StreamHeads
<1>7. streamCall \in StreamCalls /\ streamCall.state = "idle" /\ streamCall.text = <<>>
  BY <1>1, <1>5 DEF StreamCalls
<1>8. StreamTypes
  BY <1>1, <1>2, <1>4, <1>5, <1>6, <1>7 DEF StreamTypes
<1>9. StreamTablesFit
  <2>1. \A c \in Channels : streamHead[c] = NoHead /\ chunks[c] = <<>> /\ streamHead[c].gen = 0
    BY <1>1, <1>6
  <2>2. \A c \in Channels : ChannelFits(streamHead[c], chunks[c])
    BY <2>1, <1>5, <1>6 DEF ChannelFits
  <2>3. OneVisible(0)
    BY <2>1, <1>5, <1>7 DEF OneVisible, Of, Shows
  <2>4. "reasoning" \in Channels
    BY DEF Channels
  <2> QED BY <2>1, <2>2, <2>3, <2>4 DEF StreamTablesFit
<1>10. \A a \in Activations : writer[a] = h
  BY <1>1, <1>2
<1>11. \A a \in Activations : LaneFits(a, h) /\ DurableFits(a, h) /\ PlainFits(a, h)
  BY <1>4 DEF LaneFits, DurableFits, PlainFits
<1>12. DurableCallFits /\ OneSpeaks /\ PlainCallFits
  BY <1>1, <1>4, <1>6, <1>7, <1>10 DEF DurableCallFits, OneSpeaks, PlainCallFits, Blank
<1> QED BY <1>1, <1>4, <1>8, <1>9, <1>10, <1>11, <1>12 DEF StreamInv

\* Every action keeps the invariant.
LEMMA StreamInvStep == StreamInv /\ [StreamNext]_streamVars => StreamInv'
<1> SUFFICES ASSUME StreamInv, [StreamNext]_streamVars PROVE StreamInv'
  OBVIOUS
<1>1. CASE StreamLeaseExpires
  BY <1>1, StreamLeaseExpiresStep
<1>2. ASSUME NEW a \in Activations, ModelCall(a) PROVE StreamInv'
  <2>1. CASE StartStream(a) \/ OpenOutput(a) \/ OpenReasoning(a) \/ OpenFails(a)
    BY <2>1, StartStreamStep, OpenLaneStep, OpenFailsStep
  <2>2. CASE RecoverAnswer(a) \/ RecoverDoubt(a) \/ BeginDispatch(a)
    BY <2>2, RecoverAnswerStep, RecoverDoubtStep, BeginDispatchStep
  <2>3. CASE \E c \in Channels : ResetLane(a, c) \/ ResetFails(a, c) \/ Push(a, c)
    BY <2>3, ResetLaneStep, ResetFailsStep, PushStep
  <2>4. CASE \E n \in 0 .. MaxDeltas : ProviderAnswers(a, n)
    BY <2>4, ProviderAnswersStep
  <2>5. CASE ProviderFails(a) \/ PrepareSettlement(a) \/ PrepareFails(a) \/ SettleAnswer(a)
    BY <2>5, ProviderFailsStep, PrepareSettlementStep, PrepareFailsStep, SettleAnswerStep
  <2> QED BY <1>2, <2>1, <2>2, <2>3, <2>4, <2>5 DEF ModelCall
<1>3. ASSUME NEW a \in Activations, Closing(a) PROVE StreamInv'
  <2>1. CASE CloseStream(a) \/ RebuildStarts(a) \/ RebuildByte(a)
    BY <2>1, CloseStreamStep, RebuildStartsStep, RebuildByteStep
  <2>2. CASE RebuildEnds(a) \/ SealSnapshot(a)
    BY <2>2, SealingStep
  <2>3. CASE SealCommit(a) \/ SealAgain(a) \/ StreamEnds(a)
    BY <2>3, SealCommitStep, SealAgainStep, DoneStep
  <2> QED BY <1>3, <2>1, <2>2, <2>3 DEF Closing
<1>4. ASSUME NEW a \in Activations,
             \/ \E c \in Channels : TakeBatch(a, c)
             \/ FlushBatch(a) \/ FlushFails(a)
             \/ StreamStops(a) \/ StreamActivationEnds(a)
      PROVE  StreamInv'
  BY <1>4, TakeBatchStep, FlushBatchStep, FlushFailsStep, DoneStep, StreamActivationEndsStep
<1>5. CASE UNCHANGED streamVars
  <2>1. \A b \in Activations : \A own \in 0 .. generation : Holds(b, own)' => Holds(b, own)
    BY <1>5 DEF streamVars, leaseVars, Holds
  <2>2. /\ DOMAIN writer' = Activations /\ writer' = [b \in Activations |-> writer'[b]]
        /\ \A b \in Activations : writer'[b] = writer[b]
    BY <1>5 DEF streamVars, StreamInv, StreamTypes
  <2>3. /\ generation' \in Nat /\ generation <= generation' /\ runOver' \in BOOLEAN
        /\ holder' \in Activations \union {NoActivation}
        /\ UNCHANGED <<durableCall, streamCall, streamHead, chunks, published>>
    BY <1>5 DEF streamVars, streamTables, leaseVars, StreamInv, StreamTypes
  <2> QED BY <2>1, <2>2, <2>3, LeaseStep
<1> QED BY <1>1, <1>2, <1>3, <1>4, <1>5 DEF StreamNext

\* The invariant implies the property.
LEMMA StreamInvIsWhole == StreamInv => SettledStreamIsWhole
<1> SUFFICES ASSUME StreamInv PROVE SettledStreamIsWhole
  OBVIOUS
<1>1. StreamTypes /\ StreamTablesFit
  BY DEF StreamInv
<1>2. ASSUME NEW c \in Channels, NEW g \in 1 .. Len(chunks[c]),
             NEW i \in 1 .. Len(chunks[c][g]), NEW j \in 1 .. Len(chunks[c][g])
      PROVE  chunks[c][g][i] = chunks[c][g][j]
  BY <1>1 DEF StreamTablesFit, ChannelFits, Of
<1>3. ASSUME NEW c \in Channels, NEW d \in Channels, streamHead[c].gen > 0, streamHead[d].gen > 0,
             Content(c) # <<>>, Content(d) # <<>>
      PROVE  Content(c)[1] = Content(d)[1]
  <2>1. PICK k \in Nat : OneVisible(k)
    BY <1>1 DEF StreamTablesFit
  <2>2. Of(Content(c), k) /\ Of(Content(d), k)
    BY <2>1, <1>3 DEF OneVisible, Shows
  <2>3. Content(c) \in Texts /\ Content(d) \in Texts
    BY <1>1, <1>3, ContentIsText
  <2>4. 1 \in 1 .. Len(Content(c)) /\ 1 \in 1 .. Len(Content(d))
    BY <2>3, <1>3 DEF Texts
  <2> QED BY <2>2, <2>4 DEF Of
<1>4. \A c \in Channels : streamHead[c].sealed => Content(c) = streamHead[c].final
  BY <1>1 DEF StreamTablesFit, ChannelFits, Content
<1>5. durableCall /\ streamCall.state = "settled" =>
          /\ streamCall.streamed > 0 => chunks["output"][streamCall.streamed] = streamCall.said
          /\ published # {} =>
                /\ published = {streamCall.text}
                /\ streamHead["output"].sealed /\ Content("output") = streamCall.text
  BY <1>4 DEF StreamInv, DurableCallFits, Channels
<1> QED BY <1>2, <1>3, <1>4, <1>5 DEF SettledStreamIsWhole

\* A reader never sees two executions of a model call mixed, a durable answer
\* comes with every delta delivered before it was settled, and a published
\* stream stays sealed with the settled text (PostgresObjectStoreDurableStreamStore,
\* _DurableModelStreamWriter, _acall_model_for_turn), for any number of
\* activations, deltas and generations, whichever of them crash or are fenced.
THEOREM StreamsAreWhole == StreamSpec => []SettledStreamIsWhole
<1>1. StreamInit => StreamInv
  BY StreamInvInit
<1>2. StreamInv /\ [StreamNext]_streamVars => StreamInv'
  BY StreamInvStep
<1>3. StreamInv => SettledStreamIsWhole
  BY StreamInvIsWhole
<1> QED BY <1>1, <1>2, <1>3, PTL DEF StreamSpec

-----------------------------------------------------------------------------
(* The abandonable call.  Who looks at the result last decides about it: the *)
(* awaiter while it waits, the delivery or the done callback after it has   *)
(* let go, the worker itself when the loop is closed.  The invariant says   *)
(* at each place whether that has happened.                                 *)

Awaits ==
    [pc : {"live", "waiting", "detaching", "done"},
     result : {"none", "boundary", "stopped", "failed", "twice"} \union Endings]

Tokens ==
    [requested : BOOLEAN, callback : {"none", "registered", "taken", "called"}, signal : BOOLEAN]

\* A call is at one place, and its result was handed back at most once.
BridgeTypes ==
    /\ shape \in {"sync", "async"}
    /\ outcome \in {"unstarted", "running"} \union Endings
    /\ future \in {"pending"} \union Endings
    /\ post \in {"none", "posted", "run", "refused", "dropped"}
    /\ callback \in BOOLEAN /\ open \in BOOLEAN /\ asked \in BOOLEAN /\ late \in BOOLEAN
    /\ awaiter \in Awaits /\ token \in Tokens
    /\ handed \in {0, 1}

\* A wait that is not over has no result, and only a request wakes by the token.
WaitFits ==
    /\ awaiter.pc \in {"live", "waiting"} => awaiter.result = "none"
    /\ awaiter.pc = "detaching" => awaiter.result \in {"boundary", "stopped", "failed"}
    /\ token.callback = "taken" \/ token.signal => token.requested
    /\ ~open => awaiter.pc = "done"

\* What a call produced is with the caller, handed back, or not yet decided.
NotYet == handed = 0 /\ awaiter.result # "value"

Given == handed + (IF awaiter.result = "value" THEN 1 ELSE 0) = 1

\* A blocking call: its waiter is cancelled by who lets it go, or settled by the delivery.
SyncFits ==
    /\ outcome # "unstarted" /\ ~callback
    /\ (outcome = "running") = (post = "none")
    /\ outcome # "value" => NotYet /\ future # "value"
    /\ awaiter.pc = "live" => future = "pending" /\ post \in {"none", "posted"}
    /\ awaiter.pc = "detaching" => future = "cancelled"
    /\ awaiter.pc = "done" => future # "pending"
    /\ post \in {"none", "posted", "dropped"} => NotYet /\ future \in {"pending", "cancelled"}
    /\ post \in {"none", "posted"} /\ awaiter.pc = "waiting" => future = "pending"
    /\ post = "refused" => ~open
    /\ post = "run" => future # "pending"
    /\ post = "run" /\ outcome = "value" /\ awaiter.pc = "waiting" => future = "value" /\ NotYet
    /\ outcome = "value" /\ awaiter.pc \in {"detaching", "done"} /\ post \in {"run", "refused"} => Given

\* A task: it is the call, and its callback is the last to look at it.
AsyncFits ==
    /\ post = "none"
    /\ future = IF outcome \in Endings THEN outcome ELSE "pending"
    /\ outcome # "value" => NotYet
    /\ callback => awaiter.pc = "done" /\ awaiter.result # "twice"
    /\ outcome = "unstarted" => awaiter.pc # "waiting"
    /\ awaiter.pc = "live" => outcome = "unstarted" /\ ~asked
    /\ awaiter.pc \in {"waiting", "detaching"} => NotYet
    /\ awaiter.result = "twice" => NotYet
    /\ awaiter.pc = "done" /\ future = "pending" => callback \/ awaiter.result = "twice"
    /\ awaiter.pc = "done" /\ outcome = "value" /\ awaiter.result # "twice" => Given
    /\ ~open => future # "pending"

\* The invariant of an abandonable call.
BridgeInv ==
    /\ BridgeTypes /\ WaitFits
    /\ shape = "sync" => SyncFits
    /\ shape = "async" => AsyncFits

\* The invariant holds before a wait begins.
LEMMA BridgeInitFits == BridgeInit => BridgeInv
<1> SUFFICES ASSUME BridgeInit PROVE BridgeInv
    OBVIOUS
<1>1. BridgeTypes
    BY DEF BridgeInit, BridgeTypes, Awaits, Tokens, Endings
<1>2. WaitFits
    BY DEF BridgeInit, WaitFits
<1>3. shape = "sync" => SyncFits
    BY DEF BridgeInit, SyncFits, NotYet
<1>4. shape = "async" => AsyncFits
    BY DEF BridgeInit, AsyncFits, NotYet, Endings
<1> QED
    BY <1>1, <1>2, <1>3, <1>4 DEF BridgeInv

\* No step of callee, awaiter, canceller or loop breaks it.
LEMMA BridgeStepFits == BridgeInv /\ [BridgeNext]_bridgeVars => BridgeInv'
<1> SUFFICES ASSUME BridgeInv, [BridgeNext]_bridgeVars PROVE BridgeInv'
    OBVIOUS
<1> USE DEF BridgeInv, NotYet, Given, Endings
<1>1. ASSUME NEW ending \in Endings, WorkerReturns(ending) PROVE BridgeInv'
    <2>1. BridgeTypes'
        BY <1>1 DEF WorkerReturns, HandBack, KeepResult, BridgeTypes, Awaits,
           Tokens, WaitFits, SyncFits, AsyncFits
    <2>2. WaitFits'
        BY <1>1 DEF WorkerReturns, HandBack, KeepResult, BridgeTypes, Awaits,
           Tokens, WaitFits
    <2>3. ASSUME shape' = "sync" PROVE SyncFits'
        BY <1>1, <2>3 DEF WorkerReturns, HandBack, KeepResult, BridgeTypes, Awaits,
           Tokens, WaitFits, SyncFits
    <2>4. ASSUME shape' = "async" PROVE AsyncFits'
        BY <1>1, <2>4 DEF WorkerReturns, HandBack, KeepResult, BridgeTypes, Awaits,
           Tokens, WaitFits, AsyncFits
    <2> QED
        BY <2>1, <2>2, <2>3, <2>4
<1>2. CASE Deliver
    <2>1. BridgeTypes'
        BY <1>2 DEF Deliver, HandBack, KeepResult, BridgeTypes, Awaits, Tokens,
           WaitFits, SyncFits, AsyncFits
    <2>2. WaitFits'
        BY <1>2 DEF Deliver, HandBack, KeepResult, BridgeTypes, Awaits, Tokens,
           WaitFits
    <2>3. ASSUME shape' = "sync" PROVE SyncFits'
        BY <1>2, <2>3 DEF Deliver, HandBack, KeepResult, BridgeTypes, Awaits,
           Tokens, WaitFits, SyncFits
    <2>4. ASSUME shape' = "async" PROVE AsyncFits'
        BY <1>2, <2>4 DEF Deliver, HandBack, KeepResult, BridgeTypes, Awaits,
           Tokens, WaitFits, AsyncFits
    <2> QED
        BY <2>1, <2>2, <2>3, <2>4
<1>3. ASSUME NEW ending \in Endings, AsyncEnds(ending) PROVE BridgeInv'
    <2>1. BridgeTypes'
        BY <1>3 DEF AsyncEnds, HandBack, KeepResult, BridgeTypes, Awaits, Tokens,
           WaitFits, SyncFits, AsyncFits
    <2>2. WaitFits'
        BY <1>3 DEF AsyncEnds, HandBack, KeepResult, BridgeTypes, Awaits, Tokens,
           WaitFits
    <2>3. ASSUME shape' = "sync" PROVE SyncFits'
        BY <1>3, <2>3 DEF AsyncEnds, HandBack, KeepResult, BridgeTypes, Awaits,
           Tokens, WaitFits, SyncFits
    <2>4. ASSUME shape' = "async" PROVE AsyncFits'
        BY <1>3, <2>4 DEF AsyncEnds, HandBack, KeepResult, BridgeTypes, Awaits,
           Tokens, WaitFits, AsyncFits
    <2> QED
        BY <2>1, <2>2, <2>3, <2>4
<1>4. CASE EnterWait
    <2>1. BridgeTypes'
        BY <1>4 DEF EnterWait, Register, BridgeTypes, Awaits, Tokens, WaitFits,
           SyncFits, AsyncFits
    <2>2. WaitFits'
        BY <1>4 DEF EnterWait, Register, BridgeTypes, Awaits, Tokens, WaitFits
    <2>3. ASSUME shape' = "sync" PROVE SyncFits'
        BY <1>4, <2>3 DEF EnterWait, Register, BridgeTypes, Awaits, Tokens,
           WaitFits, SyncFits
    <2>4. ASSUME shape' = "async" PROVE AsyncFits'
        BY <1>4, <2>4 DEF EnterWait, Register, BridgeTypes, Awaits, Tokens,
           WaitFits, AsyncFits
    <2> QED
        BY <2>1, <2>2, <2>3, <2>4
<1>5. CASE Wake
    <2>1. BridgeTypes'
        <3>1. awaiter' \in Awaits
            BY <1>5 DEF Wake, GiveUp, Detach, Ends, HandBack, KeepResult,
               Stopped, Unregister, BridgeTypes, Awaits, Tokens, WaitFits
        <3>2. token' \in Tokens
            BY <1>5 DEF Wake, GiveUp, Detach, Ends, HandBack, KeepResult,
               Stopped, Unregister, BridgeTypes, Tokens
        <3>3. handed' \in {0, 1}
            BY <1>5 DEF Wake, GiveUp, Detach, Ends, HandBack, KeepResult,
               Stopped, Unregister, BridgeTypes, WaitFits, SyncFits, AsyncFits
        <3>4. future' \in {"pending"} \union Endings /\ asked' \in BOOLEAN
            BY <1>5 DEF Wake, GiveUp, Detach, Ends, HandBack, KeepResult,
               Stopped, Unregister, BridgeTypes
        <3> QED
            BY <1>5, <3>1, <3>2, <3>3, <3>4 DEF Wake, BridgeTypes
    <2>2. WaitFits'
        BY <1>5 DEF Wake, GiveUp, Detach, Ends, HandBack, KeepResult, Stopped,
           Unregister, BridgeTypes, Awaits, Tokens, WaitFits
    <2>3. ASSUME shape' = "sync" PROVE SyncFits'
        BY <1>5, <2>3 DEF Wake, GiveUp, Detach, Ends, HandBack, KeepResult, Stopped,
           Unregister, BridgeTypes, Awaits, Tokens, WaitFits, SyncFits
    <2>4. ASSUME shape' = "async" PROVE AsyncFits'
        BY <1>5, <2>4 DEF Wake, GiveUp, Detach, Ends, HandBack, KeepResult, Stopped,
           Unregister, BridgeTypes, Awaits, Tokens, WaitFits, AsyncFits
    <2> QED
        BY <2>1, <2>2, <2>3, <2>4
<1>6. CASE CallerCancelled
    <2>1. BridgeTypes'
        <3>1. awaiter' \in Awaits
            BY <1>6 DEF CallerCancelled, GiveUp, Detach, Ends, HandBack,
               KeepResult, Unregister, BridgeTypes, Awaits, Tokens, WaitFits
        <3>2. token' \in Tokens
            BY <1>6 DEF CallerCancelled, GiveUp, Detach, Ends, HandBack,
               KeepResult, Unregister, BridgeTypes, Tokens
        <3>3. handed' \in {0, 1}
            BY <1>6 DEF CallerCancelled, GiveUp, Detach, Ends, HandBack,
               KeepResult, Unregister, BridgeTypes, WaitFits, SyncFits,
               AsyncFits
        <3>4. future' \in {"pending"} \union Endings /\ asked' \in BOOLEAN
            BY <1>6 DEF CallerCancelled, GiveUp, Detach, Ends, HandBack,
               KeepResult, Unregister, BridgeTypes
        <3> QED
            BY <1>6, <3>1, <3>2, <3>3, <3>4 DEF CallerCancelled, BridgeTypes
    <2>2. WaitFits'
        BY <1>6 DEF CallerCancelled, GiveUp, Detach, Ends, HandBack, KeepResult,
           Unregister, BridgeTypes, Awaits, Tokens, WaitFits
    <2>3. ASSUME shape' = "sync" PROVE SyncFits'
        BY <1>6, <2>3 DEF CallerCancelled, GiveUp, Detach, Ends, HandBack,
           KeepResult, Unregister, BridgeTypes, Awaits, Tokens, WaitFits, SyncFits
    <2>4. ASSUME shape' = "async" PROVE AsyncFits'
        BY <1>6, <2>4 DEF CallerCancelled, GiveUp, Detach, Ends, HandBack,
           KeepResult, Unregister, BridgeTypes, Awaits, Tokens, WaitFits, AsyncFits
    <2> QED
        BY <2>1, <2>2, <2>3, <2>4
<1>7. CASE AbandonUnwaited
    <2>1. BridgeTypes'
        <3>1. awaiter' \in Awaits
            BY <1>7 DEF AbandonUnwaited, Detach, BridgeTypes, Awaits, Tokens,
               WaitFits
        <3>2. token' \in Tokens
            BY <1>7 DEF AbandonUnwaited, Detach, BridgeTypes, Tokens
        <3>3. handed' \in {0, 1}
            BY <1>7 DEF AbandonUnwaited, Detach, BridgeTypes, WaitFits,
               SyncFits, AsyncFits
        <3>4. future' \in {"pending"} \union Endings /\ asked' \in BOOLEAN
            BY <1>7 DEF AbandonUnwaited, Detach, BridgeTypes
        <3> QED
            BY <1>7, <3>1, <3>2, <3>3, <3>4 DEF AbandonUnwaited, BridgeTypes
    <2>2. WaitFits'
        BY <1>7 DEF AbandonUnwaited, Detach, BridgeTypes, Awaits, Tokens, WaitFits
    <2>3. ASSUME shape' = "sync" PROVE SyncFits'
        BY <1>7, <2>3 DEF AbandonUnwaited, Detach, BridgeTypes, Awaits, Tokens,
           WaitFits, SyncFits
    <2>4. ASSUME shape' = "async" PROVE AsyncFits'
        BY <1>7, <2>4 DEF AbandonUnwaited, Detach, BridgeTypes, Awaits, Tokens,
           WaitFits, AsyncFits
    <2> QED
        BY <2>1, <2>2, <2>3, <2>4
<1>8. CASE DetachEnds
    <2>1. BridgeTypes'
        <3>1. awaiter' \in Awaits
            BY <1>8 DEF DetachEnds, Ends, HandBack, KeepResult, BridgeTypes,
               Awaits, Tokens, WaitFits
        <3>2. token' \in Tokens
            BY <1>8 DEF DetachEnds, Ends, HandBack, KeepResult, BridgeTypes,
               Tokens
        <3>3. handed' \in {0, 1}
            BY <1>8 DEF DetachEnds, Ends, HandBack, KeepResult, BridgeTypes,
               WaitFits, SyncFits, AsyncFits
        <3>4. future' \in {"pending"} \union Endings /\ asked' \in BOOLEAN
            BY <1>8 DEF DetachEnds, Ends, HandBack, KeepResult, BridgeTypes
        <3> QED
            BY <1>8, <3>1, <3>2, <3>3, <3>4 DEF DetachEnds, BridgeTypes
    <2>2. WaitFits'
        BY <1>8 DEF DetachEnds, Ends, HandBack, KeepResult, BridgeTypes, Awaits,
           Tokens, WaitFits
    <2>3. ASSUME shape' = "sync" PROVE SyncFits'
        BY <1>8, <2>3 DEF DetachEnds, Ends, HandBack, KeepResult, BridgeTypes,
           Awaits, Tokens, WaitFits, SyncFits
    <2>4. ASSUME shape' = "async" PROVE AsyncFits'
        BY <1>8, <2>4 DEF DetachEnds, Ends, HandBack, KeepResult, BridgeTypes,
           Awaits, Tokens, WaitFits, AsyncFits
    <2> QED
        BY <2>1, <2>2, <2>3, <2>4
<1>9. CASE CancelledAgain
    <2>1. BridgeTypes'
        BY <1>9 DEF CancelledAgain, Ends, BridgeTypes, Awaits, Tokens, WaitFits,
           SyncFits, AsyncFits
    <2>2. WaitFits'
        BY <1>9 DEF CancelledAgain, Ends, BridgeTypes, Awaits, Tokens, WaitFits
    <2>3. ASSUME shape' = "sync" PROVE SyncFits'
        BY <1>9, <2>3 DEF CancelledAgain, Ends, BridgeTypes, Awaits, Tokens,
           WaitFits, SyncFits
    <2>4. ASSUME shape' = "async" PROVE AsyncFits'
        BY <1>9, <2>4 DEF CancelledAgain, Ends, BridgeTypes, Awaits, Tokens,
           WaitFits, AsyncFits
    <2> QED
        BY <2>1, <2>2, <2>3, <2>4
<1>10. CASE Request
    <2>1. BridgeTypes'
        <3>1. awaiter' \in Awaits
            BY <1>10 DEF Request, BridgeTypes, Awaits, Tokens, WaitFits
        <3>2. token' \in Tokens
            BY <1>10 DEF Request, BridgeTypes, Tokens
        <3>3. handed' \in {0, 1}
            BY <1>10 DEF Request, BridgeTypes, WaitFits, SyncFits, AsyncFits
        <3>4. future' \in {"pending"} \union Endings /\ asked' \in BOOLEAN
            BY <1>10 DEF Request, BridgeTypes
        <3> QED
            BY <1>10, <3>1, <3>2, <3>3, <3>4 DEF Request, BridgeTypes
    <2>2. WaitFits'
        BY <1>10 DEF Request, BridgeTypes, Awaits, Tokens, WaitFits
    <2>3. ASSUME shape' = "sync" PROVE SyncFits'
        BY <1>10, <2>3 DEF Request, BridgeTypes, Awaits, Tokens, WaitFits, SyncFits
    <2>4. ASSUME shape' = "async" PROVE AsyncFits'
        BY <1>10, <2>4 DEF Request, BridgeTypes, Awaits, Tokens, WaitFits, AsyncFits
    <2> QED
        BY <2>1, <2>2, <2>3, <2>4
<1>11. CASE CallBack
    <2>1. BridgeTypes'
        <3>1. awaiter' \in Awaits
            BY <1>11 DEF CallBack, BridgeTypes, Awaits, Tokens, WaitFits
        <3>2. token' \in Tokens
            BY <1>11 DEF CallBack, BridgeTypes, Tokens
        <3>3. handed' \in {0, 1}
            BY <1>11 DEF CallBack, BridgeTypes, WaitFits, SyncFits, AsyncFits
        <3>4. future' \in {"pending"} \union Endings /\ asked' \in BOOLEAN
            BY <1>11 DEF CallBack, BridgeTypes
        <3> QED
            BY <1>11, <3>1, <3>2, <3>3, <3>4 DEF CallBack, BridgeTypes
    <2>2. WaitFits'
        BY <1>11 DEF CallBack, BridgeTypes, Awaits, Tokens, WaitFits
    <2>3. ASSUME shape' = "sync" PROVE SyncFits'
        BY <1>11, <2>3 DEF CallBack, BridgeTypes, Awaits, Tokens, WaitFits, SyncFits
    <2>4. ASSUME shape' = "async" PROVE AsyncFits'
        BY <1>11, <2>4 DEF CallBack, BridgeTypes, Awaits, Tokens, WaitFits,
           AsyncFits
    <2> QED
        BY <2>1, <2>2, <2>3, <2>4
<1>12. CASE DeadlinePasses
    <2>1. BridgeTypes'
        BY <1>12 DEF DeadlinePasses, BridgeTypes, Awaits, Tokens, WaitFits,
           SyncFits, AsyncFits
    <2>2. WaitFits'
        BY <1>12 DEF DeadlinePasses, BridgeTypes, Awaits, Tokens, WaitFits
    <2>3. ASSUME shape' = "sync" PROVE SyncFits'
        BY <1>12, <2>3 DEF DeadlinePasses, BridgeTypes, Awaits, Tokens, WaitFits,
           SyncFits
    <2>4. ASSUME shape' = "async" PROVE AsyncFits'
        BY <1>12, <2>4 DEF DeadlinePasses, BridgeTypes, Awaits, Tokens, WaitFits,
           AsyncFits
    <2> QED
        BY <2>1, <2>2, <2>3, <2>4
<1>13. CASE LoopCloses
    <2>1. BridgeTypes'
        <3>1. awaiter' \in Awaits
            BY <1>13 DEF LoopCloses, BridgeTypes, Awaits, Tokens, WaitFits
        <3>2. token' \in Tokens
            BY <1>13 DEF LoopCloses, BridgeTypes, Tokens
        <3>3. handed' \in {0, 1}
            BY <1>13 DEF LoopCloses, BridgeTypes, WaitFits, SyncFits, AsyncFits
        <3>4. future' \in {"pending"} \union Endings /\ asked' \in BOOLEAN
            BY <1>13 DEF LoopCloses, BridgeTypes
        <3> QED
            BY <1>13, <3>1, <3>2, <3>3, <3>4 DEF LoopCloses, BridgeTypes
    <2>2. WaitFits'
        BY <1>13 DEF LoopCloses, BridgeTypes, Awaits, Tokens, WaitFits
    <2>3. ASSUME shape' = "sync" PROVE SyncFits'
        BY <1>13, <2>3 DEF LoopCloses, BridgeTypes, Awaits, Tokens, WaitFits,
           SyncFits
    <2>4. ASSUME shape' = "async" PROVE AsyncFits'
        BY <1>13, <2>4 DEF LoopCloses, BridgeTypes, Awaits, Tokens, WaitFits,
           AsyncFits
    <2> QED
        BY <2>1, <2>2, <2>3, <2>4
<1>14. CASE UNCHANGED bridgeVars
    <2>1. BridgeTypes'
        BY <1>14 DEF bridgeVars, BridgeTypes, Awaits, Tokens, WaitFits, SyncFits,
           AsyncFits
    <2>2. WaitFits'
        BY <1>14 DEF bridgeVars, BridgeTypes, Awaits, Tokens, WaitFits
    <2>3. ASSUME shape' = "sync" PROVE SyncFits'
        BY <1>14, <2>3 DEF bridgeVars, BridgeTypes, Awaits, Tokens, WaitFits,
           SyncFits
    <2>4. ASSUME shape' = "async" PROVE AsyncFits'
        BY <1>14, <2>4 DEF bridgeVars, BridgeTypes, Awaits, Tokens, WaitFits,
           AsyncFits
    <2> QED
        BY <2>1, <2>2, <2>3, <2>4
<1> QED
    BY <1>1, <1>2, <1>3, <1>4, <1>5, <1>6, <1>7, <1>8, <1>9, <1>10, <1>11, <1>12, <1>13,
       <1>14 DEF BridgeNext, Callee, Awaiter

(* What a callee produced is read by the awaiter or handed back, never both and
   never twice (await_abandonable_call, hand_back_discarded), but for the two
   ways out that the code leaves. *)
THEOREM ResultsAreAccountedFor == BridgeSpec => []ResultIsAccountedFor
<1>1. BridgeInv => ResultIsAccountedFor
    BY DEF BridgeInv, BridgeTypes, Awaits, WaitFits, SyncFits, AsyncFits, Endings, NotYet, Given,
           ResultIsAccountedFor, OutOfReach
<1> QED
    BY BridgeInitFits, BridgeStepFits, <1>1, PTL DEF BridgeSpec
=============================================================================
