-------------------------- MODULE ObjectCollection --------------------------
(***************************************************************************)
(* Content-addressed objects in a versioned bucket, what PostgreSQL says   *)
(* of them, and the collector that deletes the ones no run is associated   *)
(* with (adapters/postgres/object_store.py, streams.py,                    *)
(* adapters/object_store/s3.py, hosting/object_store_admin.py).            *)
(*                                                                         *)
(* Bytes are uploaded before the transaction that associates them, plans   *)
(* are made long before they are applied, several collectors may apply the *)
(* same plan, and a process may die between the physical delete and the    *)
(* commit that records it.  Everyone serialises on an advisory lock per    *)
(* digest, held by the database session of the transaction.                *)
(***************************************************************************)
EXTENDS Integers

CONSTANTS
    Uploaders,      \* runs; each commits one set of blobs at a time
    Collectors,     \* collector processes
    Plans,          \* plan identities
    Nobody,         \* a lock is free
    MaxDigest,      \* digests are numbered in the order locks are taken
    MaxVersion      \* bound on versions of one object

ASSUME CollectionActorsAssumption ==
    Nobody \notin Uploaders \union Collectors /\ Uploaders \intersect Collectors = {}
ASSUME CollectionBoundsAssumption == {MaxDigest, MaxVersion} \subseteq Nat

VARIABLES
    objectVersions,  \* versions ever put, per digest
    stored,        \* the current version of the object; 0: there is none
    blobRow,       \* object_blob
    associations,  \* run_object_blob
    digestLock,    \* pg_advisory_xact_lock, per digest
    upload,        \* per run: the commit in progress
    gcPlan,        \* archived plans: candidates with version token and generation
    receipts,      \* object_gc_receipt, per plan and digest
    collector      \* per collector: the plan it makes, the candidate it applies

bucket == <<objectVersions, stored>>
objectTables == <<blobRow, associations, receipts>>

objectVars == <<bucket, objectTables, digestLock, upload, gcPlan, collector>>

-----------------------------------------------------------------------------
Digests == 1 .. MaxDigest

NoRow == [generation |-> 0, state |-> "none"]
\* `left`: the blobs that are still to be put.
NoUpload == [stage |-> "off", blobs |-> {}, refs |-> {}, left |-> {}]
NoCandidate == [version |-> 0, generation |-> 0]
NoPlan == [d \in Digests |-> NoCandidate]
IdleCollector == [stage |-> "off", plan |-> Nobody, digest |-> 0, seen |-> NoPlan]

Associated(d) == \E r \in Uploaders : <<r, d>> \in associations

LocksFreed(who) == [d \in Digests |-> IF digestLock[d] = who THEN Nobody ELSE digestLock[d]]

-----------------------------------------------------------------------------
(* A commit with blobs: commit_checkpoint, commit_invocation, stream append *)

\* The record names digests it brings and digests the run already has.
StartUpload(r, blobs, refs) ==
    /\ upload[r].stage = "off"
    /\ upload' = [upload EXCEPT ![r] = [stage |-> "put", blobs |-> blobs, refs |-> refs, left |-> blobs]]
    /\ UNCHANGED <<bucket, objectTables, digestLock, gcPlan, collector>>

\* put_if_absent, digest by digest in their order: a present object is verified
\* and kept, an absent one becomes a new version.
PutIfAbsent(r, d) ==
    /\ upload[r].stage = "put" /\ d \in upload[r].left /\ \A e \in upload[r].left : d <= e
    /\ \/ stored[d] # 0 /\ UNCHANGED bucket
       \/ /\ stored[d] = 0 /\ objectVersions[d] < MaxVersion
          /\ objectVersions' = [objectVersions EXCEPT ![d] = @ + 1]
          /\ stored' = [stored EXCEPT ![d] = objectVersions[d] + 1]
    /\ upload' = [upload EXCEPT ![r].left = @ \ {d}]
    /\ UNCHANGED <<objectTables, digestLock, gcPlan, collector>>

\* _prepare_blobs returns once every blob was put: none of them need still be
\* there.
PreparedBlobs(r) ==
    /\ upload[r].stage = "put" /\ upload[r].left = {}
    /\ upload' = [upload EXCEPT ![r].stage = "lock"]
    /\ UNCHANGED <<bucket, objectTables, digestLock, gcPlan, collector>>

LocksOf(r) == {d \in Digests : digestLock[d] = r}

\* _lock_digest over the blobs and the references, in order.
LockDigest(r, d) ==
    LET wanted == (upload[r].blobs \union upload[r].refs) \ LocksOf(r) IN
    /\ upload[r].stage = "lock" /\ d \in wanted /\ \A e \in wanted : d <= e
    /\ digestLock[d] = Nobody
    /\ digestLock' = [digestLock EXCEPT ![d] = r]
    /\ UNCHANGED <<bucket, objectTables, upload, gcPlan, collector>>

\* _references_resolve under the locks: blobs are statted again, references
\* must be this run's own, available, and in the bucket.
BlobsResolve(r) ==
    /\ \A d \in upload[r].blobs : stored[d] # 0
    /\ \A d \in upload[r].refs :
          <<r, d>> \in associations /\ blobRow[d].state = "available" /\ stored[d] # 0

HoldsLocks(r) == upload[r].blobs \union upload[r].refs \subseteq LocksOf(r)

\* Mutant: the stat taken before the transaction is trusted.
ResolveReferencesUnchecked(r) ==
    /\ upload[r].stage = "lock" /\ HoldsLocks(r)
    /\ upload' = [upload EXCEPT ![r].stage = "persist"]
    /\ UNCHANGED <<bucket, objectTables, digestLock, gcPlan, collector>>

ResolveReferences(r) ==
    /\ upload[r].stage = "lock" /\ HoldsLocks(r) /\ BlobsResolve(r)
    /\ upload' = [upload EXCEPT ![r].stage = "persist"]
    /\ UNCHANGED <<bucket, objectTables, digestLock, gcPlan, collector>>

Revived(row) ==
    IF row.state = "available" THEN row
    ELSE [generation |-> row.generation + 1, state |-> "available"]

\* _persist_blobs, _record_object, and the commit.
PersistBlobs(r) ==
    /\ upload[r].stage = "persist"
    /\ blobRow' = [d \in Digests |-> IF d \in upload[r].blobs THEN Revived(blobRow[d]) ELSE blobRow[d]]
    /\ associations' = associations \union {<<r, d>> : d \in upload[r].blobs}
    /\ digestLock' = LocksFreed(r)
    /\ upload' = [upload EXCEPT ![r] = NoUpload]
    /\ UNCHANGED <<bucket, receipts, gcPlan, collector>>

\* Refused, failed or crashed, or its session died: the locks go with it.
UploadStops(r) ==
    /\ upload[r].stage # "off"
    /\ upload' = [upload EXCEPT ![r] = NoUpload]
    /\ digestLock' = LocksFreed(r)
    /\ UNCHANGED <<bucket, objectTables, gcPlan, collector>>

-----------------------------------------------------------------------------
(* The collector *)

\* inventory_page: the version of every object old enough, outside any lock.
TakeInventory(g, p, old) ==
    /\ collector[g].stage = "off"
    /\ gcPlan[p] = NoPlan /\ \A h \in Collectors : collector[h].plan # p
    /\ \E d \in old : stored[d] # 0
    /\ collector' = [collector EXCEPT
          ![g] = [IdleCollector EXCEPT !.stage = "plan", !.plan = p,
                              !.seen = [d \in Digests |->
                                  IF d \in old THEN [NoCandidate EXCEPT !.version = stored[d]]
                                  ELSE NoCandidate]]]
    /\ UNCHANGED <<bucket, objectTables, digestLock, upload, gcPlan>>

\* plan: the objects no run is associated with, at their generation.
PlanCandidates(g) ==
    LET seen == collector[g].seen IN
    /\ collector[g].stage = "plan"
    /\ gcPlan' = [gcPlan EXCEPT ![collector[g].plan] =
                  [d \in Digests |-> IF seen[d].version # 0 /\ ~Associated(d)
                                     THEN [seen[d] EXCEPT !.generation = blobRow[d].generation]
                                     ELSE NoCandidate]]
    /\ collector' = [collector EXCEPT ![g] = IdleCollector]
    /\ UNCHANGED <<bucket, objectTables, digestLock, upload>>

\* _apply_candidate: one transaction per candidate, under its digest lock.
LockCandidate(g, p, d) ==
    /\ collector[g].stage = "off" /\ gcPlan[p][d] # NoCandidate /\ digestLock[d] = Nobody
    /\ digestLock' = [digestLock EXCEPT ![d] = g]
    /\ collector' = [collector EXCEPT ![g] = [IdleCollector EXCEPT !.stage = "examine", !.plan = p, !.digest = d]]
    /\ UNCHANGED <<bucket, objectTables, upload, gcPlan>>

CandidateOf(g) == gcPlan[collector[g].plan][collector[g].digest]

ReceiptOf(g) == receipts[collector[g].plan][collector[g].digest]

\* The transaction commits, with a receipt or without.
EndCandidate(g, receipt) ==
    /\ receipts' = [receipts EXCEPT ![collector[g].plan][collector[g].digest] = receipt]
    /\ digestLock' = LocksFreed(g)
    /\ collector' = [collector EXCEPT ![g] = IdleCollector]
    /\ UNCHANGED <<bucket, associations, upload, gcPlan>>

\* Applied before; associated meanwhile; deleted or revived meanwhile.
SkipCandidate(g) ==
    LET d == collector[g].digest IN
    /\ collector[g].stage = "examine"
    /\ \/ ReceiptOf(g) # "none" /\ EndCandidate(g, ReceiptOf(g))
       \/ /\ ReceiptOf(g) = "none" /\ Associated(d)
          /\ EndCandidate(g, "skipped_associated")
       \/ /\ ReceiptOf(g) = "none" /\ ~Associated(d)
          /\ blobRow[d].generation # CandidateOf(g).generation
          /\ EndCandidate(g, "skipped_generation")
    /\ UNCHANGED blobRow

ApproveCandidate(g) ==
    LET d == collector[g].digest IN
    /\ collector[g].stage = "examine" /\ ReceiptOf(g) = "none"
    /\ ~Associated(d) /\ blobRow[d].generation = CandidateOf(g).generation
    /\ collector' = [collector EXCEPT ![g].stage = "delete"]
    /\ UNCHANGED <<bucket, objectTables, digestLock, upload, gcPlan>>

\* delete_if_match: exactly the version of the token.  The bucket knows nothing
\* of the lock.
DeleteIfMatch(g) ==
    LET d == collector[g].digest
        matches == stored[d] = CandidateOf(g).version
    IN
    /\ collector[g].stage = "delete"
    /\ stored' = IF matches THEN [stored EXCEPT ![d] = 0] ELSE stored
    /\ collector' = [collector EXCEPT ![g].stage = IF matches THEN "deleted" ELSE "missing"]
    /\ UNCHANGED <<objectVersions, objectTables, digestLock, upload, gcPlan>>

\* precondition_failed: the bucket refuses, and only the receipt is written.
DeleteRefused(g) ==
    /\ collector[g].stage = "delete"
    /\ EndCandidate(g, "precondition_failed")
    /\ UNCHANGED blobRow

\* The row becomes deleted under the next generation, with the receipt.
RecordDeletion(g) ==
    LET d == collector[g].digest IN
    /\ collector[g].stage \in {"deleted", "missing"}
    /\ blobRow' = [blobRow EXCEPT ![d] = [generation |-> @.generation + 1, state |-> "deleted"]]
    /\ EndCandidate(g, IF collector[g].stage = "deleted" THEN "deleted" ELSE "already_missing")

\* The collector or its session dies, or an error rolls its transaction back;
\* the bucket does not roll back.  A session is assumed to outlive the physical
\* delete, which is no statement of it, so that its client stops before or after.
CollectorStops(g) ==
    /\ collector[g].stage # "off"
    /\ collector' = [collector EXCEPT ![g] = IdleCollector]
    /\ digestLock' = LocksFreed(g)
    /\ UNCHANGED <<bucket, objectTables, upload, gcPlan>>

-----------------------------------------------------------------------------
Uploading(r) ==
    \/ \E blobs \in SUBSET Digests \ {{}}, refs \in SUBSET Digests :
          blobs \intersect refs = {} /\ StartUpload(r, blobs, refs)
    \/ \E d \in Digests : PutIfAbsent(r, d) \/ LockDigest(r, d)
    \/ PreparedBlobs(r) \/ ResolveReferences(r) \/ PersistBlobs(r) \/ UploadStops(r)

Collecting(g) ==
    \/ \E p \in Plans : \/ \E old \in SUBSET Digests : TakeInventory(g, p, old)
                        \/ \E d \in Digests : LockCandidate(g, p, d)
    \/ PlanCandidates(g) \/ SkipCandidate(g) \/ ApproveCandidate(g) \/ DeleteIfMatch(g)
    \/ DeleteRefused(g) \/ RecordDeletion(g) \/ CollectorStops(g)

ObjectInit ==
    /\ objectVersions = [d \in Digests |-> 0] /\ stored = [d \in Digests |-> 0]
    /\ blobRow = [d \in Digests |-> NoRow] /\ associations = {}
    /\ digestLock = [d \in Digests |-> Nobody]
    /\ upload = [r \in Uploaders |-> NoUpload]
    /\ gcPlan = [p \in Plans |-> NoPlan]
    /\ receipts = [p \in Plans |-> [d \in Digests |-> "none"]]
    /\ collector = [g \in Collectors |-> IdleCollector]

ObjectNext ==
    \/ \E r \in Uploaders : Uploading(r)
    \/ \E g \in Collectors : Collecting(g)

ObjectSpec == ObjectInit /\ [][ObjectNext]_objectVars

-----------------------------------------------------------------------------
(* Properties *)

(* No run loses an object: whatever a run is associated with is available in
   PostgreSQL and in the bucket, so a read of a committed blob never fails. *)
AssociatedObjectsExist ==
    \A r \in Uploaders, d \in Digests :
        <<r, d>> \in associations => blobRow[d].state = "available" /\ stored[d] # 0
=============================================================================
