------------------------------- MODULE RunSink -------------------------------
(***************************************************************************)
(* The PostgreSQL run sink (adapters/postgres/sink.py) of one run: event   *)
(* journal, checkpoints with their blobs, and the terminal record, each    *)
(* mutation in one transaction that first checks the writer token under    *)
(* the authority row lock of AuthorityStore.                               *)
(*                                                                         *)
(* When a commit fails ambiguously the sink opens a second guarded         *)
(* transaction that only reads the coordinate, and answers from what it    *)
(* finds there.  Callers are unconstrained, as in AuthorityStore: any      *)
(* mutation may arrive under any token, be repeated, or race another one.  *)
(***************************************************************************)
EXTENDS AuthorityStore, Integers

CONSTANTS
    Mutations,  \* the mutations callers may submit
    MaxSeq,     \* bound: highest event or checkpoint sequence
    None        \* no record at a coordinate

ASSUME MaxSeqAssumption == MaxSeq \in Nat
ASSUME MutationsAssumption ==
    \A m \in Mutations :
        /\ m.kind \in {"event", "checkpoint", "terminal"}
        /\ m.kind = "event" => m.seq \in 1 .. MaxSeq
        /\ m.kind = "checkpoint" => m.seq \in 0 .. MaxSeq
        /\ m.content # None

VARIABLES
    events,          \* event_record: the event id stored at a sequence, or None
    eventHead,       \* event_head.sequence
    checkpoints,     \* checkpoint_record: what is stored at a sequence, or None
    checkpointHead,  \* checkpoint_head.sequence; -1: no row
    runBlobs,        \* run_blob: digests the run may refer to
    terminal,        \* terminal_record, or None
    work,            \* per caller: the sink call it is in
    committedBy      \* history: generation of the latest committed mutation

tables == <<events, eventHead, checkpoints, checkpointHead, runBlobs, terminal>>

vars == <<storeVars, tables, work, committedBy>>

-----------------------------------------------------------------------------
\* An event is known by its id; a checkpoint by the blobs it refers to and the
\* blobs submitted with it, both of which enter its digest.
EventMutation(s, id) == [kind |-> "event", seq |-> s, content |-> id]

CheckpointMutation(s, refs, blobs) ==
    [kind |-> "checkpoint", seq |-> s, content |-> [refs |-> refs, blobs |-> blobs]]

TerminalMutation(outcome) == [kind |-> "terminal", seq |-> 0, content |-> outcome]

NoWork == [mutation |-> None, token |-> <<NoOwner, 0>>, phase |-> "none"]

Phases == {"none", "commit", "computed", "reconcile"}

\* The record at the mutation's coordinate.
Stored(m) ==
    CASE m.kind = "event" -> events[m.seq]
      [] m.kind = "checkpoint" -> checkpoints[m.seq]
      [] m.kind = "terminal" -> terminal

\* Mutant: the stored digest is not compared.
StoredVerdictIgnoresDigest(m) == "already_committed"

\* _stored_result: an occupied coordinate answers for itself.
StoredVerdict(m) == IF Stored(m) = m.content THEN "already_committed" ELSE "conflict"

-----------------------------------------------------------------------------
(* What each _commit_*_locked decides. *)

\* Mutant: the event id is not looked up at other sequences.
EventVerdictIgnoresId(m) ==
    CASE Stored(m) # None -> StoredVerdict(m)
      [] Stored(m) = None /\ terminal # None -> "conflict"
      [] OTHER -> "committed"

\* Mutant: a terminal run still takes events.
EventVerdictIgnoresTerminal(m) ==
    CASE Stored(m) # None -> StoredVerdict(m)
      [] Stored(m) = None /\ (\E s \in 1 .. MaxSeq : events[s] = m.content) -> "conflict"
      [] OTHER -> "committed"

\* Exact retries are recognised before the terminal record closes the journal.
EventVerdict(m) ==
    CASE Stored(m) # None -> StoredVerdict(m)
      [] Stored(m) = None /\ (\E s \in 1 .. MaxSeq : events[s] = m.content) -> "conflict"
      [] Stored(m) = None /\ (\A s \in 1 .. MaxSeq : events[s] # m.content)
            /\ terminal # None -> "conflict"
      [] OTHER -> "committed"

\* Mutant: references are not resolved.
CheckpointVerdictIgnoresRefs(m) == IF Stored(m) # None THEN StoredVerdict(m) ELSE "committed"

\* Mutant: a stored checkpoint may be replaced.
CheckpointVerdictOverwrites(m) ==
    IF m.content.refs \subseteq m.content.blobs \union runBlobs THEN "committed" ELSE "conflict"

\* Every reference must resolve before the coordinate is looked at.
CheckpointVerdict(m) ==
    CASE ~(m.content.refs \subseteq m.content.blobs \union runBlobs) -> "conflict"
      [] m.content.refs \subseteq m.content.blobs \union runBlobs /\ Stored(m) # None ->
            StoredVerdict(m)
      [] OTHER -> "committed"

\* The first terminal outcome wins.
TerminalVerdict(m) == IF Stored(m) # None THEN StoredVerdict(m) ELSE "committed"

Verdict(m) ==
    CASE m.kind = "event" -> EventVerdict(m)
      [] m.kind = "checkpoint" -> CheckpointVerdict(m)
      [] m.kind = "terminal" -> TerminalVerdict(m)

\* The inserts of a committed mutation; heads only move forward.
InsertEvent(m) ==
    /\ events' = [events EXCEPT ![m.seq] = m.content]
    /\ eventHead' = IF m.seq > eventHead THEN m.seq ELSE eventHead
    /\ UNCHANGED <<checkpoints, checkpointHead, runBlobs, terminal>>

InsertCheckpoint(m) ==
    /\ runBlobs' = runBlobs \union m.content.blobs
    /\ checkpoints' = [checkpoints EXCEPT ![m.seq] = m.content]
    /\ checkpointHead' = IF m.seq > checkpointHead THEN m.seq ELSE checkpointHead
    /\ UNCHANGED <<events, eventHead, terminal>>

InsertTerminal(m) ==
    /\ terminal' = m.content
    /\ UNCHANGED <<events, eventHead, checkpoints, checkpointHead, runBlobs>>

Insert(m) ==
    \/ m.kind = "event" /\ InsertEvent(m)
    \/ m.kind = "checkpoint" /\ InsertCheckpoint(m)
    \/ m.kind = "terminal" /\ InsertTerminal(m)

\* What _reconcile_* finds; "error": nothing there, so the first error is raised.
ReconcileVerdict(m) ==
    CASE Stored(m) # None -> StoredVerdict(m)
      [] Stored(m) = None /\ m.kind = "event" /\ terminal # None -> "conflict"
      [] OTHER -> "error"

-----------------------------------------------------------------------------
(* commit_checkpoint, append_event, settle_terminal *)

Submit(c, m, token) ==
    /\ call[c].stage = "idle"
    /\ Invoke(c, "guard", token)
    /\ work' = [work EXCEPT ![c] = [mutation |-> m, token |-> token, phase |-> "commit"]]
    /\ UNCHANGED <<tables, committedBy>>

\* _current_writer_locked.  Once past it the content digest is computed.
CheckWriter(c) ==
    /\ work[c].phase \in {"commit", "reconcile"}
    /\ GuardReads(c) \/ TokenFindsNoRow(c)
    /\ work' = IF lock' = c /\ work[c].phase = "commit"
               THEN [work EXCEPT ![c].phase = "computed"] ELSE work
    /\ UNCHANGED <<tables, committedBy>>

CommitMutation(c) ==
    LET m == work[c].mutation IN
    /\ work[c].phase = "computed"
    /\ GuardCommits(c, Verdict(m))
    /\ \/ Verdict(m) = "committed" /\ Insert(m) /\ committedBy' = call[c].generation
       \/ Verdict(m) # "committed" /\ UNCHANGED <<tables, committedBy>>
    /\ UNCHANGED work

\* An ambiguous failure after the digest was computed: look at the coordinate.
BeginReconcile(c) ==
    /\ work[c].phase = "computed" /\ call[c].status = "error"
    /\ Invoke(c, "guard", work[c].token)
    /\ work' = [work EXCEPT ![c].phase = "reconcile"]
    /\ UNCHANGED <<tables, committedBy>>

Reconcile(c) ==
    /\ work[c].phase = "reconcile"
    /\ GuardCommits(c, ReconcileVerdict(work[c].mutation))
    /\ UNCHANGED <<tables, work, committedBy>>

\* The sink call returns its result, or raises.
Deliver(c) ==
    /\ Return(c)
    /\ work' = [work EXCEPT ![c] = NoWork]
    /\ UNCHANGED <<tables, committedBy>>

SinkCall(c) ==
    \/ CheckWriter(c) \/ CommitMutation(c) \/ BeginReconcile(c)
    \/ Reconcile(c) \/ Deliver(c)

-----------------------------------------------------------------------------
(* Lease traffic of the same run, the clock, and failures leave the tables. *)

LeaseTraffic(c) ==
    /\ work[c].phase = "none"
    /\ \/ Claim(c) \/ RenewReads(c) \/ RenewUpdates(c)
       \/ ReleaseReads(c) \/ ReleaseUpdates(c)
       \/ TokenFindsNoRow(c)
       \/ /\ call[c].stage = "idle"
          /\ \E op \in {"claim", "renew", "release"},
                token \in Owners \X (0 .. MaxGeneration) : Invoke(c, op, token)

Environment == Tick \/ \E c \in Callers : LeaseTraffic(c) \/ Abort(c)

TablesInit ==
    /\ events = [s \in 1 .. MaxSeq |-> None]
    /\ eventHead = 0
    /\ checkpoints = [s \in 0 .. MaxSeq |-> None]
    /\ checkpointHead = -1
    /\ runBlobs = {}
    /\ terminal = None
    /\ work = [c \in Callers |-> NoWork]
    /\ committedBy = 0

SinkInit == Init /\ TablesInit

SinkNext ==
    \/ Environment /\ UNCHANGED <<tables, work, committedBy>>
    \/ \E c \in Callers :
        \/ SinkCall(c)
        \/ work[c].phase = "none"
           /\ \E m \in Mutations, token \in Tokens : Submit(c, m, token)

SinkSpec == SinkInit /\ [][SinkNext]_vars

-----------------------------------------------------------------------------
(* Properties *)

MutationContents == {m.content : m \in Mutations}

SinkTypeOK ==
    /\ TypeOK
    /\ events \in [1 .. MaxSeq -> MutationContents \union {None}]
    /\ eventHead \in 0 .. MaxSeq
    /\ checkpoints \in [0 .. MaxSeq -> MutationContents \union {None}]
    /\ checkpointHead \in -1 .. MaxSeq
    /\ terminal \in MutationContents \union {None}
    /\ work \in [Callers -> [mutation : Mutations \union {None},
                             token : Tokens \union {<<NoOwner, 0>>}, phase : Phases]]
    /\ committedBy \in 0 .. MaxGeneration

(* Fencing of the run's records.  Whatever is written, is written by the
   generation that the authority row names at that moment; so once a run has
   been taken over, no delayed, retried or reconciled mutation of an earlier
   writer can land any more. *)
StaleWriterNeverCommits ==
    [][tables' # tables => committedBy' = row.generation /\ committedBy' >= committedBy]_vars

(* Durable records are write-once, the first terminal outcome wins, and it
   closes the event journal. *)
RecordsAreWriteOnce ==
    [][/\ \A s \in 1 .. MaxSeq : events[s] # None => events'[s] = events[s]
       /\ \A s \in 0 .. MaxSeq : checkpoints[s] # None => checkpoints'[s] = checkpoints[s]
       /\ terminal # None => terminal' = terminal /\ events' = events]_vars

\* The caller holds a sink answer that is not an error.
Answered(c, statuses) ==
    /\ call[c].op = "guard" /\ call[c].stage = "done" /\ call[c].status \in statuses
    /\ work[c].phase # "none"

(* Answers are true, also after lost responses, retries under a new generation
   and reconciliation: what is acknowledged is durable, and an event or a
   terminal outcome answered with a conflict is not and never becomes the
   stored record of its coordinate. *)
AnswersAreTrue ==
    \A c \in Callers :
        LET m == work[c].mutation IN
        /\ Answered(c, {"committed", "already_committed"}) => Stored(m) = m.content
        /\ Answered(c, {"conflict"}) /\ m.kind \in {"event", "terminal"} =>
              Stored(m) # m.content

(* One event id names one journal coordinate: a retry under another sequence
   never duplicates an event. *)
EventIdsAreUnique ==
    \A s, t \in 1 .. MaxSeq : events[s] # None /\ events[s] = events[t] => s = t

(* Recovery always finds what the heads name: each head is the newest stored
   record of its kind, in whatever order competing writers inserted them, and
   every blob that any stored checkpoint refers to is associated with the run. *)
HeadsResolve ==
    /\ \A s \in 1 .. MaxSeq : events[s] # None => s <= eventHead
    /\ eventHead > 0 => events[eventHead] # None
    /\ \A s \in 0 .. MaxSeq : checkpoints[s] # None =>
          s <= checkpointHead /\ checkpoints[s].refs \subseteq runBlobs
    /\ checkpointHead >= 0 => checkpoints[checkpointHead] # None
=============================================================================
