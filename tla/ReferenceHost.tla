---------------------------- MODULE ReferenceHost ----------------------------
(***************************************************************************)
(* The Reference backend: worker processes that share one run directory,   *)
(* its lease file, its checkpoint store and its command inbox, seen from   *)
(* one run.  A worker's watchdog heartbeats what it tracks and takes over  *)
(* what it finds stale, a starting worker and a client's resume_run take   *)
(* over whatever they do not track; the drive of a tracked run takes       *)
(* messages from its queue, stages outbox requests and commits             *)
(* checkpoints.  What touches a session runs as one callable on the        *)
(* worker's event loop; the steps of a recovery run on another thread and  *)
(* callables of the loop come between them.                                *)
(*                                                                         *)
(* A process that crashed does not return: its successor has a new worker  *)
(* id.  A message is known by its id, a request by the number of its       *)
(* staging, and the acknowledgement of a request by the request: its inbox *)
(* id is derived from it.                                                  *)
(***************************************************************************)
EXTENDS Naturals, SequencesExt

CONSTANTS
    Workers,            \* worker processes
    NoWorker,           \* the claimant of an unclaimed command
    Messages,           \* ids that clients send messages under
    MaxRequests,        \* bound on outbox requests staged
    MaxQueue,           \* max_message_queue_depth
    MaxRecoverAttempts, \* max_recover_attempts
    TaskedWait          \* asyncio.wait_for runs queue.get() as a task (Python 3.11)

ASSUME WorkersAssumption == NoWorker \notin Workers
ASSUME HostBoundsAssumption ==
    MaxRequests \in Nat /\ MaxQueue \in Nat /\ MaxRecoverAttempts \in Nat \ {0}
\* The inbox id of an acknowledgement, ack_<request>, is nobody's message id.
ASSUME MessagesAssumption == Messages \intersect (0 .. MaxRequests) = {}
ASSUME TaskedWaitAssumption == TaskedWait \in BOOLEAN

VARIABLES
    lease,      \* lease.json: fresh, or stale: its ttl has passed, or there is none
    artifact,   \* the run directory: absent, open, closed (status.json), failed (failure.json)
    failures,   \* recover_attempts of the run directory
    store,      \* the session of the latest checkpoint
    host,       \* per worker: its record of the run
    inbox,      \* the commands of the run, in the order of their append
    emitted,    \* requests staged so far
    sent,       \* requests that were handed to the sender
    saved,      \* messages whose enqueue committed a checkpoint before it was answered
    shared      \* whether two processes have had the run at the same time

hostVars == <<lease, artifact, failures, store, host, inbox, emitted, sent, saved, shared>>

-----------------------------------------------------------------------------
OutboxRequests == 1 .. MaxRequests

\* The part of a record that a checkpoint carries: queued messages, seen inbox
\* ids, the inputs of the transcript, and the outbox.  `whole` is no field of the
\* code: FALSE in a checkpoint of a record whose recovery had not given the queue
\* and the ids back, and in every session restored from one.
NoCheckpoint ==
    [queue |-> <<>>, seen |-> {}, log |-> <<>>,
     outbox |-> [r \in OutboxRequests |-> "none"], whole |-> TRUE]

\* The first turn runs on the run's instruction, input 0.
NewSession == [NoCheckpoint EXCEPT !.log = <<0>>]

NoRest == [queue |-> <<>>, seen |-> {}]

\* A worker that tracks no run.  `rest` is what a recovery has yet to give back
\* to the record, `claimed` tells whether it is a reclaim; `taken` is a message
\* that left the queue and has not reached the drive, `due` the requests the
\* running drain has left, `command` the claimed command it executes.
Idle ==
    [stage |-> "idle", session |-> NoCheckpoint, rest |-> NoRest, claimed |-> FALSE,
     taken |-> <<>>, draining |-> FALSE, due |-> {}, command |-> <<>>]

\* A session coroutine is running.
Drives(w) == host[w].stage \in {"turn", "parked"}

\* record.loop is there.
HasLoop(w) == Drives(w) \/ host[w].stage \in {"attached", "posting"}

\* The worker has a live record of the run: messages for it are answered.
HasRun(w) == HasLoop(w) \/ host[w].stage \in {"waiting", "building"}

Tracks(w) == HasRun(w) \/ host[w].stage = "done"

\* The worker's event loop is free to run another callable: it is not inside a
\* drain of the outbox, nor between a queue.get() and the drive that awaits it,
\* which is no gap unless wait_for ran the get as a task.
OnLoop(w) ==
    /\ HasRun(w) /\ ~host[w].draining
    /\ TaskedWait \/ host[w].taken = <<>>

\* Due requests: freshly staged ones always, retried ones once their back-off
\* has passed.
DueSets(s) ==
    LET in(states) == {r \in OutboxRequests : s.outbox[r] \in states}
    IN {d \in SUBSET in({"pending", "retrying"}) : in({"pending"}) \subseteq d}

\* drain_outbox starts: nothing due is nothing to do.
Draining(record, due) == [record EXCEPT !.due = due, !.draining = (due # {})]

\* loop.snapshot with the record's queue and ids.
Image(record) ==
    [record.session EXCEPT !.whole = @ /\ record.stage # "attached" /\ record.rest.queue = <<>>]

\* commit_checkpoint.  LATEST moves only to a higher sequence number: after two
\* processes wrote the run, a commit may not show.
Commit(record) == store' = Image(record) \/ (shared /\ UNCHANGED store)

\* persist_run_checkpoint: commit the session, then drain the outbox.
Persist(w, record) ==
    /\ Commit(record)
    /\ \E due \in DueSets(record.session) :
          host' = [host EXCEPT ![w] = Draining(record, due)]

\* persist_run_checkpoint returns at once when the record has no loop yet, or
\* when snapshot() gives None: in a turn, while a shell job runs.
Unsaved(w, record) ==
    /\ record.stage \in {"waiting", "building", "turn"}
    /\ host' = [host EXCEPT ![w] = record]
    /\ UNCHANGED store

-----------------------------------------------------------------------------
(* The lease file and the watchdog *)

\* submit_run registers a new run; it writes no lease, and the session starts
\* once there is a slot for it.
CreateRun(w) ==
    /\ artifact = "absent" /\ host[w].stage = "idle"
    /\ artifact' = "open"
    /\ host' = [host EXCEPT ![w] = [Idle EXCEPT !.stage = "waiting", !.session = NewSession]]
    /\ UNCHANGED <<lease, failures, store, inbox, emitted, sent, saved, shared>>

\* run_prepared attaches the loop and starts the first turn.
StartRun(w) ==
    /\ host[w].stage = "waiting"
    /\ host' = [host EXCEPT ![w].stage = "turn"]
    /\ UNCHANGED <<lease, artifact, failures, store, inbox, emitted, sent, saved, shared>>

\* The watchdog thread is not inside a reclaim.
Ticks(w) == host[w].claimed => host[w].stage = "posting"

\* _heartbeat_own_runs writes the lease whoever it names; a terminal record
\* drops it.
Heartbeat(w) ==
    /\ Ticks(w) /\ Tracks(w)
    /\ lease' = IF host[w].stage = "done" THEN "stale" ELSE "fresh"
    /\ UNCHANGED <<artifact, failures, store, host, inbox, emitted, sent, saved, shared>>

LeaseAges ==
    /\ lease = "fresh"
    /\ lease' = "stale"
    /\ UNCHANGED <<artifact, failures, store, host, inbox, emitted, sent, saved, shared>>

\* attempt_resume begins.  Nothing but the lease of a reclaim asks whether
\* another process has the run.
BeginResume(w, claimed) ==
    /\ host[w].stage = "idle" /\ artifact \in {"open", "closed"}
    /\ host' = [host EXCEPT ![w] = [@ EXCEPT !.stage = "resuming", !.claimed = claimed]]
    /\ shared' = (shared \/ \E v \in Workers : HasRun(v) \/ host[v].stage = "resuming")
    /\ UNCHANGED <<artifact, failures, store, inbox, emitted, sent, saved>>

\* reclaim_stale_runs: skip a tracked run and a quarantined one, then try_claim.
Claim(w) ==
    /\ lease = "stale"
    /\ lease' = "fresh"
    /\ BeginResume(w, TRUE)

\* recover_runs and resume_run take no lease and look at none.
ResumeRun(w) == BeginResume(w, FALSE) /\ UNCHANGED lease

\* The reclaim that did not resume the run gives the lease up, whoever it names
\* by now, unless the run was quarantined.  A command the worker has claimed
\* outlives the record.
GivesUp(w, outcome) ==
    /\ host' = [host EXCEPT ![w] = [Idle EXCEPT !.command = host[w].command]]
    /\ artifact' = outcome
    /\ lease' = IF host[w].claimed /\ outcome # "failed" THEN "stale" ELSE lease

\* Nothing to resume: the run has closed, or no checkpoint was committed.
ResumeFindsNothing(w) ==
    /\ host[w].stage = "resuming"
    /\ artifact # "open" \/ store = NoCheckpoint
    /\ GivesUp(w, artifact)
    /\ UNCHANGED <<failures, store, inbox, emitted, sent, saved, shared>>

\* Mutant: recovery does not look for the close a status.json records.
ResumableWhenClosed == artifact # "failed" /\ store # NoCheckpoint

Resumable == artifact = "open" /\ store # NoCheckpoint

\* The checkpoint is corrupt and the run quarantined, or a read fails and the
\* run is left to the next pass.
LoadFails(w) ==
    /\ host[w].stage = "resuming" /\ Resumable
    /\ \E outcome \in {"open", "failed"} : GivesUp(w, outcome)
    /\ UNCHANGED <<failures, store, inbox, emitted, sent, saved, shared>>

\* Mutant: recovery does not re-enqueue the messages of the checkpoint.
RegisterWithoutQueue(w) ==
    /\ host[w].stage = "resuming" /\ Resumable
    /\ host' = [host EXCEPT ![w] =
                    [@ EXCEPT !.stage = "building",
                              !.session = [store EXCEPT !.queue = <<>>, !.seen = {}],
                              !.rest = [queue |-> <<>>, seen |-> store.seen]]]
    /\ UNCHANGED <<lease, artifact, failures, store, inbox, emitted, sent, saved, shared>>

\* The checkpoint is loaded and a record without its queue, its ids and its loop
\* is registered.
RegisterRecovered(w) ==
    /\ host[w].stage = "resuming" /\ Resumable
    /\ host' = [host EXCEPT ![w] =
                    [@ EXCEPT !.stage = "building",
                              !.session = [store EXCEPT !.queue = <<>>, !.seen = {}],
                              !.rest = [queue |-> store.queue, seen |-> store.seen]]]
    /\ UNCHANGED <<lease, artifact, failures, store, inbox, emitted, sent, saved, shared>>

\* The loop is built, restored and attached ...
AttachLoop(w) ==
    /\ host[w].stage = "building"
    /\ host' = [host EXCEPT ![w].stage = "attached"]
    /\ UNCHANGED <<lease, artifact, failures, store, inbox, emitted, sent, saved, shared>>

\* Mutant: the ids of the checkpoint are not given back to the record.
ForgetSeenIds(w) ==
    /\ host[w].stage = "attached"
    /\ host' = [host EXCEPT ![w] = [@ EXCEPT !.stage = "posting", !.rest.seen = {}]]
    /\ UNCHANGED <<lease, artifact, failures, store, inbox, emitted, sent, saved, shared>>

\* ... then the record gets the ids of the checkpoint ...
RestoreSeenIds(w) ==
    /\ host[w].stage = "attached"
    /\ host' = [host EXCEPT ![w] = [@ EXCEPT !.stage = "posting", !.session.seen = host[w].rest.seen,
                                            !.rest.seen = {}]]
    /\ UNCHANGED <<lease, artifact, failures, store, inbox, emitted, sent, saved, shared>>

\* ... then its messages, one callable each ...
RequeueMessage(w) ==
    /\ host[w].stage = "posting" /\ ~host[w].draining /\ host[w].rest.queue # <<>>
    /\ LET left == host[w].rest.queue
       IN host' = [host EXCEPT ![w] = [host[w] EXCEPT !.session.queue = Append(@, Head(left)),
                                                      !.rest.queue = Tail(left)]]
    /\ UNCHANGED <<lease, artifact, failures, store, inbox, emitted, sent, saved, shared>>

\* ... and run_recovered drives the session from the suspension of the
\* checkpoint: it commits and waits.
DriveRecovered(w) ==
    /\ host[w].stage = "posting" /\ ~host[w].draining /\ host[w].rest.queue = <<>>
    /\ Persist(w, [host[w] EXCEPT !.stage = "parked", !.claimed = FALSE])
    /\ failures' = 0
    /\ UNCHANGED <<lease, artifact, inbox, emitted, sent, saved, shared>>

\* A step of the recovery fails: the record is dropped, and a run that failed to
\* resume once too often is quarantined.
ResumeFails(w) ==
    /\ host[w].stage \in {"building", "attached", "posting"}
    /\ failures' = failures + 1
    /\ GivesUp(w, IF failures' >= MaxRecoverAttempts THEN "failed" ELSE artifact)
    /\ UNCHANGED <<store, inbox, emitted, sent, saved, shared>>

\* A process that has to do with the run dies; what it had not committed is gone.
Crash(w) ==
    /\ host[w] # Idle /\ host[w].stage # "down"
    /\ host' = [host EXCEPT ![w] = [Idle EXCEPT !.stage = "down"]]
    /\ UNCHANGED <<lease, artifact, failures, store, inbox, emitted, sent, saved, shared>>

-----------------------------------------------------------------------------
(* The drive of a tracked run *)

Room(w) == Len(host[w].session.queue) < MaxQueue

\* _enqueue_message_and_checkpoint, for a client or for a claimed command: the
\* answer is "queued" whether or not there is a checkpoint behind it.
Enqueue(w, m, command) ==
    LET record == [host[w] EXCEPT !.session.queue = Append(@, m), !.command = command]
    IN \/ (HasLoop(w) /\ Persist(w, record) /\ saved' = saved \union {m})
       \/ (Unsaved(w, record) /\ UNCHANGED saved)

\* send_message.  Whether the id was seen is read on the caller's thread, before
\* the enqueue runs on the loop, so an id seen since is queued again.  Whether
\* there is room is read there too: the depth is a bound up to the number of
\* callers at that point, which the model takes to be one.
SendMessage(w, m) ==
    /\ OnLoop(w) /\ Room(w)
    /\ Enqueue(w, m, host[w].command)
    /\ UNCHANGED <<lease, artifact, failures, inbox, emitted, sent, shared>>

\* await_session_message: an id that was seen is dropped, another starts a turn.
Received(session, id) ==
    IF id \in session.seen
    THEN [stage |-> "parked", session |-> session]
    ELSE [stage |-> "turn",
          session |-> [session EXCEPT !.seen = @ \union {id}, !.log = Append(@, id)]]

\* queue.get() takes the message ...
Dequeue(w) ==
    /\ OnLoop(w) /\ host[w].stage = "parked"
    /\ host[w].taken = <<>> /\ host[w].session.queue # <<>>
    /\ host' = [host EXCEPT ![w] = [host[w] EXCEPT !.taken = <<Head(host[w].session.queue)>>,
                                                   !.session.queue = Tail(@)]]
    /\ UNCHANGED <<lease, artifact, failures, store, inbox, emitted, sent, saved, shared>>

\* ... and the drive gets it.
TakeMessage(w) ==
    /\ Drives(w) /\ ~host[w].draining /\ host[w].taken # <<>>
    /\ LET got == Received(host[w].session, Head(host[w].taken))
       IN host' = [host EXCEPT ![w] = [@ EXCEPT !.session = got.session, !.stage = got.stage,
                                                !.taken = <<>>]]
    /\ UNCHANGED <<lease, artifact, failures, store, inbox, emitted, sent, saved, shared>>

\* A tool stages a request: emit_outbox with expect_ack.
StageRequest(w) ==
    /\ OnLoop(w) /\ host[w].stage = "turn" /\ emitted < MaxRequests
    /\ emitted' = emitted + 1
    /\ host' = [host EXCEPT ![w].session.outbox[emitted'] = "pending"]
    /\ UNCHANGED <<lease, artifact, failures, store, inbox, sent, saved, shared>>

\* The turn settles; the park is committed and the outbox drained.
Settle(w) ==
    /\ OnLoop(w) /\ host[w].stage = "turn"
    /\ Persist(w, [host[w] EXCEPT !.stage = "parked"])
    /\ UNCHANGED <<lease, artifact, failures, inbox, emitted, sent, saved, shared>>

\* The session ends: closed, idle for too long, or terminal.
EndSession(w) ==
    /\ OnLoop(w) /\ Drives(w)
    /\ artifact' = IF artifact = "failed" THEN artifact ELSE "closed"
    /\ host' = [host EXCEPT ![w].stage = "done"]
    /\ UNCHANGED <<lease, failures, store, inbox, emitted, sent, saved, shared>>

\* The drive raises, or its loop cannot be built: record_run_failure writes
\* failure.json.
FailRun(w) ==
    /\ Drives(w) \/ host[w].stage = "waiting"
    /\ artifact' = "failed"
    /\ host' = [host EXCEPT ![w] = [@ EXCEPT !.stage = "done", !.draining = FALSE, !.due = {}]]
    /\ UNCHANGED <<lease, failures, store, inbox, emitted, sent, saved, shared>>

-----------------------------------------------------------------------------
(* The outbox *)

\* The watchdog schedules a drain of every live run that has a loop, inside a
\* turn too and while another thread recovers it; after its own reclaim the drain
\* comes behind the callables that requeue.
Redrive(w) ==
    /\ OnLoop(w) /\ HasLoop(w)
    /\ Ticks(w) /\ (host[w].claimed => host[w].rest.queue = <<>>)
    /\ \E due \in DueSets(host[w].session) \ {{}} :
          host' = [host EXCEPT ![w] = Draining(@, due)]
    /\ UNCHANGED <<lease, artifact, failures, store, inbox, emitted, sent, saved, shared>>

\* stage_outbox_ack: the receipt of a request that ended goes to the queue, once,
\* if there is room.
WithAck(session, r) ==
    IF r \in session.seen \/ Len(session.queue) >= MaxQueue THEN session
    ELSE [session EXCEPT !.queue = Append(@, r)]

\* Mutant: the acknowledgement is staged for every attempt.
RecordedEagerly(session, r, outcome) ==
    WithAck([session EXCEPT !.outbox[r] = outcome], r)

\* record_outbox_result, then the acknowledgement.
Recorded(session, r, outcome) ==
    LET marked == [session EXCEPT !.outbox[r] = outcome]
    IN IF outcome = "retrying" THEN marked ELSE WithAck(marked, r)

\* The oldest due request is sent and its result recorded in memory.
SendRequest(w) ==
    /\ HasLoop(w) /\ host[w].due # {}
    /\ LET r == Min(host[w].due)
       IN /\ sent' = sent \union {r}
          /\ \E outcome \in {"dispatched", "failed", "retrying"} :
                host' = [host EXCEPT ![w] = [host[w] EXCEPT !.session = Recorded(@, r, outcome),
                                                            !.due = @ \ {r}]]
    /\ UNCHANGED <<lease, artifact, failures, store, inbox, emitted, saved, shared>>

\* The drain commits what it recorded, if there is a snapshot.
DrainCommits(w) ==
    /\ HasLoop(w) /\ host[w].draining /\ host[w].due = {}
    /\ Commit(host[w]) \/ (host[w].stage = "turn" /\ UNCHANGED store)
    /\ host' = [host EXCEPT ![w].draining = FALSE]
    /\ UNCHANGED <<lease, artifact, failures, inbox, emitted, sent, saved, shared>>

-----------------------------------------------------------------------------
(* The command inbox: send_message commands, whose id is the message's *)

Unfinished == {i \in DOMAIN inbox : inbox[i].status \in {"pending", "claimed"}}

\* enqueue_control: the run is tracked here, or its lease is live.  A repeated
\* id is answered with the receipt of the first.
AppendCommand(m) ==
    /\ (\E w \in Workers : Tracks(w)) \/ lease = "fresh"
    /\ \A i \in DOMAIN inbox : inbox[i].id # m
    /\ inbox' = Append(inbox, [id |-> m, status |-> "pending", by |-> NoWorker, aged |-> FALSE])
    /\ UNCHANGED <<lease, artifact, failures, store, host, emitted, sent, saved, shared>>

Claimable(i, w) ==
    /\ i \in Unfinished /\ \A j \in Unfinished : i <= j
    /\ inbox[i].status = "claimed" => inbox[i].by # w /\ inbox[i].aged

\* _drain_command_inbox of a worker that tracks the run: claim ...
ClaimCommand(w) ==
    /\ Tracks(w) /\ host[w].command = <<>>
    /\ \E i \in DOMAIN inbox :
          /\ Claimable(i, w)
          /\ inbox' = [inbox EXCEPT ![i] = [@ EXCEPT !.status = "claimed", !.by = w, !.aged = FALSE]]
          /\ host' = [host EXCEPT ![w].command = <<i, "none">>]
    /\ UNCHANGED <<lease, artifact, failures, store, emitted, sent, saved, shared>>

CommandAges ==
    /\ \E i \in DOMAIN inbox :
          /\ inbox[i].status = "claimed" /\ ~inbox[i].aged
          /\ inbox' = [inbox EXCEPT ![i].aged = TRUE]
    /\ UNCHANGED <<lease, artifact, failures, store, host, emitted, sent, saved, shared>>

Executing(w) == host[w].command # <<>> /\ host[w].command[2] = "none"

\* ... execute: the message is enqueued, or was seen already ...
ExecuteCommand(w) ==
    /\ Executing(w) /\ OnLoop(w)
    /\ LET m == inbox[host[w].command[1]].id
       IN \/ (Room(w) /\ Enqueue(w, m, <<host[w].command[1], "completed">>))
          \/ /\ m \in host[w].session.seen
             /\ host' = [host EXCEPT ![w].command[2] = "completed"]
             /\ UNCHANGED <<store, saved>>
    /\ UNCHANGED <<lease, artifact, failures, inbox, emitted, sent, shared>>

\* ... or the run is terminal or no longer tracked or its queue full ...
RefuseCommand(w) ==
    /\ Executing(w)
    /\ ~HasRun(w) \/ ~Room(w)
    /\ host' = [host EXCEPT ![w].command[2] = "failed"]
    /\ UNCHANGED <<lease, artifact, failures, store, inbox, emitted, sent, saved, shared>>

\* ... and acknowledge, which fails when another worker has claimed it since.
AcknowledgeCommand(w) ==
    /\ host[w].command # <<>> /\ ~Executing(w)
    /\ LET i == host[w].command[1]
       IN inbox' = IF inbox[i].status = "claimed" /\ inbox[i].by = w
                   THEN [inbox EXCEPT ![i].status = host[w].command[2]] ELSE inbox
    /\ host' = [host EXCEPT ![w].command = <<>>]
    /\ UNCHANGED <<lease, artifact, failures, store, emitted, sent, saved, shared>>

-----------------------------------------------------------------------------
HostInit ==
    /\ lease = "stale" /\ artifact = "absent" /\ failures = 0
    /\ store = NoCheckpoint
    /\ host = [w \in Workers |-> Idle]
    /\ inbox = <<>> /\ emitted = 0 /\ sent = {} /\ saved = {} /\ shared = FALSE

Watchdog(w) == CreateRun(w) \/ Heartbeat(w) \/ Redrive(w) \/ Crash(w)

Recovery(w) ==
    \/ Claim(w) \/ ResumeRun(w) \/ ResumeFindsNothing(w) \/ LoadFails(w) \/ RegisterRecovered(w)
    \/ AttachLoop(w) \/ RestoreSeenIds(w) \/ RequeueMessage(w) \/ DriveRecovered(w) \/ ResumeFails(w)

Drive(w) ==
    \/ StartRun(w) \/ Dequeue(w) \/ TakeMessage(w) \/ StageRequest(w) \/ Settle(w)
    \/ EndSession(w) \/ FailRun(w) \/ SendRequest(w) \/ DrainCommits(w)
    \/ \E m \in Messages : SendMessage(w, m)

Commands(w) ==
    ClaimCommand(w) \/ ExecuteCommand(w) \/ RefuseCommand(w) \/ AcknowledgeCommand(w)

HostNext ==
    \/ LeaseAges \/ CommandAges
    \/ \E m \in Messages : AppendCommand(m)
    \/ \E w \in Workers : Watchdog(w) \/ Recovery(w) \/ Drive(w) \/ Commands(w)

HostSpec == HostInit /\ [][HostNext]_hostVars

-----------------------------------------------------------------------------
(* Properties *)

(* No saved message is lost: whatever crashes and recoveries follow, a message
   whose enqueue committed a checkpoint before it was answered is, while the run
   is open, in the latest checkpoint, in its queue or in its transcript; and a
   marker that would have a message dropped as a duplicate never gets there
   without it.  Two things break it, and are excepted: two processes that wrote
   the run at the same time, and a recovery that dies after a checkpoint of its
   half-restored record. *)
AcceptedIsKept ==
    artifact = "open" /\ ~shared /\ store.whole =>
        /\ saved \subseteq ToSet(store.queue) \union ToSet(store.log)
        /\ store.seen \subseteq ToSet(store.log)

(* No message is applied twice: whatever was redelivered by clients, by the
   command inbox or by recoveries, of two processes at once too, no transcript
   holds an input twice, unless it goes back to a checkpoint of a half-restored
   record, which has lost its ids. *)
AppliedOnce ==
    \A s \in {store} \union {host[w].session : w \in Workers} : s.whole => IsInjective(s.log)

(* An acknowledgement tells the truth: whatever was sent again after a crash, a
   checkpoint that holds the acknowledgement of a request, queued or taken,
   records that its sending has ended, and a request whose sending has ended
   was sent. *)
AcksFollowSends ==
    \A r \in OutboxRequests :
        /\ r \in ToSet(store.queue) \union store.seen => store.outbox[r] \in {"dispatched", "failed"}
        /\ store.outbox[r] \in {"dispatched", "failed"} => r \in sent

(* A run that has ended stays ended: unless two processes had the run at once,
   which nothing but a reclaim's lease is against, nobody has a live record of a
   run whose directory says that it closed or was quarantined. *)
EndedRunIsNotDriven ==
    artifact \in {"closed", "failed"} /\ ~shared => ~\E w \in Workers : HasRun(w)

(* A live peer's run is left untouched: a reclaim never gives a process a live
   record of a run that another process drives. *)
LivePeerIsLeftAlone ==
    \A v, w \in Workers : Drives(v) /\ v # w => ~(HasRun(w) /\ host[w].claimed)
=============================================================================
