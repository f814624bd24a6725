# A verification project for monoid-agent-kernel

This directory holds TLA+ models of the durable execution core of
`monoid_agent_kernel` (version 0.25.0), the TLC configurations that check them on
small instances, and theorems about them that TLAPS checks for every value of the
constants. Paths below are relative to `src/src/monoid_agent_kernel/` of the
repository.

## 1. The system

An *agent run* is a long conversation of an agent loop with models and tools. The
kernel lets a host execute runs on many worker processes, any of which may stall or
die. A run is advanced by *commands* (start, user message, approval, cancel). Every
command goes along one path:

1. a client *admits* the command into PostgreSQL, which gives it the next sequence
   number of the run and a row in the dispatch outbox (`hosting/admission.py`,
   `adapters/postgres/admission.py`);
2. a *dispatcher* claims the row and sends it with Signal-With-Start to the run's
   Temporal Workflow, then records the outcome (`adapters/temporal/dispatcher.py`);
3. the *Workflow* puts commands in order, and schedules one Activity for each
   (`adapters/temporal/workflow.py`);
4. an *Activity attempt* claims the run's writer lease, binds the command to the
   checkpoint it starts from, and runs the activation driver while other threads
   renew the lease (`adapters/temporal/activity.py`, `hosting/authority.py`);
5. the *driver* restores the checkpoint, runs the agent loop, and commits events,
   checkpoints and finally a terminal record through the *fenced run sink*
   (`hosting/activation.py`, `adapters/postgres/sink.py`);
6. every one of these writes is checked against the *writer authority* row under
   its lock (`adapters/postgres/authority.py`).

### Inventory

| Component | State | Operations | What makes it correct |
|---|---|---|---|
| Writer authority | one row per run: owner, generation, expiry, revoked | claim, renew, release, read | at most one holder; a lost lease never comes back; answers do not overstate it |
| Fenced run sink | event, checkpoint, blob and terminal tables with their heads | append_event, commit_checkpoint, settle_terminal, reconciliation after a lost response | stale writers write nothing; records are written once; answers are true; checkpoints can be restored |
| Lease supervisor | threads, events, local deadline of an attempt | bootstrap, install, renew, watch, drive, cleanup | local authority implies the database lease; the attempt always ends |
| Write authority of an activation | request and revoked flags, reentrant lock, callbacks | revoke, guard_local_mutation, guard_external_call, add_revoke_callback | a revocation waits for the mutation under way and admits no other; every bridge is told once |
| Admission and outbox | admission records and head, outbox rows, activation binding | admit, claim, acknowledge, fail, reconcile terminal, bind | commands leave in order; a delivery is final; a finished run is frozen and drained |
| Transport and Workflow | requests under way; next sequence, buffer, command in flight | dispatch, submit_command, run, continue-as-new | duplicates are dropped; never ahead of the database |
| Activation driver | what it loaded, the checkpoint it is at | drive, replay, settle terminal | each command applied exactly once, in order |
| Model invocations and evidence | invocation rows by revision, evidence rows, evidence outbox | recover, reserve, dispatch_started, settled, unknown | a paid call is never repeated; what the loop gets is durable |
| Hosted event publication | bus sequence, journal, run directory, receipts | emit, close, FencedEventSink, repair | the journal has no gaps; run directories follow it |
| Durable streams | stream heads, chunks, generations; lanes and buffers of the writer | open, reset, append, seal; push, flush, begin_dispatch, prepare_settlement, close, abort | a reader sees one execution; a settled answer keeps its whole stream |
| Object store and its collection | object rows, associations, digest locks, plans, receipts | put, associate, inventory, plan, apply | a referenced object is never deleted |
| Reference host (files, SQLite) | lease file, run directory, checkpoint, command inbox, queue, outbox | watchdog, recover, send_message, drive, drain, claim, acknowledge | an accepted message is neither lost nor applied twice, without a fence |
| Agent loop and its tasks | conversation, pending observations, approvals, task table, park | submit, resume, step, tool calls, settle, interrupt, pause, cancel, report, checkpoint, close, restore | every call has one result; an approved call runs once; an acknowledged answer is not lost; an unsettled turn is no success |
| Sync bridge and cancellation token | worker thread, waiter, token callbacks, grace | start, await, abandon, detach; cancel, register, remove | a stopped run is released; an answer is read or handed back |
| DBOS host of the Reference profile | lifecycle state, process owner token, shutdown owner and deadline, two participants | launch, close, rollback, fence, tear down; enqueue, receipt | the process is given back only when quiet; a close always resolves |
| Gateways, providers, tools, workspace, CLI, conformance | - | I/O and translation | covered by ordinary tests |

`PROJECT.json` lists every component with its files and status, and every hazard
with its line.

### What is hard about it

Several processes act on one run without knowing of each other: Temporal starts a
second attempt while the first one still runs, dispatchers take over each other's
claims, and a response may be lost after the commit it reports. Leases expire by the
clock of the database, between any two statements. Everything rests on checking the
authority row under its lock, on immutable identities, and on reconciling reads; each
is a few lines, and each has an order of events no test schedules. The behaviours of
interest are therefore: expiry at any point, takeovers, lost and repeated requests,
timeouts that abandon a thread which then succeeds, crashes after a commit, and the
end of the run racing all of these.

A model call is the hardest of them: the provider cannot be asked whether it was called,
so the journal has to say before the call that it may happen, and doubt is final. A
garbage collector acts on plans that are old when it applies them, and its delete cannot
be rolled back. The Reference backend has no fence at all: a reclaim looks at a lease file,
`recover_runs` and `resume_run` look at none, and apart from that it relies on marking ids
as seen, on one event loop per process and on being used by one writer at a time. The agent loop leaves a turn at a
dozen places, each with its own rule for what stays pending, and checkpoints of the same
session are written by the loop, by its driver and by whoever reports a task, in the middle
of a turn too.

## 2. Modules

```
FencedLease            what the writer authority promises
  ^ implemented by
AuthorityStore         row, row lock, clock, transactions
  ^ extended by
  |- RunSink           guarded mutations and reconciliation
  `- LeaseSupervisor   the threads of an Activity attempt

CommandOutbox          admission, dispatch claims, settlements, binding
  ^ extended and implemented by
CommandLane            + Temporal, Workflow, attempts (lease: FencedLease)

WriterFence            the lease as an activation's stores see it (instance of FencedLease)
  ^ extended by
  |- ModelInvocation   the journal of a model call and the runner around it
  |- EventPublication  bus, fenced journal, run directory, receipts
  `- DurableStream     stream store, stream writer, the call it serves

ObjectCollection       uploads, associations, plans and the collector
WriteAuthority         the local capability all threads of an activation use
AgentLoop              the pump an activation drives, its tasks and checkpoints
SyncBridge             one model call that its run may have to abandon
ReferenceHost          the Reference backend: workers without a fence
DbosHost               launch and shutdown of the DBOS runtime and its participants
```

The modules TLC runs are `MCAuthority` (store, then attempts), `MCRunSink` (journal, then
checkpoints), `MCCommandLane`, `MCAgentLoop`, `MCActivation` (the lane, then the loop),
`MCPublication` (events, then streams), `MCServices` (invocation, objects, host, local) and
`MCLiveness`. Where one of them holds several
models, a variable `part` that never changes says which of them moves; the others stay in
their initial state, so the runs explore them one after the other and not their product.
The models under one `part` variable do not interact in the code except through the lease,
which each of them already has as an arbitrary environment.

Proofs are in `AuthorityStoreProofs`, `RunSinkProofs`, `LeaseSupervisorProofs` (all three
about the store), `CommandLaneProofs` (the outbox, then the lane), `WriterFenceProofs` (the
model calls, then the event journal), `HostingProofs` (the object collection, then the local
write authority, the model streams and the abandonable call), `ReferenceHostProofs` (the
Reference run, then the DBOS host) and `AgentLoopProofs`. Modules with proofs do not
write `@` inside a record update that is itself inside `[@ EXCEPT ...]`: the prover and TLC
read it differently. Definitions whose comment begins with "Mutant:" are wrong variants of the definition after them; they are in
no specification, and `PROJECT.json` names the property each of them breaks.

### AuthorityStore

`row` is the committed `run_authority` row (generation 0: no row), `lock` the
transaction that holds it, `now` the database clock, `call` each caller's open
transaction or last answer. Operations of `PostgresWriterAuthorityStore` are split where
the code issues separate statements: `ClaimReads` then `TakeOver`, `ClaimFindsNoRow` then
`InsertFirst` and `ActivateFirst` (the code inserts a revoked placeholder and activates
it with a fresh clock), `RenewReads` then `RenewUpdates`, `ReleaseReads` then
`ReleaseUpdates`. `Tick` may come between the two, and
the UPDATE then finds the lease expired, as the comment in `renew` says. `Abort` ends a
transaction without effect; a commit may answer `error` although it took place. `GuardReads`
and `GuardCommits` are what the other stores do with the row. Callers may present any
token at any time, so what holds here holds whatever the clients do.

The column `generation` is a bigint: `MaxGeneration` stands for its range, and
`TakeOverOverflows` for the error PostgreSQL raises there.

### RunSink

One run's tables. A mutation passes through `Submit`, `CheckWriter` (the guard),
`CommitMutation` (verdict and insert in the same transaction), and, when the answer was
lost, `BeginReconcile` and `Reconcile`: a second guarded transaction that only reads.
`Verdict` follows the order of the checks in `_commit_event_locked`,
`_commit_checkpoint_locked` and `_commit_terminal_locked`; digests are abstracted to the
content they identify. `committedBy` is a history variable.

### LeaseSupervisor

One record per attempt in `sup`: the stage of each thread, what it published, the local
deadline, and the flags `_failure`, `revoked`, `abandoned`, `_renewal_stop`. Authority
calls are AuthorityStore's own steps, so they may hang, abort or lose their answer.
`BootstrapWaits`, `DriveWaits` and `CleanupWaits` may time out at any moment; an abandoned
bootstrap goes on and gives its lease back (`ReleaseAfterClaim`). `guarding` says that the
driver is inside `guard_local_mutation` and holds the lock of the write authority
(`EnterGuard`, which is refused once revocation was requested, and `LeaveGuard`). `Fail`
publishes the failure and the revocation at once; `revoke()` then waits for that lock without a
timeout, so the main thread is "failing", or "leaving" when it revokes at the end, until
`RevokeReturns`. Only the main thread can be held up there by a running driver in a way a
property could tell: the other callers of `revoke()` have nothing left to do for
the attempt. The callbacks of a revocation are taken to return. The monotonic clock and
the database clock advance at one rate: the code relies on it when it adds
`leased_until - observed_at` to a monotonic time. `Crash` is the death of the process.

### CommandOutbox

`records`, `head`, `outbox`, `bound` and `terminal` are the tables; `dispatcher` is where
`dispatch_once` stands. A store operation is one transaction under the authority lock and
the row lock, so one step. `until` says how `leased_until` compares with the
database clock; `ClaimExpires` makes it pass at any time. `MaxClaims` bounds the claim
generation. `Send` and `Reply` leave the transport open. Left out: the replay of a claim
id (`dispatch_once` draws a new one for every claim), the retry delay (a retried row may
be claimed at any later time), and admissions refused for another digest, which change
nothing. The snapshot `claim_dispatch` selects from may be older than a terminal
commit, but `_dispatch_claim` checks again and rolls back under a shared lock on the
authority row, which makes claim and terminal commit one step each.

### CommandLane

The composition. `signals` are Signal-With-Start requests under way: each may be served,
late or after its sender gave up, or lost. `workflow` is `TemporalRunWorkflow`. Timeouts of
an attempt are Temporal's (`AttemptTimesOut`): the attempt goes on. An attempt claims the
lease (`FencedLease`, which `AuthorityStore` implements), binds, loads the newest
checkpoint without a lock, reads the terminal record, commits checkpoints, and settles.
`Current` is the guard of its transactions: `GuardedWriterIsCurrent` is why it may be
one comparison. `log` is the checkpoint table; an entry names the
command it advances and whether it completes it, which is what the receipt in
the checkpoint's metadata records. Infrastructure errors and crashes are `AttemptErrs`.
External to the repository, and modelled from how it is used: the Temporal server and
client, the PostgreSQL clock, process death.

### WriterFence and the modules of an activation

An activation is granted a generation (`Granted`) while older ones still run; its writes
are accepted while it holds the newest one (`Holds`, the guard of every store). The lease
may lapse at any time. `FencedLease` is what `AuthorityStore` implements, so nothing is
assumed here that is not shown there.

**ModelInvocation** is one logical model call. `invocations` is `invocation_record` by
revision, whose last entry is the head; `evidence` and `staged` are the evidence tables;
`calls` are the entries into the provider, the thing that cannot be undone. An activation
goes through `Recover`, `Reserve`, `DispatchStarted`, `EnterProvider`, `ProviderReturns`,
`Settled` or `Doubt`, `AfterSettled`, `ReleaseOutcome`; each journal write is a
`CommitInvocation` of its own that may be refused by the verdict, fenced, or take effect
and report an error (`CommitErrs`). `InvocationTransition` is the table of allowed
transitions, `MayRetry` the runner's retry rule. A replacement may rebuild another request
(`Requests`) and be configured with another evidence policy. Payloads are reduced to the
provider entry they came from, so that an answer can be recognised.

**EventPublication.** `eventJournal` is `event_record`; `disk` a run directory with
`events.jsonl` (a possibly torn tail) and the watermark of `status.json`; `proc` a process
with its bus. `BuildEvent` takes the bus lock and numbers the event, `CheckEvent` asserts the
authority, `AppendEvent`, `AppendRefused` and `AppendErrs` are the fenced append with its one
ambiguous retry under the same identity, `WriteLine` and `WriteStatus` the projection.
`OpenRecorder` repairs the tail and continues the sequence from the journal.
Two live processes never share a run directory: hosts give every attempt its own or restart
in one whose process is dead.

**DurableStream.** `streamHead` and `chunks` are the stream tables; `writer` is the
observer with its two lanes, buffer, flush worker and the model call it serves. Store
operations carry the generation and offset the writer knows, so a stale writer is refused
or acknowledged as the code does. Sealing is two transactions (`SealSnapshot`, `SealCommit`).
A byte is known by the dispatch that produced it, and a chunk is one byte: enough to see
two executions mixed, or a byte missing. Readers only read.

**ObjectCollection.** `PutObject` precedes the transaction that associates; `digestLock` are
the advisory locks, taken in the order of the digests; a collector makes a plan (inventory,
then the rows, at different times) and applies its candidates one by one, each under the
lock, with the version and generation of the plan checked again. `DeleteRefused` is the
precondition of the bucket. A process may die between the delete and the commit of the
receipt. A database session is assumed to outlive the physical delete it waits for.

**WriteAuthority.** One `ActivationWriteAuthority`: `requested` is published before the
lock is waited for, `mutex` is the reentrant lock, and callbacks run outside of it.

### AgentLoop

One run of `AgentLoop` under the drive loop of the Reference backend
(`reference/backend/session_drive.py`), without a durable model hook. `loop` is the session
of the process: `_Session`, `RunState` and `TaskManager` in one record, whose fields are
named for the attributes they stand for, with `pc` for where the pump is. `store` is the
latest checkpoint: the same record after `Checkpoint` has dropped what `snapshot()` drops.
`jobs` are the `job.json` files of shell jobs, `reports` the threads that report results.

- *Driver.* `Submit`, `Resume`, `PersistPark`, `GiveUp` and `Close` are what
  `drive_open_session` does with each suspension; `Promotion` is the verdict `close()` puts
  in the place of a park that did not settle.
- *Pump.* `BeginStep` takes the finished tasks, `ConsumeReplay`, `RunReplay` and `EndReplay` run
  one approved call, `SendRequest` extends the conversation, `ModelFails`, `ModelCalls` and
  `ModelAnswers` are the model's answers, `RunCall` and `EndBatch` a batch of calls with its
  budget, `ApplySettle` the validators' decision and the repair of an output. `Cancelled`,
  `Interrupted`, `Paused`, `StepLimit` and `LimitReached` are the other ways out; `Suspend` is
  the park each of them ends in, accepted only when its checkpoint was.
- *Tasks.* `ShellExits`; and `ReportArrives`, `ReportApplies`, `ReportPublishes`,
  `ReportPersists`: the check, the write, the publication and the checkpoint of
  `report_task_result`, between which the pump moves.
- *Faults.* `Crash` at any point; `Restore` from the latest checkpoint, with the notice of
  the shells that were lost.

The conversation is its last role and the set of what it contains, with what it contains
twice; the text of messages, the workspace, tokens and the tool surface are left out.
Tuples whose order no property tells apart are sets. The effect of a plain call and its
observation are one step: a handler that a stop abandons in between leaves its batch
unfinished, which `history.lapses` records. `lapses` names what the properties make an
exception for, each a thing the code does: a stop that cuts a batch short or drops unsent
results (*stranded*), a call over the budget behind `run.finish` (*overrun*), a restore from
a checkpoint taken inside a turn (*midturn*), a consumption that was not committed
(*unsaved*). `history.limits` is chosen at the start from `Limits`: the budget of tool calls,
steps and repairs, and the bounds on inputs, batch size and faults.

### ReferenceHost

One multi-turn run of the Reference backend, several worker processes. `lease` is
`lease.json`, `artifact` what the run directory says, `store` the latest checkpoint, `host`
a worker's record of the run, `inbox` the SQLite command inbox. What the worker runs on its
event loop without an await is one step; `await`s are where other callables come between.
A checkpoint commit is one step. A crashed process does not return under its worker id.

- *Start.* `CreateRun` registers the record; it has no loop until the run has got a
  slot (`StartRun`), and messages are accepted in between.
- *Recovery* runs on another thread, so callables of the event loop come between any two of
  its steps: `Claim` (a reclaim, with the lease) or `ResumeRun` (`recover_runs` and
  `resume_run`, which look at no lease), `RegisterRecovered`, `AttachLoop`, `RestoreSeenIds`,
  `RequeueMessage` once per message, `DriveRecovered`; or `ResumeFindsNothing`, `LoadFails`,
  `ResumeFails`. From `AttachLoop` on, what the loop runs can commit a checkpoint without the
  ids and messages that are still to be given back.
- *Commit.* `Persist` commits the session and starts a drain of the outbox; `Unsaved` is
  `persist_run_checkpoint` returning without a commit, because the record has no loop or
  `snapshot()` gives None. A message is answered "queued" either way. A drain may skip its
  commit in a turn for the same reason.
- *Drive, outbox, inbox.* `Dequeue` and `TakeMessage` are `queue.get()` and the drive
  that awaited it; `Redrive`, `SendRequest` and `DrainCommits` the outbox, in the middle of a
  turn too; `ClaimCommand`, `ExecuteCommand`, `RefuseCommand`, `AcknowledgeCommand` the command
  inbox. Whether an id was seen and whether there is room is read on the caller's thread,
  before the callable runs.

Three variables are no fields of the code; the properties use them to say what they except.
`saved` are the messages whose enqueue did commit a checkpoint before it was answered.
`shared` says that two processes have had the run at the same time: a reclaim of a run
whose lease is late or missing, or a `recover_runs` or `resume_run`, which nothing but the
repository's way of use is against (`docs/EMBEDDING.md:643-647`: "single-host, single-writer
Reference fixture", resumed once the previous writer has stopped). Two writers' checkpoints
race for LATEST, so that a commit of a shared run may not show. `store.whole` is false of a
checkpoint that was committed while a recovery had not given everything back: harmless as long
as that process lives, since a later commit replaces it, but lasting when it dies.

The constant `TaskedWait` chooses Python 3.11's `asyncio.wait_for`, which runs
`queue.get()` as a task of its own. An acknowledgement's id is `ack_<request>`, modelled as
the request's number: `MessagesAssumption` says that no message has such an id. Command types
other than `send_message`, tasks and approvals are left out.

### SyncBridge

One call of `core/_sync_bridge.py` from the moment it was started. `shape` says whether the
callee is a blocking function on a daemon thread or a coroutine, `outcome` how it ended,
`future` what its waiter or task shows on the loop, `post` where `deliver()` is, `awaiter`
where `await_abandonable_call` is and what it gives, `token` the cancellation token with the
callback of this wait. `handed` counts calls of the discard hook. What runs on the loop
between two awaits is one step; the worker thread (`WorkerReturns`), the canceller (`Request`,
then `CallBack` outside the lock), the deadline, the host's own cancellation
(`CallerCancelled`, `CancelledAgain`) and the closing of the loop come at any time. Two ways
out are outside the hand-back rule and named by `OutOfReach`: a delivery posted after the last
turn of a loop that then closes, and an async callee that swallows its cancellation
and returns after the host cancelled a second time during the grace. The disposal of late
awaitables and the warnings are left out.

### DbosHost

`dbos` are the fields of `DbosRuntimeHost` and whether the process owner token is held,
`launcher` where `launch()` is, `tear` where each of the three tear-downs is (`_close_worker`,
`_rollback_launch`, `_cleanup_fenced_launch`), `participant` the hosted control plane and run
driver, `engine` the DBOS runtime, `op` the operations under way, `drives` the running
workflows, `closer` the callers of `close()`. One action is what a thread does under
one lock, and an operation that has read the host keeps its participant's lock until it has
read it again. Hooks, `launch` and `destroy` may fail where they can raise, and
hang anywhere: nothing but the clock, the watchdog and the waiting callers is fair.
`GlobalsChange` is another accessor of DBOS's process globals, which the code looks for.
Left out: construction, `close()` called from a launch or shutdown callback (refused without
effect), stop and count hooks that raise, and the standalone forms.

## 3. Runs

Bounds are in the `.cfg` files. Seven runs pass; the other five each refute one sentence
of the repository's documents or comments.

| Run | States | Question |
|---|---|---|
| `authority` | 1,586,858 | Part *store*: two callers, two owners, TTL 2, clock to 3, two generations: a takeover with an expiry between any two statements. Part *attempts*: two Activity attempts, all their threads, one takeover. `AttemptsBound` leaves guarded mutations to `liveness` (they only hold steps up, and no safety property reads them), lets one bootstrap at a time be abandoned, and lets no cleanup time out that has nothing to stop or release. |
| `sink` | 3,589,896 | Events at two sequences with two ids and a terminal record under two writers: ids reused under another sequence, events after the end, retries after takeover. Checkpoints 0 and 1 that carry or inherit one blob, same and different content at a coordinate. |
| `liveness` | 164,278 | Every authority call is answered; an attempt ends although everything it waits for may hang; after the end of the run the outbox is drained. Part *bridge*: one call of either shape, with every order of return, cancellation, deadline, host cancellation and closing loop. Part *dbos*: two callers of `close()`, one operation, one workflow at a time, all three tear-downs. |
| `activation` | 2,808,811 | Part *lane*: two commands, two overlapping attempts, three writer generations, up to three checkpoints after the seed: the smallest instance where an attempt can be overtaken, a running checkpoint resumed, and a second command follow. Part *loop*: two calls of every kind, one reporter, one stop and one crash, for three runs: one turn of three steps with two calls at a time, two turns of two steps, and two turns with a budget of one call and one repair. |
| `lane_redelivery` | 1,479,901 | Two dispatchers and two claims per command, so that a Signal is duplicated and arrives late; the lane implements CommandOutbox. |
| `publication` | 2,529,648 | Two activations in three generations. *Events*: two emitting threads, two directories, two events, two receipts. *Streams*: two deltas per channel and dispatch, a buffer of two bytes, two writers. |
| `services` | 2,439,924 | *Invocation*: two activations, three generations, two requests, three policies, two dispatches. *Objects*: two uploaders, a collector, two digests, two versions. *Host*: two workers, a message, a request, a queue of two, two recovery attempts; commands and requests meet crashes and recoveries while no recovery has failed and the checkpoint is whole, otherwise a run has the one or the other, and a shared run has what clients send (`HostBound`). *Local*: three threads, two callbacks. |
| `lane_response_loss`, `invocation_resume`, `reclaim_live_peer`, `message_lost`, `approval_replay` | violations | See findings. |

Why the bounds are enough: three generations let a replacement be replaced while the first
activation still acts; two dispatches let a retry follow a refusal and a replacement meet
either; two digests are what lock order and plans with more than one candidate need; two
versions let an object be deleted and put again between plan and apply. Two workers of the
host suffice because a worker that crashed leaves a successor that starts from
the checkpoint, and a second recovery has the same form. A queue of two holds a message and
its redelivery, or a message and an acknowledgement, and can be full. The loop needs three steps to be resumed
after a task (call, park, result), two calls so that one can be an approval while the other
is a shell job, and two turns to send a result again.

What they show:

- *Lease.* `GuardedWriterIsCurrent`: nobody takes a run over while a mutation that passed
  the guard is open. `LeaseEvidence`: what a caller was told, also by a repeated
  claim after a lost answer, stays true. `ImplementsFencedLease`: the row, mapped to a
  holder by `Active`, behaves as `FencedLease`; a renewal that revived an
  expired lease would break it.
- *Supervisor.* `DriverHoldsLease`: a driver whose local deadline lies ahead and which is
  not revoked owns the database lease. `AttemptLeavesNothing`: a driver that outlives its
  attempt is revoked, from the moment the main thread gives it up, and an attempt that ended
  well holds no lease. `AttemptEnds`: an attempt ends although database, driver, renewal and
  cleanup hang, unless its driver hangs inside a guarded mutation: the code waits for that
  without a limit, and the property names it.
- *Sink.* `StaleWriterNeverCommits`, `RecordsAreWriteOnce` (also: no new event after the
  terminal record), `EventIdsAreUnique`, `HeadsResolve` (the event
  head is the newest event, and every blob a stored checkpoint refers to is there) and
  `AnswersAreTrue`: a caller that is told committed, already committed or
  conflict finds just that in the tables, after reconciliation too.
- *Outbox.* `LaneInOrder`, `DeliveryIsFinal` (a late dispatcher changes nothing),
  `TerminalFreezesOutbox`.
- *Lane.* `AppliedOnceInOrder`: the durable history of a run is the checkpoints of command
  1, then those of command 2, and so on. `DriverIsAtHead` (a current driver continues the
  newest checkpoint, from a source no other command has), `WorkflowFollowsDatabase`, `ImplementsOutbox`, `TerminalConverges`.
- *Loop.* `ApprovedOnce`: an approved call runs at most once over crashes and restores, as
  long as its consumption was committed. `LogIsWellFormed`: what a model request carries has
  one result for every call and none twice, whatever parks, failures, pauses and restores
  came before. `ResultsAreKept`: an answer that was acknowledged is in the live session and
  in the checkpoint, wherever the pump was. `HonestClose`: a run that closes as completed
  over a durable park ended with an answer of the model or with `run.finish`, after a
  restart too.
- *Model calls.* `ProviderEnteredOnce`: over all activations the provider is entered once
  per attempt, again only after a recorded refusal, and with the same request and
  idempotency key. `TurnIsDurable`: a turn the loop gets is the settled answer to its own
  request, with its evidence, and an answer never turns into doubt or back.
- *Publication.* `JournalIsGapless`, although a replacement reads the end of the journal
  while its predecessor still appends, and receipts cite events that exist. `ProjectionFollowsJournal`: run directories hold
  journal events in order and no replacement finds one corrupt, wherever the process died.
- *Streams.* `SettledStreamIsWhole`: no generation, and no pair of current channels, mixes
  two executions; what was delivered before a settlement is stored with it, and a sealed
  answer stays sealed with the settled text.
- *Objects.* `AssociatedObjectsExist`: whatever a run is associated with can be read.
- *Write authority.* `RevocationDrains` and `BridgesAreToldOnce`.
- *Sync bridge.* `ResultIsAccountedFor`: an answer the callee produced is read or handed
  back, never both and never twice. `AwaiterIsReleased`: a run that has to stop gets out of
  the wait although the callee never returns, also when the request came before the wait.
- *DBOS host.* `ReleasedHostIsQuiet`: the owner token goes back only when the runtime is gone,
  nothing runs and the host was never fenced; no operation meets a runtime under
  destruction. `ShutdownResolves`: a close ends in closed or fenced.
- *Reference host.* `AcceptedIsKept`: a message whose enqueue committed a checkpoint
  survives every crash and recovery, unless two processes had the run or the checkpoint is one
  of a half-restored record (with Python 3.12's `wait_for`). `AppliedOnce`: no transcript
  holds an input twice, two processes or not, unless it goes back to such a checkpoint.
  `AcksFollowSends`, of every checkpoint. `EndedRunIsNotDriven`, unless two processes had the
  run. Nothing is assumed of heartbeats.

Runs with `CHECK_DEADLOCK FALSE` are those of systems that stop: an attempt ends, a lane
runs out of commands or of bounded generations, a crashed worker does not return. The `sink`
run checks deadlock.

### Fairness

All in `liveness`:

- Strong fairness of `Serve(c)` of the authority store. PostgreSQL grants a row lock in
  queue order, so a transaction that again and again could have the row gets it. Nothing is
  assumed of the clock, of failures or of callers.
- Weak fairness of the main thread of an attempt, whose every wait has a timeout but the one
  for the lock of the write authority, which it gets once the driver is not inside a guarded
  mutation; and of the control thread at the local deadline. Database calls, the driver,
  in a guarded mutation too, renewal and cleanup may hang for ever.
- Weak fairness of each dispatcher's own steps: the host polls `dispatch_once`, and the
  transport has a timeout. Not of claims, of Temporal or of Activities.
- Weak fairness of the awaiting coroutine of a model call (its loop runs, and the grace is a
  timer) and of a canceller's callback once it has been taken. Not of the callee, of its
  thread or of its delivery.
- Weak fairness of the clock once a shutdown has a deadline, of the watchdog thread, whose
  wait is timed, and of the callers of `close()`, who are notified. Not of launch, hooks,
  DBOS or the tear-downs.

### Findings

- `lane_response_loss` refutes `AcceptedIsNotDeadLettered`, which restates
  `docs/EMBEDDING.md:429-431` ("A lost response can produce another Signal. The Workflow
  compares the PostgreSQL sequence and immutable admitted-command identity, buffers future
  sequences, and schedules one Activity for each sequence."). `bind_activation` insists on a
  row that is already `delivered` (`adapters/postgres/admission.py:1044`). The server accepts
  the Signal before the dispatcher's acknowledgement commits, and a lost response puts
  the row back to `pending` with the Workflow already at work: its Activity then fails with a
  non-retryable error, the Workflow fails, and the resent Signal meets a closed
  Workflow, which dead-letters the command. The other lane runs show that nothing is applied
  twice or out of order by it; the run just stops.
- `invocation_resume` refutes `ReservationCanBeResumed`. After a crash between the
  reservation of the second attempt and its `dispatch_started`, a replacement's `recover`
  returns None, the runner begins again at attempt 1, and `reserve`
  (`hosting/model_calls.py:405`) reports a changed request, to this and to every later
  replacement. `docs/V0_23_IMPLEMENTATION_PLAN.md:579` says that a reserved invocation may be
  dispatched with the same idempotency key.
- `reclaim_live_peer` refutes `LivePeerIsLeftAlone`. A created run has no lease file until its
  owner's next watchdog tick and a missing lease counts as stale: the owner has settled its first turn, and
  a peer's watchdog claims the run and gets a live record of its own. `reference/backend/service.py:2246-2250`: "A live peer's run
  carries a fresh lease and is left untouched".
- `approval_replay` refutes `ApprovalsAreAtMostOnce`, the form of `ApprovedOnce` without the
  exception. While a shell job runs, `snapshot()` returns None (`loop.py:3594`) and
  `_persist_checkpoint` does nothing, so an approved handler starts with its approval still
  in the committed checkpoint (`loop.py:5253`); a crash after the handler runs it again.
  `docs/CONTRACTS.md:1491`: "Approved calls use durable at-most-once replay delivery."
- `message_lost` refutes `AcceptedIsKept` under `TaskedWait`: on Python 3.11 a checkpoint
  committed between the pop of a message and the resumption of the drive holds the message
  nowhere (`reference/backend/session_drive.py:266`), and a crash then loses it.
  `reference/backend/service.py:1145`: "persist the queue snapshot before returning".
  From Python 3.12 on `AcceptedIsKept` holds, with the exceptions it names; a message
  answered while no checkpoint can be taken is outside it under every version.

Two behaviours of the Reference backend are named as exceptions of its properties rather than
refuted by a run of their own. `persist_run_checkpoint` does nothing while the record has no
loop or `snapshot()` gives None (`reference/backend/session_drive.py:280-285`), so a message
sent while a run waits for its slot, while a recovery has not attached the loop, or during a
turn with a shell job is answered "queued" with no checkpoint behind it, which the sentence of
`service.py:1145` does not say (`saved`). And a recovery attaches the loop before it gives the
record its ids and messages (`recovery.py:272-275`), so that a checkpoint committed in between,
followed by a crash, loses queued messages and lets a resent one be applied again (`whole`).

## 4. Proofs

All from the assumptions on the constants only (bounds are naturals, the "none" values lie
outside their sets, `Mutations` are well formed, the attempts' claim identities are owner
ids, and no message of the Reference backend has an acknowledgement's id). Two theorems about a
Reference run, `NothingIsEverLost` and `AcceptedMessagesAreKept`, assume `~TaskedWait` besides. The
numbers of callers, owners, commands, dispatchers, attempts, activations, workers, threads,
requests, run directories, runs, collectors and callbacks, and all bounds, are arbitrary.
Every inductive invariant below was first an invariant of a TLC run on a small instance.

- **AuthorityStoreProofs.** `IInv` adds to the type: the row lock is held exactly by the
  transaction in a locked stage (`LockHeld`); what a transaction learned under the lock
  stays true until it ends (`LockedFacts`); no expiry lies further ahead than one TTL
  (`RowShape`), which is why a renewal never shortens a lease somebody was told of;
  an open claim has an owner (`ClaimShape`). `GuardedWriterIsCurrent` alone is not
  inductive: without `LockHeld` a second transaction could change the row. Theorems
  `TypeCorrect` (with the edge of the bigint column: no takeover passes
  `MaxGeneration`), `Fencing`, `Evidence`, and `Refinement`: every step is a `Grant`, a `Lapse`
  or a stutter of `FencedLease`.
- **RunSinkProofs.** Every sink step is a step of AuthorityStore or leaves it alone
  (`SinkRefinesStore`), so `IInv` carries over. Tables change only by one insert judged
  "committed" under the lock (`TableSteps`), whose coordinate is free
  (`CommittedFindsFree`). From these `SinkFencing`, `SinkWriteOnce`, `SinkEventIds`,
  `SinkHeads`, and, because a justified answer stays justified (`VerdictsLast`),
  `SinkAnswers`.
- **LeaseSupervisorProofs.** An attempt calls the store as any caller may
  (`SupervisorUsesStore`: `SupSpec` implies `Spec`), so `IInv` carries over. `DriverHoldsLease`
  speaks of a deadline that was computed from an answer read later than it was given, so the
  invariant `SupInv` follows the answer from the database to the deadline: whatever stands in
  an unread renewal answer, in the span that bootstrap carries or in an installed deadline is
  `Backed` by the row's expiry as long as it lies ahead (`LeaseFits`). That holds because the
  local clock is read before the renewal is sent and the row's expiry counts from later; and
  because an expiry is never taken back while its generation is the newest. `ThreadsFit` says
  which threads of an attempt exist beside each other, `CallFits` that an open call was sent
  by the thread it belongs to: without it, the answer of a call that was given up could be
  taken for the next one's. A driver that outlives its attempt is revoked because the stages at
  which the main thread has given it up ("failing" to "ended") are entered with the
  revocation requested, before its lock is waited for. Theorems `LocalAuthorityIsBacked` and `AttemptsLeaveNothing`.
- **CommandLaneProofs.** First the outbox alone: `OutboxInv` adds that rows exist exactly up
  to the head and that a dispatcher past its claim names an existing row and a claim
  generation not newer than the row's. Theorems `OutboxTypeCorrect`, `LaneOrder`,
  `TerminalFreeze`, `Finality`. Then the lane: `LaneShape` has the facts the refinement
  needs: a request under way comes from a dispatcher that claimed an existing command, the
  command in flight is the next one, an attempt is waited for only while a command is in
  flight, and every running attempt has a command of the lane. `LaneTypeCorrect`,
  `LaneRefinesOutbox` (every step maps to a step of `CommandOutbox` or a stutter), and with it
  `LaneDeliversInOrder`. Last, exactly once: `LaneOrderInv` adds what the log looks like
  (`LogOrder`: sequences never fall, a completed command is left for good, every command
  below the newest is done), that a command is bound to its predecessor's boundary
  (`BindingOrder`), that two attempts with the lease have two generations (`Generations`),
  that the attempt with the newest generation is at the head of the log (`Drivers`), and that
  what an attempt reports is durable (`Reports`). None of them is inductive alone: the log
  rests on the driver being at its head, this on the binding, and the binding on the log.
  Theorems `LaneAppliesOnceInOrder`, `LaneDriverIsAtHead`, `LaneWorkflowFollows`.
- **WriterFenceProofs.** *ModelInvocation*, with `InvocationInv`: an attempt takes three
  records of the journal, so a record's place tells its attempt and its state (`Place`,
  `JournalFits`); the provider is entered for dispatches the journal holds (`EntriesFit`); what
  an activation holds of the call, current or fenced off long ago, is what the tables
  hold, because the journal only grows (`CallFits`); and a dispatch that was started and
  has not entered the provider belongs to one activation (`DispatchesAreOwned`), which is the
  core of `DispatchesEnterOnce`: a replacement finds the started dispatch in the journal and
  does not enter. `TurnsAreDurable` follows from `CallFits`.
  *EventPublication*, with `EventInv`: only the thread with the bus lock is inside `emit`
  (`ThreadsFit`), and the process the store accepts has seen the whole journal, but for one
  append that took effect although it reported an error and is still being retried
  (`CurrentFits`). That exception is why `JournalIsGapless` needs the invariant: the activation
  must give itself up rather than emit past an append it is not sure of. A directory holds
  events of the journal only (`DirectoryFits`) and belongs to one process
  (`DirectoriesAreOwned`), so a replacement, which starts from the journal's end, never finds
  a line beyond it. Theorems `JournalHasNoGap` and `DirectoriesFollowJournal`.
- **HostingProofs.** *ObjectCollection*: `CollectionInvariant` adds to `AssociatedObjectsExist`: a commit
  past its reference check holds the lock of every digest it refers to and these exist
  (`CommitsHoldLocks`), a collector past its check holds the lock of its candidate
  (`CollectorsHoldLocks`), and what it has deleted has no association
  (`DeletedAreFree`). Without the locks the property is not inductive: the
  association could come between check and delete. Theorem `ObjectsAreNeverLost`.
  *WriteAuthority*: `LocalInvariant` adds that the thread inside the operation is
  the one with the lock (`LockedInside`) and that a callback is in exactly one
  place: registered, being run, or run (`ToldOnce`). Theorems `RevocationDrainsAlways` and
  `BridgesAreAlwaysToldOnce`.
  *DurableStream*: `StreamInv` has three parts. In the tables every generation has the bytes
  of one dispatch, and so has what a reader sees of both channels and of the answer
  (`StreamTablesFit`). A writer knows itself, current or fenced off: what is buffered, in
  flight and written is of its own dispatch and adds up to what it was given
  (`WriterFits`). And the writer of the current activation knows the tables: its lanes have
  the newest generation and its text (`LaneFits`), since only it may write there. What ties
  a writer to its call depends on the hook. With a durable call one writer at a time has
  bytes to give (`OneSpeaks`), and none once the call is settled; who closes a settled call
  seals the settled text, if need be in a generation above the one the answer came with
  (`DurableFits`, `DurableCallFits`). Without one every writer answers for the channels it
  has reset itself (`PlainFits`). Theorem `StreamsAreWhole`.
  *SyncBridge*: `BridgeInv` says, for each place a call can be at, whether its result has been
  decided about: not before the delivery ran or was refused (`SyncFits`), and not while a
  task's done callback is still to come (`AsyncFits`); only a request wakes a wait by the token
  (`WaitFits`), so a wait never ends with nothing. The model has no constants and is finite,
  so TLC already covers all of it; the theorem `ResultsAreAccountedFor` adds the argument.
- **ReferenceHostProofs.** Each step of a worker is described once, by the record it leaves,
  what it commits and what it keeps (`WorkerStep`, `StepsOfWorkers`); three invariants
  follow from the description. `HostSound` says that every session a process
  holds or has committed is sound for itself, whatever the processes do to each other: an
  input is in the transcript once and known as seen, to the record or to the recovery
  that has yet to give the ids back; acknowledgements are only of requests whose sending has
  ended. What a recovery holds back is the reason `whole` is needed: a session that lost
  its ids is still sound in everything but `IsInjective(log)`. Theorems
  `InputsAreAppliedOnce` and `AcksAreTrue`, of shared runs too. `SoleHost`: unless `shared`,
  one process at most has a record of the run or is about to, and none once it has ended;
  leases do not come into it. Theorem `EndedRunsStayEnded`. `NothingIsLost`: a
  saved message is in the latest checkpoint, if that is whole, and with the process that
  has the run, in its queue, its transcript, on its way to the drive, or in what a recovery
  still gives back; for this `queue.get()` must hand its message straight to the drive
  (`~TaskedWait`). Theorem `AcceptedMessagesAreKept`. The run `message_lost` shows
  that without this hypothesis the code does not keep the promise.
  *DbosHost*, with `HostedInv`: the lifecycle says who may be at work (`LifecycleFits`): a
  launch comes before any tear-down (`LaunchFits`), and there is one tear-down at most, which
  stops the runtime only behind the last operation (`TearFits`, `OperationsFit`). A fence
  is never undone, and none comes after the release, because everybody who could fence has
  ended by then. Theorem `ReleasedHostsAreQuiet`.
- **AgentLoopProofs.** `ApprovedOnce` alone is not inductive: a call that ran could come
  back from the replay queue, from a second report of its task, or from a checkpoint
  older than its consumption. `LoopInvariant` says where a call can be: a published task is
  delivered or still queued, a replay has been delivered (`TasksInOrder`, of the live
  session and of the checkpoint); a batch holds issued calls only (`CallsInOrder`); a
  report under way is of a hosted task (`ReportsAreOfTasks`); the replay at the head was
  consumed in the checkpoint too, unless that checkpoint failed (`ReplayInOrder`); and what
  ran is consumed in both (`ExecutedInOrder`). Most steps move no task (`Quiet`) and share
  one lemma. Theorem `ReplayedOnce`.
  The conversation has an invariant of its own beside it, `ConversationInv`. `SessionFits` is
  said of the live session and of the checkpoint, so that a restore has nothing to prove but
  that it reads one: it is typed, every published result of a hosted task is to be delivered
  or before the model (`ReadyIsHeld`), a task is queued once (`TasksOnce`), and a park of a
  completed run is the end of a turn or one the driver has to act on (`ParkFits`). `LogFits`
  says what the conversation contains between requests: nothing pending was sent, and every
  call has its result or is still to run; the two moments at which that fails are named
  (`Overrun`, and a checkpoint taken inside a turn). `PumpFits` ties this to the place of the
  pump, `ReportsFit` and `AcksFit` follow a report to the checkpoint its answer waits for.
  `HonestClose` needs all of it but the reports: what a close finds was parked, perhaps
  before a crash, by a turn that ended. Theorems `ReportsAreNotLost`, `RequestsAreWellFormed`,
  `CompletedIsSettled` and `SessionsAreTyped`.

Only model-checked: liveness (`EveryCallAnswered`, `AttemptEnds`, `TerminalConverges`,
`AwaiterIsReleased`, `ShutdownResolves`), which is out of the prover's reach. Every other
property of a passing run is stated by a theorem.

## 5. Plan

Next, in this order:

1. The loop with a durable model hook: how a restored session takes up the model call that
   `ModelInvocation` left, instead of a new one.
2. The DBOS resume driver (`_drive_one` and its reconciliation of checkpoints) and the
   standalone forms of the DBOS participants.
3. Two reporters of one task at a time in `AgentLoop`, and the collector whose delete
   outlives its session in `ObjectCollection`.

### Not modelled

- Most of the repository's lines: validation and serialisation of records (`core/`),
  provider protocols, gateways, the studio, the conformance suite, the CLI, tools and
  workspace. They are sequential or I/O, and their data have no small abstraction that
  would not repeat the code; the repository's own tests reach them well. What carries
  the concurrent and durable behaviour is a small share of the lines and is what the
  modules above follow.
- SQL migrations, the connection pool and the S3 client, except for their effect on a
  transaction or an object.
- Of the agent loop: compaction, subagents, capability leases and their replays, tool
  surfaces and permissions, streaming, accounting, and the cancellation of single tasks.
- Hazards of this code that no property covers: a message answered as queued while no
  checkpoint can be taken, and one that a half-restored checkpoint loses (see above; both are
  in `ReferenceHost` and excepted by its properties), results of tools that an interrupt drops
  before the model has read them (`loop.py:2431`), two reports of one task at the same time
  (`tasks.py:1160`), an acknowledgement dropped because the message queue is full
  (`reference/backend/outbox_dispatch.py`), a refused private delta that uses up a bus sequence
  (`hosting/execution.py`). A request of the outbox that is sent a second time after a crash,
  or by a drain in the middle of the turn that staged it, is intended: it carries an
  idempotency key, and no property speaks of it. A delete of the collector that outlives its
  database session (`adapters/postgres/object_store.py:628`) is assumed away by
  `ObjectCollection`. `DbosHost` starts no workflow once the host is stopping, although a worker
  of a DBOS queue may still finish a dequeue: the destruction of the runtime waits for
  all of them either way.
