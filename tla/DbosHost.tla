------------------------------- MODULE DbosHost -------------------------------
(***************************************************************************)
(* The process-wide DBOS runtime of the Reference profile                  *)
(* (reference/dbos/runtime.py) with its two hosted participants: launch,   *)
(* close by any number of threads under one shutdown authority, and the    *)
(* three ways a runtime is torn down, which are the shutdown worker, the   *)
(* rollback of a launch and the cleanup of a launch that was fenced.       *)
(*                                                                         *)
(* One action is what a thread does under one lock.  A call into DBOS, or  *)
(* a hook, may take any time or never return.                              *)
(***************************************************************************)
EXTENDS Naturals

CONSTANTS
    Closers,    \* threads that call close()
    Callers,    \* threads that call an operation of a participant
    NoThread,
    MaxDrives   \* bound: workflows that run at the same time

VARIABLES
    dbos,         \* fields of DbosRuntimeHost; held: the process owner token
    launcher,     \* where launch() is
    tear,         \* where each tear-down is
    participant,  \* the hosted control plane and run driver
    engine,       \* the DBOS runtime: built, live, stopping, gone
    foreign,      \* another accessor has replaced the process globals
    op,           \* the operation of each caller
    drives,       \* workflows of this process that run
    cleanupFailed,
    closer        \* where each close() is

hostedVars == <<dbos, launcher, tear, participant, engine, foreign, op, drives, cleanupFailed, closer>>

Participants == {"control", "run"}

TearDowns == {"worker", "rollback", "cleanup"}

-----------------------------------------------------------------------------
(* Fencing *)

\* _fence_locked
Fenced(h) == [h EXCEPT !.state = "fenced", !.admission = FALSE, !.error = TRUE]

Fence == dbos' = Fenced(dbos)

Begin(t) == tear' = [tear EXCEPT ![t] = "stop"]

\* _fence_live_launch
FenceLive == Fence /\ Begin("cleanup") /\ launcher' = "ended"

\* _require_launching_owner
OwnsLaunch == dbos.state = "launching" /\ ~foreign

\* release_process_owner and the end of the lifecycle
Release(owner) == dbos' = [dbos EXCEPT !.state = "closed", !.held = FALSE, !.owner = owner]

-----------------------------------------------------------------------------
(* launch() *)

Launch ==
    /\ dbos.state = "registering"
    /\ dbos' = [dbos EXCEPT !.state = "launching"]
    /\ launcher' = "prepare"
    /\ UNCHANGED <<tear, participant, engine, foreign, op, drives, cleanupFailed, closer>>

\* Workflows, preflight and queues to listen to: nothing runs yet, so a failure
\* is rolled back; a launch that lost its ownership is fenced.
Prepare ==
    /\ launcher = "prepare"
    /\ \/ OwnsLaunch /\ launcher' = "activate" /\ UNCHANGED <<dbos, tear>>
       \/ Begin("rollback") /\ launcher' = "ended" /\ UNCHANGED dbos
       \/ ~OwnsLaunch /\ Fence /\ launcher' = "ended" /\ UNCHANGED tear
    /\ UNCHANGED <<participant, engine, foreign, op, drives, cleanupFailed, closer>>

\* runtime.launch(): workflows of a previous process are recovered at once.
Activate ==
    /\ launcher = "activate"
    /\ \/ OwnsLaunch /\ launcher' = "control" /\ engine' = "live" /\ UNCHANGED <<dbos, tear>>
       \/ FenceLive /\ engine' \in (IF OwnsLaunch THEN {"built", "live"} ELSE {"built"})
    /\ UNCHANGED <<participant, foreign, op, drives, cleanupFailed, closer>>

\* What _register_hosted_queue leaves in _accepting.
Accepts(p) == p = "run" => ~cleanupFailed

\* register_queue of each participant, control first
RegisterQueue(p, next) ==
    /\ launcher = p
    /\ \/ /\ participant[p].lock = NoThread
          /\ participant' = [participant EXCEPT ![p].launched = TRUE, ![p].accepting = Accepts(p)]
          /\ \/ OwnsLaunch /\ launcher' = next /\ UNCHANGED <<dbos, tear>>
             \/ ~OwnsLaunch /\ FenceLive
       \/ FenceLive /\ UNCHANGED participant
    /\ UNCHANGED <<engine, foreign, op, drives, cleanupFailed, closer>>

\* The host opens, unless a close was requested meanwhile.
FinishLaunch ==
    /\ launcher = "finish"
    /\ \/ /\ dbos.state = "launching"
          /\ dbos' = [dbos EXCEPT !.state = "running", !.admission = ~dbos.closeRequested]
          /\ launcher' = "ended" /\ UNCHANGED tear
       \/ dbos.state # "launching" /\ FenceLive
    /\ UNCHANGED <<participant, engine, foreign, op, drives, cleanupFailed, closer>>

-----------------------------------------------------------------------------
(* close() *)

\* _start_shutdown_locked
StartShutdown(h) ==
    /\ dbos' = [h EXCEPT !.state = "closing", !.admission = FALSE]
    /\ Begin("worker")

\* Mutant: a launch that is under way is waited for without authority.
ClaimedOnceLaunched(c) ==
    IF dbos.owner = NoThread /\ dbos.state # "launching" THEN [dbos EXCEPT !.owner = c] ELSE dbos

\* The first caller owns the shutdown and its deadline, also during a launch.
Claimed(c) == IF dbos.owner = NoThread THEN [dbos EXCEPT !.owner = c] ELSE dbos

\* close(), up to its first wait; the watchdog or the worker thread may not start.
Close(c) ==
    /\ closer[c] = "idle"
    /\ \/ /\ dbos.state \in {"closed", "fenced"} /\ closer' = [closer EXCEPT ![c] = "ended"]
          /\ UNCHANGED <<dbos, tear>>
       \/ /\ dbos.state \in {"launching", "closing"} /\ closer' = [closer EXCEPT ![c] = "waiting"]
          /\ dbos' = [Claimed(c) EXCEPT !.closeRequested = @ \/ dbos.state = "launching"]
          /\ UNCHANGED tear
       \/ /\ dbos.state \in {"registering", "running"} /\ closer' = [closer EXCEPT ![c] = "waiting"]
          /\ StartShutdown(Claimed(c))
       \/ /\ dbos.state \in {"registering", "launching", "running"}
          /\ dbos.state = "launching" => dbos.owner = NoThread
          /\ dbos' = Fenced(Claimed(c)) /\ closer' = [closer EXCEPT ![c] = "ended"]
          /\ UNCHANGED tear
    /\ UNCHANGED <<launcher, participant, engine, foreign, op, drives, cleanupFailed>>

\* The state has changed: the launch is over, or the shutdown is.
CloserWakes(c) ==
    /\ closer[c] = "waiting"
    /\ \/ /\ dbos.state \in {"closed", "fenced"} /\ closer' = [closer EXCEPT ![c] = "ended"]
          /\ UNCHANGED <<dbos, tear>>
       \/ dbos.state = "running" /\ StartShutdown(dbos) /\ UNCHANGED closer
       \/ /\ dbos.state = "running" /\ Fence /\ closer' = [closer EXCEPT ![c] = "ended"]
          /\ UNCHANGED tear
    /\ UNCHANGED <<launcher, participant, engine, foreign, op, drives, cleanupFailed>>

\* A caller that gives up or is interrupted fences the host if it owns the
\* shutdown, and otherwise leaves it to the owner.
CloserGivesUp(c) ==
    /\ closer[c] = "waiting" /\ closer' = [closer EXCEPT ![c] = "ended"]
    /\ IF dbos.owner = c /\ dbos.state \in {"launching", "running", "closing"}
       THEN Fence ELSE UNCHANGED dbos
    /\ UNCHANGED <<launcher, tear, participant, engine, foreign, op, drives, cleanupFailed>>

\* The deadline of the shutdown owner
ShutdownDeadlinePasses ==
    /\ dbos.owner # NoThread /\ ~dbos.late
    /\ dbos' = [dbos EXCEPT !.late = TRUE]
    /\ UNCHANGED <<launcher, tear, participant, engine, foreign, op, drives, cleanupFailed, closer>>

\* _shutdown_watchdog_worker
ShutdownWatchdog ==
    /\ dbos.owner # NoThread /\ dbos.late /\ dbos.state \notin {"closed", "fenced"}
    /\ Fence
    /\ UNCHANGED <<launcher, tear, participant, engine, foreign, op, drives, cleanupFailed, closer>>

-----------------------------------------------------------------------------
(* Tear-down: _close_worker, _rollback_launch, _cleanup_fenced_launch *)

Goes(t, pc) == tear' = [tear EXCEPT ![t] = pc]

\* The exception handler of each: the cleanup of a fenced launch just ends.
TearFails(t) ==
    /\ Goes(t, "ended")
    /\ IF t = "cleanup" THEN UNCHANGED dbos ELSE Fence

\* _stop_participants, in reverse order
Stop(t, pc, p, next) ==
    /\ tear[t] = pc /\ participant[p].lock = NoThread
    /\ participant' = [participant EXCEPT ![p].accepting = FALSE, ![p].closing = TRUE]
    /\ Goes(t, next)
    /\ UNCHANGED <<dbos, launcher, engine, foreign, op, drives, cleanupFailed, closer>>

\* _require_participant_admissions_drained
Drained == \A a \in Callers : op[a].pc # "in"

\* The operations admitted before the gate closed are over, and destroy() begins.
BeginDestroy(t) ==
    /\ tear[t] = "drain" /\ Drained
    /\ \/ ~foreign /\ (t = "rollback" => dbos.state = "launching")
          /\ engine' = "stopping" /\ Goes(t, "destroy") /\ UNCHANGED dbos
       \/ (foreign \/ (t = "rollback" /\ dbos.state # "launching")) /\ TearFails(t) /\ UNCHANGED engine
    /\ UNCHANGED <<launcher, participant, foreign, op, drives, cleanupFailed, closer>>

\* destroy() has seen every workflow and thread of the runtime stop, and clears
\* the globals.  The cleanup of a fenced launch ends here.
EndDestroy(t) ==
    /\ tear[t] = "destroy" /\ drives = 0 /\ ~foreign
    /\ engine' = "gone" /\ Goes(t, IF t = "cleanup" THEN "ended" ELSE "mark")
    /\ UNCHANGED <<dbos, launcher, participant, foreign, op, drives, cleanupFailed, closer>>

\* A deadline, a failing destroy(), or globals that changed on the way
GiveUpTear(t) ==
    /\ tear[t] \in {"drain", "destroy", "mark"} /\ TearFails(t)
    /\ UNCHANGED <<launcher, participant, engine, foreign, op, drives, cleanupFailed, closer>>

\* _require_participants_drained, mark_closed, require_released
Mark(t) ==
    /\ tear[t] = "mark" /\ drives = 0
    /\ \A p \in Participants : participant[p].lock = NoThread
    /\ participant' = [p \in Participants |->
          [participant[p] EXCEPT !.launched = FALSE, !.accepting = FALSE,
                                 !.closing = FALSE, !.closed = TRUE]]
    /\ \/ ~foreign /\ Goes(t, "release") /\ UNCHANGED dbos
       \/ foreign /\ TearFails(t)
    /\ UNCHANGED <<launcher, engine, foreign, op, drives, cleanupFailed, closer>>

\* Mutant: a fenced host is released all the same.
EndTearAnyway(t) ==
    /\ tear[t] = "release" /\ Goes(t, "ended") /\ Release(NoThread)
    /\ UNCHANGED <<launcher, participant, engine, foreign, op, drives, cleanupFailed, closer>>

\* The owner token goes back only while the lifecycle is still this thread's,
\* and within the deadline.
EndTear(t) ==
    /\ tear[t] = "release" /\ Goes(t, "ended")
    /\ \/ t = "worker" /\ dbos.state = "closing" /\ dbos.late /\ Fence
       \/ t = "worker" /\ dbos.state = "closing" /\ ~dbos.late /\ Release(NoThread)
       \/ t = "rollback" /\ dbos.state = "launching" /\ Release(dbos.owner)
       \/ dbos.state = "fenced" /\ UNCHANGED dbos
    /\ UNCHANGED <<launcher, participant, engine, foreign, op, drives, cleanupFailed, closer>>

TearDown(t) ==
    \/ Stop(t, "stop", "run", "stopControl") \/ Stop(t, "stopControl", "control", "drain")
    \/ BeginDestroy(t) \/ EndDestroy(t) \/ GiveUpTear(t) \/ Mark(t) \/ EndTear(t)

-----------------------------------------------------------------------------
(* Operations of the participants *)

\* _begin_hosted_operation: it reads the host twice, under the participant's lock.
\* A receipt of the run driver can also be read after a failed cleanup.
OpChecks(a, p, reads) ==
    /\ op[a].pc = "idle" /\ participant[p].lock = NoThread
    /\ ~participant[p].closing /\ ~participant[p].closed
    /\ dbos.admission /\ dbos.state = "running"
    /\ participant[p].accepting \/ (p = "run" /\ reads)
    /\ op' = [op EXCEPT ![a] = [pc |-> "checked", at |-> p]]
    /\ participant' = [participant EXCEPT ![p].lock = a]
    /\ UNCHANGED <<dbos, launcher, tear, engine, foreign, drives, cleanupFailed, closer>>

\* _require_launched, and the operation is counted
OpBegins(a) ==
    /\ op[a].pc = "checked"
    /\ participant' = [participant EXCEPT ![op[a].at].lock = NoThread]
    /\ op' = [op EXCEPT ![a].pc =
          IF participant[op[a].at].launched /\ dbos.state = "running" THEN "in" ELSE "idle"]
    /\ UNCHANGED <<dbos, launcher, tear, engine, foreign, drives, cleanupFailed, closer>>

\* The call into the runtime: ownership that has changed fences the host.
OpEnds(a) ==
    /\ op[a].pc = "in" /\ op' = [op EXCEPT ![a].pc = "idle"]
    /\ \/ ~foreign /\ UNCHANGED <<dbos, participant>>
       \/ /\ foreign /\ Fence
          /\ participant[op[a].at].lock = NoThread
          /\ participant' = [participant EXCEPT ![op[a].at].accepting = FALSE]
    /\ UNCHANGED <<launcher, tear, engine, foreign, drives, cleanupFailed, closer>>

\* drive_step and _dispatch: DBOS starts a workflow it dequeued or recovered.
DriveStarts ==
    /\ engine = "live" /\ drives < MaxDrives /\ drives' = drives + 1
    /\ UNCHANGED <<dbos, launcher, tear, participant, engine, foreign, op, cleanupFailed, closer>>

\* A drive whose loop cannot be released stops the admission of further runs.
DriveEnds ==
    /\ drives > 0 /\ drives' = drives - 1
    /\ \/ UNCHANGED <<participant, cleanupFailed>>
       \/ /\ participant["run"].lock = NoThread /\ cleanupFailed' = TRUE
          /\ participant' = [participant EXCEPT !["run"].accepting = FALSE]
    /\ UNCHANGED <<dbos, launcher, tear, engine, foreign, op, closer>>

\* Code outside this package replaces DBOS's process globals.
GlobalsChange ==
    /\ ~foreign /\ foreign' = TRUE
    /\ UNCHANGED <<dbos, launcher, tear, participant, engine, op, drives, cleanupFailed, closer>>

-----------------------------------------------------------------------------

HostedInit ==
    /\ dbos = [state |-> "registering", admission |-> FALSE, closeRequested |-> FALSE,
               owner |-> NoThread, late |-> FALSE, error |-> FALSE, held |-> TRUE]
    /\ launcher = "idle"
    /\ tear = [t \in TearDowns |-> "idle"]
    /\ participant = [p \in Participants |->
          [launched |-> FALSE, accepting |-> FALSE, closing |-> FALSE, closed |-> FALSE, lock |-> NoThread]]
    /\ engine = "built" /\ foreign = FALSE
    /\ op = [a \in Callers |-> [pc |-> "idle", at |-> "control"]]
    /\ drives = 0 /\ cleanupFailed = FALSE
    /\ closer = [c \in Closers |-> "idle"]

HostedNext ==
    \/ Launch \/ Prepare \/ Activate \/ FinishLaunch
    \/ RegisterQueue("control", "run") \/ RegisterQueue("run", "finish")
    \/ \E c \in Closers : Close(c) \/ CloserWakes(c) \/ CloserGivesUp(c)
    \/ ShutdownDeadlinePasses \/ ShutdownWatchdog
    \/ \E t \in TearDowns : TearDown(t)
    \/ \E a \in Callers :
          \/ \E p \in Participants, reads \in BOOLEAN : OpChecks(a, p, reads)
          \/ OpBegins(a) \/ OpEnds(a)
    \/ DriveStarts \/ DriveEnds \/ GlobalsChange

HostedSpec == HostedInit /\ [][HostedNext]_hostedVars

FairHostedSpec ==
    /\ HostedSpec
    /\ WF_hostedVars(ShutdownDeadlinePasses) /\ WF_hostedVars(ShutdownWatchdog)
    /\ \A c \in Closers : WF_hostedVars(CloserWakes(c))

-----------------------------------------------------------------------------
(* Properties *)

(* The owner token of the process is given back only by a host that is proven
   to be quiet and was never fenced, and no late fence reopens the question: the
   runtime is gone, no workflow runs and no operation is under way.  No operation ever
   meets a runtime that is being destroyed, a close that was requested during
   the launch is not overtaken by new commands, and a run driver that could not
   release a loop never admits another run, when the failure came before its
   queue was registered too. *)
ReleasedHostIsQuiet ==
    /\ ~dbos.held => dbos.state = "closed" /\ ~dbos.error /\ engine = "gone" /\ drives = 0
    /\ \A a \in Callers : op[a].pc = "in" => engine = "live" /\ dbos.held
    /\ dbos.closeRequested => ~dbos.admission
    /\ cleanupFailed => ~participant["run"].accepting

(* A host that somebody wants to close ends as closed or fenced, although the
   launch, a hook or DBOS itself may hang and the callers may give up. *)
ShutdownResolves == (\E c \in Closers : closer[c] = "waiting") ~> dbos.state \in {"closed", "fenced"}
=============================================================================
