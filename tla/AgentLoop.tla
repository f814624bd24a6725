------------------------------ MODULE AgentLoop ------------------------------
(***************************************************************************)
(* One run of the agent loop: the pump that alternates model requests and  *)
(* tool calls (loop.py), its background tasks (tasks.py), the parks it     *)
(* returns to its driver, the checkpoints it writes there and its restore  *)
(* from the latest of them after a crash.  The run has no model lifecycle  *)
(* hook (a hosted one is ModelInvocation's subject).                       *)
(*                                                                         *)
(* The pump runs on one event loop; reporters of task results, operators   *)
(* and shell processes act on the session while it awaits a model, a tool  *)
(* or its driver.  Sets stand for tuples whose order no property tells     *)
(* apart: the calls of a turn, pending observations, replays, the queue.   *)
(***************************************************************************)
EXTENDS Naturals, FiniteSets

CONSTANTS
    Calls,         \* ids of tool calls, each given out by the model once
    Kinds,         \* what a call may be, of CallKinds
    Reporters,     \* threads that report results of hosted tasks
    None,          \* no value
    Limits,        \* limits a run may have: the spec's, and bounds on what is explored
    MaxStops,      \* bound: requests to interrupt, pause or cancel
    MaxCrashes     \* bound: crashes of the process

\* A call runs at once, waits for an approval, starts a shell job that resumes
\* the run when it exits, or is run.finish.
CallKinds == {"plain", "ask", "shell", "finish"}

ASSUME LoopAssumption ==
    /\ Kinds \subseteq CallKinds
    /\ None \notin Calls \union CallKinds
    /\ None \notin {"turn_failed", "paused", "interrupted", "limited", "failed"}
    /\ Limits \subseteq [toolCalls : Nat, steps : Nat, retries : Nat,
                         inputs : Nat, batch : Nat, faults : Nat]
    /\ {MaxStops, MaxCrashes} \subseteq Nat

VARIABLES
    loop,     \* the session of the process: _Session, RunState and TaskManager
    store,    \* the latest committed checkpoint, or None
    jobs,     \* job.json of each shell call: "none", "running" or "done"
    reports,  \* what each reporter's thread is doing
    kind,     \* kind of each call that has run, or None
    history   \* the run's limits, what the bounds count and what the properties observe

loopVars == <<loop, store, jobs, reports, kind, history>>

Pcs ==
    {"parked", "top", "replays", "replaying", "replayed", "calling", "tools", "settling",
     "closed", "down"}

Verdicts == {"approved", "denied"}

\* What the model reads next: a call's result, a task's result, the result of an
\* approved call, or the notice that a shell process was lost.
Observations == {"result", "task", "replay", "lost"} \X Calls

\* The conversation: the role of its last message and what its messages contain,
\* once or more often.
NoLog == [last |-> None, items |-> {}, again |-> {}]

Extended(conversation, role, items) ==
    [last  |-> role,
     items |-> conversation.items \union items,
     again |-> conversation.again \union (conversation.items \intersect items)]

Logs ==
    LET Items == SUBSET (Observations \union ({"call"} \X Calls))
    IN  [last : {None, "user", "results", "calls", "answer"}, items : Items, again : Items]

\* What a run can be parked on (SuspensionReason).
Reasons ==
    {"settled", "awaiting_tasks", "limited", "terminal", "turn_failed", "paused", "interrupted"}

Sessions ==
    [pc : Pcs, log : Logs, pending : SUBSET Observations, input : BOOLEAN,
     status : {"completed", "limited", "failed"}, spent : BOOLEAN, terminal : BOOLEAN,
     park : Reasons \union {None}, reason : Reasons,
     mark : {None, "turn_failed", "paused", "interrupted"},
     step : Nat, total : Nat, retries : Nat, batch : SUBSET Calls, finish : BOOLEAN,
     replays : SUBSET Calls, head : Calls \union {None},
     tasks : [Calls -> {"none", "running", "exited"} \union Verdicts],
     ready : SUBSET Calls, queue : SUBSET Calls, delivered : SUBSET Calls,
     interrupt : BOOLEAN, pause : BOOLEAN, cancel : {None, "user", "drain"}]

ASSUME NoneAssumption == None \notin Sessions

NewSession ==
    [pc        |-> "parked",
     log       |-> NoLog,       \* state.messages
     pending   |-> {},          \* state.pending_observations
     input     |-> FALSE,       \* state.pending_user_input
     status    |-> "completed", \* state.status
     spent     |-> FALSE,       \* state.error_code is max_tool_calls_exceeded
     terminal  |-> FALSE,       \* session.terminal
     park      |-> None,        \* session.last_suspension
     reason    |-> "settled",   \* of the suspension its driver holds
     mark      |-> None,        \* unrecovered_turn_failure or midturn_park
     step      |-> 0,           \* submit_local_step
     total     |-> 0,           \* total_tool_calls
     retries   |-> 0,           \* output_retries
     batch     |-> {},          \* calls of the model turn still to run
     finish    |-> FALSE,       \* context.pending_finish
     replays   |-> {},          \* pending_tool_approval_replays
     head      |-> None,        \* the approved call whose handler runs
     tasks     |-> [c \in Calls |-> "none"],
     ready     |-> {},          \* tasks with ready_for_reentry
     queue     |-> {},          \* _reentry_queue
     delivered |-> {},          \* _delivered_reentry_jobs
     interrupt |-> FALSE,
     pause     |-> FALSE,
     cancel    |-> None]        \* cause of the cancellation token

IdleReport == [pc |-> "idle", call |-> None, verdict |-> None, first |-> FALSE]

LoopInit ==
    /\ loop = NewSession
    /\ store = None
    /\ jobs = [c \in Calls |-> "none"]
    /\ reports = [r \in Reporters |-> IdleReport]
    /\ kind = [c \in Calls |-> None]
    /\ \E limits \in Limits :
          history = [limits |-> limits, inputs |-> 0, stops |-> 0, crashes |-> 0, issued |-> {},
                     executed |-> [c \in Calls |-> 0], acked |-> {}, lapses |-> {},
                     over |-> None, outcome |-> None]

-----------------------------------------------------------------------------
(* Tasks and checkpoints *)

Live == loop.pc \notin {"closed", "down"}

\* The event loop can run something else: the pump awaits its driver, a model,
\* a tool handler or the validators.
Awaits == loop.pc \in {"parked", "replaying", "replayed", "calling", "tools", "settling"}

HasResumeJobs(l) == l.queue # {} \/ \E c \in Calls : l.tasks[c] # "none" /\ c \notin l.delivered

\* snapshot() refuses while an in-process resume task runs.
ShellRuns(l) == \E c \in Calls : kind[c] = "shell" /\ l.tasks[c] = "running"

Hosted == {c \in Calls : kind[c] = "ask"}

\* Mutant of Checkpoint: an answered task is not captured.
CheckpointOfRunning(l) ==
    [l EXCEPT !.mark = None, !.reason = "settled", !.batch = {}, !.head = None,
              !.interrupt = FALSE, !.pause = FALSE,
              !.tasks = [c \in Calls |->
                            IF c \in Hosted /\ l.tasks[c] = "running" THEN "running" ELSE "none"],
              !.ready = {}]

\* What snapshot() captures.  pc is not stored; it is kept to tell where the
\* checkpoint was taken.
Checkpoint(l) ==
    [l EXCEPT !.mark = None, !.reason = "settled", !.batch = {}, !.head = None,
              !.interrupt = FALSE, !.pause = FALSE,
              !.tasks = [c \in Calls |-> IF c \in Hosted THEN l.tasks[c] ELSE "none"],
              !.ready = l.ready \intersect Hosted]

\* _persist_checkpoint without a suspension.
Persisted(l) == IF ShellRuns(l) THEN store ELSE Checkpoint(l)

\* _persist_checkpoint with one: the park is only accepted when it is durable.
Suspend(l, reason) ==
    LET idle  == [l EXCEPT !.pc = "parked", !.reason = reason, !.batch = {}, !.head = None]
        saved == [idle EXCEPT !.park = reason]
    IN  IF ShellRuns(l) THEN loop' = idle /\ store' = store
                        ELSE loop' = saved /\ store' = Checkpoint(saved)

FaultsLeft == history.stops + history.crashes < history.limits.faults

Lapsed(cond, name) == history.lapses \union (IF cond THEN {name} ELSE {})

-----------------------------------------------------------------------------
(* The driver *)

\* run_until_suspended(user_input), with the next message of the queue.
Submit ==
    /\ loop.pc = "parked" /\ ~loop.terminal
    /\ loop.reason \in {"settled", "turn_failed", "interrupted"}
    /\ history.inputs < history.limits.inputs
    /\ loop' = [loop EXCEPT !.pc = "top", !.park = None, !.mark = None, !.status = "completed",
                            !.spent = FALSE, !.retries = 0, !.finish = FALSE,
                            !.interrupt = FALSE, !.pause = FALSE, !.input = TRUE, !.step = 0]
    /\ history' = [history EXCEPT !.inputs = @ + 1]
    /\ UNCHANGED <<store, jobs, reports, kind>>

\* run_until_suspended(None), when a task is ready, after a pause, to retry.
Resume ==
    /\ loop.pc = "parked" /\ ~loop.terminal
    /\ \/ loop.reason \in {"paused", "turn_failed"}
       \/ loop.reason = "awaiting_tasks" /\ (loop.queue # {} \/ ~HasResumeJobs(loop))
    /\ loop' = [loop EXCEPT !.pc = "top", !.park = None, !.mark = None]
    /\ UNCHANGED <<store, jobs, reports, kind, history>>

\* persist_run_checkpoint: the driver's own checkpoint of a park.
PersistPark ==
    /\ loop.pc = "parked" /\ ~loop.terminal /\ loop.reason # "limited" /\ history.inputs > 0
    /\ store' = Persisted(loop)
    /\ UNCHANGED <<loop, jobs, reports, kind, history>>

\* A request to stop that another thread leaves on the session.
StopRequest(l) ==
    /\ Live /\ history.stops < MaxStops /\ FaultsLeft
    /\ loop' = l
    /\ history' = [history EXCEPT !.stops = @ + 1]
    /\ UNCHANGED <<store, jobs, reports, kind>>

\* interrupt_turn
Interrupt == ~loop.interrupt /\ StopRequest([loop EXCEPT !.interrupt = TRUE])

\* pause_turn
Pause == ~loop.pause /\ StopRequest([loop EXCEPT !.pause = TRUE])

\* A user's cancel and a deadline end the run, a drain of the host parks it.
Cancel(cause) == loop.cancel = None /\ StopRequest([loop EXCEPT !.cancel = cause])

\* fail_recoverable
GiveUp ==
    /\ loop.pc = "parked" /\ ~loop.terminal /\ loop.mark = "turn_failed"
    /\ Suspend([loop EXCEPT !.status = "failed", !.spent = FALSE, !.terminal = TRUE], "terminal")
    /\ UNCHANGED <<jobs, reports, kind, history>>

\* The verdict close() promotes a park to, or None.
Promotion ==
    IF loop.terminal \/ (loop.cancel = None /\ loop.mark = None) THEN None
    ELSE IF loop.cancel = None /\ loop.mark = "turn_failed" THEN "failed" ELSE "limited"

\* close: a completed run deletes its checkpoints.
Close ==
    LET status == IF Promotion = None THEN loop.status ELSE Promotion
        last   == [loop EXCEPT !.status = status, !.terminal = TRUE, !.park = "terminal"]
    IN  /\ loop.pc = "parked"
        /\ loop' = [loop EXCEPT !.pc = "closed", !.status = status]
        /\ store' = IF status = "completed" THEN None
                    ELSE IF Promotion # None THEN Persisted(last) ELSE store
        /\ history' = [history EXCEPT !.over = loop.park, !.outcome = status]
        /\ UNCHANGED <<jobs, reports, kind>>

-----------------------------------------------------------------------------
(* Stops *)

\* _check_run_boundary lets the pump go on.
Unstopped == loop.cancel = None /\ ~loop.interrupt

\* Where the pump meets a boundary: at the top of a step, inside the handler of
\* an approved call, when the model has answered, around each tool call and after
\* the validators; not after the call that was over the budget.
AtBoundary ==
    \/ loop.pc \in {"top", "replaying", "replayed", "calling", "settling"}
    \/ loop.pc = "tools" /\ ~(loop.spent /\ loop.batch = {})

\* The pump's loop condition comes before the boundary.
StepsLeft == loop.pc = "top" => loop.step < history.limits.steps

Logged(l, obs) == obs \in l.log.items

\* The stop leaves a conversation that does not fit its calls: some were not
\* run, results not yet sent are dropped, or results already sent are kept.
Strands(kept) ==
    \/ loop.batch # {}
    \/ \E obs \in loop.pending : Logged(loop, obs) = (obs \in kept)

\* RunCancelled
Cancelled ==
    /\ loop.cancel # None
    /\ AtBoundary /\ StepsLeft
    /\ IF loop.cancel = "drain"
       THEN Suspend([loop EXCEPT !.spent = FALSE, !.mark = "interrupted"], "interrupted")
       ELSE Suspend([loop EXCEPT !.spent = FALSE, !.status = "limited", !.terminal = TRUE],
                    "terminal")
    /\ history' = [history EXCEPT !.lapses = Lapsed(Strands(loop.pending), "stranded")]
    /\ UNCHANGED <<jobs, reports, kind>>

\* TurnInterrupted
Interrupted ==
    /\ loop.cancel = None /\ loop.interrupt
    /\ AtBoundary /\ StepsLeft
    /\ Suspend([loop EXCEPT !.interrupt = FALSE, !.pending = {}, !.mark = "interrupted"],
               "interrupted")
    /\ history' = [history EXCEPT !.lapses = Lapsed(Strands({}), "stranded")]
    /\ UNCHANGED <<jobs, reports, kind>>

Paused ==
    /\ loop.pc = "top" /\ Unstopped /\ StepsLeft /\ loop.pause
    /\ Suspend([loop EXCEPT !.pause = FALSE, !.mark = "paused"], "paused")
    /\ UNCHANGED <<jobs, reports, kind, history>>

StepLimit ==
    /\ loop.pc = "top" /\ ~StepsLeft
    /\ Suspend([loop EXCEPT !.status = "limited", !.spent = FALSE], "limited")
    /\ UNCHANGED <<jobs, reports, kind, history>>

-----------------------------------------------------------------------------
(* One step of the pump *)

\* pop_reentry_observations and _pop_background_observations: an approval is
\* queued for replay, every result becomes an observation.
BeginStep ==
    LET popped == loop.queue \union (loop.ready \ loop.delivered)
        known  == {c \in popped : loop.tasks[c] # "none"}
    IN  /\ loop.pc = "top" /\ Unstopped /\ StepsLeft /\ ~loop.pause
        /\ loop' = [loop EXCEPT !.pc = "replays", !.step = @ + 1, !.queue = {},
                                !.delivered = @ \union known,
                                !.pending = @ \union ({"task"} \X known),
                                !.replays = @ \union {c \in known : loop.tasks[c] = "approved"}]
        /\ UNCHANGED <<store, jobs, reports, kind, history>>

\* Mutant of ConsumeReplay: the handler starts without the checkpoint.
ConsumeReplayUnsaved(c) ==
    LET taken == [loop EXCEPT !.pc = "replaying", !.replays = @ \ {c}, !.head = c]
    IN  /\ loop.pc = "replays" /\ c \in loop.replays
        /\ loop' = taken
        /\ history' = [history EXCEPT !.lapses = Lapsed(ShellRuns(taken), "unsaved")]
        /\ UNCHANGED <<store, jobs, reports, kind>>

\* The consumption of one approval is committed before its handler starts.
ConsumeReplay(c) ==
    LET taken == [loop EXCEPT !.pc = "replaying", !.replays = @ \ {c}, !.head = c]
    IN  /\ loop.pc = "replays" /\ c \in loop.replays
        /\ loop' = taken
        /\ store' = Persisted(taken)
        /\ history' = [history EXCEPT !.lapses = Lapsed(ShellRuns(taken), "unsaved")]
        /\ UNCHANGED <<jobs, reports, kind>>

\* The handler of the approved call takes effect ...
RunReplay ==
    /\ loop.pc = "replaying"
    /\ loop' = [loop EXCEPT !.pc = "replayed"]
    /\ history' = [history EXCEPT !.executed[loop.head] = @ + 1]
    /\ UNCHANGED <<store, jobs, reports, kind>>

\* ... and returns its observation.
EndReplay ==
    /\ loop.pc = "replayed"
    /\ loop' = [loop EXCEPT !.pc = "replays", !.head = None,
                            !.pending = @ \union {<<"replay", loop.head>>}]
    /\ UNCHANGED <<store, jobs, reports, kind, history>>

\* The input and the pending observations enter the conversation.
Sent ==
    LET asked == IF loop.input THEN Extended(loop.log, "user", {}) ELSE loop.log
    IN  IF loop.pending = {} THEN asked ELSE Extended(asked, "results", loop.pending)

SendRequest ==
    /\ loop.pc = "replays" /\ loop.replays = {}
    /\ loop' = [loop EXCEPT !.pc = "calling", !.log = Sent, !.input = FALSE]
    /\ UNCHANGED <<store, jobs, reports, kind, history>>

\* The log, the tokens, the workspace or the request are over their limit.
LimitReached ==
    /\ loop.pc = "replays" /\ loop.replays = {}
    /\ Suspend([loop EXCEPT !.log = Sent, !.input = FALSE, !.pending = {}, !.status = "limited",
                            !.spent = FALSE], "limited")
    /\ UNCHANGED <<jobs, reports, kind, history>>

\* Mutant of ModelFails: the observations that were sent stay pending.
ModelFailsKeeping(recoverable) ==
    /\ loop.pc = "calling"
    /\ IF recoverable
       THEN Suspend([loop EXCEPT !.mark = "turn_failed"], "turn_failed")
       ELSE Suspend([loop EXCEPT !.status = "failed", !.spent = FALSE, !.terminal = TRUE],
                    "terminal")
    /\ UNCHANGED <<jobs, reports, kind, history>>

\* A recoverable failure keeps the session; any other ends the run.
ModelFails(recoverable) ==
    /\ loop.pc = "calling"
    /\ IF recoverable
       THEN Suspend([loop EXCEPT !.pending = {}, !.mark = "turn_failed"], "turn_failed")
       ELSE Suspend([loop EXCEPT !.status = "failed", !.spent = FALSE, !.terminal = TRUE],
                    "terminal")
    /\ UNCHANGED <<jobs, reports, kind, history>>

ModelCalls(batch) ==
    /\ loop.pc = "calling" /\ Unstopped
    /\ batch # {} /\ batch \intersect history.issued = {} /\ Cardinality(batch) <= history.limits.batch
    /\ loop' = [loop EXCEPT !.pc = "tools", !.batch = batch, !.pending = {},
                            !.log = Extended(@, "calls", {"call"} \X batch)]
    /\ history' = [history EXCEPT !.issued = @ \union batch]
    /\ UNCHANGED <<store, jobs, reports, kind>>

\* A turn without calls parks on the tasks that are out, or settles.
ModelAnswers ==
    LET answered == [loop EXCEPT !.pending = {}, !.log = Extended(@, "answer", {})]
    IN  /\ loop.pc = "calling" /\ Unstopped
        /\ IF HasResumeJobs(loop)
           THEN Suspend(answered, "awaiting_tasks")
           ELSE loop' = [answered EXCEPT !.pc = "settling"] /\ store' = store
        /\ UNCHANGED <<jobs, reports, kind, history>>

\* One call of the turn.  Its effect and its observation come together; the
\* call over the budget and the ones after it are dropped.
RunCall(c, k) ==
    LET task == IF k \in {"ask", "shell"} THEN "running" ELSE "none"
    IN  /\ loop.pc = "tools" /\ c \in loop.batch /\ Unstopped
        /\ IF loop.total >= history.limits.toolCalls
           THEN /\ loop' = [loop EXCEPT !.total = @ + 1, !.batch = {}, !.status = "limited",
                                        !.spent = TRUE]
                /\ history' = [history EXCEPT !.lapses = Lapsed(loop.finish, "overrun")]
                /\ UNCHANGED <<jobs, kind>>
           ELSE /\ loop' = [loop EXCEPT !.total = @ + 1, !.batch = @ \ {c}, !.tasks[c] = task,
                                        !.finish = @ \/ k = "finish",
                                        !.pending = @ \union {<<"result", c>>}]
                /\ jobs' = [jobs EXCEPT ![c] = IF k = "shell" THEN "running" ELSE @]
                /\ kind' = [kind EXCEPT ![c] = k]
                /\ history' = [history EXCEPT !.executed[c] = IF k = "plain" THEN @ + 1 ELSE @]
        /\ UNCHANGED <<store, reports>>

EndBatch ==
    /\ loop.pc = "tools" /\ loop.batch = {}
    /\ loop.spent \/ Unstopped
    /\ CASE loop.finish -> loop' = [loop EXCEPT !.pc = "settling"] /\ store' = store
         [] ~loop.finish /\ loop.status = "limited" ->
                Suspend([loop EXCEPT !.terminal = @ \/ loop.spent], "limited")
         [] OTHER -> loop' = [loop EXCEPT !.pc = "top"] /\ store' = store
    /\ UNCHANGED <<jobs, reports, kind, history>>

\* The decision of the validators applied (LoopSettleCoordinator.apply).  A
\* turn ended by run.finish first logs the results of its calls.
ApplySettle(decision) ==
    LET logged == [loop EXCEPT !.pending = {},
                       !.log = IF loop.pending = {} THEN @
                               ELSE Extended(@, "results", loop.pending)]
    IN  /\ loop.pc = "settling" /\ Unstopped
        /\ decision = "reprompt" => loop.retries < history.limits.retries
        /\ CASE decision = "accept" ->
                  Suspend([logged EXCEPT !.terminal = loop.spent], "settled")
             [] decision = "refused" ->
                  Suspend([logged EXCEPT !.status = "failed", !.spent = FALSE], "settled")
             [] decision = "limited" ->
                  Suspend([logged EXCEPT !.status = "limited", !.spent = FALSE], "limited")
             [] decision = "defect" ->
                  Suspend([loop EXCEPT !.status = "failed", !.spent = FALSE, !.terminal = TRUE],
                          "terminal")
             [] decision = "reprompt" ->
                  /\ loop' = [logged EXCEPT !.pc = "top", !.retries = @ + 1, !.finish = FALSE,
                                            !.log = Extended(@, "user", {})]
                  /\ store' = store
        /\ UNCHANGED <<jobs, reports, kind, history>>

-----------------------------------------------------------------------------
(* Tasks *)

\* mark_ready of the shell monitor.
ShellExits(c) ==
    /\ Live /\ kind[c] = "shell" /\ loop.tasks[c] = "running"
    /\ loop' = [loop EXCEPT !.tasks[c] = "exited", !.ready = @ \union {c},
                            !.queue = @ \union {c}]
    /\ jobs' = [jobs EXCEPT ![c] = "done"]
    /\ UNCHANGED <<store, reports, kind, history>>

\* report_result: a finished task answers "duplicate" ...
ReportArrives(r, c, v) ==
    /\ Live /\ reports[r].pc = "idle"
    /\ c \in Hosted /\ loop.tasks[c] # "none"
    /\ reports' = [reports EXCEPT ![r] =
                      [pc |-> IF loop.tasks[c] = "running" THEN "apply" ELSE "persist",
                       call |-> c, verdict |-> v, first |-> loop.tasks[c] = "running"]]
    /\ UNCHANGED <<loop, store, jobs, kind, history>>

\* ... else the verdict is written ...
ReportApplies(r) ==
    /\ Live /\ reports[r].pc = "apply"
    /\ loop' = [loop EXCEPT !.tasks[reports[r].call] = reports[r].verdict]
    /\ reports' = [reports EXCEPT ![r].pc = "publish"]
    /\ UNCHANGED <<store, jobs, kind, history>>

\* ... and published once (mark_ready).
ReportPublishes(r) ==
    LET c == reports[r].call
    IN  /\ Live /\ reports[r].pc = "publish"
        /\ loop' = IF c \in loop.ready THEN loop
                   ELSE [loop EXCEPT !.ready = @ \union {c}, !.queue = @ \union {c}]
        /\ reports' = [reports EXCEPT ![r].pc = "persist"]
        /\ UNCHANGED <<store, jobs, kind, history>>

\* The reporter is answered after a checkpoint taken on the event loop.
ReportPersists(r) ==
    /\ Live /\ Awaits /\ reports[r].pc = "persist"
    /\ store' = Persisted(loop)
    /\ history' = [history EXCEPT !.acked =
                      IF reports[r].first /\ ~ShellRuns(loop)
                      THEN @ \union {reports[r].call} ELSE @]
    /\ reports' = [reports EXCEPT ![r] = IdleReport]
    /\ UNCHANGED <<loop, jobs, kind>>

-----------------------------------------------------------------------------
(* Crash and restore *)

Crash ==
    /\ Live /\ history.crashes < MaxCrashes /\ FaultsLeft
    /\ loop' = [NewSession EXCEPT !.pc = "down"]
    /\ reports' = [r \in Reporters |-> IdleReport]
    /\ history' = [history EXCEPT !.crashes = @ + 1]
    /\ UNCHANGED <<store, jobs, kind>>

\* Mutant of Marker: a mid-turn park is not remembered over a restart.
MarkerOfFailure(park) == IF park = "turn_failed" THEN park ELSE None

\* _unrecovered_turn_failure and _midturn_park
Marker(park) == IF park \in {"turn_failed", "paused", "interrupted"} THEN park ELSE None

\* A shell job whose file says it runs was lost with its process.
LostShells == {c \in Calls : jobs[c] = "running"}

\* The suspension the driver starts from: tasks that are out come first.
RestoredReason ==
    CASE HasResumeJobs(store) -> "awaiting_tasks"
      [] ~HasResumeJobs(store) /\ store.park = None -> "settled"
      [] OTHER -> store.park

\* restore and _rehydrate.  An embedder may clear a cancellation first.
Restore(cleared) ==
    /\ loop.pc = "down" /\ store # None
    /\ loop' = [store EXCEPT !.pc = "parked", !.reason = RestoredReason, !.mark = Marker(store.park),
                             !.pending = @ \union ({"lost"} \X LostShells),
                             !.cancel = IF cleared THEN None ELSE @]
    /\ history' = [history EXCEPT !.lapses = Lapsed(store.pc \in {"calling", "tools"}, "midturn")]
    /\ UNCHANGED <<store, jobs, reports, kind>>

-----------------------------------------------------------------------------
Driver ==
    \/ Submit \/ Resume \/ PersistPark \/ Close \/ GiveUp
    \/ Interrupt \/ Pause \/ (\E cause \in {"user", "drain"} : Cancel(cause))

Pump ==
    \/ Cancelled \/ Interrupted \/ Paused \/ StepLimit
    \/ BeginStep \/ (\E c \in Calls : ConsumeReplay(c)) \/ RunReplay \/ EndReplay
    \/ SendRequest \/ LimitReached
    \/ (\E recoverable \in BOOLEAN : ModelFails(recoverable))
    \/ (\E batch \in SUBSET Calls : ModelCalls(batch)) \/ ModelAnswers
    \/ (\E c \in Calls, k \in Kinds : RunCall(c, k)) \/ EndBatch
    \/ \E decision \in {"accept", "refused", "limited", "defect", "reprompt"} : ApplySettle(decision)

Tasks ==
    \/ \E c \in Calls : ShellExits(c)
    \/ \E r \in Reporters :
          \/ \E c \in Calls, v \in Verdicts : ReportArrives(r, c, v)
          \/ ReportApplies(r) \/ ReportPublishes(r) \/ ReportPersists(r)

LoopNext == Driver \/ Pump \/ Tasks \/ Crash \/ \E cleared \in BOOLEAN : Restore(cleared)

LoopSpec == LoopInit /\ [][LoopNext]_loopVars
-----------------------------------------------------------------------------
(* Properties *)

\* An approved call runs at most once, over crashes and restores, as long as
\* the checkpoint that consumes an approval was accepted (loop.py, the replay
\* queue of _apump_turn), and never without an approval.
ApprovedOnce ==
    "unsaved" \notin history.lapses =>
        \A c \in Hosted : history.executed[c] <= 1

\* What a model request carries: every call of the conversation has one result
\* and no result is there twice, whatever parks, failures and restores came
\* before; unless a stop cut a batch of calls short or the session was restored
\* from a checkpoint taken inside a turn.
LogIsWellFormed ==
    loop.pc = "calling" /\ history.lapses \intersect {"stranded", "overrun", "midturn"} = {} =>
        /\ loop.log.again \intersect ({"result", "task"} \X Calls) = {}
        /\ \A c \in Calls : Logged(loop, <<"call", c>>) => Logged(loop, <<"result", c>>)

\* The pump will deliver the result of task c, or has put it before the model.
Held(l, c) ==
    \/ c \in l.ready \ l.delivered /\ l.tasks[c] \in Verdicts
    \/ <<"task", c>> \in l.pending
    \/ Logged(l, <<"task", c>>)

\* A result whose report was answered as delivered, with a checkpoint, is not
\* lost: the live session and the checkpoint hold it until the run is closed,
\* unless a stop dropped it.
ResultsAreKept ==
    "stranded" \notin history.lapses => \A c \in history.acked :
        /\ Live => Held(loop, c)
        /\ loop.pc # "closed" => store # None /\ Held(store, c)

\* A run closed as completed over a durable park has nothing unsent and ended
\* with an answer of the model or with run.finish: a park whose turn did not
\* settle is never recorded as a success, after a restart either.
HonestClose ==
    history.outcome = "completed" /\ history.over # None =>
        /\ ~loop.input
        /\ \A c \in Calls : <<"result", c>> \notin loop.pending
        /\ loop.log.last = "answer" \/ (loop.finish /\ loop.log.last = "results")

\* The strict form of ApprovedOnce, which the contract states: approved calls
\* use durable at-most-once delivery.
ApprovalsAreAtMostOnce == \A c \in Hosted : history.executed[c] <= 1
=============================================================================
