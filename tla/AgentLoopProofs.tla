-------------------------- MODULE AgentLoopProofs --------------------------
(***************************************************************************)
(* The agent loop, for any number of calls, reporters, stops and crashes   *)
(* and for every limit: an approved call runs at most once, no result that *)
(* was acknowledged is lost, what the model is sent is well-formed, and a  *)
(* run closed as completed had settled.                                    *)
(*                                                                         *)
(* ApprovedOnce is not inductive: a replay must not come back from the     *)
(* queue, from a second report or from a checkpoint.  LoopInvariant says   *)
(* where a call can be in the live session and in the stored one, and that *)
(* an executed approval is past its replay in both.                        *)
(*                                                                         *)
(* The other three rest on ConversationInv, which holds beside it and says *)
(* what both sessions hold, what their conversation contains and what the  *)
(* place of the pump says of it.                                           *)
(***************************************************************************)
EXTENDS AgentLoop, TLAPS

SessionFields ==
    {"pc", "log", "pending", "input", "status", "spent", "terminal", "park", "reason", "mark",
     "step", "total", "retries", "batch", "finish", "replays", "head", "tasks", "ready",
     "queue", "delivered", "interrupt", "pause", "cancel"}

HistoryFields ==
    {"limits", "inputs", "stops", "crashes", "issued", "executed", "acked", "lapses", "over",
     "outcome"}

\* A call that has not run is nowhere in the task table; a hosted one is queued
\* before it is delivered, and delivered before it is replayed.
TasksInOrder(l) ==
    /\ \A c \in Calls : kind[c] = None =>
          c \notin l.queue /\ c \notin l.ready /\ c \notin l.delivered /\ c \notin l.replays
    /\ \A c \in Hosted :
          /\ c \in l.queue => c \in l.ready /\ c \notin l.delivered
          /\ c \in l.delivered => c \in l.ready
          /\ c \in l.replays => c \in l.delivered

\* The approval of call c was taken off the replay queue.
Consumed(l, c) == c \in l.delivered /\ c \notin l.replays

\* Every approved call that ran was consumed before.
RanConsumed(l) == \A c \in Hosted : history.executed[c] > 0 => Consumed(l, c)

\* The shape of the variables, as far as the proof needs it.
LoopShape ==
    /\ DOMAIN loop = SessionFields
    /\ store # None => DOMAIN store = SessionFields
    /\ DOMAIN history = HistoryFields
    /\ history.executed \in [Calls -> Nat]
    /\ kind \in [Calls -> CallKinds \union {None}]

\* A call runs in the turn the model gave it out in, and once.
CallsInOrder ==
    /\ loop.batch \subseteq history.issued
    /\ \A c \in loop.batch : c \in Calls /\ kind[c] = None
    /\ store # None => store.batch = {}
    /\ \A c \in Calls : kind[c] # None => c \in history.issued
    /\ \A c \in Calls : kind[c] = None => history.executed[c] = 0

ReportsAreOfTasks ==
    /\ reports \in [Reporters -> [pc : {"idle", "apply", "publish", "persist"},
                                  call : Calls \union {None}, verdict : Verdicts \union {None},
                                  first : BOOLEAN]]
    /\ \A r \in Reporters : reports[r].pc # "idle" => reports[r].call \in Hosted

\* The approved call whose handler runs has not run yet and was consumed, in the
\* checkpoint too.
ReplayInOrder ==
    loop.pc = "replaying" =>
        /\ loop.head \in Calls /\ kind[loop.head] # None
        /\ "unsaved" \notin history.lapses /\ loop.head \in Hosted =>
              /\ history.executed[loop.head] = 0
              /\ Consumed(loop, loop.head)
              /\ store # None => Consumed(store, loop.head)

ExecutedInOrder ==
    "unsaved" \notin history.lapses =>
        /\ loop.pc # "down" => RanConsumed(loop)
        /\ store # None => RanConsumed(store)

LoopInvariant ==
    /\ LoopShape
    /\ TasksInOrder(loop)
    /\ store # None => TasksInOrder(store)
    /\ CallsInOrder
    /\ ReportsAreOfTasks
    /\ ReplayInOrder
    /\ ExecutedInOrder
    /\ ApprovedOnce

-----------------------------------------------------------------------------
(* Steps that move no task *)

\* Session m has the tasks of l where l has them.
Keeps(l, m) ==
    /\ DOMAIN m = SessionFields
    /\ m.queue = l.queue /\ m.ready = l.ready
    /\ m.delivered = l.delivered /\ m.replays = l.replays

\* The stored session stays, goes, or is a checkpoint of a session with these tasks.
Stores(l) == store' \in {store, None} \/ \E m : Keeps(l, m) /\ store' = Checkpoint(m)

\* The observations that count grow by a lapse at most.
Remembers ==
    /\ DOMAIN history' = HistoryFields
    /\ history'.executed = history.executed
    /\ history'.issued = history.issued
    /\ "unsaved" \notin history'.lapses => "unsaved" \notin history.lapses

\* A step that moves no task and runs no call.
Quiet ==
    /\ Keeps(loop, loop')
    /\ loop.pc # "down" /\ loop'.pc # "down"
    /\ loop'.pc = "replaying" => loop.pc = "replaying" /\ loop'.head = loop.head
    /\ loop'.batch \subseteq loop.batch
    /\ Stores(loop)
    /\ Remembers
    /\ kind' = kind
    /\ reports' = reports \/ ReportsAreOfTasks'

\* A park keeps the tasks of the session it parks (_persist_checkpoint).
LEMMA SuspendKeeps ==
    ASSUME NEW l, DOMAIN l = SessionFields, NEW reason, Suspend(l, reason)
    PROVE  /\ Keeps(l, loop') /\ Stores(l)
           /\ loop'.pc = "parked" /\ loop'.batch = {}
<1> DEFINE idle  == [l EXCEPT !.pc = "parked", !.reason = reason, !.batch = {}, !.head = None]
           saved == [idle EXCEPT !.park = reason]
<1>1. Keeps(l, idle) /\ Keeps(l, saved)
  BY DEF Keeps, SessionFields
<1>2. CASE ShellRuns(l)
  BY <1>1, <1>2 DEF Suspend, Stores, SessionFields
<1>3. CASE ~ShellRuns(l)
  <2>1. loop' = saved /\ store' = Checkpoint(saved)
    BY <1>3 DEF Suspend
  <2> QED
    BY <1>1, <2>1 DEF Stores, SessionFields
<1> QED
  BY <1>2, <1>3

\* A step that parks a session with the tasks of the live one is quiet.
LEMMA ParkIsQuiet ==
    ASSUME loop.pc # "down", NEW l, Keeps(loop, l), NEW reason, Suspend(l, reason),
           Remembers, UNCHANGED <<reports, kind>>
    PROVE  Quiet
<1>1. Keeps(l, loop') /\ Stores(l) /\ loop'.pc = "parked" /\ loop'.batch = {}
  BY SuspendKeeps DEF Keeps
<1> QED
  BY <1>1 DEF Quiet, Keeps, Stores

\* What a checkpoint keeps of the tasks (snapshot, checkpoint_payload).
LEMMA CheckpointKeeps ==
    ASSUME NEW m, DOMAIN m = SessionFields
    PROVE  /\ DOMAIN Checkpoint(m) = SessionFields
           /\ Checkpoint(m).queue = m.queue /\ Checkpoint(m).delivered = m.delivered
           /\ Checkpoint(m).replays = m.replays /\ Checkpoint(m).batch = {}
           /\ Checkpoint(m).ready = m.ready \intersect Hosted
BY DEF Checkpoint, SessionFields

\* A checkpoint of a session in order is in order.
LEMMA CheckpointInOrder ==
    ASSUME NEW l, NEW m, TasksInOrder(l), Keeps(l, m)
    PROVE  /\ DOMAIN Checkpoint(m) = SessionFields /\ Checkpoint(m).batch = {}
           /\ TasksInOrder(Checkpoint(m))
           /\ RanConsumed(l) => RanConsumed(Checkpoint(m))
           /\ \A c : Consumed(l, c) => Consumed(Checkpoint(m), c)
<1>1. DOMAIN m = SessionFields
  BY DEF Keeps
<1> QED
  BY <1>1, CheckpointKeeps DEF Keeps, TasksInOrder, RanConsumed, Consumed

\* Quiet steps preserve the invariant.
LEMMA QuietPreserves ==
    ASSUME LoopInvariant, Quiet
    PROVE  LoopInvariant'
<1> USE DEF LoopInvariant
<1>1. Hosted' = Hosted
  BY DEF Quiet, Hosted
<1>2. /\ DOMAIN loop' = SessionFields /\ TasksInOrder(loop)'
      /\ RanConsumed(loop) => RanConsumed(loop)'
      /\ \A c : Consumed(loop, c) => Consumed(loop', c)
  BY <1>1 DEF Quiet, Keeps, TasksInOrder, RanConsumed, Consumed, Remembers
<1>3. ASSUME store' # None
      PROVE  /\ DOMAIN store' = SessionFields /\ TasksInOrder(store)' /\ store'.batch = {}
             /\ RanConsumed(loop) /\ (store # None => RanConsumed(store)) => RanConsumed(store)'
             /\ \A c : Consumed(loop, c) /\ (store # None => Consumed(store, c)) =>
                   Consumed(store', c)
  <2>1. CASE store' = store
    BY <1>1, <1>3, <2>1
       DEF Quiet, TasksInOrder, RanConsumed, Consumed, Remembers, LoopShape, CallsInOrder
  <2>2. CASE \E m : Keeps(loop, m) /\ store' = Checkpoint(m)
    <3>1. PICK m : Keeps(loop, m) /\ store' = Checkpoint(m)
      BY <2>2
    <3>2. /\ DOMAIN store' = SessionFields /\ store'.batch = {} /\ TasksInOrder(store')
          /\ RanConsumed(loop) => RanConsumed(store')
          /\ \A c : Consumed(loop, c) => Consumed(store', c)
      BY <3>1, CheckpointInOrder
    <3> QED
      BY <1>1, <3>2 DEF Quiet, TasksInOrder, RanConsumed, Remembers
  <2> QED
    BY <1>3, <2>1, <2>2 DEF Quiet, Stores
<1>4. LoopShape'
  BY <1>2, <1>3 DEF LoopShape, Quiet, Remembers
<1>5. CallsInOrder'
  BY <1>3 DEF CallsInOrder, Quiet, Remembers
<1>6. ReportsAreOfTasks'
  BY <1>1 DEF ReportsAreOfTasks, Quiet
<1>7. ReplayInOrder'
  BY <1>1, <1>2, <1>3 DEF ReplayInOrder, Quiet, Remembers
<1>8. ExecutedInOrder'
  BY <1>2, <1>3 DEF ExecutedInOrder, Quiet, Remembers
<1>9. ApprovedOnce'
  BY <1>1 DEF ApprovedOnce, Quiet, Remembers
<1> QED
  BY <1>2, <1>3, <1>4, <1>5, <1>6, <1>7, <1>8, <1>9

-----------------------------------------------------------------------------
(* The driver and the stops *)

\* The driver's steps move no task (drive_open_session, close).
LEMMA DriverIsQuiet ==
    ASSUME LoopInvariant, Driver
    PROVE  Quiet
<1> USE DEF LoopInvariant, LoopShape
<1>1. CASE Submit
  BY <1>1 DEF Submit, Quiet, Keeps, Stores, Remembers, SessionFields, HistoryFields
<1>2. CASE Resume
  BY <1>2 DEF Resume, Quiet, Keeps, Stores, Remembers, SessionFields, HistoryFields
<1>3. CASE PersistPark
  <2>1. Keeps(loop, loop)
    BY DEF Keeps
  <2>2. store' = store \/ store' = Checkpoint(loop)
    BY <1>3 DEF PersistPark, Persisted
  <2> QED
    BY <1>3, <2>1, <2>2 DEF PersistPark, Quiet, Stores, Remembers
<1>4. CASE Close
  <2> DEFINE verdict == IF Promotion = None THEN loop.status ELSE Promotion
             last == [loop EXCEPT !.status = verdict, !.terminal = TRUE, !.park = "terminal"]
  <2>1. Keeps(loop, last)
    BY DEF Keeps, SessionFields
  <2>2. store' \in {store, None} \/ store' = Checkpoint(last)
    BY <1>4 DEF Close, Persisted
  <2>3. Stores(loop)
    BY <2>1, <2>2 DEF Stores
  <2> QED
    BY <1>4, <2>3 DEF Close, Quiet, Keeps, Remembers, SessionFields, HistoryFields
<1>5. CASE GiveUp
  <2> DEFINE l == [loop EXCEPT !.status = "failed", !.spent = FALSE, !.terminal = TRUE]
  <2>1. Keeps(loop, l)
    BY DEF Keeps, SessionFields
  <2>2. Suspend(l, "terminal") /\ Remembers /\ UNCHANGED <<reports, kind>> /\ loop.pc # "down"
    BY <1>5 DEF GiveUp, Remembers
  <2> QED
    BY <2>1, <2>2, ParkIsQuiet
<1>6. ASSUME NEW l, Keeps(loop, l), l.pc = loop.pc, l.batch = loop.batch, l.head = loop.head,
             StopRequest(l)
      PROVE  Quiet
  BY <1>6 DEF StopRequest, Live, Quiet, Keeps, Stores, Remembers, HistoryFields
<1>7. CASE Interrupt
  BY <1>6, <1>7 DEF Interrupt, Keeps, SessionFields
<1>8. CASE Pause
  BY <1>6, <1>8 DEF Pause, Keeps, SessionFields
<1>9. CASE \E cause \in {"user", "drain"} : Cancel(cause)
  <2>1. PICK cause : Cancel(cause)
    BY <1>9
  <2> QED
    BY <1>6, <2>1 DEF Cancel, Keeps, SessionFields
<1> QED
  BY <1>1, <1>2, <1>3, <1>4, <1>5, <1>7, <1>8, <1>9 DEF Driver

\* A stop moves no task.
LEMMA StopsAreQuiet ==
    ASSUME LoopInvariant, Cancelled \/ Interrupted \/ Paused \/ StepLimit
    PROVE  Quiet
<1> USE DEF LoopInvariant, LoopShape
<1>1. CASE Cancelled
  <2>1. \E l, reason : Keeps(loop, l) /\ Suspend(l, reason)
    <3>1. CASE loop.cancel = "drain"
      <4> DEFINE l == [loop EXCEPT !.spent = FALSE, !.mark = "interrupted"]
      <4>1. Keeps(loop, l)
        BY DEF Keeps, SessionFields
      <4> QED
        BY <1>1, <3>1, <4>1 DEF Cancelled
    <3>2. CASE loop.cancel # "drain"
      <4> DEFINE l == [loop EXCEPT !.spent = FALSE, !.status = "limited", !.terminal = TRUE]
      <4>1. Keeps(loop, l)
        BY DEF Keeps, SessionFields
      <4> QED
        BY <1>1, <3>2, <4>1 DEF Cancelled
    <3> QED
      BY <3>1, <3>2
  <2>2. Remembers /\ UNCHANGED <<reports, kind>> /\ loop.pc # "down"
    BY <1>1 DEF Cancelled, AtBoundary, Lapsed, Remembers, HistoryFields
  <2> QED
    BY <2>1, <2>2, ParkIsQuiet
<1>2. CASE Interrupted
  <2> DEFINE l == [loop EXCEPT !.interrupt = FALSE, !.pending = {}, !.mark = "interrupted"]
  <2>1. Keeps(loop, l)
    BY DEF Keeps, SessionFields
  <2>2. Suspend(l, "interrupted") /\ UNCHANGED <<reports, kind>> /\ loop.pc # "down"
    BY <1>2 DEF Interrupted, AtBoundary
  <2>3. Remembers
    BY <1>2 DEF Interrupted, Lapsed, Remembers, HistoryFields
  <2> QED
    BY <2>1, <2>2, <2>3, ParkIsQuiet
<1>3. CASE Paused
  <2> DEFINE l == [loop EXCEPT !.pause = FALSE, !.mark = "paused"]
  <2>1. Keeps(loop, l)
    BY DEF Keeps, SessionFields
  <2>2. Suspend(l, "paused") /\ Remembers /\ UNCHANGED <<reports, kind>> /\ loop.pc # "down"
    BY <1>3 DEF Paused, Remembers
  <2> QED
    BY <2>1, <2>2, ParkIsQuiet
<1>4. CASE StepLimit
  <2> DEFINE l == [loop EXCEPT !.status = "limited", !.spent = FALSE]
  <2>1. Keeps(loop, l)
    BY DEF Keeps, SessionFields
  <2>2. Suspend(l, "limited") /\ Remembers /\ UNCHANGED <<reports, kind>> /\ loop.pc # "down"
    BY <1>4 DEF StepLimit, Remembers
  <2> QED
    BY <2>1, <2>2, ParkIsQuiet
<1> QED
  BY <1>1, <1>2, <1>3, <1>4

-----------------------------------------------------------------------------
(* The pump *)

\* Requests, answers of the model without calls, the end of a batch and of a
\* replay, and settlement move no task.
LEMMA TurnIsQuiet ==
    ASSUME LoopInvariant,
           \/ EndReplay \/ SendRequest \/ LimitReached \/ ModelAnswers \/ EndBatch
           \/ \E recoverable \in BOOLEAN : ModelFails(recoverable)
           \/ \E decision \in {"accept", "refused", "limited", "defect", "reprompt"} :
                 ApplySettle(decision)
    PROVE  Quiet
<1> USE DEF LoopInvariant, LoopShape
<1>1. CASE EndReplay
  BY <1>1 DEF EndReplay, Quiet, Keeps, Stores, Remembers, SessionFields, HistoryFields
<1>2. CASE SendRequest
  BY <1>2 DEF SendRequest, Quiet, Keeps, Stores, Remembers, SessionFields, HistoryFields
<1>3. CASE LimitReached
  <2> DEFINE l == [loop EXCEPT !.log = Sent, !.input = FALSE, !.pending = {},
                               !.status = "limited", !.spent = FALSE]
  <2>1. Keeps(loop, l)
    BY DEF Keeps, SessionFields
  <2>2. Suspend(l, "limited") /\ Remembers /\ UNCHANGED <<reports, kind>> /\ loop.pc # "down"
    BY <1>3 DEF LimitReached, Remembers
  <2> QED
    BY <2>1, <2>2, ParkIsQuiet
<1>4. CASE ModelAnswers
  <2> DEFINE l == [loop EXCEPT !.pending = {}, !.log = Extended(@, "answer", {})]
  <2>1. Keeps(loop, l) /\ l.batch = loop.batch
    BY DEF Keeps, SessionFields
  <2>2. Remembers /\ UNCHANGED <<reports, kind>> /\ loop.pc # "down"
    BY <1>4 DEF ModelAnswers, Remembers
  <2>3. CASE Suspend(l, "awaiting_tasks")
    BY <2>1, <2>2, <2>3, ParkIsQuiet
  <2>4. CASE loop' = [l EXCEPT !.pc = "settling"] /\ store' = store
    BY <2>1, <2>2, <2>4 DEF Quiet, Keeps, Stores, SessionFields
  <2> QED
    BY <1>4, <2>3, <2>4 DEF ModelAnswers
<1>5. CASE EndBatch
  <2> DEFINE l == [loop EXCEPT !.terminal = @ \/ loop.spent]
  <2>1. Keeps(loop, l)
    BY DEF Keeps, SessionFields
  <2>2. Remembers /\ UNCHANGED <<reports, kind>> /\ loop.pc # "down"
    BY <1>5 DEF EndBatch, Remembers
  <2>3. CASE Suspend(l, "limited")
    BY <2>1, <2>2, <2>3, ParkIsQuiet
  <2>4. CASE /\ loop' \in {[loop EXCEPT !.pc = "settling"], [loop EXCEPT !.pc = "top"]}
             /\ store' = store
    BY <2>2, <2>4 DEF Quiet, Keeps, Stores, SessionFields
  <2> QED
    BY <1>5, <2>3, <2>4 DEF EndBatch
<1>6. ASSUME NEW recoverable \in BOOLEAN, ModelFails(recoverable)
      PROVE  Quiet
  <2> DEFINE l == [loop EXCEPT !.pending = {}, !.mark = "turn_failed"]
             k == [loop EXCEPT !.status = "failed", !.spent = FALSE, !.terminal = TRUE]
  <2>1. Keeps(loop, l) /\ Keeps(loop, k)
    BY DEF Keeps, SessionFields
  <2>2. Remembers /\ UNCHANGED <<reports, kind>> /\ loop.pc # "down"
    BY <1>6 DEF ModelFails, Remembers
  <2>3. Suspend(l, "turn_failed") \/ Suspend(k, "terminal")
    BY <1>6 DEF ModelFails
  <2> QED
    BY <2>1, <2>2, <2>3, ParkIsQuiet
<1>7. ASSUME NEW decision \in {"accept", "refused", "limited", "defect", "reprompt"},
             ApplySettle(decision)
      PROVE  Quiet
  <2> DEFINE logged == [loop EXCEPT !.pending = {},
                            !.log = IF loop.pending = {} THEN @
                                    ELSE Extended(@, "results", loop.pending)]
  <2>1. Keeps(loop, logged) /\ logged.batch = loop.batch
    BY DEF Keeps, SessionFields
  <2>2. Remembers /\ UNCHANGED <<reports, kind>> /\ loop.pc # "down"
    BY <1>7 DEF ApplySettle, Remembers
  <2> HIDE DEF logged
  <2>3. CASE decision = "accept"
    <3> DEFINE l == [logged EXCEPT !.terminal = loop.spent]
    <3>1. Keeps(loop, l)
      BY <2>1 DEF Keeps, SessionFields
    <3>2. Suspend(l, "settled")
      BY <1>7, <2>3 DEF ApplySettle, logged
    <3> QED
      BY <2>2, <3>1, <3>2, ParkIsQuiet
  <2>4. CASE decision = "refused"
    <3> DEFINE l == [logged EXCEPT !.status = "failed", !.spent = FALSE]
    <3>1. Keeps(loop, l)
      BY <2>1 DEF Keeps, SessionFields
    <3>2. Suspend(l, "settled")
      BY <1>7, <2>4 DEF ApplySettle, logged
    <3> QED
      BY <2>2, <3>1, <3>2, ParkIsQuiet
  <2>5. CASE decision = "limited"
    <3> DEFINE l == [logged EXCEPT !.status = "limited", !.spent = FALSE]
    <3>1. Keeps(loop, l)
      BY <2>1 DEF Keeps, SessionFields
    <3>2. Suspend(l, "limited")
      BY <1>7, <2>5 DEF ApplySettle, logged
    <3> QED
      BY <2>2, <3>1, <3>2, ParkIsQuiet
  <2>6. CASE decision = "defect"
    <3> DEFINE l == [loop EXCEPT !.status = "failed", !.spent = FALSE, !.terminal = TRUE]
    <3>1. Keeps(loop, l)
      BY DEF Keeps, SessionFields
    <3>2. Suspend(l, "terminal")
      BY <1>7, <2>6 DEF ApplySettle
    <3> QED
      BY <2>2, <3>1, <3>2, ParkIsQuiet
  <2>7. CASE decision = "reprompt"
    <3>1. /\ loop' = [logged EXCEPT !.pc = "top", !.retries = @ + 1, !.finish = FALSE,
                                    !.log = Extended(@, "user", {})]
          /\ store' = store
      BY <1>7, <2>7 DEF ApplySettle, logged
    <3> QED
      BY <2>1, <2>2, <3>1 DEF Quiet, Keeps, Stores, SessionFields
  <2> QED
    BY <1>7, <2>3, <2>4, <2>5, <2>6, <2>7
<1> QED
  BY <1>1, <1>2, <1>3, <1>4, <1>5, <1>6, <1>7

\* Reports are applied and persisted without moving a task
\* (report_result, persist_checkpoint_from_any_thread).
LEMMA ReportsAreQuiet ==
    ASSUME LoopInvariant, NEW r \in Reporters,
           \/ \E c \in Calls, v \in Verdicts : ReportArrives(r, c, v)
           \/ ReportApplies(r) \/ ReportPersists(r)
    PROVE  Quiet
<1> USE DEF LoopInvariant, LoopShape
<1>1. ASSUME NEW c \in Calls, NEW v \in Verdicts, ReportArrives(r, c, v)
      PROVE  Quiet
  <2>1. ReportsAreOfTasks'
    BY <1>1 DEF ReportArrives, ReportsAreOfTasks, Hosted
  <2> QED
    BY <1>1, <2>1 DEF ReportArrives, Live, Quiet, Keeps, Stores, Remembers
<1>2. CASE ReportApplies(r)
  <2>1. ReportsAreOfTasks'
    BY <1>2 DEF ReportApplies, ReportsAreOfTasks, Hosted
  <2> QED
    BY <1>2, <2>1
       DEF ReportApplies, Live, Quiet, Keeps, Stores, Remembers, SessionFields
<1>3. CASE ReportPersists(r)
  <2>1. ReportsAreOfTasks'
    BY <1>3 DEF ReportPersists, ReportsAreOfTasks, Hosted, IdleReport
  <2>2. Keeps(loop, loop)
    BY DEF Keeps
  <2>3. store' = store \/ store' = Checkpoint(loop)
    BY <1>3 DEF ReportPersists, Persisted
  <2>4. Remembers
    BY <1>3 DEF ReportPersists, Remembers, HistoryFields
  <2> QED
    BY <1>3, <2>1, <2>2, <2>3, <2>4 DEF ReportPersists, Live, Quiet, Stores
<1> QED
  BY <1>1, <1>2, <1>3

\* Finished tasks are delivered; what was executed was delivered before, so its
\* approval is not queued again (pop_reentry_observations).
LEMMA BeginStepPreserves ==
    ASSUME LoopInvariant, BeginStep
    PROVE  LoopInvariant'
<1> USE DEF LoopInvariant
<1> DEFINE popped == loop.queue \union (loop.ready \ loop.delivered)
           known  == {c \in popped : loop.tasks[c] # "none"}
<1>1. /\ DOMAIN loop' = SessionFields
      /\ loop'.pc = "replays" /\ loop'.queue = {} /\ loop'.ready = loop.ready
      /\ loop'.batch = loop.batch
      /\ loop'.delivered = loop.delivered \union known
      /\ loop'.replays = loop.replays \union {c \in known : loop.tasks[c] = "approved"}
  BY DEF BeginStep, LoopShape, SessionFields
<1>2. loop.pc # "down" /\ UNCHANGED <<store, reports, kind, history>> /\ Hosted' = Hosted
  BY DEF BeginStep, Hosted
<1> HIDE DEF known
<1>3. \A c \in known : c \in loop.queue \/ (c \in loop.ready /\ c \notin loop.delivered)
  BY DEF known
<1>4. TasksInOrder(loop)'
  BY <1>1, <1>2, <1>3 DEF TasksInOrder
<1>5. RanConsumed(loop) => RanConsumed(loop)'
  BY <1>1, <1>2, <1>3 DEF RanConsumed, Consumed, TasksInOrder
<1>6. ExecutedInOrder'
  BY <1>2, <1>5 DEF ExecutedInOrder, RanConsumed
<1>7. LoopShape' /\ CallsInOrder' /\ ReportsAreOfTasks' /\ ReplayInOrder' /\ ApprovedOnce'
  BY <1>1, <1>2 DEF LoopShape, CallsInOrder, ReportsAreOfTasks, ReplayInOrder, ApprovedOnce
<1> QED
  BY <1>2, <1>4, <1>6, <1>7 DEF TasksInOrder

\* An approval is taken off the queue and the checkpoint knows, or the lapse is
\* recorded (_apump_turn).
LEMMA ConsumeReplayPreserves ==
    ASSUME LoopInvariant, NEW c \in Calls, ConsumeReplay(c)
    PROVE  LoopInvariant'
<1> USE DEF LoopInvariant
<1> DEFINE taken == [loop EXCEPT !.pc = "replaying", !.replays = @ \ {c}, !.head = c]
<1>1. /\ DOMAIN taken = SessionFields
      /\ taken.pc = "replaying" /\ taken.head = c /\ taken.batch = loop.batch
      /\ taken.queue = loop.queue /\ taken.ready = loop.ready
      /\ taken.delivered = loop.delivered /\ taken.replays = loop.replays \ {c}
  BY DEF LoopShape, SessionFields
<1>2. /\ loop' = taken /\ c \in loop.replays /\ loop.pc # "down"
      /\ UNCHANGED <<reports, kind>> /\ Hosted' = Hosted
  BY DEF ConsumeReplay, Hosted
<1>3. /\ DOMAIN history' = HistoryFields
      /\ history'.executed = history.executed /\ history'.issued = history.issued
      /\ "unsaved" \notin history'.lapses => "unsaved" \notin history.lapses /\ ~ShellRuns(taken)
  BY DEF ConsumeReplay, Lapsed, LoopShape, HistoryFields
<1>4. IF ShellRuns(taken) THEN store' = store ELSE store' = Checkpoint(taken)
  BY DEF ConsumeReplay, Persisted
<1> HIDE DEF taken
<1>5. /\ TasksInOrder(taken)
      /\ kind[c] # None
      /\ c \in Hosted => Consumed(taken, c)
      /\ RanConsumed(loop) => RanConsumed(taken) /\ (c \in Hosted => history.executed[c] = 0)
  BY <1>1, <1>2 DEF TasksInOrder, RanConsumed, Consumed, LoopShape, Hosted
<1>6. Keeps(taken, taken)
  BY <1>1 DEF Keeps
<1>7. /\ DOMAIN Checkpoint(taken) = SessionFields /\ Checkpoint(taken).batch = {}
      /\ TasksInOrder(Checkpoint(taken))
      /\ RanConsumed(taken) => RanConsumed(Checkpoint(taken))
      /\ Consumed(taken, c) => Consumed(Checkpoint(taken), c)
  BY <1>5, <1>6, CheckpointInOrder
<1>8. store' # None => /\ DOMAIN store' = SessionFields /\ store'.batch = {}
                       /\ TasksInOrder(store')
  BY <1>4, <1>7 DEF LoopShape, CallsInOrder
<1>9. TasksInOrder(loop)' /\ (store' # None => TasksInOrder(store)')
  BY <1>2, <1>5, <1>8 DEF TasksInOrder
<1>10. LoopShape' /\ CallsInOrder' /\ ReportsAreOfTasks'
  BY <1>1, <1>2, <1>3, <1>8 DEF LoopShape, CallsInOrder, ReportsAreOfTasks
<1>11. ReplayInOrder'
  <2> SUFFICES ASSUME "unsaved" \notin history'.lapses, c \in Hosted
               PROVE  /\ history'.executed[c] = 0 /\ Consumed(loop', c)
                      /\ store' # None => Consumed(store', c)
    BY <1>1, <1>2, <1>5 DEF ReplayInOrder
  <2> QED
    BY <1>2, <1>3, <1>4, <1>5, <1>7 DEF ExecutedInOrder
<1>12. ExecutedInOrder'
  <2> SUFFICES ASSUME "unsaved" \notin history'.lapses
               PROVE  RanConsumed(loop)' /\ (store' # None => RanConsumed(store)')
    BY DEF ExecutedInOrder
  <2>1. RanConsumed(taken) /\ store' = Checkpoint(taken) /\ RanConsumed(Checkpoint(taken))
    BY <1>2, <1>3, <1>4, <1>5, <1>7 DEF ExecutedInOrder
  <2> QED
    BY <1>2, <1>3, <2>1 DEF RanConsumed
<1>13. ApprovedOnce'
  BY <1>2, <1>3 DEF ApprovedOnce
<1> QED
  BY <1>9, <1>10, <1>11, <1>12, <1>13

\* The approved handler runs: its call was consumed and had not run.
LEMMA RunReplayPreserves ==
    ASSUME LoopInvariant, RunReplay
    PROVE  LoopInvariant'
<1> USE DEF LoopInvariant
<1>1. /\ DOMAIN loop' = SessionFields
      /\ loop'.pc = "replayed" /\ loop'.batch = loop.batch
      /\ loop'.queue = loop.queue /\ loop'.ready = loop.ready
      /\ loop'.delivered = loop.delivered /\ loop'.replays = loop.replays
  BY DEF RunReplay, LoopShape, SessionFields
<1>2. /\ loop.pc = "replaying" /\ UNCHANGED <<store, reports, kind>> /\ Hosted' = Hosted
      /\ loop.head \in Calls /\ kind[loop.head] # None
  BY DEF RunReplay, Hosted, ReplayInOrder
<1>3. /\ DOMAIN history' = HistoryFields
      /\ history'.executed = [history.executed EXCEPT ![loop.head] = @ + 1]
      /\ history'.issued = history.issued /\ history'.lapses = history.lapses
  BY DEF RunReplay, LoopShape, HistoryFields
<1>4. /\ history'.executed \in [Calls -> Nat]
      /\ \A c \in Calls : c # loop.head => history'.executed[c] = history.executed[c]
      /\ history'.executed[loop.head] = history.executed[loop.head] + 1
  BY <1>2, <1>3 DEF LoopShape
<1>5. TasksInOrder(loop)' /\ (store' # None => TasksInOrder(store)')
  BY <1>1, <1>2 DEF TasksInOrder
<1>6. LoopShape' /\ CallsInOrder' /\ ReportsAreOfTasks' /\ ReplayInOrder'
  BY <1>1, <1>2, <1>3, <1>4 DEF LoopShape, CallsInOrder, ReportsAreOfTasks, ReplayInOrder
<1>7. ExecutedInOrder'
  BY <1>1, <1>2, <1>3, <1>4
     DEF ExecutedInOrder, RanConsumed, Consumed, ReplayInOrder, Hosted
<1>8. ApprovedOnce'
  BY <1>2, <1>3, <1>4 DEF ApprovedOnce, ReplayInOrder, Hosted
<1> QED
  BY <1>5, <1>6, <1>7, <1>8

\* The model gives out calls that were not given out before.
LEMMA ModelCallsPreserves ==
    ASSUME LoopInvariant, NEW batch \in SUBSET Calls, ModelCalls(batch)
    PROVE  LoopInvariant'
<1> USE DEF LoopInvariant
<1>1. /\ DOMAIN loop' = SessionFields
      /\ loop'.pc = "tools" /\ loop'.batch = batch
      /\ loop'.queue = loop.queue /\ loop'.ready = loop.ready
      /\ loop'.delivered = loop.delivered /\ loop'.replays = loop.replays
  BY DEF ModelCalls, LoopShape, SessionFields
<1>2. /\ loop.pc # "down" /\ batch \intersect history.issued = {}
      /\ UNCHANGED <<store, reports, kind>> /\ Hosted' = Hosted
  BY DEF ModelCalls, Hosted
<1>3. /\ DOMAIN history' = HistoryFields
      /\ history'.executed = history.executed /\ history'.lapses = history.lapses
      /\ history'.issued = history.issued \union batch
  BY DEF ModelCalls, LoopShape, HistoryFields
<1>4. TasksInOrder(loop)' /\ (store' # None => TasksInOrder(store)')
  BY <1>1, <1>2 DEF TasksInOrder
<1>5. LoopShape' /\ CallsInOrder' /\ ReportsAreOfTasks' /\ ReplayInOrder' /\ ApprovedOnce'
  BY <1>1, <1>2, <1>3
     DEF LoopShape, CallsInOrder, ReportsAreOfTasks, ReplayInOrder, ApprovedOnce
<1>6. ExecutedInOrder'
  BY <1>1, <1>2, <1>3 DEF ExecutedInOrder, RanConsumed, Consumed
<1> QED
  BY <1>4, <1>5, <1>6

\* A call runs for the first time; if it waits for an approval it becomes hosted,
\* and no session knows it as a task yet.
LEMMA RunCallPreserves ==
    ASSUME LoopInvariant, NEW c \in Calls, NEW k \in Kinds, RunCall(c, k)
    PROVE  LoopInvariant'
<1> USE DEF LoopInvariant
<1>1. CASE loop.total >= history.limits.toolCalls
  <2>1. /\ DOMAIN loop' = SessionFields
        /\ loop'.pc = "tools" /\ loop.pc = "tools" /\ loop'.batch = {}
        /\ loop'.queue = loop.queue /\ loop'.ready = loop.ready
        /\ loop'.delivered = loop.delivered /\ loop'.replays = loop.replays
    BY <1>1 DEF RunCall, LoopShape, SessionFields
  <2>2. Remembers
    BY <1>1 DEF RunCall, Remembers, Lapsed, LoopShape, HistoryFields
  <2>3. UNCHANGED <<store, reports, kind>>
    BY <1>1 DEF RunCall
  <2>4. Quiet
    BY <2>1, <2>2, <2>3 DEF Quiet, Keeps, Stores
  <2> QED
    BY <2>4, QuietPreserves
<1>2. CASE ~(loop.total >= history.limits.toolCalls)
  <2>1. /\ DOMAIN loop' = SessionFields
        /\ loop'.pc = "tools" /\ loop'.batch = loop.batch \ {c}
        /\ loop'.queue = loop.queue /\ loop'.ready = loop.ready
        /\ loop'.delivered = loop.delivered /\ loop'.replays = loop.replays
    BY <1>2 DEF RunCall, LoopShape, SessionFields
  <2>2. /\ loop.pc # "down" /\ c \in loop.batch /\ UNCHANGED <<store, reports>>
        /\ kind' = [kind EXCEPT ![c] = k]
    BY <1>2 DEF RunCall
  <2>3. /\ DOMAIN history' = HistoryFields
        /\ history'.executed = [history.executed EXCEPT ![c] = IF k = "plain" THEN @ + 1 ELSE @]
        /\ history'.lapses = history.lapses /\ history'.issued = history.issued
    BY <1>2 DEF RunCall, LoopShape, HistoryFields
  <2>4. kind[c] = None /\ history.executed[c] = 0 /\ k # None /\ k \in CallKinds
    BY <2>2, LoopAssumption DEF CallsInOrder
  <2>5. /\ kind' \in [Calls -> CallKinds \union {None}]
        /\ kind'[c] = k /\ \A d \in Calls : d # c => kind'[d] = kind[d]
        /\ history'.executed \in [Calls -> Nat]
        /\ \A d \in Calls : d # c => history'.executed[d] = history.executed[d]
        /\ k # "plain" => history'.executed[c] = 0
    BY <2>2, <2>3, <2>4 DEF LoopShape
  <2>6. /\ Hosted \subseteq Hosted' /\ Hosted' \subseteq Hosted \union {c}
        /\ c \in Hosted' => k = "ask"
        /\ c \notin Hosted
    BY <2>4, <2>5, LoopAssumption DEF Hosted, CallKinds
  <2>7. TasksInOrder(loop)'
    BY <2>1, <2>4, <2>5, <2>6 DEF TasksInOrder
  <2>8. store' # None => TasksInOrder(store)'
    BY <2>2, <2>4, <2>5, <2>6 DEF TasksInOrder
  <2>9. LoopShape'
    BY <2>1, <2>2, <2>3, <2>5 DEF LoopShape
  <2>10. CallsInOrder'
    BY <2>1, <2>2, <2>3, <2>4, <2>5 DEF CallsInOrder
  <2>11. ReportsAreOfTasks'
    BY <2>2, <2>6 DEF ReportsAreOfTasks
  <2>12. ReplayInOrder'
    BY <2>1 DEF ReplayInOrder
  <2>13. \A d \in Hosted' : history'.executed[d] > 0 => d \in Hosted /\ history.executed[d] > 0
    BY <2>5, <2>6 DEF Hosted
  <2>14. ExecutedInOrder'
    BY <2>1, <2>2, <2>3, <2>13 DEF ExecutedInOrder, RanConsumed, Consumed
  <2>15. ApprovedOnce'
    BY <2>3, <2>5, <2>6 DEF ApprovedOnce, Hosted
  <2> QED
    BY <2>7, <2>8, <2>9, <2>10, <2>11, <2>12, <2>14, <2>15
<1> QED
  BY <1>1, <1>2

-----------------------------------------------------------------------------
(* Tasks, crash and restore *)

\* A finished task that was not published before is queued (mark_ready).
LEMMA PublishPreserves ==
    ASSUME LoopInvariant, NEW c \in Calls, kind[c] # None, loop.pc # "down",
           c \in Hosted => c \notin loop.ready,
           DOMAIN loop' = SessionFields,
           loop'.pc = loop.pc, loop'.head = loop.head, loop'.batch = loop.batch,
           loop'.ready = loop.ready \union {c}, loop'.queue = loop.queue \union {c},
           loop'.delivered = loop.delivered, loop'.replays = loop.replays,
           ReportsAreOfTasks', UNCHANGED <<store, kind, history>>
    PROVE  LoopInvariant'
<1> USE DEF LoopInvariant
<1>1. Hosted' = Hosted
  BY DEF Hosted
<1>2. TasksInOrder(loop)' /\ (store' # None => TasksInOrder(store)')
  BY <1>1 DEF TasksInOrder
<1>3. LoopShape' /\ CallsInOrder' /\ ApprovedOnce'
  BY <1>1 DEF LoopShape, CallsInOrder, ApprovedOnce
<1>4. ReplayInOrder' /\ ExecutedInOrder'
  BY <1>1 DEF ReplayInOrder, ExecutedInOrder, RanConsumed, Consumed
<1> QED
  BY <1>2, <1>3, <1>4

\* A shell job that ends publishes its result once (_run_shell_job).
LEMMA ShellExitsPreserves ==
    ASSUME LoopInvariant, NEW c \in Calls, ShellExits(c)
    PROVE  LoopInvariant'
<1> USE DEF LoopInvariant
<1>1. /\ DOMAIN loop' = SessionFields
      /\ loop'.pc = loop.pc /\ loop'.head = loop.head /\ loop'.batch = loop.batch
      /\ loop'.ready = loop.ready \union {c} /\ loop'.queue = loop.queue \union {c}
      /\ loop'.delivered = loop.delivered /\ loop'.replays = loop.replays
  BY DEF ShellExits, LoopShape, SessionFields
<1>2. /\ kind[c] = "shell" /\ loop.pc # "down"
      /\ UNCHANGED <<store, reports, kind, history>>
  BY DEF ShellExits, Live
<1>3. kind[c] # None /\ c \notin Hosted
  BY <1>2, LoopAssumption DEF Hosted, CallKinds
<1>4. ReportsAreOfTasks'
  BY <1>2 DEF ReportsAreOfTasks, Hosted
<1> QED
  BY <1>1, <1>2, <1>3, <1>4, PublishPreserves

\* A report publishes the result of a task that no report published before it.
LEMMA ReportPublishesPreserves ==
    ASSUME LoopInvariant, NEW r \in Reporters, ReportPublishes(r)
    PROVE  LoopInvariant'
<1> USE DEF LoopInvariant
<1> DEFINE c == reports[r].call
<1>1. loop.pc # "down" /\ UNCHANGED <<store, kind, history>>
  BY DEF ReportPublishes, Live
<1>2. c \in Hosted /\ c \in Calls /\ kind[c] # None
  BY LoopAssumption DEF ReportPublishes, ReportsAreOfTasks, Hosted, CallKinds
<1>3. ReportsAreOfTasks'
  BY DEF ReportPublishes, ReportsAreOfTasks, Hosted
<1>4. CASE c \in loop.ready
  <2>1. loop' = loop
    BY <1>4 DEF ReportPublishes
  <2>2. Quiet
    BY <1>1, <1>3, <2>1 DEF Quiet, Keeps, Stores, Remembers, LoopShape
  <2> QED
    BY <2>2, QuietPreserves
<1>5. CASE c \notin loop.ready
  <2>1. loop' = [loop EXCEPT !.ready = @ \union {c}, !.queue = @ \union {c}]
    BY <1>5 DEF ReportPublishes
  <2> HIDE DEF c
  <2>2. /\ DOMAIN loop' = SessionFields
        /\ loop'.pc = loop.pc /\ loop'.head = loop.head /\ loop'.batch = loop.batch
        /\ loop'.ready = loop.ready \union {c} /\ loop'.queue = loop.queue \union {c}
        /\ loop'.delivered = loop.delivered /\ loop'.replays = loop.replays
    BY <2>1 DEF LoopShape, SessionFields
  <2> QED
    BY <1>1, <1>2, <1>3, <1>5, <2>2, PublishPreserves
<1> QED
  BY <1>4, <1>5

\* A new session knows no task.
LEMMA NewSessionInOrder ==
    /\ DOMAIN NewSession = SessionFields
    /\ NewSession.queue = {} /\ NewSession.ready = {} /\ NewSession.delivered = {}
    /\ NewSession.replays = {} /\ NewSession.batch = {} /\ NewSession.pc = "parked"
BY DEF NewSession, SessionFields

\* A crash forgets the session and the reports under way, not the checkpoint.
LEMMA CrashPreserves ==
    ASSUME LoopInvariant, Crash
    PROVE  LoopInvariant'
<1> USE DEF LoopInvariant
<1>1. /\ DOMAIN loop' = SessionFields
      /\ loop'.pc = "down" /\ loop'.batch = {} /\ loop'.queue = {} /\ loop'.ready = {}
      /\ loop'.delivered = {} /\ loop'.replays = {}
  BY NewSessionInOrder DEF Crash, SessionFields
<1>2. UNCHANGED <<store, kind>> /\ Hosted' = Hosted
  BY DEF Crash, Hosted
<1>3. /\ DOMAIN history' = HistoryFields
      /\ history'.executed = history.executed /\ history'.issued = history.issued
      /\ history'.lapses = history.lapses
  BY DEF Crash, LoopShape, HistoryFields
<1>4. ReportsAreOfTasks'
  BY DEF Crash, ReportsAreOfTasks, IdleReport
<1>5. TasksInOrder(loop)' /\ (store' # None => TasksInOrder(store)')
  BY <1>1, <1>2 DEF TasksInOrder
<1>6. LoopShape' /\ CallsInOrder' /\ ReplayInOrder' /\ ExecutedInOrder' /\ ApprovedOnce'
  BY <1>1, <1>2, <1>3
     DEF LoopShape, CallsInOrder, ReplayInOrder, ExecutedInOrder, RanConsumed, ApprovedOnce
<1> QED
  BY <1>4, <1>5, <1>6

\* A restored session has the tasks of the checkpoint (restore, restore_state).
LEMMA RestorePreserves ==
    ASSUME LoopInvariant, NEW cleared \in BOOLEAN, Restore(cleared)
    PROVE  LoopInvariant'
<1> USE DEF LoopInvariant
<1>1. store # None /\ UNCHANGED <<store, reports, kind>> /\ Hosted' = Hosted
  BY DEF Restore, Hosted
<1>2. /\ DOMAIN loop' = SessionFields
      /\ loop'.pc = "parked" /\ loop'.batch = {}
      /\ loop'.queue = store.queue /\ loop'.ready = store.ready
      /\ loop'.delivered = store.delivered /\ loop'.replays = store.replays
  BY <1>1 DEF Restore, LoopShape, CallsInOrder, SessionFields
<1>3. /\ DOMAIN history' = HistoryFields
      /\ history'.executed = history.executed /\ history'.issued = history.issued
      /\ "unsaved" \notin history'.lapses => "unsaved" \notin history.lapses
  BY DEF Restore, Lapsed, LoopShape, HistoryFields
<1>4. TasksInOrder(loop)' /\ (store' # None => TasksInOrder(store)')
  BY <1>1, <1>2 DEF TasksInOrder
<1>5. LoopShape' /\ CallsInOrder' /\ ReportsAreOfTasks' /\ ReplayInOrder' /\ ApprovedOnce'
  BY <1>1, <1>2, <1>3
     DEF LoopShape, CallsInOrder, ReportsAreOfTasks, ReplayInOrder, ApprovedOnce
<1>6. ExecutedInOrder'
  BY <1>1, <1>2, <1>3 DEF ExecutedInOrder, RanConsumed, Consumed
<1> QED
  BY <1>4, <1>5, <1>6

-----------------------------------------------------------------------------
(* Approved calls *)

\* A run starts without tasks, calls or replays.
LEMMA LoopInitOK == LoopInit => LoopInvariant
<1> SUFFICES ASSUME LoopInit PROVE LoopInvariant
  OBVIOUS
<1>1. /\ DOMAIN loop = SessionFields /\ loop.pc = "parked" /\ loop.batch = {}
      /\ loop.queue = {} /\ loop.ready = {} /\ loop.delivered = {} /\ loop.replays = {}
  BY NewSessionInOrder DEF LoopInit
<1>2. store = None /\ kind = [c \in Calls |-> None] /\ Hosted = {}
  BY LoopAssumption DEF LoopInit, Hosted, CallKinds
<1>3. /\ DOMAIN history = HistoryFields /\ history.issued = {}
      /\ history.executed = [c \in Calls |-> 0]
  BY DEF LoopInit, HistoryFields
<1>4. ReportsAreOfTasks
  BY DEF LoopInit, ReportsAreOfTasks, IdleReport
<1>5. LoopShape /\ CallsInOrder /\ ReplayInOrder
  BY <1>1, <1>2, <1>3 DEF LoopShape, CallsInOrder, ReplayInOrder
<1>6. TasksInOrder(loop) /\ ExecutedInOrder /\ ApprovedOnce
  BY <1>1, <1>2 DEF TasksInOrder, ExecutedInOrder, RanConsumed, ApprovedOnce
<1> QED
  BY <1>2, <1>4, <1>5, <1>6 DEF LoopInvariant

\* Every step of the loop preserves the invariant, one case per kind of step.
LEMMA LoopNextOK == LoopInvariant /\ [LoopNext]_loopVars => LoopInvariant'
<1> SUFFICES ASSUME LoopInvariant, [LoopNext]_loopVars PROVE LoopInvariant'
  OBVIOUS
<1>1. CASE Driver
  BY <1>1, DriverIsQuiet, QuietPreserves
<1>2. CASE Pump
  <2>1. CASE Cancelled \/ Interrupted \/ Paused \/ StepLimit
    BY <2>1, StopsAreQuiet, QuietPreserves
  <2>2. CASE \/ EndReplay \/ SendRequest \/ LimitReached \/ ModelAnswers \/ EndBatch
             \/ \E recoverable \in BOOLEAN : ModelFails(recoverable)
             \/ \E decision \in {"accept", "refused", "limited", "defect", "reprompt"} :
                   ApplySettle(decision)
    BY <2>2, TurnIsQuiet, QuietPreserves
  <2>3. CASE BeginStep
    BY <2>3, BeginStepPreserves
  <2>4. CASE \E c \in Calls : ConsumeReplay(c)
    BY <2>4, ConsumeReplayPreserves
  <2>5. CASE RunReplay
    BY <2>5, RunReplayPreserves
  <2>6. CASE \E batch \in SUBSET Calls : ModelCalls(batch)
    BY <2>6, ModelCallsPreserves
  <2>7. CASE \E c \in Calls, k \in Kinds : RunCall(c, k)
    BY <2>7, RunCallPreserves
  <2> QED
    BY <1>2, <2>1, <2>2, <2>3, <2>4, <2>5, <2>6, <2>7 DEF Pump
<1>3. CASE Tasks
  <2>1. CASE \E c \in Calls : ShellExits(c)
    BY <2>1, ShellExitsPreserves
  <2>2. ASSUME NEW r \in Reporters, ReportPublishes(r)
        PROVE  LoopInvariant'
    BY <2>2, ReportPublishesPreserves
  <2>3. ASSUME NEW r \in Reporters,
               \/ \E c \in Calls, v \in Verdicts : ReportArrives(r, c, v)
               \/ ReportApplies(r) \/ ReportPersists(r)
        PROVE  LoopInvariant'
    BY <2>3, ReportsAreQuiet, QuietPreserves
  <2> QED
    BY <1>3, <2>1, <2>2, <2>3 DEF Tasks
<1>4. CASE Crash
  BY <1>4, CrashPreserves
<1>5. CASE \E cleared \in BOOLEAN : Restore(cleared)
  BY <1>5, RestorePreserves
<1>6. CASE UNCHANGED loopVars
  BY <1>6 DEF loopVars, LoopInvariant, LoopShape, TasksInOrder, CallsInOrder,
              ReportsAreOfTasks, ReplayInOrder, ExecutedInOrder, RanConsumed, Consumed,
              ApprovedOnce, Hosted
<1> QED
  BY <1>1, <1>2, <1>3, <1>4, <1>5, <1>6 DEF LoopNext

\* For every number of calls, reporters, stops and crashes and every limit: an
\* approved call whose consumption was committed runs at most once, whatever
\* parks, reports and restores come in between (the replay queue of _apump_turn).
THEOREM ReplayedOnce == LoopSpec => []ApprovedOnce
<1>1. LoopInvariant => ApprovedOnce
  BY DEF LoopInvariant
<1> QED
  BY <1>1, LoopInitOK, LoopNextOK, PTL DEF LoopSpec
-----------------------------------------------------------------------------
(***************************************************************************)
(* The conversation: nothing that was acknowledged is lost, what the model *)
(* is sent is well-formed, and a close is honest.  The invariant says of   *)
(* the live session and of the stored one what they hold (SessionFits) and *)
(* what their conversation contains (LogFits).                             *)
(***************************************************************************)

\* What a conversation contains once.
Once == {"result", "task"} \X Calls

\* Parks that the driver has to act on after a restart too.
Unsettled == {"turn_failed", "paused", "interrupted"}

\* Every result of a hosted task that was published is still to be delivered, or
\* before the model.
ReadyIsHeld(l) == \A c \in Hosted : c \in l.ready => Held(l, c)

\* A task is published once, so it is queued once.
TasksOnce(l) ==
    \A c \in Calls :
        /\ c \in l.queue => c \notin l.delivered
        /\ kind[c] = "shell" /\ l.tasks[c] = "running" =>
              c \notin l.queue /\ c \notin l.ready /\ c \notin l.delivered

\* Observations come from calls that ran and from tasks that were delivered.
ObservationsAreKnown(l) ==
    \A c \in Calls :
        /\ <<"task", c>> \in l.pending \/ Logged(l, <<"task", c>>) => c \in l.delivered
        /\ <<"result", c>> \in l.pending \/ Logged(l, <<"result", c>>) => kind[c] # None

\* The turn is over: the model or run.finish ended it and nothing is unsent.
TurnIsOver(l) ==
    /\ ~l.input
    /\ \A c \in Calls : <<"result", c>> \notin l.pending
    /\ l.log.last = "answer" \/ (l.finish /\ l.log.last = "results")

\* A run whose status says completed is not over its budget, and a park of it is
\* one the driver has to act on, or the end of a turn.
ParkFits(l) ==
    l.status = "completed" =>
        /\ ~l.spent /\ ~l.terminal
        /\ l.park # None /\ l.park \notin Unsettled => TurnIsOver(l)

SessionFits(l) ==
    /\ l \in Sessions
    /\ "stranded" \notin history.lapses => ReadyIsHeld(l)
    /\ TasksOnce(l) /\ ObservationsAreKnown(l)
    /\ ParkFits(l)

\* The budget cut the batch short, and the run is about to end.
Overrun(l) ==
    l.pc = "tools" /\ l.batch = {} /\ l.spent /\ l.status = "limited" /\ ~l.finish

\* Every call of the conversation has a result, sent or not, or is still to run.
CallsHaveResults(l) ==
    \A c \in Calls : Logged(l, <<"call", c>>) =>
        c \in l.batch \/ <<"result", c>> \in l.pending \/ Logged(l, <<"result", c>>)

\* Nothing was sent twice; between model requests what is pending was not sent.
LogFits(l) ==
    /\ l.log.again \intersect Once = {}
    /\ l.pc # "calling" /\ ~l.terminal => l.pending \intersect l.log.items \intersect Once = {}
    /\ ~l.terminal /\ ~Overrun(l) => CallsHaveResults(l)

\* No stop and no restore left a conversation that does not fit its calls.
Clean == history.lapses \intersect {"stranded", "overrun", "midturn"} = {}

\* What the place of the pump says of the session.
PumpFits(l) ==
    /\ l.pc # "tools" => l.batch = {}
    /\ l.pc \notin {"parked", "closed", "down"} => ~l.terminal /\ l.park = None
    /\ l.pc = "parked" /\ l.park \in Unsettled => l.mark # None
    /\ l.pc \in {"replaying", "replayed"} => l.head \in Calls
    /\ l.pc \in {"calling", "tools", "settling"} => ~l.input
    /\ l.pc = "calling" => l.pending \subseteq l.log.items
    /\ l.pc = "tools" /\ l.batch = {} /\ l.status = "completed" => l.pending # {}
    /\ l.pc = "settling" /\ l.status = "completed" =>
          \/ l.pending = {} /\ l.log.last = "answer"
          \/ l.pending # {} /\ l.finish

\* What a reporter has done to its task.
ReportsFit ==
    /\ loop.pc = "down" => \A r \in Reporters : reports[r].pc = "idle"
    /\ \A r \in Reporters :
          /\ reports[r].pc # "idle" => reports[r].verdict \in Verdicts
          /\ reports[r].pc = "publish" => loop.tasks[reports[r].call] \in Verdicts
          /\ reports[r].pc = "persist" /\ reports[r].first => reports[r].call \in loop.ready

\* What was acknowledged is published, in the checkpoint too.
AcksFit ==
    /\ history.acked \subseteq Hosted
    /\ Live => history.acked \subseteq loop.ready
    /\ loop.pc # "closed" /\ history.acked # {} => store # None /\ history.acked \subseteq store.ready

\* The stored session; a checkpoint taken inside a turn need not fit its calls.
StoreFits ==
    store # None =>
        /\ SessionFits(store)
        /\ Clean /\ store.pc \notin {"calling", "tools"} => LogFits(store)

ConversationInv ==
    /\ SessionFits(loop) /\ PumpFits(loop)
    /\ Clean => LogFits(loop)
    /\ StoreFits
    /\ ReportsFit /\ AcksFit
    /\ loop.pc # "closed" => history.over = None
    /\ HonestClose

-----------------------------------------------------------------------------
(* Checkpoints and parks *)

\* A session is a record, and None is not one.
LEMMA SessionIsRecord ==
    ASSUME NEW l \in Sessions
    PROVE  /\ DOMAIN l = SessionFields /\ l # None
           /\ l.log \in Logs /\ l.pending \subseteq Observations
           /\ l.ready \subseteq Calls /\ l.queue \subseteq Calls /\ l.delivered \subseteq Calls
           /\ l.batch \subseteq Calls
           /\ l.tasks \in [Calls -> {"none", "running", "exited"} \union Verdicts]
<1>1. l # None
  BY NoneAssumption
<1> QED
  BY <1>1 DEF Sessions, SessionFields

\* What a checkpoint keeps of a session (snapshot).
LEMMA CheckpointIs ==
    ASSUME NEW m \in Sessions
    PROVE  /\ Checkpoint(m) \in Sessions
           /\ Checkpoint(m).pc = m.pc /\ Checkpoint(m).log = m.log
           /\ Checkpoint(m).pending = m.pending /\ Checkpoint(m).input = m.input
           /\ Checkpoint(m).status = m.status /\ Checkpoint(m).spent = m.spent
           /\ Checkpoint(m).terminal = m.terminal /\ Checkpoint(m).park = m.park
           /\ Checkpoint(m).finish = m.finish /\ Checkpoint(m).batch = {}
           /\ Checkpoint(m).tasks = [c \in Calls |-> IF c \in Hosted THEN m.tasks[c] ELSE "none"]
           /\ Checkpoint(m).ready = m.ready \intersect Hosted
           /\ Checkpoint(m).queue = m.queue /\ Checkpoint(m).delivered = m.delivered
<1>1. Checkpoint(m) \in Sessions
  <2> DEFINE t == [c \in Calls |-> IF c \in Hosted THEN m.tasks[c] ELSE "none"]
             r == m.ready \intersect Hosted
             q == [m EXCEPT !.mark = None, !.reason = "settled", !.batch = {}, !.head = None]
             p == [q EXCEPT !.interrupt = FALSE, !.pause = FALSE]
  <2>1. t \in [Calls -> {"none", "running", "exited"} \union Verdicts] /\ r \subseteq Calls
    BY SessionIsRecord
  <2>2. q \in Sessions
    BY DEF Sessions, Reasons
  <2> HIDE DEF q
  <2>3. p \in Sessions
    BY <2>2 DEF Sessions
  <2> HIDE DEF p
  <2> HIDE DEF t, r
  <2>4. [p EXCEPT !.tasks = t, !.ready = r] \in Sessions
    BY <2>1, <2>3 DEF Sessions
  <2>5. Checkpoint(m) = [p EXCEPT !.tasks = t, !.ready = r]
    BY DEF Checkpoint, p, q, t, r
  <2> QED
    BY <2>4, <2>5
<1> QED
  BY <1>1, SessionIsRecord DEF Checkpoint, SessionFields

\* A checkpoint of a session that fits does, and keeps what is held.
LEMMA CheckpointFits ==
    ASSUME NEW m \in Sessions, TasksOnce(m), ObservationsAreKnown(m), ParkFits(m)
    PROVE  /\ Checkpoint(m) \in Sessions /\ Checkpoint(m) # None
           /\ TasksOnce(Checkpoint(m)) /\ ObservationsAreKnown(Checkpoint(m))
           /\ ParkFits(Checkpoint(m))
           /\ ReadyIsHeld(m) => ReadyIsHeld(Checkpoint(m))
           /\ LogFits(m) /\ PumpFits(m) /\ m.pc # "tools" => LogFits(Checkpoint(m))
<1> DEFINE s == Checkpoint(m)
<1>1. /\ s \in Sessions
      /\ s.pc = m.pc /\ s.log = m.log /\ s.pending = m.pending /\ s.input = m.input
      /\ s.status = m.status /\ s.spent = m.spent /\ s.terminal = m.terminal
      /\ s.park = m.park /\ s.finish = m.finish /\ s.batch = {}
      /\ s.tasks = [c \in Calls |-> IF c \in Hosted THEN m.tasks[c] ELSE "none"]
      /\ s.ready = m.ready \intersect Hosted
      /\ s.queue = m.queue /\ s.delivered = m.delivered
  BY CheckpointIs
<1> HIDE DEF s
<1>2. s # None
  BY <1>1, NoneAssumption
<1>3. TasksOnce(s)
  BY <1>1 DEF TasksOnce, Hosted
<1>4. ObservationsAreKnown(s) /\ ParkFits(s)
  BY <1>1 DEF ObservationsAreKnown, ParkFits, TurnIsOver, Logged
<1>5. ReadyIsHeld(m) => ReadyIsHeld(s)
  BY <1>1 DEF ReadyIsHeld, Held, Logged, Hosted
<1>6. ASSUME LogFits(m), PumpFits(m), m.pc # "tools"
      PROVE  LogFits(s)
  BY <1>1, <1>6 DEF LogFits, PumpFits, Overrun, CallsHaveResults, Logged
<1> QED
  BY <1>1, <1>2, <1>3, <1>4, <1>5, <1>6 DEF s

\* A park is the session it parks, and is recorded with the checkpoint it writes.
LEMMA SuspendIs ==
    ASSUME NEW l \in Sessions, NEW reason \in Reasons, Suspend(l, reason)
    PROVE  /\ loop' \in Sessions
           /\ loop'.pc = "parked" /\ loop'.batch = {} /\ loop'.mark = l.mark
           /\ loop'.log = l.log /\ loop'.pending = l.pending /\ loop'.input = l.input
           /\ loop'.status = l.status /\ loop'.spent = l.spent /\ loop'.terminal = l.terminal
           /\ loop'.finish = l.finish /\ loop'.tasks = l.tasks
           /\ loop'.ready = l.ready /\ loop'.queue = l.queue /\ loop'.delivered = l.delivered
           /\ \/ loop'.park = l.park /\ store' = store
              \/ loop'.park = reason /\ store' = Checkpoint(loop')
<1> DEFINE idle  == [l EXCEPT !.pc = "parked", !.reason = reason, !.batch = {}, !.head = None]
           saved == [idle EXCEPT !.park = reason]
<1>0. DOMAIN l = SessionFields
  BY SessionIsRecord
<1>1. idle \in Sessions /\ saved \in Sessions
  BY DEF Sessions, Pcs
<1>2. /\ idle.pc = "parked" /\ idle.batch = {} /\ idle.mark = l.mark
      /\ idle.log = l.log /\ idle.pending = l.pending /\ idle.input = l.input
      /\ idle.status = l.status /\ idle.spent = l.spent /\ idle.terminal = l.terminal
      /\ idle.finish = l.finish /\ idle.tasks = l.tasks /\ idle.park = l.park
      /\ idle.ready = l.ready /\ idle.queue = l.queue /\ idle.delivered = l.delivered
  BY <1>0 DEF SessionFields
<1>3. /\ saved.pc = "parked" /\ saved.batch = {} /\ saved.mark = l.mark
      /\ saved.log = l.log /\ saved.pending = l.pending /\ saved.input = l.input
      /\ saved.status = l.status /\ saved.spent = l.spent /\ saved.terminal = l.terminal
      /\ saved.finish = l.finish /\ saved.tasks = l.tasks /\ saved.park = reason
      /\ saved.ready = l.ready /\ saved.queue = l.queue /\ saved.delivered = l.delivered
  BY <1>0 DEF SessionFields
<1>4. \/ loop' = idle /\ store' = store
      \/ loop' = saved /\ store' = Checkpoint(saved)
  BY DEF Suspend
<1> HIDE DEF idle, saved
<1> QED
  BY <1>1, <1>2, <1>3, <1>4
-----------------------------------------------------------------------------
(* What every step that runs no call has to show *)

\* The observations a step makes: no lapse is forgotten, the run is not over.
Observes ==
    /\ history.lapses \subseteq history'.lapses
    /\ history'.over = history.over

\* A step of a live session that runs no call fits if the session it leaves does,
\* and if what it stores is a checkpoint of that session.
LEMMA StepFits ==
    ASSUME ConversationInv, Live, Live', loop'.pc # "down", kind' = kind, Observes,
           store' = store \/ store' = Checkpoint(loop'),
           loop' \in Sessions, TasksOnce(loop'), ObservationsAreKnown(loop'), ParkFits(loop'),
           "stranded" \notin history'.lapses => ReadyIsHeld(loop'),
           Clean' => LogFits(loop'), PumpFits(loop'), ReportsFit',
           history.acked \subseteq history'.acked,
           history'.acked \subseteq Hosted \intersect loop'.ready,
           history'.acked = history.acked \/ store' = Checkpoint(loop')
    PROVE  ConversationInv'
<1> USE DEF ConversationInv
<1>1. Hosted' = Hosted
  BY DEF Hosted
<1>2. /\ Clean' => Clean
      /\ "stranded" \notin history'.lapses => "stranded" \notin history.lapses
  BY DEF Observes, Clean
<1>3. SessionFits(loop)'
  BY <1>1 DEF SessionFits, TasksOnce, ObservationsAreKnown, ParkFits, TurnIsOver, ReadyIsHeld,
              Held, Logged
<1>4. PumpFits(loop)' /\ (Clean' => LogFits(loop)')
  BY DEF PumpFits, LogFits, CallsHaveResults, Overrun, Logged
<1>5. CASE store' = store
  <2>1. StoreFits'
    BY <1>1, <1>2, <1>5
       DEF StoreFits, SessionFits, TasksOnce, ObservationsAreKnown, ParkFits, TurnIsOver,
           ReadyIsHeld, Held, Logged, LogFits, CallsHaveResults, Overrun
  <2>2. CASE history'.acked = history.acked
    BY <1>1, <1>3, <1>4, <1>5, <2>1, <2>2 DEF AcksFit, HonestClose, Observes, Live
  <2>3. CASE store' = Checkpoint(loop')
    <3>1. Checkpoint(loop') # None /\ Checkpoint(loop').ready = loop'.ready \intersect Hosted
      BY CheckpointFits, CheckpointIs
    <3> QED
      BY <1>1, <1>3, <1>4, <1>5, <2>1, <2>3, <3>1 DEF AcksFit, HonestClose, Observes, Live
  <2> QED
    BY <2>2, <2>3
<1>6. CASE store' = Checkpoint(loop')
  <2>1. /\ store' \in Sessions /\ store' # None
        /\ TasksOnce(store') /\ ObservationsAreKnown(store') /\ ParkFits(store')
        /\ ReadyIsHeld(loop') => ReadyIsHeld(store')
        /\ LogFits(loop') /\ loop'.pc # "tools" => LogFits(store')
        /\ store'.pc = loop'.pc /\ store'.ready = loop'.ready \intersect Hosted
    BY <1>6, CheckpointFits, CheckpointIs
  <2>2. SessionFits(store)'
    BY <1>1, <2>1 DEF SessionFits, TasksOnce, ObservationsAreKnown, ParkFits, TurnIsOver,
                      ReadyIsHeld, Held, Logged
  <2>3. Clean' /\ store'.pc \notin {"calling", "tools"} => LogFits(store)'
    BY <2>1 DEF LogFits, CallsHaveResults, Overrun, Logged
  <2>4. StoreFits'
    BY <2>2, <2>3 DEF StoreFits
  <2>5. AcksFit'
    BY <1>1, <2>1 DEF AcksFit
  <2> QED
    BY <1>3, <1>4, <2>4, <2>5 DEF HonestClose, Observes, Live
<1> QED
  BY <1>5, <1>6

\* What the log of a session is between turns.
LogIsSettled(l) ==
    /\ l.log.again \intersect Once = {}
    /\ ~l.terminal =>
          /\ l.pending \intersect l.log.items \intersect Once = {}
          /\ \A c \in Calls : Logged(l, <<"call", c>>) =>
                <<"result", c>> \in l.pending \/ Logged(l, <<"result", c>>)

\* The same for a step that parks session l.
LEMMA ParkStepFits ==
    ASSUME LoopInvariant, ConversationInv, Live, UNCHANGED <<reports, kind>>, Observes,
           history'.acked = history.acked,
           NEW l \in Sessions, NEW reason \in Reasons, Suspend(l, reason),
           l.tasks = loop.tasks, l.ready = loop.ready, l.queue = loop.queue,
           l.delivered = loop.delivered,
           ObservationsAreKnown(l),
           "stranded" \notin history'.lapses => ReadyIsHeld(l),
           Clean' => LogIsSettled(l),
           l.status = "completed" =>
              /\ ~l.spent /\ ~l.terminal /\ l.park = None
              /\ reason \notin Unsettled => TurnIsOver(l),
           reason \in Unsettled \/ l.park \in Unsettled => l.mark # None
    PROVE  ConversationInv'
<1> USE DEF ConversationInv
<1>1. /\ loop' \in Sessions
      /\ loop'.pc = "parked" /\ loop'.batch = {} /\ loop'.mark = l.mark
      /\ loop'.log = l.log /\ loop'.pending = l.pending /\ loop'.input = l.input
      /\ loop'.status = l.status /\ loop'.spent = l.spent /\ loop'.terminal = l.terminal
      /\ loop'.finish = l.finish /\ loop'.tasks = l.tasks
      /\ loop'.ready = l.ready /\ loop'.queue = l.queue /\ loop'.delivered = l.delivered
      /\ \/ loop'.park = l.park /\ store' = store
         \/ loop'.park = reason /\ store' = Checkpoint(loop')
  BY SuspendIs
<1>2. Live' /\ loop'.pc # "down"
  BY <1>1 DEF Live
<1>3. TasksOnce(loop')
  BY <1>1 DEF SessionFits, TasksOnce
<1>4. ObservationsAreKnown(loop')
  BY <1>1 DEF ObservationsAreKnown, Logged
<1>5. ParkFits(loop')
  BY <1>1 DEF ParkFits, TurnIsOver
<1>6. "stranded" \notin history'.lapses => ReadyIsHeld(loop')
  BY <1>1 DEF ReadyIsHeld, Held, Logged
<1>7. Clean' => LogFits(loop')
  BY <1>1 DEF LogFits, LogIsSettled, CallsHaveResults, Logged
<1>8. PumpFits(loop')
  BY <1>1 DEF PumpFits
<1>9. ReportsFit'
  BY <1>1 DEF ReportsFit
<1>10. history'.acked \subseteq Hosted \intersect loop'.ready
  BY <1>1 DEF AcksFit
<1> QED
  BY <1>1, <1>2, <1>3, <1>4, <1>5, <1>6, <1>7, <1>8, <1>9, <1>10, StepFits
-----------------------------------------------------------------------------
(* The driver and the stops *)

\* The driver starts the pump on a new message or on what it was parked for.
LEMMA SubmitFits ==
    ASSUME LoopInvariant, ConversationInv, Submit \/ Resume
    PROVE  ConversationInv'
<1> USE DEF ConversationInv
<1>0. DOMAIN loop = SessionFields /\ loop \in Sessions
  BY SessionIsRecord DEF SessionFits
<1>1. loop' \in Sessions
  <2> DEFINE q == [loop EXCEPT !.pc = "top", !.park = None, !.mark = None, !.status = "completed"]
             p == [q EXCEPT !.spent = FALSE, !.retries = 0, !.finish = FALSE, !.interrupt = FALSE]
  <2>1. q \in Sessions
    BY <1>0 DEF Sessions, Pcs
  <2> HIDE DEF q
  <2>2. p \in Sessions
    BY <2>1 DEF Sessions
  <2> HIDE DEF p
  <2>3. [p EXCEPT !.pause = FALSE, !.input = TRUE, !.step = 0] \in Sessions
    BY <2>2 DEF Sessions
  <2>4. CASE Submit
    BY <2>3, <2>4 DEF Submit, p, q
  <2>5. CASE Resume
    BY <1>0, <2>5 DEF Resume, Sessions, Pcs
  <2> QED
    BY <2>4, <2>5
<1>2. /\ loop.pc = "parked" /\ ~loop.terminal /\ UNCHANGED <<store, reports, kind>>
      /\ history'.lapses = history.lapses /\ history'.over = history.over
      /\ history'.acked = history.acked
  BY DEF Submit, Resume, LoopInvariant, LoopShape, HistoryFields
<1>3. /\ loop'.pc = "top" /\ loop'.batch = loop.batch /\ loop'.log = loop.log
      /\ loop'.pending = loop.pending /\ loop'.terminal = loop.terminal /\ loop'.park = None
      /\ loop'.tasks = loop.tasks /\ loop'.ready = loop.ready /\ loop'.queue = loop.queue
      /\ loop'.delivered = loop.delivered
  <2>1. CASE Submit
    BY <1>0, <2>1 DEF Submit, SessionFields
  <2>2. CASE Resume
    BY <1>0, <2>2 DEF Resume, SessionFields
  <2> QED
    BY <2>1, <2>2
<1>4. loop'.status = "completed" => ~loop'.spent
  BY <1>0, <1>2 DEF Submit, Resume, SessionFields, SessionFits, ParkFits
<1>5. Live /\ Live' /\ loop'.pc # "down" /\ Observes
  BY <1>2, <1>3 DEF Live, Observes
<1>6. TasksOnce(loop') /\ ObservationsAreKnown(loop') /\ ParkFits(loop')
  BY <1>2, <1>3, <1>4 DEF SessionFits, TasksOnce, ObservationsAreKnown, ParkFits, Logged
<1>7. "stranded" \notin history'.lapses => ReadyIsHeld(loop')
  BY <1>2, <1>3 DEF SessionFits, ReadyIsHeld, Held, Logged
<1>8. Clean' => LogFits(loop')
  BY <1>2, <1>3 DEF Clean, LogFits, CallsHaveResults, Overrun, Logged
<1>9. PumpFits(loop') /\ ReportsFit'
  BY <1>2, <1>3 DEF PumpFits, ReportsFit
<1>10. history'.acked \subseteq Hosted \intersect loop'.ready
  BY <1>2, <1>3, <1>5 DEF AcksFit
<1> QED
  BY <1>1, <1>2, <1>5, <1>6, <1>7, <1>8, <1>9, <1>10, StepFits

\* The session of a step that leaves it alone.
LEMMA SameSessionFits ==
    ASSUME LoopInvariant, ConversationInv, Live, UNCHANGED <<loop, kind>>, Observes, ReportsFit',
           store' \in {store, Checkpoint(loop)},
           history.acked \subseteq history'.acked,
           history'.acked \subseteq Hosted \intersect loop.ready,
           history'.acked = history.acked \/ store' = Checkpoint(loop)
    PROVE  ConversationInv'
<1> USE DEF ConversationInv
<1>1. Live' /\ loop.pc # "down" /\ store' \in {store, Checkpoint(loop')}
  BY DEF Live
<1>2. /\ loop' \in Sessions /\ TasksOnce(loop') /\ ObservationsAreKnown(loop') /\ ParkFits(loop')
      /\ "stranded" \notin history'.lapses => ReadyIsHeld(loop')
      /\ Clean' => LogFits(loop')
      /\ PumpFits(loop')
  BY DEF SessionFits, Observes, Clean
<1> QED
  BY <1>1, <1>2, StepFits

\* The driver's own checkpoint is one of the parked session.
LEMMA PersistParkFits ==
    ASSUME LoopInvariant, ConversationInv, PersistPark
    PROVE  ConversationInv'
<1> USE DEF ConversationInv
<1>1. Live /\ UNCHANGED <<loop, kind>> /\ store' \in {store, Checkpoint(loop)}
  BY DEF PersistPark, Live, Persisted
<1>2. UNCHANGED <<history, reports>>
  BY DEF PersistPark
<1>3. Observes /\ ReportsFit' /\ history'.acked \subseteq Hosted \intersect loop.ready
  BY <1>1, <1>2 DEF Observes, ReportsFit, AcksFit
<1> QED
  BY <1>1, <1>2, <1>3, SameSessionFits

\* A request to stop changes no part of the session that the invariant speaks of.
LEMMA StopRequestFits ==
    ASSUME LoopInvariant, ConversationInv,
           Interrupt \/ Pause \/ \E cause \in {"user", "drain"} : Cancel(cause)
    PROVE  ConversationInv'
<1> USE DEF ConversationInv
<1>0. DOMAIN loop = SessionFields /\ loop \in Sessions
  BY SessionIsRecord DEF SessionFits
<1>1. PICK l : /\ StopRequest(l)
               /\ \/ l = [loop EXCEPT !.interrupt = TRUE]
                  \/ l = [loop EXCEPT !.pause = TRUE]
                  \/ \E cause \in {"user", "drain"} : l = [loop EXCEPT !.cancel = cause]
  BY DEF Interrupt, Pause, Cancel
<1>2. l \in Sessions
  <2>1. CASE l = [loop EXCEPT !.interrupt = TRUE]
    BY <1>0, <2>1 DEF Sessions
  <2>2. CASE l = [loop EXCEPT !.pause = TRUE]
    BY <1>0, <2>2 DEF Sessions
  <2>3. ASSUME NEW cause \in {"user", "drain"}, l = [loop EXCEPT !.cancel = cause]
        PROVE  l \in Sessions
    <3>1. loop.cancel \in {None, "user", "drain"} /\ cause \in {None, "user", "drain"}
      BY <1>0 DEF Sessions
    <3> QED
      BY <1>0, <2>3, <3>1 DEF Sessions
  <2> QED
    BY <1>1, <2>1, <2>2, <2>3
<1>3. /\ l.pc = loop.pc /\ l.batch = loop.batch /\ l.log = loop.log /\ l.head = loop.head
      /\ l.pending = loop.pending /\ l.terminal = loop.terminal /\ l.park = loop.park
      /\ l.tasks = loop.tasks /\ l.ready = loop.ready /\ l.queue = loop.queue
      /\ l.delivered = loop.delivered /\ l.status = loop.status /\ l.spent = loop.spent
      /\ l.input = loop.input /\ l.finish = loop.finish /\ l.mark = loop.mark
  BY <1>0, <1>1 DEF SessionFields
<1>4. /\ Live /\ loop' = l /\ UNCHANGED <<store, reports, kind>>
      /\ history'.lapses = history.lapses /\ history'.over = history.over
      /\ history'.acked = history.acked
  BY <1>1 DEF StopRequest, LoopInvariant, LoopShape, HistoryFields
<1>5. Live' /\ loop'.pc # "down" /\ Observes
  BY <1>3, <1>4 DEF Live, Observes
<1>6. TasksOnce(loop') /\ ObservationsAreKnown(loop') /\ ParkFits(loop')
  BY <1>3, <1>4 DEF SessionFits, TasksOnce, ObservationsAreKnown, ParkFits, TurnIsOver, Logged
<1>7. "stranded" \notin history'.lapses => ReadyIsHeld(loop')
  BY <1>3, <1>4 DEF SessionFits, ReadyIsHeld, Held, Logged
<1>8. Clean' => LogFits(loop')
  BY <1>3, <1>4 DEF Clean, LogFits, CallsHaveResults, Overrun, Logged
<1>9. PumpFits(loop') /\ ReportsFit'
  BY <1>3, <1>4 DEF PumpFits, ReportsFit
<1>10. history'.acked \subseteq Hosted \intersect loop'.ready
  BY <1>3, <1>4 DEF AcksFit
<1> QED
  BY <1>2, <1>4, <1>5, <1>6, <1>7, <1>8, <1>9, <1>10, StepFits

\* Giving up ends the run as failed.
LEMMA GiveUpFits ==
    ASSUME LoopInvariant, ConversationInv, GiveUp
    PROVE  ConversationInv'
<1> USE DEF ConversationInv
<1> DEFINE l == [loop EXCEPT !.status = "failed", !.spent = FALSE, !.terminal = TRUE]
<1>0. DOMAIN loop = SessionFields /\ loop \in Sessions
  BY SessionIsRecord DEF SessionFits
<1>1. l \in Sessions
  BY <1>0 DEF Sessions
<1>2. /\ l.tasks = loop.tasks /\ l.ready = loop.ready /\ l.queue = loop.queue
      /\ l.delivered = loop.delivered /\ l.log = loop.log /\ l.pending = loop.pending
      /\ l.mark = loop.mark /\ l.terminal = TRUE /\ l.status = "failed"
  BY <1>0 DEF SessionFields
<1>3. Suspend(l, "terminal") /\ loop.mark # None /\ Live /\ UNCHANGED <<reports, kind, history>>
  BY LoopAssumption DEF GiveUp, Live
<1> HIDE DEF l
<1>4. ObservationsAreKnown(l) /\ ("stranded" \notin history.lapses => ReadyIsHeld(l))
  BY <1>2 DEF SessionFits, ObservationsAreKnown, ReadyIsHeld, Held, Logged
<1>5. Clean => LogIsSettled(l)
  BY <1>2 DEF LogFits, LogIsSettled
<1>6. Observes /\ Clean' = Clean
  BY <1>3 DEF Observes, Clean
<1> QED
  BY <1>1, <1>2, <1>3, <1>4, <1>5, <1>6, ParkStepFits DEF Reasons

\* A run that close records as completed had settled, or was never parked durably.
LEMMA CloseFits ==
    ASSUME LoopInvariant, ConversationInv, Close
    PROVE  ConversationInv'
<1> USE DEF ConversationInv
<1> DEFINE status == IF Promotion = None THEN loop.status ELSE Promotion
           last == [loop EXCEPT !.status = status, !.terminal = TRUE, !.park = "terminal"]
<1>0. DOMAIN loop = SessionFields /\ loop \in Sessions
  BY SessionIsRecord DEF SessionFits
<1>1. /\ Promotion \in {None, "failed", "limited"} /\ None \notin {"failed", "limited"}
      /\ Promotion = None => loop.terminal \/ loop.mark = None
  BY LoopAssumption DEF Promotion
<1>2. status = "completed" => Promotion = None /\ loop.status = "completed"
  BY <1>1
<1>3. status \in {"completed", "limited", "failed"}
  BY <1>0, <1>1 DEF Sessions
<1>4. /\ loop.pc = "parked" /\ loop' = [loop EXCEPT !.pc = "closed", !.status = status]
      /\ store' \in {None, store} \/ (Promotion # None /\ store' = Checkpoint(last))
      /\ UNCHANGED <<reports, kind>>
      /\ history' = [history EXCEPT !.over = loop.park, !.outcome = status]
  BY DEF Close, Persisted
<1> HIDE DEF status
<1>5. loop' \in Sessions
  BY <1>0, <1>3, <1>4 DEF Sessions, Pcs
<1>6. /\ loop'.pc = "closed" /\ loop'.status = status
      /\ loop'.batch = loop.batch /\ loop'.log = loop.log
      /\ loop'.pending = loop.pending /\ loop'.terminal = loop.terminal /\ loop'.park = loop.park
      /\ loop'.tasks = loop.tasks /\ loop'.ready = loop.ready /\ loop'.queue = loop.queue
      /\ loop'.delivered = loop.delivered /\ loop'.spent = loop.spent
      /\ loop'.input = loop.input /\ loop'.finish = loop.finish
  BY <1>0, <1>4 DEF SessionFields
<1>7. /\ history'.lapses = history.lapses /\ history'.acked = history.acked
      /\ history'.over = loop.park /\ history'.outcome = status /\ Hosted' = Hosted
  BY <1>4 DEF LoopInvariant, LoopShape, HistoryFields, Hosted
<1>8. ParkFits(loop')
  BY <1>2, <1>6 DEF SessionFits, ParkFits, TurnIsOver
<1>9. SessionFits(loop)'
  BY <1>4, <1>5, <1>6, <1>7, <1>8
     DEF SessionFits, TasksOnce, ObservationsAreKnown, ParkFits, TurnIsOver, ReadyIsHeld,
         Held, Logged
<1>10. PumpFits(loop)' /\ (Clean' => LogFits(loop)')
  BY <1>4, <1>6, <1>7 DEF PumpFits, Clean, LogFits, CallsHaveResults, Overrun, Logged
<1>11. StoreFits'
  <2>1. CASE store' \in {None, store}
    BY <1>4, <1>7, <2>1
       DEF StoreFits, SessionFits, TasksOnce, ObservationsAreKnown, ParkFits, TurnIsOver,
           ReadyIsHeld, Held, Logged, LogFits, CallsHaveResults, Overrun, Clean
  <2>2. CASE Promotion # None /\ store' = Checkpoint(last)
    <3>1. last \in Sessions
      BY <1>0, <1>3 DEF Sessions, Reasons
    <3>2. /\ last.pc = loop.pc /\ last.status = status /\ last.terminal = TRUE
          /\ last.park = "terminal"
          /\ last.batch = loop.batch /\ last.log = loop.log /\ last.pending = loop.pending
          /\ last.tasks = loop.tasks /\ last.ready = loop.ready /\ last.queue = loop.queue
          /\ last.delivered = loop.delivered
      BY <1>0 DEF SessionFields
    <3> HIDE DEF last
    <3>3. TasksOnce(last) /\ ObservationsAreKnown(last) /\ ParkFits(last)
      BY <1>2, <2>2, <3>2 DEF SessionFits, TasksOnce, ObservationsAreKnown, ParkFits, Logged
    <3>4. "stranded" \notin history.lapses => ReadyIsHeld(last)
      BY <3>2 DEF SessionFits, ReadyIsHeld, Held, Logged
    <3>5. Clean => LogFits(last)
      BY <3>2 DEF LogFits
    <3>6. PumpFits(last) /\ last.pc # "tools"
      BY <1>4, <3>2 DEF PumpFits, Unsettled
    <3>7. /\ store' \in Sessions
          /\ TasksOnce(store') /\ ObservationsAreKnown(store') /\ ParkFits(store')
          /\ "stranded" \notin history.lapses => ReadyIsHeld(store')
          /\ Clean => LogFits(store')
      BY <2>2, <3>1, <3>3, <3>4, <3>5, <3>6, CheckpointFits
    <3> QED
      BY <1>4, <1>7, <3>7
         DEF StoreFits, SessionFits, TasksOnce, ObservationsAreKnown, ParkFits, TurnIsOver,
             ReadyIsHeld, Held, Logged, LogFits, CallsHaveResults, Overrun, Clean
  <2> QED
    BY <1>4, <2>1, <2>2
<1>12. ReportsFit' /\ AcksFit'
  BY <1>4, <1>6, <1>7 DEF ReportsFit, AcksFit, Live
<1>13. HonestClose'
  <2> SUFFICES ASSUME status = "completed", loop.park # None
               PROVE  TurnIsOver(loop)
    BY <1>6, <1>7 DEF HonestClose, TurnIsOver
  <2>1. ParkFits(loop) /\ loop.status = "completed" /\ Promotion = None
    BY <1>2 DEF SessionFits
  <2>2. loop.park \notin Unsettled
    BY <1>1, <1>4, <2>1 DEF ParkFits, PumpFits
  <2> QED
    BY <2>1, <2>2 DEF ParkFits
<1> QED
  BY <1>6, <1>9, <1>10, <1>11, <1>12, <1>13
\* A session the pump works on is not terminal and has no recorded park.
LEMMA PumpIsLive ==
    ASSUME ConversationInv, loop.pc \notin {"parked", "closed", "down"}
    PROVE  /\ Live /\ DOMAIN loop = SessionFields /\ loop \in Sessions
           /\ ~loop.terminal /\ loop.park = None /\ loop.park \notin Unsettled
           /\ loop.status = "completed" => ~loop.spent
<1>1. loop \in Sessions /\ Live /\ ~loop.terminal /\ loop.park = None
  BY DEF ConversationInv, SessionFits, PumpFits, Live
<1>2. loop.status = "completed" => ~loop.spent
  BY DEF ConversationInv, SessionFits, ParkFits
<1> QED
  BY <1>1, <1>2, SessionIsRecord, LoopAssumption DEF Unsettled

\* At a boundary the budget did not just cut the batch short.
LEMMA BoundaryIsNoOverrun ==
    ASSUME AtBoundary
    PROVE  loop.pc \notin {"parked", "closed", "down"} /\ ~Overrun(loop)
BY DEF AtBoundary, Overrun

\* A cancellation that drops no call and finds nothing sent keeps the log.
LEMMA CancelledFits ==
    ASSUME LoopInvariant, ConversationInv, Cancelled
    PROVE  ConversationInv'
<1>0. loop \in Sessions
  BY DEF ConversationInv, SessionFits
<1> USE DEF ConversationInv
<1>1. loop.pc \notin {"parked", "closed", "down"} /\ ~Overrun(loop)
  BY BoundaryIsNoOverrun DEF Cancelled
<1>2. /\ Live /\ DOMAIN loop = SessionFields /\ loop \in Sessions
      /\ ~loop.terminal /\ loop.park = None /\ loop.park \notin Unsettled
      /\ loop.status = "completed" => ~loop.spent
  BY <1>1, PumpIsLive
<1>3. PICK l \in Sessions, reason \in Reasons :
        /\ Suspend(l, reason)
        /\ l.tasks = loop.tasks /\ l.ready = loop.ready /\ l.queue = loop.queue
        /\ l.delivered = loop.delivered /\ l.log = loop.log /\ l.pending = loop.pending
        /\ l.park = loop.park
        /\ \/ /\ reason = "interrupted" /\ l.mark = "interrupted" /\ ~l.spent
              /\ l.terminal = loop.terminal
           \/ reason = "terminal" /\ l.status = "limited" /\ l.terminal = TRUE
  <2>1. CASE loop.cancel = "drain"
    <3> DEFINE l == [loop EXCEPT !.spent = FALSE, !.mark = "interrupted"]
    <3>1. l \in Sessions
      BY <1>0 DEF Sessions
    <3>2. /\ l.tasks = loop.tasks /\ l.ready = loop.ready /\ l.queue = loop.queue
          /\ l.delivered = loop.delivered /\ l.log = loop.log /\ l.pending = loop.pending
          /\ l.park = loop.park
          /\ l.mark = "interrupted" /\ ~l.spent /\ l.terminal = loop.terminal
      BY <1>2 DEF SessionFields
    <3>3. Suspend(l, "interrupted") /\ "interrupted" \in Reasons
      BY <2>1 DEF Cancelled, Reasons
    <3> QED
      BY <3>1, <3>2, <3>3
  <2>2. CASE loop.cancel # "drain"
    <3> DEFINE l == [loop EXCEPT !.spent = FALSE, !.status = "limited", !.terminal = TRUE]
    <3>1. l \in Sessions
      BY <1>0 DEF Sessions
    <3>2. /\ l.tasks = loop.tasks /\ l.ready = loop.ready /\ l.queue = loop.queue
          /\ l.delivered = loop.delivered /\ l.log = loop.log /\ l.pending = loop.pending
          /\ l.park = loop.park
          /\ l.status = "limited" /\ l.terminal = TRUE
      BY <1>2 DEF SessionFields
    <3>3. Suspend(l, "terminal") /\ "terminal" \in Reasons
      BY <2>2 DEF Cancelled, Reasons
    <3> QED
      BY <3>1, <3>2, <3>3
  <2> QED
    BY <2>1, <2>2
<1>4. /\ history'.lapses = Lapsed(Strands(loop.pending), "stranded")
      /\ history'.over = history.over /\ history'.acked = history.acked
      /\ UNCHANGED <<reports, kind>>
  BY DEF Cancelled, LoopInvariant, LoopShape, HistoryFields
<1>5. Observes /\ (Clean' => Clean /\ ~Strands(loop.pending))
  BY <1>4 DEF Observes, Clean, Lapsed
<1>6. ObservationsAreKnown(l)
  BY <1>3 DEF SessionFits, ObservationsAreKnown, Logged
<1>7. "stranded" \notin history'.lapses => ReadyIsHeld(l)
  BY <1>3, <1>5 DEF SessionFits, ReadyIsHeld, Held, Logged, Observes
<1>8. Clean' => LogIsSettled(l)
  <2> SUFFICES ASSUME Clean' PROVE LogIsSettled(l)
    OBVIOUS
  <2>1. loop.batch = {} /\ loop.pending \intersect loop.log.items = {}
    BY <1>5 DEF Strands, Logged
  <2>2. LogFits(loop) /\ CallsHaveResults(loop)
    BY <1>1, <1>2, <1>5 DEF LogFits
  <2> QED
    BY <1>3, <2>1, <2>2 DEF LogIsSettled, LogFits, CallsHaveResults, Logged
<1>9. l.status = "completed" =>
        /\ ~l.spent /\ ~l.terminal /\ l.park = None
        /\ reason \notin Unsettled => TurnIsOver(l)
  BY <1>2, <1>3 DEF Unsettled
<1>10. reason \in Unsettled \/ l.park \in Unsettled => l.mark # None
  BY <1>2, <1>3, LoopAssumption DEF Unsettled
<1> QED
  BY <1>2, <1>3, <1>4, <1>5, <1>6, <1>7, <1>8, <1>9, <1>10, ParkStepFits

\* An interrupt drops what is pending; what was sent is in the log.
LEMMA InterruptedFits ==
    ASSUME LoopInvariant, ConversationInv, Interrupted
    PROVE  ConversationInv'
<1>0. loop \in Sessions
  BY DEF ConversationInv, SessionFits
<1> USE DEF ConversationInv
<1> DEFINE l == [loop EXCEPT !.interrupt = FALSE, !.pending = {}, !.mark = "interrupted"]
<1>1. loop.pc \notin {"parked", "closed", "down"} /\ ~Overrun(loop)
  BY BoundaryIsNoOverrun DEF Interrupted
<1>2. /\ Live /\ DOMAIN loop = SessionFields /\ loop \in Sessions
      /\ ~loop.terminal /\ loop.park = None /\ loop.park \notin Unsettled
      /\ loop.status = "completed" => ~loop.spent
  BY <1>1, PumpIsLive
<1>3. l \in Sessions
  BY <1>0 DEF Sessions
<1>4. /\ l.tasks = loop.tasks /\ l.ready = loop.ready /\ l.queue = loop.queue
      /\ l.delivered = loop.delivered /\ l.log = loop.log /\ l.pending = {}
      /\ l.park = loop.park /\ l.mark = "interrupted" /\ l.status = loop.status
      /\ l.spent = loop.spent /\ l.terminal = loop.terminal
  BY <1>2 DEF SessionFields
<1>5. /\ Suspend(l, "interrupted") /\ "interrupted" \in Reasons /\ "interrupted" \in Unsettled
      /\ UNCHANGED <<reports, kind>>
  BY DEF Interrupted, Reasons, Unsettled
<1>6. /\ history'.lapses = Lapsed(Strands({}), "stranded")
      /\ history'.over = history.over /\ history'.acked = history.acked
  BY DEF Interrupted, LoopInvariant, LoopShape, HistoryFields
<1> HIDE DEF l
<1>7. /\ Observes /\ (Clean' => Clean)
      /\ "stranded" \notin history'.lapses => "stranded" \notin history.lapses /\ ~Strands({})
  BY <1>6 DEF Observes, Clean, Lapsed
<1>8. "stranded" \notin history'.lapses => loop.batch = {} /\ loop.pending \subseteq loop.log.items
  BY <1>7 DEF Strands, Logged
<1>9. ObservationsAreKnown(l)
  BY <1>4 DEF SessionFits, ObservationsAreKnown, Logged
<1>10. "stranded" \notin history'.lapses => ReadyIsHeld(l)
  BY <1>4, <1>7, <1>8 DEF SessionFits, ReadyIsHeld, Held, Logged
<1>11. Clean' => LogIsSettled(l)
  <2> SUFFICES ASSUME Clean' PROVE LogIsSettled(l)
    OBVIOUS
  <2>1. loop.batch = {} /\ loop.pending \subseteq loop.log.items
    BY <1>8 DEF Clean
  <2>2. LogFits(loop) /\ CallsHaveResults(loop)
    BY <1>1, <1>2, <1>7 DEF LogFits
  <2> QED
    BY <1>4, <2>1, <2>2 DEF LogIsSettled, LogFits, CallsHaveResults, Logged
<1>12. l.status = "completed" => ~l.spent /\ ~l.terminal /\ l.park = None
  BY <1>2, <1>4
<1>13. l.mark # None
  BY <1>4, LoopAssumption
<1> QED
  BY <1>2, <1>3, <1>4, <1>5, <1>6, <1>7, <1>9, <1>10, <1>11, <1>12, <1>13, ParkStepFits

\* At the top of a step nothing is sent: a pause and the step limit keep the log.
LEMMA TopStopsFit ==
    ASSUME LoopInvariant, ConversationInv, Paused \/ StepLimit
    PROVE  ConversationInv'
<1>0. loop \in Sessions
  BY DEF ConversationInv, SessionFits
<1> USE DEF ConversationInv
<1>1. loop.pc = "top" /\ UNCHANGED <<reports, kind, history>>
  BY DEF Paused, StepLimit
<1>2. /\ Live /\ DOMAIN loop = SessionFields /\ loop \in Sessions
      /\ ~loop.terminal /\ loop.park = None /\ loop.park \notin Unsettled
      /\ loop.status = "completed" => ~loop.spent
  BY <1>1, PumpIsLive
<1>3. PICK l \in Sessions, reason \in Reasons :
        /\ Suspend(l, reason)
        /\ l.tasks = loop.tasks /\ l.ready = loop.ready /\ l.queue = loop.queue
        /\ l.delivered = loop.delivered /\ l.log = loop.log /\ l.pending = loop.pending
        /\ l.park = loop.park /\ l.terminal = loop.terminal
        /\ \/ reason = "paused" /\ l.mark = "paused" /\ l.spent = loop.spent
              /\ l.status = loop.status
           \/ reason = "limited" /\ l.status = "limited"
  <2>1. CASE Paused
    <3> DEFINE l == [loop EXCEPT !.pause = FALSE, !.mark = "paused"]
    <3>1. l \in Sessions
      BY <1>0 DEF Sessions
    <3>2. /\ l.tasks = loop.tasks /\ l.ready = loop.ready /\ l.queue = loop.queue
          /\ l.delivered = loop.delivered /\ l.log = loop.log /\ l.pending = loop.pending
          /\ l.park = loop.park /\ l.mark = "paused" /\ l.spent = loop.spent
          /\ l.terminal = loop.terminal /\ l.status = loop.status
      BY <1>2 DEF SessionFields
    <3>3. Suspend(l, "paused") /\ "paused" \in Reasons
      BY <2>1 DEF Paused, Reasons
    <3> QED
      BY <3>1, <3>2, <3>3
  <2>2. CASE StepLimit
    <3> DEFINE l == [loop EXCEPT !.status = "limited", !.spent = FALSE]
    <3>1. l \in Sessions
      BY <1>0 DEF Sessions
    <3>2. /\ l.tasks = loop.tasks /\ l.ready = loop.ready /\ l.queue = loop.queue
          /\ l.delivered = loop.delivered /\ l.log = loop.log /\ l.pending = loop.pending
          /\ l.park = loop.park /\ l.status = "limited" /\ l.terminal = loop.terminal
      BY <1>2 DEF SessionFields
    <3>3. Suspend(l, "limited") /\ "limited" \in Reasons
      BY <2>2 DEF StepLimit, Reasons
    <3> QED
      BY <3>1, <3>2, <3>3
  <2> QED
    BY <2>1, <2>2
<1>4. Observes /\ Clean' = Clean
  BY <1>1 DEF Observes, Clean
<1>5. ObservationsAreKnown(l)
  BY <1>3 DEF SessionFits, ObservationsAreKnown, Logged
<1>6. "stranded" \notin history'.lapses => ReadyIsHeld(l)
  BY <1>1, <1>3 DEF SessionFits, ReadyIsHeld, Held, Logged
<1>7. Clean' => LogIsSettled(l)
  BY <1>1, <1>2, <1>3, <1>4
     DEF LogIsSettled, LogFits, PumpFits, CallsHaveResults, Overrun, Logged
<1>8. l.status = "completed" =>
        /\ ~l.spent /\ ~l.terminal /\ l.park = None
        /\ reason \notin Unsettled => TurnIsOver(l)
  BY <1>2, <1>3 DEF Unsettled
<1>9. reason \in Unsettled \/ l.park \in Unsettled => l.mark # None
  BY <1>2, <1>3, LoopAssumption DEF Unsettled
<1> QED
  BY <1>1, <1>2, <1>3, <1>4, <1>5, <1>6, <1>7, <1>8, <1>9, ParkStepFits
-----------------------------------------------------------------------------
(* One step of the pump *)

\* What is popped from the queue was not delivered before, so it is new to the log.
LEMMA BeginStepFits ==
    ASSUME LoopInvariant, ConversationInv, BeginStep
    PROVE  ConversationInv'
<1>0. loop \in Sessions
  BY DEF ConversationInv, SessionFits
<1> USE DEF ConversationInv
<1>1. loop.pc = "top" /\ UNCHANGED <<store, reports, kind, history>>
  BY DEF BeginStep
<1>2. /\ Live /\ DOMAIN loop = SessionFields /\ ~loop.terminal /\ loop.park = None
      /\ loop.status = "completed" => ~loop.spent
  BY <1>1, PumpIsLive
<1> DEFINE popped == loop.queue \union (loop.ready \ loop.delivered)
           known  == {c \in popped : loop.tasks[c] # "none"}
           again  == {c \in known : loop.tasks[c] = "approved"}
<1>3. /\ known \subseteq Calls /\ again \subseteq Calls
      /\ \A c \in known : c \notin loop.delivered
      /\ \A c \in known : c \in loop.queue \/ c \in loop.ready
  BY <1>0, SessionIsRecord DEF SessionFits, TasksOnce
<1>4. \A c \in Hosted : c \in loop.ready /\ c \notin loop.delivered /\ loop.tasks[c] \in Verdicts =>
         c \in known
  BY DEF Verdicts
<1>5. loop' = [loop EXCEPT !.pc = "replays", !.step = @ + 1, !.queue = {},
                           !.delivered = @ \union known,
                           !.pending = @ \union ({"task"} \X known),
                           !.replays = @ \union again]
  BY DEF BeginStep
<1> HIDE DEF popped, known, again
<1>6. loop' \in Sessions
  <2> DEFINE q == [loop EXCEPT !.pc = "replays", !.step = @ + 1, !.queue = {}]
  <2>1. q \in Sessions
    <3>1. loop.step + 1 \in Nat
      BY <1>0 DEF Sessions
    <3> QED
      BY <1>0, <3>1 DEF Sessions, Pcs
  <2> HIDE DEF q
  <2>2. /\ q.delivered \union known \subseteq Calls /\ q.replays \union again \subseteq Calls
        /\ q.pending \union ({"task"} \X known) \subseteq Observations
    BY <1>3, <2>1 DEF Sessions, Observations
  <2>3. [q EXCEPT !.delivered = @ \union known, !.pending = @ \union ({"task"} \X known),
                  !.replays = @ \union again] \in Sessions
    BY <2>1, <2>2 DEF Sessions
  <2> QED
    BY <1>5, <2>3 DEF q
<1>7. /\ loop'.pc = "replays" /\ loop'.queue = {} /\ loop'.delivered = loop.delivered \union known
      /\ loop'.pending = loop.pending \union ({"task"} \X known)
      /\ loop'.batch = loop.batch /\ loop'.log = loop.log /\ loop'.terminal = loop.terminal
      /\ loop'.park = loop.park /\ loop'.tasks = loop.tasks /\ loop'.ready = loop.ready
      /\ loop'.status = loop.status /\ loop'.spent = loop.spent
  BY <1>2, <1>5 DEF SessionFields
<1>8. /\ \A c \in Calls : <<"task", c>> \in loop'.pending <=>
                             <<"task", c>> \in loop.pending \/ c \in known
      /\ \A c \in Calls : <<"result", c>> \in loop'.pending <=> <<"result", c>> \in loop.pending
  BY <1>7
<1>9. Live' /\ loop'.pc # "down" /\ Observes /\ Clean' = Clean
  BY <1>1, <1>7 DEF Live, Observes, Clean
<1>10. TasksOnce(loop')
  BY <1>3, <1>7 DEF SessionFits, TasksOnce
<1>11. ObservationsAreKnown(loop') /\ ParkFits(loop')
  BY <1>2, <1>7, <1>8 DEF SessionFits, ObservationsAreKnown, ParkFits, Logged
<1>12. "stranded" \notin history'.lapses => ReadyIsHeld(loop')
  <2> SUFFICES ASSUME "stranded" \notin history.lapses, NEW c \in Hosted, c \in loop.ready
               PROVE  Held(loop', c)
    BY <1>1, <1>7 DEF ReadyIsHeld
  <2>1. Held(loop, c)
    BY DEF SessionFits, ReadyIsHeld
  <2> QED
    BY <1>4, <1>7, <1>8, <2>1 DEF Held, Logged, Hosted
<1>13. Clean => LogFits(loop')
  <2> SUFFICES ASSUME Clean PROVE LogFits(loop')
    OBVIOUS
  <2>1. /\ loop.log.again \intersect Once = {} /\ CallsHaveResults(loop)
        /\ loop.pending \intersect loop.log.items \intersect Once = {}
    BY <1>1, <1>2 DEF LogFits, Overrun
  <2>2. ({"task"} \X known) \intersect loop.log.items = {}
    <3>1. \A c \in known : <<"task", c>> \notin loop.log.items
      BY <1>3 DEF SessionFits, ObservationsAreKnown, Logged
    <3> HIDE DEF ConversationInv
    <3> QED
      BY <3>1
  <2>3. loop'.pending \intersect loop'.log.items \intersect Once = {}
    BY <1>7, <2>1, <2>2
  <2>4. CallsHaveResults(loop')
    BY <1>7, <1>8, <2>1 DEF CallsHaveResults, Logged
  <2> QED
    BY <1>7, <2>1, <2>3, <2>4 DEF LogFits
<1>14. PumpFits(loop') /\ ReportsFit'
  BY <1>1, <1>2, <1>7 DEF PumpFits, ReportsFit
<1>15. history'.acked \subseteq Hosted \intersect loop'.ready
  BY <1>1, <1>2, <1>7 DEF AcksFit
<1> QED
  BY <1>1, <1>2, <1>6, <1>9, <1>10, <1>11, <1>12, <1>13, <1>14, <1>15, StepFits

\* A replay touches neither the log nor what is pending of results and tasks.
LEMMA ReplayStepFits ==
    ASSUME LoopInvariant, ConversationInv,
           loop.pc \in {"replays", "replaying", "replayed"},
           loop'.pc \in {"replays", "replaying", "replayed"},
           loop' \in Sessions, UNCHANGED <<reports, kind>>, Observes, history'.acked = history.acked,
           store' = store \/ store' = Checkpoint(loop'),
           loop'.log = loop.log, loop'.pending \intersect Once = loop.pending \intersect Once,
           loop'.batch = loop.batch, loop'.tasks = loop.tasks, loop'.ready = loop.ready,
           loop'.queue = loop.queue, loop'.delivered = loop.delivered,
           loop'.status = loop.status, loop'.spent = loop.spent,
           loop'.terminal = loop.terminal, loop'.park = loop.park,
           loop'.pc = "replays" \/ loop'.head \in Calls
    PROVE  ConversationInv'
<1> USE DEF ConversationInv
<1>1. /\ Live /\ ~loop.terminal /\ loop.park = None
      /\ loop.status = "completed" => ~loop.spent
  BY PumpIsLive
<1>2. Live' /\ loop'.pc # "down" /\ (Clean' => Clean)
  BY DEF Live, Observes, Clean
<1>3. \A c \in Calls : /\ <<"task", c>> \in loop'.pending <=> <<"task", c>> \in loop.pending
                       /\ <<"result", c>> \in loop'.pending <=> <<"result", c>> \in loop.pending
  <2> SUFFICES ASSUME NEW c \in Calls
               PROVE  /\ <<"task", c>> \in loop'.pending <=> <<"task", c>> \in loop.pending
                      /\ <<"result", c>> \in loop'.pending <=> <<"result", c>> \in loop.pending
    OBVIOUS
  <2>1. <<"task", c>> \in Once /\ <<"result", c>> \in Once
    BY DEF Once
  <2> HIDE DEF ConversationInv
  <2> QED
    BY <2>1
<1>4. TasksOnce(loop')
  BY DEF SessionFits, TasksOnce
<1>5. ObservationsAreKnown(loop')
  BY <1>3 DEF SessionFits, ObservationsAreKnown, Logged
<1>6. ParkFits(loop')
  BY <1>1 DEF ParkFits, PumpFits, SessionFits
<1>7. "stranded" \notin history'.lapses => ReadyIsHeld(loop')
  BY <1>3 DEF SessionFits, ReadyIsHeld, Held, Logged, Hosted, Observes
<1>8. Clean' => LogFits(loop')
  BY <1>1, <1>2, <1>3 DEF LogFits, CallsHaveResults, Overrun, Logged
<1>9. PumpFits(loop') /\ ReportsFit'
  BY <1>1 DEF PumpFits, ReportsFit
<1>10. history'.acked \subseteq Hosted \intersect loop'.ready
  BY <1>1 DEF AcksFit
<1> QED
  BY <1>1, <1>2, <1>4, <1>5, <1>6, <1>7, <1>8, <1>9, <1>10, StepFits

LEMMA ConsumeReplayFits ==
    ASSUME LoopInvariant, ConversationInv, NEW c \in Calls, ConsumeReplay(c)
    PROVE  ConversationInv'
<1>0. loop \in Sessions /\ DOMAIN loop = SessionFields
  BY SessionIsRecord DEF ConversationInv, SessionFits
<1>1. /\ loop.pc = "replays" /\ UNCHANGED <<reports, kind>>
      /\ loop' = [loop EXCEPT !.pc = "replaying", !.replays = @ \ {c}, !.head = c]
      /\ store' = store \/ store' = Checkpoint(loop')
  BY DEF ConsumeReplay, Persisted
<1>2. /\ loop'.pc = "replaying" /\ loop'.head = c
      /\ loop'.log = loop.log /\ loop'.pending = loop.pending
      /\ loop'.batch = loop.batch /\ loop'.tasks = loop.tasks /\ loop'.ready = loop.ready
      /\ loop'.queue = loop.queue /\ loop'.delivered = loop.delivered
      /\ loop'.status = loop.status /\ loop'.spent = loop.spent
      /\ loop'.terminal = loop.terminal /\ loop'.park = loop.park
  BY <1>0, <1>1 DEF SessionFields
<1>3. loop' \in Sessions
  BY <1>0, <1>1 DEF Sessions, Pcs
<1>4. Observes /\ history'.acked = history.acked
  BY DEF ConsumeReplay, Observes, Lapsed, LoopInvariant, LoopShape, HistoryFields
<1> QED
  BY <1>1, <1>2, <1>3, <1>4, ReplayStepFits

LEMMA RunReplayFits ==
    ASSUME LoopInvariant, ConversationInv, RunReplay
    PROVE  ConversationInv'
<1>0. loop \in Sessions /\ DOMAIN loop = SessionFields
  BY SessionIsRecord DEF ConversationInv, SessionFits
<1>1. /\ loop.pc = "replaying" /\ UNCHANGED <<store, reports, kind>>
      /\ loop' = [loop EXCEPT !.pc = "replayed"]
  BY DEF RunReplay
<1>2. /\ loop'.pc = "replayed" /\ loop'.head = loop.head
      /\ loop'.log = loop.log /\ loop'.pending = loop.pending
      /\ loop'.batch = loop.batch /\ loop'.tasks = loop.tasks /\ loop'.ready = loop.ready
      /\ loop'.queue = loop.queue /\ loop'.delivered = loop.delivered
      /\ loop'.status = loop.status /\ loop'.spent = loop.spent
      /\ loop'.terminal = loop.terminal /\ loop'.park = loop.park
  BY <1>0, <1>1 DEF SessionFields
<1>3. loop' \in Sessions
  BY <1>0, <1>1 DEF Sessions, Pcs
<1>4. Observes /\ history'.acked = history.acked
  BY DEF RunReplay, Observes, LoopInvariant, LoopShape, HistoryFields
<1>5. loop.head \in Calls
  BY <1>1 DEF ConversationInv, PumpFits
<1> QED
  BY <1>1, <1>2, <1>3, <1>4, <1>5, ReplayStepFits

LEMMA EndReplayFits ==
    ASSUME LoopInvariant, ConversationInv, EndReplay
    PROVE  ConversationInv'
<1>0. loop \in Sessions /\ DOMAIN loop = SessionFields
  BY SessionIsRecord DEF ConversationInv, SessionFits
<1>1. /\ loop.pc = "replayed" /\ UNCHANGED <<store, reports, kind, history>>
      /\ loop' = [loop EXCEPT !.pc = "replays", !.head = None,
                              !.pending = @ \union {<<"replay", loop.head>>}]
  BY DEF EndReplay
<1>2. loop.head \in Calls
  BY <1>1 DEF ConversationInv, PumpFits
<1>3. /\ loop'.pc = "replays" /\ loop'.log = loop.log
      /\ loop'.pending = loop.pending \union {<<"replay", loop.head>>}
      /\ loop'.batch = loop.batch /\ loop'.tasks = loop.tasks /\ loop'.ready = loop.ready
      /\ loop'.queue = loop.queue /\ loop'.delivered = loop.delivered
      /\ loop'.status = loop.status /\ loop'.spent = loop.spent
      /\ loop'.terminal = loop.terminal /\ loop'.park = loop.park
  BY <1>0, <1>1 DEF SessionFields
<1>4. loop' \in Sessions
  <2>1. loop.pending \union {<<"replay", loop.head>>} \subseteq Observations
    BY <1>0, <1>2 DEF Sessions, Observations
  <2> QED
    BY <1>0, <1>1, <2>1 DEF Sessions, Pcs
<1>5. <<"replay", loop.head>> \notin Once
  BY DEF Once
<1>6. loop'.pending \intersect Once = loop.pending \intersect Once
  BY <1>3, <1>5
<1>7. Observes /\ history'.acked = history.acked
  BY <1>1 DEF Observes
<1> QED
  BY <1>1, <1>3, <1>4, <1>6, <1>7, ReplayStepFits
-----------------------------------------------------------------------------
(* The model *)

\* The request carries what is pending, and nothing of it for the second time.
LEMMA SentIs ==
    ASSUME loop \in Sessions
    PROVE  /\ Sent \in Logs
           /\ Sent.items = loop.log.items \union loop.pending
           /\ Sent.again = loop.log.again \union (loop.log.items \intersect loop.pending)
<1> DEFINE asked == IF loop.input THEN Extended(loop.log, "user", {}) ELSE loop.log
<1>1. /\ loop.log \in Logs /\ loop.pending \subseteq Observations
  BY DEF Sessions
<1>2. /\ asked \in Logs /\ asked.items = loop.log.items /\ asked.again = loop.log.again
  BY <1>1 DEF Extended, Logs
<1> HIDE DEF asked
<1>3. Sent = IF loop.pending = {} THEN asked ELSE Extended(asked, "results", loop.pending)
  BY DEF Sent, asked
<1>4. CASE loop.pending = {}
  BY <1>2, <1>3, <1>4
<1>5. CASE loop.pending # {}
  <2>1. Sent = Extended(asked, "results", loop.pending)
    BY <1>3, <1>5
  <2> QED
    BY <1>1, <1>2, <2>1 DEF Extended, Logs
<1> QED
  BY <1>4, <1>5

\* Before a request everything pending is new, and every call has its result.
LEMMA ReplaysAreSettled ==
    ASSUME ConversationInv, loop.pc = "replays", Clean
    PROVE  /\ loop.log.again \intersect Once = {}
           /\ loop.pending \intersect loop.log.items \intersect Once = {}
           /\ \A c \in Calls : Logged(loop, <<"call", c>>) =>
                 <<"result", c>> \in loop.pending \/ Logged(loop, <<"result", c>>)
<1>1. ~loop.terminal /\ loop.batch = {} /\ ~Overrun(loop) /\ LogFits(loop)
  BY DEF ConversationInv, PumpFits, Overrun
<1> QED
  BY <1>1 DEF LogFits, CallsHaveResults

\* After it everything pending is in the log, and every call has its result there.
LEMMA CallingIsSettled ==
    ASSUME ConversationInv, loop.pc = "calling"
    PROVE  /\ loop.pending \subseteq loop.log.items /\ ~loop.input
           /\ Clean => /\ loop.log.again \intersect Once = {}
                       /\ \A c \in Calls : Logged(loop, <<"call", c>>) =>
                             Logged(loop, <<"result", c>>)
           /\ \A c \in Calls :
                 /\ Logged(loop, <<"task", c>>) => c \in loop.delivered
                 /\ Logged(loop, <<"result", c>>) => kind[c] # None
<1>1. /\ ~loop.terminal /\ loop.batch = {} /\ ~Overrun(loop)
      /\ loop.pending \subseteq loop.log.items /\ ~loop.input
      /\ Clean => LogFits(loop)
  BY DEF ConversationInv, PumpFits, Overrun
<1>2. \A c \in Calls : /\ Logged(loop, <<"task", c>>) => c \in loop.delivered
                       /\ Logged(loop, <<"result", c>>) => kind[c] # None
  BY DEF ConversationInv, SessionFits, ObservationsAreKnown
<1> QED
  BY <1>1, <1>2 DEF LogFits, CallsHaveResults, Logged

\* A call is not an observation.
LEMMA CallIsPending ==
    ASSUME loop \in Sessions, NEW c
    PROVE  <<"call", c>> \notin loop.pending
BY DEF Sessions, Observations

LEMMA SendRequestFits ==
    ASSUME LoopInvariant, ConversationInv, SendRequest
    PROVE  ConversationInv'
<1>0. loop \in Sessions /\ Sent \in Logs
  BY SentIs DEF ConversationInv, SessionFits
<1> USE DEF ConversationInv
<1>1. loop.pc = "replays" /\ UNCHANGED <<store, reports, kind, history>>
  BY DEF SendRequest
<1>2. /\ Live /\ DOMAIN loop = SessionFields /\ ~loop.terminal /\ loop.park = None
      /\ loop.status = "completed" => ~loop.spent
  BY <1>1, PumpIsLive
<1>3. loop' = [loop EXCEPT !.pc = "calling", !.log = Sent, !.input = FALSE]
  BY DEF SendRequest
<1>4. loop' \in Sessions
  BY <1>0, <1>3 DEF Sessions, Pcs
<1>5. /\ loop'.pc = "calling" /\ loop'.log = Sent /\ ~loop'.input
      /\ loop'.pending = loop.pending /\ loop'.batch = loop.batch
      /\ loop'.tasks = loop.tasks /\ loop'.ready = loop.ready /\ loop'.queue = loop.queue
      /\ loop'.delivered = loop.delivered /\ loop'.status = loop.status
      /\ loop'.spent = loop.spent /\ loop'.terminal = loop.terminal /\ loop'.park = loop.park
  BY <1>2, <1>3 DEF SessionFields
<1>6. /\ loop'.log.items = loop.log.items \union loop.pending
      /\ loop'.log.again = loop.log.again \union (loop.log.items \intersect loop.pending)
  BY <1>0, <1>5, SentIs
<1>7. Live' /\ loop'.pc # "down" /\ Observes /\ Clean' = Clean
  BY <1>1, <1>5 DEF Live, Observes, Clean
<1>8. TasksOnce(loop') /\ ParkFits(loop')
  BY <1>2, <1>5 DEF SessionFits, TasksOnce, ParkFits
<1>9. ObservationsAreKnown(loop')
  BY <1>5, <1>6 DEF SessionFits, ObservationsAreKnown, Logged
<1>10. "stranded" \notin history'.lapses => ReadyIsHeld(loop')
  BY <1>1, <1>5, <1>6 DEF SessionFits, ReadyIsHeld, Held, Logged
<1>11. Clean => LogFits(loop')
  <2> SUFFICES ASSUME Clean PROVE LogFits(loop')
    OBVIOUS
  <2>1. /\ loop.log.again \intersect Once = {}
        /\ loop.pending \intersect loop.log.items \intersect Once = {}
        /\ \A c \in Calls : Logged(loop, <<"call", c>>) =>
              <<"result", c>> \in loop.pending \/ Logged(loop, <<"result", c>>)
    BY <1>1, ReplaysAreSettled
  <2>2. loop'.log.again \intersect Once = {}
    BY <1>6, <2>1
  <2>3. CallsHaveResults(loop')
    BY <1>0, <1>5, <1>6, <2>1, CallIsPending DEF CallsHaveResults, Logged
  <2> QED
    BY <1>5, <2>2, <2>3 DEF LogFits
<1>12. PumpFits(loop') /\ ReportsFit'
  BY <1>1, <1>2, <1>5, <1>6 DEF PumpFits, ReportsFit
<1>13. history'.acked \subseteq Hosted \intersect loop'.ready
  BY <1>1, <1>2, <1>5 DEF AcksFit
<1> QED
  BY <1>1, <1>2, <1>4, <1>7, <1>8, <1>9, <1>10, <1>11, <1>12, <1>13, StepFits

\* Over a limit the messages of the request stay in the log.
LEMMA LimitReachedFits ==
    ASSUME LoopInvariant, ConversationInv, LimitReached
    PROVE  ConversationInv'
<1>0. loop \in Sessions /\ Sent \in Logs
  BY SentIs DEF ConversationInv, SessionFits
<1> USE DEF ConversationInv
<1> DEFINE l == [loop EXCEPT !.log = Sent, !.input = FALSE, !.pending = {}, !.status = "limited",
                             !.spent = FALSE]
<1>1. loop.pc = "replays" /\ UNCHANGED <<reports, kind, history>> /\ Suspend(l, "limited")
  BY DEF LimitReached
<1>2. /\ Live /\ DOMAIN loop = SessionFields /\ ~loop.terminal
      /\ loop.park = None /\ loop.park \notin Unsettled
  BY <1>1, PumpIsLive
<1>3. l \in Sessions
  BY <1>0 DEF Sessions
<1>4. /\ l.log = Sent /\ l.pending = {} /\ l.status = "limited" /\ l.park = loop.park
      /\ l.tasks = loop.tasks /\ l.ready = loop.ready /\ l.queue = loop.queue
      /\ l.delivered = loop.delivered
  BY <1>2 DEF SessionFields
<1> HIDE DEF l
<1>5. /\ l.log.items = loop.log.items \union loop.pending
      /\ l.log.again = loop.log.again \union (loop.log.items \intersect loop.pending)
  BY <1>0, <1>4, SentIs
<1>6. Observes /\ Clean' = Clean
  BY <1>1 DEF Observes, Clean
<1>7. ObservationsAreKnown(l)
  BY <1>4, <1>5 DEF SessionFits, ObservationsAreKnown, Logged
<1>8. "stranded" \notin history'.lapses => ReadyIsHeld(l)
  BY <1>1, <1>4, <1>5 DEF SessionFits, ReadyIsHeld, Held, Logged
<1>9. Clean => LogIsSettled(l)
  <2> SUFFICES ASSUME Clean PROVE LogIsSettled(l)
    OBVIOUS
  <2>1. /\ loop.log.again \intersect Once = {}
        /\ loop.pending \intersect loop.log.items \intersect Once = {}
        /\ \A c \in Calls : Logged(loop, <<"call", c>>) =>
              <<"result", c>> \in loop.pending \/ Logged(loop, <<"result", c>>)
    BY <1>1, ReplaysAreSettled
  <2>2. l.log.again \intersect Once = {}
    BY <1>5, <2>1
  <2>3. \A c \in Calls : Logged(l, <<"call", c>>) => Logged(l, <<"result", c>>)
    BY <1>0, <1>5, <2>1, CallIsPending DEF Logged
  <2> QED
    BY <1>4, <2>2, <2>3 DEF LogIsSettled
<1>10. "limited" \in Reasons /\ "limited" \notin Unsettled
  BY DEF Reasons, Unsettled
<1> QED
  BY <1>1, <1>2, <1>3, <1>4, <1>6, <1>7, <1>8, <1>9, <1>10, ParkStepFits

\* A failed request leaves nothing pending: it was sent, and it stays sent.
LEMMA ModelFailsFits ==
    ASSUME LoopInvariant, ConversationInv, NEW recoverable \in BOOLEAN, ModelFails(recoverable)
    PROVE  ConversationInv'
<1>0. loop \in Sessions
  BY DEF ConversationInv, SessionFits
<1> USE DEF ConversationInv
<1>1. loop.pc = "calling" /\ UNCHANGED <<reports, kind, history>>
  BY DEF ModelFails
<1>2. /\ Live /\ DOMAIN loop = SessionFields /\ ~loop.terminal
      /\ loop.park = None /\ loop.park \notin Unsettled
      /\ loop.status = "completed" => ~loop.spent
  BY <1>1, PumpIsLive
<1>3. PICK l \in Sessions, reason \in Reasons :
        /\ Suspend(l, reason)
        /\ l.tasks = loop.tasks /\ l.ready = loop.ready /\ l.queue = loop.queue
        /\ l.delivered = loop.delivered /\ l.log = loop.log /\ l.park = loop.park
        /\ \/ /\ reason = "turn_failed" /\ l.mark = "turn_failed" /\ l.pending = {}
              /\ l.status = loop.status /\ l.spent = loop.spent /\ l.terminal = loop.terminal
           \/ /\ reason = "terminal" /\ l.status = "failed" /\ l.terminal = TRUE
              /\ l.pending = loop.pending
  <2>1. CASE recoverable
    <3> DEFINE l == [loop EXCEPT !.pending = {}, !.mark = "turn_failed"]
    <3>1. l \in Sessions
      BY <1>0 DEF Sessions
    <3>2. /\ l.tasks = loop.tasks /\ l.ready = loop.ready /\ l.queue = loop.queue
          /\ l.delivered = loop.delivered /\ l.log = loop.log /\ l.pending = {}
          /\ l.park = loop.park /\ l.mark = "turn_failed" /\ l.status = loop.status
          /\ l.spent = loop.spent /\ l.terminal = loop.terminal
      BY <1>2 DEF SessionFields
    <3>3. Suspend(l, "turn_failed") /\ "turn_failed" \in Reasons
      BY <2>1 DEF ModelFails, Reasons
    <3> QED
      BY <3>1, <3>2, <3>3
  <2>2. CASE ~recoverable
    <3> DEFINE l == [loop EXCEPT !.status = "failed", !.spent = FALSE, !.terminal = TRUE]
    <3>1. l \in Sessions
      BY <1>0 DEF Sessions
    <3>2. /\ l.tasks = loop.tasks /\ l.ready = loop.ready /\ l.queue = loop.queue
          /\ l.delivered = loop.delivered /\ l.log = loop.log /\ l.pending = loop.pending
          /\ l.park = loop.park /\ l.status = "failed" /\ l.terminal = TRUE
      BY <1>2 DEF SessionFields
    <3>3. Suspend(l, "terminal") /\ "terminal" \in Reasons
      BY <2>2 DEF ModelFails, Reasons
    <3> QED
      BY <3>1, <3>2, <3>3
  <2> QED
    BY <2>1, <2>2
<1>4. Observes /\ Clean' = Clean
  BY <1>1 DEF Observes, Clean
<1>5. /\ loop.pending \subseteq loop.log.items
      /\ Clean => /\ loop.log.again \intersect Once = {}
                  /\ \A c \in Calls : Logged(loop, <<"call", c>>) => Logged(loop, <<"result", c>>)
  BY <1>1, CallingIsSettled
<1>6. ObservationsAreKnown(l)
  BY <1>3, <1>5 DEF SessionFits, ObservationsAreKnown, Logged
<1>7. "stranded" \notin history'.lapses => ReadyIsHeld(l)
  BY <1>1, <1>3, <1>5 DEF SessionFits, ReadyIsHeld, Held, Logged
<1>8. Clean => LogIsSettled(l)
  BY <1>3, <1>5 DEF LogIsSettled, Logged
<1>9. l.status = "completed" =>
        /\ ~l.spent /\ ~l.terminal /\ l.park = None
        /\ reason \notin Unsettled => TurnIsOver(l)
  BY <1>2, <1>3 DEF Unsettled
<1>10. reason \in Unsettled \/ l.park \in Unsettled => l.mark # None
  BY <1>2, <1>3, LoopAssumption DEF Unsettled
<1> QED
  BY <1>1, <1>2, <1>3, <1>4, <1>6, <1>7, <1>8, <1>9, <1>10, ParkStepFits

\* An answer with calls: each of them is still to run.
LEMMA ModelCallsFits ==
    ASSUME LoopInvariant, ConversationInv, NEW batch \in SUBSET Calls, ModelCalls(batch)
    PROVE  ConversationInv'
<1>0. loop \in Sessions
  BY DEF ConversationInv, SessionFits
<1> USE DEF ConversationInv
<1> DEFINE log == Extended(loop.log, "calls", {"call"} \X batch)
<1>1. loop.pc = "calling" /\ batch # {} /\ UNCHANGED <<store, reports, kind>>
  BY DEF ModelCalls
<1>2. /\ Live /\ DOMAIN loop = SessionFields /\ ~loop.terminal /\ loop.park = None
      /\ loop.status = "completed" => ~loop.spent
  BY <1>1, PumpIsLive
<1>3. loop' = [loop EXCEPT !.pc = "tools", !.batch = batch, !.pending = {}, !.log = log]
  BY DEF ModelCalls
<1>4. /\ log \in Logs
      /\ log.items = loop.log.items \union ({"call"} \X batch)
      /\ log.again = loop.log.again \union (loop.log.items \intersect ({"call"} \X batch))
  <2>1. loop.log \in Logs
    BY <1>0 DEF Sessions
  <2> HIDE DEF ConversationInv
  <2> QED
    BY <2>1 DEF Extended, Logs
<1> HIDE DEF log
<1>5. loop' \in Sessions
  BY <1>0, <1>3, <1>4 DEF Sessions, Pcs
<1>6. /\ loop'.pc = "tools" /\ loop'.batch = batch /\ loop'.pending = {} /\ loop'.log = log
      /\ loop'.tasks = loop.tasks /\ loop'.ready = loop.ready /\ loop'.queue = loop.queue
      /\ loop'.delivered = loop.delivered /\ loop'.status = loop.status
      /\ loop'.input = loop.input
      /\ loop'.spent = loop.spent /\ loop'.terminal = loop.terminal /\ loop'.park = loop.park
  BY <1>2, <1>3 DEF SessionFields
<1>7. /\ history'.lapses = history.lapses /\ history'.over = history.over
      /\ history'.acked = history.acked
  BY DEF ModelCalls, LoopInvariant, LoopShape, HistoryFields
<1>8. Live' /\ loop'.pc # "down" /\ Observes /\ Clean' = Clean
  BY <1>1, <1>6, <1>7 DEF Live, Observes, Clean
<1>9. /\ \A obs \in Once : obs \in log.items <=> obs \in loop.log.items
      /\ \A c \in Calls : <<"call", c>> \in log.items => c \in batch \/ <<"call", c>> \in loop.log.items
      /\ \A c \in Calls : <<"task", c>> \in Once /\ <<"result", c>> \in Once
      /\ log.again \intersect Once = loop.log.again \intersect Once
  <2> HIDE DEF ConversationInv
  <2> QED
    BY <1>4 DEF Once
<1>10. /\ loop.pending \subseteq loop.log.items /\ ~loop.input
       /\ Clean => /\ loop.log.again \intersect Once = {}
                   /\ \A c \in Calls : Logged(loop, <<"call", c>>) => Logged(loop, <<"result", c>>)
       /\ \A c \in Calls :
             /\ Logged(loop, <<"task", c>>) => c \in loop.delivered
             /\ Logged(loop, <<"result", c>>) => kind[c] # None
  BY <1>1, CallingIsSettled
<1>11. TasksOnce(loop') /\ ParkFits(loop')
  BY <1>2, <1>6 DEF SessionFits, TasksOnce, ParkFits
<1>12. ObservationsAreKnown(loop')
  BY <1>6, <1>9, <1>10 DEF ObservationsAreKnown, Logged
<1>13. "stranded" \notin history'.lapses => ReadyIsHeld(loop')
  BY <1>6, <1>7, <1>9, <1>10 DEF SessionFits, ReadyIsHeld, Held, Logged, Hosted
<1>14. Clean => LogFits(loop')
  BY <1>6, <1>9, <1>10 DEF LogFits, CallsHaveResults, Logged
<1>15. PumpFits(loop') /\ ReportsFit'
  BY <1>1, <1>2, <1>6, <1>10 DEF PumpFits, ReportsFit
<1>16. history'.acked \subseteq Hosted \intersect loop'.ready
  BY <1>2, <1>6, <1>7 DEF AcksFit
<1> QED
  BY <1>1, <1>2, <1>5, <1>7, <1>8, <1>11, <1>12, <1>13, <1>14, <1>15, <1>16, StepFits
\* An answer without calls ends the turn, or parks it on the tasks that are out.
LEMMA ModelAnswersFits ==
    ASSUME LoopInvariant, ConversationInv, ModelAnswers
    PROVE  ConversationInv'
<1>0. loop \in Sessions
  BY DEF ConversationInv, SessionFits
<1> USE DEF ConversationInv
<1> DEFINE log == Extended(loop.log, "answer", {})
           l == [loop EXCEPT !.pending = {}, !.log = log]
           s == [l EXCEPT !.pc = "settling"]
<1>1. /\ loop.pc = "calling" /\ UNCHANGED <<reports, kind, history>>
      /\ Suspend(l, "awaiting_tasks") \/ (loop' = s /\ store' = store)
  BY DEF ModelAnswers
<1>2. /\ Live /\ DOMAIN loop = SessionFields /\ ~loop.terminal
      /\ loop.park = None /\ loop.park \notin Unsettled
      /\ loop.status = "completed" => ~loop.spent
  BY <1>1, PumpIsLive
<1>3. /\ log \in Logs /\ log.items = loop.log.items /\ log.again = loop.log.again
      /\ log.last = "answer"
  <2>1. loop.log \in Logs
    BY <1>0 DEF Sessions
  <2> QED
    BY <2>1 DEF Extended, Logs
<1> HIDE DEF log
<1>4. l \in Sessions
  BY <1>0, <1>3 DEF Sessions
<1>5. /\ l.log = log /\ l.pending = {} /\ l.status = loop.status /\ l.park = loop.park
      /\ l.tasks = loop.tasks /\ l.ready = loop.ready /\ l.queue = loop.queue
      /\ l.delivered = loop.delivered /\ l.spent = loop.spent /\ l.terminal = loop.terminal
      /\ l.input = loop.input /\ l.batch = loop.batch /\ DOMAIN l = SessionFields
  BY <1>2 DEF SessionFields
<1> HIDE DEF l
<1>6. /\ loop.pending \subseteq loop.log.items /\ ~loop.input /\ loop.batch = {}
      /\ Clean => /\ loop.log.again \intersect Once = {}
                  /\ \A c \in Calls : Logged(loop, <<"call", c>>) => Logged(loop, <<"result", c>>)
  BY <1>1, CallingIsSettled DEF PumpFits
<1>7. Observes /\ Clean' = Clean
  BY <1>1 DEF Observes, Clean
<1>8. ObservationsAreKnown(l)
  BY <1>3, <1>5 DEF SessionFits, ObservationsAreKnown, Logged
<1>9. "stranded" \notin history'.lapses => ReadyIsHeld(l)
  BY <1>1, <1>3, <1>5, <1>6 DEF SessionFits, ReadyIsHeld, Held, Logged
<1>10. Clean => LogIsSettled(l)
  BY <1>3, <1>5, <1>6 DEF LogIsSettled, Logged
<1>11. CASE Suspend(l, "awaiting_tasks")
  <2>1. TurnIsOver(l)
    BY <1>3, <1>5, <1>6 DEF TurnIsOver
  <2>2. "awaiting_tasks" \in Reasons /\ "awaiting_tasks" \notin Unsettled
    BY DEF Reasons, Unsettled
  <2> QED
    BY <1>1, <1>2, <1>4, <1>5, <1>7, <1>8, <1>9, <1>10, <1>11, <2>1, <2>2, ParkStepFits
<1>12. CASE loop' = s /\ store' = store
  <2>1. loop' \in Sessions
    BY <1>4, <1>12 DEF Sessions, Pcs
  <2>2. /\ loop'.pc = "settling"
        /\ loop'.log = log /\ loop'.pending = {} /\ loop'.status = loop.status
        /\ loop'.park = loop.park /\ loop'.input = loop.input /\ loop'.batch = loop.batch
        /\ loop'.tasks = loop.tasks /\ loop'.ready = loop.ready /\ loop'.queue = loop.queue
        /\ loop'.delivered = loop.delivered /\ loop'.spent = loop.spent
        /\ loop'.terminal = loop.terminal
    BY <1>5, <1>12 DEF SessionFields
  <2>3. TasksOnce(loop') /\ ParkFits(loop')
    BY <1>2, <2>2 DEF SessionFits, TasksOnce, ParkFits
  <2>4. ObservationsAreKnown(loop') /\ ("stranded" \notin history'.lapses => ReadyIsHeld(loop'))
    BY <1>5, <1>8, <1>9, <2>2 DEF ObservationsAreKnown, ReadyIsHeld, Held, Logged
  <2>5. Clean => LogFits(loop')
    BY <1>2, <1>5, <1>10, <2>2 DEF LogIsSettled, LogFits, CallsHaveResults, Logged
  <2>6. PumpFits(loop') /\ ReportsFit'
    BY <1>1, <1>2, <1>3, <1>6, <2>2 DEF PumpFits, ReportsFit
  <2>7. history'.acked \subseteq Hosted \intersect loop'.ready
    BY <1>1, <1>2, <2>2 DEF AcksFit
  <2>8. Live' /\ loop'.pc # "down"
    BY <2>2 DEF Live
  <2> QED
    BY <1>1, <1>2, <1>7, <1>12, <2>1, <2>3, <2>4, <2>5, <2>6, <2>7, <2>8, StepFits
<1> QED
  BY <1>1, <1>11, <1>12

\* The budget drops the rest of the batch.  Unless the turn is about to finish,
\* this ends the run.
LEMMA OverBudgetFits ==
    ASSUME LoopInvariant, ConversationInv, NEW c \in Calls, NEW k \in Kinds, RunCall(c, k),
           loop.total >= history.limits.toolCalls
    PROVE  ConversationInv'
<1>0. loop \in Sessions
  BY DEF ConversationInv, SessionFits
<1> USE DEF ConversationInv
<1>1. loop.pc = "tools" /\ UNCHANGED <<store, reports, kind>>
  BY DEF RunCall
<1>2. /\ Live /\ DOMAIN loop = SessionFields /\ ~loop.terminal /\ loop.park = None
  BY <1>1, PumpIsLive
<1>3. loop' = [loop EXCEPT !.total = @ + 1, !.batch = {}, !.status = "limited", !.spent = TRUE]
  BY DEF RunCall
<1>4. loop' \in Sessions
  <2>1. loop.total + 1 \in Nat
    BY <1>0 DEF Sessions
  <2> QED
    BY <1>0, <1>3, <2>1 DEF Sessions
<1>5. /\ loop'.pc = "tools" /\ loop'.batch = {} /\ loop'.status = "limited" /\ loop'.spent
      /\ loop'.log = loop.log /\ loop'.pending = loop.pending /\ loop'.finish = loop.finish
      /\ loop'.tasks = loop.tasks /\ loop'.ready = loop.ready /\ loop'.queue = loop.queue
      /\ loop'.delivered = loop.delivered /\ loop'.input = loop.input
      /\ loop'.terminal = loop.terminal /\ loop'.park = loop.park
  BY <1>1, <1>2, <1>3 DEF SessionFields
<1>6. /\ history'.lapses = Lapsed(loop.finish, "overrun")
      /\ history'.over = history.over /\ history'.acked = history.acked
  BY DEF RunCall, LoopInvariant, LoopShape, HistoryFields
<1>7. Observes /\ (Clean' => Clean /\ ~loop.finish)
  BY <1>6 DEF Observes, Clean, Lapsed
<1>8. Live' /\ loop'.pc # "down"
  BY <1>5 DEF Live
<1>9. TasksOnce(loop') /\ ParkFits(loop') /\ ObservationsAreKnown(loop')
  BY <1>5 DEF SessionFits, TasksOnce, ParkFits, ObservationsAreKnown, Logged
<1>10. "stranded" \notin history'.lapses => ReadyIsHeld(loop')
  BY <1>5, <1>7 DEF SessionFits, ReadyIsHeld, Held, Logged, Observes
<1>11. Clean' => LogFits(loop')
  BY <1>1, <1>2, <1>5, <1>7 DEF LogFits, Overrun
<1>12. PumpFits(loop') /\ ReportsFit'
  BY <1>1, <1>2, <1>5 DEF PumpFits, ReportsFit
<1>13. history'.acked \subseteq Hosted \intersect loop'.ready
  BY <1>2, <1>5, <1>6 DEF AcksFit
<1> QED
  BY <1>1, <1>2, <1>4, <1>6, <1>7, <1>8, <1>9, <1>10, <1>11, <1>12, <1>13, StepFits

\* A call that runs is new to every session, and its result to the conversation.
LEMMA CallRunsFits ==
    ASSUME LoopInvariant, ConversationInv, NEW c \in Calls, NEW k \in Kinds, RunCall(c, k),
           ~(loop.total >= history.limits.toolCalls)
    PROVE  ConversationInv'
<1>0. loop \in Sessions
  BY DEF ConversationInv, SessionFits
<1>1. /\ loop.pc = "tools" /\ c \in loop.batch /\ UNCHANGED <<store, reports>>
      /\ kind' = [kind EXCEPT ![c] = k]
  BY DEF RunCall
<1>2. /\ Live /\ DOMAIN loop = SessionFields /\ ~loop.terminal /\ loop.park = None
      /\ loop.status = "completed" => ~loop.spent
  BY <1>1, PumpIsLive
<1> DEFINE task == IF k \in {"ask", "shell"} THEN "running" ELSE "none"
           tasks == [loop.tasks EXCEPT ![c] = task]
<1>3. loop' = [loop EXCEPT !.total = @ + 1, !.batch = @ \ {c}, !.tasks[c] = task,
                           !.finish = @ \/ k = "finish",
                           !.pending = @ \union {<<"result", c>>}]
  BY DEF RunCall
<1>4. /\ loop.tasks \in [Calls -> {"none", "running", "exited"} \union Verdicts]
      /\ tasks \in [Calls -> {"none", "running", "exited"} \union Verdicts]
      /\ \A d \in Calls : d # c => tasks[d] = loop.tasks[d]
  BY <1>0, SessionIsRecord
<1>5. loop' \in Sessions
  <2> DEFINE q == [loop EXCEPT !.total = @ + 1, !.batch = @ \ {c}, !.tasks = tasks]
             finish == loop.finish \/ k = "finish"
  <2> HIDE DEF tasks
  <2>1. loop.total + 1 \in Nat /\ loop.batch \ {c} \subseteq Calls
    BY <1>0 DEF Sessions
  <2>2. q \in Sessions
    BY <1>0, <1>4, <2>1 DEF Sessions
  <2>3. q.finish = loop.finish /\ q.pending = loop.pending
    BY <1>2 DEF SessionFields
  <2> HIDE DEF q
  <2>4. q.pending \union {<<"result", c>>} \subseteq Observations /\ finish \in BOOLEAN
    BY <2>2 DEF Sessions, Observations
  <2> HIDE DEF finish
  <2>5. [q EXCEPT !.finish = finish, !.pending = @ \union {<<"result", c>>}] \in Sessions
    BY <2>2, <2>4 DEF Sessions
  <2>6. loop' = [q EXCEPT !.finish = finish, !.pending = @ \union {<<"result", c>>}]
    BY <1>2, <1>3 DEF q, finish, tasks, SessionFields
  <2> QED
    BY <2>5, <2>6
<1>6. /\ loop'.pc = "tools" /\ loop'.batch = loop.batch \ {c} /\ loop'.tasks = tasks
      /\ loop'.pending = loop.pending \union {<<"result", c>>}
      /\ loop'.log = loop.log /\ loop'.status = loop.status /\ loop'.spent = loop.spent
      /\ loop'.ready = loop.ready /\ loop'.queue = loop.queue
      /\ loop'.delivered = loop.delivered /\ loop'.input = loop.input
      /\ loop'.terminal = loop.terminal /\ loop'.park = loop.park
  BY <1>1, <1>2, <1>3 DEF SessionFields
<1>7. /\ history'.lapses = history.lapses /\ history'.over = history.over
      /\ history'.acked = history.acked /\ Clean' = Clean
  BY DEF RunCall, LoopInvariant, LoopShape, HistoryFields, Clean
<1>8. kind[c] = None /\ k \in CallKinds /\ k # None
  BY <1>1, LoopAssumption DEF LoopInvariant, CallsInOrder
<1>9. /\ kind'[c] = k /\ \A d \in Calls : d # c => kind'[d] = kind[d]
  BY <1>1 DEF LoopInvariant, LoopShape
<1>10. /\ Hosted \subseteq Hosted' /\ Hosted' \subseteq Hosted \union {c} /\ c \notin Hosted
  BY <1>8, <1>9, LoopAssumption DEF Hosted, CallKinds
<1>11. /\ c \notin loop.queue /\ c \notin loop.ready /\ c \notin loop.delivered
       /\ store # None => c \notin store.queue /\ c \notin store.ready /\ c \notin store.delivered
  BY <1>8 DEF LoopInvariant, TasksInOrder
<1>12. /\ <<"result", c>> \notin loop.log.items
       /\ \A d \in Calls : <<"task", d>> \in loop'.pending <=> <<"task", d>> \in loop.pending
       /\ \A d \in Calls : <<"result", d>> \in loop'.pending <=>
                              <<"result", d>> \in loop.pending \/ d = c
  BY <1>6, <1>8 DEF ConversationInv, SessionFits, ObservationsAreKnown, Logged
<1> HIDE DEF tasks
<1> USE DEF ConversationInv
<1>13. SessionFits(loop)'
  <2>1. TasksOnce(loop)'
    BY <1>4, <1>6, <1>9, <1>11 DEF SessionFits, TasksOnce
  <2>2. ObservationsAreKnown(loop)'
    BY <1>6, <1>8, <1>9, <1>12 DEF SessionFits, ObservationsAreKnown, Logged
  <2>3. ParkFits(loop)'
    BY <1>2, <1>6 DEF SessionFits, ParkFits
  <2>4. "stranded" \notin history'.lapses => ReadyIsHeld(loop)'
    <3> SUFFICES ASSUME "stranded" \notin history.lapses, NEW d \in Hosted', d \in loop.ready
                 PROVE  Held(loop', d)
      BY <1>6, <1>7 DEF ReadyIsHeld, Held, Logged
    <3>1. d # c /\ d \in Hosted /\ d \in Calls
      BY <1>10, <1>11 DEF Hosted
    <3>2. Held(loop, d)
      BY <3>1 DEF SessionFits, ReadyIsHeld
    <3> QED
      BY <1>4, <1>6, <1>12, <3>1, <3>2 DEF Held, Logged
  <2> QED
    BY <1>5, <2>1, <2>2, <2>3, <2>4 DEF SessionFits
<1>14. StoreFits'
  <2> SUFFICES ASSUME store # None
               PROVE  /\ SessionFits(store)'
                      /\ Clean /\ store.pc \notin {"calling", "tools"} => LogFits(store)
    BY <1>1, <1>7 DEF StoreFits, LogFits, CallsHaveResults, Overrun, Logged
  <2>1. SessionFits(store)
    BY DEF StoreFits
  <2>2. TasksOnce(store)'
    BY <1>1, <1>9, <1>11, <2>1 DEF SessionFits, TasksOnce
  <2>3. ObservationsAreKnown(store)' /\ ParkFits(store)'
    BY <1>1, <1>8, <1>9, <2>1
       DEF SessionFits, ObservationsAreKnown, ParkFits, TurnIsOver, Logged
  <2>4. "stranded" \notin history'.lapses => ReadyIsHeld(store)'
    BY <1>1, <1>7, <1>10, <1>11, <2>1 DEF SessionFits, ReadyIsHeld, Held, Logged
  <2> QED
    BY <1>1, <2>1, <2>2, <2>3, <2>4 DEF StoreFits, SessionFits
<1>15. Clean => LogFits(loop)'
  <2> SUFFICES ASSUME Clean PROVE LogFits(loop')
    BY DEF LogFits, CallsHaveResults, Overrun, Logged
  <2>1. ~Overrun(loop) /\ LogFits(loop)
    BY <1>1 DEF Overrun
  <2>2. loop'.pending \intersect loop'.log.items \intersect Once = {}
    BY <1>1, <1>2, <1>6, <1>12, <2>1 DEF LogFits
  <2>3. CallsHaveResults(loop')
    BY <1>2, <1>6, <1>12, <2>1 DEF LogFits, CallsHaveResults, Logged
  <2> QED
    BY <1>6, <2>1, <2>2, <2>3 DEF LogFits
<1>16. PumpFits(loop)'
  BY <1>1, <1>2, <1>6 DEF PumpFits
<1>17. ReportsFit'
  <2>1. \A r \in Reporters : reports[r].pc = "publish" => reports[r].call # c /\ reports[r].call \in Calls
    BY <1>10 DEF LoopInvariant, ReportsAreOfTasks, Hosted
  <2> QED
    BY <1>1, <1>4, <1>6, <2>1 DEF ReportsFit
<1>18. AcksFit' /\ loop'.pc # "closed" /\ history'.over = None
  BY <1>1, <1>2, <1>6, <1>7, <1>10 DEF AcksFit, Live
<1> QED
  BY <1>7, <1>13, <1>14, <1>15, <1>16, <1>17, <1>18 DEF HonestClose
\* A step of the pump from tools or settling back to the top, or to the validators.
LEMMA TurnGoesOn ==
    ASSUME LoopInvariant, ConversationInv, UNCHANGED <<store, reports, kind, history>>,
           loop.pc \in {"tools", "settling"}, loop'.pc \in {"top", "settling"},
           loop' \in Sessions, loop'.batch = {}, loop'.tasks = loop.tasks,
           loop'.ready = loop.ready, loop'.queue = loop.queue, loop'.delivered = loop.delivered,
           loop'.status = loop.status, loop'.spent = loop.spent, loop'.terminal = loop.terminal,
           loop'.park = loop.park, ObservationsAreKnown(loop'),
           "stranded" \notin history.lapses => ReadyIsHeld(loop'),
           Clean => LogIsSettled(loop'),
           loop'.pc = "settling" =>
              ~loop'.input /\ (loop'.status = "completed" => loop'.pending # {} /\ loop'.finish)
    PROVE  ConversationInv'
<1> USE DEF ConversationInv
<1>1. /\ Live /\ ~loop.terminal /\ loop.park = None
      /\ loop.status = "completed" => ~loop.spent
  BY PumpIsLive
<1>2. Live' /\ loop'.pc # "down" /\ Observes /\ Clean' = Clean
  BY DEF Live, Observes, Clean
<1>3. TasksOnce(loop') /\ ParkFits(loop')
  BY <1>1 DEF SessionFits, TasksOnce, ParkFits
<1>4. Clean => LogFits(loop')
  BY <1>1 DEF LogIsSettled, LogFits, CallsHaveResults
<1>5. PumpFits(loop') /\ ReportsFit'
  BY <1>1 DEF PumpFits, ReportsFit
<1>6. history'.acked \subseteq Hosted \intersect loop'.ready
  BY <1>1 DEF AcksFit
<1> QED
  BY <1>1, <1>2, <1>3, <1>4, <1>5, <1>6, StepFits

\* After its calls a turn finishes, goes on, or parks over the budget.
LEMMA EndBatchFits ==
    ASSUME LoopInvariant, ConversationInv, EndBatch
    PROVE  ConversationInv'
<1>0. loop \in Sessions
  BY DEF ConversationInv, SessionFits
<1> USE DEF ConversationInv
<1> DEFINE terminal == loop.terminal \/ loop.spent
           l == [loop EXCEPT !.terminal = terminal]
<1>1. loop.pc = "tools" /\ loop.batch = {} /\ UNCHANGED <<reports, kind, history>>
  BY DEF EndBatch
<1>2. /\ Live /\ DOMAIN loop = SessionFields /\ ~loop.terminal
      /\ loop.park = None /\ loop.park \notin Unsettled
      /\ loop.status = "completed" => ~loop.spent
  BY <1>1, PumpIsLive
<1>3. \/ loop.finish /\ loop' = [loop EXCEPT !.pc = "settling"] /\ store' = store
      \/ ~loop.finish /\ loop.status = "limited" /\ Suspend(l, "limited")
      \/ ~loop.finish /\ loop.status # "limited" /\ loop' = [loop EXCEPT !.pc = "top"] /\ store' = store
  BY DEF EndBatch
<1>4. ObservationsAreKnown(loop) /\ ("stranded" \notin history.lapses => ReadyIsHeld(loop))
  BY DEF SessionFits
<1>5. Clean /\ ~Overrun(loop) => LogIsSettled(loop)
  BY <1>1, <1>2 DEF LogFits, LogIsSettled, CallsHaveResults
<1>6. CASE /\ store' = store
           /\ \/ loop.finish /\ loop' = [loop EXCEPT !.pc = "settling"]
              \/ loop.status # "limited" /\ loop' = [loop EXCEPT !.pc = "top"]
  <2>1. loop' \in Sessions
    <3>1. CASE loop' = [loop EXCEPT !.pc = "settling"]
      BY <1>0, <3>1 DEF Sessions, Pcs
    <3>2. CASE loop' = [loop EXCEPT !.pc = "top"]
      BY <1>0, <3>2 DEF Sessions, Pcs
    <3> QED
      BY <1>6, <3>1, <3>2
  <2>2. /\ loop'.pc \in {"top", "settling"} /\ (loop'.pc = "settling" => loop.finish)
        /\ loop'.batch = {} /\ loop'.tasks = loop.tasks
        /\ loop'.ready = loop.ready /\ loop'.queue = loop.queue /\ loop'.delivered = loop.delivered
        /\ loop'.status = loop.status /\ loop'.spent = loop.spent /\ loop'.input = loop.input
        /\ loop'.terminal = loop.terminal /\ loop'.park = loop.park /\ loop'.log = loop.log
        /\ loop'.pending = loop.pending /\ loop'.finish = loop.finish
    BY <1>1, <1>2, <1>6 DEF SessionFields
  <2>3. ~Overrun(loop)
    BY <1>6 DEF Overrun
  <2>4. ObservationsAreKnown(loop') /\ ("stranded" \notin history.lapses => ReadyIsHeld(loop'))
    BY <1>4, <2>2 DEF ObservationsAreKnown, ReadyIsHeld, Held, Logged
  <2>5. Clean => LogIsSettled(loop')
    BY <1>5, <2>2, <2>3 DEF LogIsSettled, Logged
  <2>6. loop'.pc = "settling" =>
          ~loop'.input /\ (loop'.status = "completed" => loop'.pending # {} /\ loop'.finish)
    BY <1>1, <2>2 DEF PumpFits
  <2> QED
    BY <1>1, <1>6, <2>1, <2>2, <2>4, <2>5, <2>6, TurnGoesOn
<1>7. CASE ~loop.finish /\ loop.status = "limited" /\ Suspend(l, "limited")
  <2>1. terminal \in BOOLEAN /\ (~terminal => ~loop.spent)
    OBVIOUS
  <2> HIDE DEF terminal
  <2>2. l \in Sessions
    BY <1>0, <2>1 DEF Sessions
  <2>3. /\ l.tasks = loop.tasks /\ l.ready = loop.ready /\ l.queue = loop.queue
        /\ l.delivered = loop.delivered /\ l.log = loop.log /\ l.pending = loop.pending
        /\ l.park = loop.park /\ l.status = loop.status /\ l.terminal = terminal
    BY <1>2 DEF SessionFields
  <2> HIDE DEF l
  <2>4. Observes /\ Clean' = Clean
    BY <1>1 DEF Observes, Clean
  <2>5. ObservationsAreKnown(l) /\ ("stranded" \notin history'.lapses => ReadyIsHeld(l))
    BY <1>1, <1>4, <2>3 DEF ObservationsAreKnown, ReadyIsHeld, Held, Logged
  <2>6. Clean => LogIsSettled(l)
    <3>1. CASE terminal
      BY <2>3, <3>1 DEF LogFits, LogIsSettled
    <3>2. CASE ~terminal
      <4>1. ~Overrun(loop)
        BY <2>1, <3>2 DEF Overrun
      <4> QED
        BY <1>2, <1>5, <2>3, <4>1 DEF LogIsSettled, Logged
    <3> QED
      BY <3>1, <3>2
  <2>7. "limited" \in Reasons /\ "limited" \notin Unsettled
    BY DEF Reasons, Unsettled
  <2> QED
    BY <1>1, <1>2, <1>7, <2>2, <2>3, <2>4, <2>5, <2>6, <2>7, ParkStepFits
<1> QED
  BY <1>3, <1>6, <1>7

\* The validators' decision: the results of the turn are in the log with it.
LEMMA ApplySettleFits ==
    ASSUME LoopInvariant, ConversationInv,
           NEW decision \in {"accept", "refused", "limited", "defect", "reprompt"},
           ApplySettle(decision)
    PROVE  ConversationInv'
<1>0. loop \in Sessions
  BY DEF ConversationInv, SessionFits
<1> USE DEF ConversationInv
<1> DEFINE log == IF loop.pending = {} THEN loop.log
                  ELSE Extended(loop.log, "results", loop.pending)
           logged == [loop EXCEPT !.pending = {}, !.log = log]
<1>1. loop.pc = "settling" /\ UNCHANGED <<reports, kind, history>>
  BY DEF ApplySettle
<1>2. /\ Live /\ DOMAIN loop = SessionFields /\ ~loop.terminal
      /\ loop.park = None /\ loop.park \notin Unsettled
      /\ loop.status = "completed" => ~loop.spent
  BY <1>1, PumpIsLive
<1>3. /\ loop.batch = {} /\ ~loop.input /\ ~Overrun(loop)
      /\ loop.status = "completed" => \/ loop.pending = {} /\ loop.log.last = "answer"
                                      \/ loop.pending # {} /\ loop.finish
  BY <1>1 DEF PumpFits, Overrun
<1>4. /\ log \in Logs /\ log.items = loop.log.items \union loop.pending
      /\ log.again = loop.log.again \union (loop.log.items \intersect loop.pending)
      /\ log.last = IF loop.pending = {} THEN loop.log.last ELSE "results"
  <2>1. loop.log \in Logs /\ loop.pending \subseteq Observations
    BY <1>0 DEF Sessions
  <2>2. CASE loop.pending = {}
    BY <2>1, <2>2
  <2>3. CASE loop.pending # {}
    <3>1. log = Extended(loop.log, "results", loop.pending)
      BY <2>3
    <3> QED
      BY <2>1, <2>3, <3>1 DEF Extended, Logs
  <2> QED
    BY <2>2, <2>3
<1>5. /\ decision = "accept" => Suspend([logged EXCEPT !.terminal = loop.spent], "settled")
      /\ decision = "refused" =>
            Suspend([logged EXCEPT !.status = "failed", !.spent = FALSE], "settled")
      /\ decision = "limited" =>
            Suspend([logged EXCEPT !.status = "limited", !.spent = FALSE], "limited")
      /\ decision = "defect" =>
            Suspend([loop EXCEPT !.status = "failed", !.spent = FALSE, !.terminal = TRUE],
                    "terminal")
      /\ decision = "reprompt" =>
            /\ loop' = [logged EXCEPT !.pc = "top", !.retries = @ + 1, !.finish = FALSE,
                                      !.log = Extended(@, "user", {})]
            /\ store' = store
  BY DEF ApplySettle
<1> HIDE DEF log
<1>6. logged \in Sessions
  BY <1>0, <1>4 DEF Sessions
<1>7. /\ logged.log = log /\ logged.pending = {} /\ logged.batch = {}
      /\ logged.tasks = loop.tasks /\ logged.ready = loop.ready /\ logged.queue = loop.queue
      /\ logged.delivered = loop.delivered /\ logged.status = loop.status
      /\ logged.spent = loop.spent /\ logged.terminal = loop.terminal
      /\ logged.park = loop.park /\ logged.input = loop.input /\ logged.finish = loop.finish
      /\ DOMAIN logged = SessionFields
  BY <1>2, <1>3 DEF SessionFields
<1> HIDE DEF logged
<1>8. Observes /\ Clean' = Clean
  BY <1>1 DEF Observes, Clean
<1>9. Clean => /\ loop.log.again \intersect Once = {}
               /\ loop.pending \intersect loop.log.items \intersect Once = {}
               /\ CallsHaveResults(loop)
  BY <1>1, <1>2, <1>3 DEF LogFits
<1>10. Clean => /\ log.again \intersect Once = {}
                /\ \A c \in Calls : <<"call", c>> \in log.items => <<"result", c>> \in log.items
  <2>1. \A c \in Calls : <<"call", c>> \notin loop.pending
    BY <1>0, CallIsPending
  <2> QED
    BY <1>3, <1>4, <1>9, <2>1 DEF CallsHaveResults, Logged
<1>11. \A c \in Calls :
         /\ <<"task", c>> \in log.items => c \in loop.delivered
         /\ <<"result", c>> \in log.items => kind[c] # None
  BY <1>4 DEF SessionFits, ObservationsAreKnown, Logged
<1>12. "stranded" \notin history.lapses => \A c \in Hosted : c \in loop.ready =>
          \/ c \in loop.ready \ loop.delivered /\ loop.tasks[c] \in Verdicts
          \/ <<"task", c>> \in log.items
  BY <1>4 DEF SessionFits, ReadyIsHeld, Held, Logged
<1>13. CASE decision \in {"accept", "refused", "limited"}
  <2>1. PICK l \in Sessions, reason \in Reasons :
          /\ Suspend(l, reason)
          /\ l.log = log /\ l.pending = {} /\ l.tasks = loop.tasks /\ l.ready = loop.ready
          /\ l.queue = loop.queue /\ l.delivered = loop.delivered /\ l.park = loop.park
          /\ l.input = loop.input /\ l.finish = loop.finish
          /\ reason \notin Unsettled
          /\ \/ l.status = loop.status /\ l.spent = loop.spent /\ l.terminal = loop.spent
             \/ l.status # "completed"
    <3>1. CASE decision = "accept"
      <4> DEFINE l == [logged EXCEPT !.terminal = loop.spent]
      <4>1. l \in Sessions
        BY <1>0, <1>6 DEF Sessions
      <4>2. /\ l.log = log /\ l.pending = {} /\ l.tasks = loop.tasks /\ l.ready = loop.ready
            /\ l.queue = loop.queue /\ l.delivered = loop.delivered /\ l.park = loop.park
            /\ l.input = loop.input /\ l.finish = loop.finish
            /\ l.status = loop.status /\ l.spent = loop.spent /\ l.terminal = loop.spent
        BY <1>7 DEF SessionFields
      <4>3. Suspend(l, "settled") /\ "settled" \in Reasons /\ "settled" \notin Unsettled
        BY <1>5, <3>1 DEF Reasons, Unsettled
      <4> QED
        BY <4>1, <4>2, <4>3
    <3>2. CASE decision = "refused"
      <4> DEFINE l == [logged EXCEPT !.status = "failed", !.spent = FALSE]
      <4>1. l \in Sessions
        BY <1>6 DEF Sessions
      <4>2. /\ l.log = log /\ l.pending = {} /\ l.tasks = loop.tasks /\ l.ready = loop.ready
            /\ l.queue = loop.queue /\ l.delivered = loop.delivered /\ l.park = loop.park
            /\ l.input = loop.input /\ l.finish = loop.finish /\ l.status # "completed"
        BY <1>7 DEF SessionFields
      <4>3. Suspend(l, "settled") /\ "settled" \in Reasons /\ "settled" \notin Unsettled
        BY <1>5, <3>2 DEF Reasons, Unsettled
      <4> QED
        BY <4>1, <4>2, <4>3
    <3>3. CASE decision = "limited"
      <4> DEFINE l == [logged EXCEPT !.status = "limited", !.spent = FALSE]
      <4>1. l \in Sessions
        BY <1>6 DEF Sessions
      <4>2. /\ l.log = log /\ l.pending = {} /\ l.tasks = loop.tasks /\ l.ready = loop.ready
            /\ l.queue = loop.queue /\ l.delivered = loop.delivered /\ l.park = loop.park
            /\ l.input = loop.input /\ l.finish = loop.finish /\ l.status # "completed"
        BY <1>7 DEF SessionFields
      <4>3. Suspend(l, "limited") /\ "limited" \in Reasons /\ "limited" \notin Unsettled
        BY <1>5, <3>3 DEF Reasons, Unsettled
      <4> QED
        BY <4>1, <4>2, <4>3
    <3> QED
      BY <1>13, <3>1, <3>2, <3>3
  <2>2. ObservationsAreKnown(l)
    BY <1>11, <2>1 DEF ObservationsAreKnown, Logged
  <2>3. "stranded" \notin history'.lapses => ReadyIsHeld(l)
    BY <1>1, <1>12, <2>1 DEF ReadyIsHeld, Held, Logged
  <2>4. Clean => LogIsSettled(l)
    <3>1. /\ l.log.again = log.again /\ l.pending \intersect l.log.items \intersect Once = {}
          /\ l.log.items = log.items
      BY <2>1
    <3> QED
      BY <1>10, <3>1 DEF LogIsSettled, Logged
  <2>5. l.status = "completed" =>
          /\ ~l.spent /\ ~l.terminal /\ l.park = None /\ TurnIsOver(l)
    BY <1>2, <1>3, <1>4, <2>1 DEF TurnIsOver
  <2> QED
    BY <1>1, <1>2, <1>8, <2>1, <2>2, <2>3, <2>4, <2>5, ParkStepFits
<1>14. CASE decision = "defect"
  <2> DEFINE l == [loop EXCEPT !.status = "failed", !.spent = FALSE, !.terminal = TRUE]
  <2>1. l \in Sessions
    BY <1>0 DEF Sessions
  <2>2. /\ l.log = loop.log /\ l.pending = loop.pending /\ l.tasks = loop.tasks
        /\ l.ready = loop.ready /\ l.queue = loop.queue /\ l.delivered = loop.delivered
        /\ l.park = loop.park /\ l.status = "failed" /\ l.terminal
    BY <1>2 DEF SessionFields
  <2>3. Suspend(l, "terminal") /\ "terminal" \in Reasons /\ "terminal" \notin Unsettled
    BY <1>5, <1>14 DEF Reasons, Unsettled
  <2> HIDE DEF l
  <2>4. ObservationsAreKnown(l) /\ ("stranded" \notin history'.lapses => ReadyIsHeld(l))
    BY <1>1, <2>2 DEF SessionFits, ObservationsAreKnown, ReadyIsHeld, Held, Logged
  <2>5. Clean => LogIsSettled(l)
    BY <1>9, <2>2 DEF LogIsSettled
  <2> QED
    BY <1>1, <1>2, <1>8, <2>1, <2>2, <2>3, <2>4, <2>5, ParkStepFits
<1>15. CASE decision = "reprompt"
  <2> DEFINE asked == Extended(log, "user", {})
  <2>1. asked \in Logs /\ asked.items = log.items /\ asked.again = log.again
    BY <1>4 DEF Extended, Logs
  <2>2. loop' = [logged EXCEPT !.pc = "top", !.retries = @ + 1, !.finish = FALSE, !.log = asked]
    BY <1>5, <1>7, <1>15
  <2> HIDE DEF asked
  <2>3. logged.retries + 1 \in Nat
    BY <1>6 DEF Sessions
  <2>4. loop' \in Sessions
    BY <1>6, <2>1, <2>2, <2>3 DEF Sessions, Pcs
  <2>5. /\ loop'.pc = "top" /\ loop'.log = asked /\ loop'.pending = {} /\ loop'.batch = {}
        /\ loop'.tasks = loop.tasks /\ loop'.ready = loop.ready /\ loop'.queue = loop.queue
        /\ loop'.delivered = loop.delivered /\ loop'.status = loop.status
        /\ loop'.spent = loop.spent /\ loop'.terminal = loop.terminal /\ loop'.park = loop.park
    BY <1>7, <2>2 DEF SessionFields
  <2>6. ObservationsAreKnown(loop')
    BY <1>11, <2>1, <2>5 DEF ObservationsAreKnown, Logged
  <2>7. "stranded" \notin history.lapses => ReadyIsHeld(loop')
    BY <1>12, <2>1, <2>5 DEF ReadyIsHeld, Held, Logged
  <2>8. Clean => LogIsSettled(loop')
    BY <1>10, <2>1, <2>5 DEF LogIsSettled, Logged
  <2>9. store' = store
    BY <1>5, <1>15
  <2> QED
    BY <1>1, <2>4, <2>5, <2>6, <2>7, <2>8, <2>9, TurnGoesOn
<1> QED
  BY <1>13, <1>14, <1>15
-----------------------------------------------------------------------------
(* Tasks, crash and restore *)

\* A task table entry and a publication change no part of the conversation.
LEMMA TaskStepFits ==
    ASSUME LoopInvariant, ConversationInv, Live, UNCHANGED <<store, kind, history>>,
           loop' \in Sessions, loop'.pc = loop.pc, loop'.batch = loop.batch,
           loop'.log = loop.log, loop'.pending = loop.pending, loop'.head = loop.head,
           loop'.status = loop.status, loop'.spent = loop.spent, loop'.input = loop.input,
           loop'.terminal = loop.terminal, loop'.park = loop.park, loop'.finish = loop.finish,
           loop'.mark = loop.mark, loop'.delivered = loop.delivered,
           loop.ready \subseteq loop'.ready, TasksOnce(loop'), ReportsFit',
           "stranded" \notin history.lapses => ReadyIsHeld(loop')
    PROVE  ConversationInv'
<1> USE DEF ConversationInv
<1>1. Live' /\ loop'.pc # "down" /\ Observes /\ Clean' = Clean
  BY DEF Live, Observes, Clean
<1>2. ObservationsAreKnown(loop') /\ ParkFits(loop')
  BY DEF SessionFits, ObservationsAreKnown, ParkFits, TurnIsOver, Logged
<1>3. Clean => LogFits(loop')
  BY DEF LogFits, CallsHaveResults, Overrun, Logged
<1>4. PumpFits(loop')
  BY DEF PumpFits
<1>5. history'.acked \subseteq Hosted \intersect loop'.ready
  BY DEF AcksFit
<1> QED
  BY <1>1, <1>2, <1>3, <1>4, <1>5, StepFits

\* A shell job was not published while it ran.
LEMMA ShellExitsFits ==
    ASSUME LoopInvariant, ConversationInv, NEW c \in Calls, ShellExits(c)
    PROVE  ConversationInv'
<1>0. loop \in Sessions /\ DOMAIN loop = SessionFields
  BY SessionIsRecord DEF ConversationInv, SessionFits
<1> DEFINE tasks == [loop.tasks EXCEPT ![c] = "exited"]
<1>1. /\ Live /\ kind[c] = "shell" /\ loop.tasks[c] = "running"
      /\ UNCHANGED <<store, reports, kind, history>>
      /\ loop' = [loop EXCEPT !.tasks = tasks, !.ready = @ \union {c}, !.queue = @ \union {c}]
  BY <1>0 DEF ShellExits, SessionFields
<1>2. /\ tasks \in [Calls -> {"none", "running", "exited"} \union Verdicts]
      /\ \A d \in Calls : d # c => tasks[d] = loop.tasks[d]
      /\ tasks[c] = "exited"
  BY <1>0, SessionIsRecord
<1> HIDE DEF tasks
<1>3. loop' \in Sessions
  BY <1>0, <1>1, <1>2 DEF Sessions
<1>4. /\ loop'.pc = loop.pc /\ loop'.batch = loop.batch
      /\ loop'.log = loop.log /\ loop'.pending = loop.pending /\ loop'.head = loop.head
      /\ loop'.status = loop.status /\ loop'.spent = loop.spent /\ loop'.input = loop.input
      /\ loop'.terminal = loop.terminal /\ loop'.park = loop.park /\ loop'.finish = loop.finish
      /\ loop'.mark = loop.mark /\ loop'.delivered = loop.delivered /\ loop'.tasks = tasks
      /\ loop'.ready = loop.ready \union {c} /\ loop'.queue = loop.queue \union {c}
  BY <1>0, <1>1 DEF SessionFields
<1>5. c \notin Hosted
  BY <1>1 DEF Hosted
<1>6. TasksOnce(loop')
  BY <1>1, <1>2, <1>4 DEF ConversationInv, SessionFits, TasksOnce
<1>7. ReportsFit'
  <2>1. \A r \in Reporters : reports[r].pc # "idle" => reports[r].call \in Calls /\ reports[r].call # c
    BY <1>5 DEF LoopInvariant, ReportsAreOfTasks, Hosted
  <2> QED
    BY <1>1, <1>2, <1>4, <2>1 DEF ConversationInv, ReportsFit
<1>8. "stranded" \notin history.lapses => ReadyIsHeld(loop')
  BY <1>2, <1>4, <1>5 DEF ConversationInv, SessionFits, ReadyIsHeld, Held, Logged, Hosted
<1> QED
  BY <1>1, <1>3, <1>4, <1>6, <1>7, <1>8, TaskStepFits

\* A new report has done nothing to its task yet.
LEMMA ReportArrivesFits ==
    ASSUME LoopInvariant, ConversationInv, NEW r \in Reporters, NEW c \in Calls, NEW v \in Verdicts,
           ReportArrives(r, c, v)
    PROVE  ConversationInv'
<1>1. Live /\ UNCHANGED <<loop, store, jobs, kind, history>>
  BY DEF ReportArrives
<1>2. /\ reports'[r].verdict = v
      /\ \/ reports'[r].pc = "apply"
         \/ reports'[r].pc = "persist" /\ ~reports'[r].first
      /\ \A q \in Reporters : q # r => reports'[q] = reports[q]
  BY DEF ReportArrives, LoopInvariant, ReportsAreOfTasks
<1>3. ReportsFit' /\ Observes /\ history'.acked \subseteq Hosted \intersect loop.ready
  BY <1>1, <1>2 DEF ConversationInv, ReportsFit, AcksFit, Observes, Live
<1> QED
  BY <1>1, <1>3, SameSessionFits

\* The verdict takes the place of running: what was held is held.
LEMMA ReportAppliesFits ==
    ASSUME LoopInvariant, ConversationInv, NEW r \in Reporters, ReportApplies(r)
    PROVE  ConversationInv'
<1>0. loop \in Sessions /\ DOMAIN loop = SessionFields
  BY SessionIsRecord DEF ConversationInv, SessionFits
<1> DEFINE c == reports[r].call
           v == reports[r].verdict
           tasks == [loop.tasks EXCEPT ![c] = v]
<1>1. /\ Live /\ reports[r].pc = "apply" /\ UNCHANGED <<store, kind, history>>
      /\ loop' = [loop EXCEPT !.tasks = tasks]
      /\ reports' = [reports EXCEPT ![r].pc = "publish"]
  BY <1>0 DEF ReportApplies, SessionFields
<1>2. c \in Hosted /\ c \in Calls /\ v \in Verdicts
  BY <1>1 DEF LoopInvariant, ReportsAreOfTasks, ConversationInv, ReportsFit, Hosted
<1>3. /\ reports'[r].pc = "publish" /\ reports'[r].call = c /\ reports'[r].verdict = v
      /\ \A q \in Reporters : q # r => reports'[q] = reports[q]
  BY <1>1 DEF LoopInvariant, ReportsAreOfTasks
<1> HIDE DEF c, v
<1>4. /\ tasks \in [Calls -> {"none", "running", "exited"} \union Verdicts]
      /\ \A d \in Calls : d # c => tasks[d] = loop.tasks[d]
      /\ tasks[c] = v
  BY <1>0, <1>2, SessionIsRecord
<1> HIDE DEF tasks
<1>5. loop' \in Sessions
  BY <1>0, <1>1, <1>4 DEF Sessions
<1>6. /\ loop'.pc = loop.pc /\ loop'.batch = loop.batch
      /\ loop'.log = loop.log /\ loop'.pending = loop.pending /\ loop'.head = loop.head
      /\ loop'.status = loop.status /\ loop'.spent = loop.spent /\ loop'.input = loop.input
      /\ loop'.terminal = loop.terminal /\ loop'.park = loop.park /\ loop'.finish = loop.finish
      /\ loop'.mark = loop.mark /\ loop'.delivered = loop.delivered /\ loop'.tasks = tasks
      /\ loop'.ready = loop.ready /\ loop'.queue = loop.queue
  BY <1>0, <1>1 DEF SessionFields
<1>7. TasksOnce(loop')
  BY <1>2, <1>4, <1>6 DEF ConversationInv, SessionFits, TasksOnce, Hosted
<1>8. ReportsFit'
  <2>1. \A q \in Reporters : reports[q].pc = "publish" => reports[q].call \in Calls
    BY DEF LoopInvariant, ReportsAreOfTasks, Hosted
  <2>2. loop.pc # "down"
    BY <1>1 DEF Live
  <2> QED
    BY <1>2, <1>3, <1>4, <1>6, <2>1, <2>2 DEF ConversationInv, ReportsFit
<1>9. "stranded" \notin history.lapses => ReadyIsHeld(loop')
  <2> SUFFICES ASSUME "stranded" \notin history.lapses, NEW d \in Hosted, d \in loop.ready
               PROVE  Held(loop', d)
    BY <1>6 DEF ReadyIsHeld
  <2>1. Held(loop, d) /\ d \in Calls
    BY DEF ConversationInv, SessionFits, ReadyIsHeld, Hosted
  <2> QED
    BY <1>2, <1>4, <1>6, <2>1 DEF Held, Logged
<1> QED
  BY <1>1, <1>5, <1>6, <1>7, <1>8, <1>9, TaskStepFits

\* What was not published is in no queue, so the publication holds it.
LEMMA ReportPublishesFits ==
    ASSUME LoopInvariant, ConversationInv, NEW r \in Reporters, ReportPublishes(r)
    PROVE  ConversationInv'
<1>0. loop \in Sessions /\ DOMAIN loop = SessionFields
  BY SessionIsRecord DEF ConversationInv, SessionFits
<1> DEFINE c == reports[r].call
<1>1. /\ Live /\ reports[r].pc = "publish" /\ UNCHANGED <<store, kind, history>>
      /\ loop' = IF c \in loop.ready THEN loop
                 ELSE [loop EXCEPT !.ready = @ \union {c}, !.queue = @ \union {c}]
      /\ reports' = [reports EXCEPT ![r].pc = "persist"]
  BY DEF ReportPublishes
<1>2. c \in Hosted /\ c \in Calls /\ loop.tasks[c] \in Verdicts
  BY <1>1 DEF LoopInvariant, ReportsAreOfTasks, ConversationInv, ReportsFit, Hosted
<1>3. /\ reports'[r].pc = "persist" /\ reports'[r].call = c
      /\ reports'[r].verdict = reports[r].verdict
      /\ \A q \in Reporters : q # r => reports'[q] = reports[q]
  BY <1>1 DEF LoopInvariant, ReportsAreOfTasks
<1> HIDE DEF c
<1>4. CASE c \in loop.ready
  <2>1. loop' = loop /\ loop.pc # "down"
    BY <1>1, <1>4 DEF Live
  <2>2. ReportsFit'
    BY <1>1, <1>3, <1>4, <2>1 DEF ConversationInv, ReportsFit
  <2>3. Observes /\ history'.acked \subseteq Hosted \intersect loop.ready
    BY <1>1 DEF Observes, ConversationInv, AcksFit
  <2> QED
    BY <1>1, <2>1, <2>2, <2>3, SameSessionFits
<1>5. CASE c \notin loop.ready
  <2>1. loop' = [loop EXCEPT !.ready = @ \union {c}, !.queue = @ \union {c}]
    BY <1>1, <1>5
  <2>2. loop' \in Sessions
    BY <1>0, <1>2, <2>1 DEF Sessions
  <2>3. /\ loop'.pc = loop.pc /\ loop'.batch = loop.batch
        /\ loop'.log = loop.log /\ loop'.pending = loop.pending /\ loop'.head = loop.head
        /\ loop'.status = loop.status /\ loop'.spent = loop.spent /\ loop'.input = loop.input
        /\ loop'.terminal = loop.terminal /\ loop'.park = loop.park /\ loop'.finish = loop.finish
        /\ loop'.mark = loop.mark /\ loop'.delivered = loop.delivered /\ loop'.tasks = loop.tasks
        /\ loop'.ready = loop.ready \union {c} /\ loop'.queue = loop.queue \union {c}
    BY <1>0, <2>1 DEF SessionFields
  <2>4. c \notin loop.delivered
    BY <1>2, <1>5 DEF LoopInvariant, TasksInOrder
  <2>5. TasksOnce(loop')
    BY <1>2, <2>3, <2>4 DEF ConversationInv, SessionFits, TasksOnce, Hosted
  <2>6. ReportsFit'
    <3>1. loop.pc # "down"
      BY <1>1 DEF Live
    <3> QED
      BY <1>1, <1>3, <2>3, <3>1 DEF ConversationInv, ReportsFit
  <2>7. "stranded" \notin history.lapses => ReadyIsHeld(loop')
    BY <1>2, <2>3, <2>4 DEF ConversationInv, SessionFits, ReadyIsHeld, Held, Logged
  <2> QED
    BY <1>1, <2>2, <2>3, <2>5, <2>6, <2>7, TaskStepFits
<1> QED
  BY <1>4, <1>5

\* A reporter is only answered when its task is in the checkpoint.
LEMMA ReportPersistsFits ==
    ASSUME LoopInvariant, ConversationInv, NEW r \in Reporters, ReportPersists(r)
    PROVE  ConversationInv'
<1>1. /\ Live /\ reports[r].pc = "persist" /\ UNCHANGED <<loop, kind>>
      /\ reports' = [reports EXCEPT ![r] = IdleReport]
      /\ store' = Persisted(loop)
  BY DEF ReportPersists
<1>2. /\ history'.acked = IF reports[r].first /\ ~ShellRuns(loop)
                          THEN history.acked \union {reports[r].call} ELSE history.acked
      /\ history'.lapses = history.lapses /\ history'.over = history.over
  BY DEF ReportPersists, LoopInvariant, LoopShape, HistoryFields
<1>3. /\ reports'[r] = IdleReport /\ \A q \in Reporters : q # r => reports'[q] = reports[q]
      /\ reports[r].call \in Hosted
  BY <1>1 DEF LoopInvariant, ReportsAreOfTasks
<1>4. ReportsFit' /\ Observes
  BY <1>1, <1>2, <1>3 DEF ConversationInv, ReportsFit, Observes, IdleReport, Live
<1>5. reports[r].first => reports[r].call \in loop.ready
  BY <1>1 DEF ConversationInv, ReportsFit
<1>6. history'.acked \subseteq Hosted \intersect loop.ready
  BY <1>1, <1>2, <1>3, <1>5 DEF ConversationInv, AcksFit
<1>7. store' \in {store, Checkpoint(loop)} /\ (~ShellRuns(loop) => store' = Checkpoint(loop))
  BY <1>1 DEF Persisted
<1> QED
  BY <1>1, <1>2, <1>4, <1>6, <1>7, SameSessionFits

\* A new session fits.
LEMMA NewSessionFits ==
    /\ NewSession \in Sessions
    /\ NewSession.pc = "parked" /\ NewSession.log = NoLog /\ NewSession.pending = {}
    /\ NewSession.batch = {} /\ NewSession.ready = {} /\ NewSession.queue = {}
    /\ NewSession.delivered = {} /\ ~NewSession.spent /\ ~NewSession.terminal
    /\ NewSession.park = None
BY DEF NewSession, Sessions, NoLog, Logs, Pcs, Reasons

LEMMA EmptySessionFits ==
    ASSUME NEW pc \in {"parked", "down"}, NEW l, l = [NewSession EXCEPT !.pc = pc]
    PROVE  /\ l \in Sessions /\ l.pc = pc /\ l.ready = {}
           /\ ReadyIsHeld(l) /\ TasksOnce(l) /\ ObservationsAreKnown(l) /\ ParkFits(l)
           /\ LogFits(l) /\ PumpFits(l)
<1>1. /\ l \in Sessions
      /\ l.pc = pc /\ l.log = NoLog /\ l.pending = {} /\ l.batch = {} /\ l.ready = {}
      /\ l.queue = {} /\ l.delivered = {} /\ ~l.spent /\ ~l.terminal /\ l.park = None
  <2>1. NewSession \in Sessions /\ DOMAIN NewSession = SessionFields
    BY NewSessionFits, SessionIsRecord
  <2>2. l \in Sessions
    BY <2>1 DEF Sessions, Pcs
  <2> QED
    BY <2>1, <2>2, NewSessionFits DEF SessionFields
<1>2. l.log.items = {} /\ l.log.again = {}
  BY <1>1 DEF NoLog
<1>3. ReadyIsHeld(l) /\ TasksOnce(l) /\ ObservationsAreKnown(l) /\ ParkFits(l)
  BY <1>1, <1>2 DEF ReadyIsHeld, TasksOnce, ObservationsAreKnown, ParkFits, Logged
<1>4. LogFits(l)
  BY <1>1, <1>2 DEF LogFits, CallsHaveResults, Logged
<1>5. PumpFits(l)
  BY <1>1, LoopAssumption DEF PumpFits, Unsettled
<1> QED
  BY <1>1, <1>3, <1>4, <1>5

\* A crash leaves the checkpoint, and no report under way.
LEMMA CrashFits ==
    ASSUME LoopInvariant, ConversationInv, Crash
    PROVE  ConversationInv'
<1>1. /\ Live /\ UNCHANGED <<store, kind>> /\ loop' = [NewSession EXCEPT !.pc = "down"]
      /\ reports' = [r \in Reporters |-> IdleReport]
  BY DEF Crash
<1>2. /\ history'.lapses = history.lapses /\ history'.over = history.over
      /\ history'.acked = history.acked
  BY DEF Crash, LoopInvariant, LoopShape, HistoryFields
<1>3. /\ loop' \in Sessions /\ loop'.pc = "down" /\ loop'.ready = {}
      /\ ReadyIsHeld(loop') /\ TasksOnce(loop') /\ ObservationsAreKnown(loop') /\ ParkFits(loop')
      /\ LogFits(loop') /\ PumpFits(loop')
  BY <1>1, EmptySessionFits
<1>4. Hosted' = Hosted /\ Clean' = Clean /\ loop.pc # "closed"
  BY <1>1, <1>2 DEF Hosted, Clean, Live
<1>5. SessionFits(loop)' /\ PumpFits(loop)' /\ LogFits(loop)'
  BY <1>1, <1>3, <1>4
     DEF SessionFits, ReadyIsHeld, Held, TasksOnce, ObservationsAreKnown, ParkFits, TurnIsOver,
         PumpFits, LogFits, CallsHaveResults, Overrun, Logged
<1>6. StoreFits'
  BY <1>1, <1>2, <1>4
     DEF ConversationInv, StoreFits, SessionFits, ReadyIsHeld, Held, TasksOnce,
         ObservationsAreKnown, ParkFits, TurnIsOver, LogFits, CallsHaveResults, Overrun, Logged
<1>7. ReportsFit' /\ AcksFit'
  BY <1>1, <1>2, <1>3, <1>4 DEF ConversationInv, ReportsFit, AcksFit, IdleReport, Live
<1> QED
  BY <1>2, <1>3, <1>4, <1>5, <1>6, <1>7 DEF ConversationInv, HonestClose

\* A restored session holds and says what the checkpoint does; its lost shells
\* are told to the model.
LEMMA RestoreFits ==
    ASSUME LoopInvariant, ConversationInv, NEW cleared \in BOOLEAN, Restore(cleared)
    PROVE  ConversationInv'
<1> DEFINE cancel == IF cleared THEN None ELSE store.cancel
           lost == {"lost"} \X LostShells
<1>1. /\ loop.pc = "down" /\ store # None /\ UNCHANGED <<store, reports, kind>>
      /\ loop' = [store EXCEPT !.pc = "parked", !.reason = RestoredReason,
                               !.mark = Marker(store.park), !.pending = @ \union lost,
                               !.cancel = cancel]
  BY DEF Restore
<1>2. /\ store \in Sessions /\ DOMAIN store = SessionFields /\ store.batch = {}
      /\ SessionFits(store)
      /\ Clean /\ store.pc \notin {"calling", "tools"} => LogFits(store)
  BY <1>1, SessionIsRecord
     DEF ConversationInv, StoreFits, SessionFits, LoopInvariant, CallsInOrder
<1>3. /\ RestoredReason \in Reasons /\ cancel \in {None, "user", "drain"}
      /\ Marker(store.park) \in {None, "turn_failed", "paused", "interrupted"}
      /\ store.pending \union lost \subseteq Observations
  BY <1>2 DEF RestoredReason, Marker, Sessions, Reasons, Observations, LostShells
<1>4. /\ history'.lapses = Lapsed(store.pc \in {"calling", "tools"}, "midturn")
      /\ history'.over = history.over /\ history'.acked = history.acked
  BY DEF Restore, LoopInvariant, LoopShape, HistoryFields
<1>5. /\ \A c \in Calls : /\ <<"task", c>> \notin lost /\ <<"result", c>> \notin lost
      /\ lost \intersect Once = {}
  BY DEF Once
<1> HIDE DEF cancel, lost
<1>6. loop' \in Sessions
  <2> DEFINE q == [store EXCEPT !.pc = "parked", !.reason = RestoredReason]
             p == [q EXCEPT !.mark = Marker(store.park)]
  <2>1. q \in Sessions
    BY <1>2, <1>3 DEF Sessions, Pcs
  <2> HIDE DEF q
  <2>2. p \in Sessions
    BY <1>3, <2>1 DEF Sessions
  <2> HIDE DEF p
  <2>3. [p EXCEPT !.pending = store.pending \union lost, !.cancel = cancel] \in Sessions
    BY <1>3, <2>2 DEF Sessions
  <2>4. loop' = [p EXCEPT !.pending = store.pending \union lost, !.cancel = cancel]
    BY <1>1, <1>2 DEF p, q, SessionFields
  <2> QED
    BY <2>3, <2>4
<1>7. /\ loop'.pc = "parked" /\ loop'.mark = Marker(store.park)
      /\ loop'.pending = store.pending \union lost
      /\ loop'.log = store.log /\ loop'.batch = {} /\ loop'.tasks = store.tasks
      /\ loop'.ready = store.ready /\ loop'.queue = store.queue
      /\ loop'.delivered = store.delivered /\ loop'.status = store.status
      /\ loop'.spent = store.spent /\ loop'.terminal = store.terminal
      /\ loop'.park = store.park /\ loop'.input = store.input /\ loop'.finish = store.finish
  BY <1>1, <1>2 DEF SessionFields
<1>8. /\ Hosted' = Hosted /\ (Clean' => Clean /\ store.pc \notin {"calling", "tools"})
      /\ "stranded" \notin history'.lapses => "stranded" \notin history.lapses
  BY <1>1, <1>4 DEF Hosted, Clean, Lapsed
<1>9. SessionFits(loop)'
  <2>1. TasksOnce(loop)'
    BY <1>1, <1>2, <1>7 DEF SessionFits, TasksOnce
  <2>2. ObservationsAreKnown(loop)'
    BY <1>1, <1>2, <1>5, <1>7 DEF SessionFits, ObservationsAreKnown, Logged
  <2>3. ParkFits(loop)'
    BY <1>2, <1>5, <1>7 DEF SessionFits, ParkFits, TurnIsOver
  <2>4. "stranded" \notin history'.lapses => ReadyIsHeld(loop)'
    BY <1>2, <1>7, <1>8 DEF SessionFits, ReadyIsHeld, Held, Logged
  <2> QED
    BY <1>6, <2>1, <2>2, <2>3, <2>4 DEF SessionFits
<1>10. PumpFits(loop)'
  BY <1>7, LoopAssumption DEF PumpFits, Marker, Unsettled
<1>11. Clean' => LogFits(loop)'
  <2> SUFFICES ASSUME Clean' PROVE LogFits(loop')
    BY DEF LogFits, CallsHaveResults, Overrun, Logged
  <2>1. LogFits(store) /\ store.pc # "calling" /\ ~Overrun(store)
    BY <1>2, <1>8 DEF Overrun
  <2>2. ~store.terminal => loop'.pending \intersect loop'.log.items \intersect Once = {}
    BY <1>5, <1>7, <2>1 DEF LogFits
  <2>3. ~store.terminal => CallsHaveResults(loop')
    BY <1>2, <1>7, <2>1 DEF LogFits, CallsHaveResults, Logged
  <2>4. loop'.log.again \intersect Once = {}
    BY <1>7, <2>1 DEF LogFits
  <2> QED
    BY <1>7, <2>2, <2>3, <2>4 DEF LogFits
<1>12. StoreFits'
  BY <1>1, <1>2, <1>8
     DEF StoreFits, SessionFits, ReadyIsHeld, Held, TasksOnce,
         ObservationsAreKnown, ParkFits, TurnIsOver, LogFits, CallsHaveResults, Overrun, Logged
<1>13. ReportsFit' /\ AcksFit'
  BY <1>1, <1>4, <1>7, <1>8 DEF ConversationInv, ReportsFit, AcksFit
<1> QED
  BY <1>1, <1>4, <1>7, <1>9, <1>10, <1>11, <1>12, <1>13 DEF ConversationInv, HonestClose

-----------------------------------------------------------------------------
(* The theorems on the conversation *)

\* A run starts with nothing acknowledged, sent or closed.
LEMMA LoopInitFits == LoopInit => ConversationInv
<1> SUFFICES ASSUME LoopInit PROVE ConversationInv
  OBVIOUS
<1>1. loop = [NewSession EXCEPT !.pc = "parked"] /\ store = None
  BY NewSessionInOrder DEF LoopInit, NewSession
<1>2. /\ loop \in Sessions /\ loop.pc = "parked" /\ loop.ready = {}
      /\ ReadyIsHeld(loop) /\ TasksOnce(loop) /\ ObservationsAreKnown(loop) /\ ParkFits(loop)
      /\ LogFits(loop) /\ PumpFits(loop)
  BY <1>1, EmptySessionFits
<1>3. history.acked = {} /\ history.over = None
  BY DEF LoopInit
<1>4. ReportsFit
  BY <1>2 DEF LoopInit, ReportsFit, IdleReport
<1> QED
  BY <1>1, <1>2, <1>3, <1>4 DEF ConversationInv, SessionFits, StoreFits, AcksFit, HonestClose

\* Every step keeps the conversation, one case per action.
LEMMA LoopNextFits ==
    LoopInvariant /\ ConversationInv /\ [LoopNext]_loopVars => ConversationInv'
<1> SUFFICES ASSUME LoopInvariant, ConversationInv, [LoopNext]_loopVars PROVE ConversationInv'
  OBVIOUS
<1>1. CASE Driver
  BY <1>1, SubmitFits, PersistParkFits, StopRequestFits, GiveUpFits, CloseFits DEF Driver
<1>2. CASE Pump
  <2>1. CASE Cancelled \/ Interrupted \/ Paused \/ StepLimit \/ BeginStep
    BY <2>1, CancelledFits, InterruptedFits, TopStopsFit, BeginStepFits
  <2>2. CASE (\E c \in Calls : ConsumeReplay(c)) \/ RunReplay \/ EndReplay
    BY <2>2, ConsumeReplayFits, RunReplayFits, EndReplayFits
  <2>3. CASE SendRequest \/ LimitReached \/ \E recoverable \in BOOLEAN : ModelFails(recoverable)
    BY <2>3, SendRequestFits, LimitReachedFits, ModelFailsFits
  <2>4. CASE (\E batch \in SUBSET Calls : ModelCalls(batch)) \/ ModelAnswers
    BY <2>4, ModelCallsFits, ModelAnswersFits
  <2>5. CASE \E c \in Calls, k \in Kinds : RunCall(c, k)
    BY <2>5, OverBudgetFits, CallRunsFits
  <2>6. CASE \/ EndBatch
             \/ \E decision \in {"accept", "refused", "limited", "defect", "reprompt"} :
                   ApplySettle(decision)
    BY <2>6, EndBatchFits, ApplySettleFits
  <2> QED
    BY <1>2, <2>1, <2>2, <2>3, <2>4, <2>5, <2>6 DEF Pump
<1>3. CASE Tasks
  BY <1>3, ShellExitsFits, ReportArrivesFits, ReportAppliesFits, ReportPublishesFits,
     ReportPersistsFits DEF Tasks
<1>4. CASE Crash
  BY <1>4, CrashFits
<1>5. CASE \E cleared \in BOOLEAN : Restore(cleared)
  BY <1>5, RestoreFits
<1>6. CASE UNCHANGED loopVars
  BY <1>6
     DEF loopVars, ConversationInv, SessionFits, PumpFits, Clean, LogFits, StoreFits, ReportsFit,
         AcksFit, HonestClose, ReadyIsHeld, Held, TasksOnce, ObservationsAreKnown, ParkFits,
         TurnIsOver, CallsHaveResults, Overrun, Logged, Hosted, Live
<1> QED
  BY <1>1, <1>2, <1>3, <1>4, <1>5, <1>6 DEF LoopNext

\* Both invariants together.
LEMMA LoopAlwaysFits == LoopSpec => [](LoopInvariant /\ ConversationInv)
BY LoopInitOK, LoopNextOK, LoopInitFits, LoopNextFits, PTL DEF LoopSpec

\* For every number of calls, reporters, stops and crashes: a result that was
\* acknowledged as delivered is held by the live session and by the checkpoint
\* until the run is closed (report_result, _persist_checkpoint).
THEOREM ReportsAreNotLost == LoopSpec => []ResultsAreKept
<1>1. ConversationInv => ResultsAreKept
  <2> SUFFICES ASSUME ConversationInv, "stranded" \notin history.lapses, NEW c \in history.acked
               PROVE  /\ Live => Held(loop, c)
                      /\ loop.pc # "closed" => store # None /\ Held(store, c)
    BY DEF ResultsAreKept
  <2>1. c \in Hosted
    BY DEF ConversationInv, AcksFit
  <2>2. Live => Held(loop, c)
    BY <2>1 DEF ConversationInv, AcksFit, SessionFits, ReadyIsHeld
  <2>3. loop.pc # "closed" => store # None /\ Held(store, c)
    BY <2>1 DEF ConversationInv, AcksFit, StoreFits, SessionFits, ReadyIsHeld
  <2> QED
    BY <2>2, <2>3
<1> QED
  BY <1>1, LoopAlwaysFits, PTL

\* A request of the model has one result for every call and none twice, whatever
\* parks, failures and restores came before (_build_turn_request, _apump_turn).
THEOREM RequestsAreWellFormed == LoopSpec => []LogIsWellFormed
<1>1. ConversationInv => LogIsWellFormed
  BY CallingIsSettled DEF LogIsWellFormed, Clean, Once
<1> QED
  BY <1>1, LoopAlwaysFits, PTL

\* A run is closed as completed only over the end of a turn (close,
\* _promote_unsettled_close), after a restart too.
THEOREM CompletedIsSettled == LoopSpec => []HonestClose
<1>1. ConversationInv => HonestClose
  BY DEF ConversationInv
<1> QED
  BY <1>1, LoopAlwaysFits, PTL

LoopTypeOK == loop \in Sessions /\ (store = None \/ store \in Sessions)

\* The live session and the checkpoint have their types (_Session, RunState and
\* the payload of snapshot).
THEOREM SessionsAreTyped == LoopSpec => []LoopTypeOK
<1>1. ConversationInv => LoopTypeOK
  BY DEF ConversationInv, StoreFits, SessionFits, LoopTypeOK
<1> QED
  BY <1>1, LoopAlwaysFits, PTL
=============================================================================
