------------------------------ MODULE SyncBridge ------------------------------
(***************************************************************************)
(* The race behind every model call (core/_sync_bridge.py): an awaiter on  *)
(* the event loop waits for a callee, which is a blocking call on a daemon *)
(* thread ("sync") or a coroutine ("async"), and gives up at a run         *)
(* boundary.  A callee with shared state, such as the replay adapter with  *)
(* its cursor, is told of every result that nobody will read.              *)
(*                                                                         *)
(* Code on the loop runs between two awaits in one step.  The worker       *)
(* thread, the thread that cancels the token, the timers and the host's    *)
(* own task cancellation come at any time.                                 *)
(***************************************************************************)
EXTENDS Naturals

VARIABLES
    shape,     \* "sync" or "async"
    outcome,   \* of the callee: "unstarted", "running", or how it ended
    future,    \* `task`: the waiter of a sync call, the task of an async one
    post,      \* deliver() of a sync call: none, posted, run, refused, dropped
    asked,     \* an async callee was asked to cancel
    callback,  \* an async task has the done callback of the detach path
    awaiter,   \* where await_abandonable_call is, and what it gives
    token,     \* the cancellation token and the callback of this wait
    late,      \* the deadline has passed
    open,      \* the event loop is not closed
    handed     \* history: times the result was handed back

bridgeVars == <<shape, outcome, future, post, asked, callback, awaiter, token, late, open, handed>>

Endings == {"value", "error", "cancelled"}

-----------------------------------------------------------------------------
(* hand_back_discarded *)

\* The produced result goes back to whoever made it; an error does not.
HandBack(ending) == handed' = IF ending = "value" THEN handed + 1 ELSE handed

KeepResult == UNCHANGED handed

-----------------------------------------------------------------------------
(* The callee *)

\* worker(): the call returns or raises, and posts its delivery to the loop; a
\* loop that has closed refuses it, so the thread itself hands back.
WorkerReturns(ending) ==
    /\ shape = "sync" /\ outcome = "running"
    /\ outcome' = ending
    /\ \/ open /\ post' = "posted" /\ KeepResult
       \/ ~open /\ post' = "refused" /\ HandBack(ending)
    /\ UNCHANGED <<shape, future, asked, callback, awaiter, token, late, open>>

\* deliver() on the loop: it settles the waiter, or finds it cancelled.
Deliver ==
    /\ post = "posted" /\ open /\ awaiter.pc # "live"
    /\ post' = "run"
    /\ \/ future = "pending" /\ future' = outcome /\ KeepResult
       \/ future # "pending" /\ HandBack(outcome) /\ UNCHANGED future
    /\ UNCHANGED <<shape, outcome, asked, callback, awaiter, token, late, open>>

\* A coroutine ends as it likes, after a cancellation too; one that never
\* started can only be cancelled.
AsyncEnds(ending) ==
    /\ shape = "async" /\ future = "pending" /\ open
    /\ outcome = "unstarted" => asked /\ ending = "cancelled"
    /\ outcome' = ending /\ future' = ending
    /\ IF callback THEN HandBack(ending) ELSE KeepResult
    /\ UNCHANGED <<shape, post, asked, callback, awaiter, token, late, open>>

Callee == \E ending \in Endings : WorkerReturns(ending) \/ AsyncEnds(ending)

-----------------------------------------------------------------------------
(* await_abandonable_call *)

\* Mutant: a request that came before the wait is not noticed.
RegisterMissesRequest == token' = [token EXCEPT !.callback = "registered"]

\* add_cancel_callback: a token already requested calls back at once.
Register ==
    token' = IF token.requested THEN [token EXCEPT !.signal = TRUE]
             ELSE [token EXCEPT !.callback = "registered"]

\* remove_callback: what the canceller has taken it will still call.
Unregister ==
    token' = IF token.callback = "registered" THEN [token EXCEPT !.callback = "none"] ELSE token

EnterWait ==
    /\ awaiter.pc = "live"
    /\ awaiter' = [awaiter EXCEPT !.pc = "waiting"]
    /\ outcome' = IF outcome = "unstarted" THEN "running" ELSE outcome
    /\ Register
    /\ UNCHANGED <<shape, future, post, asked, callback, late, open, handed>>

\* The wait is over with `result`.
Ends(result) == awaiter' = [pc |-> "done", result |-> result]

\* detach_unfinished_call, up to its own wait: cancelling a sync waiter completes
\* it at once, cancelling a task only asks.
Detach(result) ==
    /\ awaiter' = [pc |-> "detaching", result |-> result]
    /\ \/ shape = "sync" /\ future' = "cancelled" /\ UNCHANGED asked
       \/ shape = "async" /\ asked' = TRUE /\ UNCHANGED future

\* Mutant: a result that a boundary overtakes is only consumed.
GiveUpConsumes(result) ==
    \/ future = "pending" /\ Detach(result) /\ KeepResult
    \/ future # "pending" /\ Ends(result) /\ KeepResult /\ UNCHANGED <<future, asked>>

\* The finally clause: release the call, or hand back what it produced.
GiveUp(result) ==
    \/ future = "pending" /\ Detach(result) /\ KeepResult
    \/ future # "pending" /\ Ends(result) /\ HandBack(future) /\ UNCHANGED <<future, asked>>

\* check_boundary
Stopped == token.requested \/ late

\* The wait ends by the call, the token or the deadline, and the boundary is
\* looked at first.
Wake ==
    /\ awaiter.pc = "waiting"
    /\ future # "pending" \/ token.signal \/ late
    /\ \/ Stopped /\ GiveUp("boundary")
       \/ ~Stopped /\ Ends(future) /\ KeepResult /\ UNCHANGED <<future, asked>>
    /\ Unregister
    /\ UNCHANGED <<shape, outcome, post, callback, late, open>>

\* The host cancels the awaiting task.
CallerCancelled ==
    /\ awaiter.pc = "waiting"
    /\ GiveUp("stopped") /\ Unregister
    /\ UNCHANGED <<shape, outcome, post, callback, late, open>>

\* abandon_unwaited_call: an accessor failed after the call was started.
AbandonUnwaited ==
    /\ awaiter.pc = "live"
    /\ Detach("failed")
    /\ UNCHANGED <<shape, outcome, post, callback, token, late, open, handed>>

\* The callee settled or the grace is over, whichever comes first.
DetachEnds ==
    /\ awaiter.pc = "detaching"
    /\ Ends(awaiter.result)
    /\ \/ future # "pending" /\ HandBack(future) /\ UNCHANGED callback
       \/ future = "pending" /\ callback' = TRUE /\ KeepResult
    /\ UNCHANGED <<shape, outcome, future, post, asked, token, late, open>>

\* The host cancels again during the grace: the wait of detach raises, and
\* nothing after it runs.
CancelledAgain ==
    /\ awaiter.pc = "detaching"
    /\ Ends("twice")
    /\ UNCHANGED <<shape, outcome, future, post, asked, callback, token, late, open, handed>>

Awaiter == EnterWait \/ Wake \/ DetachEnds

-----------------------------------------------------------------------------
(* The token, the clock and the loop *)

\* CancellationToken._request: the callbacks are taken under the lock.
Request ==
    /\ ~token.requested
    /\ token' = [token EXCEPT !.requested = TRUE,
                              !.callback = IF @ = "registered" THEN "taken" ELSE @]
    /\ UNCHANGED <<shape, outcome, future, post, asked, callback, awaiter, late, open, handed>>

\* signal_cancelled, called after the lock was released.
CallBack ==
    /\ token.callback = "taken"
    /\ token' = [token EXCEPT !.callback = "called", !.signal = open]
    /\ UNCHANGED <<shape, outcome, future, post, asked, callback, awaiter, late, open, handed>>

DeadlinePasses ==
    /\ ~late /\ late' = TRUE
    /\ UNCHANGED <<shape, outcome, future, post, asked, callback, awaiter, token, open, handed>>

\* asyncio.run ends: tasks are waited for, daemon threads are not, and a
\* delivery posted after the last turn of the loop is lost.
LoopCloses ==
    /\ open /\ awaiter.pc = "done" /\ (shape = "async" => future # "pending")
    /\ open' = FALSE
    /\ post' = IF post = "posted" THEN "dropped" ELSE post
    /\ UNCHANGED <<shape, outcome, future, asked, callback, awaiter, token, late, handed>>

BridgeInit ==
    /\ shape \in {"sync", "async"}
    /\ outcome = IF shape = "sync" THEN "running" ELSE "unstarted"
    /\ future = "pending" /\ post = "none" /\ asked = FALSE /\ callback = FALSE
    /\ awaiter = [pc |-> "live", result |-> "none"]
    /\ token \in [requested : BOOLEAN, callback : {"none"}, signal : {FALSE}]
    /\ late = FALSE /\ open = TRUE /\ handed = 0

BridgeNext ==
    \/ Callee \/ Deliver \/ Awaiter
    \/ CallerCancelled \/ AbandonUnwaited \/ CancelledAgain
    \/ Request \/ CallBack \/ DeadlinePasses \/ LoopCloses

BridgeSpec == BridgeInit /\ [][BridgeNext]_bridgeVars

-----------------------------------------------------------------------------
(* Properties *)

\* Two ways out that the hand-back rule does not reach.
OutOfReach == post = "dropped" \/ (shape = "async" /\ awaiter.result = "twice")

(* No answer is spent in silence.  A result that the callee produced is given to
   the caller or handed back, never both and never twice, whichever of worker,
   boundary, host cancellation and closing loop comes first. *)
ResultIsAccountedFor ==
    /\ handed + (IF awaiter.result = "value" THEN 1 ELSE 0) <= 1
    /\ outcome = "value" /\ awaiter.pc = "done" /\ post # "posted" /\ ~OutOfReach =>
          handed + (IF awaiter.result = "value" THEN 1 ELSE 0) = 1

(* A run that has to stop is released, although its callee may never return:
   no request of the token is missed, and no wait is without a limit. *)
AwaiterIsReleased == awaiter.pc # "done" /\ Stopped ~> awaiter.pc = "done"
=============================================================================
