----------------------------- MODULE CommandLane -----------------------------
(***************************************************************************)
(* One run from admission to durable application: the outbox of            *)
(* CommandOutbox, the Temporal transport and per-run Workflow              *)
(* (adapters/temporal/dispatcher.py, workflow.py), and the Activity        *)
(* attempts that bind and drive a command (admission.bind_activation,      *)
(* hosting/activation.py) under the writer lease.                          *)
(*                                                                         *)
(* The lease is FencedLease, which AuthorityStore implements; how an       *)
(* attempt notices its loss is LeaseSupervisor's business, so here an      *)
(* attempt goes on until the store fences it.  Temporal may give up on an  *)
(* attempt that is still running and start another one.                    *)
(***************************************************************************)
EXTENDS CommandOutbox, Sequences

CONSTANTS
    Attempts,        \* Activity attempts that may run at one time
    NoAttempt,       \* no attempt; nobody holds the lease
    MaxGeneration    \* bound on writer generations

ASSUME AttemptsAssumption == NoAttempt \notin Attempts
ASSUME MaxGenerationAssumption == MaxGeneration \in Nat

VARIABLES
    generation,   \* writer generations granted
    holder,       \* attempt that holds the lease
    log,          \* checkpoint_record in sequence order
    signals,      \* Signal-With-Start requests under way
    workflow,     \* TemporalRunWorkflow
    attempt       \* per attempt: the Activity and its ActivationDriver

leaseVars == <<generation, holder>>

laneVars == <<outboxVars, leaseVars, log, signals, workflow, attempt>>

Lease == INSTANCE FencedLease WITH Owners <- Attempts, NoOwner <- NoAttempt

-----------------------------------------------------------------------------
\* A checkpoint names the command it advances, whether that command completed
\* with it, and whether the run ended.  The first one seeds the run.
Seed == [seq |-> 0, phase |-> "completed", terminal |-> FALSE]

Checkpoints == [seq : {0} \union Lane, phase : {"running", "completed"}, terminal : BOOLEAN]

Latest == log[Len(log)]

\* applied_input_ids: completed commands stay in every later checkpoint.
Applied == {log[i].seq : i \in {j \in 1 .. Len(log) : log[j].phase = "completed"}}

NoWorkflow == [status |-> "none", next |-> 1, pending |-> {}, inflight |-> 0, attempt |-> NoAttempt]

Off == [stage |-> "off", seq |-> 0, generation |-> 0, at |-> 0, result |-> "none"]

Workflows ==
    [status : {"none", "running", "terminal", "failed"}, next : 1 .. MaxCommands + 1,
     pending : SUBSET Lane, inflight : {0} \union Lane, attempt : Attempts \union {NoAttempt}]

AttemptStates ==
    [stage : {"off", "claim", "bind", "load", "check", "drive", "settle", "done"},
     seq : {0} \union Lane, generation : 0 .. MaxGeneration, at : 0 .. MaxCheckpoints,
     result : {"none", "parked", "terminal", "retry", "fatal"}]

\* The guarded transactions of an attempt succeed while its generation is the
\* newest: nobody can be granted the run while one of them is open.
Current(a) == attempt[a].generation = generation

Become(a, stage) == attempt' = [attempt EXCEPT ![a].stage = stage]

Finish(a, result) ==
    attempt' = [attempt EXCEPT ![a] = [Off EXCEPT !.stage = "done", !.result = result]]

-----------------------------------------------------------------------------
(* Temporal: Signal-With-Start, and the Workflow's signal handler *)

Request(d) == [from |-> d, seq |-> dispatcher[d].seq, generation |-> dispatcher[d].generation]

SendSignal(d) ==
    /\ Send(d)
    /\ signals' = signals \union {Request(d)}
    /\ UNCHANGED <<leaseVars, log, workflow, attempt>>

\* submit_command: sequences that are done, in flight or buffered are duplicates.
Submitted(s) ==
    IF s < workflow.next \/ s = workflow.inflight
    THEN workflow
    ELSE [workflow EXCEPT !.status = "running", !.pending = @ \union {s}]

Waiting(m) ==
    /\ dispatcher[m.from].stage = "sent"
    /\ dispatcher[m.from].seq = m.seq /\ dispatcher[m.from].generation = m.generation

\* The server accepts or refuses the request; the answer may come too late.
ServeSignal(m) ==
    LET closed == workflow.status \in {"terminal", "failed"} IN
    /\ signals' = signals \ {m}
    /\ workflow' = IF closed THEN workflow ELSE Submitted(m.seq)
    /\ \/ Waiting(m) /\ Reply(m.from, IF closed THEN "closed" ELSE "accepted")
       \/ UNCHANGED outboxVars
    /\ UNCHANGED <<leaseVars, log, attempt>>

\* A timeout or retryable RPC error, or a refusal; the request itself may live on.
TransportFails(d, reply) ==
    /\ Reply(d, reply)
    /\ signals' = IF reply = "rejected" THEN signals \ {Request(d)} ELSE signals
    /\ reply = "rejected" => Request(d) \in signals
    /\ UNCHANGED <<leaseVars, log, workflow, attempt>>

LoseSignal(m) ==
    /\ signals' = signals \ {m}
    /\ UNCHANGED <<outboxVars, leaseVars, log, workflow, attempt>>

-----------------------------------------------------------------------------
(* The Workflow's main loop *)

TakeCommand ==
    /\ workflow.status = "running" /\ workflow.inflight = 0
    /\ workflow.next \in workflow.pending
    /\ workflow' = [workflow EXCEPT !.inflight = workflow.next,
                                    !.pending = @ \ {workflow.next}]
    /\ UNCHANGED <<outboxVars, leaseVars, log, signals, attempt>>

\* The first attempt, a retry, or the first attempt of a redrive.
ScheduleAttempt(a) ==
    /\ workflow.status = "running" /\ workflow.inflight # 0
    /\ workflow.attempt = NoAttempt /\ attempt[a].stage = "off"
    /\ workflow' = [workflow EXCEPT !.attempt = a]
    /\ attempt' = [attempt EXCEPT ![a] = [Off EXCEPT !.stage = "claim", !.seq = workflow.inflight]]
    /\ UNCHANGED <<outboxVars, leaseVars, log, signals>>

\* Heartbeat or start-to-close timeout: the attempt may still be running.
AttemptTimesOut ==
    /\ workflow.attempt # NoAttempt
    /\ workflow' = [workflow EXCEPT !.attempt = NoAttempt]
    /\ UNCHANGED <<outboxVars, leaseVars, log, signals, attempt>>

\* Retries exhausted, history full: the command goes back to the buffer.
ContinueAsNew ==
    /\ workflow.status = "running" /\ workflow.inflight # 0 /\ workflow.attempt = NoAttempt
    /\ workflow' = [workflow EXCEPT !.pending = @ \union {workflow.inflight}, !.inflight = 0]
    /\ UNCHANGED <<outboxVars, leaseVars, log, signals, attempt>>

\* Mutant: exhausted retries count as done.
AfterActivitySkips(result) ==
    CASE result = "fatal" -> [workflow EXCEPT !.attempt = NoAttempt, !.status = "failed"]
      [] result \in {"retry", "parked", "terminal"} ->
            [workflow EXCEPT !.attempt = NoAttempt, !.inflight = 0, !.next = @ + 1,
                             !.status = IF result = "terminal" THEN "terminal" ELSE "running"]

\* What the Workflow makes of the result of its Activity.
AfterActivity(result) ==
    CASE result = "retry" -> [workflow EXCEPT !.attempt = NoAttempt]
      [] result = "fatal" -> [workflow EXCEPT !.attempt = NoAttempt, !.status = "failed"]
      [] result \in {"parked", "terminal"} ->
            [workflow EXCEPT !.attempt = NoAttempt, !.inflight = 0, !.next = @ + 1,
                             !.status = IF result = "terminal" THEN "terminal" ELSE "running"]

-----------------------------------------------------------------------------
(* One Activity attempt *)

\* Mutant: a takeover does not open a new generation.
ClaimLeaseSameGeneration(a) ==
    /\ attempt[a].stage = "claim"
    /\ \/ /\ holder = NoAttempt
          /\ holder' = a /\ generation' = 1
          /\ attempt' = [attempt EXCEPT ![a].stage = "bind", ![a].generation = 1]
       \/ /\ holder # NoAttempt
          /\ Finish(a, "retry")
          /\ UNCHANGED leaseVars
    /\ UNCHANGED <<outboxVars, log, signals, workflow>>

\* A competing holder makes the attempt fail with a retryable error.
ClaimLease(a) ==
    /\ attempt[a].stage = "claim"
    /\ \/ /\ generation < MaxGeneration
          /\ Lease!Grant(a)
          /\ attempt' = [attempt EXCEPT ![a].stage = "bind", ![a].generation = generation']
       \/ /\ holder # NoAttempt
          /\ Finish(a, "retry")
          /\ UNCHANGED leaseVars
    /\ UNCHANGED <<outboxVars, log, signals, workflow>>

\* Mutant: the delivery state is not looked at.
BindActivationUndelivered(a) ==
    LET s == attempt[a].seq IN
    /\ attempt[a].stage = "bind"
    /\ \/ /\ ~Current(a)
          /\ Finish(a, "retry") /\ UNCHANGED outboxVars
       \/ /\ Current(a)
          /\ Become(a, "load")
          /\ bound' = IF bound[s] # 0 THEN bound ELSE [bound EXCEPT ![s] = Len(log)]
          /\ UNCHANGED <<records, head, outbox, terminal, dispatcher>>
    /\ UNCHANGED <<leaseVars, log, signals, workflow>>

\* bind_activation.
BindActivation(a) ==
    LET s == attempt[a].seq
        settled == outbox[s].state = "delivered"
        closed == terminal \/ Latest.terminal
        inOrder == s = 1 \/ (s - 1) \in Applied
    IN
    /\ attempt[a].stage = "bind"
    /\ \/ /\ ~Current(a)
          /\ Finish(a, "retry") /\ UNCHANGED outboxVars
       \/ /\ Current(a) /\ settled /\ bound[s] # 0
          /\ Become(a, "load") /\ UNCHANGED outboxVars
       \/ /\ Current(a) /\ settled /\ bound[s] = 0 /\ ~closed /\ inOrder
          /\ Become(a, "load") /\ BindSource(s, Len(log))
       \/ /\ Current(a) /\ (~settled \/ (bound[s] = 0 /\ (closed \/ ~inOrder)))
          /\ Finish(a, "fatal") /\ UNCHANGED outboxVars
    /\ UNCHANGED <<leaseVars, log, signals, workflow>>

\* Mutant: the command is driven from whatever checkpoint is newest.
LoadCheckpointUnchecked(a) ==
    /\ attempt[a].stage = "load"
    /\ IF Latest.terminal THEN Become(a, "settle")
       ELSE attempt' = [attempt EXCEPT ![a].stage = "check", ![a].at = Len(log)]
    /\ UNCHANGED <<outboxVars, leaseVars, log, signals, workflow>>

\* drive: the newest checkpoint is read without the lease being checked.
LoadCheckpoint(a) ==
    LET s == attempt[a].seq
        applied == s \in Applied
        continuing == Latest.phase = "running" /\ Latest.seq = s
        fresh == Latest.phase = "completed" /\ Len(log) = bound[s] /\ ~Latest.terminal
        ended == \E i \in 1 .. Len(log) : log[i].seq = s /\ log[i].terminal
    IN
    /\ attempt[a].stage = "load"
    /\ \/ applied /\ ended /\ Become(a, "settle")
       \/ applied /\ ~ended /\ Finish(a, "parked")
       \/ /\ ~applied
          /\ IF continuing \/ fresh
             THEN attempt' = [attempt EXCEPT ![a].stage = "check", ![a].at = Len(log)]
             ELSE Finish(a, "fatal")
    /\ UNCHANGED <<outboxVars, leaseVars, log, signals, workflow>>

\* read_terminal before the loop is built.
ReadTerminal(a) ==
    /\ attempt[a].stage = "check"
    /\ IF terminal THEN Finish(a, "fatal") ELSE Become(a, "drive")
    /\ UNCHANGED <<outboxVars, leaseVars, log, signals, workflow>>

\* The loop commits the checkpoint after the one it holds: while it works, and
\* with the boundary it stops at.
CommitCheckpoint(a, phase, ended) ==
    LET s == attempt[a].seq IN
    /\ attempt[a].stage = "drive"
    /\ phase = "running" => ~ended
    /\ \/ /\ ~Current(a)
          /\ Finish(a, "retry") /\ UNCHANGED log
       \/ /\ Current(a) /\ Len(log) = attempt[a].at /\ Len(log) < MaxCheckpoints
          /\ log' = Append(log, [seq |-> s, phase |-> phase, terminal |-> ended])
          /\ IF phase = "completed" /\ ~ended
             THEN Finish(a, "parked")
             ELSE attempt' = [attempt EXCEPT ![a].at = @ + 1,
                                             ![a].stage = IF ended THEN "settle" ELSE "drive"]
    /\ UNCHANGED <<outboxVars, leaseVars, signals, workflow>>

\* _settle_checkpoint_terminal.
SettleTerminal(a) ==
    /\ attempt[a].stage = "settle"
    /\ \/ ~Current(a) /\ Finish(a, "retry") /\ UNCHANGED outboxVars
       \/ Current(a) /\ Finish(a, "terminal") /\ CloseRun
    /\ UNCHANGED <<leaseVars, log, signals, workflow>>

\* Any infrastructure error, a lost commit response included, or a crash.
AttemptErrs(a) ==
    /\ attempt[a].stage \notin {"off", "done"}
    /\ Finish(a, "retry")
    /\ UNCHANGED <<outboxVars, leaseVars, log, signals, workflow>>

\* The lease is released, unless the process died or the release failed, and
\* the result returned; Temporal ignores one it has given up waiting for.
Report(a) ==
    /\ attempt[a].stage = "done"
    /\ UNCHANGED holder \/ (holder = a /\ holder' = NoAttempt)
    /\ workflow' = IF workflow.attempt = a THEN AfterActivity(attempt[a].result) ELSE workflow
    /\ attempt' = [attempt EXCEPT ![a] = Off]
    /\ UNCHANGED <<outboxVars, generation, log, signals>>

LeaseExpires ==
    /\ Lease!Lapse
    /\ UNCHANGED <<outboxVars, log, signals, workflow, attempt>>

-----------------------------------------------------------------------------
Activity(a) ==
    \/ ClaimLease(a) \/ BindActivation(a) \/ LoadCheckpoint(a) \/ ReadTerminal(a)
    \/ SettleTerminal(a) \/ AttemptErrs(a) \/ Report(a)
    \/ \E phase \in {"running", "completed"}, ended \in BOOLEAN : CommitCheckpoint(a, phase, ended)

Temporal ==
    \/ TakeCommand \/ AttemptTimesOut \/ ContinueAsNew
    \/ \E a \in Attempts : ScheduleAttempt(a)
    \/ \E m \in signals : ServeSignal(m) \/ LoseSignal(m)
    \/ \E d \in Dispatchers : SendSignal(d) \/ \E r \in {"retry", "rejected"} : TransportFails(d, r)

LaneInit ==
    /\ OutboxInit /\ Lease!Init
    /\ log = <<Seed>>
    /\ signals = {}
    /\ workflow = NoWorkflow
    /\ attempt = [a \in Attempts |-> Off]

LaneNext ==
    \/ StoreNext /\ UNCHANGED <<leaseVars, log, signals, workflow, attempt>>
    \/ Temporal \/ LeaseExpires
    \/ \E a \in Attempts : Activity(a)

LaneSpec == LaneInit /\ [][LaneNext]_laneVars

\* A live dispatcher: the host polls it, and the transport's timeout ends every call.
Dispatching(d) ==
    \/ SendSignal(d) \/ TransportFails(d, "retry")
    \/ /\ ReconcileTerminal(d) \/ Settle(d) \/ ClaimLost(d)
       /\ UNCHANGED <<leaseVars, log, signals, workflow, attempt>>

FairLaneSpec == LaneSpec /\ \A d \in Dispatchers : WF_laneVars(Dispatching(d))

-----------------------------------------------------------------------------
(* Properties *)

LaneTypeOK ==
    /\ OutboxTypeOK
    /\ generation \in 0 .. MaxGeneration
    /\ holder \in Attempts \union {NoAttempt}
    /\ \A i \in 1 .. Len(log) : log[i] \in Checkpoints
    /\ workflow \in Workflows
    /\ attempt \in [Attempts -> AttemptStates]

(* Whatever Temporal, the Workflow and overlapping attempts do, the tables of
   admission change as CommandOutbox allows: a command is bound once, only
   after its delivery was recorded, and never on a terminal run. *)
ImplementsOutbox == OutboxSpec

(* Exactly once, in order.  The durable history of the run is command 1's
   checkpoints, then command 2's, and so on: no command starts before its
   predecessor completed, none is applied twice and none is touched again once
   completed, although signals are duplicated, attempts overlap, crash after
   their commit and are repeated, and nothing follows a terminal checkpoint. *)
AppliedOnceInOrder ==
    \A i \in 1 .. Len(log) - 1 :
        /\ log[i].phase = "running" => log[i + 1].seq = log[i].seq
        /\ log[i].phase = "completed" => log[i + 1].seq = log[i].seq + 1
        /\ ~log[i].terminal

(* Commands are bound to source checkpoints in their order, no two to one, and
   a command that is bound but has not started yet finds its source at the
   head; the attempt that owns the newest generation never collides with a
   stored checkpoint: what it loaded without a lock is still the head. *)
DriverIsAtHead ==
    /\ \A s \in Lane : bound[s] # 0 =>
          /\ bound[s] <= Len(log)
          /\ \A t \in Lane : t < s => bound[t] # 0 /\ bound[t] < bound[s]
          /\ (\A i \in 1 .. Len(log) : log[i].seq # s) => bound[s] = Len(log)
    /\ \A a \in Attempts :
          attempt[a].stage = "drive" /\ Current(a) => attempt[a].at = Len(log)

(* The Workflow never runs ahead of the database: it moves past a command only
   when that command's boundary is durable, and ends as terminal only when the
   terminal record exists. *)
WorkflowFollowsDatabase ==
    /\ 1 .. workflow.next - 1 \subseteq Applied
    /\ workflow.status = "terminal" => terminal
    /\ terminal => Latest.terminal

(* Convergence.  After the terminal commit every command that will never be
   activated is eventually closed as run_terminal, unless it was dead-lettered
   before, however the dispatchers were caught by it. *)
TerminalConverges ==
    terminal ~> \A s \in Lane : bound[s] = 0 =>
        outbox[s].state \in {"absent", "run_terminal", "dead_letter"}

\* The Workflow has received the command.
Received(s) == s < workflow.next \/ s = workflow.inflight \/ s \in workflow.pending

(* A command the Workflow accepted is not dead-lettered because of the
   Workflow's own state: a lost response leads to another Signal, which the
   Workflow recognises as a duplicate. *)
AcceptedIsNotDeadLettered ==
    \A s \in Lane :
        Received(s) => ~(outbox[s].state = "dead_letter" /\ outbox[s].error = "closed")
=============================================================================
