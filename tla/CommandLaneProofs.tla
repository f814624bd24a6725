-------------------------- MODULE CommandLaneProofs --------------------------
(***************************************************************************)
(* Proofs about the command lane, for any number of commands, dispatchers, *)
(* claims, attempts, generations and checkpoints.                          *)
(*                                                                         *)
(* First CommandOutbox by itself, whatever the transport and the           *)
(* activations do.  LaneInOrder is not inductive alone: it also takes that *)
(* sequences beyond the admission head have no row, so that a new command  *)
(* is not behind a delivered one, and that a dispatcher with an answer has *)
(* a command and a claim to settle.                                        *)
(*                                                                         *)
(* Then LaneSpec implements OutboxSpec: Temporal, the Workflow and the     *)
(* Activity attempts touch the admission tables only as CommandOutbox      *)
(* allows, so what it guarantees holds of the whole lane.  The step        *)
(* simulation needs to know that every Signal comes from a dispatcher,     *)
(* every running attempt works on an admitted sequence and the checkpoint  *)
(* log is never empty.                                                     *)
(*                                                                         *)
(* The last part proves the lane's own invariants: commands are applied    *)
(* once and in order, the driver is at the head of the log, and the        *)
(* Workflow follows the database.                                          *)
(***************************************************************************)
EXTENDS CommandLane, SequenceTheorems, TLAPS

-----------------------------------------------------------------------------
(* The admission tables *)


\* Rows exist exactly up to the admission head.
RowsUpToHead == \A s \in Lane : outbox[s].state = "absent" <=> s > head

DispatcherShape ==
    \A d \in Dispatchers :
        /\ dispatcher[d].stage # "idle" => dispatcher[d].seq \in Lane
        /\ dispatcher[d].stage = "replied" => dispatcher[d].reply # "none"

OutboxInv == OutboxTypeOK /\ RowsUpToHead /\ DispatcherShape /\ LaneInOrder

\* Rows as the steps write them.
LEMMA RowIsRow ==
    ASSUME NEW state \in DeliveryStates, NEW g \in 0 .. MaxClaims, NEW until \in Leases,
           NEW error \in Codes
    PROVE  [state |-> state, generation |-> g, until |-> until, error |-> error] \in Rows
BY DEF Rows

LEMMA RowFields ==
    ASSUME NEW r \in Rows
    PROVE  /\ r.state \in DeliveryStates /\ r.generation \in 0 .. MaxClaims
           /\ r.until \in Leases /\ r.error \in Codes
           /\ r = [state |-> r.state, generation |-> r.generation, until |-> r.until,
                   error |-> r.error]
BY DEF Rows

LEMMA NoRowIsRow ==
    /\ NoRow \in Rows /\ NoRow.state = "absent"
    /\ NewRow \in Rows /\ NewRow.state = "pending"
BY OutboxBoundsAssumption DEF NoRow, NewRow, Rows, DeliveryStates, Leases, Codes

LEMMA RestingIsState ==
    Resting \in DispatcherStates /\ Resting.stage = "idle"
BY OutboxBoundsAssumption DEF Resting, DispatcherStates, Replies

LEMMA InitInv == OutboxInit => OutboxInv
<1> SUFFICES ASSUME OutboxInit PROVE OutboxInv
  OBVIOUS
<1>1. \A s \in Lane : outbox[s] = NoRow
  BY DEF OutboxInit
<1>2. \A d \in Dispatchers : dispatcher[d] = Resting
  BY DEF OutboxInit
<1>3. OutboxTypeOK
  <2>1. outbox \in [Lane -> Rows] /\ dispatcher \in [Dispatchers -> DispatcherStates]
    BY NoRowIsRow, RestingIsState DEF OutboxInit
  <2>2. records \in [Lane -> CommandIds \union {NoCommand}] /\ bound \in [Lane -> Nat]
    BY DEF OutboxInit
  <2>3. head \in 0 .. MaxCommands
    BY OutboxBoundsAssumption DEF OutboxInit
  <2>4. terminal \in BOOLEAN
    BY DEF OutboxInit
  <2> QED BY <2>1, <2>2, <2>3, <2>4 DEF OutboxTypeOK
<1>4. RowsUpToHead
  BY <1>1, NoRowIsRow, OutboxBoundsAssumption DEF OutboxInit, RowsUpToHead, Lane
<1>5. DispatcherShape
  BY <1>2, RestingIsState DEF DispatcherShape
<1>6. LaneInOrder
  BY <1>1, NoRowIsRow DEF LaneInOrder
<1> QED BY <1>3, <1>4, <1>5, <1>6 DEF OutboxInv

\* What each step does to the row of a sequence, as far as the invariant cares.
LEMMA AdmitInv == ASSUME OutboxInv, NEW id \in CommandIds, Admit(id) PROVE OutboxInv'
<1> USE OutboxBoundsAssumption DEF OutboxInv
<1>a. head \in 0 .. MaxCommands /\ head' = head + 1 /\ head' \in Lane
  BY DEF Admit, OutboxTypeOK, Lane
<1>b. /\ records' = [records EXCEPT ![head'] = id]
      /\ outbox' = [outbox EXCEPT ![head'] = NewRow]
      /\ UNCHANGED <<bound, terminal, dispatcher>>
  BY DEF Admit
<1>c. /\ \A t \in Lane : t # head' => outbox'[t] = outbox[t]
      /\ outbox'[head'].state = "pending"
  BY <1>a, <1>b, NoRowIsRow DEF OutboxTypeOK
<1>1. OutboxTypeOK'
  BY <1>a, <1>b, NoRowIsRow DEF OutboxTypeOK, Lane
<1>2. RowsUpToHead'
  <2> SUFFICES ASSUME NEW t \in Lane PROVE (outbox'[t].state = "absent") <=> t > head'
    BY DEF RowsUpToHead
  <2>1. CASE t = head'
    BY <1>a, <1>c, <2>1 DEF Lane
  <2>2. CASE t # head'
    BY <1>a, <1>c, <2>2 DEF Lane, RowsUpToHead
  <2> QED BY <2>1, <2>2
<1>3. DispatcherShape'
  BY <1>b DEF DispatcherShape
<1>4. LaneInOrder'
  <2> SUFFICES ASSUME NEW s \in Lane, NEW t \in Lane, s < t,
                      outbox'[t].state \in {"leased", "delivered"}
               PROVE  \/ outbox'[s].state = "delivered"
                      \/ terminal' /\ outbox'[s].state = "run_terminal"
    BY DEF LaneInOrder
  <2>1. t # head' /\ outbox'[t] = outbox[t] /\ ~(t > head)
    BY <1>c DEF RowsUpToHead
  <2>2. s # head' /\ outbox'[s] = outbox[s]
    BY <1>a, <1>c, <2>1 DEF Lane
  <2> QED BY <1>b, <2>1, <2>2 DEF LaneInOrder
<1> QED BY <1>1, <1>2, <1>3, <1>4

LEMMA ExpireInv == ASSUME OutboxInv, NEW s \in Lane, ClaimExpires(s) PROVE OutboxInv'
<1> USE OutboxBoundsAssumption DEF OutboxInv, ClaimExpires, Lane
<1>1. OutboxTypeOK'
  BY DEF OutboxTypeOK, Rows, Leases
<1>2. \A t \in Lane : outbox'[t].state = outbox[t].state
  BY DEF OutboxTypeOK, Rows
<1> QED BY <1>1, <1>2 DEF RowsUpToHead, DispatcherShape, LaneInOrder

LEMMA ReconcileInv == ASSUME OutboxInv, NEW d \in Dispatchers, ReconcileTerminal(d) PROVE OutboxInv'
<1> USE OutboxBoundsAssumption DEF OutboxInv, ReconcileTerminal, Lane
<1>1. PICK s \in Lane : /\ Unreachable(s)
                        /\ outbox' = [outbox EXCEPT ![s].state = "run_terminal",
                                         ![s].until = "null", ![s].error = "run_terminal"]
  OBVIOUS
<1>2. OutboxTypeOK'
  <2>1. outbox[s] \in Rows
    BY DEF OutboxTypeOK
  <2>2. outbox' = [outbox EXCEPT ![s] = [state |-> "run_terminal",
            generation |-> outbox[s].generation, until |-> "null", error |-> "run_terminal"]]
    BY <1>1, <2>1 DEF Rows, OutboxTypeOK
  <2>3. outbox' \in [Lane -> Rows]
    BY <2>1, <2>2, RowFields, RowIsRow DEF OutboxTypeOK, DeliveryStates, Leases, Codes
  <2> QED BY <2>3 DEF OutboxTypeOK
<1>3. /\ \A t \in Lane : t # s => outbox'[t] = outbox[t]
      /\ outbox'[s].state = "run_terminal" /\ outbox[s].state # "absent" /\ terminal
  BY <1>1 DEF OutboxTypeOK, Rows, Unreachable
<1> QED BY <1>2, <1>3 DEF RowsUpToHead, DispatcherShape, LaneInOrder

LEMMA ClaimInv == ASSUME OutboxInv, NEW d \in Dispatchers, ClaimDispatch(d) PROVE OutboxInv'
<1> USE OutboxBoundsAssumption DEF OutboxInv, Lane
<1>1. PICK s \in Lane :
        /\ Claimable(s) /\ outbox[s].generation < MaxClaims
        /\ outbox' = [outbox EXCEPT ![s] = [state |-> "leased", until |-> "ahead", error |-> "",
                                            generation |-> outbox[s].generation + 1]]
        /\ \/ dispatcher' = [dispatcher EXCEPT ![d] =
                    [Resting EXCEPT !.stage = "claimed", !.seq = s,
                                    !.generation = outbox'[s].generation]]
           \/ UNCHANGED dispatcher
  BY DEF ClaimDispatch
<1>2. UNCHANGED <<records, head, bound, terminal>>
  BY DEF ClaimDispatch
<1>3. outbox' \in [Lane -> Rows]
  <2>a. outbox[s] \in Rows
    BY DEF OutboxTypeOK
  <2>b. outbox[s].generation \in 0 .. MaxClaims
    BY <2>a, RowFields
  <2>1. outbox[s].generation + 1 \in 0 .. MaxClaims
    <3>1. outbox[s].generation < MaxClaims
      BY <1>1
    <3> QED BY <2>b, <3>1
  <2>2. [state |-> "leased", until |-> "ahead", error |-> "",
         generation |-> outbox[s].generation + 1] \in Rows
    BY <2>1 DEF Rows, DeliveryStates, Leases, Codes
  <2> QED BY <1>1, <2>2 DEF OutboxTypeOK
<1>4. OutboxTypeOK' /\ DispatcherShape'
  <2>1. outbox'[s].generation \in 0 .. MaxClaims
    BY <1>3, RowFields
  <2>2. DEFINE c == [Resting EXCEPT !.stage = "claimed", !.seq = s,
                                    !.generation = outbox'[s].generation]
  <2>3. c \in DispatcherStates /\ c.seq = s /\ c.stage = "claimed"
    BY <2>1 DEF Resting, DispatcherStates, Replies
  <2>4. dispatcher' = [dispatcher EXCEPT ![d] = c] \/ UNCHANGED dispatcher
    BY <1>1
  <2> HIDE DEF c
  <2>5. dispatcher' \in [Dispatchers -> DispatcherStates]
    BY <2>3, <2>4 DEF OutboxTypeOK
  <2>6. OutboxTypeOK'
    BY <1>2, <1>3, <2>5 DEF OutboxTypeOK
  <2>7. DispatcherShape'
    BY <2>3, <2>4 DEF DispatcherShape, OutboxTypeOK
  <2> QED BY <2>6, <2>7
<1>5. /\ \A t \in Lane : t # s => outbox'[t] = outbox[t]
      /\ outbox'[s].state = "leased" /\ outbox[s].state \in {"pending", "leased"} /\ ~terminal
      /\ \A t \in 1 .. s - 1 : outbox[t].state = "delivered"
  BY <1>1 DEF OutboxTypeOK, Claimable
<1>6. RowsUpToHead'
  BY <1>2, <1>5 DEF RowsUpToHead
<1>7. LaneInOrder'
  BY <1>2, <1>5 DEF LaneInOrder
<1> QED BY <1>4, <1>6, <1>7

LEMMA SettleInv == ASSUME OutboxInv, NEW d \in Dispatchers, Settle(d) PROVE OutboxInv'
<1> DEFINE s == dispatcher[d].seq
           reply == dispatcher[d].reply
<1> USE DEF OutboxInv
<1>1. s \in Lane /\ reply \in {"accepted", "retry", "rejected", "closed"}
  BY DEF Settle, DispatcherShape, OutboxTypeOK, DispatcherStates, Replies
<1>2. Settlement(reply) \in {"delivered", "pending", "dead_letter"}
  BY <1>1 DEF Settlement
<1>3. outbox' = [outbox EXCEPT ![s] =
          [state |-> Settlement(reply), generation |-> outbox[s].generation, until |-> "null",
           error |-> IF reply = "accepted" THEN "" ELSE reply]]
  BY DEF Settle
<1>4. /\ dispatcher' = [dispatcher EXCEPT ![d] = Resting]
      /\ UNCHANGED <<records, head, bound, terminal>>
  BY DEF Settle
<1>a. outbox[s].state = "leased" /\ ~terminal
  BY DEF Settle, ActiveClaim
<1> HIDE DEF s, reply
<1>5. OutboxTypeOK' /\ DispatcherShape'
  <2>1. outbox[s] \in Rows
    BY <1>1 DEF OutboxTypeOK
  <2>3. outbox' \in [Lane -> Rows]
    <3>1. /\ Settlement(reply) \in DeliveryStates
          /\ (IF reply = "accepted" THEN "" ELSE reply) \in Codes
      BY <1>1, <1>2 DEF DeliveryStates, Leases, Codes
    <3>2. outbox[s].generation \in 0 .. MaxClaims /\ "null" \in Leases
      BY <2>1, RowFields DEF Leases
    <3>3. [state |-> Settlement(reply), generation |-> outbox[s].generation, until |-> "null",
           error |-> IF reply = "accepted" THEN "" ELSE reply] \in Rows
      BY <3>1, <3>2, RowIsRow
    <3> QED BY <1>3, <3>3 DEF OutboxTypeOK
  <2>4. OutboxTypeOK'
    BY <1>4, <2>3, RestingIsState DEF OutboxTypeOK
  <2>5. DispatcherShape'
    BY <1>4, RestingIsState DEF DispatcherShape, OutboxTypeOK
  <2> QED BY <2>4, <2>5
<1>6. /\ \A t \in Lane : t # s => outbox'[t] = outbox[t]
      /\ outbox'[s].state \in {"delivered", "pending", "dead_letter"}
      /\ outbox[s].state = "leased" /\ ~terminal
  BY <1>1, <1>2, <1>3, <1>a DEF OutboxTypeOK, Rows
<1>7. RowsUpToHead'
  BY <1>1, <1>4, <1>6 DEF RowsUpToHead
<1>8. LaneInOrder'
  BY <1>1, <1>4, <1>6 DEF LaneInOrder, Lane
<1> QED BY <1>5, <1>7, <1>8

LEMMA StepInv == OutboxInv /\ [OutboxNext]_outboxVars => OutboxInv'
<1> SUFFICES ASSUME OutboxInv, [OutboxNext]_outboxVars PROVE OutboxInv'
  OBVIOUS
<1> USE DEF OutboxInv
<1>1. CASE UNCHANGED outboxVars
  BY <1>1 DEF outboxVars, OutboxTypeOK, RowsUpToHead, DispatcherShape, LaneInOrder
<1>2. ASSUME NEW id \in CommandIds, Admit(id) PROVE OutboxInv'
  BY <1>2, AdmitInv
<1>3. ASSUME NEW s \in Lane, ClaimExpires(s) PROVE OutboxInv'
  BY <1>3, ExpireInv
<1>4. ASSUME NEW d \in Dispatchers,
             ReconcileTerminal(d) \/ ClaimDispatch(d) \/ Settle(d) PROVE OutboxInv'
  BY <1>4, ReconcileInv, ClaimInv, SettleInv
<1>5. ASSUME NEW d \in Dispatchers, ClaimLost(d) \/ DispatcherDies(d) PROVE OutboxInv'
  <2>1. /\ dispatcher' = [dispatcher EXCEPT ![d] = Resting]
        /\ UNCHANGED <<records, head, outbox, bound, terminal>>
    BY <1>5 DEF ClaimLost, DispatcherDies
  <2>2. OutboxTypeOK'
    BY <2>1, RestingIsState DEF OutboxTypeOK
  <2>3. DispatcherShape'
    BY <2>1, RestingIsState DEF DispatcherShape, OutboxTypeOK
  <2> QED BY <2>1, <2>2, <2>3 DEF RowsUpToHead, LaneInOrder
<1>6. CASE CloseRun
  BY <1>6 DEF CloseRun, OutboxTypeOK, RowsUpToHead, DispatcherShape, LaneInOrder
<1>7. ASSUME NEW s \in Lane, NEW k \in 1 .. MaxCheckpoints, BindSource(s, k) PROVE OutboxInv'
  BY <1>7, OutboxBoundsAssumption
     DEF BindSource, OutboxTypeOK, RowsUpToHead, DispatcherShape, LaneInOrder
<1>8. ASSUME NEW d \in Dispatchers, Send(d) PROVE OutboxInv'
  BY <1>8 DEF Send, OutboxTypeOK, RowsUpToHead, DispatcherShape, LaneInOrder, DispatcherStates
<1>9. ASSUME NEW d \in Dispatchers, NEW reply \in Replies \ {"none"}, Reply(d, reply)
      PROVE  OutboxInv'
  <2>1. OutboxTypeOK'
    <3> DEFINE replied == [dispatcher[d] EXCEPT !.stage = "replied", !.reply = reply]
    <3>1. dispatcher \in [Dispatchers -> DispatcherStates]
      BY DEF OutboxTypeOK
    <3>2. replied \in DispatcherStates
      BY <3>1 DEF DispatcherStates
    <3>3. dispatcher' = [dispatcher EXCEPT ![d] = replied]
      BY <1>9, <3>1 DEF Reply
    <3> HIDE DEF replied
    <3> QED  BY <1>9, <3>1, <3>2, <3>3 DEF Reply, OutboxTypeOK
  <2>2. DispatcherShape'
    BY <1>9 DEF Reply, OutboxTypeOK, DispatcherShape, DispatcherStates
  <2> QED  BY <1>9, <2>1, <2>2 DEF Reply, RowsUpToHead, LaneInOrder
<1> QED
  BY <1>1, <1>2, <1>3, <1>4, <1>5, <1>6, <1>7, <1>8, <1>9 DEF OutboxNext, StoreNext

(* The inductive invariant holds of every behaviour of admission, dispatch and
   binding. *)
THEOREM OutboxInvariant == OutboxSpec => []OutboxInv
BY InitInv, StepInv, PTL DEF OutboxSpec

(* The admission tables stay well formed, also when claims are lost and
   dispatchers die. *)
THEOREM OutboxTypeCorrect == OutboxSpec => []OutboxTypeOK
<1>1. OutboxInv => OutboxTypeOK
  BY DEF OutboxInv
<1> QED BY <1>1, OutboxInvariant, PTL

(* Commands of a run are leased and delivered in admission order, whatever the
   dispatchers and the transport do. *)
THEOREM LaneOrder == OutboxSpec => []LaneInOrder
<1>1. OutboxInv => LaneInOrder
  BY DEF OutboxInv
<1> QED BY <1>1, OutboxInvariant, PTL

(* A terminal run's outbox accepts no claim, acknowledgement, retry or
   rejection any more. *)
THEOREM TerminalFreeze == OutboxSpec => TerminalFreezesOutbox
<1> DEFINE Frozen == terminal => \A s \in Lane :
              outbox'[s] # outbox[s] =>
                  \/ outbox'[s].state = "run_terminal" /\ bound[s] = 0
                  \/ outbox'[s] = [outbox[s] EXCEPT !.until = "passed"]
<1>1. OutboxInv /\ [OutboxNext]_outboxVars => [Frozen]_outboxVars
  <2> SUFFICES ASSUME OutboxInv, OutboxNext, terminal, NEW s \in Lane, outbox'[s] # outbox[s]
               PROVE  \/ outbox'[s].state = "run_terminal" /\ bound[s] = 0
                      \/ outbox'[s] = [outbox[s] EXCEPT !.until = "passed"]
    OBVIOUS
  <2>1. ASSUME NEW t \in Lane, ClaimExpires(t)
        PROVE  outbox'[s] = [outbox[s] EXCEPT !.until = "passed"]
    BY <2>1 DEF ClaimExpires, OutboxInv, OutboxTypeOK
  <2>2. ASSUME NEW d \in Dispatchers, ReconcileTerminal(d)
        PROVE  outbox'[s].state = "run_terminal" /\ bound[s] = 0
    BY <2>2 DEF ReconcileTerminal, Unreachable, OutboxInv, OutboxTypeOK, Rows
  <2>3. \/ \E t \in Lane : ClaimExpires(t)
        \/ \E d \in Dispatchers : ReconcileTerminal(d)
    BY DEF OutboxNext, StoreNext, Admit, ClaimDispatch, Claimable, Settle, ActiveClaim, ClaimLost,
           DispatcherDies, CloseRun, BindSource, Send, Reply
  <2> QED BY <2>1, <2>2, <2>3
<1> QED BY <1>1, OutboxInvariant, PTL DEF OutboxSpec, TerminalFreezesOutbox

(* A recorded delivery stays recorded, and a leased row is decided only by the
   dispatcher that holds its current claim. *)
THEOREM Finality == OutboxSpec => DeliveryIsFinal
<1> DEFINE Final == \A s \in Lane :
        /\ outbox[s].state = "delivered" =>
              outbox'[s].state = "delivered" \/ (terminal /\ outbox'[s].state = "run_terminal")
        /\ outbox[s].state = "leased" /\ outbox'[s].state \notin {"leased", "run_terminal"} =>
              \E d \in Dispatchers :
                    dispatcher[d].seq = s /\ dispatcher[d].generation = outbox[s].generation
                        /\ dispatcher[d].stage = "replied"
<1>1. OutboxInv /\ [OutboxNext]_outboxVars => [Final]_outboxVars
  <2> SUFFICES ASSUME OutboxInv, OutboxNext PROVE Final
    OBVIOUS
  <2> USE DEF OutboxInv, OutboxTypeOK, Rows
  <2>1. ASSUME NEW id \in CommandIds, Admit(id) PROVE Final
    <3>1. \A t \in Lane : t # head' => outbox'[t] = outbox[t]
      BY <2>1 DEF Admit
    <3>2. head \in Nat /\ head' = head + 1 /\ (head' \in Lane => head' > head)
      BY <2>1 DEF Admit
    <3>3. head' \in Lane => outbox[head'].state = "absent"
      BY <3>2 DEF RowsUpToHead
    <3> QED BY <3>1, <3>3
  <2>2. ASSUME NEW t \in Lane, ClaimExpires(t) PROVE Final
    BY <2>2 DEF ClaimExpires
  <2>3. ASSUME NEW d \in Dispatchers, ReconcileTerminal(d) PROVE Final
    BY <2>3 DEF ReconcileTerminal, Unreachable
  <2>4. ASSUME NEW d \in Dispatchers, ClaimDispatch(d) PROVE Final
    <3>1. PICK t \in Lane :
            /\ Claimable(t)
            /\ outbox' = [outbox EXCEPT ![t] = [state |-> "leased", until |-> "ahead",
                             error |-> "", generation |-> outbox[t].generation + 1]]
      BY <2>4 DEF ClaimDispatch
    <3>2. /\ \A u \in Lane : u # t => outbox'[u] = outbox[u]
          /\ outbox'[t].state = "leased" /\ outbox[t].state \in {"pending", "leased"}
      BY <3>1 DEF Claimable
    <3> QED BY <3>2
  <2>5. ASSUME NEW d \in Dispatchers, Settle(d) PROVE Final
    BY <2>5 DEF Settle, ActiveClaim
  <2>6. CASE UNCHANGED outbox
    BY <2>6
  <2> QED
    BY <2>1, <2>2, <2>3, <2>4, <2>5, <2>6 DEF OutboxNext, StoreNext, ClaimLost, DispatcherDies,
       CloseRun, BindSource, Send, Reply
<1> QED BY <1>1, OutboxInvariant, PTL DEF OutboxSpec, DeliveryIsFinal

-----------------------------------------------------------------------------
(* The lane implements the outbox *)


Requests == [from : Dispatchers, seq : Lane, generation : 0 .. MaxClaims]

\* The Workflow drives the command that is next, and an attempt has a command.
WorkflowShape ==
    /\ workflow \in Workflows
    /\ workflow.inflight # 0 => workflow.inflight = workflow.next
    /\ workflow.attempt # NoAttempt => workflow.inflight # 0

AttemptShape ==
    /\ attempt \in [Attempts -> AttemptStates]
    /\ \A a \in Attempts :
        /\ attempt[a].stage \notin {"off", "done"} => attempt[a].seq \in Lane
        /\ attempt[a].stage = "done" => attempt[a].result # "none"

LogShape == log \in Seq(Checkpoints) /\ Len(log) \in 1 .. MaxCheckpoints

LeaseShape == generation \in 0 .. MaxGeneration /\ holder \in Attempts \union {NoAttempt}

LaneShape ==
    /\ OutboxInv /\ LeaseShape /\ LogShape
    /\ signals \subseteq Requests
    /\ WorkflowShape /\ AttemptShape

LEMMA OffIsState ==
    /\ Off \in AttemptStates /\ Off.stage = "off"
    /\ \A r \in {"parked", "terminal", "retry", "fatal"} :
        LET s == [Off EXCEPT !.stage = "done", !.result = r]
        IN  s \in AttemptStates /\ s.stage = "done" /\ s.result = r
    /\ \A q \in Lane :
        LET s == [Off EXCEPT !.stage = "claim", !.seq = q]
        IN  s \in AttemptStates /\ s.stage = "claim" /\ s.seq = q
<1>1. Off \in AttemptStates /\ Off.stage = "off"
  BY OutboxBoundsAssumption, MaxGenerationAssumption DEF Off, AttemptStates
<1>2. ASSUME NEW r \in {"parked", "terminal", "retry", "fatal"}
      PROVE  LET s == [Off EXCEPT !.stage = "done", !.result = r]
             IN  s \in AttemptStates /\ s.stage = "done" /\ s.result = r
  BY <1>1 DEF AttemptStates
<1>3. ASSUME NEW q \in Lane
      PROVE  LET s == [Off EXCEPT !.stage = "claim", !.seq = q]
             IN  s \in AttemptStates /\ s.stage = "claim" /\ s.seq = q
  BY <1>1 DEF AttemptStates
<1> QED BY <1>1, <1>2, <1>3

\* Every way an attempt finishes keeps the attempts well formed.
LEMMA FinishShape ==
    ASSUME AttemptShape, NEW a \in Attempts, NEW r \in {"parked", "terminal", "retry", "fatal"},
           Finish(a, r)
    PROVE  AttemptShape'
<1> DEFINE s == [Off EXCEPT !.stage = "done", !.result = r]
<1>1. s \in AttemptStates /\ s.stage = "done" /\ s.result = r
  BY OffIsState
<1>2. attempt' = [attempt EXCEPT ![a] = s]
  BY DEF Finish
<1> HIDE DEF s
<1> QED BY <1>1, <1>2 DEF AttemptShape

LEMMA BecomeShape ==
    ASSUME AttemptShape, NEW a \in Attempts, attempt[a].stage \notin {"off", "done"},
           NEW g \in {"bind", "load", "check", "drive", "settle"}, Become(a, g)
    PROVE  AttemptShape'
<1>1. attempt[a] \in AttemptStates /\ attempt[a].seq \in Lane
  BY DEF AttemptShape
<1>2. /\ [attempt[a] EXCEPT !.stage = g] \in AttemptStates
      /\ [attempt[a] EXCEPT !.stage = g].seq = attempt[a].seq
      /\ [attempt[a] EXCEPT !.stage = g].stage = g
  BY <1>1 DEF AttemptStates
<1> DEFINE s == [attempt[a] EXCEPT !.stage = g]
<1>3. attempt' = [attempt EXCEPT ![a] = s]
  BY DEF Become, AttemptShape
<1>4. s \in AttemptStates /\ s.seq \in Lane /\ s.stage = g
  BY <1>1, <1>2
<1> HIDE DEF s
<1> QED BY <1>3, <1>4 DEF AttemptShape

-----------------------------------------------------------------------------
(* Step simulation: every lane step is a CommandOutbox step or none at all. *)

LEMMA TemporalSimulates ==
    ASSUME LaneShape, Temporal
    PROVE  [OutboxNext]_outboxVars
<1>1. CASE TakeCommand \/ AttemptTimesOut \/ ContinueAsNew \/ \E a \in Attempts : ScheduleAttempt(a)
  BY <1>1 DEF TakeCommand, AttemptTimesOut, ContinueAsNew, ScheduleAttempt
<1>2. ASSUME NEW m \in signals, ServeSignal(m) PROVE [OutboxNext]_outboxVars
  <2>1. m.from \in Dispatchers
    BY DEF LaneShape, Requests
  <2>2. CASE UNCHANGED outboxVars
    BY <2>2
  <2>3. ASSUME NEW reply \in {"closed", "accepted"}, Reply(m.from, reply) PROVE OutboxNext
    BY <2>1, <2>3 DEF OutboxNext, Replies
  <2>4. \/ UNCHANGED outboxVars
        \/ \E reply \in {"closed", "accepted"} : Reply(m.from, reply)
    BY <1>2 DEF ServeSignal
  <2> QED BY <2>2, <2>3, <2>4
<1>3. ASSUME NEW m \in signals, LoseSignal(m) PROVE [OutboxNext]_outboxVars
  BY <1>3 DEF LoseSignal
<1>4. ASSUME NEW d \in Dispatchers, SendSignal(d) PROVE [OutboxNext]_outboxVars
  BY <1>4 DEF SendSignal, OutboxNext
<1>5. ASSUME NEW d \in Dispatchers, NEW r \in {"retry", "rejected"}, TransportFails(d, r)
      PROVE  [OutboxNext]_outboxVars
  BY <1>5 DEF TransportFails, OutboxNext, Replies
<1> QED BY <1>1, <1>2, <1>3, <1>4, <1>5 DEF Temporal

LEMMA ActivitySimulates ==
    ASSUME LaneShape, NEW a \in Attempts, Activity(a)
    PROVE  [OutboxNext]_outboxVars
<1>1. CASE BindActivation(a)
  <2> DEFINE s == attempt[a].seq
  <2>1. s \in Lane /\ Len(log) \in 1 .. MaxCheckpoints
    BY <1>1 DEF BindActivation, LaneShape, AttemptShape, LogShape
  <2>2. UNCHANGED outboxVars \/ BindSource(s, Len(log))
    BY <1>1 DEF BindActivation
  <2> QED BY <2>1, <2>2 DEF OutboxNext
<1>2. CASE SettleTerminal(a)
  BY <1>2 DEF SettleTerminal, OutboxNext
<1>3. CASE ClaimLease(a) \/ LoadCheckpoint(a) \/ ReadTerminal(a) \/ AttemptErrs(a) \/ Report(a)
  BY <1>3 DEF ClaimLease, LoadCheckpoint, ReadTerminal, AttemptErrs, Report
<1>4. ASSUME NEW phase \in {"running", "completed"}, NEW ended \in BOOLEAN,
             CommitCheckpoint(a, phase, ended)
      PROVE  [OutboxNext]_outboxVars
  BY <1>4 DEF CommitCheckpoint
<1> QED BY <1>1, <1>2, <1>3, <1>4 DEF Activity

LEMMA LaneSimulates == LaneShape /\ [LaneNext]_laneVars => [OutboxNext]_outboxVars
<1> SUFFICES ASSUME LaneShape, [LaneNext]_laneVars PROVE [OutboxNext]_outboxVars
  OBVIOUS
<1>1. CASE UNCHANGED laneVars
  BY <1>1 DEF laneVars
<1>2. CASE StoreNext
  BY <1>2 DEF OutboxNext
<1>3. CASE LeaseExpires
  BY <1>3 DEF LeaseExpires
<1> QED BY <1>1, <1>2, <1>3, TemporalSimulates, ActivitySimulates DEF LaneNext

-----------------------------------------------------------------------------
(* The shapes are preserved. *)

LEMMA LaneInitShape == LaneInit => LaneShape
<1> SUFFICES ASSUME LaneInit PROVE LaneShape
  OBVIOUS
<1>1. OutboxInv
  BY InitInv DEF LaneInit
<1>2. LeaseShape
  BY MaxGenerationAssumption DEF LaneInit, Lease!Init, LeaseShape
<1>3. LogShape
  <2>1. Seed \in Checkpoints
    BY DEF Seed, Checkpoints
  <2> QED BY <2>1, OutboxBoundsAssumption DEF LaneInit, LogShape
<1>4. WorkflowShape
  BY OutboxBoundsAssumption DEF LaneInit, WorkflowShape, NoWorkflow, Workflows
<1>5. AttemptShape
  BY OffIsState DEF LaneInit, AttemptShape
<1>6. signals \subseteq Requests
  BY DEF LaneInit
<1> QED BY <1>1, <1>2, <1>3, <1>4, <1>5, <1>6 DEF LaneShape

LEMMA TemporalShape ==
    ASSUME LaneShape, Temporal
    PROVE  /\ LeaseShape' /\ LogShape' /\ (signals \subseteq Requests)'
           /\ WorkflowShape' /\ AttemptShape'
<1> USE DEF LaneShape
<1> DEFINE Goal == /\ LeaseShape' /\ LogShape' /\ (signals \subseteq Requests)'
                   /\ WorkflowShape' /\ AttemptShape'
<1>1. CASE TakeCommand
  <2>1. workflow' = [workflow EXCEPT !.inflight = workflow.next, !.pending = @ \ {workflow.next}]
    BY <1>1 DEF TakeCommand
  <2>2. workflow.next \in Lane /\ workflow.inflight = 0
    BY <1>1 DEF TakeCommand, WorkflowShape, Workflows
  <2>3. WorkflowShape'
    BY <2>1, <2>2 DEF WorkflowShape, Workflows, Lane
  <2> QED BY <1>1, <2>3 DEF TakeCommand, LeaseShape, LogShape, AttemptShape, leaseVars
<1>2. CASE AttemptTimesOut
  <2>1. WorkflowShape'
    BY <1>2 DEF AttemptTimesOut, WorkflowShape, Workflows
  <2> QED BY <1>2, <2>1 DEF AttemptTimesOut, LeaseShape, LogShape, AttemptShape, leaseVars
<1>3. CASE ContinueAsNew
  <2>1. WorkflowShape'
    BY <1>3 DEF ContinueAsNew, WorkflowShape, Workflows
  <2> QED BY <1>3, <2>1 DEF ContinueAsNew, LeaseShape, LogShape, AttemptShape, leaseVars
<1>4. ASSUME NEW a \in Attempts, ScheduleAttempt(a) PROVE Goal
  <2>1. WorkflowShape'
    BY <1>4 DEF ScheduleAttempt, WorkflowShape, Workflows
  <2> DEFINE s == [Off EXCEPT !.stage = "claim", !.seq = workflow.inflight]
  <2>2. workflow.inflight \in Lane
    BY <1>4 DEF ScheduleAttempt, WorkflowShape, Workflows
  <2>3. s \in AttemptStates /\ s.stage = "claim" /\ s.seq \in Lane
    BY <2>2, OffIsState
  <2>4. attempt' = [attempt EXCEPT ![a] = s]
    BY <1>4 DEF ScheduleAttempt
  <2> HIDE DEF s
  <2>5. AttemptShape'
    BY <2>3, <2>4 DEF AttemptShape
  <2> QED BY <1>4, <2>1, <2>5 DEF ScheduleAttempt, LeaseShape, LogShape, leaseVars
<1>5. ASSUME NEW m \in signals, ServeSignal(m) PROVE Goal
  <2>1. m.seq \in Lane
    BY DEF Requests
  <2>2. workflow' = workflow
        \/ workflow' = [workflow EXCEPT !.status = "running", !.pending = @ \union {m.seq}]
    BY <1>5 DEF ServeSignal, Submitted
  <2>3. WorkflowShape'
    <3>1. CASE workflow' = workflow
      BY <3>1 DEF WorkflowShape
    <3>2. CASE workflow' = [workflow EXCEPT !.status = "running", !.pending = @ \union {m.seq}]
      BY <2>1, <3>2 DEF WorkflowShape, Workflows
    <3> QED BY <2>2, <3>1, <3>2
  <2> QED BY <1>5, <2>3 DEF ServeSignal, LeaseShape, LogShape, AttemptShape, leaseVars
<1>6. ASSUME NEW m \in signals, LoseSignal(m) PROVE Goal
  BY <1>6 DEF LoseSignal, LeaseShape, LogShape, WorkflowShape, AttemptShape, leaseVars
<1>7. ASSUME NEW d \in Dispatchers, SendSignal(d) PROVE Goal
  <2>1. dispatcher[d] \in DispatcherStates /\ dispatcher[d].seq \in Lane
    BY <1>7 DEF SendSignal, Send, OutboxInv, OutboxTypeOK, DispatcherShape
  <2>2. Request(d) \in Requests
    BY <2>1 DEF Request, Requests, DispatcherStates
  <2> QED BY <1>7, <2>2
     DEF SendSignal, LeaseShape, LogShape, WorkflowShape, AttemptShape, leaseVars
<1>8. ASSUME NEW d \in Dispatchers, NEW r \in {"retry", "rejected"}, TransportFails(d, r) PROVE Goal
  BY <1>8 DEF TransportFails, LeaseShape, LogShape, WorkflowShape, AttemptShape, leaseVars
<1> QED BY <1>1, <1>2, <1>3, <1>4, <1>5, <1>6, <1>7, <1>8 DEF Temporal

LEMMA ReportShape ==
    ASSUME LaneShape, NEW a \in Attempts, Report(a)
    PROVE  LeaseShape' /\ WorkflowShape' /\ AttemptShape'
<1> USE DEF LaneShape
<1>1. LeaseShape'
  BY DEF Report, LeaseShape
<1>2. AttemptShape'
  <2>1. attempt' = [attempt EXCEPT ![a] = Off]
    BY DEF Report
  <2> QED BY <2>1, OffIsState DEF AttemptShape
<1>3. attempt[a].result \in {"parked", "terminal", "retry", "fatal"}
  BY DEF Report, AttemptShape, AttemptStates
<1>4. ASSUME workflow.attempt # a PROVE WorkflowShape'
  BY <1>4 DEF Report, WorkflowShape
<1>5. ASSUME workflow.attempt = a PROVE WorkflowShape'
  <2>1. workflow' = AfterActivity(attempt[a].result)
    BY <1>5 DEF Report
  <2>2. workflow.inflight \in Lane /\ workflow.inflight = workflow.next
    BY <1>5, AttemptsAssumption DEF WorkflowShape, Workflows
  <2>3. workflow.next + 1 \in 1 .. MaxCommands + 1
    BY <2>2, OutboxBoundsAssumption DEF Lane
  <2>4. CASE attempt[a].result = "retry"
    <3>1. workflow' = [workflow EXCEPT !.attempt = NoAttempt]
      BY <2>1, <2>4 DEF AfterActivity
    <3> QED BY <3>1 DEF WorkflowShape, Workflows
  <2>5. CASE attempt[a].result = "fatal"
    <3>1. workflow' = [workflow EXCEPT !.attempt = NoAttempt, !.status = "failed"]
      BY <2>1, <2>5 DEF AfterActivity
    <3> QED BY <3>1 DEF WorkflowShape, Workflows
  <2>6. CASE attempt[a].result \in {"parked", "terminal"}
    <3> DEFINE status == IF attempt[a].result = "terminal" THEN "terminal" ELSE "running"
    <3>1. workflow' = [workflow EXCEPT !.attempt = NoAttempt, !.inflight = 0, !.next = @ + 1,
                                       !.status = status]
      BY <2>1, <2>6 DEF AfterActivity
    <3>2. status \in {"terminal", "running"}
      OBVIOUS
    <3> HIDE DEF status
    <3> QED BY <2>3, <3>1, <3>2 DEF WorkflowShape, Workflows
  <2> QED BY <1>3, <2>4, <2>5, <2>6
<1> QED BY <1>1, <1>2, <1>4, <1>5

LEMMA ActivityShape ==
    ASSUME LaneShape, NEW a \in Attempts, Activity(a)
    PROVE  /\ LeaseShape' /\ LogShape' /\ (signals \subseteq Requests)'
           /\ WorkflowShape' /\ AttemptShape'
<1> USE DEF LaneShape
<1> DEFINE Goal == /\ LeaseShape' /\ LogShape' /\ (signals \subseteq Requests)'
                   /\ WorkflowShape' /\ AttemptShape'
<1>1. CASE ClaimLease(a)
  <2>1. LogShape' /\ (signals \subseteq Requests)' /\ WorkflowShape'
    BY <1>1 DEF ClaimLease, LogShape, WorkflowShape
  <2>2. CASE holder # NoAttempt /\ Finish(a, "retry") /\ UNCHANGED leaseVars
    BY <2>1, <2>2, FinishShape DEF LeaseShape, leaseVars
  <2>3. CASE /\ generation < MaxGeneration /\ Lease!Grant(a)
             /\ attempt' = [attempt EXCEPT ![a].stage = "bind", ![a].generation = generation']
    <3>1. LeaseShape'
      BY <2>3, MaxGenerationAssumption DEF Lease!Grant, LeaseShape
    <3>2. attempt[a] \in AttemptStates /\ attempt[a].seq \in Lane
      BY <1>1 DEF ClaimLease, AttemptShape
    <3> DEFINE s == [attempt[a] EXCEPT !.stage = "bind", !.generation = generation']
    <3>3. s \in AttemptStates /\ s.seq \in Lane /\ s.stage = "bind"
      BY <3>1, <3>2 DEF AttemptStates, LeaseShape
    <3>4. attempt' = [attempt EXCEPT ![a] = s]
      BY <2>3 DEF AttemptShape
    <3> HIDE DEF s
    <3>5. AttemptShape'
      BY <3>3, <3>4 DEF AttemptShape
    <3> QED BY <2>1, <3>1, <3>5
  <2> QED BY <1>1, <2>2, <2>3 DEF ClaimLease
<1>2. CASE BindActivation(a)
  <2>1. AttemptShape'
    BY <1>2, FinishShape, BecomeShape DEF BindActivation
  <2> QED BY <1>2, <2>1 DEF BindActivation, LeaseShape, LogShape, WorkflowShape, leaseVars
<1>3. CASE LoadCheckpoint(a)
  <2>1. CASE Become(a, "settle") \/ Finish(a, "parked") \/ Finish(a, "fatal")
    <3>1. AttemptShape'
      BY <1>3, <2>1, FinishShape, BecomeShape DEF LoadCheckpoint
    <3> QED BY <1>3, <3>1 DEF LoadCheckpoint, LeaseShape, LogShape, WorkflowShape, leaseVars
  <2>2. CASE attempt' = [attempt EXCEPT ![a].stage = "check", ![a].at = Len(log)]
    <3>1. attempt[a] \in AttemptStates /\ attempt[a].seq \in Lane
      BY <1>3 DEF LoadCheckpoint, AttemptShape
    <3> DEFINE s == [attempt[a] EXCEPT !.stage = "check", !.at = Len(log)]
    <3>2. Len(log) \in 0 .. MaxCheckpoints
      BY OutboxBoundsAssumption DEF LogShape
    <3>3. s \in AttemptStates /\ s.seq \in Lane /\ s.stage = "check"
      BY <3>1, <3>2 DEF AttemptStates
    <3>4. attempt' = [attempt EXCEPT ![a] = s]
      BY <2>2 DEF AttemptShape
    <3> HIDE DEF s
    <3>5. AttemptShape'
      BY <3>3, <3>4 DEF AttemptShape
    <3> QED BY <1>3, <3>5 DEF LoadCheckpoint, LeaseShape, LogShape, WorkflowShape, leaseVars
  <2> QED BY <1>3, <2>1, <2>2 DEF LoadCheckpoint
<1>4. CASE ReadTerminal(a)
  <2>1. AttemptShape'
    BY <1>4, FinishShape, BecomeShape DEF ReadTerminal
  <2> QED BY <1>4, <2>1 DEF ReadTerminal, LeaseShape, LogShape, WorkflowShape, leaseVars
<1>5. CASE SettleTerminal(a)
  <2>1. AttemptShape'
    BY <1>5, FinishShape DEF SettleTerminal
  <2> QED BY <1>5, <2>1 DEF SettleTerminal, LeaseShape, LogShape, WorkflowShape, leaseVars
<1>6. CASE AttemptErrs(a)
  <2>1. AttemptShape'
    BY <1>6, FinishShape DEF AttemptErrs
  <2> QED BY <1>6, <2>1 DEF AttemptErrs, LeaseShape, LogShape, WorkflowShape, leaseVars
<1>7. CASE Report(a)
  BY <1>7, ReportShape DEF Report, LogShape
<1>8. ASSUME NEW phase \in {"running", "completed"}, NEW ended \in BOOLEAN,
             CommitCheckpoint(a, phase, ended)
      PROVE  Goal
  <2> DEFINE c == [seq |-> attempt[a].seq, phase |-> phase, terminal |-> ended]
  <2>1. attempt[a] \in AttemptStates /\ attempt[a].seq \in Lane
    BY <1>8 DEF CommitCheckpoint, AttemptShape
  <2>2. c \in Checkpoints
    BY <2>1 DEF Checkpoints
  <2>3. log' = log \/ (Len(log) < MaxCheckpoints /\ log' = Append(log, c))
    BY <1>8 DEF CommitCheckpoint
  <2> HIDE DEF c
  <2>4. LogShape'
    BY <2>2, <2>3, OutboxBoundsAssumption DEF LogShape
  <2>5. AttemptShape'
    <3>1. CASE Finish(a, "retry") \/ Finish(a, "parked")
      BY <3>1, FinishShape
    <3> DEFINE stage == IF ended THEN "settle" ELSE "drive"
    <3>2. CASE /\ Len(log) = attempt[a].at /\ Len(log) < MaxCheckpoints
               /\ attempt' = [attempt EXCEPT ![a].at = @ + 1, ![a].stage = stage]
      <4>1. attempt[a].at + 1 \in 0 .. MaxCheckpoints
        BY <3>2, OutboxBoundsAssumption DEF LogShape
      <4>2. stage \in {"settle", "drive"}
        OBVIOUS
      <4> HIDE DEF stage
      <4> DEFINE s == [attempt[a] EXCEPT !.at = @ + 1, !.stage = stage]
      <4>3. s \in AttemptStates /\ s.seq \in Lane /\ s.stage = stage
        BY <2>1, <4>1, <4>2 DEF AttemptStates
      <4>4. attempt' = [attempt EXCEPT ![a] = s]
        BY <3>2 DEF AttemptShape
      <4> HIDE DEF s
      <4> QED BY <4>2, <4>3, <4>4 DEF AttemptShape
    <3> QED BY <1>8, <3>1, <3>2 DEF CommitCheckpoint
  <2> QED BY <1>8, <2>4, <2>5 DEF CommitCheckpoint, LeaseShape, WorkflowShape, leaseVars
<1> QED BY <1>1, <1>2, <1>3, <1>4, <1>5, <1>6, <1>7, <1>8 DEF Activity

LEMMA LaneStepShape == LaneShape /\ [LaneNext]_laneVars => LaneShape'
<1> SUFFICES ASSUME LaneShape, [LaneNext]_laneVars PROVE LaneShape'
  OBVIOUS
<1>1. OutboxInv'
  BY LaneSimulates, StepInv DEF LaneShape
<1>2. CASE UNCHANGED laneVars
  BY <1>1, <1>2
     DEF laneVars, leaseVars, LaneShape, LeaseShape, LogShape, WorkflowShape, AttemptShape
<1>3. CASE StoreNext /\ UNCHANGED <<leaseVars, log, signals, workflow, attempt>>
  BY <1>1, <1>3 DEF leaseVars, LaneShape, LeaseShape, LogShape, WorkflowShape, AttemptShape
<1>4. CASE LeaseExpires
  BY <1>1, <1>4
     DEF LeaseExpires, Lease!Lapse, LaneShape, LeaseShape, LogShape, WorkflowShape, AttemptShape
<1>5. CASE Temporal
  BY <1>1, <1>5, TemporalShape DEF LaneShape
<1>6. CASE \E a \in Attempts : Activity(a)
  BY <1>1, <1>6, ActivityShape DEF LaneShape
<1> QED BY <1>2, <1>3, <1>4, <1>5, <1>6 DEF LaneNext

-----------------------------------------------------------------------------
(* The shape of the lane, in which every attempt that runs has an admitted
   command, holds of every behaviour. *)
THEOREM LaneInvariant == LaneSpec => []LaneShape
BY LaneInitShape, LaneStepShape, PTL DEF LaneSpec

(* The lane's state stays well formed: in particular the Workflow never counts
   past the last admitted command. *)
THEOREM LaneTypeCorrect == LaneSpec => []LaneTypeOK
<1>1. LaneShape => LaneTypeOK
  BY DEF LaneShape, OutboxInv, LeaseShape, LogShape, WorkflowShape, AttemptShape, LaneTypeOK
<1> QED BY <1>1, LaneInvariant, PTL

(* Temporal, the Workflow and the attempts implement the transport and the
   activations that CommandOutbox leaves open. *)
THEOREM LaneRefinesOutbox == LaneSpec => ImplementsOutbox
<1>1. LaneInit => OutboxInit
  BY DEF LaneInit
<1> QED BY <1>1, LaneSimulates, LaneInvariant, PTL DEF LaneSpec, OutboxSpec, ImplementsOutbox

(* Hence commands are delivered in admission order in the composed system. *)
THEOREM LaneDeliversInOrder == LaneSpec => []LaneInOrder
BY LaneRefinesOutbox, LaneOrder, PTL DEF ImplementsOutbox

-----------------------------------------------------------------------------
(***************************************************************************)
(* Exactly once, in order.  The three invariants below hold together only: *)
(* what the log looks like rests on the driver being at its head, the      *)
(* driver being there on the writer generations and on the source          *)
(* checkpoint its command was bound to, and the bindings on the log.       *)
(***************************************************************************)

\* The command's boundary is durable.
Done(s) == \E i \in 1 .. Len(log) : log[i].seq = s /\ log[i].phase = "completed"

\* The log runs through the commands: their sequences never fall, a completed
\* one is left for good, and every command below the newest is done.
LogOrder ==
    /\ log[1] = Seed
    /\ \A i \in 1 .. Len(log) : log[i].terminal => log[i].phase = "completed"
    /\ \A i \in 2 .. Len(log) : log[i].seq # 0
    /\ \A i, j \in 1 .. Len(log) : i < j =>
        /\ log[i].seq <= log[j].seq
        /\ log[i].phase = "completed" => log[i].seq < log[j].seq
    /\ \A t \in 1 .. Latest.seq - 1 : Done(t)
    /\ AppliedOnceInOrder

\* A command in the log was bound, to its predecessor's boundary.
BindingOrder ==
    /\ \A i \in 1 .. Len(log) : log[i].seq # 0 => bound[log[i].seq] # 0
    /\ \A s \in Lane : bound[s] # 0 =>
        /\ bound[s] \in 1 .. Len(log)
        /\ log[bound[s]].seq + 1 = s /\ log[bound[s]].phase = "completed"

\* The attempt was granted the lease; it may have lost it since.
Granted(a) == attempt[a].stage \in {"bind", "load", "check", "drive", "settle"}

Generations ==
    /\ \A a \in Attempts : Granted(a) => attempt[a].generation \in 1 .. generation
    /\ \A a, b \in Attempts :
        Granted(a) /\ Granted(b) /\ attempt[a].generation = attempt[b].generation => a = b

\* The next checkpoint may be one of command s.
AtHead(s) ==
    /\ ~Latest.terminal
    /\ \/ Latest.phase = "running" /\ Latest.seq = s
       \/ Latest.phase = "completed" /\ Latest.seq + 1 = s

\* Attempts past the binding have one; the one with the newest generation is at
\* the head of the log, and one that settles has a terminal checkpoint.
Drivers ==
    \A a \in Attempts :
        /\ attempt[a].stage \in {"load", "check", "drive", "settle"} => bound[attempt[a].seq] # 0
        /\ attempt[a].stage \in {"check", "drive"} /\ Current(a) =>
              attempt[a].at = Len(log) /\ AtHead(attempt[a].seq)
        /\ attempt[a].stage = "settle" => Done(attempt[a].seq) /\ Latest.terminal

\* What the awaited attempt reports, and what the Workflow made of reports, is durable.
Reports ==
    /\ workflow.attempt # NoAttempt =>
        /\ attempt[workflow.attempt].stage # "off"
        /\ attempt[workflow.attempt].stage # "done" =>
              attempt[workflow.attempt].seq = workflow.inflight
        /\ attempt[workflow.attempt].stage = "done" =>
            /\ attempt[workflow.attempt].result \in {"parked", "terminal"} => Done(workflow.inflight)
            /\ attempt[workflow.attempt].result = "terminal" => terminal
    /\ \A t \in 1 .. workflow.next - 1 : Done(t)
    /\ workflow.status = "terminal" => terminal
    /\ terminal => Latest.terminal

\* The inductive invariant.
LaneOrderInv ==
    LaneShape /\ LogOrder /\ BindingOrder /\ Generations /\ Drivers /\ Reports

\* The fields of the checkpoints.
LEMMA LogTypes ==
    ASSUME LogShape
    PROVE  /\ Len(log) \in Nat \ {0} /\ Len(log) <= MaxCheckpoints
           /\ \A i \in 1 .. Len(log) :
                /\ log[i].seq \in Nat /\ log[i].seq \in {0} \union Lane
                /\ log[i].phase \in {"running", "completed"}
                /\ log[i].terminal \in BOOLEAN
<1>1. \A i \in 1 .. Len(log) : log[i] \in Checkpoints
  BY DEF LogShape
<1> QED BY <1>1, OutboxBoundsAssumption DEF LogShape, Checkpoints, Lane

LEMMA LogOrderInit == LaneInit => LogOrder /\ BindingOrder /\ Generations /\ Drivers /\ Reports
<1> SUFFICES ASSUME LaneInit PROVE LogOrder /\ BindingOrder /\ Generations /\ Drivers /\ Reports
  OBVIOUS
<1>1. Len(log) = 1 /\ log[1] = Seed /\ Latest = Seed
  BY DEF LaneInit, Latest
<1>2. Seed.seq = 0 /\ Seed.phase = "completed" /\ Seed.terminal = FALSE
  BY DEF Seed
<1>3. LogOrder
  BY <1>1, <1>2 DEF LogOrder, AppliedOnceInOrder
<1>4. BindingOrder
  BY <1>1, <1>2 DEF BindingOrder, LaneInit, OutboxInit
<1>5. \A a \in Attempts : attempt[a].stage = "off"
  BY OffIsState DEF LaneInit
<1>6. Generations /\ Drivers
  BY <1>5 DEF Generations, Drivers, Granted
<1>7. Reports
  BY DEF Reports, LaneInit, NoWorkflow, OutboxInit
<1> QED BY <1>3, <1>4, <1>6, <1>7

\* The log decides what it orders: without a commit nothing changes there.
LEMMA LogOrderStutters ==
    ASSUME UNCHANGED log
    PROVE  LogOrder => LogOrder'
BY DEF LogOrder, Latest, Done, AppliedOnceInOrder

\* An attempt that works on ends with a result its command has earned.
LEMMA FinishOrder ==
    ASSUME LaneOrderInv, NEW a \in Attempts, attempt[a].stage \notin {"off", "done"},
           NEW r \in {"parked", "terminal", "retry", "fatal"}, Finish(a, r),
           UNCHANGED <<generation, workflow, log, bound>>,
           terminal => terminal', terminal' => Latest.terminal,
           r \in {"parked", "terminal"} => Done(attempt[a].seq),
           r = "terminal" => terminal'
    PROVE  BindingOrder' /\ Generations' /\ Drivers' /\ Reports'
<1> DEFINE s == [Off EXCEPT !.stage = "done", !.result = r]
<1>1. s \in AttemptStates /\ s.stage = "done" /\ s.result = r
  BY OffIsState
<1>2. attempt' = [attempt EXCEPT ![a] = s] /\ attempt \in [Attempts -> AttemptStates]
  BY DEF Finish, LaneOrderInv, LaneShape, AttemptShape
<1> HIDE DEF s
<1>3. attempt'[a] = s /\ \A b \in Attempts \ {a} : attempt'[b] = attempt[b]
  BY <1>2
<1>4. BindingOrder'
  BY DEF LaneOrderInv, BindingOrder
<1>5. Generations'
  BY <1>1, <1>3 DEF LaneOrderInv, Generations, Granted
<1>6. Drivers'
  BY <1>1, <1>3 DEF LaneOrderInv, Drivers, Done, AtHead, Latest, Current
<1>7. Reports'
  <2>1. workflow.attempt \in Attempts \union {NoAttempt}
    BY DEF LaneOrderInv, LaneShape, WorkflowShape, Workflows
  <2>2. CASE workflow.attempt = a
    <3>1. attempt[a].seq = workflow.inflight
      BY <2>2, AttemptsAssumption DEF LaneOrderInv, Reports
    <3>2. r \in {"parked", "terminal"} => Done(workflow.inflight)'
      BY <3>1 DEF Done
    <3> QED BY <1>1, <1>3, <2>2, <3>2, AttemptsAssumption DEF LaneOrderInv, Reports, Done, Latest
  <2>3. CASE workflow.attempt # a
    BY <1>3, <2>1, <2>3 DEF LaneOrderInv, Reports, Done, Latest
  <2> QED BY <2>2, <2>3
<1> QED BY <1>4, <1>5, <1>6, <1>7

\* An attempt with a lease goes on under the same lease.
LEMMA AdvanceOrder ==
    ASSUME LaneOrderInv, NEW a \in Attempts, Granted(a),
           NEW s \in AttemptStates, attempt' = [attempt EXCEPT ![a] = s],
           s.stage \in {"load", "check", "drive", "settle"}, s.seq = attempt[a].seq,
           s.generation = attempt[a].generation,
           UNCHANGED <<generation, workflow, log, terminal>>,
           \A q \in Lane : bound[q] # 0 => bound'[q] # 0, bound'[s.seq] # 0,
           s.stage \in {"check", "drive"} /\ Current(a) => s.at = Len(log) /\ AtHead(s.seq),
           s.stage = "settle" => Done(s.seq) /\ Latest.terminal
    PROVE  Generations' /\ Drivers' /\ Reports'
<1>1. attempt'[a] = s /\ \A b \in Attempts \ {a} : attempt'[b] = attempt[b]
  BY DEF LaneOrderInv, LaneShape, AttemptShape
<1>2. Generations'
  BY <1>1 DEF LaneOrderInv, Generations, Granted
<1>3. \A b \in Attempts : Granted(b) => attempt[b].seq \in Lane
  BY DEF LaneOrderInv, LaneShape, AttemptShape, Granted
<1>4. Drivers'
  <2> SUFFICES ASSUME NEW b \in Attempts
               PROVE  /\ attempt'[b].stage \in {"load", "check", "drive", "settle"}
                            => bound'[attempt'[b].seq] # 0
                      /\ attempt'[b].stage \in {"check", "drive"} /\ attempt'[b].generation = generation
                            => attempt'[b].at = Len(log) /\ AtHead(attempt'[b].seq)
                      /\ attempt'[b].stage = "settle" => Done(attempt'[b].seq) /\ Latest.terminal
    BY DEF Drivers, Done, AtHead, Latest, Current
  <2>1. CASE b = a
    BY <1>1, <2>1 DEF Current
  <2>2. CASE b # a
    BY <1>1, <1>3, <2>2 DEF LaneOrderInv, Drivers, Current, Granted
  <2> QED BY <2>1, <2>2
<1>5. Reports'
  <2>1. workflow.attempt \in Attempts \union {NoAttempt}
    BY DEF LaneOrderInv, LaneShape, WorkflowShape, Workflows
  <2>2. CASE workflow.attempt = a
    BY <1>1, <2>2, AttemptsAssumption DEF LaneOrderInv, Reports, Done, Latest, Granted
  <2>3. CASE workflow.attempt # a
    BY <1>1, <2>1, <2>3 DEF LaneOrderInv, Reports, Done, Latest
  <2> QED BY <2>2, <2>3
<1> QED BY <1>2, <1>4, <1>5

\* What is durable stays so, and comes to a command's end only once.
LEMMA CommitOrder ==
    ASSUME LaneOrderInv, NEW a \in Attempts, NEW phase \in {"running", "completed"},
           NEW ended \in BOOLEAN, phase = "running" => ~ended,
           attempt[a].stage = "drive", Current(a),
           log' = Append(log, [seq |-> attempt[a].seq, phase |-> phase, terminal |-> ended])
    PROVE  /\ LogOrder'
           /\ \A i \in 1 .. Len(log) : log'[i] = log[i]
           /\ Len(log') = Len(log) + 1
           /\ Latest' = [seq |-> attempt[a].seq, phase |-> phase, terminal |-> ended]
           /\ \A q : Done(q) => Done(q)'
           /\ phase = "completed" => \E i \in 1 .. Len(log') :
                log'[i].seq = attempt[a].seq /\ log'[i].phase = "completed"
<1> DEFINE q == attempt[a].seq
           c == [seq |-> q, phase |-> phase, terminal |-> ended]
           n == Len(log)
<1>1. q \in Lane /\ q \in Nat \ {0} /\ AtHead(q)
  BY DEF LaneOrderInv, LaneShape, AttemptShape, Drivers, Lane
<1>2. c \in Checkpoints /\ c.seq = q /\ c.phase = phase /\ c.terminal = ended
  BY <1>1 DEF Checkpoints
<1>3. log \in Seq(Checkpoints) /\ log' = Append(log, c)
  BY DEF LaneOrderInv, LaneShape, LogShape
<1>4. /\ n \in Nat \ {0}
      /\ \A i \in 1 .. n : /\ log[i].seq \in Nat /\ log[i].phase \in {"running", "completed"}
                           /\ log[i].terminal \in BOOLEAN
  BY LogTypes DEF LaneOrderInv, LaneShape
<1> HIDE DEF c, q
<1>5. Len(log') = n + 1 /\ log'[n + 1] = c /\ \A i \in 1 .. n : log'[i] = log[i]
  BY <1>2, <1>3
<1>6. Latest' = c
  BY <1>5 DEF Latest
<1>7. \A t : Done(t) => Done(t)'
  BY <1>4, <1>5 DEF Done
<1>8. Latest.seq \in Nat /\ Latest = log[n] /\ Latest.phase \in {"running", "completed"}
  BY <1>4 DEF Latest
<1>9. LogOrder'
  <2>1. log'[1] = Seed
    BY <1>4, <1>5 DEF LaneOrderInv, LogOrder
  <2>2. \A i \in 1 .. Len(log') : log'[i].terminal => log'[i].phase = "completed"
    BY <1>2, <1>4, <1>5 DEF LaneOrderInv, LogOrder
  <2>3. \A i \in 2 .. Len(log') : log'[i].seq # 0
    BY <1>1, <1>2, <1>4, <1>5 DEF LaneOrderInv, LogOrder
  <2>4. \A i \in 1 .. n : log[i].seq <= Latest.seq
    BY <1>4, <1>8 DEF LaneOrderInv, LogOrder
  <2>5. ASSUME NEW i \in 1 .. n
        PROVE  log[i].seq <= q /\ (log[i].phase = "completed" => log[i].seq < q)
    <3>1. CASE Latest.phase = "completed" /\ Latest.seq + 1 = q
      BY <1>1, <1>4, <1>8, <2>4, <3>1
    <3>2. CASE Latest.phase = "running" /\ Latest.seq = q
      <4>1. CASE i = n
        BY <1>8, <3>2, <4>1
      <4>2. CASE i < n
        BY <1>4, <1>8, <3>2, <4>2 DEF LaneOrderInv, LogOrder
      <4> QED BY <1>4, <4>1, <4>2
    <3> QED BY <1>1, <3>1, <3>2 DEF AtHead
  <2>6. \A i, j \in 1 .. Len(log') : i < j =>
            /\ log'[i].seq <= log'[j].seq
            /\ log'[i].phase = "completed" => log'[i].seq < log'[j].seq
    <3> SUFFICES ASSUME NEW i \in 1 .. Len(log'), NEW j \in 1 .. Len(log'), i < j
                 PROVE  /\ log'[i].seq <= log'[j].seq
                        /\ log'[i].phase = "completed" => log'[i].seq < log'[j].seq
      OBVIOUS
    <3>1. CASE j = n + 1
      <4>1. i \in 1 .. n
        BY <1>4, <1>5, <3>1
      <4> QED BY <1>2, <1>5, <2>5, <3>1, <4>1
    <3>2. CASE j # n + 1
      <4>1. i \in 1 .. n /\ j \in 1 .. n
        BY <1>4, <1>5, <3>2
      <4> QED BY <1>5, <4>1 DEF LaneOrderInv, LogOrder
    <3> QED BY <3>1, <3>2
  <2>7. \A t \in 1 .. Latest'.seq - 1 : Done(t)'
    <3> SUFFICES ASSUME NEW t \in 1 .. q - 1 PROVE Done(t)
      BY <1>2, <1>6, <1>7
    <3>1. CASE t \in 1 .. Latest.seq - 1
      BY <3>1 DEF LaneOrderInv, LogOrder
    <3>2. CASE t = Latest.seq /\ Latest.phase = "completed"
      BY <1>4, <1>8, <3>2 DEF Done
    <3> QED BY <1>1, <1>8, <3>1, <3>2 DEF AtHead
  <2>8. AppliedOnceInOrder'
    <3> SUFFICES ASSUME NEW i \in 1 .. n
                 PROVE  /\ log'[i].phase = "running" => log'[i + 1].seq = log'[i].seq
                        /\ log'[i].phase = "completed" => log'[i + 1].seq = log'[i].seq + 1
                        /\ ~log'[i].terminal
      BY <1>4, <1>5 DEF AppliedOnceInOrder
    <3>1. CASE i = n
      BY <1>1, <1>2, <1>5, <1>8, <3>1 DEF AtHead
    <3>2. CASE i # n
      <4>1. i \in 1 .. n - 1 /\ i + 1 \in 1 .. n
        BY <1>4, <3>2
      <4> QED BY <1>5, <4>1 DEF LaneOrderInv, LogOrder, AppliedOnceInOrder
    <3> QED BY <3>1, <3>2
  <2> QED BY <2>1, <2>2, <2>3, <2>6, <2>7, <2>8 DEF LogOrder
<1>10. phase = "completed" => \E i \in 1 .. Len(log') :
            log'[i].seq = q /\ log'[i].phase = "completed"
  BY <1>2, <1>4, <1>5
<1> QED BY <1>5, <1>6, <1>7, <1>9, <1>10 DEF c, q

\* A command that is bound now finds its predecessor's boundary at the head.
LEMMA BindOrder ==
    ASSUME LaneOrderInv, NEW s \in Lane, bound[s] = 0, ~Latest.terminal,
           s = 1 \/ (s - 1) \in Applied
    PROVE  Latest.seq + 1 = s /\ Latest.phase = "completed"
<1> DEFINE n == Len(log)
<1>1. /\ n \in Nat \ {0}
      /\ \A i \in 1 .. n : /\ log[i].seq \in Nat /\ log[i].phase \in {"running", "completed"}
                           /\ log[i].seq \in {0} \union Lane
  BY LogTypes DEF LaneOrderInv, LaneShape
<1>2. s \in Nat \ {0} /\ Latest = log[n] /\ Latest.seq \in Nat /\ n \in 1 .. n
  BY <1>1 DEF Lane, Latest
<1>3. \A i \in 1 .. n : log[i].seq # s
  BY <1>2 DEF LaneOrderInv, BindingOrder
<1>4. \A i \in 1 .. n : log[i].seq <= Latest.seq
  BY <1>1, <1>2 DEF LaneOrderInv, LogOrder
<1>5. Latest.seq < s
  <2>1. ASSUME s < Latest.seq PROVE FALSE
    <3>1. Done(s)
      BY <1>2, <2>1 DEF LaneOrderInv, LogOrder
    <3> QED BY <1>3, <3>1 DEF Done
  <2> QED BY <1>2, <1>3, <2>1
<1>6. PICK k \in 1 .. n : log[k].seq = s - 1 /\ log[k].phase = "completed"
  <2>1. CASE s = 1
    <3>1. 1 \in 1 .. n /\ log[1].seq = 0 /\ log[1].phase = "completed"
      BY <1>1 DEF LaneOrderInv, LogOrder, Seed
    <3> QED BY <2>1, <3>1
  <2>2. CASE (s - 1) \in Applied
    BY <2>2 DEF Applied
  <2> QED BY <2>1, <2>2
<1>7. k = n
  <2>1. ASSUME k < n PROVE FALSE
    <3>1. log[k].seq < log[n].seq
      BY <1>2, <1>6, <2>1 DEF LaneOrderInv, LogOrder
    <3> QED BY <1>2, <1>5, <1>6, <3>1
  <2> QED BY <1>1, <2>1
<1> QED BY <1>2, <1>6, <1>7

-----------------------------------------------------------------------------
LEMMA ClaimLeaseOrder ==
    ASSUME LaneOrderInv, NEW a \in Attempts, ClaimLease(a)
    PROVE  BindingOrder' /\ Generations' /\ Drivers' /\ Reports'
<1>0. /\ UNCHANGED <<workflow, log, bound, terminal>>
      /\ attempt[a].stage = "claim" /\ (terminal => Latest.terminal)
  BY DEF ClaimLease, outboxVars, LaneOrderInv, Reports
<1>1. CASE Finish(a, "retry") /\ UNCHANGED leaseVars
  BY <1>0, <1>1, FinishOrder DEF leaseVars, LaneOrderInv, Reports
<1>2. CASE /\ Lease!Grant(a)
           /\ attempt' = [attempt EXCEPT ![a].stage = "bind", ![a].generation = generation']
  <2>1. generation \in Nat /\ generation' = generation + 1
    BY <1>2, MaxGenerationAssumption DEF LaneOrderInv, LaneShape, LeaseShape, Lease!Grant
  <2>2. attempt \in [Attempts -> AttemptStates] /\ attempt[a] \in AttemptStates
    BY DEF LaneOrderInv, LaneShape, AttemptShape
  <2>3. /\ attempt'[a].stage = "bind" /\ attempt'[a].generation = generation'
        /\ attempt'[a].seq = attempt[a].seq
        /\ \A b \in Attempts \ {a} : attempt'[b] = attempt[b]
    BY <1>2, <2>2 DEF AttemptStates
  <2>4. BindingOrder'
    BY <1>0 DEF LaneOrderInv, BindingOrder
  <2>5. Generations'
    BY <2>1, <2>3 DEF LaneOrderInv, Generations, Granted
  <2>6. Drivers'
    BY <1>0, <2>1, <2>3
       DEF LaneOrderInv, Drivers, Generations, Granted, Current, Done, AtHead, Latest
  <2>7. Reports'
    <3>1. workflow.attempt \in Attempts \union {NoAttempt}
      BY DEF LaneOrderInv, LaneShape, WorkflowShape, Workflows
    <3>2. CASE workflow.attempt = a
      BY <1>0, <2>3, <3>2, AttemptsAssumption DEF LaneOrderInv, Reports, Done, Latest
    <3>3. CASE workflow.attempt # a
      BY <1>0, <2>3, <3>1, <3>3 DEF LaneOrderInv, Reports, Done, Latest
    <3> QED BY <3>2, <3>3
  <2> QED BY <2>4, <2>5, <2>6, <2>7
<1> QED BY <1>1, <1>2 DEF ClaimLease

\* The stage an attempt enters is the only thing Become changes.
LEMMA BecomeIs ==
    ASSUME AttemptShape, NEW a \in Attempts,
           NEW g \in {"bind", "load", "check", "drive", "settle"}, Become(a, g)
    PROVE  \E s \in AttemptStates :
              /\ attempt' = [attempt EXCEPT ![a] = s] /\ s.stage = g
              /\ s.seq = attempt[a].seq /\ s.generation = attempt[a].generation
              /\ s.at = attempt[a].at
<1> DEFINE s == [attempt[a] EXCEPT !.stage = g]
<1>1. attempt[a] \in AttemptStates
  BY DEF AttemptShape
<1>2. /\ s \in AttemptStates /\ s.stage = g /\ s.seq = attempt[a].seq
      /\ s.generation = attempt[a].generation /\ s.at = attempt[a].at
  BY <1>1 DEF AttemptStates
<1>3. attempt' = [attempt EXCEPT ![a] = s]
  BY DEF Become, AttemptShape
<1> HIDE DEF s
<1> QED BY <1>2, <1>3

LEMMA BindActivationOrder ==
    ASSUME LaneOrderInv, NEW a \in Attempts, BindActivation(a)
    PROVE  BindingOrder' /\ Generations' /\ Drivers' /\ Reports'
<1> DEFINE s == attempt[a].seq
<1>0. /\ UNCHANGED <<generation, workflow, log>>
      /\ attempt[a].stage = "bind" /\ s \in Lane /\ (terminal => Latest.terminal)
      /\ AttemptShape /\ Granted(a)
  BY DEF BindActivation, leaseVars, LaneOrderInv, Reports, LaneShape, AttemptShape, Granted
<1>1. CASE (Finish(a, "retry") \/ Finish(a, "fatal")) /\ UNCHANGED outboxVars
  BY <1>0, <1>1, FinishOrder DEF outboxVars
<1>2. CASE /\ Become(a, "load") /\ UNCHANGED terminal /\ BindingOrder'
           /\ \A q \in Lane : bound[q] # 0 => bound'[q] # 0
           /\ bound'[s] # 0
  <2>1. PICK n \in AttemptStates :
              /\ attempt' = [attempt EXCEPT ![a] = n] /\ n.stage = "load"
              /\ n.seq = attempt[a].seq /\ n.generation = attempt[a].generation
    BY <1>0, <1>2, BecomeIs
  <2> QED BY <1>0, <1>2, <2>1, AdvanceOrder
<1>3. CASE bound[s] # 0 /\ Become(a, "load") /\ UNCHANGED outboxVars
  <2>1. BindingOrder'
    BY <1>0, <1>3 DEF outboxVars, LaneOrderInv, BindingOrder
  <2> QED BY <1>2, <1>3, <2>1 DEF outboxVars
<1>4. CASE /\ bound[s] = 0 /\ ~Latest.terminal /\ (s = 1 \/ (s - 1) \in Applied)
           /\ Become(a, "load") /\ BindSource(s, Len(log))
  <2>1. Latest.seq + 1 = s /\ Latest.phase = "completed"
    BY <1>0, <1>4, BindOrder
  <2>2. Len(log) \in Nat \ {0} /\ \A i \in 1 .. Len(log) : log[i].seq \in {0} \union Lane
    BY LogTypes DEF LaneOrderInv, LaneShape
  <2>3. bound' = [bound EXCEPT ![s] = Len(log)] /\ bound \in [Lane -> Nat] /\ UNCHANGED terminal
    BY <1>4 DEF BindSource, LaneOrderInv, LaneShape, OutboxInv, OutboxTypeOK
  <2>4. bound'[s] = Len(log) /\ \A q \in Lane \ {s} : bound'[q] = bound[q]
    BY <1>0, <2>3
  <2>5. BindingOrder'
    BY <1>0, <2>1, <2>2, <2>4 DEF LaneOrderInv, BindingOrder, Latest
  <2> QED BY <1>0, <1>2, <1>4, <2>2, <2>3, <2>4, <2>5
<1> QED BY <1>1, <1>3, <1>4 DEF BindActivation

\* Nothing follows a terminal checkpoint, so the one that ended the run is last.
LEMMA TerminalIsLatest ==
    ASSUME LaneOrderInv, NEW i \in 1 .. Len(log), log[i].terminal
    PROVE  Latest.terminal
<1>1. Len(log) \in Nat \ {0}
  BY LogTypes DEF LaneOrderInv, LaneShape
<1>2. i = Len(log)
  BY <1>1 DEF LaneOrderInv, LogOrder, AppliedOnceInOrder
<1> QED BY <1>2 DEF Latest

LEMMA AppliedIsDone == ASSUME NEW q PROVE q \in Applied <=> Done(q)
BY DEF Applied, Done

LEMMA LoadCheckpointOrder ==
    ASSUME LaneOrderInv, NEW a \in Attempts, LoadCheckpoint(a)
    PROVE  BindingOrder' /\ Generations' /\ Drivers' /\ Reports'
<1> DEFINE s == attempt[a].seq
<1>0. /\ UNCHANGED <<generation, workflow, log, bound, terminal>>
      /\ attempt[a].stage = "load" /\ s \in Lane /\ (terminal => Latest.terminal)
      /\ AttemptShape /\ Granted(a) /\ bound[s] # 0
      /\ attempt[a] \in AttemptStates
  BY DEF LoadCheckpoint, leaseVars, outboxVars, LaneOrderInv, Reports, LaneShape, AttemptShape,
         Granted, Drivers
<1>1. BindingOrder'
  BY <1>0 DEF LaneOrderInv, BindingOrder
<1>2. CASE /\ s \in Applied /\ Become(a, "settle")
           /\ \E i \in 1 .. Len(log) : log[i].seq = s /\ log[i].terminal
  <2>1. Done(s) /\ Latest.terminal
    BY <1>2, AppliedIsDone, TerminalIsLatest
  <2>2. PICK n \in AttemptStates :
              /\ attempt' = [attempt EXCEPT ![a] = n] /\ n.stage = "settle"
              /\ n.seq = attempt[a].seq /\ n.generation = attempt[a].generation
    BY <1>0, <1>2, BecomeIs
  <2> QED BY <1>0, <1>1, <2>1, <2>2, AdvanceOrder
<1>3. CASE s \in Applied /\ Finish(a, "parked")
  BY <1>0, <1>3, AppliedIsDone, FinishOrder
<1>4. CASE Finish(a, "fatal")
  BY <1>0, <1>4, FinishOrder
<1>5. CASE /\ attempt' = [attempt EXCEPT ![a].stage = "check", ![a].at = Len(log)]
           /\ \/ Latest.phase = "running" /\ Latest.seq = s
              \/ Latest.phase = "completed" /\ Len(log) = bound[s] /\ ~Latest.terminal
  <2>1. /\ Len(log) \in 0 .. MaxCheckpoints /\ Len(log) \in 1 .. Len(log)
        /\ Latest.phase # "running" => Latest.phase = "completed"
    BY LogTypes, OutboxBoundsAssumption DEF LaneOrderInv, LaneShape, Latest
  <2>2. AtHead(s)
    <3>1. CASE Latest.phase = "running" /\ Latest.seq = s
      BY <2>1, <3>1 DEF AtHead, Latest, LaneOrderInv, LogOrder
    <3>2. CASE Latest.phase = "completed" /\ Len(log) = bound[s] /\ ~Latest.terminal
      BY <1>0, <3>2 DEF AtHead, Latest, LaneOrderInv, BindingOrder
    <3> QED BY <1>5, <3>1, <3>2
  <2> DEFINE n == [attempt[a] EXCEPT !.stage = "check", !.at = Len(log)]
  <2>3. /\ n \in AttemptStates /\ n.stage = "check" /\ n.at = Len(log)
        /\ n.seq = s /\ n.generation = attempt[a].generation
    BY <1>0, <2>1 DEF AttemptStates
  <2>4. attempt' = [attempt EXCEPT ![a] = n]
    BY <1>5 DEF LaneOrderInv, LaneShape, AttemptShape
  <2> HIDE DEF n
  <2> QED BY <1>0, <1>1, <2>2, <2>3, <2>4, AdvanceOrder
<1> QED BY <1>2, <1>3, <1>4, <1>5 DEF LoadCheckpoint

LEMMA ReadTerminalOrder ==
    ASSUME LaneOrderInv, NEW a \in Attempts, ReadTerminal(a)
    PROVE  BindingOrder' /\ Generations' /\ Drivers' /\ Reports'
<1>0. /\ UNCHANGED <<generation, workflow, log, bound, terminal>>
      /\ attempt[a].stage = "check" /\ (terminal => Latest.terminal)
      /\ AttemptShape /\ Granted(a) /\ bound[attempt[a].seq] # 0
      /\ Current(a) => attempt[a].at = Len(log) /\ AtHead(attempt[a].seq)
  BY DEF ReadTerminal, leaseVars, outboxVars, LaneOrderInv, Reports, LaneShape, Granted, Drivers
<1>1. CASE Finish(a, "fatal")
  BY <1>0, <1>1, FinishOrder
<1>2. CASE Become(a, "drive")
  <2>1. BindingOrder'
    BY <1>0 DEF LaneOrderInv, BindingOrder
  <2>2. PICK n \in AttemptStates :
              /\ attempt' = [attempt EXCEPT ![a] = n] /\ n.stage = "drive" /\ n.at = attempt[a].at
              /\ n.seq = attempt[a].seq /\ n.generation = attempt[a].generation
    BY <1>0, <1>2, BecomeIs
  <2> QED BY <1>0, <2>1, <2>2, AdvanceOrder
<1> QED BY <1>1, <1>2 DEF ReadTerminal

LEMMA SettleTerminalOrder ==
    ASSUME LaneOrderInv, NEW a \in Attempts, SettleTerminal(a)
    PROVE  BindingOrder' /\ Generations' /\ Drivers' /\ Reports'
<1>0. /\ UNCHANGED <<generation, workflow, log>>
      /\ attempt[a].stage = "settle" /\ Done(attempt[a].seq) /\ Latest.terminal
  BY DEF SettleTerminal, leaseVars, LaneOrderInv, Drivers
<1>1. CASE Finish(a, "retry") /\ UNCHANGED outboxVars
  BY <1>0, <1>1, FinishOrder DEF outboxVars
<1>2. CASE Finish(a, "terminal") /\ CloseRun
  BY <1>0, <1>2, FinishOrder DEF CloseRun
<1> QED BY <1>1, <1>2 DEF SettleTerminal

LEMMA AttemptErrsOrder ==
    ASSUME LaneOrderInv, NEW a \in Attempts, AttemptErrs(a)
    PROVE  BindingOrder' /\ Generations' /\ Drivers' /\ Reports'
<1>0. /\ UNCHANGED <<generation, workflow, log, bound, terminal>>
      /\ attempt[a].stage \notin {"off", "done"} /\ (terminal => Latest.terminal)
      /\ Finish(a, "retry")
  BY DEF AttemptErrs, leaseVars, outboxVars, LaneOrderInv, Reports
<1> QED BY <1>0, FinishOrder

LEMMA CommitCheckpointOrder ==
    ASSUME LaneOrderInv, NEW a \in Attempts, NEW phase \in {"running", "completed"},
           NEW ended \in BOOLEAN, CommitCheckpoint(a, phase, ended)
    PROVE  LogOrder' /\ BindingOrder' /\ Generations' /\ Drivers' /\ Reports'
<1> DEFINE q == attempt[a].seq
<1>0. /\ UNCHANGED <<generation, workflow, bound, terminal>>
      /\ attempt[a].stage = "drive" /\ (terminal => Latest.terminal) /\ bound[q] # 0
      /\ attempt \in [Attempts -> AttemptStates] /\ attempt[a] \in AttemptStates
      /\ phase = "running" => ~ended
  BY DEF CommitCheckpoint, leaseVars, outboxVars, LaneOrderInv, Reports, LaneShape, AttemptShape,
         Drivers
<1>1. CASE Finish(a, "retry") /\ UNCHANGED log
  BY <1>0, <1>1, FinishOrder, LogOrderStutters DEF LaneOrderInv
<1>2. CASE /\ Current(a) /\ Len(log) < MaxCheckpoints
           /\ log' = Append(log, [seq |-> q, phase |-> phase, terminal |-> ended])
           /\ IF phase = "completed" /\ ~ended
              THEN Finish(a, "parked")
              ELSE attempt' = [attempt EXCEPT ![a].at = @ + 1,
                                              ![a].stage = IF ended THEN "settle" ELSE "drive"]
  <2> DEFINE c == [seq |-> q, phase |-> phase, terminal |-> ended]
  <2>1. /\ LogOrder'
        /\ \A i \in 1 .. Len(log) : log'[i] = log[i]
        /\ Len(log') = Len(log) + 1 /\ Latest' = c
        /\ \A t : Done(t) => Done(t)'
        /\ phase = "completed" => \E i \in 1 .. Len(log') :
                log'[i].seq = q /\ log'[i].phase = "completed"
    BY <1>0, <1>2, CommitOrder
  <2>2. c.seq = q /\ c.phase = phase /\ c.terminal = ended
    OBVIOUS
  <2> HIDE DEF c
  <2>3. attempt[a].at = Len(log) /\ AtHead(q) /\ ~Latest.terminal /\ ~terminal
    BY <1>0, <1>2 DEF LaneOrderInv, Drivers, AtHead
  <2>4. PICK s \in AttemptStates :
            /\ attempt' = [attempt EXCEPT ![a] = s]
            /\ \/ s.stage = "done" /\ s.result = "parked" /\ phase = "completed"
               \/ /\ s.stage = IF ended THEN "settle" ELSE "drive"
                  /\ phase = "completed" => ended
                  /\ s.seq = q /\ s.generation = attempt[a].generation /\ s.at = attempt[a].at + 1
    <3>1. CASE phase = "completed" /\ ~ended
      <4> DEFINE s == [Off EXCEPT !.stage = "done", !.result = "parked"]
      <4>1. s \in AttemptStates /\ s.stage = "done" /\ s.result = "parked"
        BY OffIsState
      <4>2. attempt' = [attempt EXCEPT ![a] = s]
        BY <1>2, <3>1 DEF Finish
      <4> HIDE DEF s
      <4> QED BY <3>1, <4>1, <4>2
    <3>2. CASE ~(phase = "completed" /\ ~ended)
      <4> DEFINE stage == IF ended THEN "settle" ELSE "drive"
                 s == [attempt[a] EXCEPT !.at = @ + 1, !.stage = stage]
      <4>1. attempt' = [attempt EXCEPT ![a] = s]
        BY <1>0, <1>2, <3>2
      <4>2. attempt[a].at + 1 \in 0 .. MaxCheckpoints
        BY <1>2, <2>3, LogTypes, OutboxBoundsAssumption DEF LaneOrderInv, LaneShape
      <4>3. stage \in {"settle", "drive"}
        OBVIOUS
      <4> HIDE DEF stage
      <4>4. /\ s \in AttemptStates /\ s.stage = stage /\ s.seq = q
            /\ s.generation = attempt[a].generation /\ s.at = attempt[a].at + 1
        BY <1>0, <4>2, <4>3 DEF AttemptStates
      <4> HIDE DEF s
      <4> QED BY <3>2, <4>1, <4>4 DEF stage
    <3> QED BY <3>1, <3>2
  <2>5. attempt'[a] = s /\ \A b \in Attempts \ {a} : attempt'[b] = attempt[b]
    BY <1>0, <2>4
  <2>6. q \in Lane /\ Len(log) \in Nat \ {0} /\ \A i \in 1 .. Len(log) : log[i].seq \in {0} \union Lane
    BY <1>0, LogTypes DEF LaneOrderInv, LaneShape, AttemptShape
  <2>7. Latest' = log'[Len(log')]
    BY DEF Latest
  <2>8. BindingOrder'
    <3>1. ASSUME NEW i \in 1 .. Len(log'), log'[i].seq # 0 PROVE bound[log'[i].seq] # 0
      <4>1. CASE i \in 1 .. Len(log)
        BY <2>1, <3>1, <4>1 DEF LaneOrderInv, BindingOrder
      <4>2. CASE i = Len(log')
        BY <1>0, <2>1, <2>2, <2>7, <4>2
      <4> QED BY <2>1, <2>6, <4>1, <4>2
    <3>2. ASSUME NEW t \in Lane, bound[t] # 0
          PROVE  /\ bound[t] \in 1 .. Len(log')
                 /\ log'[bound[t]].seq + 1 = t /\ log'[bound[t]].phase = "completed"
      <4>1. /\ bound[t] \in 1 .. Len(log)
            /\ log[bound[t]].seq + 1 = t /\ log[bound[t]].phase = "completed"
        BY <3>2 DEF LaneOrderInv, BindingOrder
      <4> QED BY <2>1, <2>6, <4>1
    <3> QED BY <1>0, <3>1, <3>2 DEF BindingOrder
  <2>9. Generations'
    BY <1>0, <2>4, <2>5 DEF LaneOrderInv, Generations, Granted
  <2>10. Drivers'
    <3> SUFFICES ASSUME NEW b \in Attempts
                 PROVE  /\ attempt'[b].stage \in {"load", "check", "drive", "settle"}
                              => bound[attempt'[b].seq] # 0
                        /\ attempt'[b].stage \in {"check", "drive"}
                              /\ attempt'[b].generation = generation
                              => attempt'[b].at = Len(log') /\ AtHead(attempt[b].seq)'
                        /\ attempt'[b].stage = "settle" => Done(attempt[b].seq)' /\ Latest'.terminal
      BY <1>0 DEF Drivers, Current
    <3>1. CASE b = a
      <4>1. attempt'[b] = s
        BY <2>5, <3>1
      <4>2. CASE s.stage = "done"
        BY <4>1, <4>2
      <4>3. CASE s.stage = "drive"
        <5>1. phase = "running" /\ ~ended /\ s.seq = q /\ s.at = Len(log')
          BY <2>1, <2>3, <2>4, <4>3
        <5>2. AtHead(attempt[b].seq)'
          BY <2>1, <2>2, <4>1, <5>1 DEF AtHead
        <5> QED BY <1>0, <4>1, <4>3, <5>1, <5>2
      <4>4. CASE s.stage = "settle"
        <5>1. phase = "completed" /\ ended /\ s.seq = q
          BY <1>0, <2>4, <4>4
        <5>2. Done(attempt[b].seq)'
          BY <2>1, <4>1, <5>1 DEF Done
        <5> QED BY <1>0, <2>1, <2>2, <4>1, <4>4, <5>1, <5>2
      <4> QED BY <2>4, <4>2, <4>3, <4>4
    <3>2. CASE b # a
      <4>1. attempt'[b] = attempt[b]
        BY <2>5, <3>2
      <4>2. attempt[b].stage \in {"check", "drive"} => attempt[b].generation # generation
        BY <1>0, <1>2, <3>2 DEF LaneOrderInv, Generations, Granted, Current
      <4>3. attempt[b].stage # "settle"
        BY <2>3 DEF LaneOrderInv, Drivers
      <4> QED BY <4>1, <4>2, <4>3 DEF LaneOrderInv, Drivers
    <3> QED BY <3>1, <3>2
  <2>11. Reports'
    <3>1. workflow.attempt \in Attempts \union {NoAttempt}
      BY DEF LaneOrderInv, LaneShape, WorkflowShape, Workflows
    <3>2. \A t \in 1 .. workflow.next - 1 : Done(t)'
      BY <2>1 DEF LaneOrderInv, Reports
    <3>3. CASE workflow.attempt = a
      <4>1. q = workflow.inflight
        BY <1>0, <3>3, AttemptsAssumption DEF LaneOrderInv, Reports
      <4>2. s.stage = "done" => Done(workflow.inflight)'
        BY <1>0, <2>1, <2>4, <4>1 DEF Done
      <4> QED BY <1>0, <2>3, <2>4, <2>5, <3>2, <3>3, <4>1, <4>2 DEF LaneOrderInv, Reports
    <3>4. CASE workflow.attempt # a
      <4>1. Done(workflow.inflight) => Done(workflow.inflight)'
        BY <1>0, <2>1 DEF Done
      <4> QED BY <1>0, <2>3, <2>5, <3>1, <3>2, <3>4, <4>1 DEF LaneOrderInv, Reports
    <3> QED BY <3>3, <3>4
  <2> QED BY <2>1, <2>8, <2>9, <2>10, <2>11
<1> QED BY <1>1, <1>2 DEF CommitCheckpoint

LEMMA ReportOrder ==
    ASSUME LaneOrderInv, NEW a \in Attempts, Report(a)
    PROVE  BindingOrder' /\ Generations' /\ Drivers' /\ Reports'
<1>0. /\ UNCHANGED <<generation, log, bound, terminal>> /\ attempt[a].stage = "done"
      /\ attempt' = [attempt EXCEPT ![a] = Off]
      /\ attempt \in [Attempts -> AttemptStates]
  BY DEF Report, outboxVars, LaneOrderInv, LaneShape, AttemptShape
<1>1. /\ attempt'[a].stage = "off" /\ \A b \in Attempts \ {a} : attempt'[b] = attempt[b]
  BY <1>0, OffIsState
<1>2. BindingOrder'
  BY <1>0 DEF LaneOrderInv, BindingOrder
<1>3. Generations'
  BY <1>0, <1>1 DEF LaneOrderInv, Generations, Granted
<1>4. Drivers'
  BY <1>0, <1>1 DEF LaneOrderInv, Drivers, Done, AtHead, Latest, Current
<1>5. Reports'
  <2>1. /\ workflow \in Workflows /\ (workflow.inflight # 0 => workflow.inflight = workflow.next)
        /\ workflow.attempt # NoAttempt => workflow.inflight # 0
        /\ workflow.next \in Nat /\ workflow.attempt \in Attempts \union {NoAttempt}
    BY OutboxBoundsAssumption DEF LaneOrderInv, LaneShape, WorkflowShape, Workflows
  <2>2. CASE workflow.attempt # a
    BY <1>0, <1>1, <2>1, <2>2 DEF Report, LaneOrderInv, Reports, Done, Latest
  <2>3. CASE workflow.attempt = a
    <3>1. workflow' = AfterActivity(attempt[a].result) /\ workflow.inflight = workflow.next
      BY <2>1, <2>3, AttemptsAssumption DEF Report
    <3>2. attempt[a].result \in {"parked", "terminal", "retry", "fatal"}
      BY <1>0 DEF LaneOrderInv, LaneShape, AttemptShape, AttemptStates
    <3>3. /\ attempt[a].result \in {"parked", "terminal"} => Done(workflow.next)
          /\ attempt[a].result = "terminal" => terminal
      BY <1>0, <2>3, <3>1, AttemptsAssumption DEF LaneOrderInv, Reports
    <3>4. /\ \A t \in 1 .. workflow.next - 1 : Done(t)
          /\ workflow.status = "terminal" => terminal
          /\ terminal => Latest.terminal
      BY DEF LaneOrderInv, Reports
    <3>5. \A t : Done(t) => Done(t)'
      BY <1>0 DEF Done
    <3>6. /\ workflow'.attempt = NoAttempt
          /\ \A t \in 1 .. workflow'.next - 1 : Done(t)
          /\ workflow'.status = "terminal" => terminal
      <4>1. CASE attempt[a].result = "retry"
        <5>1. workflow' = [workflow EXCEPT !.attempt = NoAttempt]
          BY <3>1, <4>1 DEF AfterActivity
        <5> QED BY <2>1, <3>4, <5>1 DEF Workflows
      <4>2. CASE attempt[a].result = "fatal"
        <5>1. workflow' = [workflow EXCEPT !.attempt = NoAttempt, !.status = "failed"]
          BY <3>1, <4>2 DEF AfterActivity
        <5> QED BY <2>1, <3>4, <5>1 DEF Workflows
      <4>3. CASE attempt[a].result \in {"parked", "terminal"}
        <5> DEFINE status == IF attempt[a].result = "terminal" THEN "terminal" ELSE "running"
        <5>1. workflow' = [workflow EXCEPT !.attempt = NoAttempt, !.inflight = 0, !.next = @ + 1,
                                           !.status = status]
          BY <3>1, <4>3 DEF AfterActivity
        <5>2. status = "terminal" => terminal
          BY <3>3
        <5> HIDE DEF status
        <5>3. /\ workflow'.attempt = NoAttempt /\ workflow'.next = workflow.next + 1
              /\ workflow'.status = status
          BY <2>1, <5>1 DEF Workflows
        <5>4. \A t \in 1 .. workflow.next : Done(t)
          BY <2>1, <3>3, <3>4, <4>3
        <5> QED BY <2>1, <5>2, <5>3, <5>4
      <4> QED BY <3>2, <4>1, <4>2, <4>3
    <3> QED BY <1>0, <3>4, <3>5, <3>6 DEF Reports, Latest
  <2> QED BY <2>2, <2>3
<1> QED BY <1>2, <1>3, <1>4, <1>5

\* The other steps leave the log, the bindings, the leases of the attempts and
\* the terminal record alone.
LEMMA OrderStutters ==
    ASSUME LaneOrderInv, UNCHANGED <<generation, log, bound, attempt>>
    PROVE  LogOrder' /\ BindingOrder' /\ Generations' /\ Drivers'
<1>1. LogOrder'
  BY LogOrderStutters DEF LaneOrderInv
<1>2. BindingOrder'
  BY DEF LaneOrderInv, BindingOrder
<1>3. Generations'
  BY DEF LaneOrderInv, Generations, Granted
<1>4. Drivers'
  BY DEF LaneOrderInv, Drivers, Done, AtHead, Latest, Current
<1> QED BY <1>1, <1>2, <1>3, <1>4

LEMMA ReportsStutter ==
    ASSUME Reports, UNCHANGED <<log, attempt, terminal, workflow>>
    PROVE  Reports'
BY DEF Reports, Done, Latest

LEMMA TemporalOrder ==
    ASSUME LaneOrderInv, Temporal
    PROVE  LogOrder' /\ BindingOrder' /\ Generations' /\ Drivers' /\ Reports'
<1> DEFINE Goal == LogOrder' /\ BindingOrder' /\ Generations' /\ Drivers' /\ Reports'
<1>0. /\ Reports /\ workflow \in Workflows /\ workflow.next \in Nat
      /\ workflow.attempt # NoAttempt => workflow.inflight # 0
  BY OutboxBoundsAssumption DEF LaneOrderInv, LaneShape, WorkflowShape, Workflows
<1>a. ASSUME UNCHANGED <<generation, log, bound, attempt, terminal>>,
             workflow'.attempt = NoAttempt \/ UNCHANGED workflow,
             workflow'.next = workflow.next,
             workflow'.status \in {workflow.status, "running"}
      PROVE  Goal
  <2>1. Reports'
    <3>1. CASE UNCHANGED workflow
      BY <1>0, <1>a, <3>1, ReportsStutter
    <3>2. CASE workflow'.attempt = NoAttempt
      BY <1>0, <1>a, <3>2 DEF Reports, Done, Latest
    <3> QED BY <1>a, <3>1, <3>2
  <2> QED BY <1>a, <2>1, OrderStutters
<1>1. CASE TakeCommand
  <2>1. workflow' = [workflow EXCEPT !.inflight = workflow.next, !.pending = @ \ {workflow.next}]
    BY <1>1 DEF TakeCommand
  <2>2. workflow.attempt = NoAttempt
    BY <1>0, <1>1 DEF TakeCommand
  <2> QED BY <1>0, <1>1, <1>a, <2>1, <2>2 DEF TakeCommand, outboxVars, leaseVars, Workflows
<1>2. CASE AttemptTimesOut
  BY <1>0, <1>2, <1>a DEF AttemptTimesOut, outboxVars, leaseVars, Workflows
<1>3. CASE ContinueAsNew
  BY <1>0, <1>3, <1>a DEF ContinueAsNew, outboxVars, leaseVars, Workflows
<1>4. ASSUME NEW a \in Attempts, ScheduleAttempt(a) PROVE Goal
  <2> DEFINE s == [Off EXCEPT !.stage = "claim", !.seq = workflow.inflight]
  <2>1. workflow.inflight \in Lane /\ UNCHANGED <<generation, log, bound, terminal>>
    BY <1>0, <1>4 DEF ScheduleAttempt, Workflows, outboxVars, leaseVars
  <2>2. s \in AttemptStates /\ s.stage = "claim" /\ s.seq = workflow.inflight
    BY <2>1, OffIsState
  <2>3. attempt' = [attempt EXCEPT ![a] = s] /\ attempt[a].stage = "off"
    BY <1>4 DEF ScheduleAttempt
  <2> HIDE DEF s
  <2>4. attempt'[a] = s /\ \A b \in Attempts \ {a} : attempt'[b] = attempt[b]
    BY <2>3 DEF LaneOrderInv, LaneShape, AttemptShape
  <2>5. workflow' = [workflow EXCEPT !.attempt = a]
    BY <1>4 DEF ScheduleAttempt
  <2>6. /\ workflow'.attempt = a /\ workflow'.inflight = workflow.inflight
        /\ workflow'.next = workflow.next /\ workflow'.status = workflow.status
    BY <1>0, <2>5 DEF Workflows
  <2>7. LogOrder'
    BY <2>1, LogOrderStutters DEF LaneOrderInv
  <2>8. BindingOrder'
    BY <2>1 DEF LaneOrderInv, BindingOrder
  <2>9. Generations'
    BY <2>1, <2>2, <2>4 DEF LaneOrderInv, Generations, Granted
  <2>10. Drivers'
    BY <2>1, <2>2, <2>4 DEF LaneOrderInv, Drivers, Done, AtHead, Latest, Current
  <2>11. Reports'
    BY <1>0, <2>1, <2>2, <2>4, <2>6 DEF Reports, Done, Latest
  <2> QED BY <2>7, <2>8, <2>9, <2>10, <2>11
<1>5. ASSUME NEW m \in signals, ServeSignal(m) PROVE Goal
  <2>1. UNCHANGED <<generation, log, attempt, bound, terminal>>
    BY <1>5 DEF ServeSignal, Reply, outboxVars, leaseVars
  <2>2. workflow' = workflow
        \/ /\ workflow' = [workflow EXCEPT !.status = "running", !.pending = @ \union {m.seq}]
           /\ workflow.status \notin {"terminal", "failed"}
    BY <1>5 DEF ServeSignal, Submitted
  <2>3. CASE workflow' = workflow
    BY <1>a, <2>1, <2>3
  <2>4. CASE workflow' = [workflow EXCEPT !.status = "running", !.pending = @ \union {m.seq}]
    <3>1. /\ workflow'.attempt = workflow.attempt /\ workflow'.inflight = workflow.inflight
          /\ workflow'.next = workflow.next /\ workflow'.status = "running"
      BY <1>0, <2>4 DEF Workflows
    <3>2. Reports'
      BY <1>0, <2>1, <3>1 DEF Reports, Done, Latest
    <3> QED BY <2>1, <3>2, OrderStutters
  <2> QED BY <2>2, <2>3, <2>4
<1>6. ASSUME NEW m \in signals, LoseSignal(m) PROVE Goal
  BY <1>6, <1>a DEF LoseSignal, outboxVars, leaseVars
<1>7. ASSUME NEW d \in Dispatchers, SendSignal(d) PROVE Goal
  BY <1>7, <1>a DEF SendSignal, Send, leaseVars
<1>8. ASSUME NEW d \in Dispatchers, NEW r \in {"retry", "rejected"}, TransportFails(d, r) PROVE Goal
  BY <1>8, <1>a DEF TransportFails, Reply, leaseVars
<1> QED BY <1>1, <1>2, <1>3, <1>4, <1>5, <1>6, <1>7, <1>8 DEF Temporal

LEMMA LaneStepOrder == LaneOrderInv /\ [LaneNext]_laneVars => LaneOrderInv'
<1> SUFFICES ASSUME LaneOrderInv, [LaneNext]_laneVars PROVE LaneOrderInv'
  OBVIOUS
<1> DEFINE Goal == LogOrder' /\ BindingOrder' /\ Generations' /\ Drivers' /\ Reports'
<1>0. LaneShape'
  BY LaneStepShape DEF LaneOrderInv
<1>1. CASE UNCHANGED <<generation, log, bound, attempt, terminal, workflow>>
  BY <1>0, <1>1, OrderStutters, ReportsStutter DEF LaneOrderInv
<1>2. CASE UNCHANGED laneVars
  BY <1>1, <1>2 DEF laneVars, leaseVars, outboxVars
<1>3. CASE StoreNext /\ UNCHANGED <<leaseVars, log, signals, workflow, attempt>>
  <2>1. UNCHANGED <<bound, terminal>>
    BY <1>3 DEF StoreNext, Admit, ClaimExpires, ReconcileTerminal, ClaimDispatch, Settle, ClaimLost,
               DispatcherDies
  <2> QED BY <1>1, <1>3, <2>1 DEF leaseVars
<1>4. CASE LeaseExpires
  BY <1>1, <1>4 DEF LeaseExpires, Lease!Lapse, outboxVars
<1>5. CASE Temporal
  BY <1>0, <1>5, TemporalOrder DEF LaneOrderInv
<1>6. ASSUME NEW a \in Attempts, Activity(a) PROVE Goal
  <2>1. CASE \E phase \in {"running", "completed"}, ended \in BOOLEAN :
                CommitCheckpoint(a, phase, ended)
    BY <2>1, CommitCheckpointOrder
  <2>2. CASE ClaimLease(a) \/ BindActivation(a) \/ LoadCheckpoint(a) \/ ReadTerminal(a)
               \/ SettleTerminal(a) \/ AttemptErrs(a) \/ Report(a)
    <3>1. LogOrder'
      BY <2>2, LogOrderStutters DEF LaneOrderInv, ClaimLease, BindActivation, LoadCheckpoint,
         ReadTerminal, SettleTerminal, AttemptErrs, Report
    <3> QED BY <2>2, <3>1, ClaimLeaseOrder, BindActivationOrder, LoadCheckpointOrder,
               ReadTerminalOrder, SettleTerminalOrder, AttemptErrsOrder, ReportOrder
  <2> QED BY <1>6, <2>1, <2>2 DEF Activity
<1>7. CASE \E a \in Attempts : Activity(a)
  BY <1>0, <1>6, <1>7 DEF LaneOrderInv
<1> QED BY <1>2, <1>3, <1>4, <1>5, <1>7 DEF LaneNext

LEMMA LaneOrdered == LaneSpec => []LaneOrderInv
<1>1. LaneInit => LaneOrderInv
  BY LaneInitShape, LogOrderInit DEF LaneOrderInv
<1> QED BY <1>1, LaneStepOrder, PTL DEF LaneSpec

(* Exactly once, in order, for any number of commands, attempts, generations and
   checkpoints: what CommitCheckpoint appends continues the command of the last
   checkpoint or starts its successor, because bind_activation tied it to its
   predecessor's boundary and the fence lets only the newest generation write. *)
THEOREM LaneAppliesOnceInOrder == LaneSpec => []AppliedOnceInOrder
<1>1. LaneOrderInv => AppliedOnceInOrder
  BY DEF LaneOrderInv, LogOrder
<1> QED BY <1>1, LaneOrdered, PTL

(* The checkpoint that an attempt loaded without the lease being checked is the
   head whenever its guarded commit can succeed, and commands are bound to
   source checkpoints in their order. *)
THEOREM LaneDriverIsAtHead == LaneSpec => []DriverIsAtHead
<1>1. ASSUME LaneOrderInv PROVE DriverIsAtHead
  <2> DEFINE n == Len(log)
  <2>1. /\ n \in Nat \ {0}
        /\ \A i \in 1 .. n : /\ log[i].seq \in Nat /\ log[i].phase \in {"running", "completed"}
                             /\ log[i].seq \in {0} \union Lane
    BY <1>1, LogTypes DEF LaneOrderInv, LaneShape
  <2>2. \A a \in Attempts : attempt[a].stage = "drive" /\ Current(a) => attempt[a].at = n
    BY <1>1 DEF LaneOrderInv, Drivers
  <2>3. ASSUME NEW s \in Lane, bound[s] # 0
        PROVE  /\ bound[s] <= n
               /\ \A t \in Lane : t < s => bound[t] # 0 /\ bound[t] < bound[s]
               /\ (\A i \in 1 .. n : log[i].seq # s) => bound[s] = n
    <3> DEFINE k == bound[s]
    <3>1. k \in 1 .. n /\ log[k].seq + 1 = s /\ log[k].phase = "completed" /\ s \in Nat \ {0}
      BY <1>1, <2>3 DEF LaneOrderInv, BindingOrder, Lane
    <3>2. ASSUME NEW t \in Lane, t < s PROVE bound[t] # 0 /\ bound[t] < k
      <4>1. t \in Nat \ {0} /\ t <= log[k].seq
        BY <2>1, <3>1, <3>2 DEF Lane
      <4>2. PICK i \in 1 .. n : log[i].seq = t
        <5>1. CASE t = log[k].seq
          BY <3>1, <5>1
        <5>2. CASE t < log[k].seq
          <6>1. log[k].seq <= Latest.seq /\ Latest.seq \in Nat
            BY <1>1, <2>1, <3>1 DEF LaneOrderInv, LogOrder, Latest
          <6>2. Done(t)
            BY <1>1, <2>1, <3>1, <4>1, <5>2, <6>1 DEF LaneOrderInv, LogOrder
          <6> QED BY <6>2 DEF Done
        <5> QED BY <2>1, <3>1, <4>1, <5>1, <5>2
      <4>3. bound[t] # 0
        BY <1>1, <4>1, <4>2 DEF LaneOrderInv, BindingOrder
      <4> DEFINE j == bound[t]
      <4>4. j \in 1 .. n /\ log[j].seq + 1 = t
        BY <1>1, <4>3 DEF LaneOrderInv, BindingOrder
      <4>5. log[j].seq < log[k].seq
        BY <2>1, <3>1, <3>2, <4>1, <4>4
      <4>6. ASSUME k <= j PROVE FALSE
        <5>1. log[k].seq <= log[j].seq
          <6>1. CASE k < j
            BY <1>1, <3>1, <4>4, <6>1 DEF LaneOrderInv, LogOrder
          <6>2. CASE k = j
            BY <2>1, <3>1, <6>2
          <6> QED BY <3>1, <4>4, <4>6, <6>1, <6>2
        <5> QED BY <2>1, <3>1, <4>4, <4>5, <5>1
      <4> QED BY <3>1, <4>3, <4>4, <4>6
    <3>3. ASSUME \A i \in 1 .. n : log[i].seq # s PROVE k = n
      <4>1. ASSUME k < n PROVE FALSE
        <5>1. k \in 1 .. n - 1 /\ k + 1 \in 1 .. n
          BY <2>1, <3>1, <4>1
        <5>2. log[k + 1].seq = s
          BY <1>1, <3>1, <5>1 DEF LaneOrderInv, LogOrder, AppliedOnceInOrder
        <5> QED BY <3>3, <5>1, <5>2
      <4> QED BY <2>1, <3>1, <4>1
    <3> QED BY <2>1, <3>1, <3>2, <3>3
  <2> QED BY <2>2, <2>3 DEF DriverIsAtHead
<1> QED BY <1>1, LaneOrdered, PTL

(* The Workflow moves past a command, or ends as terminal, only on what the
   database holds, whichever attempts it gave up waiting for. *)
THEOREM LaneWorkflowFollows == LaneSpec => []WorkflowFollowsDatabase
<1>1. LaneOrderInv => WorkflowFollowsDatabase
  BY AppliedIsDone DEF LaneOrderInv, Reports, WorkflowFollowsDatabase
<1> QED BY <1>1, LaneOrdered, PTL
=============================================================================
