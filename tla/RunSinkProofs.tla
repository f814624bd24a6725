---------------------------- MODULE RunSinkProofs ----------------------------
(***************************************************************************)
(* Proofs about RunSink.  Every step of the sink is a step of the          *)
(* authority store, so the store's inductive invariant holds in the        *)
(* composition, and the sink's fencing follows from it.                    *)
(***************************************************************************)
EXTENDS RunSink, AuthorityStoreProofs

\* A sink call in progress works on one of the mutations, under a token.
WorkShape ==
    /\ work \in [Callers -> [mutation : Mutations \union {None},
                             token : Tokens \union {<<NoOwner, 0>>}, phase : Phases]]
    /\ \A c \in Callers :
          work[c].phase # "none" => work[c].mutation \in Mutations /\ work[c].token \in Tokens

\* No mutation was committed by a generation that is still to come.
CommittedByPast == committedBy \in Nat /\ committedBy <= row.generation

TablesShape ==
    /\ DOMAIN events = 1 .. MaxSeq
    /\ DOMAIN checkpoints = 0 .. MaxSeq
    /\ events = [s \in 1 .. MaxSeq |-> events[s]]
    /\ checkpoints = [s \in 0 .. MaxSeq |-> checkpoints[s]]

\* Why a mutation can never be the record of its coordinate.
Refuted(m) ==
    \/ Stored(m) # None /\ Stored(m) # m.content
    \/ m.kind = "event" /\ \E s \in 1 .. MaxSeq : s # m.seq /\ events[s] = m.content
    \/ m.kind = "event" /\ terminal # None /\ Stored(m) # m.content

\* AnswersAreTrue, with the reason that makes a conflict permanent.
Justified(m, status) ==
    /\ status \in {"committed", "already_committed"} => Stored(m) = m.content
    /\ status = "conflict" /\ m.kind \in {"event", "terminal"} => Refuted(m)

AnswersJustified ==
    \A c \in Callers, status \in CommitStatuses :
        Answered(c, {status}) => Justified(work[c].mutation, status)

HeadsShape == eventHead \in 0 .. MaxSeq /\ checkpointHead \in -1 .. MaxSeq

SinkInv ==
    IInv /\ WorkShape /\ TablesShape /\ CommittedByPast /\ EventIdsAreUnique
        /\ AnswersJustified /\ HeadsShape /\ HeadsResolve

USE MaxSeqAssumption, MutationsAssumption

\* What a step does to the tables: nothing, or one insert that was judged
\* "committed" under the row lock.
Commits(c) ==
    /\ work[c].phase = "computed"
    /\ GuardCommits(c, "committed")
    /\ Verdict(work[c].mutation) = "committed"
    /\ Insert(work[c].mutation)
    /\ committedBy' = call[c].generation
    /\ work' = work

-----------------------------------------------------------------------------
(* A verdict on a well-formed mutation is a commit status. *)
LEMMA VerdictStatus ==
  ASSUME NEW m \in Mutations PROVE Verdict(m) \in CommitStatuses
  BY DEF Verdict, EventVerdict, CheckpointVerdict, TerminalVerdict, StoredVerdict,
         CommitStatuses

(* The sink touches the authority row only through the store's transactions. *)
LEMMA SinkStepIsStoreStep ==
  ASSUME WorkShape, [SinkNext]_vars PROVE [Next]_storeVars
<1>1. ASSUME NEW c \in Callers, NEW s, GuardCommits(c, s),
             s \in CommitStatuses \union {"error"}
      PROVE  Next
  <2>1. \E t \in CommitStatuses : GuardCommits(c, t)
    BY <1>1 DEF GuardCommits, CommitStatuses
  <2> QED  BY <2>1 DEF Next, Serve
<1>2. ASSUME NEW c \in Callers, NEW op \in Ops \ {"none"},
             NEW token \in Owners \X (0 .. MaxGeneration), Invoke(c, op, token)
      PROVE  Next
  BY <1>2 DEF Next
<1>3. ASSUME NEW c \in Callers, SinkCall(c) PROVE Next
  <2>1. CASE CheckWriter(c)
    BY <2>1 DEF CheckWriter, Next, Serve
  <2>2. CASE CommitMutation(c)
    <3>1. work[c].mutation \in Mutations
      BY <2>2 DEF CommitMutation, WorkShape
    <3> QED  BY <3>1, <2>2, <1>1, VerdictStatus DEF CommitMutation
  <2>3. CASE Deliver(c)
    BY <2>3 DEF Deliver, Next
  <2>4. CASE BeginReconcile(c)
    <3>1. work[c].token \in Owners \X (0 .. MaxGeneration)
      BY <2>4 DEF BeginReconcile, WorkShape, Tokens
    <3> QED  BY <3>1, <2>4, <1>2 DEF BeginReconcile, Ops
  <2>5. CASE Reconcile(c)
    <3>1. ReconcileVerdict(work[c].mutation) \in CommitStatuses \union {"error"}
      BY DEF ReconcileVerdict, StoredVerdict, CommitStatuses
    <3> QED  BY <3>1, <2>5, <1>1 DEF Reconcile
  <2> QED  BY <1>3, <2>1, <2>2, <2>3, <2>4, <2>5 DEF SinkCall
<1>4. ASSUME NEW c \in Callers, NEW m \in Mutations, NEW token \in Tokens,
             Submit(c, m, token)
      PROVE  Next
  <2>1. token \in Owners \X (0 .. MaxGeneration)
    BY DEF Tokens
  <2> QED  BY <1>4, <2>1, <1>2 DEF Submit, Ops
<1>5. CASE Environment
  <2>1. ASSUME NEW c \in Callers, LeaseTraffic(c) PROVE Next
    <3>1. CASE \E op \in {"claim", "renew", "release"},
                  token \in Owners \X (0 .. MaxGeneration) : Invoke(c, op, token)
      BY <3>1, <1>2 DEF Ops
    <3> QED  BY <2>1, <3>1 DEF LeaseTraffic, Next, Serve
  <2> QED  BY <1>5, <2>1 DEF Environment, Next
<1> QED  BY <1>3, <1>4, <1>5 DEF SinkNext, vars, storeVars

(* Only a commit changes the tables. *)
LEMMA TableSteps ==
  ASSUME WorkShape, [SinkNext]_vars
  PROVE  UNCHANGED <<tables, committedBy>> \/ \E c \in Callers : Commits(c)
<1>1. ASSUME NEW c \in Callers, CommitMutation(c)
      PROVE  UNCHANGED <<tables, committedBy>> \/ Commits(c)
  BY <1>1 DEF CommitMutation, Commits
<1> QED  BY <1>1 DEF SinkNext, SinkCall, CheckWriter, BeginReconcile, Reconcile,
                     Deliver, Submit, vars, tables

\* The body of RecordsAreWriteOnce.
WriteOnceStep ==
    /\ \A s \in 1 .. MaxSeq : events[s] # None => events'[s] = events[s]
    /\ \A s \in 0 .. MaxSeq : checkpoints[s] # None => checkpoints'[s] = checkpoints[s]
    /\ terminal # None => terminal' = terminal /\ events' = events

(* A committed mutation found its coordinate free, and an event found its id
   unused and the journal open. *)
LEMMA CommittedFindsFree ==
  ASSUME NEW m \in Mutations, Verdict(m) = "committed"
  PROVE  /\ Stored(m) = None
         /\ m.kind = "event" => terminal = None
                                /\ \A s \in 1 .. MaxSeq : events[s] # m.content
<1>1. CASE m.kind = "event"
  BY <1>1 DEF Verdict, EventVerdict, StoredVerdict
<1>2. CASE m.kind = "checkpoint"
  BY <1>2 DEF Verdict, CheckpointVerdict, StoredVerdict
<1>3. CASE m.kind = "terminal"
  BY <1>3 DEF Verdict, TerminalVerdict, StoredVerdict
<1> QED  BY <1>1, <1>2, <1>3

(* Inserting where the coordinate is free overwrites nothing. *)
LEMMA WriteOnce ==
  ASSUME WorkShape, TablesShape, [SinkNext]_vars PROVE WriteOnceStep
<1>1. CASE UNCHANGED <<tables, committedBy>>
  BY <1>1 DEF WriteOnceStep, tables
<1>2. ASSUME NEW c \in Callers, Commits(c) PROVE WriteOnceStep
  <2> DEFINE m == work[c].mutation
  <2>1. m \in Mutations /\ Verdict(m) = "committed" /\ Insert(m)
    BY <1>2 DEF Commits, WorkShape
  <2> HIDE DEF m
  <2>2. Stored(m) = None /\ (m.kind = "event" => terminal = None)
    BY <2>1, CommittedFindsFree
  <2>3. CASE m.kind = "event"
    BY <2>1, <2>2, <2>3 DEF Insert, InsertEvent, Stored, TablesShape, WriteOnceStep
  <2>4. CASE m.kind = "checkpoint"
    BY <2>1, <2>2, <2>4 DEF Insert, InsertCheckpoint, Stored, TablesShape, WriteOnceStep
  <2>5. CASE m.kind = "terminal"
    BY <2>1, <2>2, <2>5 DEF Insert, InsertTerminal, Stored, WriteOnceStep
  <2> QED  BY <2>1, <2>3, <2>4, <2>5
<1> QED  BY <1>1, <1>2, TableSteps

-----------------------------------------------------------------------------
(* The parts of the sink's inductive invariant *)

LEMMA SinkInitInv == SinkInit => SinkInv
  BY InitIInv DEF SinkInit, TablesInit, Init, NoRow, SinkInv, WorkShape, TablesShape,
     CommittedByPast, EventIdsAreUnique, AnswersJustified, Answered, NoWork, Phases, Idle,
     HeadsShape, HeadsResolve

LEMMA WorkShapeStep ==
  ASSUME WorkShape, [SinkNext]_vars PROVE WorkShape'
<1>1. ASSUME NEW c \in Callers, SinkCall(c) PROVE WorkShape'
  BY <1>1 DEF SinkCall, CheckWriter, CommitMutation, BeginReconcile, Reconcile,
              Deliver, WorkShape, Phases, NoWork
<1>2. ASSUME NEW c \in Callers, NEW m \in Mutations, NEW token \in Tokens,
             Submit(c, m, token)
      PROVE  WorkShape'
  BY <1>2 DEF Submit, WorkShape, Phases
<1> QED  BY <1>1, <1>2 DEF SinkNext, vars, WorkShape

LEMMA TablesShapeStep ==
  ASSUME WorkShape, TablesShape, [SinkNext]_vars PROVE TablesShape'
<1>1. CASE UNCHANGED <<tables, committedBy>>
  BY <1>1 DEF tables, TablesShape
<1>2. ASSUME NEW c \in Callers, Commits(c) PROVE TablesShape'
  BY <1>2 DEF Commits, Insert, InsertEvent, InsertCheckpoint, InsertTerminal, TablesShape
<1> QED  BY <1>1, <1>2, TableSteps

(* The generation never goes back, and a commit is made by the current one. *)
LEMMA CommittedByStep ==
  ASSUME SinkInv, [SinkNext]_vars
  PROVE  /\ CommittedByPast'
         /\ tables' # tables => committedBy' = row.generation /\ committedBy' >= committedBy
<1>1. [Next]_storeVars /\ IInv'
  BY SinkStepIsStoreStep, NextIInv DEF SinkInv
<1>2. row.generation \in Nat /\ row'.generation \in Nat /\ row'.generation >= row.generation
  <2>1. row.generation \in Nat /\ row'.generation \in Nat
    BY <1>1 DEF SinkInv, IInv, TypeOK, Rows
  <2>2. [Lease!Next]_(Lease!vars)
    BY <1>1, StepRefines DEF SinkInv
  <2> QED  BY <2>1, <2>2 DEF Lease!Next, Lease!vars, Lease!Grant, Lease!Lapse
<1>3. CASE UNCHANGED <<tables, committedBy>>
  BY <1>2, <1>3 DEF SinkInv, CommittedByPast
<1>4. ASSUME NEW c \in Callers, Commits(c)
      PROVE  committedBy' = row.generation
  BY <1>4 DEF Commits, GuardCommits, SinkInv, IInv, LockedFacts, Presents
<1> QED  BY <1>2, <1>3, <1>4, TableSteps DEF SinkInv, CommittedByPast

LEMMA EventIdsStep ==
  ASSUME SinkInv, [SinkNext]_vars PROVE EventIdsAreUnique'
<1>1. CASE UNCHANGED <<tables, committedBy>>
  BY <1>1 DEF tables, SinkInv, EventIdsAreUnique
<1>2. ASSUME NEW c \in Callers, Commits(c) PROVE EventIdsAreUnique'
  <2> DEFINE m == work[c].mutation
  <2>1. m \in Mutations /\ Verdict(m) = "committed" /\ Insert(m)
    BY <1>2 DEF Commits, SinkInv, WorkShape
  <2> HIDE DEF m
  <2>2. CASE m.kind = "event"
    <3>1. \A s \in 1 .. MaxSeq : events[s] # m.content
      BY <2>1, <2>2, CommittedFindsFree
    <3> QED  BY <2>1, <2>2, <3>1 DEF Insert, InsertEvent, SinkInv, TablesShape,
                                     EventIdsAreUnique
  <2>3. CASE m.kind # "event"
    BY <2>1, <2>3 DEF Insert, InsertCheckpoint, InsertTerminal, SinkInv, EventIdsAreUnique
  <2> QED  BY <2>2, <2>3
<1> QED  BY <1>1, <1>2, TableSteps DEF SinkInv

\* What is stored stays stored, and what is refuted stays refuted.
LEMMA VerdictsLast ==
  ASSUME NEW m \in Mutations, TablesShape, WriteOnceStep
  PROVE  /\ Stored(m) = m.content => Stored(m)' = m.content
         /\ m.kind \in {"event", "terminal"} /\ Refuted(m) => Refuted(m)'
<1>1. Stored(m) # None => Stored(m)' = Stored(m)
  BY DEF WriteOnceStep, Stored
<1>2. m.kind = "event" /\ terminal # None => Stored(m)' = Stored(m) /\ terminal' # None
  BY DEF WriteOnceStep, Stored
<1>3. \A s \in 1 .. MaxSeq : events[s] = m.content => events'[s] = m.content
  BY DEF WriteOnceStep
<1> QED  BY <1>1, <1>2, <1>3 DEF Refuted

\* Where a sink answer comes from: it was there before, or the guarded
\* transaction of its own call just produced it.
Produced(d, status) ==
    \/ /\ work[d].phase = "computed" /\ status = Verdict(work[d].mutation)
       /\ CommitMutation(d)
    \/ /\ work[d].phase = "reconcile" /\ status = ReconcileVerdict(work[d].mutation)
       /\ UNCHANGED tables

LEMMA AnswerSources ==
  ASSUME SinkInv, [SinkNext]_vars, NEW d \in Callers, NEW status \in CommitStatuses,
         Answered(d, {status})'
  PROVE  /\ work'[d] = work[d]
         /\ Answered(d, {status}) \/ Produced(d, status)
<1> USE DEF Answered
<1>0. /\ call \in [Callers -> Calls] /\ WorkShape
      /\ call'[d].stage = "done" /\ call'[d].status = status /\ call'[d].op = "guard"
      /\ work'[d].phase # "none"
  BY DEF SinkInv, IInv, TypeOK
<1>1. ASSUME NEW c \in Callers, NEW s, Answer(c, s)
      PROVE  \/ call'[d] = call[d]
             \/ c = d /\ status = s /\ call[d].op = "guard"
  BY <1>0, <1>1 DEF Answer, Calls
<1>2. ASSUME NEW c \in Callers, GuardReads(c) \/ TokenFindsNoRow(c) PROVE call'[d] = call[d]
  BY <1>0, <1>1, <1>2 DEF GuardReads, TokenFindsNoRow, Enter, Calls, CommitStatuses
<1>3. ASSUME NEW c \in Callers, \/ Return(c)
                                \/ \E op \in Ops, token \in Owners \X (0 .. MaxGeneration) :
                                      Invoke(c, op, token)
      PROVE  c # d /\ call'[d] = call[d]
  <2>1. \A op, token : Request(op, token).stage = "sent"
    BY DEF Request, Idle
  <2>2. PICK new : call' = [call EXCEPT ![c] = new] /\ new.stage # "done"
    BY <1>3, <2>1 DEF Return, Invoke, Idle
  <2> QED  BY <1>0, <2>2
<1>4. ASSUME NEW c \in Callers, NEW s, GuardCommits(c, s)
      PROVE  call'[d] = call[d] \/ (c = d /\ status = s)
  BY <1>0, <1>1, <1>4 DEF GuardCommits, CommitStatuses
<1>5. ASSUME NEW c \in Callers, LeaseTraffic(c), work' = work PROVE call'[d] = call[d]
  <2>1. c # d
    BY <1>0, <1>5 DEF LeaseTraffic
  <2>2. \A e \in Callers : e # c => call'[e] = call[e]
    BY <1>0, <1>5 DEF LeaseTraffic, Claim, ClaimFindsNoRow, InsertFirst, ActivateFirst,
         ClaimAgain, ClaimUnavailable, ClaimInactive, TakeOver, TakeOverOverflows,
         RenewReads, RenewUpdates, ReleaseReads, ReleaseUpdates, TokenFindsNoRow, Invoke,
         Enter, Answer, AnswerWith, CommitAnswer
  <2> QED  BY <2>1, <2>2
<1>6. ASSUME NEW c \in Callers, Abort(c) PROVE call'[d] = call[d]
  BY <1>0, <1>1, <1>6 DEF Abort, CommitStatuses
<1>7. ASSUME NEW c \in Callers, SinkCall(c)
      PROVE  work'[d] = work[d] /\ (call'[d] = call[d] \/ Produced(d, status))
  <2>1. CASE CheckWriter(c)
    BY <2>1, <1>0, <1>2 DEF CheckWriter, GuardReads, Enter, TokenFindsNoRow, Answer, Calls, WorkShape
  <2>2. CASE CommitMutation(c)
    BY <2>2, <1>4 DEF CommitMutation, Produced
  <2>3. CASE Deliver(c)
    BY <2>3, <1>0, <1>3 DEF Deliver, WorkShape
  <2>4. CASE BeginReconcile(c)
    <3>1. work[c].token \in Owners \X (0 .. MaxGeneration)
      BY <2>4, <1>0 DEF BeginReconcile, WorkShape, Tokens
    <3> QED  BY <3>1, <2>4, <1>0, <1>3 DEF BeginReconcile, WorkShape, Ops
  <2>5. CASE Reconcile(c)
    BY <2>5, <1>4 DEF Reconcile, Produced
  <2> QED  BY <1>7, <2>1, <2>2, <2>3, <2>4, <2>5 DEF SinkCall
<1>8. ASSUME NEW c \in Callers, NEW m \in Mutations, NEW token \in Tokens,
             Submit(c, m, token)
      PROVE  work'[d] = work[d] /\ call'[d] = call[d]
  <2>1. token \in Owners \X (0 .. MaxGeneration)
    BY DEF Tokens
  <2> QED  BY <2>1, <1>8, <1>0, <1>3 DEF Submit, WorkShape, Ops
<1>9. work'[d] = work[d] /\ (call'[d] = call[d] \/ Produced(d, status))
  BY <1>5, <1>6, <1>7, <1>8 DEF SinkNext, Environment, Tick, vars, storeVars
<1> QED  BY <1>0, <1>9

LEMMA AnswersJustifiedStep ==
  ASSUME SinkInv, [SinkNext]_vars PROVE AnswersJustified'
<1>0. WriteOnceStep /\ TablesShape /\ WorkShape
  BY WriteOnce DEF SinkInv
<1>1. ASSUME NEW d \in Callers, NEW status \in CommitStatuses, Answered(d, {status})'
      PROVE  Justified(work[d].mutation, status)'
  <2>1. work'[d] = work[d] /\ work[d].mutation \in Mutations
    BY <1>1, AnswerSources, <1>0 DEF WorkShape, Answered
  <2>2. PICK m \in Mutations : m = work[d].mutation
    BY <2>1
  <2>3. CASE Answered(d, {status})
    <3>1. Justified(m, status)
      BY <2>2, <2>3 DEF SinkInv, AnswersJustified
    <3>2. Justified(m, status)'
      BY <3>1, <1>0, VerdictsLast DEF Justified
    <3> QED  BY <2>1, <2>2, <3>2 DEF Justified, Refuted, Stored
  <2>4. CASE /\ work[d].phase = "computed" /\ status = Verdict(work[d].mutation)
             /\ CommitMutation(d)
    <3>1. CASE status = "committed"
      <4>1. Insert(m)
        BY <2>2, <2>4, <3>1 DEF CommitMutation
      <4>2. Stored(m)' = m.content
        BY <4>1, <1>0 DEF Insert, InsertEvent, InsertCheckpoint, InsertTerminal, Stored,
                          TablesShape
      <4> QED  BY <4>2, <2>1, <2>2, <3>1 DEF Justified, Stored, Refuted
    <3>2. CASE status # "committed"
      <4>1. UNCHANGED tables /\ Verdict(m) = status
        BY <2>2, <2>4, <3>2 DEF CommitMutation
      <4>2. Justified(m, status)
        BY <4>1, <3>2 DEF Verdict, EventVerdict, CheckpointVerdict, TerminalVerdict,
                          StoredVerdict, Justified, Refuted, Stored
      <4> QED  BY <4>1, <4>2, <2>1, <2>2 DEF Justified, Refuted, Stored, tables
    <3> QED  BY <3>1, <3>2
  <2>5. CASE /\ status = ReconcileVerdict(work[d].mutation)
             /\ UNCHANGED tables
    <3>1. Justified(m, status)
      BY <2>2, <2>5 DEF ReconcileVerdict, StoredVerdict, Justified, Refuted, CommitStatuses
    <3> QED  BY <3>1, <2>1, <2>2, <2>5 DEF Justified, Refuted, Stored, tables
  <2> QED  BY <1>1, AnswerSources, <2>3, <2>4, <2>5 DEF Produced
<1> QED  BY <1>1 DEF AnswersJustified

(* A head moves only to the record just inserted, and only forward; a committed
   checkpoint brings the blobs it refers to, or finds them associated. *)
LEMMA HeadsStep ==
  ASSUME SinkInv, [SinkNext]_vars PROVE HeadsShape' /\ HeadsResolve'
<1>1. CASE UNCHANGED <<tables, committedBy>>
  BY <1>1 DEF tables, SinkInv, HeadsShape, HeadsResolve
<1>2. ASSUME NEW c \in Callers, Commits(c) PROVE HeadsShape' /\ HeadsResolve'
  <2> DEFINE m == work[c].mutation
  <2>1. m \in Mutations /\ Verdict(m) = "committed" /\ Insert(m)
    BY <1>2 DEF Commits, SinkInv, WorkShape
  <2> HIDE DEF m
  <2>2. CASE m.kind = "event"
    <3> USE <2>1, <2>2 DEF Insert, InsertEvent, SinkInv
    <3>1. /\ events' = [events EXCEPT ![m.seq] = m.content]
          /\ m.seq \in 1 .. MaxSeq /\ m.content # None
          /\ eventHead \in 0 .. MaxSeq /\ DOMAIN events = 1 .. MaxSeq
      BY DEF HeadsShape, TablesShape
    <3>2. HeadsShape'
      BY <3>1 DEF HeadsShape
    <3>3. \A s \in 1 .. MaxSeq : events'[s] # None => s <= eventHead'
      BY <3>1 DEF HeadsResolve
    <3>4. eventHead' > 0 => events'[eventHead'] # None
      BY <3>1 DEF HeadsResolve
    <3> QED  BY <3>2, <3>3, <3>4 DEF HeadsResolve
  <2>3. CASE m.kind = "checkpoint"
    <3>1. m.content.refs \subseteq runBlobs'
      BY <2>1, <2>3 DEF Verdict, CheckpointVerdict, StoredVerdict, Insert, InsertCheckpoint
    <3> USE <2>1, <2>3 DEF Insert, InsertCheckpoint, SinkInv
    <3>2. /\ checkpoints' = [checkpoints EXCEPT ![m.seq] = m.content]
          /\ m.seq \in 0 .. MaxSeq /\ m.content # None
          /\ checkpointHead \in -1 .. MaxSeq /\ DOMAIN checkpoints = 0 .. MaxSeq
      BY DEF HeadsShape, TablesShape
    <3>3. HeadsShape'
      BY <3>2 DEF HeadsShape
    <3>4. runBlobs \subseteq runBlobs'
      OBVIOUS
    <3>5. ASSUME NEW s \in 0 .. MaxSeq, checkpoints'[s] # None
          PROVE  s <= checkpointHead' /\ checkpoints'[s].refs \subseteq runBlobs'
      <4>1. CASE s = m.seq
        BY <3>1, <3>2, <4>1
      <4>2. CASE s # m.seq
        BY <3>2, <3>4, <3>5, <4>2 DEF HeadsResolve
      <4> QED  BY <4>1, <4>2
    <3>6. checkpointHead' >= 0 => checkpoints'[checkpointHead'] # None
      BY <3>2 DEF HeadsResolve
    <3> QED  BY <3>3, <3>5, <3>6 DEF HeadsResolve
  <2>4. CASE m.kind = "terminal"
    BY <2>1, <2>4 DEF Insert, InsertTerminal, SinkInv, HeadsShape, HeadsResolve
  <2> QED  BY <2>1, <2>2, <2>3, <2>4
<1> QED  BY <1>1, <1>2, TableSteps DEF SinkInv

(* The composition's inductive invariant is preserved, one lemma per part. *)
LEMMA SinkInvStep == SinkInv /\ [SinkNext]_vars => SinkInv'
<1> SUFFICES ASSUME SinkInv, [SinkNext]_vars PROVE SinkInv'
  OBVIOUS
<1>1. IInv'
  BY SinkStepIsStoreStep, NextIInv DEF SinkInv
<1>2. WorkShape' /\ TablesShape'
  BY WorkShapeStep, TablesShapeStep DEF SinkInv
<1> QED  BY <1>1, <1>2, CommittedByStep, EventIdsStep, AnswersJustifiedStep,
            HeadsStep DEF SinkInv

LEMMA SinkInvariant == SinkSpec => []SinkInv
  BY SinkInitInv, SinkInvStep, PTL DEF SinkSpec

-----------------------------------------------------------------------------
(* The composition keeps everything proved about the store: it refines it. *)
THEOREM SinkRefinesStore == SinkSpec => Spec
<1>1. SinkInit => Init
  BY DEF SinkInit
<1>2. SinkInv /\ [SinkNext]_vars => [Next]_storeVars
  BY SinkStepIsStoreStep DEF SinkInv
<1> QED  BY <1>1, <1>2, SinkInvariant, PTL DEF SinkSpec, Spec

(* Fencing of the run's records, for any number of callers, owners, tokens and
   mutations: no write lands from a generation that is not the current one. *)
THEOREM SinkFencing == SinkSpec => StaleWriterNeverCommits
<1>1. SinkInv /\ [SinkNext]_vars =>
        [tables' # tables => committedBy' = row.generation /\ committedBy' >= committedBy]_vars
  BY CommittedByStep
<1> QED  BY <1>1, SinkInvariant, PTL DEF SinkSpec, StaleWriterNeverCommits

(* Records are write-once and the first terminal outcome closes the journal,
   for any set of mutations. *)
THEOREM SinkWriteOnce == SinkSpec => RecordsAreWriteOnce
<1>1. SinkInv /\ [SinkNext]_vars => [WriteOnceStep]_vars
  BY WriteOnce DEF SinkInv
<1> QED  BY <1>1, SinkInvariant, PTL DEF SinkSpec, RecordsAreWriteOnce, WriteOnceStep

(* Event ids are unique in the journal, for any number of events. *)
THEOREM SinkEventIds == SinkSpec => []EventIdsAreUnique
  BY SinkInvariant, PTL DEF SinkInv

(* What the heads name is stored and newest, and every stored checkpoint's
   blobs are associated with the run, for any set of mutations. *)
THEOREM SinkHeads == SinkSpec => []HeadsResolve
  BY SinkInvariant, PTL DEF SinkInv

(* Acknowledged mutations are durable and refused ones never become durable,
   through lost responses, retries, takeovers and reconciliation. *)
THEOREM SinkAnswers == SinkSpec => []AnswersAreTrue
<1>1. SinkInv => AnswersAreTrue
  <2> SUFFICES ASSUME SinkInv, NEW c \in Callers
               PROVE  /\ Answered(c, {"committed", "already_committed"}) =>
                            Stored(work[c].mutation) = work[c].mutation.content
                      /\ Answered(c, {"conflict"})
                           /\ work[c].mutation.kind \in {"event", "terminal"} =>
                            Stored(work[c].mutation) # work[c].mutation.content
    BY DEF AnswersAreTrue
  <2>1. CASE Answered(c, {"committed", "already_committed"})
    BY <2>1 DEF SinkInv, AnswersJustified, Answered, Justified, CommitStatuses
  <2>2. CASE Answered(c, {"conflict"}) /\ work[c].mutation.kind \in {"event", "terminal"}
    <3>1. work[c].mutation \in Mutations /\ Refuted(work[c].mutation)
      BY <2>2 DEF SinkInv, AnswersJustified, Answered, Justified, CommitStatuses, WorkShape
    <3> QED  BY <3>1, <2>2 DEF SinkInv, EventIdsAreUnique, Refuted, Stored, Answered
  <2> QED  BY <2>1, <2>2 DEF Answered
<1> QED  BY <1>1, SinkInvariant, PTL
=============================================================================
