------------------------ MODULE AuthorityStoreProofs ------------------------
(***************************************************************************)
(* Proofs, for every set of callers and owners, every lease length and     *)
(* every bound, of the properties of AuthorityStore.                       *)
(***************************************************************************)
EXTENDS AuthorityStore, TLAPS

\* The row lock is held by exactly the transaction that is in a locked stage.
LockHeld == \A c \in Callers : call[c].stage \in LockedStages <=> lock = c

\* The absent row is the initial one; an existing row has an owner; no expiry lies
\* further ahead than one lease length, so a renewal never shortens a lease.
RowShape ==
    /\ row.leased_until <= now + TTL
    /\ row.generation = 0 => row.revoked
    /\ row.generation > 0 => row.owner \in Owners

\* An open claim runs under a claim identity.
ClaimShape ==
    \A c \in Callers :
        call[c].op = "claim" /\ call[c].stage # "done" => call[c].owner \in Owners

\* What a transaction learned under the row lock stays true until it commits.
LockedFacts ==
    \A c \in Callers :
        /\ call[c].stage = "activate" => row.generation = 0
        /\ call[c].stage = "takeover" => row.generation > 0 /\ ~Active(row, now)
        /\ call[c].stage \in {"renew", "release", "guarded"} =>
              Presents(c) /\ row.generation > 0 /\ ~row.revoked

IInv == TypeOK /\ LockHeld /\ RowShape /\ ClaimShape /\ LockedFacts /\ LeaseEvidence

USE NoOwnerAssumption, NoCallerAssumption, TTLAssumption, BoundsAssumption

-----------------------------------------------------------------------------
(* The initial state satisfies the inductive invariant. *)
LEMMA InitIInv == Init => IInv
  BY DEF Init, IInv, TypeOK, LockHeld, RowShape, ClaimShape, LockedFacts, LeaseEvidence,
         HandsOutLease, Presents, Active, NoRow, Rows, Idle, Calls, Ops, Stages, Statuses,
         LockedStages, CommitStatuses

(* A step that only advances the clock keeps the inductive invariant: a lease
   that was inactive stays inactive. *)
LEMMA TickIInv == IInv /\ Tick => IInv'
  BY DEF Tick, IInv, TypeOK, LockHeld, RowShape, ClaimShape, LockedFacts, LeaseEvidence,
         HandsOutLease, Presents, Active, Rows

(* A transaction that ends with an answer that hands out no lease, giving the
   row lock back if it held it, keeps the inductive invariant. *)
LEMMA AnswerIInv ==
  ASSUME NEW c \in Callers, NEW status \in Statuses \ {"granted", "renewed"},
         IInv, call[c].stage # "idle", Answer(c, status),
         lock' = IF lock = c THEN NoCaller ELSE lock, UNCHANGED <<row, now>>
  PROVE  IInv'
<1>1. TypeOK'
  <2>1. (row \in Rows /\ lock \in Callers \union {NoCaller} /\ now \in Nat)'
    BY DEF IInv, TypeOK
  <2>2. "done" \in Stages
    BY DEF Stages
  <2>3. call' \in [Callers -> Calls]
    <3> DEFINE answered == [call[c] EXCEPT !.stage = "done", !.status = status]
    <3>1. call \in [Callers -> Calls] /\ call[c] \in Calls
      BY DEF IInv, TypeOK
    <3>2. answered \in Calls
      BY <2>2, <3>1 DEF Calls
    <3>3. call' = [call EXCEPT ![c] = answered]
      BY <3>1 DEF Answer
    <3> HIDE DEF answered
    <3> QED  BY <3>1, <3>2, <3>3
  <2> QED  BY <2>1, <2>3 DEF TypeOK
<1>2. LockHeld'
  BY DEF IInv, TypeOK, LockHeld, Answer, Calls, LockedStages
<1>3. RowShape' /\ ClaimShape'
  BY DEF IInv, TypeOK, RowShape, ClaimShape, Answer, Calls
<1>4. LockedFacts'
  BY DEF IInv, TypeOK, LockedFacts, Answer, Calls, Presents, Active
<1>5. LeaseEvidence'
  BY DEF IInv, TypeOK, LeaseEvidence, HandsOutLease, Answer, Calls
<1> QED  BY <1>1, <1>2, <1>3, <1>4, <1>5 DEF IInv

(* A transaction that takes the free row lock with facts it checked under it
   keeps the inductive invariant. *)
LEMMA EnterIInv ==
  ASSUME NEW c \in Callers, NEW stage \in LockedStages,
         IInv, lock = NoCaller, call[c].stage \in {"sent", "insert"},
         Enter(c, stage), UNCHANGED <<row, now>>,
         stage = "activate" => row.generation = 0,
         stage = "takeover" => row.generation > 0 /\ ~Active(row, now),
         stage \in {"renew", "release", "guarded"} =>
             Presents(c) /\ row.generation > 0 /\ ~row.revoked
  PROVE  IInv'
<1>1. TypeOK'
  BY DEF IInv, TypeOK, Enter, Calls, Stages
<1>2. LockHeld'
  BY DEF IInv, TypeOK, LockHeld, Enter, Calls, LockedStages
<1>3. RowShape' /\ ClaimShape'
  BY DEF IInv, TypeOK, RowShape, ClaimShape, Enter, Calls
<1>4. LockedFacts'
  BY DEF IInv, TypeOK, LockedFacts, Enter, Calls, Presents, Active
<1>5. LeaseEvidence'
  BY DEF IInv, TypeOK, LeaseEvidence, HandsOutLease, Enter, Calls, LockedStages
<1> QED  BY <1>1, <1>2, <1>3, <1>4, <1>5 DEF IInv

(* Granting a generation keeps the inductive invariant: the transaction holds
   the lock, so nobody else relies on the row it replaces, and the generation
   is new, so no earlier answer speaks of it. *)
LEMMA GrantIInv ==
  ASSUME NEW c \in Callers, IInv, ActivateFirst(c) \/ TakeOver(c)
  PROVE  IInv'
<1>1. /\ call[c].op = "claim" /\ call[c].stage \in {"activate", "takeover"}
      /\ row' = [owner |-> call[c].owner, generation |-> row.generation + 1,
                 leased_until |-> now + TTL, revoked |-> FALSE]
      /\ row.generation + 1 \in 1 .. MaxGeneration
      /\ CommitAnswer(c, "granted", row') /\ lock' = NoCaller /\ now' = now
  BY DEF ActivateFirst, TakeOver, IInv, TypeOK, Rows, LockedFacts
<1>2. lock = c /\ call[c].owner \in Owners
  BY <1>1 DEF IInv, LockHeld, LockedStages, ClaimShape
<1>3. TypeOK'
  BY <1>1, <1>2 DEF IInv, TypeOK, CommitAnswer, AnswerWith, Answer, Calls, Rows,
                    Stages, Statuses
<1>4. LockHeld'
  BY <1>1, <1>2 DEF IInv, TypeOK, LockHeld, CommitAnswer, AnswerWith, Answer, Calls,
                    LockedStages
<1>5. RowShape' /\ ClaimShape'
  BY <1>1, <1>2 DEF IInv, TypeOK, RowShape, ClaimShape, CommitAnswer, AnswerWith, Answer,
                    Calls, Rows
<1>6. LockedFacts'
  BY <1>4, <1>1, <1>2 DEF IInv, TypeOK, LockHeld, LockedFacts, CommitAnswer, AnswerWith,
                    Answer, Calls, LockedStages
<1>7. LeaseEvidence'
  BY <1>1, <1>2 DEF IInv, TypeOK, LeaseEvidence, HandsOutLease, CommitAnswer, AnswerWith,
                    Answer, Calls, Rows
<1> QED  BY <1>3, <1>4, <1>5, <1>6, <1>7 DEF IInv

(* A renewal or a release keeps the inductive invariant: the owner and the
   generation stay, the expiry only grows unless the row is revoked. *)
LEMMA UpdateIInv ==
  ASSUME NEW c \in Callers, IInv, RenewUpdates(c) \/ ReleaseUpdates(c)
  PROVE  IInv'
<1>0. lock = c /\ call[c].stage \in {"renew", "release"}
  BY DEF RenewUpdates, ReleaseUpdates, IInv, LockHeld, LockedStages
<1>1. CASE ~Active(row, now)
  <2>1. Answer(c, "fenced") /\ lock' = NoCaller /\ UNCHANGED <<row, now>>
    BY <1>1 DEF RenewUpdates, ReleaseUpdates
  <2> QED  BY <2>1, <1>0, AnswerIInv DEF Statuses
<1>2. CASE Active(row, now)
  <2>1. /\ row' \in Rows /\ row'.owner = row.owner /\ row'.generation = row.generation
        /\ row'.revoked \/ row'.leased_until = now + TTL
        /\ row'.leased_until <= now + TTL
        /\ \/ AnswerWith(c, "renewed", row') \/ AnswerWith(c, "released", row')
           \/ Answer(c, "error")
        /\ lock' = NoCaller /\ now' = now
    <3>1. CASE RenewUpdates(c)
      BY <3>1, <1>2 DEF RenewUpdates, CommitAnswer, IInv, TypeOK, Rows
    <3>2. CASE ReleaseUpdates(c)
      <4>1. row' = [row EXCEPT !.leased_until = now, !.revoked = TRUE]
        BY <3>2, <1>2 DEF ReleaseUpdates
      <4>2. row' \in Rows /\ row'.revoked /\ row'.leased_until = now /\ row'.owner = row.owner
            /\ row'.generation = row.generation
        BY <4>1 DEF IInv, TypeOK, Rows
      <4> QED  BY <3>2, <1>2, <4>2 DEF ReleaseUpdates, CommitAnswer, IInv, TypeOK
    <3> QED  BY <3>1, <3>2
  <2>2. TypeOK'
    BY <2>1, <1>0 DEF IInv, TypeOK, AnswerWith, Answer, Calls, Rows, Stages,
                      Statuses
  <2>3. LockHeld'
    BY <2>1, <1>0 DEF IInv, TypeOK, LockHeld, AnswerWith, Answer, Calls,
                      LockedStages
  <2>4. RowShape' /\ ClaimShape'
    BY <2>1, <1>0, <1>2 DEF IInv, TypeOK, RowShape, ClaimShape, AnswerWith,
                      Answer, Calls, Rows, Active
  <2>5. LockedFacts'
    BY <2>3, <2>1, <1>0 DEF IInv, TypeOK, LockHeld, LockedFacts, AnswerWith,
                      Answer, Calls, LockedStages
  <2>6. LeaseEvidence'
    BY <2>1, <1>0, <1>2 DEF IInv, TypeOK, RowShape, LeaseEvidence, HandsOutLease,
                      AnswerWith, Answer, Calls, Rows, Active
  <2> QED  BY <2>2, <2>3, <2>4, <2>5, <2>6 DEF IInv
<1> QED  BY <1>1, <1>2

(* Answers that repeat the row as it stands (a repeated claim, a read) keep the
   inductive invariant. *)
LEMMA RepeatIInv ==
  ASSUME NEW c \in Callers, IInv, ClaimAgain(c) \/ Read(c)
  PROVE  IInv'
<1>1. CASE Answer(c, "error") /\ UNCHANGED <<row, lock, now>>
  <2>1. call[c].stage \notin LockedStages /\ call[c].stage # "idle"
    BY DEF ClaimAgain, ClaimReads, Read, LockedStages
  <2> QED  BY <1>1, <2>1, AnswerIInv DEF Statuses, IInv, LockHeld
<1>2. CASE /\ AnswerWith(c, "granted", row) \/ AnswerWith(c, "observed", row)
           /\ UNCHANGED <<row, lock, now>>
  <2>1. call[c].stage \notin LockedStages
    BY DEF ClaimAgain, ClaimReads, Read, LockedStages
  <2>2. TypeOK'
    BY <1>2 DEF IInv, TypeOK, AnswerWith, Calls, Rows, Stages, Statuses
  <2>3. LockHeld'
    BY <1>2, <2>1 DEF IInv, TypeOK, LockHeld, AnswerWith, Calls, LockedStages
  <2>4. RowShape' /\ ClaimShape'
    BY <1>2 DEF IInv, TypeOK, RowShape, ClaimShape, AnswerWith, Calls
  <2>5. LockedFacts'
    BY <1>2 DEF IInv, TypeOK, LockedFacts, AnswerWith, Calls, Presents, Active
  <2>6. LeaseEvidence'
    BY <1>2 DEF IInv, TypeOK, LeaseEvidence, HandsOutLease, AnswerWith, Calls, Rows
  <2> QED  BY <2>2, <2>3, <2>4, <2>5, <2>6 DEF IInv
<1> QED  BY <1>1, <1>2 DEF ClaimAgain, Read, CommitAnswer

(* Requests, returns and the discovery that there is no row touch one call
   that holds nothing. *)
LEMMA CallIInv ==
  ASSUME NEW c \in Callers, IInv,
         \/ ClaimFindsNoRow(c) \/ Return(c)
         \/ \E op \in Ops \ {"none"}, token \in Owners \X (0 .. MaxGeneration) :
                Invoke(c, op, token)
  PROVE  IInv'
<1>1. PICK new \in Calls :
        /\ call' = [call EXCEPT ![c] = new] /\ UNCHANGED <<row, lock, now>>
        /\ new.stage \in {"idle", "sent", "insert"}
        /\ new.op = "claim" => new.owner \in Owners
  <2>1. CASE ClaimFindsNoRow(c)
    <3>1. /\ [call[c] EXCEPT !.stage = "insert"] \in Calls
          /\ call' = [call EXCEPT ![c] = [call[c] EXCEPT !.stage = "insert"]]
      BY <2>1 DEF ClaimFindsNoRow, IInv, TypeOK, Calls, Stages
    <3> QED  BY <2>1, <3>1 DEF ClaimFindsNoRow, IInv, TypeOK, ClaimShape, Calls
  <2>2. CASE Return(c)
    <3>1. Idle \in Calls
      BY DEF Idle, Calls, Ops, Stages, Statuses
    <3> QED  BY <2>2, <3>1 DEF Return, Idle
  <2>3. ASSUME NEW op \in Ops \ {"none"}, NEW token \in Owners \X (0 .. MaxGeneration),
               Invoke(c, op, token)
        PROVE  \E new \in Calls :
                 /\ call' = [call EXCEPT ![c] = new] /\ UNCHANGED <<row, lock, now>>
                 /\ new.stage \in {"idle", "sent", "insert"}
                 /\ new.op = "claim" => new.owner \in Owners
    <3>1. Request(op, token) \in Calls
      BY DEF Request, Idle, Calls, Ops, Stages, Statuses
    <3>2. Request(op, token).stage = "sent" /\ Request(op, token).owner = token[1]
      BY DEF Request, Idle
    <3> QED  BY <2>3, <3>1, <3>2 DEF Invoke
  <2> QED  BY <2>1, <2>2, <2>3
<1>2. call[c].stage \in {"idle", "sent", "done"}
  BY DEF ClaimFindsNoRow, Return, Invoke
<1>3. TypeOK'
  BY <1>1 DEF IInv, TypeOK
<1>4. LockHeld'
  BY <1>1, <1>2 DEF IInv, TypeOK, LockHeld, LockedStages
<1>5. RowShape' /\ ClaimShape'
  BY <1>1 DEF IInv, TypeOK, RowShape, ClaimShape
<1>6. LockedFacts'
  BY <1>1 DEF IInv, TypeOK, LockedFacts, Presents, Active
<1>7. LeaseEvidence'
  BY <1>1 DEF IInv, TypeOK, LeaseEvidence, HandsOutLease
<1> QED  BY <1>3, <1>4, <1>5, <1>6, <1>7 DEF IInv

(* The inductive step, one case per action of the store. *)
LEMMA NextIInv == IInv /\ [Next]_storeVars => IInv'
<1> SUFFICES ASSUME IInv, [Next]_storeVars PROVE IInv'
  OBVIOUS
<1>1. CASE Tick
  BY <1>1, TickIInv
<1>2. ASSUME NEW c \in Callers, Serve(c) PROVE IInv'
  <2>1. CASE ClaimFindsNoRow(c)
    BY <2>1, CallIInv
  <2>2. CASE InsertFirst(c)
    BY <2>2, EnterIInv DEF InsertFirst, LockedStages
  <2>3. CASE ActivateFirst(c) \/ TakeOver(c)
    BY <2>3, GrantIInv
  <2>4. CASE ClaimAgain(c) \/ Read(c)
    BY <2>4, RepeatIInv
  <2>5. CASE ClaimUnavailable(c)
    BY <2>5, AnswerIInv DEF ClaimUnavailable, ClaimReads, RowReadable, Statuses
  <2>6. CASE ClaimInactive(c)
    BY <2>6, EnterIInv DEF ClaimInactive, ClaimReads, RowReadable, LockedStages
  <2>7. CASE TakeOverOverflows(c)
    BY <2>7, AnswerIInv DEF TakeOverOverflows, IInv, LockHeld, LockedStages, Statuses
  <2>8. CASE TokenFindsNoRow(c)
    BY <2>8, AnswerIInv DEF TokenFindsNoRow, IInv, LockHeld, LockedStages, Statuses
  <2>9. CASE RenewReads(c) \/ ReleaseReads(c) \/ GuardReads(c)
    <3>1. lock = NoCaller /\ row.generation > 0 /\ call[c].stage = "sent"
          /\ UNCHANGED <<row, now>>
      BY <2>9 DEF RenewReads, ReleaseReads, GuardReads, RowReadable
    <3>2. CASE \E s \in {"fenced", "already_released"} : Answer(c, s) /\ UNCHANGED lock
      BY <3>1, <3>2, AnswerIInv DEF Statuses
    <3>3. CASE /\ Presents(c) /\ Active(row, now)
               /\ \E s \in {"renew", "release", "guarded"} : Enter(c, s)
      BY <3>1, <3>3, EnterIInv DEF Active, LockedStages
    <3> QED  BY <2>9, <3>2, <3>3 DEF RenewReads, ReleaseReads, GuardReads
  <2>10. CASE RenewUpdates(c) \/ ReleaseUpdates(c)
    BY <2>10, UpdateIInv
  <2>11. ASSUME NEW status \in CommitStatuses, GuardCommits(c, status) PROVE IInv'
    BY <2>11, AnswerIInv DEF GuardCommits, IInv, LockHeld, LockedStages, Statuses,
                             CommitStatuses
  <2> QED  BY <1>2, <2>1, <2>2, <2>3, <2>4, <2>5, <2>6, <2>7, <2>8, <2>9, <2>10, <2>11
           DEF Serve, Claim
<1>3. ASSUME NEW c \in Callers, Abort(c) PROVE IInv'
  BY <1>3, AnswerIInv DEF Abort, LockedStages, Statuses
<1>4. ASSUME NEW c \in Callers,
             \/ Return(c)
             \/ \E op \in Ops \ {"none"}, token \in Owners \X (0 .. MaxGeneration) :
                    Invoke(c, op, token)
      PROVE  IInv'
  BY <1>4, CallIInv
<1>5. CASE UNCHANGED storeVars
  BY <1>5 DEF storeVars, IInv, TypeOK, LockHeld, RowShape, ClaimShape, LockedFacts,
              LeaseEvidence, HandsOutLease, Presents, Active
<1> QED  BY <1>1, <1>2, <1>3, <1>4, <1>5 DEF Next

(* The inductive invariant holds in every reachable state. *)
LEMMA InvariantIInv == Spec => []IInv
  BY InitIInv, NextIInv, PTL DEF Spec

-----------------------------------------------------------------------------
(* Every state of the store is well typed: the row, the lock, the clock and
   every open transaction. *)
THEOREM TypeCorrect == Spec => []TypeOK
  BY InvariantIInv, PTL DEF IInv

(* Fencing, for any number of callers and owners: a mutation that passed
   _current_writer_locked commits under the generation it checked. *)
THEOREM Fencing == Spec => []GuardedWriterIsCurrent
<1>1. IInv => GuardedWriterIsCurrent
  BY DEF IInv, LockedFacts, GuardedWriterIsCurrent
<1> QED  BY <1>1, InvariantIInv, PTL

(* Lease answers are sound for any number of callers and owners: one owner per
   generation, and no promised expiry is taken back within it. *)
THEOREM Evidence == Spec => []LeaseEvidence
  BY InvariantIInv, PTL DEF IInv

(* Only a grant makes an inactive row active, and it opens a new generation. *)
LEMMA StepRefines == IInv /\ [Next]_storeVars => [Lease!Next]_(Lease!vars)
<1> SUFFICES ASSUME IInv, [Next]_storeVars PROVE [Lease!Next]_(Lease!vars)
  OBVIOUS
<1> USE DEF Lease!Next, Lease!vars, Lease!Grant, Lease!Lapse, Holder, Active
<1>1. CASE Tick
  BY <1>1 DEF Tick, IInv, TypeOK, Rows, RowShape
<1>2. ASSUME row' = row, now' = now PROVE [Lease!Next]_(Lease!vars)
  BY <1>2
<1>3. ASSUME NEW c \in Callers, ActivateFirst(c) \/ TakeOver(c)
      PROVE  [Lease!Next]_(Lease!vars)
  <2>1. call[c].owner \in Owners /\ ~Active(row, now) /\ now \in Nat
        /\ row.generation \in Nat
    BY <1>3 DEF ActivateFirst, TakeOver, IInv, TypeOK, Rows, ClaimShape, LockedFacts
  <2>2. /\ row' = [owner |-> call[c].owner, generation |-> row.generation + 1,
                   leased_until |-> now + TTL, revoked |-> FALSE]
        /\ now' = now
    BY <1>3 DEF ActivateFirst, TakeOver, IInv, TypeOK, Rows, LockedFacts
  <2> QED  BY <2>1, <2>2
<1>4. ASSUME NEW c \in Callers, RenewUpdates(c) PROVE [Lease!Next]_(Lease!vars)
  BY <1>4, <1>2 DEF RenewUpdates, IInv, TypeOK, Rows
<1>5. ASSUME NEW c \in Callers, ReleaseUpdates(c) PROVE [Lease!Next]_(Lease!vars)
  BY <1>5, <1>2 DEF ReleaseUpdates, IInv, TypeOK, Rows, RowShape
<1>6. ASSUME NEW c \in Callers, Serve(c) PROVE [Lease!Next]_(Lease!vars)
  BY <1>6, <1>2, <1>3, <1>4, <1>5
     DEF Serve, Claim, ClaimFindsNoRow, InsertFirst, ClaimAgain, ClaimUnavailable,
         ClaimInactive, TakeOverOverflows, TokenFindsNoRow, RenewReads, ReleaseReads,
         Read, GuardReads, GuardCommits
<1> QED  BY <1>1, <1>2, <1>6 DEF Next, Abort, Return, Invoke, storeVars

(* The store implements the abstract lease for every set of callers and owners
   and every lease length: lapse before grant, and a new generation per grant. *)
THEOREM Refinement == Spec => ImplementsFencedLease
<1>1. Init => Lease!Init
  BY DEF Init, Lease!Init, Holder, Active, NoRow
<1> QED  BY <1>1, StepRefines, InvariantIInv, PTL
         DEF Spec, ImplementsFencedLease, Lease!Spec
=============================================================================
