------------------------ MODULE LeaseSupervisorProofs ------------------------
(***************************************************************************)
(* Proofs, for any number of attempts, every lease length and every bound, *)
(* of the safety properties of LeaseSupervisor.                            *)
(*                                                                         *)
(* The supervisors are callers of AuthorityStore, so what is proved of the *)
(* store holds of them.  On top of it, the local deadline of an attempt is *)
(* tied to the row: every renewal answer that is not read yet, every span  *)
(* that bootstrap carries and every deadline that is installed is backed   *)
(* by the row's expiry as long as it lies ahead, because the clock was     *)
(* read before the renewal was sent.                                       *)
(***************************************************************************)
EXTENDS LeaseSupervisor, AuthorityStoreProofs

USE NoOwnerAssumption, NoCallerAssumption, TTLAssumption, BoundsAssumption

\* The authority row backs what attempt a believes of generation g until then.
Backed(a, g, until, r, t) ==
    t < until => r.owner = a /\ r.generation = g /\ ~r.revoked /\ r.leased_until >= until

\* Attempt a holds no lease.
Gone(a, r, t) == ~(r.owner = a /\ Active(r, t))

\* Which threads of an attempt exist beside each other, and what they have got.
ThreadsFit(s) ==
    /\ s.main = "new" => s.boot = "off"
    /\ s.boot # "over" =>
          s.driver = "off" /\ ~s.leased /\ s.booted # "ok" /\ s.cleaner # "release"
    /\ s.main = "install" => s.booted = "ok" /\ s.leased
    /\ s.driver # "off" => s.leased /\ s.main \notin {"new", "boot", "install"}
    /\ s.renewal # "off" => s.driver # "off"
    /\ s.main \in {"new", "boot", "install", "drive", "failing"} => s.cleaner = "off"
    /\ s.cleaner \in {"release", "over"} => s.driver # "run"
    /\ s.main \in {"failing", "cleanup", "leaving", "ended"} /\ s.driver = "run" => s.revoked
    /\ s.ok => s.driver = "over"
    /\ s.outcome = "success" => s.cleaner = "over" /\ s.ok

\* An open call speaks for its attempt, and was sent by the thread it belongs to.
CallFits(a, s, k) ==
    k.stage \notin {"idle", "done"} =>
        /\ k.owner = a
        /\ k.op = "claim" => s.boot \in {"claim", "reclaim"}
        /\ k.op = "renew" => k.generation = s.generation
        /\ k.op = "release" => s.boot = "release" \/ s.cleaner = "release"

\* What the attempt and the answers it has not read yet say about the row.
LeaseFits(a, s, k, r, t) ==
    /\ s.started <= t
    /\ s.boot = "bind" \/ (s.booted = "ok" /\ s.main \in {"boot", "install"}) =>
          Backed(a, s.generation, s.started + s.span, r, t)
    /\ s.driver = "run" => Backed(a, s.generation, s.deadline, r, t)
    /\ k.stage = "done" /\ k.status = "renewed" =>
        /\ k.owner = a /\ k.generation = s.generation
        /\ s.started <= k.observed /\ k.observed <= k.until
        /\ Backed(a, s.generation, k.until, r, t)
    /\ k.stage = "done" /\ k.status \in {"released", "already_released"} => Gone(a, r, t)
    /\ s.cleaner = "over" /\ s.ok => Gone(a, r, t)

AttemptFits(a, s, k, r, t) == ThreadsFit(s) /\ CallFits(a, s, k) /\ LeaseFits(a, s, k, r, t)

AttemptsFit == \A a \in Attempts : AttemptFits(a, sup[a], call[a], row, now)

SupInv == IInv /\ SupTypeOK /\ AttemptsFit

-----------------------------------------------------------------------------
(* The supervisors use the store as its callers may. *)

\* Owner ids and generations that an attempt presents are ones a caller may.
LEMMA TokensAreRequests ==
    ASSUME NEW a \in Attempts, NEW op \in Ops \ {"none"}, NEW g,
           g = 0 \/ op \in {"renew", "release", "guard"}, Invoke(a, op, <<a, g>>)
    PROVE  Next
<1>1. <<a, g>> \in Owners \X (0 .. MaxGeneration)
  <2>1. CASE op \in {"renew", "release", "guard"}
    BY <2>1 DEF Invoke, Tokens
  <2>2. CASE g = 0
    BY <2>2, AttemptOwnersAssumption
  <2> QED BY <2>1, <2>2
<1> QED BY <1>1 DEF Next, Attempts

LEMMA SupSimulates == [SupNext]_supVars => [Next]_storeVars
<1> SUFFICES ASSUME [SupNext]_supVars PROVE [Next]_storeVars
  OBVIOUS
<1>1. CASE UNCHANGED supVars
  BY <1>1 DEF supVars
<1>2. CASE Tick
  BY <1>2 DEF Next
<1>3. ASSUME NEW a \in Attempts, Database(a) \/ Abort(a) PROVE Next
  <2>1. Serve(a) \/ Abort(a)
    BY <1>3 DEF Database, Serve, CommitStatuses
  <2> QED BY <2>1 DEF Next, Attempts
<1>4. ASSUME NEW a \in Attempts, Start(a) PROVE Next
  BY <1>4, TokensAreRequests DEF Start, Ops
<1>5. ASSUME NEW a \in Attempts, Bootstrap(a) PROVE Next
  <2>1. CASE Reclaim(a) \/ LookUpClaim(a)
    BY <2>1, TokensAreRequests DEF Reclaim, LookUpClaim, Ops
  <2>2. CASE RenewAfterClaim(a) \/ ReleaseAfterClaim(a) \/ Bind(a) \/ BootRenewFails(a)
               \/ BindFailsOrAbandoned(a)
    BY <2>2, TokensAreRequests
       DEF RenewAfterClaim, ReleaseAfterClaim, Bind, BootRenewFails, BindFailsOrAbandoned, Token, Ops
  <2>3. CASE ClaimFails(a) \/ PublishBootstrap(a) \/ BootReleased(a)
    BY <2>3 DEF ClaimFails, PublishBootstrap, BootReleased, Finish, Next, Attempts
  <2> QED BY <1>5, <2>1, <2>2, <2>3 DEF Bootstrap
<1>6. ASSUME NEW a \in Attempts,
             Main(a) \/ EnterGuard(a) \/ LeaveGuard(a) \/ DriverEnds(a) \/ ControlFails(a)
      PROVE  UNCHANGED storeVars
  <2>1. CASE Main(a)
    BY <2>1 DEF Main, BootstrapWaits, InstallLease, DriveWaits, RevokeReturns, CleanupWaits
  <2> QED BY <1>6, <2>1 DEF EnterGuard, LeaveGuard, DriverEnds, ControlFails
<1>7. ASSUME NEW a \in Attempts, RenewalWakes(a) \/ RenewalAnswered(a) \/ CleanupReleases(a)
                                   \/ CleanupReleased(a)
      PROVE  [Next]_storeVars
  <2>1. CASE RenewalWakes(a) \/ CleanupReleases(a)
    BY <2>1, TokensAreRequests DEF RenewalWakes, CleanupReleases, Token, Ops
  <2>2. CASE RenewalAnswered(a) \/ CleanupReleased(a)
    BY <2>2 DEF RenewalAnswered, CleanupReleased, Finish, Next, Attempts
  <2> QED BY <1>7, <2>1, <2>2
<1>8. ASSUME NEW a \in Attempts, Crash(a) PROVE [Next]_storeVars
  BY <1>8 DEF Crash, Next, Attempts
<1> QED BY <1>1, <1>2, <1>3, <1>4, <1>5, <1>6, <1>7, <1>8 DEF SupNext, Threads

-----------------------------------------------------------------------------
(* Steps of the database *)

LEMMA StoreTypes ==
    ASSUME IInv
    PROVE  /\ now \in Nat /\ row.leased_until \in Nat /\ row.generation \in 0 .. MaxGeneration
           /\ row.revoked \in BOOLEAN /\ row.leased_until <= now + TTL
           /\ row.generation = 0 => row.revoked
           /\ \A a \in Attempts :
                /\ call[a] \in Calls /\ call[a].until \in Nat /\ call[a].observed \in Nat
                /\ call[a].generation \in 0 .. MaxGeneration
BY DEF IInv, TypeOK, RowShape, Rows, Calls, Attempts

\* A lease that is believed in and lies ahead is active.
LEMMA BackedIsActive ==
    ASSUME IInv, NEW a, NEW g, NEW until \in Nat, Backed(a, g, until, row, now), now < until
    PROVE  Active(row, now)
BY StoreTypes DEF Backed, Active

\* Only the call of one attempt changes.
LEMMA CallMoves ==
    ASSUME SupInv, NEW c \in Attempts, NEW k, call' = [call EXCEPT ![c] = k],
           UNCHANGED <<row, now, sup>>, CallFits(c, sup[c], k),
           k.stage = "done" => /\ k.status \notin {"renewed", "released"}
                               /\ k.status = "already_released" => Gone(c, row, now)
    PROVE  AttemptsFit'
<1>1. call'[c] = k /\ \A a \in Attempts \ {c} : call'[a] = call[a]
  BY DEF SupInv, IInv, TypeOK, Attempts
<1> SUFFICES ASSUME NEW a \in Attempts PROVE AttemptFits(a, sup[a], call'[a], row, now)
  BY DEF AttemptsFit
<1>2. AttemptFits(a, sup[a], call[a], row, now)
  BY DEF SupInv, AttemptsFit
<1>3. CASE a = c
  BY <1>1, <1>2, <1>3 DEF AttemptFits, LeaseFits
<1>4. CASE a # c
  BY <1>1, <1>2, <1>4
<1> QED BY <1>3, <1>4

\* What an answer without a lease, and the next stage, leave of a call.
LEMMA AnswerMoves ==
    ASSUME SupInv, NEW c \in Attempts,
           NEW status \in Statuses \ {"renewed", "released"}, Answer(c, status),
           UNCHANGED <<row, now, sup>>, status = "already_released" => Gone(c, row, now)
    PROVE  AttemptsFit'
<1> DEFINE k == [call[c] EXCEPT !.stage = "done", !.status = status]
<1>1. call[c] \in Calls /\ call \in [Callers -> Calls] /\ c \in Callers
  BY DEF SupInv, IInv, TypeOK, Attempts
<1>2. k.stage = "done" /\ k.status = status
  BY <1>1 DEF Calls
<1>3. call' = [call EXCEPT ![c] = k]
  BY <1>1 DEF Answer
<1> HIDE DEF k
<1> QED BY <1>2, <1>3, CallMoves DEF CallFits

LEMMA StageMoves ==
    ASSUME SupInv, NEW c \in Attempts, NEW g \in LockedStages \union {"insert"},
           call' = [call EXCEPT ![c].stage = g], call[c].stage \notin {"idle", "done"},
           UNCHANGED <<row, now, sup>>
    PROVE  AttemptsFit'
<1> DEFINE k == [call[c] EXCEPT !.stage = g]
<1>1. call[c] \in Calls /\ call \in [Callers -> Calls] /\ c \in Callers
  BY DEF SupInv, IInv, TypeOK, Attempts
<1>2. /\ k.stage = g /\ k.op = call[c].op /\ k.owner = call[c].owner
      /\ k.generation = call[c].generation
  BY <1>1 DEF Calls
<1>3. call' = [call EXCEPT ![c] = k]
  BY <1>1
<1>4. CallFits(c, sup[c], call[c]) /\ g # "done"
  BY DEF SupInv, AttemptsFit, AttemptFits, LockedStages
<1> HIDE DEF k
<1>5. CallFits(c, sup[c], k)
  BY <1>2, <1>4 DEF CallFits
<1> QED BY <1>2, <1>3, <1>4, <1>5, CallMoves

\* A grant: whoever believed in a lease that lies ahead would have made it impossible.
LEMMA GrantMoves ==
    ASSUME SupInv, NEW c \in Attempts, ActivateFirst(c) \/ TakeOver(c), UNCHANGED sup
    PROVE  AttemptsFit'
<1>1. /\ call[c].op = "claim" /\ call[c].stage \in {"activate", "takeover"}
      /\ row' = [owner |-> call[c].owner, generation |-> row.generation + 1,
                 leased_until |-> now + TTL, revoked |-> FALSE]
      /\ CommitAnswer(c, "granted", row') /\ now' = now
  BY DEF ActivateFirst, TakeOver, SupInv, IInv, TypeOK, Rows, LockedFacts, Attempts
<1>2. ~Active(row, now)
  BY <1>1 DEF SupInv, IInv, LockedFacts, Active, Attempts
<1>3. /\ call'[c].stage = "done" /\ call'[c].status \in {"granted", "error"}
      /\ \A a \in Attempts \ {c} : call'[a] = call[a]
  BY <1>1 DEF CommitAnswer, AnswerWith, Answer, SupInv, IInv, TypeOK, Calls, Attempts
<1>4. call[c].owner = c /\ sup[c].boot \in {"claim", "reclaim"}
  BY <1>1 DEF SupInv, AttemptsFit, AttemptFits, CallFits
<1>5. row'.owner = c
  BY <1>1, <1>4
<1> SUFFICES ASSUME NEW a \in Attempts PROVE AttemptFits(a, sup[a], call'[a], row', now)
  BY <1>1 DEF AttemptsFit
<1>6. AttemptFits(a, sup[a], call[a], row, now) /\ sup[a] \in Supervisor
  BY DEF SupInv, AttemptsFit, SupTypeOK
<1>7. ASSUME NEW g, NEW until \in Nat, Backed(a, g, until, row, now)
      PROVE  Backed(a, g, until, row', now)
  BY <1>2, <1>7, BackedIsActive, StoreTypes DEF Backed, SupInv
<1>8. sup[a].started + sup[a].span \in Nat /\ sup[a].deadline \in Nat /\ call[a].until \in Nat
  BY <1>6, StoreTypes DEF Supervisor, SupInv
<1>9. a # c => Gone(a, row', now)
  BY <1>5 DEF Gone
<1>10. CASE a = c
  <2>1. ~(sup[a].cleaner = "over" /\ sup[a].ok)
    BY <1>4, <1>6, <1>10 DEF AttemptFits, ThreadsFit
  <2> QED BY <1>3, <1>6, <1>7, <1>8, <1>10, <2>1 DEF AttemptFits, CallFits, LeaseFits
<1>11. CASE a # c
  BY <1>3, <1>6, <1>7, <1>8, <1>9, <1>11 DEF AttemptFits, LeaseFits
<1> QED BY <1>10, <1>11

LEMMA RenewMoves ==
    ASSUME SupInv, NEW c \in Attempts, RenewUpdates(c), UNCHANGED sup
    PROVE  AttemptsFit'
<1>0. /\ call[c].op = "renew" /\ call[c].stage = "renew" /\ now' = now /\ c \in Callers
      /\ call \in [Callers -> Calls] /\ call[c] \in Calls /\ row \in Rows
  BY DEF RenewUpdates, SupInv, IInv, TypeOK, Attempts
<1>1. CASE ~Active(row, now)
  BY <1>1, AnswerMoves DEF RenewUpdates, Statuses
<1>2. CASE Active(row, now)
  <2>1. /\ row' = [row EXCEPT !.leased_until = now + TTL] /\ CommitAnswer(c, "renewed", row')
    BY <1>2 DEF RenewUpdates
  <2>2. /\ row'.owner = row.owner /\ row'.generation = row.generation /\ row'.revoked = row.revoked
        /\ row'.leased_until = now + TTL
    BY <1>0, <2>1 DEF Rows
  <2>3. call[c].owner = c /\ call[c].generation = sup[c].generation
    BY <1>0 DEF SupInv, AttemptsFit, AttemptFits, CallFits
  <2>4. row.owner = c /\ row.generation = sup[c].generation /\ ~row.revoked
    BY <1>0, <2>3 DEF SupInv, IInv, LockedFacts, Presents
  <2>5. /\ call'[c].stage = "done"
        /\ \/ call'[c].status = "error"
           \/ /\ call'[c].status = "renewed" /\ call'[c].owner = row'.owner
              /\ call'[c].generation = row'.generation
              /\ call'[c].until = row'.leased_until /\ call'[c].observed = now
        /\ \A a \in Attempts \ {c} : call'[a] = call[a]
    BY <1>0, <2>1 DEF CommitAnswer, AnswerWith, Answer, Calls, Attempts
  <2> SUFFICES ASSUME NEW a \in Attempts PROVE AttemptFits(a, sup[a], call'[a], row', now)
    BY <1>0 DEF AttemptsFit
  <2>6. AttemptFits(a, sup[a], call[a], row, now) /\ sup[a] \in Supervisor
    BY DEF SupInv, AttemptsFit, SupTypeOK
  <2>7. ASSUME NEW g, NEW until \in Nat, Backed(a, g, until, row, now)
        PROVE  Backed(a, g, until, row', now)
    BY <2>2, <2>7, StoreTypes DEF Backed, SupInv
  <2>8. /\ sup[a].started + sup[a].span \in Nat /\ sup[a].deadline \in Nat /\ call[a].until \in Nat
        /\ sup[a].started <= now /\ now \in Nat
    BY <2>6, StoreTypes DEF Supervisor, SupInv, AttemptFits, LeaseFits
  <2>9. Gone(a, row, now) => Gone(a, row', now)
    BY <1>2, <2>2, <2>4 DEF Gone
  <2>10. CASE a = c
    <3>1. Backed(a, sup[a].generation, row'.leased_until, row', now)
      BY <2>2, <2>4, <2>8, <2>10 DEF Backed
    <3> QED BY <2>2, <2>4, <2>5, <2>6, <2>7, <2>8, <2>9, <2>10, <3>1
            DEF AttemptFits, CallFits, LeaseFits
  <2>11. CASE a # c
    BY <2>5, <2>6, <2>7, <2>8, <2>9, <2>11 DEF AttemptFits, LeaseFits
  <2> QED BY <2>10, <2>11
<1> QED BY <1>1, <1>2

\* A release: its attempt no longer has anything that believes in the lease.
LEMMA ReleaseMoves ==
    ASSUME SupInv, NEW c \in Attempts, ReleaseUpdates(c), UNCHANGED sup
    PROVE  AttemptsFit'
<1>0. /\ call[c].op = "release" /\ call[c].stage = "release" /\ now' = now /\ c \in Callers
      /\ call \in [Callers -> Calls] /\ call[c] \in Calls /\ row \in Rows
  BY DEF ReleaseUpdates, SupInv, IInv, TypeOK, Attempts
<1>1. CASE ~Active(row, now)
  BY <1>1, AnswerMoves DEF ReleaseUpdates, Statuses
<1>2. CASE Active(row, now)
  <2>1. /\ row' = [row EXCEPT !.leased_until = now, !.revoked = TRUE]
        /\ CommitAnswer(c, "released", row')
    BY <1>2 DEF ReleaseUpdates
  <2>2. row'.owner = row.owner /\ row'.generation = row.generation /\ row'.revoked
    BY <1>0, <2>1 DEF Rows
  <2>3. call[c].owner = c /\ (sup[c].boot = "release" \/ sup[c].cleaner = "release")
    BY <1>0 DEF SupInv, AttemptsFit, AttemptFits, CallFits
  <2>4. row.owner = c
    BY <1>0, <2>3 DEF SupInv, IInv, LockedFacts, Presents
  <2>5. /\ call'[c].stage = "done" /\ call'[c].status \in {"released", "error"}
        /\ \A a \in Attempts \ {c} : call'[a] = call[a]
    BY <1>0, <2>1 DEF CommitAnswer, AnswerWith, Answer, Calls, Attempts
  <2> SUFFICES ASSUME NEW a \in Attempts PROVE AttemptFits(a, sup[a], call'[a], row', now)
    BY <1>0 DEF AttemptsFit
  <2>6. AttemptFits(a, sup[a], call[a], row, now) /\ sup[a] \in Supervisor
    BY DEF SupInv, AttemptsFit, SupTypeOK
  <2>7. Gone(a, row', now)
    BY <2>2 DEF Gone, Active
  <2>8. CASE a = c
    <3>1. /\ ~(sup[a].boot = "bind" \/ (sup[a].booted = "ok" /\ sup[a].main \in {"boot", "install"}))
          /\ sup[a].driver # "run"
      BY <2>3, <2>6, <2>8 DEF AttemptFits, ThreadsFit
    <3> QED BY <2>5, <2>6, <2>7, <2>8, <3>1 DEF AttemptFits, CallFits, LeaseFits
  <2>9. CASE a # c
    <3>1. ASSUME NEW g, NEW until, Backed(a, g, until, row, now)
          PROVE  Backed(a, g, until, row', now)
      BY <2>4, <2>9, <3>1 DEF Backed
    <3> QED BY <2>5, <2>6, <2>7, <2>9, <3>1 DEF AttemptFits, LeaseFits
  <2> QED BY <2>8, <2>9
<1> QED BY <1>1, <1>2

LEMMA DatabaseMoves ==
    ASSUME SupInv, NEW c \in Attempts, Database(c) \/ Abort(c), UNCHANGED sup
    PROVE  AttemptsFit'
<1>0. c \in Callers /\ call \in [Callers -> Calls] /\ call[c] \in Calls
  BY DEF SupInv, IInv, TypeOK, Attempts
<1>1. CASE ClaimFindsNoRow(c)
  BY <1>1, StageMoves DEF ClaimFindsNoRow
<1>2. CASE InsertFirst(c)
  BY <1>2, StageMoves DEF InsertFirst, Enter, LockedStages
<1>3. CASE ActivateFirst(c) \/ TakeOver(c)
  BY <1>3, GrantMoves
<1>4. ASSUME NEW status \in {"granted", "observed"}, AnswerWith(c, status, row),
             UNCHANGED <<row, now>>
      PROVE  AttemptsFit'
  <2> DEFINE k == [call[c] EXCEPT !.stage = "done", !.status = status, !.owner = row.owner,
                      !.generation = row.generation, !.until = row.leased_until, !.observed = now]
  <2>1. k.stage = "done" /\ k.status = status
    BY <1>0 DEF Calls
  <2>2. call' = [call EXCEPT ![c] = k]
    BY <1>0, <1>4 DEF AnswerWith
  <2> HIDE DEF k
  <2> QED BY <1>4, <2>1, <2>2, CallMoves DEF CallFits
<1>5. ASSUME NEW status \in Statuses \ {"renewed", "released", "already_released"},
             Answer(c, status), UNCHANGED <<row, now>>
      PROVE  AttemptsFit'
  BY <1>5, AnswerMoves
<1>6. CASE ClaimAgain(c) \/ Read(c)
  BY <1>4, <1>5, <1>6 DEF ClaimAgain, Read, CommitAnswer, Statuses
<1>7. CASE ClaimUnavailable(c) \/ TakeOverOverflows(c) \/ TokenFindsNoRow(c) \/ Abort(c)
  BY <1>5, <1>7 DEF ClaimUnavailable, TakeOverOverflows, TokenFindsNoRow, Abort, Statuses
<1>8. CASE ClaimInactive(c)
  BY <1>8, StageMoves DEF ClaimInactive, ClaimReads, Enter, LockedStages
<1>9. CASE RenewReads(c) \/ GuardReads(c) \/ ReleaseReads(c)
  <2>1. call[c].stage = "sent" /\ UNCHANGED <<row, now>>
    BY <1>9 DEF RenewReads, GuardReads, ReleaseReads
  <2>2. ASSUME NEW g \in {"renew", "guarded", "release"}, Enter(c, g) PROVE AttemptsFit'
    BY <2>1, <2>2, StageMoves DEF Enter, LockedStages
  <2>3. ASSUME Answer(c, "already_released"), Presents(c), row.revoked PROVE AttemptsFit'
    BY <2>1, <2>3, AnswerMoves DEF Gone, Active, Statuses
  <2> QED BY <1>5, <1>9, <2>1, <2>2, <2>3 DEF RenewReads, GuardReads, ReleaseReads, Statuses
<1>10. CASE RenewUpdates(c)
  BY <1>10, RenewMoves
<1>11. CASE ReleaseUpdates(c)
  BY <1>11, ReleaseMoves
<1>12. CASE GuardCommits(c, "committed") \/ GuardCommits(c, "conflict")
  BY <1>5, <1>12 DEF GuardCommits, Statuses, CommitStatuses
<1> QED BY <1>1, <1>2, <1>3, <1>6, <1>7, <1>8, <1>9, <1>10, <1>11, <1>12 DEF Database, Claim

LEMMA TickMoves == ASSUME SupInv, Tick, UNCHANGED sup PROVE AttemptsFit'
<1>1. now \in Nat /\ now' = now + 1 /\ UNCHANGED <<row, call>> /\ row.leased_until \in Nat
  BY StoreTypes DEF SupInv, Tick
<1> SUFFICES ASSUME NEW a \in Attempts PROVE AttemptFits(a, sup[a], call[a], row, now')
  BY <1>1 DEF AttemptsFit
<1>2. AttemptFits(a, sup[a], call[a], row, now) /\ sup[a] \in Supervisor /\ call[a].until \in Nat
  BY StoreTypes DEF SupInv, AttemptsFit, SupTypeOK
<1>3. ASSUME NEW g, NEW until \in Nat, Backed(a, g, until, row, now)
      PROVE  Backed(a, g, until, row, now')
  BY <1>1, <1>3 DEF Backed
<1>4. Gone(a, row, now) => Gone(a, row, now')
  BY <1>1 DEF Gone, Active
<1>5. /\ sup[a].started \in Nat /\ sup[a].started + sup[a].span \in Nat /\ sup[a].deadline \in Nat
  BY <1>2 DEF Supervisor
<1> QED BY <1>1, <1>2, <1>3, <1>4, <1>5 DEF AttemptFits, LeaseFits

-----------------------------------------------------------------------------
(* Steps of an attempt's threads: the row and the clock stay. *)

LEMMA AttemptMoves ==
    ASSUME SupInv, NEW a \in Attempts, NEW s \in Supervisor, NEW k,
           sup' = [sup EXCEPT ![a] = s], call' = [call EXCEPT ![a] = k], UNCHANGED <<row, now>>,
           AttemptFits(a, s, k, row, now)
    PROVE  AttemptsFit' /\ sup' \in [Attempts -> Supervisor]
<1>1. /\ sup'[a] = s /\ call'[a] = k
      /\ \A b \in Attempts \ {a} : sup'[b] = sup[b] /\ call'[b] = call[b]
  BY DEF SupInv, SupTypeOK, IInv, TypeOK, Attempts
<1> QED BY <1>1 DEF SupInv, SupTypeOK, AttemptsFit

\* A new request of an attempt.
LEMMA InvokeMoves ==
    ASSUME SupInv, NEW a \in Attempts, NEW op, NEW g, Invoke(a, op, <<a, g>>)
    PROVE  /\ call' = [call EXCEPT ![a] = Request(op, <<a, g>>)] /\ UNCHANGED <<row, now>>
           /\ Request(op, <<a, g>>).stage = "sent" /\ Request(op, <<a, g>>).op = op
           /\ Request(op, <<a, g>>).owner = a /\ Request(op, <<a, g>>).generation = g
BY DEF Invoke, Request, Idle

LEMMA FinishMoves ==
    ASSUME NEW a \in Attempts, Finish(a)
    PROVE  /\ call' = [call EXCEPT ![a] = Idle] /\ UNCHANGED <<row, now>> /\ Idle.stage = "idle"
           /\ call[a].stage = "done"
BY DEF Finish, Return, Idle

LEMMA FitsNow ==
    ASSUME SupInv, NEW a \in Attempts
    PROVE  /\ sup[a] \in Supervisor /\ ThreadsFit(sup[a]) /\ CallFits(a, sup[a], call[a])
           /\ LeaseFits(a, sup[a], call[a], row, now)
           /\ now \in Nat /\ call[a].until \in Nat /\ call[a].observed \in Nat
           /\ call[a].generation \in 0 .. MaxGeneration
           /\ sup[a].started \in Nat /\ sup[a].span \in Nat /\ sup[a].deadline \in Nat
           /\ sup \in [Attempts -> Supervisor] /\ call \in [Attempts -> Calls]
<1>1. /\ sup[a] \in Supervisor /\ ThreadsFit(sup[a]) /\ CallFits(a, sup[a], call[a])
      /\ LeaseFits(a, sup[a], call[a], row, now)
      /\ sup \in [Attempts -> Supervisor] /\ call \in [Attempts -> Calls]
  BY DEF SupInv, SupTypeOK, AttemptsFit, AttemptFits, IInv, TypeOK, Attempts
<1>2. sup[a].started \in Nat /\ sup[a].span \in Nat /\ sup[a].deadline \in Nat
  BY <1>1 DEF Supervisor
<1> QED BY <1>1, <1>2, StoreTypes DEF SupInv

LEMMA MainIsState ==
    ASSUME NEW x \in Supervisor, NEW m \in {"failing", "leaving", "ended"}
    PROVE  [x EXCEPT !.main = m] \in Supervisor
BY DEF Supervisor

LEMMA OutcomeIsState ==
    ASSUME NEW x \in Supervisor PROVE [x EXCEPT !.outcome = "error"] \in Supervisor
BY DEF Supervisor

\* The record operators of the supervisor yield supervisor states.
LEMMA UpdatesAreStates ==
    ASSUME NEW x \in Supervisor
    PROVE  /\ Fail(x) \in Supervisor /\ ToCleanup(x) \in Supervisor /\ Raise(x) \in Supervisor
           /\ [x EXCEPT !.main = "leaving", !.outcome = "error"] \in Supervisor
<1>1. Fail(x) \in Supervisor /\ ToCleanup(x) \in Supervisor
  BY DEF Fail, ToCleanup, Supervisor
<1>2. Raise(x) \in Supervisor
  <2> DEFINE b == IF x.abandoned THEN x.booted ELSE "error"
  <2>1. b \in {"none", "ok", "error"}
    BY DEF Supervisor
  <2> HIDE DEF b
  <2>2. [x EXCEPT !.booted = b] \in Supervisor
    BY <2>1 DEF Supervisor
  <2> QED BY <2>2 DEF Raise, b
<1>3. [x EXCEPT !.main = "leaving", !.outcome = "error"] \in Supervisor
  BY MainIsState, OutcomeIsState
<1> QED BY <1>1, <1>2, <1>3

LEMMA QuietMoves ==
    ASSUME SupInv, NEW a \in Attempts, NEW s \in Supervisor, Update(a, s), UNCHANGED storeVars,
           ThreadsFit(s), CallFits(a, s, call[a]), LeaseFits(a, s, call[a], row, now)
    PROVE  AttemptsFit' /\ sup' \in [Attempts -> Supervisor]
<1>1. call' = [call EXCEPT ![a] = call[a]] /\ UNCHANGED <<row, now>>
  BY FitsNow DEF storeVars
<1> QED BY <1>1, AttemptMoves DEF Update, AttemptFits

LEMMA StartFits ==
    ASSUME SupInv, NEW a \in Attempts, Start(a)
    PROVE  AttemptsFit' /\ sup' \in [Attempts -> Supervisor]
<1> DEFINE s == [sup[a] EXCEPT !.main = "boot", !.boot = "claim"]
           k == Request("claim", <<a, 0>>)
<1>1. /\ sup[a].main = "new" /\ sup[a] \in Supervisor
      /\ ThreadsFit(sup[a]) /\ LeaseFits(a, sup[a], call[a], row, now)
  BY FitsNow DEF Start
<1>2. /\ call' = [call EXCEPT ![a] = k] /\ UNCHANGED <<row, now>>
      /\ k.stage = "sent" /\ k.op = "claim" /\ k.owner = a
  BY InvokeMoves DEF Start
<1> HIDE DEF k
<1>3. s \in Supervisor
  BY <1>1 DEF Supervisor
<1>4. AttemptFits(a, s, k, row, now)
  BY <1>1, <1>2 DEF Supervisor, AttemptFits, ThreadsFit, CallFits, LeaseFits
<1> QED BY <1>2, <1>3, <1>4, AttemptMoves DEF Start, Update

LEMMA BootstrapWaitsFits ==
    ASSUME SupInv, NEW a \in Attempts, BootstrapWaits(a)
    PROVE  AttemptsFit' /\ sup' \in [Attempts -> Supervisor]
<1>0. /\ sup[a] \in Supervisor /\ ThreadsFit(sup[a]) /\ CallFits(a, sup[a], call[a])
      /\ LeaseFits(a, sup[a], call[a], row, now)
      /\ sup[a].main = "boot" /\ UNCHANGED storeVars
  BY FitsNow DEF BootstrapWaits
<1>1. CASE sup[a].booted = "ok" /\ Update(a, [sup[a] EXCEPT !.main = "install", !.leased = TRUE])
  <2> DEFINE s == [sup[a] EXCEPT !.main = "install", !.leased = TRUE]
  <2>1. s \in Supervisor
    BY <1>0 DEF Supervisor
  <2>2. ThreadsFit(s) /\ CallFits(a, s, call[a]) /\ LeaseFits(a, s, call[a], row, now)
    BY <1>0, <1>1 DEF Supervisor, ThreadsFit, CallFits, LeaseFits
  <2> QED BY <1>0, <1>1, <2>1, <2>2, QuietMoves
<1>2. CASE sup[a].booted = "error" /\ Update(a, ToCleanup(sup[a]))
  <2> DEFINE s == ToCleanup(sup[a])
  <2>1. s \in Supervisor
    BY <1>0 DEF Supervisor, ToCleanup
  <2>2. ThreadsFit(s) /\ CallFits(a, s, call[a]) /\ LeaseFits(a, s, call[a], row, now)
    BY <1>0, <1>2 DEF Supervisor, ThreadsFit, CallFits, LeaseFits, ToCleanup
  <2> QED BY <1>0, <1>2, <2>1, <2>2, QuietMoves
<1>3. CASE sup[a].booted = "none" /\ Update(a, ToCleanup(Fail([sup[a] EXCEPT !.abandoned = TRUE])))
  <2> DEFINE s == ToCleanup(Fail([sup[a] EXCEPT !.abandoned = TRUE]))
  <2>1. s \in Supervisor
    BY <1>0 DEF Supervisor, ToCleanup, Fail
  <2>2. ThreadsFit(s) /\ CallFits(a, s, call[a]) /\ LeaseFits(a, s, call[a], row, now)
    BY <1>0, <1>3 DEF Supervisor, ThreadsFit, CallFits, LeaseFits, ToCleanup, Fail
  <2> QED BY <1>0, <1>3, <2>1, <2>2, QuietMoves
<1> QED BY <1>1, <1>2, <1>3 DEF BootstrapWaits

\* What backs an expiry backs every earlier one.
LEMMA BackedEarlier ==
    ASSUME SupInv, NEW a, NEW g, NEW until \in Nat, NEW earlier \in Nat, earlier <= until,
           Backed(a, g, until, row, now)
    PROVE  Backed(a, g, earlier, row, now)
BY StoreTypes DEF SupInv, Backed

LEMMA ReclaimFits ==
    ASSUME SupInv, NEW a \in Attempts, Reclaim(a)
    PROVE  AttemptsFit' /\ sup' \in [Attempts -> Supervisor]
<1>0. /\ sup[a] \in Supervisor /\ ThreadsFit(sup[a]) /\ CallFits(a, sup[a], call[a])
      /\ LeaseFits(a, sup[a], call[a], row, now)
      /\ sup[a].boot = "claim"
  BY FitsNow DEF Reclaim
<1> DEFINE s == [sup[a] EXCEPT !.boot = "reclaim"]
           k == Request("claim", <<a, 0>>)
<1>1. /\ call' = [call EXCEPT ![a] = k] /\ UNCHANGED <<row, now>>
      /\ k.stage = "sent" /\ k.op = "claim" /\ k.owner = a /\ k.generation = 0
  BY InvokeMoves DEF Reclaim
<1> HIDE DEF k
<1>2. s \in Supervisor
  BY <1>0, FitsNow DEF Supervisor
<1>3. ThreadsFit(s) /\ CallFits(a, s, k)
  BY <1>0, <1>1 DEF Supervisor, ThreadsFit, CallFits
<1>4. LeaseFits(a, s, k, row, now)
  BY <1>0, <1>1, FitsNow DEF Supervisor, ThreadsFit, LeaseFits
<1> QED BY <1>1, <1>2, <1>3, <1>4, AttemptMoves DEF Reclaim, Update, AttemptFits

LEMMA LookUpClaimFits ==
    ASSUME SupInv, NEW a \in Attempts, LookUpClaim(a)
    PROVE  AttemptsFit' /\ sup' \in [Attempts -> Supervisor]
<1>0. /\ sup[a] \in Supervisor /\ ThreadsFit(sup[a]) /\ CallFits(a, sup[a], call[a])
      /\ LeaseFits(a, sup[a], call[a], row, now)
      /\ sup[a].boot = "reclaim"
  BY FitsNow DEF LookUpClaim
<1> DEFINE s == [sup[a] EXCEPT !.boot = "read"]
           k == Request("read", <<a, 0>>)
<1>1. /\ call' = [call EXCEPT ![a] = k] /\ UNCHANGED <<row, now>>
      /\ k.stage = "sent" /\ k.op = "read" /\ k.owner = a /\ k.generation = 0
  BY InvokeMoves DEF LookUpClaim
<1> HIDE DEF k
<1>2. s \in Supervisor
  BY <1>0, FitsNow DEF Supervisor
<1>3. ThreadsFit(s) /\ CallFits(a, s, k)
  BY <1>0, <1>1 DEF Supervisor, ThreadsFit, CallFits
<1>4. LeaseFits(a, s, k, row, now)
  BY <1>0, <1>1, FitsNow DEF Supervisor, ThreadsFit, LeaseFits
<1> QED BY <1>1, <1>2, <1>3, <1>4, AttemptMoves DEF LookUpClaim, Update, AttemptFits

LEMMA RenewAfterClaimFits ==
    ASSUME SupInv, NEW a \in Attempts, RenewAfterClaim(a)
    PROVE  AttemptsFit' /\ sup' \in [Attempts -> Supervisor]
<1>0. /\ sup[a] \in Supervisor /\ ThreadsFit(sup[a]) /\ CallFits(a, sup[a], call[a])
      /\ LeaseFits(a, sup[a], call[a], row, now)
      /\ sup[a].boot \in {"claim", "reclaim", "read"}
  BY FitsNow DEF RenewAfterClaim, Claimed, Got
<1> DEFINE s == [sup[a] EXCEPT !.boot = "renew", !.generation = call[a].generation, !.started = now]
           k == Request("renew", <<a, call[a].generation>>)
<1>1. /\ call' = [call EXCEPT ![a] = k] /\ UNCHANGED <<row, now>>
      /\ k.stage = "sent" /\ k.op = "renew" /\ k.owner = a /\ k.generation = call[a].generation
  BY InvokeMoves DEF RenewAfterClaim
<1> HIDE DEF k
<1>2. s \in Supervisor
  BY <1>0, FitsNow DEF Supervisor
<1>3. ThreadsFit(s) /\ CallFits(a, s, k)
  BY <1>0, <1>1 DEF Supervisor, ThreadsFit, CallFits
<1>4. LeaseFits(a, s, k, row, now)
  BY <1>0, <1>1, FitsNow DEF Supervisor, ThreadsFit, LeaseFits
<1> QED BY <1>1, <1>2, <1>3, <1>4, AttemptMoves DEF RenewAfterClaim, Update, AttemptFits

LEMMA ReleaseAfterClaimFits ==
    ASSUME SupInv, NEW a \in Attempts, ReleaseAfterClaim(a)
    PROVE  AttemptsFit' /\ sup' \in [Attempts -> Supervisor]
<1>0. /\ sup[a] \in Supervisor /\ ThreadsFit(sup[a]) /\ CallFits(a, sup[a], call[a])
      /\ LeaseFits(a, sup[a], call[a], row, now)
      /\ sup[a].boot \in {"claim", "reclaim", "read"}
  BY FitsNow DEF ReleaseAfterClaim, Claimed, Got
<1> DEFINE s == [sup[a] EXCEPT !.boot = "release", !.generation = call[a].generation]
           k == Request("release", <<a, call[a].generation>>)
<1>1. /\ call' = [call EXCEPT ![a] = k] /\ UNCHANGED <<row, now>>
      /\ k.stage = "sent" /\ k.op = "release" /\ k.owner = a /\ k.generation = call[a].generation
  BY InvokeMoves DEF ReleaseAfterClaim
<1> HIDE DEF k
<1>2. s \in Supervisor
  BY <1>0, FitsNow DEF Supervisor
<1>3. ThreadsFit(s) /\ CallFits(a, s, k)
  BY <1>0, <1>1 DEF Supervisor, ThreadsFit, CallFits
<1>4. LeaseFits(a, s, k, row, now)
  BY <1>0, <1>1, FitsNow DEF Supervisor, ThreadsFit, LeaseFits
<1> QED BY <1>1, <1>2, <1>3, <1>4, AttemptMoves DEF ReleaseAfterClaim, Update, AttemptFits

LEMMA BindFits ==
    ASSUME SupInv, NEW a \in Attempts, Bind(a)
    PROVE  AttemptsFit' /\ sup' \in [Attempts -> Supervisor]
<1>0. /\ sup[a] \in Supervisor /\ ThreadsFit(sup[a]) /\ CallFits(a, sup[a], call[a])
      /\ LeaseFits(a, sup[a], call[a], row, now)
      /\ sup[a].boot = "renew" /\ call[a].stage = "done" /\ call[a].status = "renewed"
  BY FitsNow DEF Bind, Got
<1> DEFINE s == [sup[a] EXCEPT !.boot = "bind", !.span = call[a].until - call[a].observed]
           k == Request("guard", <<a, sup[a].generation>>)
<1>1. /\ call' = [call EXCEPT ![a] = k] /\ UNCHANGED <<row, now>>
      /\ k.stage = "sent" /\ k.op = "guard" /\ k.owner = a /\ k.generation = sup[a].generation
  BY InvokeMoves DEF Bind, Token
<1> HIDE DEF k
<1>2. s \in Supervisor
  <2>1. call[a].until - call[a].observed \in Nat
    BY <1>0, FitsNow DEF LeaseFits
  <2> QED BY <1>0, <2>1 DEF Supervisor
<1>5. Backed(a, sup[a].generation, sup[a].started + (call[a].until - call[a].observed), row, now)
  BY <1>0, BackedEarlier, FitsNow DEF LeaseFits
<1>3. ThreadsFit(s) /\ CallFits(a, s, k)
  BY <1>0, <1>1 DEF Supervisor, ThreadsFit, CallFits
<1>4. LeaseFits(a, s, k, row, now)
  BY <1>0, <1>1, <1>5, FitsNow DEF Supervisor, ThreadsFit, LeaseFits
<1> QED BY <1>1, <1>2, <1>3, <1>4, AttemptMoves DEF Bind, Update, AttemptFits

LEMMA BootRenewFailsFits ==
    ASSUME SupInv, NEW a \in Attempts, BootRenewFails(a)
    PROVE  AttemptsFit' /\ sup' \in [Attempts -> Supervisor]
<1>0. /\ sup[a] \in Supervisor /\ ThreadsFit(sup[a]) /\ CallFits(a, sup[a], call[a])
      /\ LeaseFits(a, sup[a], call[a], row, now)
      /\ sup[a].boot = "renew"
  BY FitsNow DEF BootRenewFails
<1> DEFINE s == Raise([sup[a] EXCEPT !.boot = "release", !.revoked = TRUE])
           k == Request("release", <<a, sup[a].generation>>)
<1>1. /\ call' = [call EXCEPT ![a] = k] /\ UNCHANGED <<row, now>>
      /\ k.stage = "sent" /\ k.op = "release" /\ k.owner = a /\ k.generation = sup[a].generation
  BY InvokeMoves DEF BootRenewFails, Token
<1> HIDE DEF k
<1>2. s \in Supervisor
  <2>1. [sup[a] EXCEPT !.boot = "release", !.revoked = TRUE] \in Supervisor
    BY <1>0 DEF Supervisor
  <2> QED BY <2>1, UpdatesAreStates
<1>3. ThreadsFit(s) /\ CallFits(a, s, k)
  BY <1>0, <1>1 DEF Supervisor, ThreadsFit, CallFits, Raise
<1>4. LeaseFits(a, s, k, row, now)
  BY <1>0, <1>1, FitsNow DEF Supervisor, ThreadsFit, LeaseFits, Raise
<1> QED BY <1>1, <1>2, <1>3, <1>4, AttemptMoves DEF BootRenewFails, Update, AttemptFits

LEMMA BindFailsFits ==
    ASSUME SupInv, NEW a \in Attempts, BindFailsOrAbandoned(a)
    PROVE  AttemptsFit' /\ sup' \in [Attempts -> Supervisor]
<1>0. /\ sup[a] \in Supervisor /\ ThreadsFit(sup[a]) /\ CallFits(a, sup[a], call[a])
      /\ LeaseFits(a, sup[a], call[a], row, now)
      /\ sup[a].boot = "bind"
  BY FitsNow DEF BindFailsOrAbandoned
<1> DEFINE s == Raise([sup[a] EXCEPT !.boot = "release"])
           k == Request("release", <<a, sup[a].generation>>)
<1>1. /\ call' = [call EXCEPT ![a] = k] /\ UNCHANGED <<row, now>>
      /\ k.stage = "sent" /\ k.op = "release" /\ k.owner = a /\ k.generation = sup[a].generation
  BY InvokeMoves DEF BindFailsOrAbandoned, Token
<1> HIDE DEF k
<1>2. s \in Supervisor
  <2>1. [sup[a] EXCEPT !.boot = "release"] \in Supervisor
    BY <1>0 DEF Supervisor
  <2> QED BY <2>1, UpdatesAreStates
<1>3. ThreadsFit(s) /\ CallFits(a, s, k)
  BY <1>0, <1>1 DEF Supervisor, ThreadsFit, CallFits, Raise
<1>4. LeaseFits(a, s, k, row, now)
  BY <1>0, <1>1, FitsNow DEF Supervisor, ThreadsFit, LeaseFits, Raise
<1> QED BY <1>1, <1>2, <1>3, <1>4, AttemptMoves DEF BindFailsOrAbandoned, Update, AttemptFits

LEMMA ClaimFailsFits ==
    ASSUME SupInv, NEW a \in Attempts, ClaimFails(a)
    PROVE  AttemptsFit' /\ sup' \in [Attempts -> Supervisor]
<1>0. /\ sup[a] \in Supervisor /\ ThreadsFit(sup[a]) /\ CallFits(a, sup[a], call[a])
      /\ LeaseFits(a, sup[a], call[a], row, now)
      /\ sup[a].boot \in {"claim", "reclaim", "read"}
  BY FitsNow DEF ClaimFails, NotClaimed, Got
<1> DEFINE s == Raise([sup[a] EXCEPT !.boot = "over"])
<1>1. call' = [call EXCEPT ![a] = Idle] /\ UNCHANGED <<row, now>> /\ Idle.stage = "idle"
  BY FinishMoves DEF ClaimFails
<1>2. s \in Supervisor
  <2>1. [sup[a] EXCEPT !.boot = "over"] \in Supervisor
    BY <1>0 DEF Supervisor
  <2> QED BY <2>1, UpdatesAreStates
<1>3. ThreadsFit(s) /\ CallFits(a, s, Idle)
  BY <1>0, <1>1 DEF Supervisor, ThreadsFit, CallFits, Raise
<1>4. LeaseFits(a, s, Idle, row, now)
  BY <1>0, <1>1 DEF Supervisor, ThreadsFit, LeaseFits, Raise
<1> QED BY <1>1, <1>2, <1>3, <1>4, AttemptMoves DEF ClaimFails, Update, AttemptFits

LEMMA PublishBootstrapFits ==
    ASSUME SupInv, NEW a \in Attempts, PublishBootstrap(a)
    PROVE  AttemptsFit' /\ sup' \in [Attempts -> Supervisor]
<1>0. /\ sup[a] \in Supervisor /\ ThreadsFit(sup[a]) /\ CallFits(a, sup[a], call[a])
      /\ LeaseFits(a, sup[a], call[a], row, now)
      /\ sup[a].boot = "bind"
  BY FitsNow DEF PublishBootstrap
<1> DEFINE s == [sup[a] EXCEPT !.boot = "over", !.booted = "ok"]
<1>1. call' = [call EXCEPT ![a] = Idle] /\ UNCHANGED <<row, now>> /\ Idle.stage = "idle"
  BY FinishMoves DEF PublishBootstrap
<1>2. s \in Supervisor
  BY <1>0, FitsNow DEF Supervisor
<1>3. ThreadsFit(s) /\ CallFits(a, s, Idle)
  BY <1>0, <1>1 DEF Supervisor, ThreadsFit, CallFits
<1>4. LeaseFits(a, s, Idle, row, now)
  BY <1>0, <1>1 DEF Supervisor, ThreadsFit, LeaseFits
<1> QED BY <1>1, <1>2, <1>3, <1>4, AttemptMoves DEF PublishBootstrap, Update, AttemptFits

LEMMA BootReleasedFits ==
    ASSUME SupInv, NEW a \in Attempts, BootReleased(a)
    PROVE  AttemptsFit' /\ sup' \in [Attempts -> Supervisor]
<1>0. /\ sup[a] \in Supervisor /\ ThreadsFit(sup[a]) /\ CallFits(a, sup[a], call[a])
      /\ LeaseFits(a, sup[a], call[a], row, now)
      /\ sup[a].boot = "release"
  BY FitsNow DEF BootReleased
<1> DEFINE s == [sup[a] EXCEPT !.boot = "over"]
<1>1. call' = [call EXCEPT ![a] = Idle] /\ UNCHANGED <<row, now>> /\ Idle.stage = "idle"
  BY FinishMoves DEF BootReleased
<1>2. s \in Supervisor
  BY <1>0, FitsNow DEF Supervisor
<1>3. ThreadsFit(s) /\ CallFits(a, s, Idle)
  BY <1>0, <1>1 DEF Supervisor, ThreadsFit, CallFits
<1>4. LeaseFits(a, s, Idle, row, now)
  BY <1>0, <1>1 DEF Supervisor, ThreadsFit, LeaseFits
<1> QED BY <1>1, <1>2, <1>3, <1>4, AttemptMoves DEF BootReleased, Update, AttemptFits

LEMMA CleanupReleasedFits ==
    ASSUME SupInv, NEW a \in Attempts, CleanupReleased(a)
    PROVE  AttemptsFit' /\ sup' \in [Attempts -> Supervisor]
<1>0. /\ sup[a] \in Supervisor /\ ThreadsFit(sup[a]) /\ CallFits(a, sup[a], call[a])
      /\ LeaseFits(a, sup[a], call[a], row, now)
      /\ sup[a].cleaner = "release" /\ call[a].stage = "done"
  BY FitsNow DEF CleanupReleased
<1> DEFINE s == [sup[a] EXCEPT !.cleaner = "over",
                                !.ok = @ /\ Got(a, {"released", "already_released"})]
<1>1. call' = [call EXCEPT ![a] = Idle] /\ UNCHANGED <<row, now>> /\ Idle.stage = "idle"
  BY FinishMoves DEF CleanupReleased
<1>2. s \in Supervisor
  <2> DEFINE ok == sup[a].ok /\ Got(a, {"released", "already_released"})
  <2>1. ok \in BOOLEAN
    OBVIOUS
  <2> HIDE DEF ok
  <2>2. [sup[a] EXCEPT !.cleaner = "over", !.ok = ok] \in Supervisor
    BY <1>0, <2>1 DEF Supervisor
  <2> QED BY <2>2 DEF ok
<1>3. ThreadsFit(s) /\ CallFits(a, s, Idle)
  BY <1>0, <1>1 DEF Supervisor, ThreadsFit, CallFits, Got
<1>4. LeaseFits(a, s, Idle, row, now)
  BY <1>0, <1>1 DEF Supervisor, ThreadsFit, LeaseFits, Got
<1> QED BY <1>1, <1>2, <1>3, <1>4, AttemptMoves DEF CleanupReleased, Update, AttemptFits

LEMMA InstallLeaseFits ==
    ASSUME SupInv, NEW a \in Attempts, InstallLease(a)
    PROVE  AttemptsFit' /\ sup' \in [Attempts -> Supervisor]
<1>0. /\ sup[a] \in Supervisor /\ ThreadsFit(sup[a]) /\ CallFits(a, sup[a], call[a])
      /\ LeaseFits(a, sup[a], call[a], row, now)
      /\ sup[a].main = "install" /\ UNCHANGED storeVars
  BY FitsNow DEF InstallLease
<1>1. CASE /\ (sup[a].failed \/ sup[a].revoked)
           /\ Update(a, ToCleanup(sup[a]))
  <2> DEFINE s == ToCleanup(sup[a])
  <2>1. s \in Supervisor
    BY <1>0, FitsNow DEF Supervisor, ToCleanup
  <2>2. ThreadsFit(s) /\ CallFits(a, s, call[a]) /\ LeaseFits(a, s, call[a], row, now)
    BY <1>0, <1>1, FitsNow DEF Supervisor, ThreadsFit, CallFits, LeaseFits, ToCleanup
  <2> QED BY <1>0, <1>1, <2>1, <2>2, QuietMoves
<1>2. CASE /\ ~sup[a].failed
           /\ Update(a, ToCleanup(Fail(sup[a])))
  <2> DEFINE s == ToCleanup(Fail(sup[a]))
  <2>1. s \in Supervisor
    BY <1>0, FitsNow DEF Supervisor, ToCleanup, Fail
  <2>2. ThreadsFit(s) /\ CallFits(a, s, call[a]) /\ LeaseFits(a, s, call[a], row, now)
    BY <1>0, <1>2, FitsNow DEF Supervisor, ThreadsFit, CallFits, LeaseFits, ToCleanup, Fail
  <2> QED BY <1>0, <1>2, <2>1, <2>2, QuietMoves
<1>3. CASE /\ now < InstalledDeadline(sup[a])
           /\ Update(a, [sup[a] EXCEPT !.main = "drive", !.driver = "run",
                        !.renewal = "sleep", !.deadline = InstalledDeadline(sup[a]),
                        !.started = 0, !.span = 0])
  <2> DEFINE s == [sup[a] EXCEPT !.main = "drive", !.driver = "run",
                        !.renewal = "sleep", !.deadline = InstalledDeadline(sup[a]),
                        !.started = 0, !.span = 0]
  <2>1. s \in Supervisor
    <3>1. InstalledDeadline(sup[a]) \in Nat
      BY FitsNow DEF InstalledDeadline
    <3> QED BY <1>0, <3>1 DEF Supervisor
  <2>2. ThreadsFit(s) /\ CallFits(a, s, call[a]) /\ LeaseFits(a, s, call[a], row, now)
    BY <1>0, <1>3, FitsNow DEF Supervisor, ThreadsFit, CallFits, LeaseFits, InstalledDeadline
  <2> QED BY <1>0, <1>3, <2>1, <2>2, QuietMoves
<1> QED BY <1>1, <1>2, <1>3 DEF InstallLease

LEMMA DriveWaitsFits ==
    ASSUME SupInv, NEW a \in Attempts, DriveWaits(a)
    PROVE  AttemptsFit' /\ sup' \in [Attempts -> Supervisor]
<1>0. /\ sup[a] \in Supervisor /\ ThreadsFit(sup[a]) /\ CallFits(a, sup[a], call[a])
      /\ LeaseFits(a, sup[a], call[a], row, now)
      /\ sup[a].main = "drive" /\ UNCHANGED storeVars
  BY FitsNow DEF DriveWaits
<1>1. CASE /\ sup[a].driver = "over"
           /\ Update(a, ToCleanup([sup[a] EXCEPT !.ok = @ /\ ~sup[a].failed /\ ~sup[a].revoked]))
  <2> DEFINE s == ToCleanup([sup[a] EXCEPT !.ok = @ /\ ~sup[a].failed /\ ~sup[a].revoked])
  <2>1. s \in Supervisor
    <3> DEFINE ok == sup[a].ok /\ ~sup[a].failed /\ ~sup[a].revoked
    <3>1. ok \in BOOLEAN
      OBVIOUS
    <3> HIDE DEF ok
    <3>2. [sup[a] EXCEPT !.ok = ok] \in Supervisor
      BY <1>0, <3>1 DEF Supervisor
    <3> QED BY <3>2, UpdatesAreStates DEF ok
  <2>2. ThreadsFit(s) /\ CallFits(a, s, call[a]) /\ LeaseFits(a, s, call[a], row, now)
    BY <1>0, <1>1, FitsNow DEF Supervisor, ThreadsFit, CallFits, LeaseFits, ToCleanup
  <2> QED BY <1>0, <1>1, <2>1, <2>2, QuietMoves
<1>2. CASE /\ sup[a].driver = "run"
           /\ Update(a, [Fail(sup[a]) EXCEPT !.main = "failing"])
  <2> DEFINE s == [Fail(sup[a]) EXCEPT !.main = "failing"]
  <2>1. s \in Supervisor
    BY <1>0, UpdatesAreStates, MainIsState
  <2>2. ThreadsFit(s) /\ CallFits(a, s, call[a]) /\ LeaseFits(a, s, call[a], row, now)
    BY <1>0, <1>2, FitsNow DEF Supervisor, ThreadsFit, CallFits, LeaseFits, Fail
  <2> QED BY <1>0, <1>2, <2>1, <2>2, QuietMoves
<1> QED BY <1>1, <1>2 DEF DriveWaits

\* revoke has got the lock: the attempt goes on to clean up, or returns.
LEMMA RevokeReturnsFits ==
    ASSUME SupInv, NEW a \in Attempts, RevokeReturns(a)
    PROVE  AttemptsFit' /\ sup' \in [Attempts -> Supervisor]
<1>0. /\ sup[a] \in Supervisor /\ ThreadsFit(sup[a]) /\ CallFits(a, sup[a], call[a])
      /\ LeaseFits(a, sup[a], call[a], row, now) /\ UNCHANGED storeVars
  BY FitsNow DEF RevokeReturns
<1>1. CASE sup[a].main = "failing" /\ Update(a, ToCleanup(sup[a]))
  <2> DEFINE s == ToCleanup(sup[a])
  <2>1. s \in Supervisor
    BY <1>0, UpdatesAreStates
  <2>2. ThreadsFit(s) /\ CallFits(a, s, call[a]) /\ LeaseFits(a, s, call[a], row, now)
    BY <1>0, <1>1 DEF Supervisor, ThreadsFit, CallFits, LeaseFits, ToCleanup
  <2> QED BY <1>0, <1>1, <2>1, <2>2, QuietMoves
<1>2. CASE sup[a].main = "leaving" /\ Update(a, [sup[a] EXCEPT !.main = "ended"])
  <2> DEFINE s == [sup[a] EXCEPT !.main = "ended"]
  <2>1. s \in Supervisor
    BY <1>0, MainIsState
  <2>2. ThreadsFit(s) /\ CallFits(a, s, call[a]) /\ LeaseFits(a, s, call[a], row, now)
    BY <1>0, <1>2 DEF Supervisor, ThreadsFit, CallFits, LeaseFits
  <2> QED BY <1>0, <1>2, <2>1, <2>2, QuietMoves
<1> QED BY <1>1, <1>2 DEF RevokeReturns

LEMMA CleanupWaitsFits ==
    ASSUME SupInv, NEW a \in Attempts, CleanupWaits(a)
    PROVE  AttemptsFit' /\ sup' \in [Attempts -> Supervisor]
<1>0. /\ sup[a] \in Supervisor /\ ThreadsFit(sup[a]) /\ CallFits(a, sup[a], call[a])
      /\ LeaseFits(a, sup[a], call[a], row, now)
      /\ sup[a].main = "cleanup" /\ UNCHANGED storeVars
  BY FitsNow DEF CleanupWaits
<1>1. CASE /\ sup[a].cleaner = "over"
           /\ Update(a, [sup[a] EXCEPT !.main = "ended", !.revoked = TRUE, !.deadline = 0,
                        !.outcome = IF sup[a].ok /\ ~sup[a].failed THEN "success" ELSE "error"])
  <2> DEFINE s == [sup[a] EXCEPT !.main = "ended", !.revoked = TRUE, !.deadline = 0,
                        !.outcome = IF sup[a].ok /\ ~sup[a].failed THEN "success" ELSE "error"]
  <2>1. s \in Supervisor
    <3> DEFINE o == IF sup[a].ok /\ ~sup[a].failed THEN "success" ELSE "error"
    <3>1. o \in {"success", "error"}
      OBVIOUS
    <3> HIDE DEF o
    <3>2. [sup[a] EXCEPT !.main = "ended", !.revoked = TRUE, !.deadline = 0, !.outcome = o]
              \in Supervisor
      BY <1>0, <3>1 DEF Supervisor
    <3> QED BY <3>2 DEF o
  <2>2. ThreadsFit(s) /\ CallFits(a, s, call[a]) /\ LeaseFits(a, s, call[a], row, now)
    BY <1>0, <1>1, FitsNow DEF Supervisor, ThreadsFit, CallFits, LeaseFits
  <2> QED BY <1>0, <1>1, <2>1, <2>2, QuietMoves
<1>2. CASE /\ sup[a].cleaner # "over"
           /\ Update(a, [Fail(sup[a]) EXCEPT !.main = "leaving", !.outcome = "error"])
  <2> DEFINE s == [Fail(sup[a]) EXCEPT !.main = "leaving", !.outcome = "error"]
  <2>1. s \in Supervisor
    <3>1. Fail(sup[a]) \in Supervisor
      BY <1>0, UpdatesAreStates
    <3> QED BY <3>1, UpdatesAreStates
  <2>2. ThreadsFit(s) /\ CallFits(a, s, call[a]) /\ LeaseFits(a, s, call[a], row, now)
    BY <1>0, <1>2, FitsNow DEF Supervisor, ThreadsFit, CallFits, LeaseFits, Fail
  <2> QED BY <1>0, <1>2, <2>1, <2>2, QuietMoves
<1> QED BY <1>1, <1>2 DEF CleanupWaits

LEMMA ControlFailsFits ==
    ASSUME SupInv, NEW a \in Attempts, ControlFails(a)
    PROVE  AttemptsFit' /\ sup' \in [Attempts -> Supervisor]
<1>0. /\ sup[a] \in Supervisor /\ ThreadsFit(sup[a]) /\ CallFits(a, sup[a], call[a])
      /\ LeaseFits(a, sup[a], call[a], row, now)
      /\ sup[a].main # "new" /\ UNCHANGED storeVars /\ Update(a, Fail(sup[a]))
  BY FitsNow DEF ControlFails, ControlRuns
<1> DEFINE s == Fail(sup[a])
<1>1. s \in Supervisor
  BY <1>0, UpdatesAreStates
<1>2. ThreadsFit(s) /\ CallFits(a, s, call[a]) /\ LeaseFits(a, s, call[a], row, now)
  BY <1>0 DEF Supervisor, ThreadsFit, CallFits, LeaseFits, Fail
<1> QED BY <1>0, <1>1, <1>2, QuietMoves

LEMMA DriverEndsFits ==
    ASSUME SupInv, NEW a \in Attempts, DriverEnds(a)
    PROVE  AttemptsFit' /\ sup' \in [Attempts -> Supervisor]
<1>1. PICK ok \in BOOLEAN : Update(a, [sup[a] EXCEPT !.driver = "over", !.ok = ok])
  BY DEF DriverEnds
<1>2. /\ sup[a] \in Supervisor /\ ThreadsFit(sup[a]) /\ CallFits(a, sup[a], call[a])
      /\ LeaseFits(a, sup[a], call[a], row, now)
      /\ sup[a].driver = "run" /\ UNCHANGED storeVars
  BY FitsNow DEF DriverEnds
<1> DEFINE s == [sup[a] EXCEPT !.driver = "over", !.ok = ok]
<1>3. s \in Supervisor
  BY <1>2 DEF Supervisor
<1>4. ThreadsFit(s) /\ CallFits(a, s, call[a]) /\ LeaseFits(a, s, call[a], row, now)
  BY <1>2 DEF Supervisor, ThreadsFit, CallFits, LeaseFits
<1> QED BY <1>1, <1>2, <1>3, <1>4, QuietMoves

\* Whether the driver is inside the guard concerns no one else's state.
LEMMA GuardFits ==
    ASSUME SupInv, NEW a \in Attempts, EnterGuard(a) \/ LeaveGuard(a)
    PROVE  AttemptsFit' /\ sup' \in [Attempts -> Supervisor]
<1>1. PICK inside \in BOOLEAN : Update(a, [sup[a] EXCEPT !.guarding = inside])
  BY DEF EnterGuard, LeaveGuard
<1>2. /\ sup[a] \in Supervisor /\ ThreadsFit(sup[a]) /\ CallFits(a, sup[a], call[a])
      /\ LeaseFits(a, sup[a], call[a], row, now) /\ UNCHANGED storeVars
  BY FitsNow DEF EnterGuard, LeaveGuard
<1> DEFINE s == [sup[a] EXCEPT !.guarding = inside]
<1>3. s \in Supervisor
  BY <1>2 DEF Supervisor
<1>4. ThreadsFit(s) /\ CallFits(a, s, call[a]) /\ LeaseFits(a, s, call[a], row, now)
  BY <1>2 DEF Supervisor, ThreadsFit, CallFits, LeaseFits
<1> QED BY <1>1, <1>2, <1>3, <1>4, QuietMoves

LEMMA CleanupReleasesFits ==
    ASSUME SupInv, NEW a \in Attempts, CleanupReleases(a)
    PROVE  AttemptsFit' /\ sup' \in [Attempts -> Supervisor]
<1>0. /\ sup[a] \in Supervisor /\ ThreadsFit(sup[a]) /\ CallFits(a, sup[a], call[a])
      /\ LeaseFits(a, sup[a], call[a], row, now)
      /\ sup[a].cleaner = "join" /\ sup[a].driver # "run"
  BY FitsNow DEF CleanupReleases
<1>1. CASE /\ sup[a].leased /\ Invoke(a, "release", Token(a))
           /\ Update(a, [sup[a] EXCEPT !.cleaner = "release"])
  <2> DEFINE s == [sup[a] EXCEPT !.cleaner = "release"]
             k == Request("release", <<a, sup[a].generation>>)
  <2>1. /\ call' = [call EXCEPT ![a] = k] /\ UNCHANGED <<row, now>>
        /\ k.stage = "sent" /\ k.op = "release" /\ k.owner = a
    BY <1>1, InvokeMoves DEF Token
  <2> HIDE DEF k
  <2>2. s \in Supervisor
    BY <1>0 DEF Supervisor
  <2>3. AttemptFits(a, s, k, row, now)
    BY <1>0, <1>1, <2>1 DEF Supervisor, AttemptFits, ThreadsFit, CallFits, LeaseFits
  <2> QED BY <1>1, <2>1, <2>2, <2>3, AttemptMoves DEF Update
<1>2. CASE /\ ~sup[a].leased /\ UNCHANGED storeVars
           /\ Update(a, [sup[a] EXCEPT !.cleaner = "over"])
  <2> DEFINE s == [sup[a] EXCEPT !.cleaner = "over"]
  <2>1. s \in Supervisor
    BY <1>0 DEF Supervisor
  <2>2. ThreadsFit(s) /\ CallFits(a, s, call[a]) /\ LeaseFits(a, s, call[a], row, now)
    BY <1>0, <1>2 DEF Supervisor, ThreadsFit, CallFits, LeaseFits
  <2> QED BY <1>2, <2>1, <2>2, QuietMoves
<1> QED BY <1>1, <1>2 DEF CleanupReleases

LEMMA RenewalWakesFits ==
    ASSUME SupInv, NEW a \in Attempts, RenewalWakes(a)
    PROVE  AttemptsFit' /\ sup' \in [Attempts -> Supervisor]
<1>0. /\ sup[a] \in Supervisor /\ ThreadsFit(sup[a]) /\ CallFits(a, sup[a], call[a])
      /\ LeaseFits(a, sup[a], call[a], row, now)
      /\ sup[a].renewal = "sleep" /\ now \in Nat
  BY FitsNow DEF RenewalWakes
<1>1. CASE UNCHANGED storeVars /\ Update(a, [sup[a] EXCEPT !.renewal = "over"])
  <2> DEFINE s == [sup[a] EXCEPT !.renewal = "over"]
  <2>1. s \in Supervisor
    BY <1>0 DEF Supervisor
  <2>2. ThreadsFit(s) /\ CallFits(a, s, call[a]) /\ LeaseFits(a, s, call[a], row, now)
    BY <1>0 DEF Supervisor, ThreadsFit, CallFits, LeaseFits
  <2> QED BY <1>1, <2>1, <2>2, QuietMoves
<1>2. CASE UNCHANGED storeVars /\ Update(a, Fail([sup[a] EXCEPT !.renewal = "over"]))
  <2> DEFINE s == Fail([sup[a] EXCEPT !.renewal = "over"])
  <2>1. s \in Supervisor
    BY <1>0 DEF Supervisor, Fail
  <2>2. ThreadsFit(s) /\ CallFits(a, s, call[a]) /\ LeaseFits(a, s, call[a], row, now)
    BY <1>0 DEF Supervisor, ThreadsFit, CallFits, LeaseFits, Fail
  <2> QED BY <1>2, <2>1, <2>2, QuietMoves
<1>3. CASE /\ Invoke(a, "renew", Token(a))
           /\ Update(a, [sup[a] EXCEPT !.renewal = "calling", !.started = now])
  <2> DEFINE s == [sup[a] EXCEPT !.renewal = "calling", !.started = now]
             k == Request("renew", <<a, sup[a].generation>>)
  <2>1. /\ call' = [call EXCEPT ![a] = k] /\ UNCHANGED <<row, now>>
        /\ k.stage = "sent" /\ k.op = "renew" /\ k.owner = a /\ k.generation = sup[a].generation
    BY <1>3, InvokeMoves DEF Token
  <2> HIDE DEF k
  <2>2. s \in Supervisor
    BY <1>0 DEF Supervisor
  <2>3. AttemptFits(a, s, k, row, now)
    BY <1>0, <2>1 DEF Supervisor, AttemptFits, ThreadsFit, CallFits, LeaseFits
  <2> QED BY <1>3, <2>1, <2>2, <2>3, AttemptMoves DEF Update
<1> QED BY <1>1, <1>2, <1>3 DEF RenewalWakes

\* The new deadline counts from before the renewal was sent, so the row's expiry,
\* which counts from when it was served, backs it.
LEMMA RenewalAnsweredFits ==
    ASSUME SupInv, NEW a \in Attempts, RenewalAnswered(a)
    PROVE  AttemptsFit' /\ sup' \in [Attempts -> Supervisor]
<1>0. /\ sup[a] \in Supervisor /\ ThreadsFit(sup[a]) /\ CallFits(a, sup[a], call[a])
      /\ LeaseFits(a, sup[a], call[a], row, now)
      /\ now \in Nat /\ call[a].until \in Nat /\ call[a].observed \in Nat
      /\ sup[a].started \in Nat /\ call[a].stage = "done"
  BY FitsNow DEF RenewalAnswered
<1>1. call' = [call EXCEPT ![a] = Idle] /\ UNCHANGED <<row, now>> /\ Idle.stage = "idle"
  BY FinishMoves DEF RenewalAnswered
<1> DEFINE z == [sup[a] EXCEPT !.started = 0]
           deadline == sup[a].started + (call[a].until - call[a].observed)
<1>2. z \in Supervisor /\ z.renewal = "calling" /\ z.renewal = sup[a].renewal
  BY <1>0 DEF Supervisor, RenewalAnswered
<1>3. ~(sup[a].boot = "bind" \/ (sup[a].booted = "ok" /\ sup[a].main \in {"boot", "install"}))
  BY <1>0, <1>2 DEF ThreadsFit
<1>4. CASE Update(a, Fail([z EXCEPT !.renewal = "over"]))
  <2> DEFINE s == Fail([z EXCEPT !.renewal = "over"])
  <2>1. s \in Supervisor
    BY <1>0 DEF Supervisor, Fail
  <2>2. AttemptFits(a, s, Idle, row, now)
    BY <1>0, <1>1, <1>2, <1>3 DEF Supervisor, AttemptFits, ThreadsFit, CallFits, LeaseFits, Fail
  <2> QED BY <1>1, <1>4, <2>1, <2>2, AttemptMoves DEF Update
<1>5. CASE Update(a, [z EXCEPT !.renewal = "over"])
  <2> DEFINE s == [z EXCEPT !.renewal = "over"]
  <2>1. s \in Supervisor
    BY <1>0 DEF Supervisor
  <2>2. AttemptFits(a, s, Idle, row, now)
    BY <1>0, <1>1, <1>2, <1>3 DEF Supervisor, AttemptFits, ThreadsFit, CallFits, LeaseFits
  <2> QED BY <1>1, <1>5, <2>1, <2>2, AttemptMoves DEF Update
<1>6. CASE Got(a, {"renewed"}) /\ Update(a, [z EXCEPT !.renewal = "sleep", !.deadline = deadline])
  <2>1. /\ call[a].observed <= call[a].until /\ sup[a].started <= call[a].observed
        /\ Backed(a, sup[a].generation, call[a].until, row, now)
    BY <1>0, <1>6 DEF LeaseFits, Got
  <2>2. deadline \in Nat /\ deadline <= call[a].until
    BY <1>0, <2>1
  <2>3. Backed(a, sup[a].generation, deadline, row, now)
    BY <1>0, <2>1, <2>2, BackedEarlier
  <2> HIDE DEF deadline
  <2> DEFINE s == [z EXCEPT !.renewal = "sleep", !.deadline = deadline]
  <2>4. s \in Supervisor
    BY <1>0, <2>2 DEF Supervisor
  <2>5. AttemptFits(a, s, Idle, row, now)
    BY <1>0, <1>1, <1>2, <1>3, <2>3 DEF Supervisor, AttemptFits, ThreadsFit, CallFits, LeaseFits
  <2> QED BY <1>1, <1>6, <2>4, <2>5, AttemptMoves DEF Update
<1> QED BY <1>4, <1>5, <1>6 DEF RenewalAnswered

\* A crash forgets everything; the row runs out by itself.
LEMMA CrashFits ==
    ASSUME SupInv, NEW a \in Attempts, Crash(a)
    PROVE  AttemptsFit' /\ sup' \in [Attempts -> Supervisor]
<1> DEFINE s == [NewAttempt EXCEPT !.main = "crashed"]
<1>0. NewAttempt \in Supervisor
  BY DEF NewAttempt, Supervisor
<1>1. /\ s \in Supervisor /\ s.main = "crashed" /\ s.boot = "off" /\ s.driver = "off" /\ ~s.leased
      /\ s.booted = "none" /\ s.cleaner = "off" /\ s.renewal = "off" /\ ~s.ok
      /\ s.outcome = "none" /\ s.started = 0
  <2>1. s \in Supervisor
    BY <1>0 DEF Supervisor
  <2> QED BY <2>1 DEF NewAttempt
<1>2. now \in Nat /\ call \in [Attempts -> Calls] /\ call[a] \in Calls
  BY FitsNow
<1>3. PICK k : /\ call' = [call EXCEPT ![a] = k] /\ UNCHANGED <<row, now>>
               /\ k.stage = "idle" \/ (k.stage = "done" /\ k.status = "error")
  <2>1. CASE Abort(a)
    <3> DEFINE k == [call[a] EXCEPT !.stage = "done", !.status = "error"]
    <3>1. k.stage = "done" /\ k.status = "error"
      BY <1>2 DEF Calls
    <3>2. call' = [call EXCEPT ![a] = k] /\ UNCHANGED <<row, now>>
      BY <1>2, <2>1 DEF Abort, Answer
    <3> QED BY <3>1, <3>2
  <2>2. CASE Return(a)
    <3>1. call' = [call EXCEPT ![a] = Idle] /\ UNCHANGED <<row, now>> /\ Idle.stage = "idle"
      BY <2>2 DEF Return, Idle
    <3> QED BY <3>1
  <2>3. CASE call[a].stage = "idle" /\ UNCHANGED storeVars
    <3>1. call' = [call EXCEPT ![a] = call[a]] /\ UNCHANGED <<row, now>>
      BY <1>2, <2>3 DEF storeVars
    <3> QED BY <2>3, <3>1
  <2> QED BY <2>1, <2>2, <2>3 DEF Crash
<1>4. sup' = [sup EXCEPT ![a] = s]
  BY DEF Crash, Update
<1> HIDE DEF s
<1>5. AttemptFits(a, s, k, row, now)
  BY <1>1, <1>2, <1>3 DEF AttemptFits, ThreadsFit, CallFits, LeaseFits
<1> QED BY <1>1, <1>3, <1>4, <1>5, AttemptMoves

-----------------------------------------------------------------------------
LEMMA SupInitInv == SupInit => SupInv
<1> SUFFICES ASSUME SupInit PROVE SupInv
  OBVIOUS
<1>1. IInv
  BY InitIInv DEF SupInit
<1>2. \A a \in Attempts : sup[a] = NewAttempt /\ call[a] = Idle
  BY DEF SupInit, Init, Attempts
<1>3. NewAttempt \in Supervisor /\ Idle.stage = "idle"
  BY DEF NewAttempt, Supervisor, Idle
<1>4. SupTypeOK
  BY <1>1, <1>3 DEF SupInit, SupTypeOK, IInv
<1>5. ASSUME NEW a \in Attempts PROVE AttemptFits(a, NewAttempt, Idle, row, now)
  BY <1>3 DEF NewAttempt, SupInit, Init, AttemptFits, ThreadsFit, CallFits, LeaseFits
<1>6. AttemptsFit
  BY <1>2, <1>5 DEF AttemptsFit
<1> QED BY <1>1, <1>4, <1>6 DEF SupInv

LEMMA SupStepInv == SupInv /\ [SupNext]_supVars => SupInv'
<1> SUFFICES ASSUME SupInv, [SupNext]_supVars PROVE SupInv'
  OBVIOUS
<1> DEFINE Goal == AttemptsFit' /\ sup' \in [Attempts -> Supervisor]
<1>1. IInv'
  BY SupSimulates, NextIInv DEF SupInv
<1>2. CASE UNCHANGED supVars
  BY <1>1, <1>2 DEF supVars, storeVars, SupInv, SupTypeOK, AttemptsFit, IInv
<1>3. CASE Tick /\ UNCHANGED sup
  BY <1>1, <1>3, TickMoves DEF SupInv, SupTypeOK, IInv
<1>4. ASSUME NEW a \in Attempts, (Database(a) \/ Abort(a)) /\ UNCHANGED sup PROVE Goal
  BY <1>4, DatabaseMoves DEF SupInv, SupTypeOK
<1>5. ASSUME NEW a \in Attempts, Bootstrap(a) PROVE Goal
  BY <1>5, ReclaimFits, LookUpClaimFits, ClaimFailsFits, RenewAfterClaimFits, ReleaseAfterClaimFits,
     BindFits, BootRenewFailsFits, PublishBootstrapFits, BindFailsFits, BootReleasedFits
     DEF Bootstrap
<1>6. ASSUME NEW a \in Attempts, Main(a) PROVE Goal
  BY <1>6, BootstrapWaitsFits, InstallLeaseFits, DriveWaitsFits, RevokeReturnsFits,
     CleanupWaitsFits
     DEF Main
<1>7. ASSUME NEW a \in Attempts, Threads(a) PROVE Goal
  BY <1>5, <1>6, <1>7, RenewalWakesFits, RenewalAnsweredFits, CleanupReleasesFits,
     CleanupReleasedFits DEF Threads
<1>8. ASSUME NEW a \in Attempts,
             \/ Start(a) \/ EnterGuard(a) \/ LeaveGuard(a) \/ DriverEnds(a)
             \/ ControlFails(a) \/ Crash(a)
      PROVE  Goal
  BY <1>8, StartFits, GuardFits, DriverEndsFits, ControlFailsFits, CrashFits
<1>9. Goal => SupInv'
  BY <1>1 DEF SupInv, SupTypeOK, IInv
<1> QED BY <1>2, <1>3, <1>4, <1>7, <1>8, <1>9 DEF SupNext

LEMMA SupInvariant == SupSpec => []SupInv
BY SupInitInv, SupStepInv, PTL DEF SupSpec

-----------------------------------------------------------------------------
(* The Activity attempts are callers of the authority store: bootstrap, renewal
   and cleanup send it nothing that AuthorityStore does not allow, so Fencing,
   Evidence and Refinement hold of them too. *)
THEOREM SupervisorUsesStore == SupSpec => Spec
<1>1. SupInit => Init
  BY DEF SupInit
<1> QED BY <1>1, SupSimulates, PTL DEF SupSpec, Spec

(* While an attempt may act by what its own process knows, the database agrees:
   the deadline that install_lease and the renewal loop compute never outlives
   leased_until, and cleanup and bootstrap release nothing under a driver. *)
THEOREM LocalAuthorityIsBacked == SupSpec => []DriverHoldsLease
<1>1. ASSUME SupInv PROVE DriverHoldsLease
  <2> SUFFICES ASSUME NEW a \in Attempts, LocallyAuthorised(a)
               PROVE  row.owner = a /\ row.generation = sup[a].generation /\ Active(row, now)
    BY DEF DriverHoldsLease
  <2>1. /\ sup[a].driver = "run" /\ now < sup[a].deadline /\ sup[a].deadline \in Nat
        /\ LeaseFits(a, sup[a], call[a], row, now)
    BY <1>1, FitsNow DEF LocallyAuthorised
  <2>2. Backed(a, sup[a].generation, sup[a].deadline, row, now)
    BY <2>1 DEF LeaseFits
  <2> QED BY <1>1, <2>1, <2>2, BackedIsActive DEF Backed, SupInv
<1> QED BY <1>1, SupInvariant, PTL

(* An attempt that has returned left no driver with local authority, and one
   that succeeded left no lease: run's cleanup revokes before it gives up, and
   its release was answered as released. *)
THEOREM AttemptsLeaveNothing == SupSpec => []AttemptLeavesNothing
<1>1. ASSUME SupInv PROVE AttemptLeavesNothing
  <2> SUFFICES ASSUME NEW a \in Attempts
               PROVE  /\ sup[a].main \in {"failing", "cleanup", "leaving", "ended"}
                            /\ sup[a].driver = "run" => sup[a].revoked
                      /\ sup[a].outcome = "success" => ~(row.owner = a /\ Active(row, now))
    BY DEF AttemptLeavesNothing
  <2>1. ThreadsFit(sup[a]) /\ LeaseFits(a, sup[a], call[a], row, now)
    BY <1>1, FitsNow
  <2> QED BY <2>1 DEF ThreadsFit, LeaseFits, Gone
<1> QED BY <1>1, SupInvariant, PTL
=============================================================================
