--------------------------- MODULE AuthorityStore ---------------------------
(***************************************************************************)
(* The PostgreSQL writer authority of one run                              *)
(* (adapters/postgres/authority.py): one row, a row lock, the database     *)
(* clock, and the transactions that claim, renew, release, read and, for   *)
(* the run sink and the admission store, guard a mutation with that row.   *)
(*                                                                         *)
(* A transaction takes the row lock and samples the clock in one step and  *)
(* updates the row and commits in a later one, so that time may pass and   *)
(* other transactions may queue in between.  Between them it may abort,    *)
(* and a commit's response may be lost.  The callers are unconstrained:    *)
(* anybody may present any token at any time.  The clock only moves        *)
(* forward, as clock_timestamp() does on one server.                       *)
(***************************************************************************)
EXTENDS Naturals

CONSTANTS
    Callers,       \* threads that may have a database transaction open
    Owners,        \* claim identities (owner_id), unique per activation
    NoOwner,       \* owner of the absent row
    NoCaller,      \* the row lock is free
    TTL,           \* lease length in clock ticks
    MaxNow,        \* bound: the clock stops here
    MaxGeneration  \* bound: stands for the bigint range of the column

ASSUME NoOwnerAssumption == NoOwner \notin Owners
ASSUME NoCallerAssumption == NoCaller \notin Callers
ASSUME TTLAssumption == TTL \in Nat \ {0}
ASSUME BoundsAssumption == MaxNow \in Nat /\ MaxGeneration \in Nat \ {0}

VARIABLES
    row,   \* the committed run_authority row; generation 0: no row
    lock,  \* the caller whose open transaction holds the row lock
    now,   \* pg_catalog.clock_timestamp()
    call   \* per caller: its open transaction, or the answer it got

storeVars == <<row, lock, now, call>>

-----------------------------------------------------------------------------
Tokens == Owners \X (1 .. MaxGeneration)

NoRow == [owner |-> NoOwner, generation |-> 0, leased_until |-> 0, revoked |-> TRUE]

Rows == [owner : Owners \union {NoOwner}, generation : 0 .. MaxGeneration,
         leased_until : Nat, revoked : BOOLEAN]

Ops == {"none", "claim", "renew", "release", "read", "guard"}

\* Stages in which a transaction holds the row lock.
LockedStages == {"activate", "takeover", "renew", "release", "guarded"}

Stages == LockedStages \union {"idle", "sent", "insert", "done"}

CommitStatuses == {"committed", "already_committed", "conflict"}

Statuses == CommitStatuses \union
    {"none", "granted", "unavailable", "renewed", "released", "already_released",
     "observed", "fenced", "error"}

Idle == [op |-> "none", owner |-> NoOwner, generation |-> 0, stage |-> "idle",
         status |-> "none", until |-> 0, observed |-> 0]

Calls == [op : Ops, owner : Owners \union {NoOwner}, generation : 0 .. MaxGeneration,
          stage : Stages, status : Statuses, until : Nat, observed : Nat]

\* WriterAuthority.active, judged at the store's clock.
Active(r, t) == r.generation > 0 /\ ~r.revoked /\ r.leased_until > t

\* The row names exactly the token the caller presents.
Presents(c) == call[c].owner = row.owner /\ call[c].generation = row.generation

\* Mutant: a plain SELECT, which does not wait for the row lock.
RowReadableUnlocked == row.generation > 0

\* FOR UPDATE: an existing row is read only once no other transaction holds it.
RowReadable == row.generation > 0 /\ lock = NoCaller

-----------------------------------------------------------------------------
(* Answers *)

Answer(c, status) == call' = [call EXCEPT ![c].stage = "done", ![c].status = status]

\* An answer that carries a WriterLease or WriterAuthority observed at the clock.
AnswerWith(c, status, r) ==
    call' = [call EXCEPT ![c].stage = "done", ![c].status = status,
                         ![c].owner = r.owner, ![c].generation = r.generation,
                         ![c].until = r.leased_until, ![c].observed = now]

\* The transaction commits; its response reaches the caller or is lost.
CommitAnswer(c, status, r) == AnswerWith(c, status, r) \/ Answer(c, "error")

Enter(c, stage) ==
    /\ lock' = c
    /\ call' = [call EXCEPT ![c].stage = stage]

-----------------------------------------------------------------------------
(* claim *)

\* _read_locked finds no row; an insertion nobody has committed is invisible.
ClaimFindsNoRow(c) ==
    /\ call[c].op = "claim" /\ call[c].stage = "sent"
    /\ row.generation = 0
    /\ call' = [call EXCEPT ![c].stage = "insert"]
    /\ UNCHANGED <<row, lock, now>>

\* ON CONFLICT waits for an uncommitted insertion; the placeholder is invisible.
InsertFirst(c) ==
    /\ call[c].op = "claim" /\ call[c].stage = "insert"
    /\ row.generation = 0 /\ lock = NoCaller
    /\ Enter(c, "activate")
    /\ UNCHANGED <<row, now>>

\* The TTL starts from a clock sampled after the wait.
ActivateFirst(c) ==
    /\ call[c].op = "claim" /\ call[c].stage = "activate"
    /\ row' = [owner |-> call[c].owner, generation |-> 1,
               leased_until |-> now + TTL, revoked |-> FALSE]
    /\ CommitAnswer(c, "granted", row')
    /\ lock' = NoCaller
    /\ UNCHANGED now

\* The claim that lost an insertion race re-reads the winner's row.
ClaimReads(c) ==
    /\ call[c].op = "claim" /\ call[c].stage \in {"sent", "insert"}
    /\ RowReadable

\* Response-loss reconciliation: the same owner gets its token, not a new expiry.
ClaimAgain(c) ==
    /\ ClaimReads(c)
    /\ Active(row, now) /\ row.owner = call[c].owner
    /\ CommitAnswer(c, "granted", row)
    /\ UNCHANGED <<row, lock, now>>

ClaimUnavailable(c) ==
    /\ ClaimReads(c)
    /\ Active(row, now) /\ row.owner # call[c].owner
    /\ Answer(c, "unavailable")
    /\ UNCHANGED <<row, lock, now>>

ClaimInactive(c) ==
    /\ ClaimReads(c)
    /\ ~Active(row, now)
    /\ Enter(c, "takeover")
    /\ UNCHANGED <<row, now>>

\* Mutant: generation + 1 is not checked against the column's range.
TakeOverUnbounded(c) ==
    /\ call[c].op = "claim" /\ call[c].stage = "takeover"
    /\ row' = [owner |-> call[c].owner, generation |-> row.generation + 1,
               leased_until |-> now + TTL, revoked |-> FALSE]
    /\ CommitAnswer(c, "granted", row')
    /\ lock' = NoCaller
    /\ UNCHANGED now

\* Mutant: the new owner inherits the old generation.
TakeOverSameGeneration(c) ==
    /\ call[c].op = "claim" /\ call[c].stage = "takeover"
    /\ row' = [owner |-> call[c].owner, generation |-> row.generation,
               leased_until |-> now + TTL, revoked |-> FALSE]
    /\ CommitAnswer(c, "granted", row')
    /\ lock' = NoCaller
    /\ UNCHANGED now

TakeOver(c) ==
    /\ call[c].op = "claim" /\ call[c].stage = "takeover"
    /\ row.generation < MaxGeneration
    /\ row' = [owner |-> call[c].owner, generation |-> row.generation + 1,
               leased_until |-> now + TTL, revoked |-> FALSE]
    /\ CommitAnswer(c, "granted", row')
    /\ lock' = NoCaller
    /\ UNCHANGED now

\* generation + 1 leaves the column's range: the statement fails.
TakeOverOverflows(c) ==
    /\ call[c].op = "claim" /\ call[c].stage = "takeover"
    /\ row.generation = MaxGeneration
    /\ Answer(c, "error")
    /\ lock' = NoCaller
    /\ UNCHANGED <<row, now>>

Claim(c) ==
    \/ ClaimFindsNoRow(c) \/ InsertFirst(c) \/ ActivateFirst(c)
    \/ ClaimAgain(c) \/ ClaimUnavailable(c) \/ ClaimInactive(c)
    \/ TakeOver(c) \/ TakeOverOverflows(c)

-----------------------------------------------------------------------------
(* renew, release, read *)

\* Exact-token operations on a row that does not exist.
TokenFindsNoRow(c) ==
    /\ call[c].op \in {"renew", "release", "guard"} /\ call[c].stage = "sent"
    /\ row.generation = 0
    /\ Answer(c, "fenced")
    /\ UNCHANGED <<row, lock, now>>

RenewReads(c) ==
    /\ call[c].op = "renew" /\ call[c].stage = "sent"
    /\ RowReadable
    /\ IF Presents(c) /\ Active(row, now)
       THEN Enter(c, "renew")
       ELSE Answer(c, "fenced") /\ UNCHANGED lock
    /\ UNCHANGED <<row, now>>

\* Mutant: the UPDATE trusts the expiry check made when the row was read.
RenewUpdatesUnchecked(c) ==
    /\ call[c].op = "renew" /\ call[c].stage = "renew"
    /\ row' = [row EXCEPT !.leased_until = now + TTL]
    /\ CommitAnswer(c, "renewed", row')
    /\ lock' = NoCaller
    /\ UNCHANGED now

\* Mutant: the fenced path forgets to end its transaction.
RenewUpdatesKeepsLock(c) ==
    /\ call[c].op = "renew" /\ call[c].stage = "renew"
    /\ IF Active(row, now)
       THEN /\ row' = [row EXCEPT !.leased_until = now + TTL]
            /\ CommitAnswer(c, "renewed", row')
            /\ lock' = NoCaller
       ELSE /\ Answer(c, "fenced")
            /\ UNCHANGED <<row, lock>>
    /\ UNCHANGED now

\* The UPDATE judges expiry once more, at its own clock sample.
RenewUpdates(c) ==
    /\ call[c].op = "renew" /\ call[c].stage = "renew"
    /\ IF Active(row, now)
       THEN /\ row' = [row EXCEPT !.leased_until = now + TTL]
            /\ CommitAnswer(c, "renewed", row')
       ELSE /\ Answer(c, "fenced")
            /\ UNCHANGED row
    /\ lock' = NoCaller
    /\ UNCHANGED now

ReleaseReads(c) ==
    /\ call[c].op = "release" /\ call[c].stage = "sent"
    /\ RowReadable
    /\ CASE ~Presents(c) -> Answer(c, "fenced") /\ UNCHANGED lock
         [] Presents(c) /\ row.revoked -> Answer(c, "already_released") /\ UNCHANGED lock
         [] Presents(c) /\ ~row.revoked /\ ~Active(row, now) ->
                Answer(c, "fenced") /\ UNCHANGED lock
         [] Presents(c) /\ Active(row, now) -> Enter(c, "release")
    /\ UNCHANGED <<row, now>>

ReleaseUpdates(c) ==
    /\ call[c].op = "release" /\ call[c].stage = "release"
    /\ IF Active(row, now)
       THEN /\ row' = [row EXCEPT !.leased_until = now, !.revoked = TRUE]
            /\ CommitAnswer(c, "released", row')
       ELSE /\ Answer(c, "fenced")
            /\ UNCHANGED row
    /\ lock' = NoCaller
    /\ UNCHANGED now

Read(c) ==
    /\ call[c].op = "read" /\ call[c].stage = "sent"
    /\ row.generation = 0 \/ RowReadable
    /\ AnswerWith(c, "observed", row)
    /\ UNCHANGED <<row, lock, now>>

-----------------------------------------------------------------------------
(* A mutation of another table fenced by this row (_current_writer_locked). *)

\* Mutant: any active lease will do, not only the token's own.
GuardReadsAnyToken(c) ==
    /\ call[c].op = "guard" /\ call[c].stage = "sent"
    /\ RowReadable
    /\ IF Active(row, now)
       THEN Enter(c, "guarded")
       ELSE Answer(c, "fenced") /\ UNCHANGED lock
    /\ UNCHANGED <<row, now>>

GuardReads(c) ==
    /\ call[c].op = "guard" /\ call[c].stage = "sent"
    /\ RowReadable
    /\ IF Presents(c) /\ Active(row, now)
       THEN Enter(c, "guarded")
       ELSE Answer(c, "fenced") /\ UNCHANGED lock
    /\ UNCHANGED <<row, now>>

\* The guarded transaction commits, whatever the clock says by now.
GuardCommits(c, status) ==
    /\ call[c].op = "guard" /\ call[c].stage = "guarded"
    /\ Answer(c, status) \/ Answer(c, "error")
    /\ lock' = NoCaller
    /\ UNCHANGED <<row, now>>

-----------------------------------------------------------------------------
(* Failures, time, and the callers *)

\* The connection or the statement fails: everything is rolled back.
Abort(c) ==
    /\ call[c].stage \in LockedStages \union {"sent", "insert"}
    /\ Answer(c, "error")
    /\ lock' = IF lock = c THEN NoCaller ELSE lock
    /\ UNCHANGED <<row, now>>

Tick ==
    /\ now < MaxNow
    /\ now' = now + 1
    /\ UNCHANGED <<row, lock, call>>

Request(op, token) ==
    [Idle EXCEPT !.op = op, !.owner = token[1], !.generation = token[2], !.stage = "sent"]

\* A caller without an open transaction starts one.  claim and read carry no
\* generation.
Invoke(c, op, token) ==
    /\ call[c].stage \in {"idle", "done"}
    /\ op \in {"claim", "read"} => token[2] = 0
    /\ op \in {"renew", "release", "guard"} => token \in Tokens
    /\ call' = [call EXCEPT ![c] = Request(op, token)]
    /\ UNCHANGED <<row, lock, now>>

Return(c) ==
    /\ call[c].stage = "done"
    /\ call' = [call EXCEPT ![c] = Idle]
    /\ UNCHANGED <<row, lock, now>>

\* What the database does for a caller whose transaction does not fail.
Serve(c) ==
    \/ Claim(c) \/ TokenFindsNoRow(c)
    \/ RenewReads(c) \/ RenewUpdates(c) \/ ReleaseReads(c) \/ ReleaseUpdates(c)
    \/ Read(c) \/ GuardReads(c)
    \/ \E status \in CommitStatuses : GuardCommits(c, status)

Init ==
    /\ row = NoRow
    /\ lock = NoCaller
    /\ now = 0
    /\ call = [c \in Callers |-> Idle]

Next ==
    \/ Tick
    \/ \E c \in Callers :
        \/ Serve(c) \/ Abort(c) \/ Return(c)
        \/ \E op \in Ops \ {"none"}, token \in Owners \X (0 .. MaxGeneration) :
                Invoke(c, op, token)

Spec == Init /\ [][Next]_storeVars

\* Row locks are granted in queue order, so a transaction that keeps finding the
\* row free is served; nothing makes the clock, failures or callers move.
FairSpec == Spec /\ \A c \in Callers : SF_storeVars(Serve(c))

-----------------------------------------------------------------------------
(* Properties *)

TypeOK ==
    /\ row \in Rows
    /\ lock \in Callers \union {NoCaller}
    /\ now \in Nat
    /\ call \in [Callers -> Calls]

(* Fencing.  While a guarded mutation is open, the authority row stays the
   one it checked: nobody takes the run over or revokes it, even when the
   lease expires before the mutation commits. *)
GuardedWriterIsCurrent ==
    \A c \in Callers :
        call[c].stage = "guarded" => Presents(c) /\ row.generation > 0 /\ ~row.revoked

\* Answers that hand out a WriterLease.
HandsOutLease(c) == call[c].stage = "done" /\ call[c].status \in {"granted", "renewed"}

(* Lease evidence.  An answer never overstates the authority it hands out: its
   generation belongs to one owner only, also when the answer is read late and
   the run has moved on, and while the generation lasts the row keeps at least
   the promised expiry. *)
LeaseEvidence ==
    \A c \in Callers : HandsOutLease(c) =>
        /\ call[c].generation <= row.generation
        /\ call[c].generation = row.generation =>
              /\ call[c].owner = row.owner
              /\ row.revoked \/ row.leased_until >= call[c].until
        /\ \A d \in Callers :
              HandsOutLease(d) /\ call[d].generation = call[c].generation
                  => call[d].owner = call[c].owner

\* The abstract lease: who holds the run, judged at the database clock.
Holder == IF Active(row, now) THEN row.owner ELSE NoOwner

Lease == INSTANCE FencedLease WITH generation <- row.generation, holder <- Holder

(* Refinement.  Claims, renewals, releases, lost responses, aborts and the
   clock together implement FencedLease: a new holder always comes with a new
   generation and only after the previous one lapsed, and no renewal, retry or
   repeated claim revives a generation that expired or was released. *)
ImplementsFencedLease == Lease!Spec

(* Progress.  No claim, renewal, release, read or guard waits for ever: every
   transaction that takes the row lock gives it back, on its failure paths
   (expired between read and update, overflow, lost response) too. *)
EveryCallAnswered ==
    \A c \in Callers : call[c].stage = "sent" ~> call[c].stage = "done"
=============================================================================
