---------------------------- MODULE CommandOutbox ----------------------------
(***************************************************************************)
(* Command admission and the dispatch outbox of one run                    *)
(* (adapters/postgres/admission.py), and the dispatchers that drain it     *)
(* (CommandOutboxDispatcher.dispatch_once in hosting/admission.py).        *)
(*                                                                         *)
(* Each store operation is one transaction under the run_authority lock    *)
(* and the outbox row lock, hence one step.  Between the steps of a        *)
(* dispatcher its claim may expire, another dispatcher may take the row    *)
(* over, the run may become terminal, and the dispatcher may die.  The     *)
(* transport is whatever a composition makes of Send and Reply.            *)
(***************************************************************************)
EXTENDS Naturals

CONSTANTS
    CommandIds,     \* caller-selected command ids
    NoCommand,      \* no admission record at a sequence
    Dispatchers,    \* dispatcher processes
    MaxCommands,    \* bound: stands for the bigint range of the sequence
    MaxClaims,      \* bound on claim_generation
    MaxCheckpoints  \* bound on checkpoint sequences

ASSUME NoCommandAssumption == NoCommand \notin CommandIds
ASSUME OutboxBoundsAssumption ==
    MaxCommands \in Nat /\ MaxClaims \in Nat /\ MaxCheckpoints \in Nat \ {0}

VARIABLES
    records,     \* activation_admission_record: the command id at a sequence
    head,        \* activation_admission_head.sequence
    outbox,      \* activation_dispatch_outbox: one row per sequence
    bound,       \* activation_payload: source checkpoint of a bound command, 0: null
    terminal,    \* a terminal_record exists
    dispatcher   \* per dispatcher: where dispatch_once is, and its claim

outboxVars == <<records, head, outbox, bound, terminal, dispatcher>>

-----------------------------------------------------------------------------
Lane == 1 .. MaxCommands

\* leased_until against the database clock.
Leases == {"null", "ahead", "passed"}

DeliveryStates == {"absent", "pending", "leased", "delivered", "run_terminal", "dead_letter"}

Codes == {"", "retry", "rejected", "closed", "run_terminal"}

NoRow == [state |-> "absent", generation |-> 0, until |-> "null", error |-> ""]

NewRow == [state |-> "pending", generation |-> 0, until |-> "null", error |-> ""]

Rows == [state : DeliveryStates, generation : 0 .. MaxClaims, until : Leases, error : Codes]

Replies == {"none", "accepted", "retry", "rejected", "closed"}

Resting == [stage |-> "idle", seq |-> 0, generation |-> 0, reply |-> "none"]

DispatcherStates ==
    [stage : {"idle", "claimed", "sent", "replied"}, seq : {0} \union Lane,
     generation : 0 .. MaxClaims, reply : Replies]

-----------------------------------------------------------------------------
(* admit *)

\* A known command id is answered from its record; a terminal run admits nothing.
Admit(id) ==
    /\ \A s \in Lane : records[s] # id
    /\ ~terminal /\ head < MaxCommands
    /\ head' = head + 1
    /\ records' = [records EXCEPT ![head'] = id]
    /\ outbox' = [outbox EXCEPT ![head'] = NewRow]
    /\ UNCHANGED <<bound, terminal, dispatcher>>

-----------------------------------------------------------------------------
(* claim_dispatch *)

\* Mutant: delivered commands are taken to be somebody else's business.
UnreachableUndelivered(s) ==
    terminal /\ outbox[s].state \in {"pending", "leased"} /\ bound[s] = 0

\* Rows of commands that a terminal run will never bind.
Unreachable(s) ==
    terminal /\ outbox[s].state \in {"pending", "leased", "delivered"} /\ bound[s] = 0

\* A claim attempt closes one such row, and finds nothing to claim on this run.
ReconcileTerminal(d) ==
    /\ dispatcher[d].stage = "idle"
    /\ \E s \in Lane :
        /\ Unreachable(s)
        /\ outbox' = [outbox EXCEPT ![s].state = "run_terminal", ![s].until = "null",
                                    ![s].error = "run_terminal"]
    /\ UNCHANGED <<records, head, bound, terminal, dispatcher>>

\* Mutant: every command is claimable on its own.
ClaimableOutOfOrder(s) ==
    /\ ~terminal
    /\ outbox[s].state = "pending" \/ (outbox[s].state = "leased" /\ outbox[s].until = "passed")

Claimable(s) ==
    /\ ~terminal
    /\ outbox[s].state = "pending" \/ (outbox[s].state = "leased" /\ outbox[s].until = "passed")
    /\ \A t \in 1 .. s - 1 : outbox[t].state = "delivered"

\* The claim reaches the dispatcher, if need be by reading it back, or its
\* response is lost for good and the row stays leased.
ClaimDispatch(d) ==
    /\ dispatcher[d].stage = "idle"
    /\ \E s \in Lane :
        /\ Claimable(s) /\ outbox[s].generation < MaxClaims
        /\ outbox' = [outbox EXCEPT ![s] = [state |-> "leased", until |-> "ahead", error |-> "",
                                            generation |-> outbox[s].generation + 1]]
        /\ \/ dispatcher' = [dispatcher EXCEPT ![d] =
                    [Resting EXCEPT !.stage = "claimed", !.seq = s,
                                    !.generation = outbox'[s].generation]]
           \/ UNCHANGED dispatcher
    /\ UNCHANGED <<records, head, bound, terminal>>

\* The database clock passes leased_until.
ClaimExpires(s) ==
    /\ outbox[s].state = "leased" /\ outbox[s].until = "ahead"
    /\ outbox' = [outbox EXCEPT ![s].until = "passed"]
    /\ UNCHANGED <<records, head, bound, terminal, dispatcher>>

-----------------------------------------------------------------------------
(* transport.dispatch, as the dispatcher sees it *)

Send(d) ==
    /\ dispatcher[d].stage = "claimed"
    /\ dispatcher' = [dispatcher EXCEPT ![d].stage = "sent"]
    /\ UNCHANGED <<records, head, outbox, bound, terminal>>

Reply(d, reply) ==
    /\ dispatcher[d].stage = "sent"
    /\ dispatcher' = [dispatcher EXCEPT ![d].stage = "replied", ![d].reply = reply]
    /\ UNCHANGED <<records, head, outbox, bound, terminal>>

-----------------------------------------------------------------------------
(* acknowledge_dispatch, retry_dispatch, reject_dispatch *)

\* Mutant: terminal evidence is not sampled under the row lock.
ActiveClaimIgnoresTerminal(d) ==
    LET r == outbox[dispatcher[d].seq] IN
    r.state = "leased" /\ r.until = "ahead" /\ r.generation = dispatcher[d].generation

\* Mutant: a lease held by a later claim passes for one's own.
ActiveClaimIgnoresToken(d) ==
    LET r == outbox[dispatcher[d].seq] IN
    r.state = "leased" /\ r.until = "ahead" /\ ~terminal

\* _require_active_claim; the claim generation determines owner and claim id.
ActiveClaim(d) ==
    LET r == outbox[dispatcher[d].seq] IN
    /\ r.state = "leased" /\ r.until = "ahead" /\ r.generation = dispatcher[d].generation
    /\ ~terminal

Settlement(reply) ==
    CASE reply = "accepted" -> "delivered"
      [] reply = "retry" -> "pending"
      [] reply \in {"rejected", "closed"} -> "dead_letter"

Settle(d) ==
    LET s == dispatcher[d].seq
        reply == dispatcher[d].reply
    IN
    /\ dispatcher[d].stage = "replied"
    /\ ActiveClaim(d)
    /\ outbox' = [outbox EXCEPT ![s] =
            [state |-> Settlement(reply), generation |-> outbox[s].generation, until |-> "null",
             error |-> IF reply = "accepted" THEN "" ELSE reply]]
    /\ dispatcher' = [dispatcher EXCEPT ![d] = Resting]
    /\ UNCHANGED <<records, head, bound, terminal>>

ClaimLost(d) ==
    /\ dispatcher[d].stage = "replied"
    /\ ~ActiveClaim(d)
    /\ dispatcher' = [dispatcher EXCEPT ![d] = Resting]
    /\ UNCHANGED <<records, head, outbox, bound, terminal>>

\* The process dies, or the settlement fails before it commits.
DispatcherDies(d) ==
    /\ dispatcher[d].stage # "idle"
    /\ dispatcher' = [dispatcher EXCEPT ![d] = Resting]
    /\ UNCHANGED <<records, head, outbox, bound, terminal>>

-----------------------------------------------------------------------------
(* What activations do to these tables. *)

\* bind_activation stores the source checkpoint of a delivered command once.
BindSource(s, checkpoint) ==
    /\ outbox[s].state = "delivered" /\ bound[s] = 0 /\ ~terminal
    /\ bound' = [bound EXCEPT ![s] = checkpoint]
    /\ UNCHANGED <<records, head, outbox, terminal, dispatcher>>

\* settle_terminal, of which the outbox sees that a terminal record exists.
CloseRun ==
    /\ terminal' = TRUE
    /\ UNCHANGED <<records, head, outbox, bound, dispatcher>>

-----------------------------------------------------------------------------
\* Steps that no transport or activation takes part in.
StoreNext ==
    \/ \E id \in CommandIds : Admit(id)
    \/ \E s \in Lane : ClaimExpires(s)
    \/ \E d \in Dispatchers :
        ReconcileTerminal(d) \/ ClaimDispatch(d) \/ Settle(d) \/ ClaimLost(d) \/ DispatcherDies(d)

\* Any transport and any activations.
OutboxNext ==
    \/ StoreNext \/ CloseRun
    \/ \E s \in Lane, k \in 1 .. MaxCheckpoints : BindSource(s, k)
    \/ \E d \in Dispatchers :
        Send(d) \/ \E reply \in Replies \ {"none"} : Reply(d, reply)

OutboxInit ==
    /\ records = [s \in Lane |-> NoCommand]
    /\ head = 0
    /\ outbox = [s \in Lane |-> NoRow]
    /\ bound = [s \in Lane |-> 0]
    /\ terminal = FALSE
    /\ dispatcher = [d \in Dispatchers |-> Resting]

OutboxSpec == OutboxInit /\ [][OutboxNext]_outboxVars

-----------------------------------------------------------------------------
(* Properties *)

OutboxTypeOK ==
    /\ records \in [Lane -> CommandIds \union {NoCommand}]
    /\ head \in 0 .. MaxCommands
    /\ outbox \in [Lane -> Rows]
    /\ bound \in [Lane -> Nat]
    /\ terminal \in BOOLEAN
    /\ dispatcher \in [Dispatchers -> DispatcherStates]

(* Per-run order.  However many dispatchers compete, expire, die or answer
   late, a command is leased or delivered only after every earlier one was
   delivered, and a dead letter blocks everything behind it. *)
LaneInOrder ==
    \A s, t \in Lane : s < t /\ outbox[t].state \in {"leased", "delivered"} =>
        \/ outbox[s].state = "delivered"
        \/ terminal /\ outbox[s].state = "run_terminal"

(* Once the run is terminal the outbox is frozen, except that commands no
   activation was bound to are closed as run_terminal: a dispatcher that
   claimed before the terminal commit can no longer acknowledge, retry or
   reject. *)
TerminalFreezesOutbox ==
    [][terminal => \A s \in Lane :
          outbox'[s] # outbox[s] =>
              \/ outbox'[s].state = "run_terminal" /\ bound[s] = 0
              \/ outbox'[s] = [outbox[s] EXCEPT !.until = "passed"]]_outboxVars

(* A delivery is never taken back, and only the dispatcher that holds the
   current claim generation decides a leased row. *)
DeliveryIsFinal ==
    [][\A s \in Lane :
        /\ outbox[s].state = "delivered" =>
              outbox'[s].state = "delivered" \/ (terminal /\ outbox'[s].state = "run_terminal")
        /\ outbox[s].state = "leased" /\ outbox'[s].state \notin {"leased", "run_terminal"} =>
              \E d \in Dispatchers :
                    dispatcher[d].seq = s /\ dispatcher[d].generation = outbox[s].generation
                        /\ dispatcher[d].stage = "replied"]_outboxVars
=============================================================================
