--------------------------- MODULE ModelInvocation ---------------------------
(***************************************************************************)
(* One logical model call of a durable run: its journal in PostgreSQL      *)
(* (adapters/postgres/sink.py, tables invocation_record, invocation_head,  *)
(* model_evidence_record and model_evidence_outbox), the lifecycle every   *)
(* activation drives it with (hosting/model_calls.py, model_lifecycle.py)  *)
(* and the runner around it (model_call.py, _acall_owned).                 *)
(*                                                                         *)
(* A provider call costs money and cannot be taken back.  Activations come *)
(* and go under the writer lease: one that lost it goes on until the store *)
(* fences it, may crash between any two steps, and a commit may take       *)
(* effect although its answer is lost.                                     *)
(***************************************************************************)
EXTENDS WriterFence

CONSTANTS
    Requests,        \* request digests a replacement may rebuild
    Policies,        \* evidence policies activations are configured with
    MaxDispatches    \* ModelRetryConfig.max_attempts

ASSUME MaxDispatchesAssumption == MaxDispatches \in Nat \ {0}
ASSUME PoliciesAssumption == Policies \subseteq {"passive", "required", "outbox"}

VARIABLES
    invocations,  \* invocation_record by revision; the head is the last one.  Its
                  \* dispatch_id is its attempt, call the provider entry it settles
    evidence,     \* revisions in model_evidence_record
    staged,       \* revisions in model_evidence_outbox
    calls,        \* provider entries: what was sent, in order
    act           \* per activation: the runner and its lifecycle hook

invocationTables == <<invocations, evidence, staged>>

invocationVars == <<leaseVars, invocationTables, calls, act>>

-----------------------------------------------------------------------------
\* What a dispatch came to: an answer, a proven refusal (one the kernel may
\* retry, with or without chunks already delivered, or a final one), or doubt.
Refusals == {"retryable", "delivered", "refused"}

DispatchOutcomes == {"answer"} \union Refusals

Newest == invocations[Len(invocations)]

\* at: the revision read; made: attempts_made; commit: revision and record to
\* commit; then: what follows the commit.
NoCall == [stage |-> "off", generation |-> 0, request |-> "none", policy |-> "none", key |-> 0,
        made |-> 0, at |-> 0, outcome |-> "none", call |-> 0,
        commit |-> <<>>, then |-> "off", result |-> "none"]

CallIsCurrent(a) == Holds(a, act[a].generation)

CallBecomes(a, stage) == act' = [act EXCEPT ![a].stage = stage]

\* The call raises, or returns a turn.
FinishCall(a, result) ==
    act' = [act EXCEPT ![a] = [NoCall EXCEPT !.stage = "done", !.result = result,
                                          !.generation = act[a].generation,
                                          !.request = act[a].request, !.call = act[a].call,
                                          !.at = act[a].at]]

CommitNext(a, revision, record, then) ==
    act' = [act EXCEPT ![a].stage = "commit", ![a].commit = <<revision, record>>, ![a].then = then]

-----------------------------------------------------------------------------
(* The sink *)

\* _invocation_transition_winner: what may follow the head.
InvocationTransition(record) ==
    IF invocations = <<>>
    THEN record.state = "reserved" /\ record.attempt = 1
    ELSE /\ record.request = Newest.request /\ record.key = Newest.key /\ record.policy = Newest.policy
         /\ \/ /\ Newest.state = "settled" /\ record.state = "reserved"
               /\ Newest.outcome \in {"retryable", "delivered"}
               /\ record.attempt = Newest.attempt + 1
            \/ /\ record.attempt = Newest.attempt
               /\ <<Newest.state, record.state>> \in
                    {<<"reserved", "dispatch_started">>, <<"dispatch_started", "settled">>,
                     <<"dispatch_started", "unknown">>}

\* _dispatch_id_was_used.
DispatchIsFresh(record) ==
    record.state = "reserved" => \A i \in 1 .. Len(invocations) : invocations[i].attempt # record.attempt

Stages(record) == record.state = "settled" /\ record.policy = "outbox"

\* _commit_invocation_locked under the writer guard: what is stored decides first.
InvocationVerdict(revision, record) ==
    IF revision <= Len(invocations)
    THEN IF invocations[revision] = record /\ (Stages(record) => revision \in staged)
         THEN "already_committed" ELSE "conflict"
    ELSE IF revision = Len(invocations) + 1 /\ InvocationTransition(record) /\ DispatchIsFresh(record)
         THEN "committed" ELSE "conflict"

\* Record, head and, under the outbox policy, the evidence in one transaction.
InsertInvocation(revision, record) ==
    /\ invocations' = Append(invocations, record)
    /\ staged' = IF Stages(record) THEN staged \union {revision} ELSE staged
    /\ UNCHANGED evidence

\* _commit_evidence_locked: only the settlement at the head has evidence.
EvidenceAccepted(revision) ==
    /\ revision = Len(invocations) /\ Newest.state = "settled"

-----------------------------------------------------------------------------
(* The lifecycle hook and the runner *)

StartCall(a, request, policy) ==
    /\ act[a].stage = "off" /\ Granted(a)
    /\ act' = [act EXCEPT ![a] = [NoCall EXCEPT !.stage = "recover", !.generation = generation',
                                             !.key = generation', !.request = request,
                                             !.policy = policy]]
    /\ UNCHANGED <<invocationTables, calls>>

\* A passive host takes over the stored policy, any other must agree with it.
PolicyAgrees(a, record) == act[a].policy \in {"passive", record.policy}

InDoubt(record) == [record EXCEPT !.state = "unknown", !.outcome = "doubt"]

\* recover, once required evidence is delivered: the exact settlement goes
\* through the fenced commit again before anything of it is used.
Decide(a, revision) ==
    LET record == invocations[revision] IN
    CASE record.request # act[a].request -> FinishCall(a, "request_conflict")
      [] record.request = act[a].request /\ record.state = "reserved" -> CallBecomes(a, "reserve")
      [] record.request = act[a].request /\ record.state = "dispatch_started" ->
            CommitNext(a, revision + 1, InDoubt(record), "doubted")
      [] record.request = act[a].request /\ record.state = "unknown" -> FinishCall(a, "dispatch_unknown")
      [] record.request = act[a].request /\ record.state = "settled" ->
            IF PolicyAgrees(a, record)
            THEN CommitNext(a, revision, record, "recovered") ELSE FinishCall(a, "policy_conflict")

\* recover: the head is read without the writer guard.
Recover(a) ==
    /\ act[a].stage = "recover"
    /\ IF invocations = <<>> THEN CallBecomes(a, "reserve")
       ELSE IF Newest.state = "settled" /\ Newest.policy = "required"
       THEN act' = [act EXCEPT ![a].stage = "evidence", ![a].then = "decide", ![a].at = Len(invocations)]
       ELSE Decide(a, Len(invocations))
    /\ UNCHANGED <<leaseVars, invocationTables, calls>>

RecoverDecides(a) ==
    /\ act[a].stage = "decide"
    /\ Decide(a, act[a].at)
    /\ UNCHANGED <<leaseVars, invocationTables, calls>>

\* Mutant: a refusal is retried although chunks were delivered.
MayRetryDelivered(made, outcome) ==
    outcome \in {"retryable", "delivered"} /\ made < MaxDispatches

\* _recovered_failure_can_retry, and the retry test of the running loop.
MayRetry(made, outcome) == outcome = "retryable" /\ made < MaxDispatches

\* The recovered settlement is current: publish it, raise it, or retry it
\* unless the deadline does not allow the backoff.
Recovered(a) ==
    LET record == act[a].commit[2] IN
    /\ act[a].stage = "recovered"
    /\ \/ /\ record.outcome = "answer"
          /\ act' = [act EXCEPT ![a] = [NoCall EXCEPT !.stage = "done", !.result = "turn",
                                           !.generation = act[a].generation,
                                           !.request = act[a].request, !.call = record.call,
                                           !.at = act[a].commit[1]]]
       \/ record.outcome \in Refusals /\ FinishCall(a, "refused")
       \/ /\ MayRetry(record.attempt, record.outcome)
          /\ act' = [act EXCEPT ![a].stage = "reserve", ![a].made = record.attempt]
    /\ UNCHANGED <<leaseVars, invocationTables, calls>>

\* reserve: the attempt after attempts_made, with the key of the first record.
Reserve(a) ==
    LET next == act[a].made + 1
        fresh == [state |-> "reserved", attempt |-> next, request |-> act[a].request,
                  key |-> act[a].key, policy |-> act[a].policy, outcome |-> "none", call |-> 0]
    IN
    /\ act[a].stage = "reserve"
    /\ \/ invocations = <<>> /\ CommitNext(a, 1, fresh, "reserved")
       \/ /\ invocations # <<>> /\ Newest.state = "reserved"
          /\ IF PolicyAgrees(a, Newest) /\ Newest.attempt = next /\ Newest.request = act[a].request
             THEN act' = [act EXCEPT ![a].stage = "reserved", ![a].key = Newest.key]
             ELSE FinishCall(a, IF PolicyAgrees(a, Newest) THEN "request_conflict" ELSE "policy_conflict")
       \/ /\ invocations # <<>> /\ Newest.state = "dispatch_started"
          /\ CommitNext(a, Len(invocations) + 1, InDoubt(Newest), "doubted")
       \/ /\ invocations # <<>> /\ Newest.state = "unknown"
          /\ FinishCall(a, "dispatch_unknown")
       \/ /\ invocations # <<>> /\ Newest.state = "settled"
          /\ IF /\ PolicyAgrees(a, Newest) /\ Newest.outcome \in {"retryable", "delivered"}
                /\ next = Newest.attempt + 1 /\ Newest.request = act[a].request
             THEN CommitNext(a, Len(invocations) + 1, [fresh EXCEPT !.key = Newest.key, !.policy = Newest.policy],
                         "reserved")
             ELSE FinishCall(a, "conflict")
    /\ UNCHANGED <<leaseVars, invocationTables, calls>>

\* The reservation a step of the hook must find again (_same_dispatch).
IsMine(a, state) ==
    /\ invocations # <<>> /\ Newest.state = state
    /\ Newest.attempt = act[a].made + 1 /\ Newest.request = act[a].request /\ Newest.key = act[a].key

\* dispatch_started: preparation is over, the next thing is the provider.
DispatchStarted(a) ==
    /\ act[a].stage = "reserved"
    /\ IF IsMine(a, "reserved")
       THEN CommitNext(a, Len(invocations) + 1, [Newest EXCEPT !.state = "dispatch_started"], "provider")
       ELSE FinishCall(a, "conflict")
    /\ UNCHANGED <<leaseVars, invocationTables, calls>>

\* _adrive enters the adapter.
EnterProvider(a) ==
    /\ act[a].stage = "provider"
    /\ calls' = Append(calls, [attempt |-> act[a].made + 1, request |-> act[a].request,
                               key |-> act[a].key, by |-> act[a].generation])
    /\ act' = [act EXCEPT ![a].stage = "calling", ![a].call = Len(calls) + 1]
    /\ UNCHANGED <<leaseVars, invocationTables>>

\* The provider answers or refuses; anything else, a stream that cannot be
\* flushed or a result that cannot be encoded leaves the dispatch in doubt.
ProviderReturns(a, outcome) ==
    /\ act[a].stage = "calling"
    /\ \/ act' = [act EXCEPT ![a].stage = "settle", ![a].outcome = outcome]
       \/ CallBecomes(a, "doubt")
    /\ UNCHANGED <<leaseVars, invocationTables, calls>>

\* settled, called from settle_model_dispatch.
Settled(a) ==
    /\ act[a].stage = "settle"
    /\ IF IsMine(a, "dispatch_started")
       THEN CommitNext(a, Len(invocations) + 1,
                   [Newest EXCEPT !.state = "settled", !.outcome = act[a].outcome, !.call = act[a].call],
                   "settled")
       ELSE CallBecomes(a, "doubt")
    /\ UNCHANGED <<leaseVars, invocationTables, calls>>

\* raise_model_dispatch_unknown and the hook's unknown.
Doubt(a) ==
    /\ act[a].stage = "doubt"
    /\ IF IsMine(a, "dispatch_started")
       THEN CommitNext(a, Len(invocations) + 1, InDoubt(Newest), "doubted")
       ELSE FinishCall(a, "dispatch_unknown")
    /\ UNCHANGED <<leaseVars, invocationTables, calls>>

\* The settlement is durable: required evidence first, then the outcome.
AfterSettled(a) ==
    LET revision == act[a].commit[1]
        record == act[a].commit[2]
    IN
    /\ act[a].stage = "settled"
    /\ IF record.policy = "required"
       THEN act' = [act EXCEPT ![a].stage = "evidence", ![a].at = revision, ![a].then = "release"]
       ELSE act' = [act EXCEPT ![a].stage = "release", ![a].at = revision]
    /\ UNCHANGED <<leaseVars, invocationTables, calls>>

\* _publish, or the retry loop's decision on a settled refusal.
ReleaseOutcome(a) ==
    LET next == act[a].made + 1 IN
    /\ act[a].stage = "release"
    /\ \/ act[a].outcome = "answer" /\ FinishCall(a, "turn")
       \/ act[a].outcome \in Refusals /\ FinishCall(a, "refused")
       \/ /\ MayRetry(next, act[a].outcome)
          /\ act' = [act EXCEPT ![a].stage = "reserve", ![a].made = next]
    /\ UNCHANGED <<leaseVars, invocationTables, calls>>

-----------------------------------------------------------------------------
(* Commits, as the hook sees them *)

\* commit_invocation accepted, directly or found so by _reconcile_invocation.
CommitInvocation(a) ==
    LET revision == act[a].commit[1]
        record == act[a].commit[2]
        verdict == InvocationVerdict(revision, record)
    IN
    /\ act[a].stage = "commit" /\ CallIsCurrent(a) /\ verdict # "conflict"
    /\ IF verdict = "committed" THEN InsertInvocation(revision, record) ELSE UNCHANGED invocationTables
    /\ IF act[a].then = "doubted" THEN FinishCall(a, "dispatch_unknown")
       ELSE act' = [act EXCEPT ![a].stage = act[a].then,
                               ![a].key = record.key]
    /\ UNCHANGED <<leaseVars, calls>>

\* A conflict, or an error whose reconciliation failed as well: the commit may
\* have happened.  Only a settlement then leads on, to doubt.
CommitErrs(a) ==
    LET revision == act[a].commit[1]
        record == act[a].commit[2]
        verdict == InvocationVerdict(revision, record)
    IN
    /\ act[a].stage = "commit"
    /\ \/ UNCHANGED invocationTables
       \/ CallIsCurrent(a) /\ verdict = "committed" /\ InsertInvocation(revision, record)
    /\ IF act[a].then = "settled" THEN CallBecomes(a, "doubt")
       ELSE FinishCall(a, IF act[a].then = "doubted" THEN "dispatch_unknown" ELSE "conflict")
    /\ UNCHANGED <<leaseVars, calls>>

\* accept_fenced_commit_result: the activation is revoked.
CallFenced(a) ==
    /\ act[a].stage \in {"commit", "evidence"} /\ ~CallIsCurrent(a)
    /\ FinishCall(a, "revoked")
    /\ UNCHANGED <<leaseVars, invocationTables, calls>>

\* Mutant: the result goes out although its evidence could not be stored.
CommitEvidenceLenient(a) ==
    /\ act[a].stage = "evidence" /\ CallIsCurrent(a)
    /\ \/ /\ EvidenceAccepted(act[a].at)
          /\ evidence' = evidence \union {act[a].at}
       \/ UNCHANGED evidence
    /\ CallBecomes(a, act[a].then)
    /\ UNCHANGED <<leaseVars, invocations, staged, calls>>

\* commit_model_evidence, repeated harmlessly.
CommitEvidence(a) ==
    /\ act[a].stage = "evidence" /\ CallIsCurrent(a)
    /\ EvidenceAccepted(act[a].at)
    /\ evidence' = evidence \union {act[a].at}
    /\ CallBecomes(a, act[a].then)
    /\ UNCHANGED <<leaseVars, invocations, staged, calls>>

\* ModelEvidenceUncommitted: the settlement stands, the loop is parked.
EvidenceErrs(a) ==
    /\ act[a].stage = "evidence"
    /\ \/ UNCHANGED evidence
       \/ CallIsCurrent(a) /\ EvidenceAccepted(act[a].at) /\ evidence' = evidence \union {act[a].at}
    /\ FinishCall(a, "evidence_uncommitted")
    /\ UNCHANGED <<leaseVars, invocations, staged, calls>>

\* A crash, a revocation noticed locally, a cancellation outside the provider.
CallStops(a) ==
    /\ act[a].stage \notin {"off", "done"}
    /\ FinishCall(a, "none")
    /\ UNCHANGED <<leaseVars, invocationTables, calls>>

\* The activation is over; its lease is released, or left to expire.
CallEnds(a) ==
    /\ act[a].stage = "done"
    /\ Released(a)
    /\ act' = [act EXCEPT ![a] = NoCall]
    /\ UNCHANGED <<invocationTables, calls>>

CallLeaseExpires ==
    /\ Lease!Lapse
    /\ UNCHANGED <<invocationTables, calls, act>>

-----------------------------------------------------------------------------
Runner(a) ==
    \/ \E r \in Requests, p \in Policies : StartCall(a, r, p)
    \/ Recover(a) \/ RecoverDecides(a) \/ Recovered(a) \/ Reserve(a) \/ DispatchStarted(a)
    \/ EnterProvider(a) \/ \E o \in DispatchOutcomes : ProviderReturns(a, o)
    \/ Settled(a) \/ Doubt(a) \/ AfterSettled(a) \/ ReleaseOutcome(a)
    \/ CommitInvocation(a) \/ CommitErrs(a) \/ CallFenced(a) \/ CommitEvidence(a) \/ EvidenceErrs(a)
    \/ CallStops(a) \/ CallEnds(a)

InvocationInit ==
    /\ Lease!Init
    /\ invocations = <<>> /\ evidence = {} /\ staged = {} /\ calls = <<>>
    /\ act = [a \in Activations |-> NoCall]

InvocationNext == CallLeaseExpires \/ \E a \in Activations : Runner(a)

InvocationSpec == InvocationInit /\ [][InvocationNext]_invocationVars

-----------------------------------------------------------------------------
(* Properties *)

(* No paid call is repeated.  The provider is entered at most once per
   dispatch attempt over all activations, and once more only when the previous
   attempt is recorded as a proven refusal of which nothing was delivered, and
   always with the request and the idempotency key of the first attempt. *)
ProviderEnteredOnce ==
    \A i, j \in 1 .. Len(calls) : i < j =>
        /\ calls[i].attempt < calls[j].attempt
        /\ calls[i].key = calls[j].key /\ calls[i].request = calls[j].request
        /\ \E r \in 1 .. Len(invocations) :
              /\ invocations[r].call = i /\ invocations[r].state = "settled"
              /\ invocations[r].outcome = "retryable"

(* A turn handed to the loop is durable, belongs to it and stays what it is: the
   journal ends with it as the settled answer to this very request, its required
   evidence is stored and its outbox evidence staged.  No crash, retry or late
   writer turns an answer into doubt or back, and evidence exists for
   settlements only. *)
TurnIsDurable ==
    /\ \A a \in Activations : act[a].result = "turn" =>
          LET r == invocations[act[a].at] IN
          /\ act[a].at = Len(invocations)
          /\ r.state = "settled" /\ r.outcome = "answer" /\ r.call = act[a].call
          /\ r.request = act[a].request
          /\ r.policy = "required" => act[a].at \in evidence
          /\ r.policy = "outbox" => act[a].at \in staged
    /\ \A i \in 1 .. Len(invocations) :
          invocations[i].state = "unknown" \/ invocations[i].outcome \in {"answer", "refused"}
              => i = Len(invocations)
    /\ \A i \in evidence : invocations[i].state = "settled"
    /\ \A i \in 1 .. Len(invocations) : i \in staged <=> Stages(invocations[i])

(* A request conflict is reported only for a changed request; in particular a
   reservation that never reached the provider is dispatched by the replacement
   that finds it, with the idempotency key stored with it. *)
ReservationCanBeResumed ==
    \A a \in Activations :
        act[a].result = "request_conflict" => Newest.request # act[a].request
=============================================================================
