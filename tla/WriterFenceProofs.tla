-------------------------- MODULE WriterFenceProofs --------------------------
(***************************************************************************)
(* Proofs about what activations do under the writer lease: the durable    *)
(* model calls of ModelInvocation, for any number of activations,          *)
(* requests, dispatch attempts and generations, and the event journal and  *)
(* run directories of EventPublication, for any number of activations,     *)
(* threads, directories and events.                                        *)
(***************************************************************************)
EXTENDS ModelInvocation, EventPublication, SequenceTheorems, TLAPS

-----------------------------------------------------------------------------
(* ModelInvocation: what the journal, the provider and the activations have  *)
(* in common                                                                 *)

Outcomes == DispatchOutcomes \union {"none", "doubt"}

Records ==
    [state : {"reserved", "dispatch_started", "settled", "unknown"}, attempt : Nat \ {0},
     request : Requests, key : Nat, policy : Policies, outcome : Outcomes, call : Nat]

Entries == [attempt : Nat \ {0}, request : Requests, key : Nat, by : Nat]

CallStages ==
    {"off", "recover", "evidence", "decide", "recovered", "reserve", "reserved", "provider",
     "calling", "settle", "doubt", "commit", "settled", "release", "done"}

CallStates ==
    [stage : CallStages, generation : Nat, request : Requests \union {"none"},
     policy : Policies \union {"none"}, key : Nat, made : Nat, at : Nat, outcome : Outcomes,
     call : Nat, commit : {<<>>} \union ((Nat \ {0}) \X Records),
     then : {"off", "decide", "release", "reserved", "provider", "settled", "doubted", "recovered"},
     result : {"none", "turn", "refused", "request_conflict", "policy_conflict", "conflict",
               "dispatch_unknown", "evidence_uncommitted", "revoked"}]

\* The revision at which a record stands: every attempt takes three of them.
Place(record) ==
    3 * record.attempt - (CASE record.state = "reserved" -> 2
                            [] record.state = "dispatch_started" -> 1
                            [] record.state \in {"settled", "unknown"} -> 0)

RecordFits(record) ==
    /\ record.state \in {"reserved", "dispatch_started"} => record.outcome = "none"
    /\ record.state = "unknown" => record.outcome = "doubt"
    /\ record.state = "settled" => record.outcome \in DispatchOutcomes

\* The journal j, given the provider entries c: attempts in their order, one
\* request under one key, and an attempt is followed only by a proven refusal.
JournalFits(j, c) ==
    \A i \in 1 .. Len(j) :
        /\ RecordFits(j[i]) /\ Place(j[i]) = i
        /\ j[i].request = j[1].request /\ j[i].key = j[1].key
        /\ j[i].state = "unknown" => i = Len(j)
        /\ j[i].state = "settled" =>
              /\ i < Len(j) => j[i].outcome = "retryable"
              /\ j[i].call \in 1 .. Len(c) /\ c[j[i].call].attempt = j[i].attempt

\* The provider is entered for dispatches the journal holds, in their order.
EntriesFit(j, c) ==
    /\ \A i \in 1 .. Len(c) :
          /\ 3 * c[i].attempt <= Len(j) + 1
          /\ c[i].request = j[1].request /\ c[i].key = j[1].key
    /\ \A i, k \in 1 .. Len(c) : i < k => c[i].attempt < c[k].attempt

EvidenceFits(j, e, o) ==
    /\ \A i \in e : i \in 1 .. Len(j) /\ j[i].state = "settled"
    /\ o \subseteq 1 .. Len(j)
    /\ \A i \in 1 .. Len(j) : i \in o <=> Stages(j[i])

\* The journal has got to step k of the attempt that s makes.
Reached(s, j, k) ==
    3 * s.made + k <= Len(j) /\ s.request = j[1].request /\ s.key = j[1].key

Entered(s, c) == s.call \in 1 .. Len(c) /\ c[s.call].attempt = s.made + 1

\* The settlement at revision i is one s may use.
Usable(s, i, j, e) ==
    /\ i \in 1 .. Len(j) /\ j[i].state = "settled" /\ j[i].request = s.request
    /\ j[i].policy = "required" => i \in e

\* The settlement at revision i is the one of the dispatch of s.
Own(s, i, j) ==
    /\ i = 3 * s.made + 3 /\ i <= Len(j) /\ j[i].state = "settled"
    /\ j[i].request = s.request /\ j[i].outcome = s.outcome /\ j[i].call = s.call

\* The commit of record at revision, after which the call of s goes on with then.
CommitFits(s, revision, record, then, j, e, c) ==
    /\ then \in {"reserved", "provider", "settled", "doubted", "recovered"}
    /\ RecordFits(record)
    /\ then \in {"reserved", "provider", "settled"} =>
          record.attempt = s.made + 1 /\ record.request = s.request
    /\ then = "reserved" => record.state = "reserved"
    /\ then = "provider" => record.state = "dispatch_started" /\ record.key = s.key
    /\ then = "settled" =>
          /\ record.state = "settled" /\ record.outcome = s.outcome /\ record.call = s.call
          /\ Entered(s, c)
    /\ then = "doubted" => record.state = "unknown"
    /\ then = "recovered" => Usable(s, revision, j, e) /\ record = j[revision]

\* What an activation holds of the call is what the tables hold, current or not:
\* the journal only grows.
CallFits(s, j, e, c) ==
    /\ s.stage \notin {"off", "done"} => s.request \in Requests /\ s.policy \in Policies
    /\ s.made = 0 \/ (3 * s.made <= Len(j) /\ j[3 * s.made].state = "settled"
                                           /\ j[3 * s.made].outcome = "retryable")
    /\ s.stage = "reserved" => Reached(s, j, 1)
    /\ s.stage = "provider" => Reached(s, j, 2) /\ \A i \in 1 .. Len(c) : c[i].attempt # s.made + 1
    /\ s.stage \in {"calling", "settle"} => Entered(s, c)
    /\ s.stage = "settle" => s.outcome \in DispatchOutcomes
    /\ s.stage = "commit" =>
          /\ s.commit \in (Nat \ {0}) \X Records
          /\ CommitFits(s, s.commit[1], s.commit[2], s.then, j, e, c)
    /\ s.stage = "settled" =>
          Own(s, s.commit[1], j) /\ s.commit \in (Nat \ {0}) \X Records /\ s.commit[2] = j[s.commit[1]]
    /\ s.stage = "evidence" =>
          \/ s.then = "decide" /\ s.at \in 1 .. Len(j) /\ j[s.at].state = "settled"
          \/ s.then = "release" /\ Own(s, s.at, j)
    /\ s.stage = "decide" => s.at \in e
    /\ s.stage = "release" => Own(s, s.at, j) /\ Usable(s, s.at, j, e)
    /\ s.stage = "recovered" =>
          /\ s.commit \in (Nat \ {0}) \X Records
          /\ Usable(s, s.commit[1], j, e) /\ s.commit[2] = j[s.commit[1]]
    /\ s.stage # "done" => s.result = "none"
    /\ s.result = "turn" =>
          Usable(s, s.at, j, e) /\ j[s.at].outcome = "answer" /\ j[s.at].call = s.call

\* One activation holds a started dispatch that has not entered the provider, and
\* the activation that the store still accepts has seen all of the journal.
DispatchesAreOwned ==
    /\ \A a, b \in Activations :
          a # b /\ act[a].stage = "provider" /\ act[b].stage = "provider" => act[a].made # act[b].made
    /\ \A a \in Activations :
          /\ act[a].generation <= generation
          /\ CallIsCurrent(a) /\ act[a].stage = "commit" /\ act[a].then = "provider" =>
                act[a].commit[1] = Len(invocations) + 1

InvocationTypeOK ==
    /\ invocations \in Seq(Records) /\ calls \in Seq(Entries)
    /\ act \in [Activations -> CallStates]
    /\ generation \in Nat

TablesFit ==
    /\ JournalFits(invocations, calls) /\ EntriesFit(invocations, calls)
    /\ EvidenceFits(invocations, evidence, staged)

CallsFit == \A a \in Activations : CallFits(act[a], invocations, evidence, calls)

InvocationInv == InvocationTypeOK /\ TablesFit /\ CallsFit /\ DispatchesAreOwned
-----------------------------------------------------------------------------
(* Steps that leave the tables alone *)

LEMMA NoCallIsState == NoCall \in CallStates
BY DEF NoCall, CallStates, Outcomes, CallStages

LEMMA NoCallFits == ASSUME NEW j, NEW e, NEW c PROVE CallFits(NoCall, j, e, c)
BY DEF CallFits, NoCall

\* Activation a moves, to a state that fits the tables.
Moves(a) ==
    /\ act' \in [Activations -> CallStates]
    /\ \A b \in Activations \ {a} : act'[b] = act[b]

LEMMA QuietMove ==
    ASSUME InvocationInv, NEW a \in Activations, Moves(a),
           UNCHANGED <<leaseVars, invocationTables, calls>>,
           CallFits(act'[a], invocations, evidence, calls),
           act'[a].stage # "provider", act'[a].generation = act[a].generation,
           act'[a].stage = "commit" /\ act'[a].then = "provider" =>
               act'[a].commit[1] = Len(invocations) + 1
    PROVE  InvocationInv'
<1> USE DEF InvocationInv, leaseVars, invocationTables
<1>1. InvocationTypeOK' /\ TablesFit'
  BY DEF InvocationTypeOK, TablesFit, Moves
<1>2. CallsFit'
  BY DEF CallsFit, Moves
<1>3. DispatchesAreOwned'
  BY DEF DispatchesAreOwned, Moves, CallIsCurrent, Holds
<1> QED BY <1>1, <1>2, <1>3

\* States that an activation may be put in.
LEMMA StageIsState ==
    ASSUME NEW s \in CallStates, NEW stage \in CallStages
    PROVE  [s EXCEPT !.stage = stage] \in CallStates
BY DEF CallStates

LEMMA CommitIsState ==
    ASSUME NEW s \in CallStates, NEW commit \in (Nat \ {0}) \X Records
    PROVE  [s EXCEPT !.commit = commit] \in CallStates
BY DEF CallStates

Thens == {"off", "decide", "release", "reserved", "provider", "settled", "doubted", "recovered"}

LEMMA ThenIsState ==
    ASSUME NEW s \in CallStates, NEW then \in Thens
    PROVE  [s EXCEPT !.then = then] \in CallStates
BY DEF CallStates, Thens

LEMMA AtIsState ==
    ASSUME NEW s \in CallStates, NEW v \in Nat
    PROVE  [s EXCEPT !.at = v] \in CallStates
BY DEF CallStates

LEMMA MadeIsState ==
    ASSUME NEW s \in CallStates, NEW v \in Nat
    PROVE  [s EXCEPT !.made = v] \in CallStates
BY DEF CallStates

LEMMA KeyIsState ==
    ASSUME NEW s \in CallStates, NEW v \in Nat
    PROVE  [s EXCEPT !.key = v] \in CallStates
BY DEF CallStates

LEMMA EntryIsState ==
    ASSUME NEW s \in CallStates, NEW v \in Nat
    PROVE  [s EXCEPT !.call = v] \in CallStates
BY DEF CallStates

LEMMA OutcomeIsState ==
    ASSUME NEW s \in CallStates, NEW v \in Outcomes
    PROVE  [s EXCEPT !.outcome = v] \in CallStates
BY DEF CallStates

Results == {"none", "turn", "refused", "request_conflict", "policy_conflict", "conflict",
            "dispatch_unknown", "evidence_uncommitted", "revoked"}

LEMMA EndedIsState ==
    ASSUME NEW result \in Results, NEW g \in Nat, NEW q \in Requests \union {"none"},
           NEW k \in Nat, NEW i \in Nat
    PROVE  [NoCall EXCEPT !.stage = "done", !.result = result, !.generation = g,
                          !.request = q, !.call = k, !.at = i] \in CallStates
BY DEF CallStates, CallStages, NoCall, Outcomes, Results

LEMMA Becomes ==
    ASSUME act \in [Activations -> CallStates], NEW a \in Activations, NEW s \in CallStates,
           act' = [act EXCEPT ![a] = s]
    PROVE  Moves(a) /\ act'[a] = s
BY DEF Moves

LEMMA CallBecomesMoves ==
    ASSUME act \in [Activations -> CallStates], NEW a \in Activations, NEW stage \in CallStages,
           CallBecomes(a, stage)
    PROVE  Moves(a) /\ act'[a] = [act[a] EXCEPT !.stage = stage]
BY StageIsState, Becomes DEF CallBecomes

Committing(s, revision, record, then) ==
    [s EXCEPT !.stage = "commit", !.commit = <<revision, record>>, !.then = then]

LEMMA CommitNextMoves ==
    ASSUME act \in [Activations -> CallStates], NEW a \in Activations, NEW revision \in Nat \ {0},
           NEW record \in Records, NEW then \in {"reserved", "provider", "settled", "doubted", "recovered"},
           CommitNext(a, revision, record, then)
    PROVE  /\ Moves(a)
           /\ act'[a] = Committing(act[a], revision, record, then)
<1> DEFINE s == Committing(act[a], revision, record, then)
<1>1. act' = [act EXCEPT ![a] = s]
  BY DEF CommitNext, Committing
<1>2. s \in CallStates
  <2>1. [act[a] EXCEPT !.stage = "commit"] \in CallStates
    BY StageIsState DEF CallStages
  <2>2. [[act[a] EXCEPT !.stage = "commit"] EXCEPT !.commit = <<revision, record>>] \in CallStates
    BY <2>1, CommitIsState
  <2> QED BY <2>2, ThenIsState DEF Thens, Committing
<1> HIDE DEF s
<1>4. Moves(a) /\ act'[a] = s
  BY <1>1, <1>2, Becomes
<1> QED BY <1>4 DEF s

LEMMA CommittingFields ==
    ASSUME NEW s \in CallStates, NEW revision \in Nat \ {0}, NEW record \in Records, NEW then
    PROVE  LET m == Committing(s, revision, record, then) IN
           /\ m.stage = "commit" /\ m.then = then
           /\ m.commit \in (Nat \ {0}) \X Records /\ m.commit[1] = revision /\ m.commit[2] = record
           /\ m.generation = s.generation /\ m.request = s.request /\ m.policy = s.policy
           /\ m.key = s.key /\ m.made = s.made /\ m.at = s.at /\ m.outcome = s.outcome
           /\ m.call = s.call /\ m.result = s.result
BY DEF Committing, CallStates

LEMMA FinishCallMoves ==
    ASSUME act \in [Activations -> CallStates], NEW a \in Activations, NEW result \in Results,
           FinishCall(a, result)
    PROVE  /\ Moves(a)
           /\ act'[a] = [NoCall EXCEPT !.stage = "done", !.result = result,
                                       !.generation = act[a].generation,
                                       !.request = act[a].request, !.call = act[a].call,
                                       !.at = act[a].at]
<1> DEFINE s == [NoCall EXCEPT !.stage = "done", !.result = result,
                               !.generation = act[a].generation,
                               !.request = act[a].request, !.call = act[a].call,
                               !.at = act[a].at]
<1>1. s \in CallStates
  <2>1. /\ act[a].generation \in Nat /\ act[a].request \in Requests \union {"none"}
        /\ act[a].call \in Nat /\ act[a].at \in Nat
    BY DEF CallStates
  <2> QED BY <2>1, EndedIsState
<1>2. act' = [act EXCEPT ![a] = s]
  BY DEF FinishCall
<1> QED BY <1>1, <1>2, Becomes

\* A call that raises needs nothing of the tables.
LEMMA FinishFits ==
    ASSUME InvocationInv, NEW a \in Activations, NEW result \in Results \ {"turn"},
           FinishCall(a, result), UNCHANGED <<leaseVars, invocationTables, calls>>
    PROVE  InvocationInv'
<1>1. /\ Moves(a)
      /\ act'[a] = [NoCall EXCEPT !.stage = "done", !.result = result,
                                  !.generation = act[a].generation,
                                  !.request = act[a].request, !.call = act[a].call,
                                  !.at = act[a].at]
  BY FinishCallMoves DEF InvocationInv, InvocationTypeOK, Results
<1>2. CallFits(act'[a], invocations, evidence, calls)
  BY <1>1 DEF CallFits, NoCall, Results
<1> QED BY <1>1, <1>2, QuietMove DEF NoCall
\* What the invariant says of activation a and of the head of the journal.
LEMMA CallNow ==
    ASSUME InvocationInv, NEW a \in Activations
    PROVE  /\ act \in [Activations -> CallStates] /\ act[a] \in CallStates
           /\ CallFits(act[a], invocations, evidence, calls)
           /\ invocations \in Seq(Records) /\ Len(invocations) \in Nat
           /\ invocations # <<>> =>
                /\ Len(invocations) \in 1 .. Len(invocations)
                /\ Newest = invocations[Len(invocations)] /\ Newest \in Records
                /\ RecordFits(Newest) /\ Place(Newest) = Len(invocations)
                /\ Newest.request = invocations[1].request /\ Newest.key = invocations[1].key
<1> USE DEF InvocationInv, InvocationTypeOK
<1>1. ASSUME invocations # <<>> PROVE Len(invocations) \in 1 .. Len(invocations)
  BY <1>1, EmptySeq
<1>2. \A i \in 1 .. Len(invocations) : invocations[i] \in Records
  BY ElementOfSeq
<1> QED BY <1>1, <1>2 DEF Newest, CallsFit, TablesFit, JournalFits

LEMMA Places ==
    ASSUME NEW r \in Records
    PROVE  /\ r.state = "reserved" => Place(r) = 3 * r.attempt - 2
           /\ r.state = "dispatch_started" => Place(r) = 3 * r.attempt - 1
           /\ r.state \in {"settled", "unknown"} => Place(r) = 3 * r.attempt
           /\ r.attempt \in Nat \ {0} /\ r.key \in Nat /\ r.call \in Nat /\ r.outcome \in Outcomes
           /\ r.request \in Requests /\ r.policy \in Policies
           /\ r.state \in {"reserved", "dispatch_started", "settled", "unknown"}
BY DEF Place, Records

\* The third record of an attempt is its end.
LEMMA Thirds ==
    ASSUME NEW r \in Records, NEW n \in Nat, Place(r) = 3 * n
    PROVE  r.state \in {"settled", "unknown"} /\ r.attempt = n
<1>1. CASE r.state = "reserved"
  BY <1>1, Places
<1>2. CASE r.state = "dispatch_started"
  BY <1>2, Places
<1>3. CASE r.state \in {"settled", "unknown"}
  BY <1>3, Places
<1> QED BY <1>1, <1>2, <1>3, Places

LEMMA CommitNextFits ==
    ASSUME InvocationInv, NEW a \in Activations, act[a].stage \notin {"off", "done"},
           NEW revision \in Nat \ {0}, NEW record \in Records, NEW then, CommitNext(a, revision, record, then),
           CommitFits(act[a], revision, record, then, invocations, evidence, calls),
           then = "provider" => revision = Len(invocations) + 1,
           UNCHANGED <<leaseVars, invocationTables, calls>>
    PROVE  InvocationInv'
<1>0. /\ act \in [Activations -> CallStates] /\ act[a] \in CallStates
      /\ CallFits(act[a], invocations, evidence, calls)
  BY CallNow
<1>1. Moves(a) /\ act'[a] = Committing(act[a], revision, record, then)
  BY <1>0, CommitNextMoves DEF CommitFits
<1>2. /\ act'[a].stage = "commit" /\ act'[a].then = then
      /\ act'[a].commit \in (Nat \ {0}) \X Records
      /\ act'[a].commit[1] = revision /\ act'[a].commit[2] = record
      /\ act'[a].generation = act[a].generation /\ act'[a].request = act[a].request
      /\ act'[a].policy = act[a].policy /\ act'[a].key = act[a].key /\ act'[a].made = act[a].made
      /\ act'[a].outcome = act[a].outcome /\ act'[a].call = act[a].call
      /\ act'[a].result = act[a].result
  BY <1>0, <1>1, CommittingFields
<1>3. CommitFits(act'[a], revision, record, then, invocations, evidence, calls)
  BY <1>2 DEF CommitFits, Usable, Entered
<1>4. CallFits(act'[a], invocations, evidence, calls)
  BY <1>0, <1>1, <1>2, <1>3 DEF CallFits
<1> QED BY <1>1, <1>2, <1>4, QuietMove

LEMMA InDoubtFits ==
    ASSUME NEW r \in Records
    PROVE  /\ InDoubt(r) \in Records /\ InDoubt(r).state = "unknown" /\ RecordFits(InDoubt(r))
BY DEF InDoubt, Records, RecordFits, Outcomes

LEMMA BackToReserve ==
    ASSUME InvocationInv, NEW a \in Activations, act[a].stage \notin {"off", "done"},
           CallBecomes(a, "reserve"), UNCHANGED <<leaseVars, invocationTables, calls>>
    PROVE  InvocationInv'
<1>0. /\ act \in [Activations -> CallStates] /\ act[a] \in CallStates
      /\ CallFits(act[a], invocations, evidence, calls)
  BY CallNow
<1>1. Moves(a) /\ act'[a] = [act[a] EXCEPT !.stage = "reserve"]
  BY <1>0, CallBecomesMoves DEF CallStages
<1>2. CallFits(act'[a], invocations, evidence, calls)
  BY <1>0, <1>1 DEF CallFits, CallStates
<1> QED BY <1>0, <1>1, <1>2, QuietMove DEF CallStates

\* Records as the hook rebuilds them.
LEMMA RebuiltFits ==
    ASSUME NEW r \in Records, NEW k \in Nat, NEW p \in Policies
    PROVE  LET m == [r EXCEPT !.key = k, !.policy = p] IN
           /\ m \in Records
           /\ m.state = r.state /\ m.attempt = r.attempt /\ m.request = r.request
           /\ m.outcome = r.outcome
<1>1. [r EXCEPT !.key = k] \in Records
  BY DEF Records
<1>2. [[r EXCEPT !.key = k] EXCEPT !.policy = p] \in Records
  BY <1>1 DEF Records
<1> QED BY <1>2 DEF Records

SettledAs(r, o, k) == [r EXCEPT !.state = "settled", !.outcome = o, !.call = k]

LEMMA SettlementFits ==
    ASSUME NEW r \in Records, NEW o \in DispatchOutcomes, NEW k \in Nat
    PROVE  LET m == SettledAs(r, o, k) IN
           /\ m \in Records /\ RecordFits(m)
           /\ m.state = "settled" /\ m.attempt = r.attempt /\ m.request = r.request
           /\ m.outcome = o /\ m.call = k
<1>1. [r EXCEPT !.state = "settled"] \in Records
  BY DEF Records
<1>2. [[r EXCEPT !.state = "settled"] EXCEPT !.outcome = o] \in Records
  BY <1>1 DEF Records, Outcomes
<1>3. [[[r EXCEPT !.state = "settled"] EXCEPT !.outcome = o] EXCEPT !.call = k] \in Records
  BY <1>2 DEF Records
<1> QED BY <1>3 DEF Records, RecordFits, SettledAs

\* Doubt is what may follow any record.
LEMMA DoubtNextFits ==
    ASSUME InvocationInv, NEW a \in Activations, act[a].stage \notin {"off", "done"},
           invocations # <<>>, CommitNext(a, Len(invocations) + 1, InDoubt(Newest), "doubted"),
           UNCHANGED <<leaseVars, invocationTables, calls>>
    PROVE  InvocationInv'
<1>1. /\ InDoubt(Newest) \in Records /\ InDoubt(Newest).state = "unknown"
      /\ RecordFits(InDoubt(Newest)) /\ Len(invocations) + 1 \in Nat \ {0}
  BY CallNow, InDoubtFits
<1>2. CommitFits(act[a], Len(invocations) + 1, InDoubt(Newest), "doubted", invocations, evidence, calls)
  BY <1>1 DEF CommitFits
<1> QED BY <1>1, <1>2, CommitNextFits

LEMMA DoubtStageFits ==
    ASSUME InvocationInv, NEW a \in Activations, act[a].stage \notin {"off", "done"},
           CallBecomes(a, "doubt"), UNCHANGED <<leaseVars, invocationTables, calls>>
    PROVE  InvocationInv'
<1>0. /\ act \in [Activations -> CallStates] /\ act[a] \in CallStates
      /\ CallFits(act[a], invocations, evidence, calls)
  BY CallNow
<1>1. Moves(a) /\ act'[a] = [act[a] EXCEPT !.stage = "doubt"]
  BY <1>0, CallBecomesMoves DEF CallStages
<1>2. CallFits(act'[a], invocations, evidence, calls)
  BY <1>0, <1>1 DEF CallFits, CallStates
<1> QED BY <1>0, <1>1, <1>2, QuietMove DEF CallStates

LEMMA DecideFits ==
    ASSUME InvocationInv, NEW a \in Activations, act[a].stage \notin {"off", "done"},
           NEW i \in 1 .. Len(invocations), Decide(a, i),
           invocations[i].state = "settled" /\ invocations[i].policy = "required" => i \in evidence,
           UNCHANGED <<leaseVars, invocationTables, calls>>
    PROVE  InvocationInv'
<1>0. /\ invocations[i] \in Records /\ i \in Nat \ {0} /\ RecordFits(invocations[i])
  BY ElementOfSeq DEF InvocationInv, InvocationTypeOK, TablesFit, JournalFits
<1> DEFINE record == invocations[i]
<1>1. CASE record.request # act[a].request
  BY <1>1, FinishFits DEF Decide, Results
<1>2. CASE record.request = act[a].request /\ record.state = "reserved"
  BY <1>2, BackToReserve DEF Decide
<1>3. CASE record.request = act[a].request /\ record.state = "dispatch_started"
  <2>1. CommitNext(a, i + 1, InDoubt(record), "doubted")
    BY <1>3 DEF Decide
  <2>2. CommitFits(act[a], i + 1, InDoubt(record), "doubted", invocations, evidence, calls)
    BY <1>0, InDoubtFits DEF CommitFits
  <2>3. i + 1 \in Nat \ {0} /\ InDoubt(record) \in Records
    BY <1>0, InDoubtFits
  <2> HIDE DEF record
  <2> QED BY <2>1, <2>2, <2>3, CommitNextFits
<1>4. CASE record.request = act[a].request /\ record.state = "unknown"
  BY <1>4, FinishFits DEF Decide, Results
<1>5. CASE record.request = act[a].request /\ record.state = "settled"
  <2>1. CommitFits(act[a], i, record, "recovered", invocations, evidence, calls)
    BY <1>0, <1>5 DEF CommitFits, Usable
  <2>2. CASE PolicyAgrees(a, record)
    BY <1>0, <1>5, <2>1, <2>2, CommitNextFits DEF Decide
  <2>3. CASE ~PolicyAgrees(a, record)
    BY <1>5, <2>3, FinishFits DEF Decide, Results
  <2> QED BY <2>2, <2>3
<1> QED BY <1>0, <1>1, <1>2, <1>3, <1>4, <1>5, Places

LEMMA RecoverFits ==
    ASSUME InvocationInv, NEW a \in Activations, Recover(a)
    PROVE  InvocationInv'
<1> USE CallNow
<1>1. CASE invocations = <<>>
  BY <1>1, BackToReserve DEF Recover
<1>2. CASE /\ invocations # <<>> /\ Newest.state = "settled" /\ Newest.policy = "required"
  <2> DEFINE s == [act[a] EXCEPT !.stage = "evidence", !.then = "decide", !.at = Len(invocations)]
  <2>1. act' = [act EXCEPT ![a] = s] /\ act[a].stage = "recover"
    BY <1>2 DEF Recover
  <2>2. s \in CallStates
    <3>1. [act[a] EXCEPT !.stage = "evidence"] \in CallStates
      BY StageIsState DEF CallStages
    <3>2. [[act[a] EXCEPT !.stage = "evidence"] EXCEPT !.then = "decide"] \in CallStates
      BY <3>1, ThenIsState DEF Thens
    <3> QED BY <3>2, AtIsState
  <2>3. CallFits(s, invocations, evidence, calls)
    BY <1>2, <2>1 DEF CallFits, CallStates
  <2>4. s.stage = "evidence" /\ s.generation = act[a].generation
    BY DEF CallStates
  <2> HIDE DEF s
  <2> QED BY <2>1, <2>2, <2>3, <2>4, Becomes, QuietMove DEF Recover
<1>3. CASE invocations # <<>> /\ ~(Newest.state = "settled" /\ Newest.policy = "required")
  BY <1>3, DecideFits DEF Recover
<1> QED BY <1>1, <1>2, <1>3

LEMMA RecoverDecidesFits ==
    ASSUME InvocationInv, NEW a \in Activations, RecoverDecides(a)
    PROVE  InvocationInv'
<1>1. act[a].at \in evidence /\ act[a].stage = "decide"
  BY CallNow DEF RecoverDecides, CallFits
<1>2. act[a].at \in 1 .. Len(invocations)
  BY <1>1 DEF InvocationInv, TablesFit, EvidenceFits
<1> QED BY <1>1, <1>2, DecideFits DEF RecoverDecides

LEMMA RecoveredFits ==
    ASSUME InvocationInv, NEW a \in Activations, Recovered(a)
    PROVE  InvocationInv'
<1> DEFINE i == act[a].commit[1]
           record == invocations[i]
<1>0. /\ act \in [Activations -> CallStates] /\ act[a] \in CallStates
      /\ CallFits(act[a], invocations, evidence, calls)
      /\ act[a].stage = "recovered" /\ UNCHANGED <<leaseVars, invocationTables, calls>>
  BY CallNow DEF Recovered
<1>1. /\ Usable(act[a], i, invocations, evidence) /\ act[a].commit[2] = record
      /\ act[a].commit \in (Nat \ {0}) \X Records
  BY <1>0 DEF CallFits
<1>2. record \in Records /\ Place(record) = i /\ record.state = "settled" /\ i \in Nat
  BY <1>1, ElementOfSeq DEF Usable, InvocationInv, InvocationTypeOK, TablesFit, JournalFits
<1> HIDE DEF record
<1>3. CASE /\ record.outcome = "answer"
           /\ act' = [act EXCEPT ![a] = [NoCall EXCEPT !.stage = "done", !.result = "turn",
                                           !.generation = act[a].generation,
                                           !.request = act[a].request, !.call = record.call,
                                           !.at = i]]
  <2> DEFINE s == [NoCall EXCEPT !.stage = "done", !.result = "turn",
                                 !.generation = act[a].generation,
                                 !.request = act[a].request, !.call = record.call, !.at = i]
  <2>1. s \in CallStates
    <3>1. /\ act[a].generation \in Nat /\ act[a].request \in Requests \union {"none"}
          /\ record.call \in Nat
      BY <1>0, <1>2, Places DEF CallStates
    <3> QED BY <1>2, <3>1, EndedIsState DEF Results
  <2>2. CallFits(s, invocations, evidence, calls)
    BY <1>1, <1>2, <1>3 DEF CallFits, NoCall, Usable, record
  <2>3. s.stage = "done" /\ s.generation = act[a].generation
    BY DEF NoCall
  <2> HIDE DEF s
  <2>4. act' = [act EXCEPT ![a] = s]
    BY <1>3 DEF s
  <2> QED BY <1>0, <2>1, <2>2, <2>3, <2>4, Becomes, QuietMove
<1>4. CASE record.outcome \in Refusals /\ FinishCall(a, "refused")
  BY <1>0, <1>4, FinishFits DEF Results
<1>5. CASE /\ MayRetry(record.attempt, record.outcome)
           /\ act' = [act EXCEPT ![a].stage = "reserve", ![a].made = record.attempt]
  <2> DEFINE s == [act[a] EXCEPT !.stage = "reserve", !.made = record.attempt]
  <2>0. /\ 3 * record.attempt = i /\ record.attempt \in Nat /\ record.outcome = "retryable"
        /\ i <= Len(invocations)
    BY <1>1, <1>2, <1>5, Places DEF MayRetry, Usable
  <2>1. s \in CallStates
    <3>1. [act[a] EXCEPT !.stage = "reserve"] \in CallStates
      BY <1>0, StageIsState DEF CallStages
    <3> QED BY <2>0, <3>1, MadeIsState
  <2>2. CallFits(s, invocations, evidence, calls)
    BY <1>0, <1>1, <1>2, <2>0 DEF CallFits, CallStates, record
  <2>3. s.stage = "reserve" /\ s.generation = act[a].generation
    BY <1>0 DEF CallStates
  <2>4. act' = [act EXCEPT ![a] = s]
    BY <1>5
  <2> HIDE DEF s
  <2> QED BY <1>0, <2>1, <2>2, <2>3, <2>4, Becomes, QuietMove
<1> QED BY <1>0, <1>1, <1>3, <1>4, <1>5 DEF Recovered

LEMMA ReserveFits ==
    ASSUME InvocationInv, NEW a \in Activations, Reserve(a)
    PROVE  InvocationInv'
<1> DEFINE next == act[a].made + 1
           fresh == [state |-> "reserved", attempt |-> next, request |-> act[a].request,
                     key |-> act[a].key, policy |-> act[a].policy, outcome |-> "none", call |-> 0]
           again == [fresh EXCEPT !.key = Newest.key, !.policy = Newest.policy]
<1>0. /\ act \in [Activations -> CallStates] /\ act[a] \in CallStates
      /\ CallFits(act[a], invocations, evidence, calls)
      /\ act[a].stage = "reserve" /\ UNCHANGED <<leaseVars, invocationTables, calls>>
  BY CallNow DEF Reserve
<1>1. /\ act[a].made \in Nat /\ act[a].request \in Requests /\ act[a].policy \in Policies
      /\ act[a].key \in Nat /\ next \in Nat \ {0}
  BY <1>0 DEF CallFits, CallStates
<1>2. fresh \in Records /\ RecordFits(fresh)
  BY <1>1 DEF Records, RecordFits, Outcomes
<1>3. CASE invocations = <<>> /\ CommitNext(a, 1, fresh, "reserved")
  <2>1. CommitFits(act[a], 1, fresh, "reserved", invocations, evidence, calls)
    BY <1>2 DEF CommitFits
  <2> HIDE DEF fresh
  <2> QED BY <1>0, <1>2, <1>3, <2>1, CommitNextFits
<1>4. CASE /\ invocations # <<>> /\ Newest.state = "reserved"
           /\ IF PolicyAgrees(a, Newest) /\ Newest.attempt = next /\ Newest.request = act[a].request
              THEN act' = [act EXCEPT ![a].stage = "reserved", ![a].key = Newest.key]
              ELSE FinishCall(a, IF PolicyAgrees(a, Newest) THEN "request_conflict" ELSE "policy_conflict")
  <2>1. CASE PolicyAgrees(a, Newest) /\ Newest.attempt = next /\ Newest.request = act[a].request
    <3> DEFINE s == [act[a] EXCEPT !.stage = "reserved", !.key = Newest.key]
    <3>1. Newest.key \in Nat /\ Newest.attempt = act[a].made + 1 /\ Len(invocations) = 3 * Newest.attempt - 2
      BY <1>4, <2>1, CallNow, Places
    <3>2. s \in CallStates
      <4>1. [act[a] EXCEPT !.stage = "reserved"] \in CallStates
        BY <1>0, StageIsState DEF CallStages
      <4> QED BY <3>1, <4>1, KeyIsState
    <3>3. Reached(s, invocations, 1)
      BY <1>0, <1>1, <1>4, <2>1, <3>1, CallNow DEF Reached, CallStates
    <3>4. CallFits(s, invocations, evidence, calls)
      BY <1>0, <3>3 DEF CallFits, CallStates
    <3>5. s.stage = "reserved" /\ s.generation = act[a].generation
      BY <1>0 DEF CallStates
    <3>6. act' = [act EXCEPT ![a] = s]
      BY <1>4, <2>1
    <3> HIDE DEF s
    <3> QED BY <1>0, <3>2, <3>4, <3>5, <3>6, Becomes, QuietMove
  <2>2. CASE ~(PolicyAgrees(a, Newest) /\ Newest.attempt = next /\ Newest.request = act[a].request)
    BY <1>0, <1>4, <2>2, FinishFits DEF Results
  <2> QED BY <2>1, <2>2
<1>5. CASE /\ invocations # <<>> /\ Newest.state = "dispatch_started"
           /\ CommitNext(a, Len(invocations) + 1, InDoubt(Newest), "doubted")
  BY <1>0, <1>5, DoubtNextFits
<1>6. CASE invocations # <<>> /\ Newest.state = "unknown" /\ FinishCall(a, "dispatch_unknown")
  BY <1>0, <1>6, FinishFits DEF Results
<1>7. CASE /\ invocations # <<>> /\ Newest.state = "settled"
           /\ IF /\ PolicyAgrees(a, Newest) /\ Newest.outcome \in {"retryable", "delivered"}
                 /\ next = Newest.attempt + 1 /\ Newest.request = act[a].request
              THEN CommitNext(a, Len(invocations) + 1, again, "reserved")
              ELSE FinishCall(a, "conflict")
  <2>1. CASE CommitNext(a, Len(invocations) + 1, again, "reserved")
    <3>1. Newest.key \in Nat /\ Newest.policy \in Policies
      BY <1>7, CallNow, Places
    <3>2. fresh.state = "reserved" /\ fresh.attempt = next /\ fresh.request = act[a].request
             /\ fresh.outcome = "none"
      OBVIOUS
    <3> HIDE DEF fresh
    <3>3. /\ again \in Records /\ RecordFits(again)
          /\ again.state = "reserved" /\ again.attempt = next /\ again.request = act[a].request
      BY <1>2, <3>1, <3>2, RebuiltFits DEF RecordFits
    <3> HIDE DEF again
    <3>4. CommitFits(act[a], Len(invocations) + 1, again, "reserved", invocations, evidence, calls)
      BY <3>3 DEF CommitFits
    <3>5. Len(invocations) + 1 \in Nat \ {0}
      BY CallNow
    <3> QED BY <1>0, <2>1, <3>3, <3>4, <3>5, CommitNextFits
  <2>2. CASE FinishCall(a, "conflict")
    BY <1>0, <2>2, FinishFits DEF Results
  <2> QED BY <1>7, <2>1, <2>2
<1> QED BY <1>3, <1>4, <1>5, <1>6, <1>7 DEF Reserve

LEMMA DispatchStartedFits ==
    ASSUME InvocationInv, NEW a \in Activations, DispatchStarted(a)
    PROVE  InvocationInv'
<1> DEFINE record == [Newest EXCEPT !.state = "dispatch_started"]
<1>0. act[a].stage = "reserved" /\ UNCHANGED <<leaseVars, invocationTables, calls>>
  BY DEF DispatchStarted
<1>1. CASE IsMine(a, "reserved")
  <2>1. Newest \in Records /\ RecordFits(Newest) /\ Len(invocations) + 1 \in Nat \ {0}
    BY <1>1, CallNow DEF IsMine
  <2>2. record \in Records /\ RecordFits(record)
    BY <1>1, <2>1 DEF Records, RecordFits, IsMine
  <2>3. CommitFits(act[a], Len(invocations) + 1, record, "provider", invocations, evidence, calls)
    BY <1>1, <2>1, <2>2 DEF CommitFits, IsMine, Records
  <2>4. CommitNext(a, Len(invocations) + 1, record, "provider")
    BY <1>1 DEF DispatchStarted
  <2> HIDE DEF record
  <2> QED BY <1>0, <2>1, <2>2, <2>3, <2>4, CommitNextFits
<1>2. CASE ~IsMine(a, "reserved")
  BY <1>0, <1>2, FinishFits DEF DispatchStarted, Results
<1> QED BY <1>1, <1>2

LEMMA ProviderReturnsFits ==
    ASSUME InvocationInv, NEW a \in Activations, NEW outcome \in DispatchOutcomes,
           ProviderReturns(a, outcome)
    PROVE  InvocationInv'
<1>0. /\ act \in [Activations -> CallStates] /\ act[a] \in CallStates
      /\ CallFits(act[a], invocations, evidence, calls)
      /\ act[a].stage = "calling" /\ UNCHANGED <<leaseVars, invocationTables, calls>>
  BY CallNow DEF ProviderReturns
<1>1. CASE act' = [act EXCEPT ![a].stage = "settle", ![a].outcome = outcome]
  <2> DEFINE s == [act[a] EXCEPT !.stage = "settle", !.outcome = outcome]
  <2>1. s \in CallStates
    <3>1. [act[a] EXCEPT !.stage = "settle"] \in CallStates
      BY <1>0, StageIsState DEF CallStages
    <3> QED BY <3>1, OutcomeIsState DEF Outcomes
  <2>2. CallFits(s, invocations, evidence, calls)
    BY <1>0 DEF CallFits, CallStates, Entered
  <2>3. s.stage = "settle" /\ s.generation = act[a].generation
    BY <1>0 DEF CallStates
  <2>4. act' = [act EXCEPT ![a] = s]
    BY <1>1
  <2> HIDE DEF s
  <2> QED BY <1>0, <2>1, <2>2, <2>3, <2>4, Becomes, QuietMove
<1>2. CASE CallBecomes(a, "doubt")
  BY <1>0, <1>2, DoubtStageFits
<1> QED BY <1>1, <1>2 DEF ProviderReturns

LEMMA SettledFits ==
    ASSUME InvocationInv, NEW a \in Activations, Settled(a)
    PROVE  InvocationInv'
<1> DEFINE record == SettledAs(Newest, act[a].outcome, act[a].call)
<1>0. /\ act[a] \in CallStates /\ CallFits(act[a], invocations, evidence, calls)
      /\ act[a].stage = "settle" /\ UNCHANGED <<leaseVars, invocationTables, calls>>
  BY CallNow DEF Settled
<1>1. CASE IsMine(a, "dispatch_started")
  <2>1. Newest \in Records /\ RecordFits(Newest) /\ Len(invocations) + 1 \in Nat \ {0}
    BY <1>1, CallNow DEF IsMine
  <2>2. act[a].outcome \in DispatchOutcomes /\ act[a].call \in Nat /\ Entered(act[a], calls)
    BY <1>0 DEF CallFits, CallStates
  <2>3. /\ record \in Records /\ RecordFits(record)
        /\ record.state = "settled" /\ record.attempt = Newest.attempt
        /\ record.request = Newest.request
        /\ record.outcome = act[a].outcome /\ record.call = act[a].call
    BY <2>1, <2>2, SettlementFits
  <2> HIDE DEF record
  <2>4. CommitFits(act[a], Len(invocations) + 1, record, "settled", invocations, evidence, calls)
    BY <1>1, <2>2, <2>3 DEF CommitFits, IsMine
  <2>5. CommitNext(a, Len(invocations) + 1, record, "settled")
    BY <1>1 DEF Settled, record, SettledAs
  <2> QED BY <1>0, <2>1, <2>3, <2>4, <2>5, CommitNextFits
<1>2. CASE ~IsMine(a, "dispatch_started")
  BY <1>0, <1>2, DoubtStageFits DEF Settled
<1> QED BY <1>1, <1>2

LEMMA DoubtFits ==
    ASSUME InvocationInv, NEW a \in Activations, Doubt(a)
    PROVE  InvocationInv'
<1>0. act[a].stage = "doubt" /\ UNCHANGED <<leaseVars, invocationTables, calls>>
  BY DEF Doubt
<1>1. CASE IsMine(a, "dispatch_started")
  BY <1>0, <1>1, DoubtNextFits DEF Doubt, IsMine
<1>2. CASE ~IsMine(a, "dispatch_started")
  BY <1>0, <1>2, FinishFits DEF Doubt, Results
<1> QED BY <1>1, <1>2

LEMMA AfterSettledFits ==
    ASSUME InvocationInv, NEW a \in Activations, AfterSettled(a)
    PROVE  InvocationInv'
<1> DEFINE i == act[a].commit[1]
<1>0. /\ act \in [Activations -> CallStates] /\ act[a] \in CallStates
      /\ CallFits(act[a], invocations, evidence, calls)
      /\ act[a].stage = "settled" /\ UNCHANGED <<leaseVars, invocationTables, calls>>
  BY CallNow DEF AfterSettled
<1>1. /\ Own(act[a], i, invocations) /\ i \in Nat
      /\ act[a].commit[2] = invocations[i] /\ act[a].made \in Nat
  BY <1>0 DEF CallFits, CallStates
<1> HIDE DEF i
<1>2. CASE /\ act[a].commit[2].policy = "required"
           /\ act' = [act EXCEPT ![a].stage = "evidence", ![a].at = i, ![a].then = "release"]
  <2> DEFINE s == [act[a] EXCEPT !.stage = "evidence", !.at = i, !.then = "release"]
  <2>1. s \in CallStates
    <3>1. [act[a] EXCEPT !.stage = "evidence"] \in CallStates
      BY <1>0, StageIsState DEF CallStages
    <3>2. [[act[a] EXCEPT !.stage = "evidence"] EXCEPT !.at = i] \in CallStates
      BY <1>1, <3>1, AtIsState
    <3> QED BY <3>2, ThenIsState DEF Thens
  <2>2. /\ s.stage = "evidence" /\ s.then = "release" /\ s.at = i
        /\ s.made = act[a].made /\ s.request = act[a].request /\ s.policy = act[a].policy
        /\ s.outcome = act[a].outcome /\ s.call = act[a].call /\ s.result = act[a].result
        /\ s.generation = act[a].generation
    BY <1>0 DEF CallStates
  <2>4. act' = [act EXCEPT ![a] = s]
    BY <1>2
  <2> HIDE DEF s
  <2>3. CallFits(s, invocations, evidence, calls)
    <3>1. Own(s, s.at, invocations)
      BY <1>1, <2>2 DEF Own
    <3> QED BY <1>0, <2>2, <3>1 DEF CallFits
  <2> QED BY <1>0, <2>1, <2>2, <2>3, <2>4, Becomes, QuietMove
<1>3. CASE /\ act[a].commit[2].policy # "required"
           /\ act' = [act EXCEPT ![a].stage = "release", ![a].at = i]
  <2> DEFINE s == [act[a] EXCEPT !.stage = "release", !.at = i]
  <2>1. s \in CallStates
    <3>1. [act[a] EXCEPT !.stage = "release"] \in CallStates
      BY <1>0, StageIsState DEF CallStages
    <3> QED BY <1>1, <3>1, AtIsState
  <2>2. /\ s.stage = "release" /\ s.at = i
        /\ s.made = act[a].made /\ s.request = act[a].request /\ s.policy = act[a].policy
        /\ s.outcome = act[a].outcome /\ s.call = act[a].call /\ s.result = act[a].result
        /\ s.generation = act[a].generation
    BY <1>0 DEF CallStates
  <2>4. act' = [act EXCEPT ![a] = s]
    BY <1>3
  <2> HIDE DEF s
  <2>3. CallFits(s, invocations, evidence, calls)
    <3>1. Own(s, s.at, invocations) /\ Usable(s, s.at, invocations, evidence)
      BY <1>1, <1>3, <2>2 DEF Own, Usable
    <3> QED BY <1>0, <2>2, <3>1 DEF CallFits
  <2> QED BY <1>0, <2>1, <2>2, <2>3, <2>4, Becomes, QuietMove
<1> QED BY <1>2, <1>3 DEF AfterSettled, i

LEMMA ReleaseOutcomeFits ==
    ASSUME InvocationInv, NEW a \in Activations, ReleaseOutcome(a)
    PROVE  InvocationInv'
<1> DEFINE next == act[a].made + 1
<1>0. /\ act \in [Activations -> CallStates] /\ act[a] \in CallStates
      /\ CallFits(act[a], invocations, evidence, calls)
      /\ act[a].stage = "release" /\ UNCHANGED <<leaseVars, invocationTables, calls>>
  BY CallNow DEF ReleaseOutcome
<1>1. /\ Own(act[a], act[a].at, invocations) /\ Usable(act[a], act[a].at, invocations, evidence)
      /\ act[a].made \in Nat
  BY <1>0 DEF CallFits, CallStates
<1>2. CASE act[a].outcome = "answer" /\ FinishCall(a, "turn")
  <2> DEFINE s == [NoCall EXCEPT !.stage = "done", !.result = "turn",
                                 !.generation = act[a].generation,
                                 !.request = act[a].request, !.call = act[a].call, !.at = act[a].at]
  <2>1. Moves(a) /\ act'[a] = s
    BY <1>0, <1>2, FinishCallMoves DEF Results
  <2>2. CallFits(s, invocations, evidence, calls)
    BY <1>1, <1>2 DEF CallFits, NoCall, Usable, Own
  <2>3. s.stage = "done" /\ s.generation = act[a].generation
    BY DEF NoCall
  <2> HIDE DEF s
  <2> QED BY <1>0, <2>1, <2>2, <2>3, QuietMove
<1>3. CASE act[a].outcome \in Refusals /\ FinishCall(a, "refused")
  BY <1>0, <1>3, FinishFits DEF Results
<1>4. CASE /\ MayRetry(next, act[a].outcome)
           /\ act' = [act EXCEPT ![a].stage = "reserve", ![a].made = next]
  <2> DEFINE s == [act[a] EXCEPT !.stage = "reserve", !.made = next]
  <2>1. s \in CallStates
    <3>1. [act[a] EXCEPT !.stage = "reserve"] \in CallStates
      BY <1>0, StageIsState DEF CallStages
    <3>2. next \in Nat
      BY <1>1
    <3> QED BY <3>1, <3>2, MadeIsState
  <2>2. s.made = next /\ s.stage = "reserve" /\ s.generation = act[a].generation
    BY <1>0 DEF CallStates
  <2>3. CallFits(s, invocations, evidence, calls)
    <3>1. 3 * next <= Len(invocations) /\ invocations[3 * next].state = "settled"
             /\ invocations[3 * next].outcome = "retryable"
      <4>1. 3 * next = act[a].at
        BY <1>1 DEF Own
      <4> QED BY <1>1, <1>4, <4>1 DEF Own, MayRetry
    <3> HIDE DEF next
    <3> QED BY <1>0, <2>2, <3>1 DEF CallFits, CallStates
  <2>4. act' = [act EXCEPT ![a] = s]
    BY <1>4
  <2> HIDE DEF s
  <2> QED BY <1>0, <2>1, <2>2, <2>3, <2>4, Becomes, QuietMove
<1> QED BY <1>2, <1>3, <1>4 DEF ReleaseOutcome

LEMMA RaisesFit ==
    ASSUME InvocationInv, NEW a \in Activations, CallFenced(a) \/ CallStops(a)
    PROVE  InvocationInv'
BY FinishFits DEF CallFenced, CallStops, Results

-----------------------------------------------------------------------------
(* Steps that change the tables *)

\* The journal and the evidence only grow, so what an activation holds stays.
LEMMA CallFitsKept ==
    ASSUME NEW s \in CallStates, NEW j, NEW k, NEW e, NEW f, NEW c,
           Len(j) \in Nat, Len(k) \in Nat, Len(j) <= Len(k), e \subseteq f,
           \A i \in 1 .. Len(j) : k[i] = j[i],
           CallFits(s, j, e, c)
    PROVE  CallFits(s, k, f, c)
<1>1. s.made \in Nat
  BY DEF CallStates
<1>2. \A n \in {1, 2} : Reached(s, j, n) => Reached(s, k, n)
  BY <1>1 DEF Reached
<1>3. \A i : Usable(s, i, j, e) => Usable(s, i, k, f)
  BY DEF Usable
<1>4. \A i : Own(s, i, j) => Own(s, i, k)
  BY <1>1 DEF Own
<1>5. s.made # 0 /\ 3 * s.made <= Len(j) => 3 * s.made \in 1 .. Len(j)
  BY <1>1
<1>6. s.stage = "commit" => CommitFits(s, s.commit[1], s.commit[2], s.then, k, f, c)
  BY <1>3 DEF CallFits, CommitFits, Usable
<1> QED
  <2>1. s.stage = "settled" => s.commit[2] = k[s.commit[1]]
    <3>1. ASSUME Own(s, s.commit[1], j) PROVE s.commit[1] \in 1 .. Len(j)
      BY <1>1, <3>1 DEF Own
    <3> QED BY <3>1 DEF CallFits
  <2>2. s.stage = "recovered" => s.commit[2] = k[s.commit[1]]
    BY DEF CallFits, Usable
  <2>3. s.result = "turn" => k[s.at] = j[s.at]
    BY DEF CallFits, Usable
  <2> QED BY <1>1, <1>2, <1>3, <1>4, <1>5, <1>6, <2>1, <2>2, <2>3 DEF CallFits

\* A record that is inserted continues the journal.
LEMMA Inserted ==
    ASSUME InvocationInv, NEW a \in Activations, act[a].stage = "commit",
           InvocationVerdict(act[a].commit[1], act[a].commit[2]) = "committed",
           InsertInvocation(act[a].commit[1], act[a].commit[2]), UNCHANGED calls
    PROVE  /\ invocations' \in Seq(Records) /\ TablesFit'
           /\ Len(invocations') = Len(invocations) + 1 /\ act[a].commit[1] = Len(invocations) + 1
           /\ invocations'[Len(invocations) + 1] = act[a].commit[2]
           /\ \A i \in 1 .. Len(invocations) : invocations'[i] = invocations[i]
<1> DEFINE revision == act[a].commit[1]
           record == act[a].commit[2]
           n == Len(invocations)
<1>0. /\ invocations \in Seq(Records) /\ n \in Nat /\ revision \in Nat \ {0} /\ record \in Records
      /\ CommitFits(act[a], revision, record, act[a].then, invocations, evidence, calls)
      /\ act[a] \in CallStates /\ act[a].made \in Nat
  BY CallNow DEF CallFits, CallStates
<1>1. revision = n + 1 /\ InvocationTransition(record)
  BY <1>0 DEF InvocationVerdict
<1>2. invocations' = Append(invocations, record)
  BY DEF InsertInvocation
<1>3. /\ invocations' \in Seq(Records) /\ Len(invocations') = n + 1
      /\ \A i \in 1 .. n : invocations'[i] = invocations[i]
      /\ invocations'[n + 1] = record
  BY <1>0, <1>2, AppendProperties
<1>4. /\ RecordFits(record) /\ act[a].then # "recovered"
      /\ record.state = "settled" => record.call \in 1 .. Len(calls) /\ calls[record.call].attempt = record.attempt
  BY <1>0, <1>1 DEF CommitFits, Usable, Entered
<1>5. Place(record) = n + 1
  <2>1. CASE invocations = <<>>
    BY <1>0, <1>1, <2>1, Places DEF InvocationTransition
  <2>2. CASE invocations # <<>>
    <3>1. Newest \in Records /\ Place(Newest) = n
      BY <2>2, CallNow
    <3>2. \/ /\ Newest.state = "settled" /\ record.state = "reserved"
             /\ record.attempt = Newest.attempt + 1
          \/ /\ record.attempt = Newest.attempt
             /\ \/ Newest.state = "reserved" /\ record.state = "dispatch_started"
                \/ Newest.state = "dispatch_started" /\ record.state \in {"settled", "unknown"}
      BY <1>1, <2>2 DEF InvocationTransition
    <3>3. Newest.attempt \in Nat /\ record.attempt \in Nat
      BY <1>0, <3>1, Places
    <3>4. record \in Records
      BY <1>0
    <3> HIDE DEF n, record
    <3>5. CASE Newest.state = "settled" /\ record.state = "reserved"
      BY <3>1, <3>2, <3>3, <3>4, <3>5, Places
    <3>6. CASE Newest.state = "reserved" /\ record.state = "dispatch_started"
      BY <3>1, <3>2, <3>3, <3>4, <3>6, Places
    <3>7. CASE Newest.state = "dispatch_started" /\ record.state \in {"settled", "unknown"}
      BY <3>1, <3>2, <3>3, <3>4, <3>7, Places
    <3> QED BY <3>2, <3>5, <3>6, <3>7
  <2> QED BY <2>1, <2>2
<1>6. record.request = invocations'[1].request /\ record.key = invocations'[1].key
  <2>1. CASE invocations = <<>>
    BY <1>3, <2>1
  <2>2. CASE invocations # <<>>
    BY <1>0, <1>1, <1>3, <2>2, CallNow DEF InvocationTransition
  <2> QED BY <2>1, <2>2
\* What the new record follows is a proven refusal, or not an end.
<1>7. ASSUME n # 0
      PROVE  /\ invocations[n].state # "unknown"
             /\ invocations[n].state = "settled" => invocations[n].outcome = "retryable"
  <2>1. invocations # <<>> /\ Newest = invocations[n] /\ Newest \in Records /\ Place(Newest) = n
    BY <1>7, CallNow
  <2>2. Newest.state # "unknown"
    BY <1>1, <2>1 DEF InvocationTransition
  <2>3. ASSUME Newest.state = "settled" PROVE Newest.outcome = "retryable"
    <3>1. record.state = "reserved" /\ record.attempt = Newest.attempt + 1
      BY <1>1, <2>1, <2>3 DEF InvocationTransition
    <3>2. act[a].then = "reserved"
      BY <1>0, <1>4, <3>1 DEF CommitFits
    <3>3. act[a].made = Newest.attempt /\ act[a].made # 0
      <4>1. record.attempt = act[a].made + 1
        BY <1>0, <3>2 DEF CommitFits
      <4>2. Newest.attempt \in Nat \ {0} /\ act[a].made \in Nat
        BY <1>0, <2>1, Places
      <4> QED BY <3>1, <4>1, <4>2
    <3>4. 3 * act[a].made = n
      BY <2>1, <2>3, <3>3, Places
    <3> QED BY <2>1, <3>3, <3>4, CallNow DEF CallFits
  <2> QED BY <2>1, <2>2, <2>3
<1> HIDE DEF n, record, revision
<1>8. JournalFits(invocations', calls')
  <2>1. JournalFits(invocations, calls)
    BY DEF InvocationInv, TablesFit
  <2>2. ASSUME NEW i \in 1 .. n
        PROVE  /\ RecordFits(invocations[i]) /\ Place(invocations[i]) = i
               /\ invocations[i].request = invocations'[1].request
               /\ invocations[i].key = invocations'[1].key
               /\ invocations[i].state # "unknown"
               /\ invocations[i].state = "settled" =>
                    /\ invocations[i].outcome = "retryable"
                    /\ invocations[i].call \in 1 .. Len(calls)
                    /\ calls[invocations[i].call].attempt = invocations[i].attempt
    <3>1. 1 \in 1 .. n /\ i <= n /\ n # 0
      BY <1>0
    <3> QED BY <1>0, <1>3, <1>7, <2>1, <3>1 DEF JournalFits, n
  <2> QED BY <1>0, <1>3, <1>4, <1>5, <1>6, <2>2 DEF JournalFits
<1>9. EntriesFit(invocations', calls')
  <2>1. EntriesFit(invocations, calls) /\ calls \in Seq(Entries)
    BY DEF InvocationInv, InvocationTypeOK, TablesFit
  <2>2. ASSUME NEW i \in 1 .. Len(calls)
        PROVE  /\ 3 * calls[i].attempt <= n + 2
               /\ calls[i].request = invocations'[1].request
               /\ calls[i].key = invocations'[1].key
    <3>1. calls[i] \in Entries /\ calls[i].attempt \in Nat \ {0} /\ 3 * calls[i].attempt <= n + 1
      <4>1. calls[i] \in Entries
        BY <2>1, ElementOfSeq
      <4> QED BY <2>1, <4>1 DEF EntriesFit, Entries, n
    <3>2. 1 \in 1 .. n
      BY <1>0, <3>1
    <3>3. calls[i].request = invocations[1].request /\ calls[i].key = invocations[1].key
      BY <2>1 DEF EntriesFit
    <3> QED BY <1>0, <1>3, <3>1, <3>2, <3>3
  <2> QED BY <1>0, <1>3, <2>1, <2>2 DEF EntriesFit
<1>10. EvidenceFits(invocations', evidence', staged')
  <2>1. EvidenceFits(invocations, evidence, staged)
    BY DEF InvocationInv, TablesFit
  <2>2. evidence' = evidence /\ staged' = IF Stages(record) THEN staged \union {n + 1} ELSE staged
    BY <1>1 DEF InsertInvocation, record, n, revision
  <2>3. n + 1 \notin staged
    BY <1>0, <2>1 DEF EvidenceFits, n
  <2>4. \A i \in 1 .. n + 1 : i \in staged' <=> Stages(invocations'[i])
    BY <1>0, <1>3, <2>1, <2>2, <2>3 DEF EvidenceFits, n
  <2>5. staged' \subseteq 1 .. n + 1
    <3>1. staged \subseteq 1 .. n
      BY <2>1 DEF EvidenceFits, n
    <3>2. 1 .. n \subseteq 1 .. n + 1 /\ n + 1 \in 1 .. n + 1
      BY <1>0
    <3> HIDE DEF n
    <3> QED BY <2>2, <3>1, <3>2
  <2>6. \A i \in evidence' : i \in 1 .. n + 1 /\ invocations'[i].state = "settled"
    BY <1>0, <1>3, <2>1, <2>2 DEF EvidenceFits, n
  <2> QED BY <1>3, <2>4, <2>5, <2>6 DEF EvidenceFits
<1> QED BY <1>1, <1>3, <1>8, <1>9, <1>10 DEF TablesFit, n, record, revision

\* Activation a moves with the tables, which only the current one may write.
LEMMA TablesMove ==
    ASSUME InvocationInv, NEW a \in Activations, Moves(a), UNCHANGED <<leaseVars, calls>>,
           invocations' \in Seq(Records), TablesFit',
           Len(invocations) <= Len(invocations'),
           \A i \in 1 .. Len(invocations) : invocations'[i] = invocations[i],
           evidence \subseteq evidence',
           CallIsCurrent(a) \/ UNCHANGED invocations,
           CallFits(act'[a], invocations', evidence', calls),
           act'[a].stage # "commit", act'[a].generation = act[a].generation,
           act'[a].stage = "provider" =>
               \A b \in Activations : act[b].stage = "provider" => act[b].made # act'[a].made
    PROVE  InvocationInv'
<1> USE DEF leaseVars
<1>1. InvocationTypeOK'
  BY DEF InvocationInv, InvocationTypeOK, Moves
<1>2. CallsFit'
  <2>1. ASSUME NEW b \in Activations, b # a
        PROVE  CallFits(act'[b], invocations', evidence', calls)
    <3>1. act'[b] = act[b]
      BY <2>1 DEF Moves
    <3>2. Len(invocations') \in Nat
      BY LenProperties
    <3> QED BY <3>1, <3>2, CallNow, CallFitsKept
  <2> QED BY <2>1 DEF CallsFit
<1>3. DispatchesAreOwned'
  <2>1. \A b, c \in Activations :
           b # c /\ act'[b].stage = "provider" /\ act'[c].stage = "provider" => act'[b].made # act'[c].made
    BY DEF InvocationInv, DispatchesAreOwned, Moves
  <2>2. ASSUME NEW b \in Activations
        PROVE  /\ act'[b].generation <= generation'
               /\ CallIsCurrent(b)' /\ act'[b].stage = "commit" /\ act'[b].then = "provider" =>
                     act'[b].commit[1] = Len(invocations') + 1
    <3>1. CASE b = a
      BY <3>1 DEF InvocationInv, DispatchesAreOwned
    <3>2. CASE b # a
      BY <3>2 DEF InvocationInv, DispatchesAreOwned, Moves, CallIsCurrent, Holds
    <3> QED BY <3>1, <3>2
  <2> QED BY <2>1, <2>2 DEF DispatchesAreOwned
<1> QED BY <1>1, <1>2, <1>3 DEF InvocationInv

\* A finished call needs nothing of the tables.
LEMMA FinishMovesTables ==
    ASSUME InvocationInv, NEW a \in Activations, NEW result \in Results \ {"turn"},
           FinishCall(a, result), UNCHANGED <<leaseVars, calls>>,
           invocations' \in Seq(Records), TablesFit',
           Len(invocations) <= Len(invocations'),
           \A i \in 1 .. Len(invocations) : invocations'[i] = invocations[i],
           evidence \subseteq evidence',
           CallIsCurrent(a) \/ UNCHANGED invocations
    PROVE  InvocationInv'
<1>1. /\ Moves(a)
      /\ act'[a] = [NoCall EXCEPT !.stage = "done", !.result = result,
                                  !.generation = act[a].generation,
                                  !.request = act[a].request, !.call = act[a].call,
                                  !.at = act[a].at]
  BY FinishCallMoves, CallNow DEF Results
<1>2. CallFits(act'[a], invocations', evidence', calls)
  BY <1>1 DEF CallFits, NoCall, Results
<1>3. act'[a].stage = "done" /\ act'[a].generation = act[a].generation
  BY <1>1 DEF NoCall
<1> QED BY <1>1, <1>2, <1>3, TablesMove

\* Whatever the verdict was, an accepted record is in the journal.
LEMMA Accepted ==
    ASSUME InvocationInv, NEW a \in Activations, act[a].stage = "commit", UNCHANGED calls,
           \/ /\ InvocationVerdict(act[a].commit[1], act[a].commit[2]) = "committed"
              /\ InsertInvocation(act[a].commit[1], act[a].commit[2])
           \/ /\ InvocationVerdict(act[a].commit[1], act[a].commit[2]) = "already_committed"
              /\ UNCHANGED invocationTables
    PROVE  /\ invocations' \in Seq(Records) /\ TablesFit'
           /\ Len(invocations) <= Len(invocations') /\ evidence' = evidence
           /\ \A i \in 1 .. Len(invocations) : invocations'[i] = invocations[i]
           /\ act[a].commit[1] \in 1 .. Len(invocations')
           /\ invocations'[act[a].commit[1]] = act[a].commit[2]
<1>0. /\ act[a].commit[1] \in Nat \ {0} /\ invocations \in Seq(Records) /\ Len(invocations) \in Nat
  BY CallNow DEF CallFits
<1>1. CASE /\ InvocationVerdict(act[a].commit[1], act[a].commit[2]) = "committed"
           /\ InsertInvocation(act[a].commit[1], act[a].commit[2])
  <2>1. evidence' = evidence
    BY <1>1 DEF InsertInvocation
  <2>2. /\ invocations' \in Seq(Records) /\ TablesFit'
        /\ Len(invocations') = Len(invocations) + 1 /\ act[a].commit[1] = Len(invocations) + 1
        /\ invocations'[Len(invocations) + 1] = act[a].commit[2]
        /\ \A i \in 1 .. Len(invocations) : invocations'[i] = invocations[i]
    BY <1>1, Inserted
  <2> QED BY <1>0, <2>1, <2>2
<1>2. CASE /\ InvocationVerdict(act[a].commit[1], act[a].commit[2]) = "already_committed"
           /\ UNCHANGED invocationTables
  <2>1. act[a].commit[1] <= Len(invocations) /\ invocations[act[a].commit[1]] = act[a].commit[2]
    BY <1>2 DEF InvocationVerdict
  <2>2. TablesFit'
    BY <1>2 DEF InvocationInv, TablesFit, invocationTables
  <2> QED BY <1>0, <1>2, <2>1, <2>2 DEF invocationTables
<1> QED BY <1>1, <1>2

LEMMA CommitInvocationFits ==
    ASSUME InvocationInv, NEW a \in Activations, CommitInvocation(a)
    PROVE  InvocationInv'
<1> DEFINE i == act[a].commit[1]
           record == act[a].commit[2]
<1>0. /\ act \in [Activations -> CallStates] /\ act[a] \in CallStates
      /\ CallFits(act[a], invocations, evidence, calls)
      /\ act[a].stage = "commit" /\ CallIsCurrent(a) /\ UNCHANGED <<leaseVars, calls>>
      /\ CommitFits(act[a], i, record, act[a].then, invocations, evidence, calls)
      /\ i \in Nat \ {0} /\ record \in Records /\ act[a].made \in Nat /\ Len(invocations) \in Nat
      /\ act[a].commit \in (Nat \ {0}) \X Records
  BY CallNow DEF CommitInvocation, CallFits, CallStates
<1>1. /\ invocations' \in Seq(Records) /\ TablesFit'
      /\ Len(invocations) <= Len(invocations') /\ evidence' = evidence
      /\ \A k \in 1 .. Len(invocations) : invocations'[k] = invocations[k]
      /\ i \in 1 .. Len(invocations') /\ invocations'[i] = record
  <2>1. \/ InvocationVerdict(i, record) = "committed" /\ InsertInvocation(i, record)
        \/ InvocationVerdict(i, record) = "already_committed" /\ UNCHANGED invocationTables
    BY DEF CommitInvocation, InvocationVerdict
  <2> QED BY <1>0, <2>1, Accepted
<1>2. Place(record) = i /\ record.request = invocations'[1].request /\ record.key = invocations'[1].key
  BY <1>1 DEF TablesFit, JournalFits
<1>3. CallFits(act[a], invocations', evidence', calls)
  <2>1. Len(invocations') \in Nat
    BY <1>1, LenProperties
  <2> QED BY <1>0, <1>1, <2>1, CallFitsKept
<1>4. CASE act[a].then = "doubted"
  <2>1. FinishCall(a, "dispatch_unknown")
    BY <1>4 DEF CommitInvocation
  <2> QED BY <1>0, <1>1, <2>1, FinishMovesTables DEF Results
<1>5. CASE act[a].then # "doubted"
  <2> DEFINE s == [act[a] EXCEPT !.stage = act[a].then, !.key = record.key]
  <2>1. act' = [act EXCEPT ![a] = s]
    BY <1>5 DEF CommitInvocation
  <2>2. act[a].then \in {"reserved", "provider", "settled", "recovered"} /\ record.key \in Nat
    BY <1>0, <1>5, Places DEF CommitFits
  <2>3. s \in CallStates
    <3>1. [act[a] EXCEPT !.stage = act[a].then] \in CallStates
      BY <1>0, <2>2, StageIsState DEF CallStages
    <3> QED BY <2>2, <3>1, KeyIsState
  <2>4. /\ s.stage = act[a].then /\ s.key = record.key /\ s.generation = act[a].generation
        /\ s.commit = act[a].commit
        /\ s.made = act[a].made /\ s.request = act[a].request /\ s.policy = act[a].policy
        /\ s.outcome = act[a].outcome /\ s.call = act[a].call /\ s.result = act[a].result
    BY <1>0 DEF CallStates
  <2> HIDE DEF s
  <2>5. s.stage = "reserved" => Reached(s, invocations', 1)
    BY <1>0, <1>1, <1>2, <2>4, Places DEF CommitFits, Reached
  <2>6. s.stage = "provider" =>
           /\ Reached(s, invocations', 2)
           /\ i = Len(invocations) + 1 /\ i = 3 * s.made + 2
    <3>1. CallIsCurrent(a) /\ act[a].then = "provider" => i = Len(invocations) + 1
      BY <1>0 DEF InvocationInv, DispatchesAreOwned
    <3>2. ASSUME s.stage = "provider" PROVE i = 3 * s.made + 2
      <4>1. record.state = "dispatch_started" /\ record.attempt = s.made + 1 /\ s.made \in Nat
        BY <1>0, <2>4, <3>2 DEF CommitFits
      <4>2. record \in Records /\ Place(record) = i
        BY <1>0, <1>2
      <4> HIDE DEF i, record
      <4> QED BY <4>1, <4>2, Places
    <3>3. ASSUME s.stage = "provider" PROVE s.request = record.request
      BY <1>0, <2>4, <3>3 DEF CommitFits
    <3> QED BY <1>0, <1>1, <1>2, <2>4, <3>1, <3>2, <3>3 DEF Reached
  <2>7. s.stage = "provider" => \A k \in 1 .. Len(calls) : calls[k].attempt # s.made + 1
    <3>1. ASSUME NEW k \in 1 .. Len(calls)
          PROVE  calls[k].attempt \in Nat /\ 3 * calls[k].attempt <= Len(invocations) + 1
      <4>1. calls[k] \in Entries
        BY ElementOfSeq DEF InvocationInv, InvocationTypeOK
      <4> QED BY <4>1 DEF InvocationInv, TablesFit, EntriesFit, Entries
    <3> QED BY <1>0, <2>4, <2>6, <3>1
  <2>8. s.stage = "provider" =>
           \A b \in Activations : act[b].stage = "provider" => act[b].made # s.made
    <3>1. ASSUME NEW b \in Activations, act[b].stage = "provider"
          PROVE  act[b].made \in Nat /\ 3 * act[b].made + 2 <= Len(invocations)
      BY <3>1, CallNow DEF CallFits, Reached, CallStates
    <3>2. s.made \in Nat /\ Len(invocations) \in Nat
      BY <1>0, <2>4
    <3> QED BY <2>6, <3>1, <3>2
  <2>9. s.stage = "settled" =>
           Own(s, i, invocations') /\ s.commit[2] = invocations'[i] /\ s.commit[1] = i
    <3>1. ASSUME s.stage = "settled" PROVE i = 3 * s.made + 3
      BY <1>0, <1>2, <2>4, <3>1, Places DEF CommitFits
    <3>2. ASSUME s.stage = "settled"
          PROVE  /\ record.state = "settled" /\ record.outcome = s.outcome
                 /\ record.call = s.call /\ record.request = s.request
      BY <1>0, <2>4, <3>2 DEF CommitFits
    <3>3. i <= Len(invocations') /\ s.commit[2] = record /\ s.commit[1] = i
      BY <1>1, <2>4
    <3> QED BY <1>1, <3>1, <3>2, <3>3 DEF Own
  <2>10. s.stage = "recovered" =>
           Usable(s, i, invocations', evidence') /\ s.commit[2] = invocations'[i] /\ s.commit[1] = i
    BY <1>0, <1>1, <2>4 DEF CommitFits, Usable
  <2>11. s.result = "none"
    BY <1>0, <2>4 DEF CallFits
  <2>12. s.commit \in (Nat \ {0}) \X Records /\ s.commit[1] = i
    BY <1>0, <2>4
  <2> HIDE DEF i, record
  <2>13. CallFits(s, invocations', evidence', calls)
    BY <1>0, <1>3, <2>2, <2>4, <2>5, <2>6, <2>7, <2>9, <2>10, <2>11, <2>12 DEF CallFits
  <2>14. Moves(a) /\ act'[a] = s
    BY <1>0, <2>1, <2>3, Becomes
  <2> QED BY <1>0, <1>1, <2>2, <2>4, <2>8, <2>13, <2>14, TablesMove
<1> QED BY <1>4, <1>5

LEMMA CommitErrsFits ==
    ASSUME InvocationInv, NEW a \in Activations, CommitErrs(a)
    PROVE  InvocationInv'
<1> DEFINE i == act[a].commit[1]
           record == act[a].commit[2]
<1>0. /\ act \in [Activations -> CallStates] /\ act[a] \in CallStates
      /\ CallFits(act[a], invocations, evidence, calls) /\ Len(invocations) \in Nat
      /\ act[a].stage = "commit" /\ UNCHANGED <<leaseVars, calls>>
  BY CallNow DEF CommitErrs
<1>1. /\ invocations' \in Seq(Records) /\ TablesFit'
      /\ Len(invocations) <= Len(invocations') /\ evidence' = evidence
      /\ \A k \in 1 .. Len(invocations) : invocations'[k] = invocations[k]
      /\ CallIsCurrent(a) \/ UNCHANGED invocations
  <2>1. CASE UNCHANGED invocationTables
    <3>1. TablesFit'
      BY <1>0, <2>1 DEF InvocationInv, TablesFit, invocationTables
    <3> QED BY <1>0, <2>1, <3>1, CallNow DEF invocationTables
  <2>2. CASE CallIsCurrent(a) /\ InvocationVerdict(i, record) = "committed" /\ InsertInvocation(i, record)
    BY <1>0, <2>2, Accepted
  <2> QED BY <2>1, <2>2 DEF CommitErrs
<1>2. CASE act[a].then = "settled"
  <2>1. Moves(a) /\ act'[a] = [act[a] EXCEPT !.stage = "doubt"]
    BY <1>0, <1>2, CallBecomesMoves DEF CommitErrs, CallStages
  <2>2. CallFits(act'[a], invocations', evidence', calls)
    <3>1. CallFits(act[a], invocations', evidence', calls)
      <4>1. Len(invocations') \in Nat
        BY <1>1, LenProperties
      <4> QED BY <1>0, <1>1, <4>1, CallFitsKept
    <3> QED BY <1>0, <2>1, <3>1 DEF CallFits, CallStates
  <2>3. act'[a].stage = "doubt" /\ act'[a].generation = act[a].generation
    BY <1>0, <2>1 DEF CallStates
  <2> QED BY <1>0, <1>1, <2>1, <2>2, <2>3, TablesMove
<1>3. CASE act[a].then # "settled"
  <2>1. \E result \in {"dispatch_unknown", "conflict"} : FinishCall(a, result)
    BY <1>3 DEF CommitErrs
  <2> QED BY <1>0, <1>1, <2>1, FinishMovesTables DEF Results
<1> QED BY <1>2, <1>3

LEMMA CommitEvidenceFits ==
    ASSUME InvocationInv, NEW a \in Activations, CommitEvidence(a) \/ EvidenceErrs(a)
    PROVE  InvocationInv'
<1>0. /\ act \in [Activations -> CallStates] /\ act[a] \in CallStates
      /\ CallFits(act[a], invocations, evidence, calls)
      /\ act[a].stage = "evidence" /\ UNCHANGED <<leaseVars, invocations, staged, calls>>
      /\ invocations \in Seq(Records) /\ Len(invocations) \in Nat
  BY CallNow DEF CommitEvidence, EvidenceErrs
<1>1. /\ act[a].at \in 1 .. Len(invocations) /\ invocations[act[a].at].state = "settled"
      /\ act[a].then = "decide" \/ (act[a].then = "release" /\ Own(act[a], act[a].at, invocations))
  <2>1. act[a].made \in Nat
    BY <1>0 DEF CallStates
  <2>2. ASSUME Own(act[a], act[a].at, invocations)
        PROVE  act[a].at \in 1 .. Len(invocations) /\ invocations[act[a].at].state = "settled"
    BY <1>0, <2>1, <2>2 DEF Own
  <2> QED BY <1>0, <2>2 DEF CallFits
<1>2. evidence' \in {evidence, evidence \union {act[a].at}}
  BY DEF CommitEvidence, EvidenceErrs
<1>3. TablesFit'
  <2>1. EvidenceFits(invocations, evidence', staged)
    BY <1>1, <1>2 DEF InvocationInv, TablesFit, EvidenceFits
  <2> QED BY <1>0, <2>1 DEF InvocationInv, TablesFit
<1>4. /\ invocations' \in Seq(Records) /\ Len(invocations) <= Len(invocations')
      /\ \A i \in 1 .. Len(invocations) : invocations'[i] = invocations[i]
      /\ evidence \subseteq evidence' /\ UNCHANGED invocations /\ UNCHANGED <<leaseVars, calls>>
  BY <1>0, <1>2
<1>5. CASE CommitEvidence(a)
  <2>1. Moves(a) /\ act'[a] = [act[a] EXCEPT !.stage = act[a].then]
    <3>1. act[a].then \in CallStages
      BY <1>1 DEF CallStages
    <3> QED BY <1>0, <1>5, <3>1, CallBecomesMoves DEF CommitEvidence
  <2> DEFINE s == act'[a]
  <2>2. /\ s.stage = act[a].then /\ s.then = act[a].then /\ s.at = act[a].at
        /\ s.made = act[a].made /\ s.request = act[a].request /\ s.policy = act[a].policy
        /\ s.outcome = act[a].outcome /\ s.call = act[a].call /\ s.result = act[a].result
        /\ s.generation = act[a].generation
    BY <1>0, <2>1 DEF CallStates
  <2>3. act[a].at \in evidence'
    BY <1>5 DEF CommitEvidence
  <2> HIDE DEF s
  <2>4. s.stage = "release" =>
           Own(s, s.at, invocations) /\ Usable(s, s.at, invocations, evidence')
    BY <1>1, <2>2, <2>3 DEF Own, Usable
  <2>5. CallFits(s, invocations, evidence', calls)
    BY <1>0, <1>1, <2>2, <2>3, <2>4 DEF CallFits
  <2>6. CallFits(act'[a], invocations', evidence', calls)
    BY <1>0, <2>5 DEF s
  <2>7. act'[a].stage \in {"decide", "release"} /\ act'[a].generation = act[a].generation
    BY <1>1, <2>2 DEF s
  <2> QED BY <1>0, <1>3, <1>4, <2>1, <2>6, <2>7, TablesMove
<1>6. CASE EvidenceErrs(a)
  <2>1. FinishCall(a, "evidence_uncommitted")
    BY <1>6 DEF EvidenceErrs
  <2>2. "evidence_uncommitted" \in Results \ {"turn"}
    BY DEF Results
  <2> QED BY <1>3, <1>4, <2>1, <2>2, FinishMovesTables
<1> QED BY <1>5, <1>6

LEMMA EnterProviderFits ==
    ASSUME InvocationInv, NEW a \in Activations, EnterProvider(a)
    PROVE  InvocationInv'
<1> DEFINE n == Len(calls) + 1
           entry == [attempt |-> act[a].made + 1, request |-> act[a].request,
                     key |-> act[a].key, by |-> act[a].generation]
           s == [act[a] EXCEPT !.stage = "calling", !.call = n]
<1>0. /\ act \in [Activations -> CallStates] /\ act[a] \in CallStates
      /\ CallFits(act[a], invocations, evidence, calls)
      /\ act[a].stage = "provider" /\ UNCHANGED <<leaseVars, invocationTables>>
      /\ invocations \in Seq(Records) /\ Len(invocations) \in Nat
      /\ calls' = Append(calls, entry) /\ act' = [act EXCEPT ![a] = s]
  BY CallNow DEF EnterProvider
<1>1. /\ Reached(act[a], invocations, 2) /\ act[a].made \in Nat
      /\ \A i \in 1 .. Len(calls) : calls[i].attempt # act[a].made + 1
      /\ act[a].result = "none"
  BY <1>0 DEF CallFits, CallStates
<1>2. calls \in Seq(Entries) /\ entry \in Entries /\ Len(calls) \in Nat
  <2>1. calls \in Seq(Entries)
    BY DEF InvocationInv, InvocationTypeOK
  <2>2. act[a].request \in Requests /\ act[a].key \in Nat /\ act[a].generation \in Nat
    BY <1>0 DEF CallFits, CallStates
  <2> QED BY <1>1, <2>1, <2>2, LenProperties DEF Entries
<1>3. /\ entry.attempt = act[a].made + 1 /\ entry.request = invocations[1].request
      /\ entry.key = invocations[1].key
  BY <1>1 DEF Reached
<1> HIDE DEF entry
<1>4. /\ calls' \in Seq(Entries) /\ Len(calls') = n
      /\ \A i \in 1 .. Len(calls) : calls'[i] = calls[i]
      /\ calls'[n] = entry
  BY <1>0, <1>2, AppendProperties
<1>5. \A i \in 1 .. Len(calls) : calls[i] \in Entries /\ calls[i].attempt \in Nat
  <2>1. \A i \in 1 .. Len(calls) : calls[i] \in Entries
    BY <1>2, ElementOfSeq
  <2> QED BY <2>1 DEF Entries
<1>6. s \in CallStates /\ s.stage = "calling" /\ s.call = n /\ s.made = act[a].made
          /\ s.request = act[a].request /\ s.policy = act[a].policy /\ s.result = act[a].result
          /\ s.generation = act[a].generation
  <2>1. [act[a] EXCEPT !.stage = "calling"] \in CallStates
    BY <1>0, StageIsState DEF CallStages
  <2>2. s \in CallStates
    <3>1. n \in Nat
      BY <1>2
    <3> HIDE DEF n
    <3> QED BY <2>1, <3>1, EntryIsState
  <2> QED BY <1>0, <2>2 DEF CallStates
<1>7. Moves(a) /\ act'[a] = s
  BY <1>0, <1>6, Becomes
<1> HIDE DEF s
<1>8. JournalFits(invocations, calls')
  <2>1. JournalFits(invocations, calls)
    BY DEF InvocationInv, TablesFit
  <2> QED BY <1>2, <1>4, <2>1 DEF JournalFits
\* A later entry would mean that this attempt was settled, by an entry of its own.
<1>9. ASSUME NEW i \in 1 .. Len(calls) PROVE calls[i].attempt < entry.attempt
  <2>1. /\ 3 * calls[i].attempt <= Len(invocations) + 1
        /\ calls[i].attempt # act[a].made + 1
    BY <1>1 DEF InvocationInv, TablesFit, EntriesFit
  <2>2. ASSUME calls[i].attempt > act[a].made + 1 PROVE FALSE
    <3> DEFINE m == 3 * act[a].made + 3
    <3>1. m \in 1 .. Len(invocations) /\ m < Len(invocations)
      <4>1. calls[i].attempt \in Nat /\ act[a].made \in Nat /\ Len(invocations) \in Nat
        BY <1>0, <1>1, <1>5
      <4>2. \A x, y, z \in Nat : 3 * x <= z + 1 /\ x > y + 1
                                  => 3 * y + 3 \in 1 .. z /\ 3 * y + 3 < z
        OBVIOUS
      <4> QED BY <2>1, <2>2, <4>1, <4>2
    <3>2. invocations[m] \in Records /\ Place(invocations[m]) = m
      BY <1>0, <3>1, ElementOfSeq DEF InvocationInv, TablesFit, JournalFits
    <3>3. invocations[m].state \in {"settled", "unknown"} /\ invocations[m].attempt = act[a].made + 1
      <4>1. act[a].made + 1 \in Nat /\ m = 3 * (act[a].made + 1)
        BY <1>1
      <4> HIDE DEF m
      <4> QED BY <3>2, <4>1, Thirds
    <3> HIDE DEF m
    <3>4. invocations[m].state = "settled"
      BY <3>1, <3>3 DEF InvocationInv, TablesFit, JournalFits
    <3>5. /\ invocations[m].call \in 1 .. Len(calls)
          /\ calls[invocations[m].call].attempt = act[a].made + 1
      BY <3>1, <3>3, <3>4 DEF InvocationInv, TablesFit, JournalFits
    <3> QED BY <1>1, <3>5
  <2> QED BY <1>1, <1>3, <1>5, <2>1, <2>2
<1>10. EntriesFit(invocations, calls')
  <2>1. EntriesFit(invocations, calls)
    BY DEF InvocationInv, TablesFit
  <2>2. 3 * entry.attempt <= Len(invocations) + 1
    BY <1>0, <1>1, <1>3 DEF Reached
  <2>3. ASSUME NEW i \in 1 .. Len(calls'), NEW k \in 1 .. Len(calls'), i < k
        PROVE  calls'[i].attempt < calls'[k].attempt
    BY <1>2, <1>4, <1>9, <2>1, <2>3 DEF EntriesFit
  <2>4. ASSUME NEW i \in 1 .. Len(calls')
        PROVE  /\ 3 * calls'[i].attempt <= Len(invocations) + 1
               /\ calls'[i].request = invocations[1].request
               /\ calls'[i].key = invocations[1].key
    BY <1>2, <1>3, <1>4, <2>1, <2>2 DEF EntriesFit
  <2> QED BY <2>3, <2>4 DEF EntriesFit
<1>11. TablesFit'
  BY <1>0, <1>8, <1>10 DEF InvocationInv, TablesFit, invocationTables
<1>12. CallsFit'
  <2>1. ASSUME NEW b \in Activations, b # a
        PROVE  CallFits(act'[b], invocations, evidence, calls')
    <3>1. act'[b] = act[b] /\ CallFits(act[b], invocations, evidence, calls)
      BY <1>7, <2>1, CallNow DEF Moves
    <3>2. act[b].stage = "provider" => act[b].made # act[a].made
      BY <1>0, <2>1 DEF InvocationInv, DispatchesAreOwned
    <3>3. act[b].made \in Nat /\ act[b] \in CallStates
      BY CallNow DEF CallStates
    <3>4. Entered(act[b], calls) => Entered(act[b], calls')
      BY <1>2, <1>4 DEF Entered
    <3>5. act[b].stage = "provider" => \A i \in 1 .. Len(calls') : calls'[i].attempt # act[b].made + 1
      BY <1>1, <1>2, <1>3, <1>4, <3>1, <3>2, <3>3 DEF CallFits
    <3>6. \A i, r, t : CommitFits(act[b], i, r, t, invocations, evidence, calls)
                          => CommitFits(act[b], i, r, t, invocations, evidence, calls')
      BY <3>4 DEF CommitFits
    <3> QED BY <3>1, <3>4, <3>5, <3>6 DEF CallFits
  <2>2. CallFits(s, invocations, evidence, calls')
    <3>1. Entered(s, calls')
      BY <1>2, <1>3, <1>4, <1>6 DEF Entered
    <3> QED BY <1>0, <1>1, <1>6, <3>1 DEF CallFits
  <2> QED BY <1>0, <1>7, <2>1, <2>2 DEF CallsFit, invocationTables
<1>13. InvocationTypeOK'
  BY <1>0, <1>4, <1>7 DEF InvocationInv, InvocationTypeOK, Moves, leaseVars, invocationTables
<1>14. DispatchesAreOwned'
  <2>1. s.stage = "calling" /\ s.generation = act[a].generation
    BY <1>6
  <2> QED BY <1>0, <1>7, <2>1
       DEF InvocationInv, DispatchesAreOwned, Moves, CallIsCurrent, Holds, leaseVars, invocationTables
<1> QED BY <1>11, <1>12, <1>13, <1>14 DEF InvocationInv

-----------------------------------------------------------------------------
(* Steps of the lease *)

\* The lease moves, and nothing else of what an activation knows.
LEMMA LeaseMove ==
    ASSUME InvocationInv, UNCHANGED <<invocationTables, calls>>,
           act' \in [Activations -> CallStates], generation' \in Nat, generation <= generation',
           NEW moved \in SUBSET Activations,
           \A a \in Activations \ moved :
               act'[a] = act[a] /\ (holder' = a /\ generation' = act[a].generation => CallIsCurrent(a)),
           \A a \in moved :
               /\ CallFits(act'[a], invocations, evidence, calls)
               /\ act'[a].stage \in {"off", "recover"} /\ act'[a].generation <= generation'
    PROVE  InvocationInv'
<1>1. InvocationTypeOK' /\ TablesFit'
  BY DEF InvocationInv, InvocationTypeOK, TablesFit, invocationTables
<1>2. CallsFit'
  BY CallNow DEF CallsFit, invocationTables
<1>3. DispatchesAreOwned'
  <2>1. \A b, c \in Activations :
           b # c /\ act'[b].stage = "provider" /\ act'[c].stage = "provider" => act'[b].made # act'[c].made
    BY DEF InvocationInv, DispatchesAreOwned
  <2>2. ASSUME NEW b \in Activations
        PROVE  /\ act'[b].generation <= generation'
               /\ CallIsCurrent(b)' /\ act'[b].stage = "commit" /\ act'[b].then = "provider" =>
                     act'[b].commit[1] = Len(invocations') + 1
    <3>1. CASE b \in moved
      BY <3>1
    <3>2. CASE b \notin moved
      <4>1. act'[b] = act[b] /\ act[b].generation \in Nat /\ act[b].generation <= generation
               /\ generation \in Nat
        BY <3>2, CallNow DEF InvocationInv, DispatchesAreOwned, InvocationTypeOK, CallStates
      <4>2. CallIsCurrent(b)' => CallIsCurrent(b)
        BY <3>2, <4>1 DEF CallIsCurrent, Holds
      <4> QED BY <4>1, <4>2 DEF InvocationInv, DispatchesAreOwned, invocationTables
    <3> QED BY <3>1, <3>2
  <2> QED BY <2>1, <2>2 DEF DispatchesAreOwned
<1> QED BY <1>1, <1>2, <1>3 DEF InvocationInv

LEMMA StartCallFits ==
    ASSUME InvocationInv, NEW a \in Activations, NEW request \in Requests, NEW policy \in Policies,
           StartCall(a, request, policy)
    PROVE  InvocationInv'
<1> DEFINE s == [NoCall EXCEPT !.stage = "recover", !.generation = generation',
                               !.key = generation', !.request = request, !.policy = policy]
<1>1. /\ act' = [act EXCEPT ![a] = s] /\ UNCHANGED <<invocationTables, calls>>
      /\ generation' = generation + 1 /\ generation' \in Nat /\ generation \in Nat
      /\ holder' = a /\ act \in [Activations -> CallStates]
  BY DEF StartCall, Granted, Lease!Grant, InvocationInv, InvocationTypeOK
<1>2. s \in CallStates
  BY <1>1 DEF CallStates, CallStages, NoCall, Outcomes
<1>3. CallFits(s, invocations, evidence, calls)
  BY DEF CallFits, NoCall
<1>4. s.stage = "recover" /\ s.generation = generation'
  BY DEF NoCall
<1> HIDE DEF s
<1>5. act' \in [Activations -> CallStates] /\ act'[a] = s
      /\ \A b \in Activations \ {a} : act'[b] = act[b]
  BY <1>1, <1>2
<1>6. /\ {a} \in SUBSET Activations
      /\ \A b \in Activations \ {a} :
            act'[b] = act[b] /\ (holder' = b /\ generation' = act[b].generation => CallIsCurrent(b))
      /\ \A b \in {a} :
            /\ CallFits(act'[b], invocations, evidence, calls)
            /\ act'[b].stage \in {"off", "recover"} /\ act'[b].generation <= generation'
  BY <1>1, <1>3, <1>4, <1>5
<1>7. generation <= generation'
  BY <1>1
<1> QED BY <1>1, <1>5, <1>6, <1>7, LeaseMove

LEMMA CallEndsFits ==
    ASSUME InvocationInv, NEW a \in Activations, CallEnds(a)
    PROVE  InvocationInv'
<1>1. /\ act' = [act EXCEPT ![a] = NoCall] /\ UNCHANGED <<invocationTables, calls>>
      /\ generation' = generation /\ generation \in Nat /\ holder' \in {holder, NoActivation}
      /\ act \in [Activations -> CallStates]
  BY DEF CallEnds, Released, InvocationInv, InvocationTypeOK
<1>2. /\ act' \in [Activations -> CallStates] /\ act'[a] = NoCall
      /\ \A b \in Activations \ {a} : act'[b] = act[b]
  BY <1>1, NoCallIsState
<1>3. \A b \in Activations : holder' = b /\ generation' = act[b].generation => CallIsCurrent(b)
  BY <1>1, ActivationsAssumption DEF CallIsCurrent, Holds
<1>4. NoCall.stage = "off" /\ NoCall.generation <= generation'
  BY <1>1 DEF NoCall
<1>5. /\ {a} \in SUBSET Activations
      /\ \A b \in Activations \ {a} :
            act'[b] = act[b] /\ (holder' = b /\ generation' = act[b].generation => CallIsCurrent(b))
      /\ \A b \in {a} :
            /\ CallFits(act'[b], invocations, evidence, calls)
            /\ act'[b].stage \in {"off", "recover"} /\ act'[b].generation <= generation'
  BY <1>2, <1>3, <1>4, NoCallFits
<1>6. generation' \in Nat /\ generation <= generation'
  BY <1>1
<1> QED BY <1>1, <1>2, <1>5, <1>6, LeaseMove

LEMMA CallLeaseExpiresFits ==
    ASSUME InvocationInv, CallLeaseExpires
    PROVE  InvocationInv'
<1>1. /\ act' = act /\ UNCHANGED <<invocationTables, calls>>
      /\ generation' = generation /\ generation \in Nat /\ holder' = NoActivation
      /\ act \in [Activations -> CallStates]
  BY DEF CallLeaseExpires, Lease!Lapse, InvocationInv, InvocationTypeOK
<1>2. /\ {} \in SUBSET Activations
      /\ \A b \in Activations \ {} :
            act'[b] = act[b] /\ (holder' = b /\ generation' = act[b].generation => CallIsCurrent(b))
      /\ \A b \in {} :
            /\ CallFits(act'[b], invocations, evidence, calls)
            /\ act'[b].stage \in {"off", "recover"} /\ act'[b].generation <= generation'
  BY <1>1, ActivationsAssumption
<1>3. act' \in [Activations -> CallStates] /\ generation' \in Nat /\ generation <= generation'
  BY <1>1
<1> QED BY <1>1, <1>2, <1>3, LeaseMove

LEMMA InvocationInitInv == InvocationInit => InvocationInv
<1> SUFFICES ASSUME InvocationInit PROVE InvocationInv
  OBVIOUS
<1>1. InvocationTypeOK
  BY NoCallIsState DEF InvocationInit, InvocationTypeOK, Lease!Init
<1>2. TablesFit
  BY DEF InvocationInit, TablesFit, JournalFits, EntriesFit, EvidenceFits
<1>3. CallsFit
  BY NoCallFits DEF InvocationInit, CallsFit
<1>4. DispatchesAreOwned
  BY DEF InvocationInit, DispatchesAreOwned, NoCall, Lease!Init
<1> QED BY <1>1, <1>2, <1>3, <1>4 DEF InvocationInv

LEMMA InvocationStepInv == InvocationInv /\ [InvocationNext]_invocationVars => InvocationInv'
<1> SUFFICES ASSUME InvocationInv, [InvocationNext]_invocationVars PROVE InvocationInv'
  OBVIOUS
<1>1. CASE CallLeaseExpires
  BY <1>1, CallLeaseExpiresFits
<1>2. ASSUME NEW a \in Activations, Runner(a) PROVE InvocationInv'
  <2>1. CASE \E r \in Requests, p \in Policies : StartCall(a, r, p)
    BY <2>1, StartCallFits
  <2>2. CASE Recover(a) \/ RecoverDecides(a) \/ Recovered(a) \/ Reserve(a) \/ DispatchStarted(a)
    BY <2>2, RecoverFits, RecoverDecidesFits, RecoveredFits, ReserveFits, DispatchStartedFits
  <2>3. CASE EnterProvider(a) \/ \E o \in DispatchOutcomes : ProviderReturns(a, o)
    BY <2>3, EnterProviderFits, ProviderReturnsFits
  <2>4. CASE Settled(a) \/ Doubt(a) \/ AfterSettled(a) \/ ReleaseOutcome(a)
    BY <2>4, SettledFits, DoubtFits, AfterSettledFits, ReleaseOutcomeFits
  <2>5. CASE CommitInvocation(a) \/ CommitErrs(a) \/ CallFenced(a) \/ CallStops(a)
    BY <2>5, CommitInvocationFits, CommitErrsFits, RaisesFit
  <2>6. CASE CommitEvidence(a) \/ EvidenceErrs(a) \/ CallEnds(a)
    BY <2>6, CommitEvidenceFits, CallEndsFits
  <2> QED BY <1>2, <2>1, <2>2, <2>3, <2>4, <2>5, <2>6 DEF Runner
<1>3. CASE UNCHANGED invocationVars
  <2> USE <1>3 DEF invocationVars, invocationTables, leaseVars
  <2>1. InvocationTypeOK' /\ TablesFit' /\ CallsFit'
    BY DEF InvocationInv, InvocationTypeOK, TablesFit, CallsFit
  <2>2. DispatchesAreOwned'
    BY DEF InvocationInv, DispatchesAreOwned, CallIsCurrent, Holds
  <2> QED BY <2>1, <2>2 DEF InvocationInv
<1> QED BY <1>1, <1>2, <1>3 DEF InvocationNext

LEMMA InvocationInvariant == InvocationSpec => []InvocationInv
BY InvocationInitInv, InvocationStepInv, PTL DEF InvocationSpec

-----------------------------------------------------------------------------
(* Theorem.  The provider is entered at most once for a dispatch attempt, in
   the order of the attempts, always with the request and the idempotency key of
   the first one, and again only after a proven refusal of which nothing was
   delivered (model_call.py, _acall_owned; hosting/model_calls.py): for any
   number of activations, with takeovers, crashes and lost answers. *)
THEOREM DispatchesEnterOnce == InvocationSpec => []ProviderEnteredOnce
<1>1. InvocationInv => ProviderEnteredOnce
  <2> SUFFICES ASSUME InvocationInv, NEW i \in 1 .. Len(calls), NEW k \in 1 .. Len(calls), i < k
               PROVE  /\ calls[i].attempt < calls[k].attempt
                      /\ calls[i].key = calls[k].key /\ calls[i].request = calls[k].request
                      /\ \E r \in 1 .. Len(invocations) :
                            /\ invocations[r].call = i /\ invocations[r].state = "settled"
                            /\ invocations[r].outcome = "retryable"
    BY DEF ProviderEnteredOnce
  <2>1. \A m \in 1 .. Len(calls) : calls[m].attempt \in Nat \ {0}
    <3>1. \A m \in 1 .. Len(calls) : calls[m] \in Entries
      BY ElementOfSeq DEF InvocationInv, InvocationTypeOK
    <3> QED BY <3>1 DEF Entries
  <2>2. calls[i].attempt < calls[k].attempt /\ 3 * calls[k].attempt <= Len(invocations) + 1
    BY DEF InvocationInv, TablesFit, EntriesFit
  <2>3. calls[i].key = calls[k].key /\ calls[i].request = calls[k].request
    BY DEF InvocationInv, TablesFit, EntriesFit
  <2>4. \A m \in 1 .. Len(calls) : calls[m].attempt = calls[i].attempt => m = i
    <3>1. ASSUME NEW m \in 1 .. Len(calls), m # i PROVE calls[m].attempt # calls[i].attempt
      <4>1. CASE m < i
        BY <2>1, <4>1 DEF InvocationInv, TablesFit, EntriesFit
      <4>2. CASE i < m
        BY <2>1, <4>2 DEF InvocationInv, TablesFit, EntriesFit
      <4> QED BY <3>1, <4>1, <4>2
    <3> QED BY <3>1
  \* The settlement of attempt n, three records to an attempt.
  <2> DEFINE n == calls[i].attempt
             r == 3 * n
  <2>5. r \in 1 .. Len(invocations) /\ r < Len(invocations)
    <3>1. n \in Nat \ {0} /\ calls[k].attempt \in Nat /\ Len(invocations) \in Nat
      BY <2>1, LenProperties DEF InvocationInv, InvocationTypeOK
    <3>2. \A x, y, z \in Nat : x > 0 /\ 3 * y <= z + 1 /\ x < y => 3 * x \in 1 .. z /\ 3 * x < z
      OBVIOUS
    <3> QED BY <2>2, <3>1, <3>2
  <2>6. invocations[r] \in Records /\ Place(invocations[r]) = r
    BY <2>5, ElementOfSeq DEF InvocationInv, InvocationTypeOK, TablesFit, JournalFits
  <2>7. invocations[r].state \in {"settled", "unknown"} /\ invocations[r].attempt = n
    <3>1. n \in Nat
      BY <2>1
    <3> HIDE DEF n
    <3> QED BY <2>6, <3>1, Thirds
  <2> HIDE DEF n, r
  <2>8. invocations[r].state = "settled" /\ invocations[r].outcome = "retryable"
    BY <2>5, <2>7 DEF InvocationInv, TablesFit, JournalFits
  <2>9. invocations[r].call = i
    BY <2>4, <2>5, <2>7, <2>8 DEF InvocationInv, TablesFit, JournalFits, n
  <2> QED BY <2>2, <2>3, <2>5, <2>8, <2>9
<1> QED BY <1>1, InvocationInvariant, PTL

(* Theorem.  A turn handed to the loop is the settled answer at the end of the
   journal, to this request and by this provider entry, with its required
   evidence stored and its outbox evidence staged (hosting/model_calls.py,
   settle_model_dispatch and recover; adapters/postgres/sink.py). *)
THEOREM TurnsAreDurable == InvocationSpec => []TurnIsDurable
<1>1. InvocationInv => TurnIsDurable
  <2> SUFFICES ASSUME InvocationInv PROVE TurnIsDurable
    OBVIOUS
  <2>1. \A i \in 1 .. Len(invocations) :
           /\ invocations[i].state = "unknown" => i = Len(invocations)
           /\ invocations[i].outcome \in {"answer", "refused"} => i = Len(invocations)
    <3> SUFFICES ASSUME NEW i \in 1 .. Len(invocations)
                 PROVE  /\ invocations[i].state = "unknown" => i = Len(invocations)
                        /\ invocations[i].outcome \in {"answer", "refused"} => i = Len(invocations)
      OBVIOUS
    <3>1. invocations[i] \in Records /\ Len(invocations) \in Nat
      BY ElementOfSeq, CallNow DEF InvocationInv, InvocationTypeOK
    <3>2. /\ RecordFits(invocations[i])
          /\ invocations[i].state = "unknown" => i = Len(invocations)
          /\ invocations[i].state = "settled" /\ i < Len(invocations) => invocations[i].outcome = "retryable"
      BY DEF InvocationInv, TablesFit, JournalFits
    <3> QED BY <3>1, <3>2, Places DEF RecordFits
  <2>2. ASSUME NEW a \in Activations, act[a].result = "turn"
        PROVE  LET r == invocations[act[a].at] IN
               /\ act[a].at = Len(invocations)
               /\ r.state = "settled" /\ r.outcome = "answer" /\ r.call = act[a].call
               /\ r.request = act[a].request
               /\ r.policy = "required" => act[a].at \in evidence
               /\ r.policy = "outbox" => act[a].at \in staged
    <3>1. /\ Usable(act[a], act[a].at, invocations, evidence)
          /\ invocations[act[a].at].outcome = "answer" /\ invocations[act[a].at].call = act[a].call
      BY <2>2, CallNow DEF CallFits
    <3>2. invocations[act[a].at].policy = "outbox" => act[a].at \in staged
      BY <3>1 DEF Usable, InvocationInv, TablesFit, EvidenceFits, Stages
    <3> QED BY <2>1, <3>1, <3>2 DEF Usable
  <2>3. /\ \A i \in evidence : invocations[i].state = "settled"
        /\ \A i \in 1 .. Len(invocations) : i \in staged <=> Stages(invocations[i])
    BY DEF InvocationInv, TablesFit, EvidenceFits
  <2> QED BY <2>1, <2>2, <2>3 DEF TurnIsDurable
<1> QED BY <1>1, InvocationInvariant, PTL

-----------------------------------------------------------------------------
(* EventPublication: what the journal, the receipts, the run directories and *)
(* the processes have in common                                              *)

EventRecords == [seq : Nat \ {0}, by : Nat]

ThreadStates ==
    [at : {"idle", "check", "append", "local", "status"}, event : Nat, retried : BOOLEAN]

ProcessStates ==
    [stage : {"off", "seed", "open", "on", "over", "corrupt"}, generation : Nat,
     directory : Directories \union {0}, revoked : BOOLEAN, closed : BOOLEAN, seq : Nat, last : Nat,
     lock : Threads \union {NoThread}, thread : [Threads -> ThreadStates]]

DirectoryStates == [lines : Seq(EventRecords), torn : BOOLEAN, status : Nat]

LastSequence(d) == IF d.lines = <<>> THEN 0 ELSE d.lines[Len(d.lines)].seq

\* The journal j ends at n: one event per sequence, generations in their order.
Gapless(j, n) ==
    /\ n \in Nat /\ j \subseteq EventRecords /\ {e.seq : e \in j} = 1 .. n
    /\ \A e, f \in j : e.seq <= f.seq => e.by <= f.by
    /\ \A e, f \in j : e.seq = f.seq => e = f

\* Receipts cite durable events, a later one never less.
ReceiptsFit(c, n) ==
    /\ \A i \in 1 .. Len(c) : c[i] <= n
    /\ \A i \in 1 .. Len(c) - 1 : c[i] <= c[i + 1]

\* A run directory holds events of the journal in their order.
DirectoryFits(d, j) ==
    /\ \A i \in 1 .. Len(d.lines) : d.lines[i] \in j
    /\ \A i \in 1 .. Len(d.lines) - 1 : d.lines[i].seq < d.lines[i + 1].seq
    /\ d.status <= LastSequence(d)

Mine(p, t) == [seq |-> p.thread[t].event, by |-> p.generation]

\* The thread that holds the bus lock, and no other, is inside emit.
ThreadsFit(p, j, d) ==
    \A t \in Threads :
        /\ p.thread[t].at # "idle" => p.lock = t /\ p.stage = "on"
        /\ p.thread[t].at = "append" => p.thread[t].event = p.last + 1
        /\ p.thread[t].at \in {"local", "status"} =>
              p.thread[t].event = p.last /\ Mine(p, t) \in j
        /\ p.thread[t].at = "local" => LastSequence(d) < p.last
        /\ p.thread[t].at = "status" => LastSequence(d) = p.last

\* A process p that works in directory d, given the journal j that ends at n.
ProcessFits(p, j, n, d) ==
    /\ p.stage # "corrupt"
    /\ p.last <= n
    /\ p.stage \in {"open", "on"} => LastSequence(d) <= p.last
    /\ p.stage = "on" => ~d.torn
    /\ ThreadsFit(p, j, d)

\* The process that the store accepts has seen the whole journal, but for an
\* append that took effect although it reported an error, and every receipt.
CurrentFits(p, j, n, c) ==
    p.stage \in {"open", "on"} =>
        /\ \A i \in 1 .. Len(c) : c[i] <= p.last
        /\ \A t \in Threads : p.thread[t].at = "append" =>
              \/ n = p.last
              \/ n = p.last + 1 /\ Mine(p, t) \in j
        /\ ~p.revoked /\ n # p.last => \E t \in Threads : p.thread[t].at = "append"

EventTypeOK ==
    /\ generation \in Nat
    /\ cursors \in Seq(Nat)
    /\ disk \in [Directories -> DirectoryStates]
    /\ proc \in [Activations -> ProcessStates]

ProcessesFit ==
    \A a \in Activations :
        /\ proc[a].stage = "off" => proc[a] = NoProcess
        /\ proc[a].stage # "off" =>
              /\ proc[a].directory \in Directories
              /\ ProcessFits(proc[a], eventJournal, JournalEnd, disk[proc[a].directory])
        /\ proc[a].generation <= generation
        /\ ProcessIsCurrent(a) => CurrentFits(proc[a], eventJournal, JournalEnd, cursors)

\* No two processes share a directory, and no event is of a generation to come.
DirectoriesAreOwned ==
    \A a, b \in Activations :
        a # b /\ proc[a].stage # "off" /\ proc[b].stage # "off" => proc[a].directory # proc[b].directory

EventInv ==
    /\ EventTypeOK
    /\ Gapless(eventJournal, JournalEnd) /\ ReceiptsFit(cursors, JournalEnd)
    /\ \A e \in eventJournal : e.by <= generation
    /\ \A d \in Directories : DirectoryFits(disk[d], eventJournal)
    /\ ProcessesFit /\ DirectoriesAreOwned
-----------------------------------------------------------------------------
LEMMA HighestIs ==
    ASSUME NEW n \in Nat, NEW S, S = 1 .. n
    PROVE  Highest({0} \union S) = n
<1>1. n \in {0} \union S /\ \A m \in {0} \union S : m <= n
  OBVIOUS
<1>2. \A k \in {0} \union S : (\A m \in {0} \union S : m <= k) => k = n
  OBVIOUS
<1> QED BY <1>1, <1>2 DEF Highest

LEMMA LastSequenceIs ==
    ASSUME NEW d \in DirectoryStates, NEW j, DirectoryFits(d, j), NEW n \in Nat, Gapless(j, n)
    PROVE  /\ LastSequence(d) \in Nat /\ LastSequence(d) <= n
           /\ d.lines \in Seq(EventRecords) /\ Len(d.lines) \in Nat
           /\ d.lines # <<>> => Len(d.lines) \in 1 .. Len(d.lines)
<1>1. d.lines \in Seq(EventRecords) /\ Len(d.lines) \in Nat
  BY LenProperties DEF DirectoryStates
<1>2. CASE d.lines = <<>>
  BY <1>1, <1>2 DEF LastSequence
<1>3. CASE d.lines # <<>>
  <2>1. Len(d.lines) \in 1 .. Len(d.lines)
    BY <1>1, <1>3, EmptySeq
  <2>2. d.lines[Len(d.lines)] \in j
    BY <2>1 DEF DirectoryFits
  <2>3. d.lines[Len(d.lines)].seq \in 1 .. n
    BY <2>2 DEF Gapless
  <2> QED BY <1>1, <1>3, <2>1, <2>3 DEF LastSequence
<1> QED BY <1>2, <1>3

LEMMA StageIsProcess ==
    ASSUME NEW q \in ProcessStates, NEW v \in {"seed", "open", "on", "over", "corrupt"}
    PROVE  [q EXCEPT !.stage = v] \in ProcessStates
BY DEF ProcessStates

LEMMA RevokedIsProcess ==
    ASSUME NEW q \in ProcessStates
    PROVE  [q EXCEPT !.revoked = TRUE] \in ProcessStates
BY DEF ProcessStates

LEMMA ClosedIsProcess ==
    ASSUME NEW q \in ProcessStates
    PROVE  [q EXCEPT !.closed = TRUE] \in ProcessStates
BY DEF ProcessStates

LEMMA SeqIsProcess ==
    ASSUME NEW q \in ProcessStates, NEW v \in Nat
    PROVE  [q EXCEPT !.seq = v] \in ProcessStates
BY DEF ProcessStates

LEMMA LastIsProcess ==
    ASSUME NEW q \in ProcessStates, NEW v \in Nat
    PROVE  [q EXCEPT !.last = v] \in ProcessStates
BY DEF ProcessStates

LEMMA LockIsProcess ==
    ASSUME NEW q \in ProcessStates, NEW v \in Threads \union {NoThread}
    PROVE  [q EXCEPT !.lock = v] \in ProcessStates
BY DEF ProcessStates

LEMMA ThreadIsProcess ==
    ASSUME NEW q \in ProcessStates, NEW t \in Threads, NEW x \in ThreadStates
    PROVE  [q EXCEPT !.thread[t] = x] \in ProcessStates
BY DEF ProcessStates

LEMMA IdleIsThread == IdleThread \in ThreadStates /\ IdleThread.at = "idle"
BY DEF IdleThread, ThreadStates

LEMMA NoProcessIsState == NoProcess \in ProcessStates
BY IdleIsThread DEF NoProcess, ProcessStates

\* Only process a moves; the journal and the receipts grow by the current one.
LEMMA ProcessMove ==
    ASSUME EventInv, NEW a \in Activations, NEW p \in ProcessStates,
           proc' = [proc EXCEPT ![a] = p], UNCHANGED leaseVars,
           proc[a].stage # "off", p.stage # "off",
           p.generation = proc[a].generation, p.directory = proc[a].directory,
           eventJournal \subseteq eventJournal', JournalEnd <= JournalEnd',
           Gapless(eventJournal', JournalEnd'), \A e \in eventJournal' : e.by <= generation,
           cursors' \in Seq(Nat), ReceiptsFit(cursors', JournalEnd'),
           ProcessIsCurrent(a) \/ UNCHANGED <<eventJournal, cursors>>,
           disk' \in [Directories -> DirectoryStates],
           \A d \in Directories \ {p.directory} : disk'[d] = disk[d],
           DirectoryFits(disk'[p.directory], eventJournal'),
           ProcessFits(p, eventJournal', JournalEnd', disk'[p.directory]),
           ProcessIsCurrent(a) => CurrentFits(p, eventJournal', JournalEnd', cursors')
    PROVE  EventInv'
<1>0. proc \in [Activations -> ProcessStates] /\ JournalEnd \in Nat /\ JournalEnd' \in Nat
         /\ generation \in Nat
  BY DEF EventInv, EventTypeOK, Gapless
<1>1. EventTypeOK'
  BY <1>0 DEF EventInv, EventTypeOK, leaseVars
<1>2. \A d \in Directories : DirectoryFits(disk'[d], eventJournal')
  BY DEF EventInv, DirectoryFits
<1>3. DirectoriesAreOwned'
  BY <1>0 DEF EventInv, DirectoriesAreOwned
<1>4. ProcessesFit'
  <2>1. ASSUME NEW b \in Activations
        PROVE  /\ proc'[b].stage = "off" => proc'[b] = NoProcess
               /\ proc'[b].stage # "off" =>
                    /\ proc'[b].directory \in Directories
                    /\ ProcessFits(proc'[b], eventJournal', JournalEnd', disk'[proc'[b].directory])
               /\ proc'[b].generation <= generation'
               /\ ProcessIsCurrent(b)' => CurrentFits(proc'[b], eventJournal', JournalEnd', cursors')
    <3>1. CASE b = a
      <4>1. ProcessIsCurrent(a)' => ProcessIsCurrent(a)
        BY <1>0 DEF ProcessIsCurrent, Holds, leaseVars
      <4> QED BY <1>0, <3>1, <4>1 DEF EventInv, ProcessesFit, leaseVars
    <3>2. CASE b # a
      <4>1. proc'[b] = proc[b]
        BY <1>0, <3>2
      <4>2. ProcessIsCurrent(b)' => ProcessIsCurrent(b) /\ ~ProcessIsCurrent(a)
        BY <3>2, <4>1 DEF ProcessIsCurrent, Holds, leaseVars
      <4>3. ASSUME proc[b].stage # "off"
            PROVE  ProcessFits(proc[b], eventJournal', JournalEnd', disk'[proc[b].directory])
        <5>1. proc[b].directory \in Directories \ {p.directory}
          BY <3>2, <4>3 DEF EventInv, ProcessesFit, DirectoriesAreOwned
        <5>2. disk'[proc[b].directory] = disk[proc[b].directory]
          BY <5>1
        <5>3. proc[b].last \in Nat
          BY <1>0 DEF ProcessStates
        <5>4. ProcessFits(proc[b], eventJournal, JournalEnd, disk[proc[b].directory])
          BY <4>3 DEF EventInv, ProcessesFit
        <5> QED BY <1>0, <5>2, <5>3, <5>4 DEF ProcessFits, ThreadsFit
      <4>4. ProcessIsCurrent(b)' => CurrentFits(proc[b], eventJournal', JournalEnd', cursors')
        <5>1. ASSUME ProcessIsCurrent(b)' PROVE UNCHANGED <<eventJournal, cursors>> /\ ProcessIsCurrent(b)
          BY <4>2, <5>1
        <5> QED BY <5>1 DEF EventInv, ProcessesFit, JournalEnd
      <4> QED BY <4>1, <4>3, <4>4 DEF EventInv, ProcessesFit, leaseVars
    <3> QED BY <3>1, <3>2
  <2> QED BY <2>1 DEF ProcessesFit
<1> QED BY <1>1, <1>2, <1>3, <1>4 DEF EventInv, leaseVars

\* What the invariant says of a process.
LEMMA ProcessNow ==
    ASSUME EventInv, NEW a \in Activations, proc[a].stage # "off"
    PROVE  /\ proc \in [Activations -> ProcessStates] /\ proc[a] \in ProcessStates
           /\ proc[a].directory \in Directories /\ proc[a].last \in Nat
           /\ ProcessFits(proc[a], eventJournal, JournalEnd, disk[proc[a].directory])
           /\ ProcessIsCurrent(a) => CurrentFits(proc[a], eventJournal, JournalEnd, cursors)
           /\ disk \in [Directories -> DirectoryStates]
           /\ disk[proc[a].directory] \in DirectoryStates
           /\ DirectoryFits(disk[proc[a].directory], eventJournal)
           /\ JournalEnd \in Nat /\ Gapless(eventJournal, JournalEnd)
           /\ cursors \in Seq(Nat) /\ ReceiptsFit(cursors, JournalEnd)
           /\ proc[a].generation \in Nat /\ proc[a].generation <= generation
           /\ \A t \in Threads : proc[a].thread[t] \in ThreadStates
<1>1. proc \in [Activations -> ProcessStates] /\ proc[a] \in ProcessStates
  BY DEF EventInv, EventTypeOK
<1>2. proc[a].last \in Nat /\ proc[a].generation \in Nat
         /\ \A t \in Threads : proc[a].thread[t] \in ThreadStates
  BY <1>1 DEF ProcessStates
<1> QED BY <1>1, <1>2 DEF EventInv, EventTypeOK, ProcessesFit, Gapless

\* Process a moves and leaves journal, receipts and directory alone.
LEMMA QuietProcess ==
    ASSUME EventInv, NEW a \in Activations, NEW p \in ProcessStates,
           proc' = [proc EXCEPT ![a] = p], UNCHANGED <<leaseVars, eventJournal, cursors, disk>>,
           proc[a].stage # "off", p.stage # "off",
           p.generation = proc[a].generation, p.directory = proc[a].directory,
           ProcessFits(p, eventJournal, JournalEnd, disk[proc[a].directory]),
           ProcessIsCurrent(a) => CurrentFits(p, eventJournal, JournalEnd, cursors)
    PROVE  EventInv'
<1>1. JournalEnd' = JournalEnd /\ JournalEnd \in Nat /\ JournalEnd <= JournalEnd'
  BY ProcessNow DEF JournalEnd
<1>2. \A e \in eventJournal' : e.by <= generation
  BY DEF EventInv
<1>3. Gapless(eventJournal', JournalEnd') /\ ReceiptsFit(cursors', JournalEnd') /\ cursors' \in Seq(Nat)
  BY <1>1, ProcessNow
<1>4. /\ disk' \in [Directories -> DirectoryStates]
      /\ \A d \in Directories \ {p.directory} : disk'[d] = disk[d]
      /\ DirectoryFits(disk'[p.directory], eventJournal')
      /\ ProcessFits(p, eventJournal', JournalEnd', disk'[p.directory])
  BY <1>1, ProcessNow
<1>5. ProcessIsCurrent(a) => CurrentFits(p, eventJournal', JournalEnd', cursors')
  BY <1>1
<1>6. eventJournal \subseteq eventJournal' /\ UNCHANGED <<eventJournal, cursors>> /\ UNCHANGED leaseVars
  OBVIOUS
<1> QED BY <1>1, <1>2, <1>3, <1>4, <1>5, <1>6, ProcessMove

-----------------------------------------------------------------------------
(* A process comes, goes, or the lease lapses *)

\* What a process other than a keeps when a goes and its directory d may change.
LEMMA ProcessGone ==
    ASSUME EventInv, NEW a \in Activations, proc[a].stage # "off",
           proc' = [proc EXCEPT ![a] = NoProcess],
           generation' = generation, holder' \in {holder, NoActivation},
           UNCHANGED <<eventJournal, cursors>>,
           disk' \in [Directories -> DirectoryStates],
           \A d \in Directories \ {proc[a].directory} : disk'[d] = disk[d],
           DirectoryFits(disk'[proc[a].directory], eventJournal)
    PROVE  EventInv'
<1>0. /\ proc \in [Activations -> ProcessStates] /\ JournalEnd' = JournalEnd
      /\ generation \in Nat /\ proc[a].directory \in Directories
  BY ProcessNow DEF EventInv, EventTypeOK, JournalEnd
<1>1. EventTypeOK'
  BY <1>0, NoProcessIsState DEF EventInv, EventTypeOK
<1>2. \A d \in Directories : DirectoryFits(disk'[d], eventJournal')
  BY DEF EventInv, DirectoryFits
<1>3. NoProcess.stage = "off" /\ NoProcess.generation = 0
  BY DEF NoProcess
<1>4. DirectoriesAreOwned'
  BY <1>0, <1>3 DEF EventInv, DirectoriesAreOwned
<1>5. ProcessesFit'
  <2>1. ASSUME NEW b \in Activations
        PROVE  /\ proc'[b].stage = "off" => proc'[b] = NoProcess
               /\ proc'[b].stage # "off" =>
                    /\ proc'[b].directory \in Directories
                    /\ ProcessFits(proc'[b], eventJournal', JournalEnd', disk'[proc'[b].directory])
               /\ proc'[b].generation <= generation'
               /\ ProcessIsCurrent(b)' => CurrentFits(proc'[b], eventJournal', JournalEnd', cursors')
    <3>1. CASE b = a
      <4>1. proc'[b] = NoProcess
        BY <1>0, <3>1
      <4>2. CurrentFits(NoProcess, eventJournal', JournalEnd', cursors')
        BY <1>3 DEF CurrentFits
      <4> QED BY <1>0, <1>3, <4>1, <4>2
    <3>2. CASE b # a
      <4>1. proc'[b] = proc[b]
        BY <1>0, <3>2
      <4>2. ProcessIsCurrent(b)' => ProcessIsCurrent(b)
        BY <4>1, ActivationsAssumption DEF ProcessIsCurrent, Holds
      <4>3. ASSUME proc[b].stage # "off"
            PROVE  disk'[proc[b].directory] = disk[proc[b].directory]
        <5>1. proc[b].directory \in Directories \ {proc[a].directory}
          BY <3>2, <4>3 DEF EventInv, ProcessesFit, DirectoriesAreOwned
        <5> QED BY <5>1
      <4> QED BY <1>0, <4>1, <4>2, <4>3 DEF EventInv, ProcessesFit
    <3> QED BY <3>1, <3>2
  <2> QED BY <2>1 DEF ProcessesFit
<1> QED BY <1>0, <1>1, <1>2, <1>4, <1>5 DEF EventInv

\* A torn tail is no line.
LEMMA TornFits ==
    ASSUME NEW d \in DirectoryStates, NEW j, NEW v \in BOOLEAN, DirectoryFits(d, j)
    PROVE  /\ [d EXCEPT !.torn = v] \in DirectoryStates
           /\ DirectoryFits([d EXCEPT !.torn = v], j)
           /\ LastSequence([d EXCEPT !.torn = v]) = LastSequence(d)
           /\ [d EXCEPT !.torn = v].torn = v
<1>1. /\ [d EXCEPT !.torn = v] \in DirectoryStates
      /\ [d EXCEPT !.torn = v].lines = d.lines
      /\ [d EXCEPT !.torn = v].status = d.status
      /\ [d EXCEPT !.torn = v].torn = v
  BY DEF DirectoryStates
<1>2. LastSequence([d EXCEPT !.torn = v]) = LastSequence(d)
  BY <1>1 DEF LastSequence
<1> QED BY <1>1, <1>2 DEF DirectoryFits

LEMMA CrashProcessKeeps ==
    ASSUME EventInv, NEW a \in Activations, CrashProcess(a)
    PROVE  EventInv'
<1>0. proc[a].stage # "off"
  BY DEF CrashProcess
<1> DEFINE d == proc[a].directory
<1>1. d \in Directories /\ disk \in [Directories -> DirectoryStates] /\ disk[d] \in DirectoryStates
         /\ DirectoryFits(disk[d], eventJournal)
  BY <1>0, ProcessNow
<1>2. /\ disk' \in [Directories -> DirectoryStates]
      /\ \A e \in Directories \ {d} : disk'[e] = disk[e]
      /\ DirectoryFits(disk'[d], eventJournal)
  <2>1. CASE UNCHANGED disk
    BY <1>1, <2>1
  <2>2. CASE disk' = [disk EXCEPT ![d].torn = TRUE]
    <3>1. disk' = [disk EXCEPT ![d] = [disk[d] EXCEPT !.torn = TRUE]]
      BY <2>2
    <3> QED BY <1>1, <3>1, TornFits
  <2> QED BY <2>1, <2>2 DEF CrashProcess
<1>3. proc' = [proc EXCEPT ![a] = NoProcess] /\ UNCHANGED <<eventJournal, cursors>>
         /\ generation' = generation /\ holder' \in {holder, NoActivation}
  BY DEF CrashProcess, leaseVars
<1> QED BY <1>0, <1>2, <1>3, ProcessGone

LEMMA EndProcessKeeps ==
    ASSUME EventInv, NEW a \in Activations, EndProcess(a)
    PROVE  EventInv'
<1>0. proc[a].stage # "off"
  BY DEF EndProcess
<1>1. /\ proc[a].directory \in Directories /\ disk \in [Directories -> DirectoryStates]
      /\ DirectoryFits(disk[proc[a].directory], eventJournal)
  BY <1>0, ProcessNow
<1>2. proc' = [proc EXCEPT ![a] = NoProcess] /\ UNCHANGED <<eventJournal, cursors, disk>>
         /\ generation' = generation /\ holder' \in {holder, NoActivation}
  BY DEF EndProcess, Released
<1> QED BY <1>0, <1>1, <1>2, ProcessGone

LEMMA ProcessLeaseExpiresKeeps ==
    ASSUME EventInv, ProcessLeaseExpires
    PROVE  EventInv'
<1>1. generation' = generation /\ holder' = NoActivation
         /\ UNCHANGED <<eventJournal, cursors, disk, proc>>
  BY DEF ProcessLeaseExpires, Lease!Lapse
<1>2. \A a \in Activations : ~ProcessIsCurrent(a)'
  BY <1>1, ActivationsAssumption DEF ProcessIsCurrent, Holds
<1>3. JournalEnd' = JournalEnd
  BY <1>1 DEF JournalEnd
<1>4. ProcessesFit'
  BY <1>1, <1>2, <1>3 DEF EventInv, ProcessesFit
<1> QED BY <1>1, <1>3, <1>4 DEF EventInv, EventTypeOK, DirectoriesAreOwned

LEMMA StartProcessKeeps ==
    ASSUME EventInv, NEW a \in Activations, NEW d \in Directories, StartProcess(a, d)
    PROVE  EventInv'
<1> DEFINE p == [NoProcess EXCEPT !.stage = "seed", !.generation = generation', !.directory = d]
<1>0. /\ proc \in [Activations -> ProcessStates] /\ generation \in Nat
      /\ proc' = [proc EXCEPT ![a] = p] /\ generation' = generation + 1 /\ holder' = a
      /\ UNCHANGED <<eventJournal, cursors, disk>>
      /\ \A b \in Activations : proc[b].stage # "off" => proc[b].directory # d
  BY DEF EventInv, EventTypeOK, StartProcess, Granted, Lease!Grant
<1>1. /\ p \in ProcessStates /\ p.stage = "seed" /\ p.generation = generation'
      /\ p.directory = d /\ p.last = 0 /\ \A t \in Threads : p.thread[t].at = "idle"
  <2> DEFINE q == [NoProcess EXCEPT !.stage = "seed"]
             r == [q EXCEPT !.generation = generation']
  <2>1. q \in ProcessStates /\ q.stage = "seed" /\ q.last = 0 /\ q.thread = [t \in Threads |-> IdleThread]
    BY NoProcessIsState, StageIsProcess DEF NoProcess
  <2>2. p = [r EXCEPT !.directory = d]
    OBVIOUS
  <2>3. generation' \in Nat
    BY <1>0
  <2> HIDE DEF p, q
  <2>4. /\ r \in ProcessStates /\ r.stage = q.stage /\ r.last = q.last /\ r.thread = q.thread
        /\ r.generation = generation'
    BY <2>1, <2>3 DEF ProcessStates
  <2> HIDE DEF r
  <2>5. /\ p \in ProcessStates /\ p.stage = r.stage /\ p.last = r.last /\ p.thread = r.thread
        /\ p.generation = r.generation /\ p.directory = d
    BY <2>2, <2>4 DEF ProcessStates
  <2>6. \A t \in Threads : p.thread[t] = IdleThread
    BY <2>1, <2>4, <2>5
  <2> QED BY <2>1, <2>4, <2>5, <2>6, IdleIsThread
<1> HIDE DEF p
<1>2. JournalEnd' = JournalEnd /\ JournalEnd \in Nat /\ DirectoryFits(disk[d], eventJournal)
  BY <1>0 DEF EventInv, JournalEnd, Gapless
<1>3. EventTypeOK'
  BY <1>0, <1>1 DEF EventInv, EventTypeOK
<1>4. DirectoriesAreOwned'
  BY <1>0, <1>1 DEF EventInv, DirectoriesAreOwned
<1>5. ProcessFits(p, eventJournal, JournalEnd, disk[d]) /\ CurrentFits(p, eventJournal, JournalEnd, cursors)
  BY <1>1, <1>2 DEF ProcessFits, ThreadsFit, CurrentFits
<1>6. ProcessesFit'
  <2>1. ASSUME NEW b \in Activations
        PROVE  /\ proc'[b].stage = "off" => proc'[b] = NoProcess
               /\ proc'[b].stage # "off" =>
                    /\ proc'[b].directory \in Directories
                    /\ ProcessFits(proc'[b], eventJournal', JournalEnd', disk'[proc'[b].directory])
               /\ proc'[b].generation <= generation'
               /\ ProcessIsCurrent(b)' => CurrentFits(proc'[b], eventJournal', JournalEnd', cursors')
    <3>1. CASE b = a
      <4>1. proc'[b] = p
        BY <1>0, <3>1
      <4> QED BY <1>0, <1>1, <1>2, <1>5, <4>1
    <3>2. CASE b # a
      <4>1. proc'[b] = proc[b] /\ ~ProcessIsCurrent(b)'
        BY <1>0, <3>2 DEF ProcessIsCurrent, Holds
      <4>2. proc[b].generation \in Nat /\ proc[b].generation <= generation
        BY <1>0 DEF EventInv, ProcessesFit, ProcessStates
      <4>3. proc[b].generation <= generation'
        BY <1>0, <4>2
      <4> QED BY <1>0, <1>2, <4>1, <4>3 DEF EventInv, ProcessesFit
    <3> QED BY <3>1, <3>2
  <2> QED BY <2>1 DEF ProcessesFit
<1>7. \A e \in eventJournal' : e.by <= generation'
  BY <1>0 DEF EventInv, Gapless, EventRecords
<1> QED BY <1>0, <1>2, <1>3, <1>4, <1>6, <1>7 DEF EventInv

-----------------------------------------------------------------------------
(* Leaving emit *)

LEMMA Emitting ==
    ASSUME EventInv, NEW a \in Activations, NEW t \in Threads, proc[a].thread[t].at # "idle"
    PROVE  /\ proc[a].stage = "on" /\ proc[a].lock = t
           /\ \A u \in Threads \ {t} : proc[a].thread[u].at = "idle"
           /\ proc[a].thread[t] \in ThreadStates /\ proc[a].thread[t].event \in Nat
           /\ LastSequence(disk[proc[a].directory]) \in Nat
           /\ LastSequence(disk[proc[a].directory]) <= proc[a].last
           /\ ~disk[proc[a].directory].torn /\ proc[a].last <= JournalEnd
<1>1. proc[a].stage # "off"
  BY IdleIsThread DEF EventInv, ProcessesFit, NoProcess
<1>2. ThreadsFit(proc[a], eventJournal, disk[proc[a].directory])
  BY <1>1, ProcessNow DEF ProcessFits
<1>3. proc[a].stage = "on" /\ proc[a].lock = t
         /\ \A u \in Threads \ {t} : proc[a].thread[u].at = "idle"
  BY <1>2 DEF ThreadsFit
<1>4. proc[a].thread[t] \in ThreadStates
  BY <1>1, ProcessNow
<1>5. LastSequence(disk[proc[a].directory]) \in Nat
  BY <1>1, ProcessNow, LastSequenceIs
<1>6. ProcessFits(proc[a], eventJournal, JournalEnd, disk[proc[a].directory])
  BY <1>1, ProcessNow
<1>7. /\ LastSequence(disk[proc[a].directory]) <= proc[a].last
      /\ ~disk[proc[a].directory].torn /\ proc[a].last <= JournalEnd
  BY <1>3, <1>6 DEF ProcessFits
<1> QED BY <1>3, <1>4, <1>5, <1>7 DEF ThreadStates

\* The process of which thread t has left emit.
LEMMA LeftIs ==
    ASSUME EventInv, NEW a \in Activations, NEW t \in Threads, proc[a].thread[t].at # "idle"
    PROVE  /\ Left(a, t) \in ProcessStates
           /\ Left(a, t).stage = "on" /\ Left(a, t).generation = proc[a].generation
           /\ Left(a, t).directory = proc[a].directory /\ Left(a, t).last = proc[a].last
           /\ Left(a, t).revoked = proc[a].revoked
           /\ \A u \in Threads : Left(a, t).thread[u].at = "idle"
<1>0. proc[a] \in ProcessStates /\ proc[a].stage = "on"
         /\ \A u \in Threads \ {t} : proc[a].thread[u].at = "idle"
  BY Emitting, ProcessNow
<1> DEFINE q == [proc[a] EXCEPT !.lock = NoThread]
<1>1. /\ q \in ProcessStates /\ q.stage = proc[a].stage /\ q.generation = proc[a].generation
      /\ q.directory = proc[a].directory /\ q.last = proc[a].last /\ q.revoked = proc[a].revoked
      /\ q.thread = proc[a].thread
  BY <1>0, LockIsProcess DEF ProcessStates
<1>2. Left(a, t) = [q EXCEPT !.thread[t] = IdleThread]
  BY DEF Left
<1> HIDE DEF q
<1>3. Left(a, t) \in ProcessStates
  BY <1>1, <1>2, IdleIsThread, ThreadIsProcess
<1>4. /\ Left(a, t).stage = q.stage /\ Left(a, t).generation = q.generation
      /\ Left(a, t).directory = q.directory /\ Left(a, t).last = q.last
      /\ Left(a, t).revoked = q.revoked
      /\ Left(a, t).thread = [q.thread EXCEPT ![t] = IdleThread]
  BY <1>1, <1>2 DEF ProcessStates
<1>5. \A u \in Threads : Left(a, t).thread[u].at = "idle"
  BY <1>0, <1>1, <1>4, IdleIsThread DEF ProcessStates
<1> QED BY <1>0, <1>1, <1>3, <1>4, <1>5

\* A process none of whose threads is inside emit.
LEMMA IdleFits ==
    ASSUME NEW p, NEW j, NEW n, NEW d, NEW c,
           \A t \in Threads : p.thread[t].at = "idle", p.stage # "corrupt", p.last <= n,
           p.stage \in {"open", "on"} => LastSequence(d) <= p.last,
           p.stage = "on" => ~d.torn
    PROVE  /\ ProcessFits(p, j, n, d)
           /\ (p.stage \in {"open", "on"} =>
                  (\A i \in 1 .. Len(c) : c[i] <= p.last) /\ (p.revoked \/ n = p.last))
              => CurrentFits(p, j, n, c)
BY DEF ProcessFits, ThreadsFit, CurrentFits

\* A thread leaves emit; what it did to the journal and the directory is given.
LEMMA LeavingKeeps ==
    ASSUME EventInv, NEW a \in Activations, NEW t \in Threads, proc[a].thread[t].at # "idle",
           NEW v \in {proc[a].revoked, TRUE},
           proc' = [proc EXCEPT ![a] = [Left(a, t) EXCEPT !.revoked = v]],
           UNCHANGED <<leaseVars, cursors>>,
           eventJournal \subseteq eventJournal', JournalEnd <= JournalEnd',
           Gapless(eventJournal', JournalEnd'), \A e \in eventJournal' : e.by <= generation,
           ReceiptsFit(cursors, JournalEnd'),
           ProcessIsCurrent(a) \/ UNCHANGED eventJournal,
           disk' \in [Directories -> DirectoryStates],
           \A d \in Directories \ {proc[a].directory} : disk'[d] = disk[d],
           DirectoryFits(disk'[proc[a].directory], eventJournal'),
           LastSequence(disk'[proc[a].directory]) <= proc[a].last,
           ~disk'[proc[a].directory].torn,
           v \/ (JournalEnd' = JournalEnd /\ proc[a].thread[t].at # "append")
    PROVE  EventInv'
<1> DEFINE p == [Left(a, t) EXCEPT !.revoked = v]
<1>0. /\ proc[a].stage = "on" /\ proc[a].stage # "off" /\ proc[a].last <= JournalEnd
      /\ \A u \in Threads \ {t} : proc[a].thread[u].at = "idle"
  BY Emitting
<1>1. /\ p \in ProcessStates /\ p.stage = "on" /\ p.stage # "off" /\ p.generation = proc[a].generation
      /\ p.directory = proc[a].directory /\ p.last = proc[a].last /\ p.revoked = v
      /\ \A u \in Threads : p.thread[u].at = "idle"
  <2>1. Left(a, t) \in ProcessStates
    BY LeftIs
  <2>2. v \in BOOLEAN
    BY <1>0, ProcessNow DEF ProcessStates
  <2>3. /\ p \in ProcessStates /\ p.stage = Left(a, t).stage
        /\ p.generation = Left(a, t).generation /\ p.directory = Left(a, t).directory
        /\ p.last = Left(a, t).last /\ p.revoked = v /\ p.thread = Left(a, t).thread
    BY <2>1, <2>2 DEF ProcessStates
  <2> HIDE DEF p
  <2> QED BY <2>3, LeftIs
<1>2. JournalEnd \in Nat /\ JournalEnd' \in Nat /\ proc[a].last \in Nat /\ proc[a].last <= JournalEnd'
  <2>1. JournalEnd \in Nat /\ JournalEnd' \in Nat /\ proc[a].last \in Nat
    BY <1>0, ProcessNow DEF Gapless
  <2> QED BY <1>0, <2>1
<1>3. ProcessIsCurrent(a) =>
        (\A i \in 1 .. Len(cursors) : cursors[i] <= proc[a].last) /\ (v \/ JournalEnd' = proc[a].last)
  <2>1. SUFFICES ASSUME ProcessIsCurrent(a)
                 PROVE  (\A i \in 1 .. Len(cursors) : cursors[i] <= proc[a].last)
                        /\ (v \/ JournalEnd' = proc[a].last)
    OBVIOUS
  <2>2. CurrentFits(proc[a], eventJournal, JournalEnd, cursors)
    BY <1>0, <2>1, ProcessNow
  <2>3. ~v => ~proc[a].revoked /\ \A u \in Threads : proc[a].thread[u].at # "append"
    BY <1>0
  <2> QED BY <1>0, <2>2, <2>3 DEF CurrentFits
<1> HIDE DEF p
<1>4. /\ ProcessFits(p, eventJournal', JournalEnd', disk'[proc[a].directory])
      /\ ProcessIsCurrent(a) => CurrentFits(p, eventJournal', JournalEnd', cursors)
  BY <1>1, <1>2, <1>3, IdleFits
<1>5. proc' = [proc EXCEPT ![a] = p] /\ UNCHANGED leaseVars /\ cursors' = cursors
  BY DEF p
<1>6. cursors' \in Seq(Nat) /\ ReceiptsFit(cursors', JournalEnd')
         /\ (ProcessIsCurrent(a) \/ UNCHANGED <<eventJournal, cursors>>)
  BY <1>0, <1>5, ProcessNow
<1> QED BY <1>0, <1>1, <1>4, <1>5, <1>6, ProcessMove

\* A thread leaves emit without a trace.
LEMMA QuietLeave ==
    ASSUME EventInv, NEW a \in Activations, NEW t \in Threads, proc[a].thread[t].at # "idle",
           UNCHANGED <<leaseVars, eventJournal, cursors, disk>>,
           LeaveRevoked(a, t) \/ (Leave(a, t) /\ (proc[a].revoked \/ proc[a].thread[t].at # "append"))
    PROVE  EventInv'
<1>0. /\ proc[a].stage # "off" /\ LastSequence(disk[proc[a].directory]) <= proc[a].last
      /\ ~disk[proc[a].directory].torn
  BY Emitting
<1>1. \E v \in {proc[a].revoked, TRUE} :
        /\ proc' = [proc EXCEPT ![a] = [Left(a, t) EXCEPT !.revoked = v]]
        /\ v \/ proc[a].thread[t].at # "append"
  <2>1. CASE LeaveRevoked(a, t)
    BY <2>1 DEF LeaveRevoked
  <2>2. CASE Leave(a, t) /\ (proc[a].revoked \/ proc[a].thread[t].at # "append")
    <3>1. Left(a, t) = [Left(a, t) EXCEPT !.revoked = proc[a].revoked]
      BY LeftIs DEF ProcessStates
    <3> QED BY <2>2, <3>1 DEF Leave
  <2> QED BY <2>1, <2>2
<1>2. PICK v \in {proc[a].revoked, TRUE} :
        /\ proc' = [proc EXCEPT ![a] = [Left(a, t) EXCEPT !.revoked = v]]
        /\ v \/ proc[a].thread[t].at # "append"
  BY <1>1
<1>3. JournalEnd' = JournalEnd /\ JournalEnd \in Nat /\ JournalEnd <= JournalEnd'
  <2>1. JournalEnd' = JournalEnd
    BY DEF JournalEnd
  <2> QED BY <1>0, <2>1, ProcessNow
<1>4. /\ Gapless(eventJournal', JournalEnd') /\ ReceiptsFit(cursors, JournalEnd')
      /\ \A e \in eventJournal' : e.by <= generation
      /\ UNCHANGED <<leaseVars, cursors>> /\ UNCHANGED eventJournal
      /\ disk' \in [Directories -> DirectoryStates]
      /\ \A d \in Directories \ {proc[a].directory} : disk'[d] = disk[d]
      /\ DirectoryFits(disk'[proc[a].directory], eventJournal')
      /\ disk'[proc[a].directory] = disk[proc[a].directory]
  BY <1>0, <1>3, ProcessNow DEF EventInv
<1>5. /\ ProcessIsCurrent(a) \/ UNCHANGED eventJournal
      /\ eventJournal \subseteq eventJournal'
      /\ LastSequence(disk'[proc[a].directory]) <= proc[a].last
      /\ ~disk'[proc[a].directory].torn
      /\ v \/ (JournalEnd' = JournalEnd /\ proc[a].thread[t].at # "append")
  <2>1. ProcessIsCurrent(a) \/ UNCHANGED eventJournal
    BY <1>4
  <2>2. eventJournal \subseteq eventJournal'
    BY <1>4
  <2>3. /\ LastSequence(disk'[proc[a].directory]) <= proc[a].last
        /\ ~disk'[proc[a].directory].torn
    BY <1>0, <1>4
  <2>4. v \/ (JournalEnd' = JournalEnd /\ proc[a].thread[t].at # "append")
    BY <1>2, <1>3
  <2> QED BY <2>1, <2>2, <2>3, <2>4
<1> QED BY <1>2, <1>3, <1>4, <1>5, LeavingKeeps

-----------------------------------------------------------------------------
(* A thread inside emit *)

LEMMA ThreadIs ==
    ASSUME NEW q \in ProcessStates, NEW t \in Threads, NEW x \in ThreadStates
    PROVE  LET p == [q EXCEPT !.thread[t] = x] IN
           /\ p \in ProcessStates /\ p.stage = q.stage /\ p.generation = q.generation
           /\ p.directory = q.directory /\ p.last = q.last /\ p.revoked = q.revoked
           /\ p.lock = q.lock /\ p.thread[t] = x
           /\ \A u \in Threads \ {t} : p.thread[u] = q.thread[u]
BY ThreadIsProcess DEF ProcessStates

LEMMA EmitterFits ==
    ASSUME NEW p, NEW j, NEW n, NEW d, NEW c, NEW t \in Threads,
           p.stage = "on", p.lock = t, \A u \in Threads \ {t} : p.thread[u].at = "idle",
           p.thread[t].at # "idle", p.last <= n, LastSequence(d) <= p.last, ~d.torn,
           p.thread[t].at = "append" => p.thread[t].event = p.last + 1,
           p.thread[t].at \in {"local", "status"} => p.thread[t].event = p.last /\ Mine(p, t) \in j,
           p.thread[t].at = "local" => LastSequence(d) < p.last,
           p.thread[t].at = "status" => LastSequence(d) = p.last
    PROVE  /\ ProcessFits(p, j, n, d)
           /\ /\ \A i \in 1 .. Len(c) : c[i] <= p.last
              /\ IF p.thread[t].at = "append"
                 THEN n = p.last \/ (n = p.last + 1 /\ Mine(p, t) \in j)
                 ELSE p.revoked \/ n = p.last
              => CurrentFits(p, j, n, c)
<1>1. ThreadsFit(p, j, d)
  BY DEF ThreadsFit
<1>2. ProcessFits(p, j, n, d)
  BY <1>1 DEF ProcessFits
<1>3. ASSUME \A i \in 1 .. Len(c) : c[i] <= p.last,
             IF p.thread[t].at = "append"
             THEN n = p.last \/ (n = p.last + 1 /\ Mine(p, t) \in j)
             ELSE p.revoked \/ n = p.last
      PROVE  CurrentFits(p, j, n, c)
  <2>1. \A u \in Threads : p.thread[u].at = "append" =>
           \/ n = p.last
           \/ n = p.last + 1 /\ Mine(p, u) \in j
    BY <1>3
  <2>2. ~p.revoked /\ n # p.last => \E u \in Threads : p.thread[u].at = "append"
    BY <1>3
  <2> QED BY <1>3, <2>1, <2>2 DEF CurrentFits
<1> QED BY <1>2, <1>3

\* What is known of the process of a thread inside emit while it is current.
LEMMA EmitterNow ==
    ASSUME EventInv, NEW a \in Activations, NEW t \in Threads, proc[a].thread[t].at # "idle",
           ProcessIsCurrent(a)
    PROVE  /\ \A i \in 1 .. Len(cursors) : cursors[i] <= proc[a].last
           /\ IF proc[a].thread[t].at = "append"
              THEN \/ JournalEnd = proc[a].last
                   \/ JournalEnd = proc[a].last + 1 /\ Mine(proc[a], t) \in eventJournal
              ELSE proc[a].revoked \/ JournalEnd = proc[a].last
<1>1. proc[a].stage = "on" /\ proc[a].stage # "off"
         /\ \A u \in Threads \ {t} : proc[a].thread[u].at = "idle"
  BY Emitting
<1>2. CurrentFits(proc[a], eventJournal, JournalEnd, cursors)
  BY <1>1, ProcessNow
<1> QED BY <1>1, <1>2 DEF CurrentFits

\* Thread t of process a goes on inside emit; what it did is given.
LEMMA EmittingKeeps ==
    ASSUME EventInv, NEW a \in Activations, NEW t \in Threads, proc[a].thread[t].at # "idle",
           NEW x \in ThreadStates, NEW l \in Nat, proc[a].last <= l, l <= JournalEnd',
           proc' = [proc EXCEPT ![a] = [[proc[a] EXCEPT !.last = l] EXCEPT !.thread[t] = x]],
           UNCHANGED <<leaseVars, cursors>>,
           eventJournal \subseteq eventJournal', JournalEnd <= JournalEnd',
           Gapless(eventJournal', JournalEnd'), \A e \in eventJournal' : e.by <= generation,
           ReceiptsFit(cursors, JournalEnd'),
           ProcessIsCurrent(a) \/ UNCHANGED eventJournal,
           disk' \in [Directories -> DirectoryStates],
           \A d \in Directories \ {proc[a].directory} : disk'[d] = disk[d],
           DirectoryFits(disk'[proc[a].directory], eventJournal'),
           LastSequence(disk'[proc[a].directory]) <= l,
           ~disk'[proc[a].directory].torn,
           x.at # "idle", x.at = "append" => x.event = l + 1,
           x.at \in {"local", "status"} =>
              x.event = l /\ [seq |-> x.event, by |-> proc[a].generation] \in eventJournal',
           x.at = "local" => LastSequence(disk'[proc[a].directory]) < l,
           x.at = "status" => LastSequence(disk'[proc[a].directory]) = l,
           ProcessIsCurrent(a) =>
              IF x.at = "append"
              THEN \/ JournalEnd' = l
                   \/ JournalEnd' = l + 1 /\ [seq |-> x.event, by |-> proc[a].generation] \in eventJournal'
              ELSE proc[a].revoked \/ JournalEnd' = l
    PROVE  EventInv'
<1> DEFINE q == [proc[a] EXCEPT !.last = l]
           p == [q EXCEPT !.thread[t] = x]
<1>0. /\ proc[a].stage = "on" /\ proc[a].stage # "off" /\ proc[a].lock = t
      /\ \A u \in Threads \ {t} : proc[a].thread[u].at = "idle"
      /\ proc[a] \in ProcessStates /\ proc[a].last \in Nat
  BY Emitting, ProcessNow
<1>1. /\ q \in ProcessStates /\ q.stage = proc[a].stage /\ q.generation = proc[a].generation
      /\ q.directory = proc[a].directory /\ q.last = l /\ q.revoked = proc[a].revoked
      /\ q.thread = proc[a].thread /\ q.lock = proc[a].lock
  BY <1>0, LastIsProcess DEF ProcessStates
<1>2. proc' = [proc EXCEPT ![a] = p]
  OBVIOUS
<1> HIDE DEF q
<1>3. /\ p \in ProcessStates /\ p.stage = q.stage /\ p.generation = q.generation
      /\ p.directory = q.directory /\ p.last = q.last /\ p.revoked = q.revoked
      /\ p.lock = q.lock /\ p.thread[t] = x
      /\ \A u \in Threads \ {t} : p.thread[u] = q.thread[u]
  BY <1>1, ThreadIs
<1> HIDE DEF p
<1>4. /\ p.stage = "on" /\ p.stage # "off" /\ p.lock = t /\ p.last = l /\ p.revoked = proc[a].revoked
      /\ p.generation = proc[a].generation /\ p.directory = proc[a].directory
      /\ \A u \in Threads \ {t} : p.thread[u].at = "idle"
      /\ Mine(p, t) = [seq |-> x.event, by |-> proc[a].generation]
  BY <1>0, <1>1, <1>3 DEF Mine
<1>5. ProcessIsCurrent(a) => \A i \in 1 .. Len(cursors) : cursors[i] <= l
  <2>1. SUFFICES ASSUME ProcessIsCurrent(a), NEW i \in 1 .. Len(cursors) PROVE cursors[i] <= l
    OBVIOUS
  <2>2. cursors[i] <= proc[a].last /\ cursors[i] \in Nat
    BY <1>0, <2>1, EmitterNow, ProcessNow, ElementOfSeq
  <2> QED BY <1>0, <2>2
<1>6. /\ ProcessFits(p, eventJournal', JournalEnd', disk'[proc[a].directory])
      /\ ProcessIsCurrent(a) => CurrentFits(p, eventJournal', JournalEnd', cursors)
  BY <1>3, <1>4, <1>5, EmitterFits
<1>7. cursors' = cursors /\ cursors' \in Seq(Nat) /\ ReceiptsFit(cursors', JournalEnd')
         /\ (ProcessIsCurrent(a) \/ UNCHANGED <<eventJournal, cursors>>) /\ UNCHANGED leaseVars
  BY <1>0, ProcessNow
<1>8. /\ DirectoryFits(disk'[p.directory], eventJournal')
      /\ ProcessFits(p, eventJournal', JournalEnd', disk'[p.directory])
      /\ \A d \in Directories \ {p.directory} : disk'[d] = disk[d]
      /\ ProcessIsCurrent(a) => CurrentFits(p, eventJournal', JournalEnd', cursors')
  BY <1>4, <1>6, <1>7
<1> QED BY <1>0, <1>2, <1>3, <1>4, <1>7, <1>8, ProcessMove

-----------------------------------------------------------------------------
(* The steps that leave the journal and the directory alone *)

LEMMA NotEmitting ==
    ASSUME EventInv, NEW a \in Activations, proc[a].stage # "off",
           proc[a].stage # "on" \/ proc[a].lock = NoThread
    PROVE  \A t \in Threads : proc[a].thread[t].at = "idle"
BY Emitting, ThreadsAssumption

LEMMA SeedSequenceKeeps ==
    ASSUME EventInv, NEW a \in Activations, SeedSequence(a)
    PROVE  EventInv'
<1> DEFINE q == [proc[a] EXCEPT !.stage = "open"]
           p == [q EXCEPT !.last = JournalEnd]
<1>0. /\ proc[a].stage # "off" /\ proc[a].stage # "on" /\ proc' = [proc EXCEPT ![a] = p]
      /\ UNCHANGED <<leaseVars, eventJournal, cursors, disk>>
  BY DEF SeedSequence, EventInv, EventTypeOK
<1>1. /\ proc[a] \in ProcessStates /\ JournalEnd \in Nat
      /\ \A t \in Threads : proc[a].thread[t].at = "idle"
  BY <1>0, ProcessNow, NotEmitting
<1>2. /\ q \in ProcessStates /\ q.stage = "open" /\ q.generation = proc[a].generation
      /\ q.directory = proc[a].directory /\ q.thread = proc[a].thread
  BY <1>1 DEF ProcessStates
<1> HIDE DEF q
<1>3. /\ p \in ProcessStates /\ p.stage = "open" /\ p.stage # "off" /\ p.generation = proc[a].generation
      /\ p.directory = proc[a].directory /\ p.last = JournalEnd
      /\ \A t \in Threads : p.thread[t].at = "idle"
  BY <1>1, <1>2 DEF ProcessStates
<1> HIDE DEF p
<1>4. LastSequence(disk[proc[a].directory]) <= JournalEnd
  BY <1>0, ProcessNow, LastSequenceIs
<1>5. \A i \in 1 .. Len(cursors) : cursors[i] <= JournalEnd
  BY <1>0, ProcessNow DEF ReceiptsFit
<1>6. /\ ProcessFits(p, eventJournal, JournalEnd, disk[proc[a].directory])
      /\ CurrentFits(p, eventJournal, JournalEnd, cursors)
  <2>1. /\ p.last <= JournalEnd /\ LastSequence(disk[proc[a].directory]) <= p.last
        /\ p.stage # "corrupt" /\ p.stage # "on" /\ JournalEnd = p.last
        /\ \A i \in 1 .. Len(cursors) : cursors[i] <= p.last
    BY <1>1, <1>3, <1>4, <1>5
  <2> QED BY <1>3, <2>1, IdleFits
<1> QED BY <1>0, <1>3, <1>6, QuietProcess

LEMMA RevokeProcessKeeps ==
    ASSUME EventInv, NEW a \in Activations, proc[a].stage # "off",
           proc' = [proc EXCEPT ![a].revoked = TRUE],
           UNCHANGED <<leaseVars, eventJournal, cursors, disk>>
    PROVE  EventInv'
<1> DEFINE p == [proc[a] EXCEPT !.revoked = TRUE]
<1>1. proc[a] \in ProcessStates /\ proc' = [proc EXCEPT ![a] = p]
  BY ProcessNow
<1>2. /\ p \in ProcessStates /\ p.stage = proc[a].stage /\ p.generation = proc[a].generation
      /\ p.directory = proc[a].directory /\ p.thread = proc[a].thread /\ p.last = proc[a].last
      /\ p.lock = proc[a].lock /\ p.revoked
  BY <1>1 DEF ProcessStates
<1> HIDE DEF p
<1>3. ProcessFits(p, eventJournal, JournalEnd, disk[proc[a].directory])
  BY <1>2, ProcessNow DEF ProcessFits, ThreadsFit, Mine
<1>4. ProcessIsCurrent(a) => CurrentFits(p, eventJournal, JournalEnd, cursors)
  BY <1>2, ProcessNow DEF CurrentFits, Mine
<1> QED BY <1>1, <1>2, <1>3, <1>4, QuietProcess

LEMMA CloseBusKeeps ==
    ASSUME EventInv, NEW a \in Activations, CloseBus(a)
    PROVE  EventInv'
<1> DEFINE p == [proc[a] EXCEPT !.closed = TRUE]
<1>0. proc[a].stage # "off" /\ UNCHANGED <<leaseVars, eventJournal, cursors, disk>>
  BY DEF CloseBus
<1>1. proc[a] \in ProcessStates /\ proc' = [proc EXCEPT ![a] = p]
  BY <1>0, ProcessNow DEF CloseBus
<1>2. /\ p \in ProcessStates /\ p.stage = proc[a].stage /\ p.generation = proc[a].generation
      /\ p.directory = proc[a].directory /\ p.thread = proc[a].thread /\ p.last = proc[a].last
      /\ p.lock = proc[a].lock /\ p.revoked = proc[a].revoked
  BY <1>1 DEF ProcessStates
<1> HIDE DEF p
<1>3. ProcessFits(p, eventJournal, JournalEnd, disk[proc[a].directory])
  BY <1>0, <1>2, ProcessNow DEF ProcessFits, ThreadsFit, Mine
<1>4. ProcessIsCurrent(a) => CurrentFits(p, eventJournal, JournalEnd, cursors)
  BY <1>0, <1>2, ProcessNow DEF CurrentFits, Mine
<1> QED BY <1>0, <1>1, <1>2, <1>3, <1>4, QuietProcess

LEMMA OpenRecorderKeeps ==
    ASSUME EventInv, NEW a \in Activations, OpenRecorder(a)
    PROVE  EventInv'
<1> DEFINE d == proc[a].directory
<1>0. /\ proc[a].stage = "open" /\ proc[a].stage # "off"
      /\ UNCHANGED <<leaseVars, eventJournal, cursors>>
  BY DEF OpenRecorder
<1>1. /\ proc[a] \in ProcessStates /\ JournalEnd \in Nat /\ d \in Directories
      /\ disk \in [Directories -> DirectoryStates] /\ disk[d] \in DirectoryStates
      /\ DirectoryFits(disk[d], eventJournal) /\ proc[a].last \in Nat
      /\ ProcessFits(proc[a], eventJournal, JournalEnd, disk[d])
      /\ ProcessIsCurrent(a) => CurrentFits(proc[a], eventJournal, JournalEnd, cursors)
      /\ \A t \in Threads : proc[a].thread[t].at = "idle"
  BY <1>0, ProcessNow, NotEmitting
<1>2. LastSequence(disk[d]) <= proc[a].last /\ proc[a].last <= JournalEnd
         /\ LastLine(d) = LastSequence(disk[d]) /\ LastSequence(disk[d]) \in Nat
  <2>1. LastSequence(disk[d]) \in Nat
    BY <1>0, <1>1, ProcessNow, LastSequenceIs
  <2>2. LastLine(d) = LastSequence(disk[d])
    BY DEF LastLine, LastSequence
  <2> QED BY <1>0, <1>1, <2>1, <2>2 DEF ProcessFits
<1>3. LogIsSound(d) /\ ~(LastLine(d) > proc[a].last)
  <2>1. ~(LastLine(d) > proc[a].last)
    BY <1>1, <1>2
  <2>2. LogIsSound(d)
    BY <1>1, <1>2 DEF LogIsSound, DirectoryFits
  <2> QED BY <2>1, <2>2
<1>4. CASE proc[a].revoked
  <2> DEFINE p == [proc[a] EXCEPT !.stage = "over"]
  <2>1. proc' = [proc EXCEPT ![a] = p] /\ UNCHANGED disk
    BY <1>4 DEF OpenRecorder
  <2>2. /\ p \in ProcessStates /\ p.stage = "over" /\ p.generation = proc[a].generation
        /\ p.directory = proc[a].directory /\ p.thread = proc[a].thread /\ p.last = proc[a].last
    BY <1>1 DEF ProcessStates
  <2> HIDE DEF p
  <2>3. /\ ProcessFits(p, eventJournal, JournalEnd, disk[proc[a].directory])
        /\ CurrentFits(p, eventJournal, JournalEnd, cursors)
    BY <1>1, <1>2, <2>2, IdleFits
  <2> QED BY <1>0, <2>1, <2>2, <2>3, QuietProcess
<1>5. CASE ~proc[a].revoked
  <2> DEFINE q == [proc[a] EXCEPT !.stage = "on"]
             p == [q EXCEPT !.seq = proc[a].last]
             repaired == [disk[d] EXCEPT !.torn = FALSE]
  <2>1. proc' = [proc EXCEPT ![a] = p] /\ disk' = [disk EXCEPT ![d] = repaired]
    BY <1>3, <1>5 DEF OpenRecorder
  <2>2. /\ q \in ProcessStates /\ q.stage = "on" /\ q.generation = proc[a].generation
        /\ q.directory = proc[a].directory /\ q.thread = proc[a].thread /\ q.last = proc[a].last
        /\ q.revoked = proc[a].revoked
    BY <1>1 DEF ProcessStates
  <2> HIDE DEF q
  <2>3. /\ p \in ProcessStates /\ p.stage = "on" /\ p.stage # "off" /\ p.generation = proc[a].generation
        /\ p.directory = proc[a].directory /\ p.thread = proc[a].thread /\ p.last = proc[a].last
        /\ p.revoked = proc[a].revoked
    BY <1>1, <2>2 DEF ProcessStates
  <2> HIDE DEF p
  <2>4. /\ repaired \in DirectoryStates /\ DirectoryFits(repaired, eventJournal) /\ ~repaired.torn
        /\ LastSequence(repaired) = LastSequence(disk[d])
    BY <1>1, TornFits
  <2> HIDE DEF repaired
  <2>5. ProcessFits(p, eventJournal, JournalEnd, repaired)
    BY <1>1, <1>2, <2>3, <2>4, IdleFits
  <2>6. ProcessIsCurrent(a) => CurrentFits(p, eventJournal, JournalEnd, cursors)
    BY <1>0, <1>1, <2>3 DEF CurrentFits
  <2>7. JournalEnd' = JournalEnd
    BY <1>0 DEF JournalEnd
  <2>8. /\ eventJournal' = eventJournal /\ cursors' = cursors /\ JournalEnd <= JournalEnd'
        /\ Gapless(eventJournal', JournalEnd') /\ \A e \in eventJournal' : e.by <= generation
        /\ cursors' \in Seq(Nat) /\ ReceiptsFit(cursors', JournalEnd')
    BY <1>0, <1>1, <2>7, ProcessNow DEF EventInv
  <2>9. /\ disk' \in [Directories -> DirectoryStates]
        /\ \A e \in Directories \ {p.directory} : disk'[e] = disk[e]
        /\ disk'[p.directory] = repaired
    BY <1>1, <2>1, <2>3, <2>4
  <2>10. /\ DirectoryFits(disk'[p.directory], eventJournal')
         /\ ProcessFits(p, eventJournal', JournalEnd', disk'[p.directory])
         /\ ProcessIsCurrent(a) => CurrentFits(p, eventJournal', JournalEnd', cursors')
    BY <2>4, <2>5, <2>6, <2>7, <2>8, <2>9
  <2> QED BY <1>0, <2>1, <2>3, <2>8, <2>9, <2>10, ProcessMove
<1> QED BY <1>4, <1>5

\* Thread t enters emit with a fresh event, or finds the bus closed.
LEMMA BuildEventKeeps ==
    ASSUME EventInv, NEW a \in Activations, NEW t \in Threads, BuildEvent(a, t)
    PROVE  EventInv'
<1>0. /\ proc[a].stage = "on" /\ proc[a].stage # "off" /\ ~proc[a].revoked
      /\ proc[a].lock = NoThread /\ proc[a].thread[t] = IdleThread
      /\ UNCHANGED <<leaseVars, eventJournal, cursors, disk>>
  BY DEF BuildEvent
<1>1. /\ proc[a] \in ProcessStates /\ JournalEnd \in Nat /\ proc[a].last \in Nat
      /\ ProcessFits(proc[a], eventJournal, JournalEnd, disk[proc[a].directory])
      /\ ProcessIsCurrent(a) => CurrentFits(proc[a], eventJournal, JournalEnd, cursors)
      /\ \A u \in Threads : proc[a].thread[u].at = "idle"
  BY <1>0, ProcessNow, NotEmitting
<1> DEFINE q == [proc[a] EXCEPT !.seq = proc[a].seq + 1]
<1>2. /\ q \in ProcessStates /\ q.stage = proc[a].stage /\ q.generation = proc[a].generation
      /\ q.directory = proc[a].directory /\ q.thread = proc[a].thread /\ q.last = proc[a].last
      /\ q.revoked = proc[a].revoked /\ q.lock = proc[a].lock
  BY <1>1 DEF ProcessStates
<1>3. CASE proc[a].closed
  <2>1. proc' = [proc EXCEPT ![a] = q]
    <3>1. q = [proc[a] EXCEPT !.seq = @ + 1, !.lock = NoThread, !.thread[t] = IdleThread]
      <4>1. proc[a].thread = [proc[a].thread EXCEPT ![t] = IdleThread]
        BY <1>0, <1>1 DEF ProcessStates
      <4>2. proc[a].thread \in [Threads -> ThreadStates]
        BY <1>1 DEF ProcessStates
      <4> QED BY <1>0, <1>1, <4>1 DEF ProcessStates
    <3>2. proc' = [proc EXCEPT ![a] = [proc[a] EXCEPT !.seq = @ + 1, !.lock = NoThread,
                                                      !.thread[t] = IdleThread]]
      BY <1>3 DEF BuildEvent
    <3> QED BY <3>1, <3>2
  <2> HIDE DEF q
  <2>2. ProcessFits(q, eventJournal, JournalEnd, disk[proc[a].directory])
    BY <1>0, <1>1, <1>2 DEF ProcessFits, ThreadsFit
  <2>3. ProcessIsCurrent(a) => CurrentFits(q, eventJournal, JournalEnd, cursors)
    BY <1>0, <1>1, <1>2 DEF CurrentFits
  <2> QED BY <1>0, <1>2, <2>1, <2>2, <2>3, QuietProcess
<1>4. CASE ~proc[a].closed
  <2> DEFINE x == [IdleThread EXCEPT !.at = "check", !.event = proc[a].seq + 1]
             r == [q EXCEPT !.lock = t]
             p == [r EXCEPT !.thread[t] = x]
  <2>1. proc' = [proc EXCEPT ![a] = p]
    BY <1>4 DEF BuildEvent
  <2>2. x \in ThreadStates /\ x.at = "check"
    <3>1. proc[a].seq + 1 \in Nat
      BY <1>1 DEF ProcessStates
    <3> DEFINE y == [IdleThread EXCEPT !.at = "check"]
    <3>2. y \in ThreadStates /\ y.at = "check" /\ x = [y EXCEPT !.event = proc[a].seq + 1]
      BY IdleIsThread DEF ThreadStates
    <3> HIDE DEF y, x
    <3> QED BY <3>1, <3>2 DEF ThreadStates
  <2> HIDE DEF q, x
  <2>3. /\ r \in ProcessStates /\ r.stage = q.stage /\ r.generation = q.generation
        /\ r.directory = q.directory /\ r.thread = q.thread /\ r.last = q.last
        /\ r.revoked = q.revoked /\ r.lock = t
    BY <1>2 DEF ProcessStates
  <2> HIDE DEF r
  <2>4. /\ p \in ProcessStates /\ p.stage = r.stage /\ p.generation = r.generation
        /\ p.directory = r.directory /\ p.last = r.last /\ p.revoked = r.revoked
        /\ p.lock = r.lock /\ p.thread[t] = x
        /\ \A u \in Threads \ {t} : p.thread[u] = r.thread[u]
    BY <2>2, <2>3, ThreadIs
  <2> HIDE DEF p
  <2>5. /\ p.stage = "on" /\ p.stage # "off" /\ p.lock = t /\ p.last = proc[a].last
        /\ p.generation = proc[a].generation /\ p.directory = proc[a].directory
        /\ p.revoked = proc[a].revoked /\ p.thread[t].at = "check"
        /\ \A u \in Threads \ {t} : p.thread[u].at = "idle"
    BY <1>0, <1>1, <1>2, <2>2, <2>3, <2>4
  <2>6. /\ p.last <= JournalEnd /\ LastSequence(disk[proc[a].directory]) <= p.last
        /\ ~disk[proc[a].directory].torn
    BY <1>0, <1>1, <2>5 DEF ProcessFits
  <2>7. ProcessIsCurrent(a) =>
           (\A i \in 1 .. Len(cursors) : cursors[i] <= p.last) /\ JournalEnd = p.last
    BY <1>0, <1>1, <2>5 DEF CurrentFits
  <2>8. /\ ProcessFits(p, eventJournal, JournalEnd, disk[proc[a].directory])
        /\ ProcessIsCurrent(a) => CurrentFits(p, eventJournal, JournalEnd, cursors)
    BY <2>5, <2>6, <2>7, EmitterFits
  <2> QED BY <1>0, <2>1, <2>4, <2>5, <2>8, QuietProcess
<1> QED BY <1>3, <1>4

\* Thread t takes a step inside emit that leaves journal and directory alone.
LEMMA QuietStep ==
    ASSUME EventInv, NEW a \in Activations, NEW t \in Threads, proc[a].thread[t].at # "idle",
           NEW x \in ThreadStates, x.at = "append", x.event = proc[a].last + 1,
           \/ proc[a].thread[t].at = "append" /\ x.event = proc[a].thread[t].event
           \/ proc[a].thread[t].at # "append" /\ ~proc[a].revoked,
           proc' = [proc EXCEPT ![a].thread[t] = x],
           UNCHANGED <<leaseVars, eventJournal, cursors, disk>>
    PROVE  EventInv'
<1>0. /\ proc[a].stage = "on" /\ proc[a].stage # "off" /\ proc[a].last <= JournalEnd
      /\ LastSequence(disk[proc[a].directory]) <= proc[a].last
      /\ ~disk[proc[a].directory].torn
  BY Emitting
<1>1. /\ proc[a] \in ProcessStates /\ JournalEnd \in Nat /\ proc[a].last \in Nat
      /\ proc \in [Activations -> ProcessStates]
  BY <1>0, ProcessNow
<1>2. [proc[a] EXCEPT !.last = proc[a].last] = proc[a]
  BY <1>1 DEF ProcessStates
<1>3. proc' = [proc EXCEPT ![a] = [[proc[a] EXCEPT !.last = proc[a].last] EXCEPT !.thread[t] = x]]
  BY <1>1, <1>2
<1>4. JournalEnd' = JournalEnd
  BY DEF JournalEnd
<1>5. /\ Gapless(eventJournal', JournalEnd') /\ ReceiptsFit(cursors, JournalEnd')
      /\ \A e \in eventJournal' : e.by <= generation
      /\ UNCHANGED <<leaseVars, cursors>> /\ UNCHANGED eventJournal
      /\ eventJournal \subseteq eventJournal' /\ JournalEnd <= JournalEnd'
      /\ disk' \in [Directories -> DirectoryStates]
      /\ \A d \in Directories \ {proc[a].directory} : disk'[d] = disk[d]
      /\ DirectoryFits(disk'[proc[a].directory], eventJournal')
      /\ disk'[proc[a].directory] = disk[proc[a].directory]
  BY <1>0, <1>1, <1>4, ProcessNow DEF EventInv
<1>6. /\ LastSequence(disk'[proc[a].directory]) <= proc[a].last
      /\ ~disk'[proc[a].directory].torn
      /\ proc[a].last <= JournalEnd' /\ proc[a].last <= proc[a].last
  BY <1>0, <1>1, <1>4, <1>5
<1>7. ProcessIsCurrent(a) =>
        \/ JournalEnd' = proc[a].last
        \/ JournalEnd' = proc[a].last + 1 /\ [seq |-> x.event, by |-> proc[a].generation] \in eventJournal'
  BY <1>4, <1>5, EmitterNow DEF Mine
<1>8. x.at # "idle" /\ x.at # "local" /\ x.at # "status" /\ x.at \notin {"local", "status"}
  OBVIOUS
<1> QED BY <1>1, <1>3, <1>5, <1>6, <1>7, <1>8, EmittingKeeps

LEMMA CheckEventKeeps ==
    ASSUME EventInv, NEW a \in Activations, NEW t \in Threads, NEW private \in BOOLEAN,
           CheckEvent(a, t, private)
    PROVE  EventInv'
<1>0. /\ proc[a].thread[t].at = "check" /\ proc[a].thread[t].at # "idle"
      /\ proc[a].thread[t].at # "append" /\ UNCHANGED <<leaseVars, eventJournal, cursors, disk>>
  BY DEF CheckEvent
<1>1. CASE Leave(a, t)
  BY <1>0, <1>1, QuietLeave
<1>2. CASE ~Leave(a, t)
  <2> DEFINE x == [proc[a].thread[t] EXCEPT !.at = "append"]
  <2>1. /\ ~proc[a].revoked /\ proc[a].thread[t].event = proc[a].last + 1
        /\ proc' = [proc EXCEPT ![a].thread[t] = x]
    BY <1>2 DEF CheckEvent
  <2>2. proc[a].thread[t] \in ThreadStates
    BY <1>0, Emitting
  <2>3. x \in ThreadStates /\ x.at = "append" /\ x.event = proc[a].last + 1
    BY <2>1, <2>2 DEF ThreadStates
  <2> HIDE DEF x
  <2> QED BY <1>0, <2>1, <2>3, QuietStep
<1> QED BY <1>1, <1>2

LEMMA AppendRefusedKeeps ==
    ASSUME EventInv, NEW a \in Activations, NEW t \in Threads, AppendRefused(a, t)
    PROVE  EventInv'
BY QuietLeave DEF AppendRefused

-----------------------------------------------------------------------------
(* The steps on the journal *)

\* The journal grows by its next event.
LEMMA Extends ==
    ASSUME NEW j, NEW n \in Nat, Gapless(j, n), NEW e \in EventRecords, e.seq = n + 1,
           \A f \in j : f.by <= e.by
    PROVE  Gapless(j \union {e}, n + 1)
<1> DEFINE k == j \union {e}
<1>1. \A f \in j : f \in EventRecords /\ f.seq \in 1 .. n /\ f.by \in Nat
  BY DEF Gapless, EventRecords
<1>2. e.by \in Nat /\ e.seq \in Nat
  BY DEF EventRecords
<1>3. {f.seq : f \in k} = 1 .. n + 1
  <2>1. {f.seq : f \in j} = 1 .. n
    BY DEF Gapless
  <2>2. {f.seq : f \in k} = {f.seq : f \in j} \union {n + 1}
    OBVIOUS
  <2> QED BY <2>1, <2>2
<1>4. \A f, g \in k : f.seq <= g.seq => f.by <= g.by
  <2>1. SUFFICES ASSUME NEW f \in k, NEW g \in k, f.seq <= g.seq PROVE f.by <= g.by
    OBVIOUS
  <2>2. CASE f \in j /\ g \in j
    BY <2>1, <2>2 DEF Gapless
  <2>3. CASE f \in j /\ g = e
    BY <2>3
  <2>4. CASE f = e /\ g \in j
    BY <1>1, <2>1, <2>4
  <2>5. CASE f = e /\ g = e
    BY <1>2, <2>5
  <2> QED BY <2>2, <2>3, <2>4, <2>5
<1>5. \A f, g \in k : f.seq = g.seq => f = g
  BY <1>1, <1>2 DEF Gapless
<1>6. k \subseteq EventRecords
  BY DEF Gapless
<1> QED BY <1>3, <1>4, <1>5, <1>6 DEF Gapless

\* The append of thread t took effect: the journal ends with its event.
LEMMA Appended ==
    ASSUME EventInv, NEW a \in Activations, NEW t \in Threads, proc[a].thread[t].at = "append",
           ProcessIsCurrent(a), eventJournal' = eventJournal \union {Event(a, t)}
    PROVE  /\ JournalEnd' = proc[a].last + 1 /\ proc[a].thread[t].event = proc[a].last + 1
           /\ JournalEnd <= JournalEnd'
           /\ Gapless(eventJournal', JournalEnd') /\ \A e \in eventJournal' : e.by <= generation
           /\ ReceiptsFit(cursors, JournalEnd')
<1>0. /\ proc[a].stage # "off" /\ proc[a].last \in Nat /\ JournalEnd \in Nat /\ generation \in Nat
      /\ proc[a].thread[t].event = proc[a].last + 1 /\ Event(a, t) = Mine(proc[a], t)
      /\ proc[a].generation = generation
  <2>1. proc[a].stage # "off"
    BY Emitting
  <2>2. proc[a].thread[t].event = proc[a].last + 1
    BY <2>1, ProcessNow DEF ProcessFits, ThreadsFit
  <2> QED BY <2>1, <2>2, ProcessNow DEF Event, Mine, ProcessIsCurrent, Holds, EventInv, EventTypeOK
<1>1. /\ Gapless(eventJournal', proc[a].last + 1) /\ JournalEnd <= proc[a].last + 1
      /\ \A e \in eventJournal' : e.by <= generation
  <2>1. \/ JournalEnd = proc[a].last
        \/ JournalEnd = proc[a].last + 1 /\ Mine(proc[a], t) \in eventJournal
    BY EmitterNow
  <2>2. Gapless(eventJournal, JournalEnd) /\ \A e \in eventJournal : e.by <= generation
    BY DEF EventInv
  <2>3. CASE JournalEnd = proc[a].last + 1 /\ Mine(proc[a], t) \in eventJournal
    <3>1. eventJournal' = eventJournal
      BY <1>0, <2>3
    <3>2. Gapless(eventJournal', proc[a].last + 1)
      BY <2>2, <2>3, <3>1
    <3>3. JournalEnd <= proc[a].last + 1
      BY <1>0, <2>3
    <3> QED BY <2>2, <3>1, <3>2, <3>3
  <2>4. CASE JournalEnd = proc[a].last
    <3>2. /\ Event(a, t) \in EventRecords /\ Event(a, t).seq = JournalEnd + 1
          /\ Event(a, t).by = generation
      BY <1>0, <2>4 DEF Event, EventRecords
    <3>3. Gapless(eventJournal', JournalEnd + 1)
      BY <1>0, <2>2, <3>2, Extends
    <3> QED BY <1>0, <2>2, <2>4, <3>2, <3>3
  <2> QED BY <2>1, <2>3, <2>4
<1>2. JournalEnd' = proc[a].last + 1
  <2>1. {e.seq : e \in eventJournal'} = 1 .. proc[a].last + 1
    BY <1>1 DEF Gapless
  <2>2. JournalEnd' = Highest({0} \union {e.seq : e \in eventJournal'})
    BY DEF JournalEnd
  <2>3. proc[a].last + 1 \in Nat
    BY <1>0
  <2> QED BY <2>1, <2>2, <2>3, HighestIs
<1>3. ReceiptsFit(cursors, JournalEnd')
  <2>1. ReceiptsFit(cursors, JournalEnd) /\ \A i \in 1 .. Len(cursors) : cursors[i] \in Nat
    BY <1>0, ProcessNow, ElementOfSeq
  <2> QED BY <1>0, <1>1, <1>2, <2>1 DEF ReceiptsFit
<1> QED BY <1>0, <1>1, <1>2, <1>3

LEMMA SameJournal ==
    ASSUME EventInv, UNCHANGED eventJournal
    PROVE  /\ JournalEnd' = JournalEnd /\ JournalEnd <= JournalEnd'
           /\ eventJournal \subseteq eventJournal' /\ Gapless(eventJournal', JournalEnd')
           /\ \A e \in eventJournal' : e.by <= generation
           /\ ReceiptsFit(cursors, JournalEnd')
<1>1. JournalEnd' = JournalEnd
  BY DEF JournalEnd
<1>2. JournalEnd \in Nat
  BY DEF EventInv, Gapless
<1>3. JournalEnd <= JournalEnd'
  BY <1>1, <1>2
<1> QED BY <1>1, <1>3 DEF EventInv

LEMMA AppendEventKeeps ==
    ASSUME EventInv, NEW a \in Activations, NEW t \in Threads, AppendEvent(a, t)
    PROVE  EventInv'
<1>0. /\ proc[a].thread[t].at = "append" /\ proc[a].thread[t].at # "idle" /\ ProcessIsCurrent(a)
      /\ eventJournal' = eventJournal \union {Event(a, t)}
      /\ UNCHANGED <<leaseVars, cursors, disk>>
  BY DEF AppendEvent
<1>1. /\ proc[a].stage # "off" /\ proc[a].last <= JournalEnd
      /\ LastSequence(disk[proc[a].directory]) <= proc[a].last
      /\ LastSequence(disk[proc[a].directory]) \in Nat
      /\ ~disk[proc[a].directory].torn /\ proc[a].thread[t] \in ThreadStates
  BY <1>0, Emitting
<1>2. /\ proc[a] \in ProcessStates /\ proc[a].last \in Nat /\ JournalEnd \in Nat
      /\ disk' \in [Directories -> DirectoryStates] /\ disk' = disk
      /\ DirectoryFits(disk[proc[a].directory], eventJournal)
  BY <1>0, <1>1, ProcessNow
<1>3. /\ JournalEnd' = proc[a].last + 1 /\ proc[a].thread[t].event = proc[a].last + 1
      /\ JournalEnd <= JournalEnd'
      /\ Gapless(eventJournal', JournalEnd') /\ \A e \in eventJournal' : e.by <= generation
      /\ ReceiptsFit(cursors, JournalEnd')
  BY <1>0, Appended
<1>4. /\ eventJournal \subseteq eventJournal' /\ Event(a, t) \in eventJournal'
      /\ DirectoryFits(disk'[proc[a].directory], eventJournal')
      /\ \A d \in Directories \ {proc[a].directory} : disk'[d] = disk[d]
      /\ LastSequence(disk'[proc[a].directory]) = LastSequence(disk[proc[a].directory])
      /\ ~disk'[proc[a].directory].torn
  BY <1>0, <1>1, <1>2 DEF DirectoryFits
<1>5. CASE proc[a].revoked
  <2>1. proc' = [proc EXCEPT ![a] = [Left(a, t) EXCEPT !.revoked = TRUE]]
    <3>1. Left(a, t) = [Left(a, t) EXCEPT !.revoked = TRUE]
      BY <1>0, <1>5, LeftIs DEF ProcessStates
    <3> QED BY <1>5, <3>1 DEF AppendEvent, Leave
  <2>2. LastSequence(disk'[proc[a].directory]) <= proc[a].last
    BY <1>1, <1>4
  <2> QED BY <1>0, <1>2, <1>3, <1>4, <2>1, <2>2, LeavingKeeps
<1>6. CASE ~proc[a].revoked
  <2> DEFINE x == [proc[a].thread[t] EXCEPT !.at = "local"]
             l == proc[a].last + 1
  <2>1. proc' = [proc EXCEPT ![a] = [[proc[a] EXCEPT !.last = l] EXCEPT !.thread[t] = x]]
    <3>1. proc' = [proc EXCEPT ![a] = [proc[a] EXCEPT !.last = l, !.thread[t].at = "local"]]
      BY <1>3, <1>6 DEF AppendEvent
    <3>2. [proc[a] EXCEPT !.last = l, !.thread[t].at = "local"]
            = [[proc[a] EXCEPT !.last = l] EXCEPT !.thread[t] = x]
      BY <1>2 DEF ProcessStates
    <3> QED BY <3>1, <3>2
  <2>2. x \in ThreadStates /\ x.at = "local" /\ x.event = l /\ x.at # "idle" /\ x.at # "append"
           /\ x.at # "status"
    BY <1>1, <1>3 DEF ThreadStates
  <2>3. /\ l \in Nat /\ proc[a].last <= l /\ l <= JournalEnd' /\ JournalEnd' = l
        /\ LastSequence(disk'[proc[a].directory]) < l
        /\ LastSequence(disk'[proc[a].directory]) <= l
    BY <1>1, <1>2, <1>3, <1>4
  <2>4. [seq |-> x.event, by |-> proc[a].generation] \in eventJournal'
    BY <1>3, <1>4, <2>2 DEF Event
  <2> HIDE DEF x, l
  <2> QED BY <1>0, <1>2, <1>3, <1>4, <2>1, <2>2, <2>3, <2>4, EmittingKeeps
<1> QED BY <1>5, <1>6

LEMMA AppendErrsKeeps ==
    ASSUME EventInv, NEW a \in Activations, NEW t \in Threads, AppendErrs(a, t)
    PROVE  EventInv'
<1>0. /\ proc[a].thread[t].at = "append" /\ proc[a].thread[t].at # "idle"
      /\ UNCHANGED <<leaseVars, cursors, disk>>
  BY DEF AppendErrs
<1>1. /\ proc[a].stage # "off" /\ proc[a].last <= JournalEnd
      /\ LastSequence(disk[proc[a].directory]) <= proc[a].last
      /\ ~disk[proc[a].directory].torn /\ proc[a].thread[t] \in ThreadStates
  BY <1>0, Emitting
<1>2. /\ proc[a] \in ProcessStates /\ proc[a].last \in Nat /\ JournalEnd \in Nat
      /\ disk' \in [Directories -> DirectoryStates] /\ disk' = disk
      /\ DirectoryFits(disk[proc[a].directory], eventJournal)
      /\ proc[a].thread[t].event = proc[a].last + 1
  BY <1>0, <1>1, ProcessNow DEF ProcessFits, ThreadsFit
<1> DEFINE x == [proc[a].thread[t] EXCEPT !.retried = TRUE]
<1>3. x \in ThreadStates /\ x.at = "append" /\ x.event = proc[a].last + 1
         /\ x.event = proc[a].thread[t].event
  BY <1>0, <1>1, <1>2 DEF ThreadStates
<1>4. LeaveRevoked(a, t) \/ proc' = [proc EXCEPT ![a].thread[t] = x]
  BY DEF AppendErrs
<1> HIDE DEF x
<1>5. CASE UNCHANGED eventJournal
  <2>1. CASE LeaveRevoked(a, t)
    BY <1>0, <1>5, <2>1, QuietLeave
  <2>2. CASE proc' = [proc EXCEPT ![a].thread[t] = x]
    BY <1>0, <1>3, <1>5, <2>2, QuietStep
  <2> QED BY <1>4, <2>1, <2>2
<1>6. CASE ProcessIsCurrent(a) /\ eventJournal' = eventJournal \union {Event(a, t)}
  <2>1. /\ JournalEnd' = proc[a].last + 1 /\ JournalEnd <= JournalEnd'
        /\ Gapless(eventJournal', JournalEnd') /\ \A e \in eventJournal' : e.by <= generation
        /\ ReceiptsFit(cursors, JournalEnd')
    BY <1>0, <1>6, Appended
  <2>2. /\ eventJournal \subseteq eventJournal' /\ Event(a, t) \in eventJournal'
        /\ DirectoryFits(disk'[proc[a].directory], eventJournal')
        /\ \A d \in Directories \ {proc[a].directory} : disk'[d] = disk[d]
        /\ LastSequence(disk'[proc[a].directory]) <= proc[a].last
        /\ ~disk'[proc[a].directory].torn
    BY <1>1, <1>2, <1>6 DEF DirectoryFits
  <2>3. CASE LeaveRevoked(a, t)
    <3>1. proc' = [proc EXCEPT ![a] = [Left(a, t) EXCEPT !.revoked = TRUE]]
      BY <2>3 DEF LeaveRevoked
    <3> QED BY <1>0, <1>2, <1>6, <2>1, <2>2, <3>1, LeavingKeeps
  <2>4. CASE proc' = [proc EXCEPT ![a].thread[t] = x]
    <3>1. [proc[a] EXCEPT !.last = proc[a].last] = proc[a]
      BY <1>2 DEF ProcessStates
    <3>2. proc' = [proc EXCEPT ![a] = [[proc[a] EXCEPT !.last = proc[a].last] EXCEPT !.thread[t] = x]]
      BY <2>4, <3>1
    <3>3. proc[a].last <= proc[a].last /\ proc[a].last <= JournalEnd' /\ JournalEnd' = proc[a].last + 1
      BY <1>2, <2>1
    <3>4. [seq |-> x.event, by |-> proc[a].generation] \in eventJournal'
      BY <1>3, <2>2 DEF Event
    <3>5. x.at # "idle" /\ x.at # "local" /\ x.at # "status" /\ x.at \notin {"local", "status"}
      BY <1>3
    <3> QED BY <1>0, <1>2, <1>3, <1>6, <2>1, <2>2, <3>2, <3>3, <3>4, <3>5, EmittingKeeps
  <2> QED BY <1>4, <2>3, <2>4
<1> QED BY <1>5, <1>6 DEF AppendErrs

-----------------------------------------------------------------------------
(* The steps on the run directory, and receipts *)

LEMMA LineFits ==
    ASSUME NEW d \in DirectoryStates, NEW j, DirectoryFits(d, j), NEW e \in EventRecords, e \in j,
           LastSequence(d) \in Nat, LastSequence(d) < e.seq
    PROVE  LET f == [d EXCEPT !.lines = Append(d.lines, e)] IN
           /\ f \in DirectoryStates /\ DirectoryFits(f, j)
           /\ LastSequence(f) = e.seq /\ f.torn = d.torn
<1> DEFINE f == [d EXCEPT !.lines = Append(d.lines, e)]
           ls == Append(d.lines, e)
<1>1. d.lines \in Seq(EventRecords) /\ d.status \in Nat
  BY DEF DirectoryStates
<1>2. /\ ls \in Seq(EventRecords) /\ Len(ls) = Len(d.lines) + 1 /\ ls[Len(d.lines) + 1] = e
      /\ \A i \in 1 .. Len(d.lines) : ls[i] = d.lines[i]
      /\ Len(d.lines) \in Nat
  BY <1>1, AppendProperties, LenProperties
<1>3. f \in DirectoryStates /\ f.lines = ls /\ f.status = d.status /\ f.torn = d.torn
  BY <1>2 DEF DirectoryStates
<1> HIDE DEF f, ls
<1>4. ls # <<>> /\ LastSequence(f) = e.seq
  BY <1>2, <1>3 DEF LastSequence
<1>5. \A i \in 1 .. Len(ls) : ls[i] \in j
  BY <1>2 DEF DirectoryFits
<1>6. \A i \in 1 .. Len(ls) - 1 : ls[i].seq < ls[i + 1].seq
  <2>1. SUFFICES ASSUME NEW i \in 1 .. Len(ls) - 1 PROVE ls[i].seq < ls[i + 1].seq
    OBVIOUS
  <2>2. CASE i = Len(d.lines)
    <3>1. d.lines # <<>> /\ ls[i] = d.lines[Len(d.lines)] /\ ls[i + 1] = e
      BY <1>1, <1>2, <2>2
    <3> QED BY <3>1 DEF LastSequence
  <2>3. CASE i # Len(d.lines)
    <3>1. i \in 1 .. Len(d.lines) - 1 /\ i \in 1 .. Len(d.lines) /\ i + 1 \in 1 .. Len(d.lines)
      BY <1>2, <2>3
    <3> QED BY <1>2, <3>1 DEF DirectoryFits
  <2> QED BY <2>2, <2>3
<1>7. f.status <= LastSequence(f)
  <2>1. d.status <= LastSequence(d) /\ e.seq \in Nat
    BY DEF DirectoryFits, EventRecords
  <2> QED BY <1>1, <1>3, <1>4, <2>1
<1>8. DirectoryFits(f, j)
  BY <1>3, <1>5, <1>6, <1>7 DEF DirectoryFits
<1> QED BY <1>3, <1>4, <1>8 DEF f, ls

LEMMA WriteLineKeeps ==
    ASSUME EventInv, NEW a \in Activations, NEW t \in Threads, WriteLine(a, t)
    PROVE  EventInv'
<1> DEFINE d == proc[a].directory
           f == [disk[d] EXCEPT !.lines = Append(disk[d].lines, Event(a, t))]
           x == [proc[a].thread[t] EXCEPT !.at = "status"]
<1>0. /\ proc[a].thread[t].at = "local" /\ proc[a].thread[t].at # "idle"
      /\ proc[a].thread[t].at # "append"
      /\ UNCHANGED <<leaseVars, eventJournal, cursors>>
  BY DEF WriteLine
<1>1. /\ proc[a].stage # "off" /\ proc[a].last <= JournalEnd
      /\ LastSequence(disk[d]) \in Nat /\ ~disk[d].torn /\ proc[a].thread[t] \in ThreadStates
  BY <1>0, Emitting
<1>2. /\ proc[a] \in ProcessStates /\ proc[a].last \in Nat /\ JournalEnd \in Nat
      /\ disk \in [Directories -> DirectoryStates] /\ d \in Directories
      /\ disk[d] \in DirectoryStates /\ DirectoryFits(disk[d], eventJournal)
      /\ ThreadsFit(proc[a], eventJournal, disk[d])
  BY <1>1, ProcessNow DEF ProcessFits
<1>3. /\ proc[a].thread[t].event = proc[a].last /\ LastSequence(disk[d]) < proc[a].last
      /\ Event(a, t) \in eventJournal /\ Event(a, t).seq = proc[a].last
      /\ Event(a, t) \in EventRecords
  <2>1. /\ proc[a].thread[t].event = proc[a].last /\ LastSequence(disk[d]) < proc[a].last
        /\ Event(a, t) \in eventJournal
    BY <1>0, <1>2 DEF ThreadsFit, Event, Mine
  <2>2. eventJournal \subseteq EventRecords
    BY DEF EventInv, Gapless
  <2>3. Event(a, t).seq = proc[a].last
    BY <2>1 DEF Event
  <2> QED BY <2>1, <2>2, <2>3
<1>4. /\ f \in DirectoryStates /\ DirectoryFits(f, eventJournal)
      /\ LastSequence(f) = proc[a].last /\ ~f.torn
  BY <1>1, <1>2, <1>3, LineFits
<1>5. /\ JournalEnd' = JournalEnd /\ JournalEnd <= JournalEnd'
      /\ eventJournal \subseteq eventJournal' /\ Gapless(eventJournal', JournalEnd')
      /\ \A e \in eventJournal' : e.by <= generation
      /\ ReceiptsFit(cursors, JournalEnd')
  BY <1>0, SameJournal
<1>6. CASE UNCHANGED disk /\ Leave(a, t)
  BY <1>0, <1>6, QuietLeave
<1>7. CASE disk' = [disk EXCEPT ![d] = f]
  <2> HIDE DEF f
  <2>1. /\ disk' \in [Directories -> DirectoryStates] /\ disk'[d] = f
        /\ \A e \in Directories \ {d} : disk'[e] = disk[e]
        /\ DirectoryFits(disk'[d], eventJournal') /\ ~disk'[d].torn
        /\ LastSequence(disk'[d]) = proc[a].last /\ LastSequence(disk'[d]) <= proc[a].last
    BY <1>0, <1>2, <1>4, <1>7
  <2>2. CASE Leave(a, t) /\ proc[a].revoked
    <3>1. proc' = [proc EXCEPT ![a] = [Left(a, t) EXCEPT !.revoked = TRUE]]
      <4>1. Left(a, t) = [Left(a, t) EXCEPT !.revoked = TRUE]
        BY <1>0, <2>2, LeftIs DEF ProcessStates
      <4> QED BY <2>2, <4>1 DEF Leave
    <3> QED BY <1>0, <1>5, <2>1, <3>1, LeavingKeeps
  <2>3. CASE proc' = [proc EXCEPT ![a].thread[t].at = "status"]
    <3>1. x \in ThreadStates /\ x.at = "status" /\ x.event = proc[a].last
             /\ x.at # "idle" /\ x.at # "append" /\ x.at # "local"
      BY <1>1, <1>3 DEF ThreadStates
    <3>2. [seq |-> x.event, by |-> proc[a].generation] \in eventJournal'
      BY <1>0, <1>3, <3>1 DEF Event
    <3>3. proc' = [proc EXCEPT ![a] = [[proc[a] EXCEPT !.last = proc[a].last] EXCEPT !.thread[t] = x]]
      <4>1. [proc[a] EXCEPT !.last = proc[a].last] = proc[a]
        BY <1>2 DEF ProcessStates
      <4>2. proc' = [proc EXCEPT ![a].thread[t] = x]
        BY <2>3
      <4> QED BY <4>1, <4>2
    <3>4. ProcessIsCurrent(a) => proc[a].revoked \/ JournalEnd' = proc[a].last
      BY <1>0, <1>5, EmitterNow
    <3>5. proc[a].last <= proc[a].last /\ proc[a].last <= JournalEnd'
      BY <1>1, <1>2, <1>5
    <3> HIDE DEF x
    <3> QED BY <1>0, <1>2, <1>5, <2>1, <3>1, <3>2, <3>3, <3>4, <3>5, EmittingKeeps
  <2>4. (Leave(a, t) /\ proc[a].revoked) \/ proc' = [proc EXCEPT ![a].thread[t].at = "status"]
           \/ (UNCHANGED disk /\ Leave(a, t))
    BY DEF WriteLine
  <2> QED BY <1>6, <2>2, <2>3, <2>4
<1>8. disk' = [disk EXCEPT ![d] = f] \/ (UNCHANGED disk /\ Leave(a, t))
  BY <1>1, <1>2 DEF WriteLine
<1> QED BY <1>6, <1>7, <1>8

LEMMA WriteStatusKeeps ==
    ASSUME EventInv, NEW a \in Activations, NEW t \in Threads, WriteStatus(a, t)
    PROVE  EventInv'
<1> DEFINE d == proc[a].directory
           f == [disk[d] EXCEPT !.status = proc[a].thread[t].event]
<1>0. /\ proc[a].thread[t].at = "status" /\ proc[a].thread[t].at # "idle"
      /\ proc[a].thread[t].at # "append" /\ Leave(a, t)
      /\ UNCHANGED <<leaseVars, eventJournal, cursors>>
  BY DEF WriteStatus
<1>1. /\ proc[a].stage # "off" /\ proc[a].last <= JournalEnd
      /\ LastSequence(disk[d]) \in Nat /\ ~disk[d].torn /\ proc[a].thread[t].event \in Nat
  BY <1>0, Emitting
<1>2. /\ proc[a] \in ProcessStates /\ proc[a].last \in Nat /\ JournalEnd \in Nat
      /\ disk \in [Directories -> DirectoryStates] /\ d \in Directories
      /\ disk[d] \in DirectoryStates /\ DirectoryFits(disk[d], eventJournal)
      /\ ThreadsFit(proc[a], eventJournal, disk[d])
  BY <1>1, ProcessNow DEF ProcessFits
<1>3. proc[a].thread[t].event = proc[a].last /\ LastSequence(disk[d]) = proc[a].last
  BY <1>0, <1>2 DEF ThreadsFit
<1>4. CASE UNCHANGED disk
  BY <1>0, <1>4, QuietLeave
<1>5. CASE disk' = [disk EXCEPT ![d] = f]
  <2>1. /\ f \in DirectoryStates /\ f.lines = disk[d].lines /\ f.torn = disk[d].torn
        /\ f.status = proc[a].last
    BY <1>1, <1>2, <1>3 DEF DirectoryStates
  <2> HIDE DEF f
  <2>2. LastSequence(f) = LastSequence(disk[d])
    BY <2>1 DEF LastSequence
  <2>3. f.status <= LastSequence(f) /\ LastSequence(f) <= proc[a].last
    BY <1>2, <1>3, <2>1, <2>2
  <2>4. DirectoryFits(f, eventJournal)
    BY <1>2, <2>1, <2>3 DEF DirectoryFits
  <2>5. /\ JournalEnd' = JournalEnd /\ JournalEnd <= JournalEnd'
        /\ eventJournal \subseteq eventJournal' /\ Gapless(eventJournal', JournalEnd')
        /\ \A e \in eventJournal' : e.by <= generation
        /\ ReceiptsFit(cursors, JournalEnd')
    BY <1>0, SameJournal
  <2>6. /\ disk' \in [Directories -> DirectoryStates] /\ disk'[d] = f
        /\ \A e \in Directories \ {d} : disk'[e] = disk[e]
        /\ DirectoryFits(disk'[d], eventJournal') /\ ~disk'[d].torn
        /\ LastSequence(disk'[d]) <= proc[a].last
    BY <1>0, <1>1, <1>2, <1>5, <2>1, <2>3, <2>4
  <2>7. proc' = [proc EXCEPT ![a] = [Left(a, t) EXCEPT !.revoked = proc[a].revoked]]
    <3>1. Left(a, t) = [Left(a, t) EXCEPT !.revoked = proc[a].revoked]
      BY <1>0, LeftIs DEF ProcessStates
    <3> QED BY <1>0, <3>1 DEF Leave
  <2> QED BY <1>0, <2>5, <2>6, <2>7, LeavingKeeps
<1> QED BY <1>4, <1>5 DEF WriteStatus

LEMMA CommitReceiptKeeps ==
    ASSUME EventInv, NEW a \in Activations, CommitReceipt(a)
    PROVE  EventInv'
<1>0. /\ proc[a].stage = "on" /\ proc[a].stage # "off" /\ ~proc[a].revoked
      /\ UNCHANGED <<leaseVars, eventJournal, disk>>
  BY DEF CommitReceipt
<1>1. CASE ~ProcessIsCurrent(a)
  <2>1. proc' = [proc EXCEPT ![a].revoked = TRUE] /\ UNCHANGED cursors
    BY <1>1 DEF CommitReceipt
  <2> QED BY <1>0, <2>1, RevokeProcessKeeps
<1>2. CASE ProcessIsCurrent(a)
  <2> DEFINE p == proc[a]
  <2>1. cursors' = Append(cursors, p.last) /\ proc' = proc
    BY <1>2 DEF CommitReceipt
  <2>2. /\ p \in ProcessStates /\ p.last \in Nat /\ JournalEnd \in Nat
        /\ proc \in [Activations -> ProcessStates]
        /\ disk \in [Directories -> DirectoryStates]
        /\ DirectoryFits(disk[p.directory], eventJournal)
        /\ ProcessFits(p, eventJournal, JournalEnd, disk[p.directory])
        /\ CurrentFits(p, eventJournal, JournalEnd, cursors)
        /\ cursors \in Seq(Nat) /\ ReceiptsFit(cursors, JournalEnd)
    BY <1>0, <1>2, ProcessNow
  <2>3. proc' = [proc EXCEPT ![a] = p]
    BY <2>1, <2>2
  <2>4. p.last <= JournalEnd /\ \A i \in 1 .. Len(cursors) : cursors[i] <= p.last
    BY <1>0, <2>2 DEF ProcessFits, CurrentFits
  <2>5. /\ cursors' \in Seq(Nat) /\ Len(cursors') = Len(cursors) + 1 /\ Len(cursors) \in Nat
        /\ cursors'[Len(cursors) + 1] = p.last
        /\ \A i \in 1 .. Len(cursors) : cursors'[i] = cursors[i]
    BY <2>1, <2>2, AppendProperties, LenProperties
  <2>6. \A i \in 1 .. Len(cursors') : cursors'[i] <= p.last
    <3>1. ASSUME NEW i \in 1 .. Len(cursors') PROVE cursors'[i] <= p.last
      <4>1. CASE i \in 1 .. Len(cursors)
        BY <2>4, <2>5, <4>1
      <4>2. CASE i = Len(cursors) + 1
        BY <2>2, <2>5, <4>2
      <4> QED BY <2>5, <4>1, <4>2
    <3> QED BY <3>1
  <2>7. ReceiptsFit(cursors', JournalEnd)
    <3>1. \A i \in 1 .. Len(cursors') : cursors'[i] <= JournalEnd
      <4>1. \A i \in 1 .. Len(cursors) : cursors'[i] <= JournalEnd
        BY <2>2, <2>5 DEF ReceiptsFit
      <4> QED BY <2>4, <2>5, <4>1
    <3>2. ASSUME NEW i \in 1 .. Len(cursors') - 1 PROVE cursors'[i] <= cursors'[i + 1]
      <4>1. i \in 1 .. Len(cursors) /\ cursors'[i] = cursors[i]
        BY <2>5
      <4>2. CASE i = Len(cursors)
        BY <2>4, <2>5, <4>1, <4>2
      <4>3. CASE i # Len(cursors)
        <5>1. i \in 1 .. Len(cursors) - 1 /\ i + 1 \in 1 .. Len(cursors)
          BY <2>5, <4>1, <4>3
        <5> QED BY <2>2, <2>5, <4>1, <5>1 DEF ReceiptsFit
      <4> QED BY <4>2, <4>3
    <3> QED BY <3>1, <3>2 DEF ReceiptsFit
  <2>8. CurrentFits(p, eventJournal, JournalEnd, cursors')
    BY <2>2, <2>6 DEF CurrentFits
  <2>9. /\ JournalEnd' = JournalEnd /\ JournalEnd <= JournalEnd'
        /\ eventJournal \subseteq eventJournal' /\ Gapless(eventJournal', JournalEnd')
        /\ \A e \in eventJournal' : e.by <= generation
    BY <1>0, SameJournal
  <2>10. /\ eventJournal' = eventJournal /\ disk' = disk /\ UNCHANGED leaseVars
         /\ disk' \in [Directories -> DirectoryStates]
         /\ \A d \in Directories \ {p.directory} : disk'[d] = disk[d]
         /\ DirectoryFits(disk'[p.directory], eventJournal')
         /\ ProcessFits(p, eventJournal', JournalEnd', disk'[p.directory])
         /\ CurrentFits(p, eventJournal', JournalEnd', cursors')
         /\ ReceiptsFit(cursors', JournalEnd')
    BY <1>0, <2>2, <2>7, <2>8, <2>9
  <2> HIDE DEF p
  <2>11. p.generation = proc[a].generation /\ p.directory = proc[a].directory /\ p.stage # "off"
    BY <1>0 DEF p
  <2> QED BY <1>0, <1>2, <2>2, <2>3, <2>5, <2>9, <2>10, <2>11, ProcessMove
<1> QED BY <1>1, <1>2

-----------------------------------------------------------------------------
LEMMA EventInitKeeps == EventInit => EventInv
<1> SUFFICES ASSUME EventInit PROVE EventInv
  OBVIOUS
<1>1. /\ generation = 0 /\ eventJournal = {} /\ cursors = <<>>
      /\ disk = [d \in Directories |-> EmptyDirectory]
      /\ proc = [a \in Activations |-> NoProcess]
  BY DEF EventInit, Lease!Init
<1>2. JournalEnd = 0
  <2>1. {e.seq : e \in eventJournal} = 1 .. 0
    BY <1>1
  <2> QED BY <2>1, HighestIs DEF JournalEnd
<1>3. /\ EmptyDirectory \in DirectoryStates /\ EmptyDirectory.lines = <<>>
      /\ EmptyDirectory.status = 0
  BY DEF EmptyDirectory, DirectoryStates
<1>4. EventTypeOK
  BY <1>1, <1>3, NoProcessIsState DEF EventTypeOK
<1>5. Gapless(eventJournal, JournalEnd) /\ \A e \in eventJournal : e.by <= generation
  BY <1>1, <1>2 DEF Gapless
<1>6. ReceiptsFit(cursors, JournalEnd)
  BY <1>1 DEF ReceiptsFit
<1>7. DirectoryFits(EmptyDirectory, eventJournal)
  BY <1>3 DEF DirectoryFits, LastSequence
<1>8. ProcessesFit
  <2>1. NoProcess.stage = "off" /\ NoProcess.generation = 0
    BY DEF NoProcess
  <2>2. CurrentFits(NoProcess, eventJournal, JournalEnd, cursors)
    BY <2>1 DEF CurrentFits
  <2>3. \A a \in Activations : proc[a] = NoProcess
    BY <1>1
  <2>4. \A a \in Activations : proc[a].generation <= generation
    <3>1. \A a \in Activations : proc[a].generation = 0
      BY <2>1, <2>3
    <3>2. generation = 0 /\ 0 <= 0
      BY <1>1
    <3> QED BY <3>1, <3>2
  <2> QED BY <2>1, <2>2, <2>3, <2>4 DEF ProcessesFit
<1>9. DirectoriesAreOwned
  BY <1>1 DEF DirectoriesAreOwned, NoProcess
<1> QED BY <1>1, <1>4, <1>5, <1>6, <1>7, <1>8, <1>9 DEF EventInv

LEMMA EventStepKeeps == EventInv /\ [EventNext]_eventVars => EventInv'
<1> SUFFICES ASSUME EventInv, [EventNext]_eventVars PROVE EventInv'
  OBVIOUS
<1>1. CASE UNCHANGED eventVars
  <2>1. JournalEnd' = JournalEnd /\ UNCHANGED <<generation, holder, eventJournal, cursors, disk, proc>>
    BY <1>1 DEF eventVars, leaseVars, JournalEnd
  <2>2. EventTypeOK' /\ ProcessesFit' /\ DirectoriesAreOwned'
    BY <2>1 DEF EventInv, EventTypeOK, ProcessesFit, ProcessIsCurrent, Holds, DirectoriesAreOwned
  <2> QED BY <2>1, <2>2 DEF EventInv
<1>2. CASE ProcessLeaseExpires
  BY <1>2, ProcessLeaseExpiresKeeps
<1>3. ASSUME NEW a \in Activations, Processes(a) PROVE EventInv'
  <2>1. CASE \E d \in Directories : StartProcess(a, d)
    BY <2>1, StartProcessKeeps
  <2>2. CASE SeedSequence(a)
    BY <2>2, SeedSequenceKeeps
  <2>3. CASE OpenRecorder(a)
    BY <2>3, OpenRecorderKeeps
  <2>4. CASE CloseBus(a)
    BY <2>4, CloseBusKeeps
  <2>5. CASE CommitReceipt(a)
    BY <2>5, CommitReceiptKeeps
  <2>6. CASE RevokeProcess(a)
    BY <2>6, RevokeProcessKeeps DEF RevokeProcess
  <2>7. CASE CrashProcess(a)
    BY <2>7, CrashProcessKeeps
  <2>8. CASE EndProcess(a)
    BY <2>8, EndProcessKeeps
  <2>9. CASE \E t \in Threads : Publish(a, t)
    <3>1. PICK t \in Threads : Publish(a, t)
      BY <2>9
    <3> QED BY <3>1, BuildEventKeeps, CheckEventKeeps, AppendEventKeeps, AppendRefusedKeeps,
               AppendErrsKeeps, WriteLineKeeps, WriteStatusKeeps DEF Publish
  <2> QED BY <1>3, <2>1, <2>2, <2>3, <2>4, <2>5, <2>6, <2>7, <2>8, <2>9 DEF Processes
<1> QED BY <1>1, <1>2, <1>3 DEF EventNext

LEMMA EventInvariant == EventSpec => []EventInv
BY EventInitKeeps, EventStepKeeps, PTL DEF EventSpec

\* The public journal of a run has no gap and no two events of one sequence, a
\* replacement's events follow its predecessor's, and receipts cite durable
\* events only (FencedEventSink.emit, _retry_ambiguous_mutation, the receipts of
\* ActivationDriver), for any number of activations, threads and directories.
THEOREM JournalHasNoGap == EventSpec => []JournalIsGapless
<1>1. EventInv => JournalIsGapless
  BY DEF EventInv, Gapless, ReceiptsFit, JournalIsGapless
<1> QED BY <1>1, EventInvariant, PTL

\* events.jsonl and status.json of every run directory never hold anything the
\* journal does not, and no replacement finds them corrupt (JsonlEventSink,
\* StatusJsonSink, repair_event_log_tail_for_append), wherever a process died.
THEOREM DirectoriesFollowJournal == EventSpec => []ProjectionFollowsJournal
<1>1. EventInv => ProjectionFollowsJournal
  <2>1. SUFFICES ASSUME EventInv PROVE ProjectionFollowsJournal
    OBVIOUS
  <2>2. ASSUME NEW d \in Directories
        PROVE  LogIsSound(d) /\ \A i \in 1 .. Len(disk[d].lines) : disk[d].lines[i] \in eventJournal
    <3>1. DirectoryFits(disk[d], eventJournal)
      BY <2>1 DEF EventInv
    <3>2. LastLine(d) = LastSequence(disk[d])
      BY DEF LastLine, LastSequence
    <3> QED BY <3>1, <3>2 DEF DirectoryFits, LogIsSound
  <2>3. \A a \in Activations : proc[a].stage # "corrupt"
    BY <2>1 DEF EventInv, ProcessesFit, ProcessFits
  <2> QED BY <2>2, <2>3 DEF ProjectionFollowsJournal
<1> QED BY <1>1, EventInvariant, PTL
=============================================================================
