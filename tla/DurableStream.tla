---------------------------- MODULE DurableStream ----------------------------
(***************************************************************************)
(* The durable stream of one model call: its two channels in PostgreSQL    *)
(* and the object store (adapters/postgres/streams.py, hosting/streams.py) *)
(* and the writer every activation streams the provider's deltas with      *)
(* (hosting/stream_observer.py, core/model_stream.py), driven by the       *)
(* model call of the loop (loop.py, _acall_model_for_turn).                *)
(*                                                                         *)
(* The model call pushes deltas while a worker thread flushes them.  An    *)
(* activation may crash or lose its lease between any two steps, a store   *)
(* call may take effect although it reports an error, and a replacement    *)
(* recovers the settled answer, or dispatches again into a new generation  *)
(* of the stream.  A byte is known by the dispatch that produced it; a     *)
(* chunk is one byte.                                                      *)
(***************************************************************************)
EXTENDS WriterFence

CONSTANTS
    MaxDeltas,    \* bound on the deltas of a dispatch
    MaxBuffer,    \* max_buffer_bytes
    MaxStreams    \* bound on the writers a call may have

ASSUME StreamBoundsAssumption == {MaxDeltas, MaxStreams} \subseteq Nat /\ MaxBuffer \in Nat \ {0}

VARIABLES
    durableCall,   \* whether the run has a durable model lifecycle
    streamCall,    \* what the lifecycle records of the call
    streamHead,    \* durable_stream_head, per channel
    chunks,        \* durable_stream_chunk: per channel and generation
    runOver,       \* a terminal_record exists
    writer,        \* per activation: the stream writer and the call it serves
    published      \* history: a completed call was sealed with this text

streamTables == <<streamHead, chunks, runOver>>

streamVars == <<leaseVars, durableCall, streamCall, streamTables, writer, published>>

-----------------------------------------------------------------------------
Channels == {"output", "reasoning"}

\* sha256 is collision-free: final_sha256 is the text it was computed from.
NoHead == [gen |-> 0, sealed |-> FALSE, final |-> <<>>]

\* Off, or not loaded: reset_before_append, the head and the digest of the lane
\* as this writer knows them, and the bytes it has not flushed.
NoLane == [on |-> FALSE, reset |-> FALSE, gen |-> 0, text |-> <<>>, buffer |-> <<>>]

NoWriter == [stage |-> "off", token |-> 0, noop |-> FALSE, broken |-> FALSE, failed |-> FALSE,
             lane |-> [c \in Channels |-> NoLane], inflight |-> "none",
             said |-> [c \in Channels |-> 0], outcome |-> "none", final |-> <<>>,
             sealing |-> {}, snapshot |-> <<>>]

Bytes(n, token) == [i \in 1 .. n |-> token]

StreamIsCurrent(a) == Holds(a, writer[a].token)

StreamBecomes(a, stage) == writer' = [writer EXCEPT ![a].stage = stage]

Content(c) == chunks[c][streamHead[c].gen]

Buffered(a) == Len(writer[a].lane["output"].buffer) + Len(writer[a].lane["reasoning"].buffer)

-----------------------------------------------------------------------------
(* The store *)

\* open: a new channel starts at generation 1.
StoreOpens(c) ==
    /\ streamHead' = [streamHead EXCEPT ![c].gen = 1]
    /\ chunks' = [chunks EXCEPT ![c] = <<(<<>>)>>]
    /\ UNCHANGED runOver

\* reset to the generation after the one the caller knows.
ResetAccepted(c, gen) == streamHead[c].gen = gen /\ ~runOver

StoreResets(c) ==
    /\ streamHead' = [streamHead EXCEPT ![c] = [gen |-> @.gen + 1, sealed |-> FALSE, final |-> <<>>]]
    /\ chunks' = [chunks EXCEPT ![c] = Append(@, <<>>)]
    /\ UNCHANGED runOver

\* append at an offset of a generation; bytes that are there already are only
\* acknowledged.
AppendAcknowledged(c, gen, offset, byte) ==
    /\ streamHead[c].gen = gen
    /\ offset < Len(Content(c)) /\ Content(c)[offset + 1] = byte

AppendAccepted(c, gen, offset) ==
    /\ streamHead[c].gen = gen
    /\ ~streamHead[c].sealed /\ ~runOver /\ offset = Len(Content(c))

StoreAppends(c, byte) ==
    /\ chunks' = [chunks EXCEPT ![c][streamHead[c].gen] = Append(@, byte)]
    /\ UNCHANGED <<streamHead, runOver>>

\* seal, in both of its transactions.
SealAcknowledged(c, gen, text) ==
    streamHead[c].gen = gen /\ streamHead[c].sealed /\ streamHead[c].final = text

SealAccepted(c, gen, text) ==
    /\ streamHead[c].gen = gen /\ ~streamHead[c].sealed /\ ~runOver
    /\ Len(Content(c)) = Len(text)

StoreSeals(c, text) ==
    /\ streamHead' = [streamHead EXCEPT ![c].sealed = TRUE, ![c].final = text]
    /\ UNCHANGED <<chunks, runOver>>

-----------------------------------------------------------------------------
(* Opening a writer *)

StartStream(a) ==
    /\ writer[a].stage = "off" /\ generation < MaxStreams /\ Granted(a)
    /\ writer' = [writer EXCEPT ![a] = [NoWriter EXCEPT !.stage = "open", !.token = generation']]
    /\ UNCHANGED <<durableCall, streamCall, streamTables, published>>

\* _ensure_lane: open, then hydrate the digest up to the head.  What exists
\* already belongs to an earlier execution.
EnsureLane(a, c, stage) ==
    /\ ~writer[a].lane[c].on /\ StreamIsCurrent(a)
    /\ \/ /\ streamHead[c] = NoHead /\ ~runOver /\ StoreOpens(c)
          /\ writer' = [writer EXCEPT ![a].stage = stage,
                                      ![a].lane[c] = [NoLane EXCEPT !.on = TRUE, !.gen = 1]]
       \/ /\ streamHead[c] # NoHead /\ UNCHANGED streamTables
          /\ writer' = [writer EXCEPT ![a].stage = stage,
                                      ![a].lane[c] = [NoLane EXCEPT !.on = TRUE, !.reset = TRUE,
                                                                    !.gen = streamHead[c].gen,
                                                                    !.text = Content(c)]]

\* The output lane first; a writer that finds one loads the reasoning lane too.
OpenOutput(a) ==
    /\ writer[a].stage = "open"
    /\ EnsureLane(a, "output", IF streamHead["output"] = NoHead THEN "ready" ELSE "second")
    /\ UNCHANGED <<leaseVars, durableCall, streamCall, published>>

OpenReasoning(a) ==
    /\ writer[a].stage = "second"
    /\ EnsureLane(a, "reasoning", "ready")
    /\ UNCHANGED <<leaseVars, durableCall, streamCall, published>>

\* safe_open_model_stream: the call goes on without a stream.
OpenFails(a) ==
    /\ writer[a].stage \in {"open", "second"}
    /\ writer' = [writer EXCEPT ![a] = [NoWriter EXCEPT !.stage = "ready", !.noop = TRUE,
                                                        !.token = writer[a].token]]
    /\ UNCHANGED <<leaseVars, durableCall, streamCall, streamTables, published>>

-----------------------------------------------------------------------------
(* The model call around the writer *)

Outcome(a, outcome, final) ==
    writer' = [writer EXCEPT ![a].stage = "close", ![a].outcome = outcome, ![a].final = final,
                             ![a].said = NoWriter.said]

\* The lifecycle finds the settled answer (ModelInvocation).
RecoverAnswer(a) ==
    /\ writer[a].stage = "ready" /\ durableCall /\ streamCall.state = "settled" /\ StreamIsCurrent(a)
    /\ Outcome(a, "completed", streamCall.text)
    /\ UNCHANGED <<leaseVars, durableCall, streamCall, streamTables, published>>

\* It finds a dispatch nobody heard of again.
RecoverDoubt(a) ==
    /\ writer[a].stage = "ready" /\ durableCall /\ streamCall.state \in {"started", "doubt"}
    /\ streamCall' = [streamCall EXCEPT !.state = "doubt"]
    /\ Outcome(a, "failed", <<>>)
    /\ UNCHANGED <<leaseVars, durableCall, streamTables, published>>

\* before_dispatch, then the dispatch is recorded as started.
BeginDispatch(a) ==
    /\ writer[a].stage = "ready"
    /\ durableCall => streamCall.state = "idle" /\ StreamIsCurrent(a)
    /\ \A c \in Channels : ~writer[a].lane[c].reset
    /\ streamCall' = IF durableCall THEN [streamCall EXCEPT !.state = "started"] ELSE streamCall
    /\ StreamBecomes(a, "dispatched")
    /\ UNCHANGED <<leaseVars, durableCall, streamTables, published>>

\* begin_dispatch: every lane of an earlier execution moves to a new generation.
ResetLane(a, c) ==
    /\ writer[a].stage = "ready" /\ writer[a].lane[c].reset
    /\ durableCall => streamCall.state = "idle"
    /\ StreamIsCurrent(a) /\ ResetAccepted(c, writer[a].lane[c].gen)
    /\ StoreResets(c)
    /\ writer' = [writer EXCEPT ![a].lane[c] = [@ EXCEPT !.reset = FALSE, !.text = <<>>,
                                                          !.gen = streamHead'[c].gen]]
    /\ UNCHANGED <<leaseVars, durableCall, streamCall, published>>

\* The reset reports an error, whatever it did: the writer is aborted before
\* the provider is entered.
ResetFails(a, c) ==
    /\ writer[a].stage = "ready" /\ writer[a].lane[c].reset
    /\ durableCall => streamCall.state = "idle"
    /\ \/ UNCHANGED streamTables
       \/ StreamIsCurrent(a) /\ ResetAccepted(c, writer[a].lane[c].gen) /\ StoreResets(c)
    /\ StreamBecomes(a, "aborted")
    /\ UNCHANGED <<leaseVars, durableCall, streamCall, published>>

\* push: the delta is said whether or not the writer still takes it.
Push(a, c) ==
    /\ writer[a].stage = "dispatched"
    /\ writer[a].said["output"] + writer[a].said["reasoning"] < MaxDeltas
    /\ \/ /\ writer[a].noop \/ writer[a].broken
          /\ writer' = [writer EXCEPT ![a].said[c] = @ + 1]
          /\ UNCHANGED streamTables
       \/ /\ ~writer[a].noop /\ ~writer[a].broken /\ ~writer[a].lane[c].on
          /\ EnsureLane(a, c, "dispatched")
       \/ /\ ~writer[a].noop /\ ~writer[a].broken /\ writer[a].lane[c].on
          /\ ~writer[a].failed /\ Buffered(a) < MaxBuffer
          /\ writer' = [writer EXCEPT ![a].said[c] = @ + 1,
                                      ![a].lane[c].buffer = Append(@, writer[a].token)]
          /\ UNCHANGED streamTables
       \/ /\ ~writer[a].noop /\ ~writer[a].broken
          /\ writer[a].failed \/ ~writer[a].lane[c].on
          /\ writer' = [writer EXCEPT ![a].said[c] = @ + 1, ![a].broken = TRUE]
          /\ UNCHANGED streamTables
    /\ UNCHANGED <<leaseVars, durableCall, streamCall, published>>

\* The provider answers with its own final text, refuses, or is given up.
ProviderAnswers(a, n) ==
    /\ writer[a].stage = "dispatched"
    /\ IF durableCall
       THEN writer' = [writer EXCEPT ![a].stage = "prepare", ![a].outcome = "completed",
                                     ![a].final = Bytes(n, writer[a].token)]
       ELSE Outcome(a, "completed", Bytes(n, writer[a].token))
    /\ UNCHANGED <<leaseVars, durableCall, streamCall, streamTables, published>>

\* A refusal before anything was delivered leaves the call to be retried.
ProviderFails(a) ==
    /\ writer[a].stage = "dispatched"
    /\ streamCall' = IF durableCall
                     THEN [streamCall EXCEPT
                           !.state = IF writer[a].said = NoWriter.said /\ StreamIsCurrent(a)
                                     THEN "idle" ELSE "doubt"]
                     ELSE streamCall
    /\ Outcome(a, "failed", <<>>)
    /\ UNCHANGED <<leaseVars, durableCall, streamTables, published>>

Flushed(a) ==
    /\ writer[a].inflight = "none" /\ ~writer[a].failed
    /\ \A c \in Channels : writer[a].lane[c].buffer = <<>>

\* Mutant: the flush is asked for and not waited for.
PrepareSettlementUnflushed(a) ==
    /\ writer[a].stage = "prepare" /\ ~writer[a].broken
    /\ StreamBecomes(a, "settle")
    /\ UNCHANGED <<leaseVars, durableCall, streamCall, streamTables, published>>

\* prepare_settlement returns.
PrepareSettlement(a) ==
    /\ writer[a].stage = "prepare"
    /\ writer[a].noop \/ (~writer[a].broken /\ Flushed(a))
    /\ StreamBecomes(a, "settle")
    /\ UNCHANGED <<leaseVars, durableCall, streamCall, streamTables, published>>

\* It raises or times out: the writer is aborted, the dispatch is in doubt.
PrepareFails(a) ==
    /\ writer[a].stage = "prepare" /\ ~writer[a].noop
    /\ streamCall' = [streamCall EXCEPT !.state = "doubt"]
    /\ StreamBecomes(a, "aborted")
    /\ UNCHANGED <<leaseVars, durableCall, streamTables, published>>

Settlement(a) ==
    [state |-> "settled", text |-> writer[a].final,
     streamed |-> IF writer[a].noop THEN 0 ELSE writer[a].lane["output"].gen,
     said |-> Bytes(writer[a].said["output"], writer[a].token)]

\* The answer is settled; a settlement that may or may not be there is doubt
\* for this activation.
SettleAnswer(a) ==
    /\ writer[a].stage = "settle"
    /\ \/ StreamIsCurrent(a) /\ streamCall' = Settlement(a) /\ Outcome(a, "completed", writer[a].final)
       \/ /\ streamCall' \in {[streamCall EXCEPT !.state = "doubt"]}
                               \union (IF StreamIsCurrent(a) THEN {Settlement(a)} ELSE {})
          /\ Outcome(a, "failed", <<>>)
    /\ UNCHANGED <<leaseVars, durableCall, streamTables, published>>

-----------------------------------------------------------------------------
(* The flush worker *)

\* _next_batch_locked.
TakeBatch(a, c) ==
    /\ writer[a].stage \in {"dispatched", "prepare", "settle", "close"}
    /\ writer[a].inflight = "none" /\ ~writer[a].failed /\ writer[a].lane[c].buffer # <<>>
    /\ writer' = [writer EXCEPT ![a].inflight = c, ![a].lane[c].buffer = Tail(@)]
    /\ UNCHANGED <<leaseVars, durableCall, streamCall, streamTables, published>>

\* _append: one byte at the writer's cursor.
AppendByte(a, c, byte) ==
    LET lane == writer[a].lane[c] IN
    /\ StreamIsCurrent(a)
    /\ \/ AppendAcknowledged(c, lane.gen, Len(lane.text), byte) /\ UNCHANGED streamTables
       \/ AppendAccepted(c, lane.gen, Len(lane.text)) /\ StoreAppends(c, byte)

FlushBatch(a) ==
    LET c == writer[a].inflight IN
    /\ c # "none" /\ AppendByte(a, c, writer[a].token)
    /\ writer' = [writer EXCEPT ![a].inflight = "none",
                                ![a].lane[c].text = Append(@, writer[a].token)]
    /\ UNCHANGED <<leaseVars, durableCall, streamCall, published>>

\* Refused, fenced, or an error whose effect is unknown: the worker is over.
FlushFails(a) ==
    /\ writer[a].inflight # "none"
    /\ UNCHANGED streamTables \/ AppendByte(a, writer[a].inflight, writer[a].token)
    /\ writer' = [writer EXCEPT ![a].inflight = "none", ![a].failed = TRUE]
    /\ UNCHANGED <<leaseVars, durableCall, streamCall, published>>

-----------------------------------------------------------------------------
(* Closing *)

OnLanes(a) == {c \in Channels : writer[a].lane[c].on}

Reconciled(a) == writer[a].outcome # "completed" \/ writer[a].lane["output"].text = writer[a].final

\* close, once the worker has returned with everything flushed.
CloseStream(a) ==
    /\ writer[a].stage = "close" /\ ~writer[a].noop /\ Flushed(a)
    /\ writer' = [writer EXCEPT ![a].stage = IF Reconciled(a) THEN "seal" ELSE "rebuild",
                                ![a].sealing = OnLanes(a)]
    /\ UNCHANGED <<leaseVars, durableCall, streamCall, streamTables, published>>

\* _reconcile_completed_output: the settled text in a new generation.
RebuildStarts(a) ==
    LET lane == writer[a].lane["output"] IN
    /\ writer[a].stage = "rebuild" /\ StreamIsCurrent(a) /\ ResetAccepted("output", lane.gen)
    /\ StoreResets("output")
    /\ writer' = [writer EXCEPT ![a].stage = "rebuilding",
                                ![a].lane["output"] = [@ EXCEPT !.text = <<>>,
                                                                !.gen = streamHead'["output"].gen]]
    /\ UNCHANGED <<leaseVars, durableCall, streamCall, published>>

RebuildByte(a) ==
    LET lane == writer[a].lane["output"]
        next == Len(lane.text) + 1
    IN
    /\ writer[a].stage = "rebuilding" /\ next <= Len(writer[a].final)
    /\ AppendByte(a, "output", writer[a].final[next])
    /\ writer' = [writer EXCEPT ![a].lane["output"].text = Append(@, writer[a].final[next])]
    /\ UNCHANGED <<leaseVars, durableCall, streamCall, published>>

RebuildEnds(a) ==
    /\ writer[a].stage = "rebuilding" /\ Reconciled(a)
    /\ StreamBecomes(a, "seal")
    /\ UNCHANGED <<leaseVars, durableCall, streamCall, streamTables, published>>

\* Channels are sealed in order.  seal: the first transaction takes the
\* snapshot, and the chunks are read back without any lock.
SealNext(a) == IF "output" \in writer[a].sealing THEN "output" ELSE "reasoning"

SealSnapshot(a) ==
    LET c == SealNext(a)
        lane == writer[a].lane[c]
    IN
    /\ writer[a].stage = "seal" /\ writer[a].sealing # {} /\ StreamIsCurrent(a)
    /\ SealAccepted(c, lane.gen, lane.text)
    /\ writer' = [writer EXCEPT ![a].stage = "sealing", ![a].snapshot = Content(c)]
    /\ UNCHANGED <<leaseVars, durableCall, streamCall, streamTables, published>>

Sealed(a, c) ==
    /\ writer' = [writer EXCEPT ![a].stage = "seal", ![a].sealing = @ \ {c}, ![a].snapshot = <<>>,
                                ![a].lane[c] = NoLane]
    /\ published' = IF c = "output" /\ writer[a].outcome = "completed"
                    THEN published \union {writer[a].final} ELSE published
    /\ UNCHANGED <<leaseVars, durableCall, streamCall>>

\* The second transaction validates everything again.
SealCommit(a) ==
    LET c == SealNext(a)
        lane == writer[a].lane[c]
    IN
    /\ writer[a].stage = "sealing" /\ StreamIsCurrent(a)
    /\ writer[a].snapshot = lane.text
    /\ SealAccepted(c, lane.gen, lane.text)
    /\ StoreSeals(c, lane.text)
    /\ Sealed(a, c)

SealAgain(a) ==
    LET c == SealNext(a) IN
    /\ writer[a].stage = "seal" /\ writer[a].sealing # {} /\ StreamIsCurrent(a)
    /\ SealAcknowledged(c, writer[a].lane[c].gen, writer[a].lane[c].text)
    /\ UNCHANGED streamTables
    /\ Sealed(a, c)

\* Everything is sealed, nothing was streamed, or the writer was aborted.
StreamEnds(a) ==
    /\ \/ writer[a].stage = "aborted"
       \/ writer[a].stage = "seal" /\ writer[a].sealing = {}
       \/ writer[a].stage = "close" /\ (writer[a].noop \/ writer[a].broken)
    /\ writer' = [writer EXCEPT ![a] = [NoWriter EXCEPT !.stage = "done"]]
    /\ UNCHANGED <<leaseVars, durableCall, streamCall, streamTables, published>>

\* Fenced, revoked by the supervisor, crashed, or a close that is refused or
\* fails and is only logged: what was not flushed is lost.
StreamStops(a) ==
    /\ writer[a].stage \notin {"off", "done"}
    /\ writer' = [writer EXCEPT ![a] = [NoWriter EXCEPT !.stage = "done"]]
    /\ UNCHANGED <<leaseVars, durableCall, streamCall, streamTables, published>>

\* The activation is over; it may have ended the run.
StreamActivationEnds(a) ==
    /\ writer[a].stage = "done"
    /\ Released(a)
    /\ writer' = [writer EXCEPT ![a] = NoWriter]
    /\ runOver' \in {runOver, runOver \/ holder = a}
    /\ UNCHANGED <<durableCall, streamCall, streamHead, chunks, published>>

StreamLeaseExpires ==
    /\ Lease!Lapse
    /\ UNCHANGED <<durableCall, streamCall, streamTables, writer, published>>

-----------------------------------------------------------------------------
ModelCall(a) ==
    \/ StartStream(a) \/ OpenOutput(a) \/ OpenReasoning(a) \/ OpenFails(a)
    \/ RecoverAnswer(a) \/ RecoverDoubt(a) \/ BeginDispatch(a)
    \/ \E c \in Channels : ResetLane(a, c) \/ ResetFails(a, c) \/ Push(a, c)
    \/ \E n \in 0 .. MaxDeltas : ProviderAnswers(a, n)
    \/ ProviderFails(a) \/ PrepareSettlement(a) \/ PrepareFails(a) \/ SettleAnswer(a)

Closing(a) ==
    \/ CloseStream(a) \/ RebuildStarts(a) \/ RebuildByte(a) \/ RebuildEnds(a)
    \/ SealSnapshot(a) \/ SealCommit(a) \/ SealAgain(a) \/ StreamEnds(a)

StreamInit ==
    /\ Lease!Init
    /\ durableCall \in BOOLEAN
    /\ streamCall = [state |-> "idle", text |-> <<>>, streamed |-> 0, said |-> <<>>]
    /\ streamHead = [c \in Channels |-> NoHead] /\ chunks = [c \in Channels |-> <<>>]
    /\ runOver = FALSE
    /\ writer = [a \in Activations |-> NoWriter]
    /\ published = {}

StreamNext ==
    \/ StreamLeaseExpires
    \/ \E a \in Activations :
        \/ ModelCall(a) \/ Closing(a)
        \/ \E c \in Channels : TakeBatch(a, c)
        \/ FlushBatch(a) \/ FlushFails(a)
        \/ StreamStops(a) \/ StreamActivationEnds(a)

StreamSpec == StreamInit /\ [][StreamNext]_streamVars

-----------------------------------------------------------------------------
(* Properties *)

(* A reader never sees two executions of the call mixed: every generation of a
   channel holds bytes of one dispatch, the current generations of the two
   channels hold bytes of the same one, and a sealed generation is exactly the
   text its digest was computed from.  A durable answer comes with its stream:
   every output delta delivered before the settlement is in the store when the
   settlement is, and once a completed call has sealed the stream it stays sealed
   with the settled text, whatever a replacement or a late writer does. *)
SettledStreamIsWhole ==
    /\ \A c \in Channels : \A g \in 1 .. Len(chunks[c]) :
          \A i, j \in 1 .. Len(chunks[c][g]) : chunks[c][g][i] = chunks[c][g][j]
    /\ \A c, d \in Channels :
          streamHead[c].gen > 0 /\ streamHead[d].gen > 0 /\ Content(c) # <<>> /\ Content(d) # <<>>
              => Content(c)[1] = Content(d)[1]
    /\ \A c \in Channels : streamHead[c].sealed => Content(c) = streamHead[c].final
    /\ durableCall /\ streamCall.state = "settled" =>
          /\ streamCall.streamed > 0 => chunks["output"][streamCall.streamed] = streamCall.said
          /\ published # {} =>
                /\ published = {streamCall.text}
                /\ streamHead["output"].sealed /\ Content("output") = streamCall.text
=============================================================================
