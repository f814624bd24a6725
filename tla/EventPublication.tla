-------------------------- MODULE EventPublication --------------------------
(***************************************************************************)
(* The public event journal of a hosted run and its local projections.     *)
(* An activation's EventBus (core/events.py) numbers the events of several *)
(* threads and hands each one first to the fenced journal                  *)
(* (hosting/execution.py, FencedEventSink), then to events.jsonl and       *)
(* status.json of its run directory (recorder.py, core/_event_log.py).     *)
(*                                                                         *)
(* Authority may be revoked between a check and the write it guards, a     *)
(* journal append may take effect although it reports an error, and the    *)
(* process may die inside a file write.  A replacement starts from the     *)
(* journal, in the old run directory or in another one; two live processes *)
(* never share a run directory.                                            *)
(***************************************************************************)
EXTENDS WriterFence

CONSTANTS
    Threads, NoThread,   \* threads that emit events; the bus is free
    Directories,         \* run directories
    MaxEvents,           \* bound on event sequences
    MaxReceipts          \* bound on activation receipts

ASSUME ThreadsAssumption == NoThread \notin Threads
ASSUME EventBoundsAssumption == {MaxEvents, MaxReceipts} \subseteq Nat

VARIABLES
    eventJournal, \* event_record: sequence and identity
    cursors,      \* event_cursor of the committed activation receipts
    disk,         \* per directory: events.jsonl and the watermark of status.json
    proc          \* per activation: the process

eventVars == <<leaseVars, eventJournal, cursors, disk, proc>>

-----------------------------------------------------------------------------
\* An event is its sequence and who made it: event_id is fresh for every event.
JournalEvents == [seq : 1 .. MaxEvents, by : 1 .. MaxGeneration]

Highest(S) == CHOOSE n \in S : \A m \in S : m <= n

\* latest_event_sequence.
JournalEnd == Highest({0} \union {e.seq : e \in eventJournal})

IdleThread == [at |-> "idle", event |-> 0, retried |-> FALSE]

NoProcess == [stage |-> "off", generation |-> 0, directory |-> 0, revoked |-> FALSE, closed |-> FALSE,
        seq |-> 0, last |-> 0, lock |-> NoThread, thread |-> [t \in Threads |-> IdleThread]]

EmptyDirectory == [lines |-> <<>>, torn |-> FALSE, status |-> 0]

LastLine(d) == IF disk[d].lines = <<>> THEN 0 ELSE disk[d].lines[Len(disk[d].lines)].seq

ProcessIsCurrent(a) == Holds(a, proc[a].generation)

\* A thread leaves emit, by return or by an exception.
Left(a, t) == [proc[a] EXCEPT !.lock = NoThread, !.thread[t] = IdleThread]

LeaveRevoked(a, t) == proc' = [proc EXCEPT ![a] = [Left(a, t) EXCEPT !.revoked = TRUE]]

Leave(a, t) == proc' = [proc EXCEPT ![a] = Left(a, t)]

-----------------------------------------------------------------------------
(* Building an activation: ActivationDriver.drive and AgentRecorder *)

StartProcess(a, d) ==
    /\ proc[a].stage = "off" /\ Granted(a)
    /\ \A b \in Activations : proc[b].stage # "off" => proc[b].directory # d
    /\ proc' = [proc EXCEPT ![a] = [NoProcess EXCEPT !.stage = "seed", !.generation = generation',
                                               !.directory = d]]
    /\ UNCHANGED <<eventJournal, cursors, disk>>

\* The journal's end is read without the writer guard.
SeedSequence(a) ==
    /\ proc[a].stage = "seed"
    /\ proc' = [proc EXCEPT ![a].stage = "open", ![a].last = JournalEnd]
    /\ UNCHANGED <<leaseVars, eventJournal, cursors, disk>>

\* repair_event_log_tail_for_append, validate_committed_event_sequence.
LogIsSound(d) ==
    /\ disk[d].status <= LastLine(d)
    /\ \A i \in 1 .. Len(disk[d].lines) - 1 : disk[d].lines[i].seq < disk[d].lines[i + 1].seq

\* Mutant: the torn tail is left in place.
OpenRecorderUnrepaired(a) ==
    LET d == proc[a].directory IN
    /\ proc[a].stage = "open"
    /\ IF proc[a].revoked
       THEN proc' = [proc EXCEPT ![a].stage = "over"]
       ELSE IF ~LogIsSound(d) \/ LastLine(d) > proc[a].last
       THEN proc' = [proc EXCEPT ![a].stage = "corrupt"]
       ELSE proc' = [proc EXCEPT ![a].stage = "on", ![a].seq = proc[a].last]
    /\ UNCHANGED <<leaseVars, eventJournal, cursors, disk>>

\* AgentRecorder.__post_init__: the torn tail goes, the sequence continues.
OpenRecorder(a) ==
    LET d == proc[a].directory IN
    /\ proc[a].stage = "open"
    /\ IF proc[a].revoked
       THEN proc' = [proc EXCEPT ![a].stage = "over"] /\ UNCHANGED disk
       ELSE IF ~LogIsSound(d) \/ LastLine(d) > proc[a].last
       THEN proc' = [proc EXCEPT ![a].stage = "corrupt"] /\ UNCHANGED disk
       ELSE /\ disk' = [disk EXCEPT ![d].torn = FALSE]
            /\ proc' = [proc EXCEPT ![a].stage = "on", ![a].seq = proc[a].last]
    /\ UNCHANGED <<leaseVars, eventJournal, cursors>>

-----------------------------------------------------------------------------
(* Publishing an event *)

\* EventBus.emit: under the bus lock the event gets the next sequence; after
\* close it goes nowhere.
BuildEvent(a, t) ==
    /\ proc[a].stage = "on" /\ ~proc[a].revoked
    /\ proc[a].lock = NoThread /\ proc[a].thread[t] = IdleThread /\ proc[a].seq < MaxEvents
    /\ proc' = [proc EXCEPT ![a].seq = @ + 1,
                            ![a].lock = IF proc[a].closed THEN NoThread ELSE t,
                            ![a].thread[t] = IF proc[a].closed THEN IdleThread
                                             ELSE [IdleThread EXCEPT !.at = "check", !.event = proc[a].seq + 1]]
    /\ UNCHANGED <<leaseVars, eventJournal, cursors, disk>>

\* Mutant: any sequence is sent to the journal.
CheckEventUnordered(a, t, private) ==
    /\ proc[a].thread[t].at = "check"
    /\ IF proc[a].revoked \/ private
       THEN Leave(a, t)
       ELSE proc' = [proc EXCEPT ![a].thread[t].at = "append"]
    /\ UNCHANGED <<leaseVars, eventJournal, cursors, disk>>

\* FencedEventSink.emit before the append: private deltas and events that do
\* not continue the journal are refused.
CheckEvent(a, t, private) ==
    /\ proc[a].thread[t].at = "check"
    /\ IF proc[a].revoked \/ private \/ proc[a].thread[t].event # proc[a].last + 1
       THEN Leave(a, t)
       ELSE proc' = [proc EXCEPT ![a].thread[t].at = "append"]
    /\ UNCHANGED <<leaseVars, eventJournal, cursors, disk>>

Event(a, t) == [seq |-> proc[a].thread[t].event, by |-> proc[a].generation]

\* append_event of the sink (RunSink): at most one event per sequence.
Appendable(a, t) == \A e \in eventJournal : e.seq # proc[a].thread[t].event \/ e = Event(a, t)

\* The append is answered.  A revocation meanwhile outranks the answer.
AppendEvent(a, t) ==
    /\ proc[a].thread[t].at = "append" /\ ProcessIsCurrent(a) /\ Appendable(a, t)
    /\ eventJournal' = eventJournal \union {Event(a, t)}
    /\ IF proc[a].revoked THEN Leave(a, t)
       ELSE proc' = [proc EXCEPT ![a].last = proc[a].thread[t].event, ![a].thread[t].at = "local"]
    /\ UNCHANGED <<leaseVars, cursors, disk>>

\* Fenced, or another event holds the sequence: the activation is over.
AppendRefused(a, t) ==
    /\ proc[a].thread[t].at = "append" /\ ~(ProcessIsCurrent(a) /\ Appendable(a, t))
    /\ LeaveRevoked(a, t)
    /\ UNCHANGED <<leaseVars, eventJournal, cursors, disk>>

\* _retry_ambiguous_mutation: an append that may have happened is repeated once
\* under the same identity, then the activation gives itself up.
AppendErrs(a, t) ==
    /\ proc[a].thread[t].at = "append"
    /\ \/ UNCHANGED eventJournal
       \/ ProcessIsCurrent(a) /\ Appendable(a, t) /\ eventJournal' = eventJournal \union {Event(a, t)}
    /\ IF proc[a].thread[t].retried \/ proc[a].revoked
       THEN LeaveRevoked(a, t)
       ELSE proc' = [proc EXCEPT ![a].thread[t].retried = TRUE]
    /\ UNCHANGED <<leaseVars, cursors, disk>>

\* An append after a torn tail is glued to it and both records are lost.
Glued == [seq |-> 0, by |-> 0]

\* JsonlEventSink.emit; the file system may refuse.
WriteLine(a, t) ==
    LET d == proc[a].directory IN
    /\ proc[a].thread[t].at = "local"
    /\ \/ /\ disk' = [disk EXCEPT ![d].lines = Append(@, IF disk[d].torn THEN Glued ELSE Event(a, t))]
          /\ IF proc[a].revoked THEN Leave(a, t)
             ELSE proc' = [proc EXCEPT ![a].thread[t].at = "status"]
       \/ UNCHANGED disk /\ Leave(a, t)
    /\ UNCHANGED <<leaseVars, eventJournal, cursors>>

\* StatusJsonSink.emit: a write that fails is skipped.
WriteStatus(a, t) ==
    /\ proc[a].thread[t].at = "status"
    /\ \/ UNCHANGED disk
       \/ disk' = [disk EXCEPT ![proc[a].directory].status = proc[a].thread[t].event]
    /\ Leave(a, t)
    /\ UNCHANGED <<leaseVars, eventJournal, cursors>>

\* EventBus.close.
CloseBus(a) ==
    /\ proc[a].stage = "on" /\ ~proc[a].revoked /\ proc[a].lock = NoThread
    /\ proc' = [proc EXCEPT ![a].closed = TRUE]
    /\ UNCHANGED <<leaseVars, eventJournal, cursors, disk>>

\* _ActivationRunSink.commit_checkpoint at a boundary: the receipt carries the
\* sequence of the last event this activation knows to be durable.
CommitReceipt(a) ==
    /\ proc[a].stage = "on" /\ ~proc[a].revoked /\ Len(cursors) < MaxReceipts
    /\ IF ProcessIsCurrent(a)
       THEN cursors' = Append(cursors, proc[a].last) /\ UNCHANGED proc
       ELSE proc' = [proc EXCEPT ![a].revoked = TRUE] /\ UNCHANGED cursors
    /\ UNCHANGED <<leaseVars, eventJournal, disk>>

\* The lease supervisor takes the authority away, at any point.
RevokeProcess(a) ==
    /\ proc[a].stage \in {"seed", "open", "on"} /\ ~proc[a].revoked
    /\ proc' = [proc EXCEPT ![a].revoked = TRUE]
    /\ UNCHANGED <<leaseVars, eventJournal, cursors, disk>>

\* The process dies; a line it was writing stays behind torn.
CrashProcess(a) ==
    /\ proc[a].stage # "off"
    /\ disk' = IF \E t \in Threads : proc[a].thread[t].at = "local"
               THEN [disk EXCEPT ![proc[a].directory].torn = TRUE] ELSE disk
    /\ proc' = [proc EXCEPT ![a] = NoProcess]
    /\ UNCHANGED <<leaseVars, eventJournal, cursors>>

\* The activation is over: closed, revoked or refused.
EndProcess(a) ==
    /\ proc[a].stage \in {"on", "over", "corrupt"} /\ proc[a].lock = NoThread
    /\ proc[a].stage = "on" => proc[a].closed \/ proc[a].revoked
    /\ proc' = [proc EXCEPT ![a] = NoProcess]
    /\ Released(a)
    /\ UNCHANGED <<eventJournal, cursors, disk>>

ProcessLeaseExpires ==
    /\ Lease!Lapse
    /\ UNCHANGED <<eventJournal, cursors, disk, proc>>

-----------------------------------------------------------------------------
Publish(a, t) ==
    \/ BuildEvent(a, t) \/ \E private \in BOOLEAN : CheckEvent(a, t, private)
    \/ AppendEvent(a, t) \/ AppendRefused(a, t) \/ AppendErrs(a, t)
    \/ WriteLine(a, t) \/ WriteStatus(a, t)

Processes(a) ==
    \/ \E d \in Directories : StartProcess(a, d)
    \/ SeedSequence(a) \/ OpenRecorder(a) \/ CloseBus(a) \/ CommitReceipt(a)
    \/ RevokeProcess(a) \/ CrashProcess(a) \/ EndProcess(a)
    \/ \E t \in Threads : Publish(a, t)

EventInit ==
    /\ Lease!Init
    /\ eventJournal = {} /\ cursors = <<>>
    /\ disk = [d \in Directories |-> EmptyDirectory]
    /\ proc = [a \in Activations |-> NoProcess]

EventNext == ProcessLeaseExpires \/ \E a \in Activations : Processes(a)

EventSpec == EventInit /\ [][EventNext]_eventVars

-----------------------------------------------------------------------------
(* Properties *)

(* The journal has no gap and one event per sequence, and the events of a
   replacement come after those of the activations before it, although a
   replacement reads the journal's end while its predecessor still runs.
   Receipts cite durable events only, and a later receipt never cites less. *)
JournalIsGapless ==
    /\ {e.seq : e \in eventJournal} = 1 .. JournalEnd
    /\ \A e, f \in eventJournal : e.seq <= f.seq => e.by <= f.by
    /\ \A e, f \in eventJournal : e.seq = f.seq => e = f
    /\ \A i \in 1 .. Len(cursors) : cursors[i] <= JournalEnd
    /\ \A i \in 1 .. Len(cursors) - 1 : cursors[i] <= cursors[i + 1]

(* A run directory is a projection: every line of events.jsonl is an event of
   the journal, in order, status.json never runs ahead of events.jsonl, and no
   replacement finds the directory of a dead predecessor corrupt or ahead of
   the journal, wherever the predecessor died. *)
ProjectionFollowsJournal ==
    /\ \A d \in Directories :
          /\ LogIsSound(d)
          /\ \A i \in 1 .. Len(disk[d].lines) : disk[d].lines[i] \in eventJournal
    /\ \A a \in Activations : proc[a].stage # "corrupt"
=============================================================================
