-------------------------- MODULE ReferenceHostProofs --------------------------
(***************************************************************************)
(* What the Reference backend keeps of one run, for any number of worker   *)
(* processes, messages, requests and crashes, and what its DBOS host gives *)
(* back, for any number of threads, operations and workflows.              *)
(*                                                                         *)
(* Two of the properties hold whatever the processes do to each other,     *)
(* because every session, committed or not, is sound for itself: it holds  *)
(* an input once, and an acknowledgement only of a request whose sending   *)
(* has ended (HostSound).  The others are about a run that no two          *)
(* processes had at the same time (SoleHost); that no saved message is     *)
(* lost (NothingIsLost) takes a queue.get() that hands its message         *)
(* straight to the drive as well, and the run message_lost shows what      *)
(* happens without.                                                        *)
(*                                                                         *)
(* Each step of a worker is described once, by the record it leaves        *)
(* (WorkerStep); the three invariants follow from that description.        *)
(***************************************************************************)
EXTENDS ReferenceHost, DbosHost, SequenceTheorems, FiniteSetTheorems, WellFoundedInduction, TLAPS

-----------------------------------------------------------------------------
(* What the state is made of *)

Ids == Messages \union OutboxRequests

OutboxStates == {"none", "pending", "retrying", "dispatched", "failed"}

HostSessions ==
    [queue : Seq(Ids), seen : SUBSET Ids, log : Seq(Ids \union {0}),
     outbox : [OutboxRequests -> OutboxStates], whole : BOOLEAN]

HostRests == [queue : Seq(Ids), seen : SUBSET Ids]

CommandAnswers == {"none", "completed", "failed"}

CommandPlaces == {<<>>} \union (Nat \X CommandAnswers)

HostStages ==
    {"idle", "resuming", "waiting", "building", "attached", "posting", "turn", "parked", "done",
     "down"}

HostRecords ==
    [stage : HostStages, session : HostSessions, rest : HostRests, claimed : BOOLEAN,
     taken : {<<>>} \union {<<id>> : id \in Ids}, draining : BOOLEAN,
     due : SUBSET OutboxRequests, command : CommandPlaces]

CommandRecords ==
    [id : Messages, status : {"pending", "claimed", "completed", "failed"},
     by : Workers \union {NoWorker}, aged : BOOLEAN]

Directories == {"absent", "open", "closed", "failed"}

HostTypes ==
    /\ lease \in {"fresh", "stale"}
    /\ artifact \in Directories
    /\ failures \in Nat
    /\ store \in HostSessions
    /\ host \in [Workers -> HostRecords]
    /\ inbox \in Seq(CommandRecords)
    /\ emitted \in 0 .. MaxRequests
    /\ sent \in SUBSET OutboxRequests
    /\ saved \in SUBSET Messages
    /\ shared \in BOOLEAN

-----------------------------------------------------------------------------
(* The invariants *)

\* The requests whose sending has ended, as session s knows it.
EndedIn(s) == {r \in OutboxRequests : s.outbox[r] \in {"dispatched", "failed"}}

\* A session is sound with the ids in `known` seen, `staged` requests staged and
\* those in `out` sent: a whole one holds an input once, and no input but the
\* instruction and known ids; known ids are inputs; and whatever is queued or
\* known is a client's message or the acknowledgement of a request that ended.
SoundSession(s, known, staged, out) ==
    /\ s.whole => IsInjective(s.log) /\ ToSet(s.log) \subseteq {0} \union known
    /\ s.seen \subseteq known /\ known \subseteq ToSet(s.log)
    /\ ToSet(s.queue) \union known \subseteq Messages \union EndedIn(s)
    /\ EndedIn(s) \subseteq out
    /\ \A r \in OutboxRequests : r > staged => s.outbox[r] = "none"

\* What a record knows of the ids: a recovery may have yet to give them back.
KnownTo(h) == h.session.seen \union h.rest.seen

\* The stages at which a recovery has the ids, and the messages, to give back.
Restoring == {"building", "attached"}

Requeueing == {"building", "attached", "posting"}

\* The stages at which the record has its loop, and the outbox may be drained.
Looped == {"attached", "posting", "turn", "parked"}

\* A worker's record is sound: its session is, what a recovery gives back is
\* given back in order, and a drain sends only what has not ended.
SoundRecord(h, staged, out) ==
    /\ SoundSession(h.session, KnownTo(h), staged, out)
    /\ ToSet(h.taken) \union ToSet(h.rest.queue) \subseteq Messages \union EndedIn(h.session)
    /\ h.stage \notin Restoring => h.rest.seen = {}
    /\ h.stage \in Restoring => h.session.seen = {}
    /\ h.stage \notin Requeueing => h.rest.queue = <<>>
    /\ h.taken # <<>> => h.stage \in {"turn", "parked", "done"}
    /\ IF h.draining THEN h.stage \in Looped ELSE h.due = {}
    /\ \A r \in h.due : h.session.outbox[r] \in {"pending", "retrying"}

\* The command a worker is at is one of the inbox.
SoundPlace(command, commands) == command # <<>> => command[1] \in DOMAIN commands

HostSound ==
    /\ HostTypes
    /\ SoundSession(store, store.seen, emitted, sent)
    /\ \A w \in Workers : SoundRecord(host[w], emitted, sent) /\ SoundPlace(host[w].command, inbox)

\* A record through which the run is driven or will be, and one that may become
\* such a record.
Live(h) == h.stage \in {"waiting", "building", "attached", "posting", "turn", "parked"}

Present(h) == Live(h) \/ h.stage = "resuming"

\* Unless two processes had the run at once it has one at most, from the moment
\* it exists to its end.
SoleHost ==
    /\ ~shared => \A v, w \in Workers : Present(host[v]) /\ Present(host[w]) => v = w
    /\ artifact = "absent" => saved = {} /\ \A w \in Workers : ~Present(host[w])
    /\ ~shared /\ artifact \in {"closed", "failed"} => \A w \in Workers : ~Live(host[w])

\* What a session holds, and what a record does.
Kept(s) == ToSet(s.queue) \union ToSet(s.log)

Held(h) == Kept(h.session) \union ToSet(h.taken) \union ToSet(h.rest.queue)

\* No drain runs while a message is on its way to the drive.
Calm(h) == h.draining => h.taken = <<>>

\* Where a saved message is: in a whole checkpoint, and with the worker that
\* has the run.
NothingIsLost ==
    /\ ~shared /\ artifact = "open" /\ store.whole => saved \subseteq Kept(store)
    /\ \A w \in Workers :
          /\ ~shared /\ Live(host[w]) /\ host[w].session.whole => saved \subseteq Held(host[w])
          /\ Calm(host[w])

\* Worker w's step leaves it with record h.  It commits the image of h if it
\* commits; it comes to the run through a recovery, or is the first; it keeps what
\* its record held, or takes up what the checkpoint holds.
Arrives(w, h) ==
    /\ \/ Present(h) => Present(host[w])
       \/ artifact = "absent" /\ artifact' = "open"
       \/ ~Live(h) /\ artifact' # "absent" /\ (shared' \/ \A v \in Workers : ~Present(host[v]))
    /\ \/ artifact' = artifact
       \/ artifact = "absent" /\ artifact' = "open"
       \/ artifact' \in {"closed", "failed"} /\ ~Live(h) /\ Present(host[w])
    /\ Live(h) => Live(host[w]) \/ artifact' = "open"

Commits(w, h) ==
    \/ store' = store /\ saved' = saved
    \/ /\ store' = Image(h) \/ (shared /\ store' = store)
       /\ Present(host[w]) /\ h.stage \in Looped
       /\ saved \subseteq saved' /\ saved' \subseteq (saved \union Held(h)) \intersect Messages
       /\ Calm(host[w]) /\ ~TaskedWait => h.taken = <<>>

Keeps(w, h) ==
    /\ \/ Live(h) => /\ Live(host[w])
                      /\ (h.session.whole => host[w].session.whole)
                      /\ Held(host[w]) \subseteq Held(h)
       \/ /\ artifact = "open" /\ (h.session.whole => store.whole)
          /\ Kept(store) \subseteq Held(h)
       \/ artifact = "absent"
    /\ Calm(host[w]) /\ ~TaskedWait => Calm(h)

WorkerStep(w, h) ==
    /\ h \in HostRecords /\ host' = [host EXCEPT ![w] = h]
    /\ SoundRecord(h, emitted', sent') /\ SoundPlace(h.command, inbox)
    /\ Arrives(w, h) /\ Commits(w, h) /\ Keeps(w, h)

-----------------------------------------------------------------------------
(* Sequences and the smallest of a set of numbers *)

(* Appending adds the element to what a sequence holds. *)
LEMMA ToSetAppend ==
    ASSUME NEW S, NEW s \in Seq(S), NEW e \in S
    PROVE  ToSet(Append(s, e)) = ToSet(s) \union {e}
<1> DEFINE t == Append(s, e)
<1>1. t \in Seq(S) /\ Len(t) = Len(s) + 1 /\ \A i \in 1 .. Len(s) : t[i] = s[i]
  OBVIOUS
<1>2. t[Len(s) + 1] = e /\ Len(s) \in Nat
  OBVIOUS
<1>3. DOMAIN t = 1 .. Len(s) + 1 /\ DOMAIN s = 1 .. Len(s)
  BY <1>1
<1> HIDE DEF t
<1>4. ToSet(t) = ToSet(s) \union {e}
  BY <1>1, <1>2, <1>3 DEF ToSet
<1> QED BY <1>4 DEF t

(* A sequence holds its head and what its tail holds. *)
LEMMA ToSetTail ==
    ASSUME NEW S, NEW s \in Seq(S), s # <<>>
    PROVE  ToSet(s) = ToSet(Tail(s)) \union {Head(s)}
<1> DEFINE t == Tail(s)
<1>1. t \in Seq(S) /\ Len(t) = Len(s) - 1 /\ \A i \in 1 .. Len(t) : t[i] = s[i + 1]
  OBVIOUS
<1>2. Head(s) = s[1] /\ Len(s) \in Nat /\ Len(s) > 0 /\ Len(t) \in Nat
  BY <1>1
<1>3. DOMAIN t = 1 .. Len(t) /\ DOMAIN s = 1 .. Len(s)
  BY <1>1
<1> HIDE DEF t
<1>4. \A x : x \in ToSet(s) => x \in ToSet(t) \union {Head(s)}
  <2> SUFFICES ASSUME NEW i \in 1 .. Len(s), i # 1 PROVE s[i] \in ToSet(t)
    BY <1>2, <1>3 DEF ToSet
  <2>1. i - 1 \in 1 .. Len(t) /\ t[i - 1] = s[i]
    BY <1>1, <1>2
  <2> QED BY <1>3, <2>1 DEF ToSet
<1>5. ToSet(t) \union {Head(s)} \subseteq ToSet(s)
  BY <1>1, <1>2, <1>3 DEF ToSet
<1> QED BY <1>4, <1>5 DEF t

(* Appending what a sequence does not hold keeps it free of repetitions. *)
LEMMA AppendKeepsInjective ==
    ASSUME NEW S, NEW s \in Seq(S), NEW e \in S, e \notin ToSet(s), IsInjective(s)
    PROVE  IsInjective(Append(s, e))
<1> DEFINE t == Append(s, e)
<1>1. t \in Seq(S) /\ Len(t) = Len(s) + 1 /\ \A i \in 1 .. Len(s) : t[i] = s[i]
  OBVIOUS
<1>2. t[Len(s) + 1] = e /\ Len(s) \in Nat
  OBVIOUS
<1>3. DOMAIN t = 1 .. Len(s) + 1 /\ DOMAIN s = 1 .. Len(s)
  BY <1>1
<1>4. \A i \in 1 .. Len(s) : s[i] # e
  BY <1>3 DEF ToSet
<1> HIDE DEF t
<1>5. IsInjective(t)
  BY <1>1, <1>2, <1>3, <1>4 DEF IsInjective
<1> QED BY <1>5 DEF t

(* The oldest due request is one of them: a nonempty set of numbers up to n has
   a smallest element. *)
LEMMA MinInSet ==
    ASSUME NEW n \in Nat, NEW S \in SUBSET (1 .. n), S # {}
    PROVE  Min(S) \in S
<1> DEFINE R == StrictSubsetOrdering(1 .. n)
           T == {1 .. m : m \in S}
<1>1. IsWellFoundedOn(R, SUBSET (1 .. n))
  <2>1. IsFiniteSet(1 .. n)
    BY FS_Interval
  <2>2. FiniteSubsetsOf(1 .. n) = SUBSET (1 .. n)
    BY <2>1, FS_FiniteSubsetsOfFinite
  <2> QED BY <2>2, FS_StrictSubsetOrderingWellFounded
<1>2. T \subseteq SUBSET (1 .. n) /\ T # {}
  <2>1. \A m \in S : 1 .. m \subseteq 1 .. n
    OBVIOUS
  <2> QED BY <2>1
<1>3. \E x \in T : \A y \in T : ~(<<y, x>> \in R)
  <2> HIDE DEF R, T
  <2> QED BY <1>1, <1>2, WFMin
<1>4. PICK x \in S : \A y \in T : ~(<<y, 1 .. x>> \in R)
  BY <1>3
<1>5. ASSUME NEW y \in S PROVE x =< y
  <2>1. ~(<<1 .. y, 1 .. x>> \in R)
    BY <1>4
  <2>2. y < x => 1 .. y \subseteq 1 .. x /\ 1 .. y # 1 .. x
    <3>1. y < x => x \in 1 .. x /\ x \notin 1 .. y
      OBVIOUS
    <3> QED BY <3>1
  <2> QED BY <2>1, <2>2 DEF StrictSubsetOrdering
<1> QED BY <1>5 DEF Min

-----------------------------------------------------------------------------
(* What the steps make of a session *)

(* More staged and more sent leaves a session sound. *)
LEMMA SoundnessGrows ==
    ASSUME NEW s \in HostSessions, NEW known, NEW e \in Nat, NEW f \in Nat, e <= f,
           NEW x, NEW y, x \subseteq y, SoundSession(s, known, e, x)
    PROVE  SoundSession(s, known, f, y)
<1>1. \A r \in OutboxRequests : r > f => s.outbox[r] = "none"
  BY DEF SoundSession, OutboxRequests
<1> QED BY <1>1 DEF SoundSession

(* An empty session is sound, and the first one. *)
LEMMA FirstSessions ==
    /\ NoCheckpoint \in HostSessions /\ NewSession \in HostSessions
    /\ NoCheckpoint.queue = <<>> /\ NoCheckpoint.log = <<>> /\ NoCheckpoint.seen = {}
    /\ NewSession.queue = <<>> /\ NewSession.log = <<0>> /\ NewSession.seen = {}
    /\ \A e, x : SoundSession(NoCheckpoint, {}, e, x) /\ SoundSession(NewSession, {}, e, x)
<1>1. NoCheckpoint \in HostSessions
  BY DEF NoCheckpoint, HostSessions, OutboxStates
<1>2. /\ NewSession.queue = <<>> /\ NewSession.seen = {} /\ NewSession.log = <<0>>
      /\ NewSession.outbox = [r \in OutboxRequests |-> "none"]
  BY DEF NewSession, NoCheckpoint
<1>3. NewSession \in HostSessions
  <2>1. <<0>> \in Seq(Ids \union {0})
    OBVIOUS
  <2> QED BY <1>1, <2>1 DEF NewSession, HostSessions
<1>4. ToSet(<<>>) = {} /\ ToSet(<<0>>) = {0} /\ IsInjective(<<>>) /\ IsInjective(<<0>>)
  BY DEF ToSet, IsInjective
<1>5. EndedIn(NoCheckpoint) = {} /\ EndedIn(NewSession) = {}
  BY <1>2 DEF NoCheckpoint, EndedIn
<1>6. /\ NoCheckpoint.queue = <<>> /\ NoCheckpoint.log = <<>> /\ NoCheckpoint.seen = {}
      /\ NoCheckpoint.outbox = [r \in OutboxRequests |-> "none"]
  BY DEF NoCheckpoint
<1>7. \A e, x : SoundSession(NoCheckpoint, {}, e, x)
  BY <1>4, <1>5, <1>6 DEF SoundSession
<1>8. \A e, x : SoundSession(NewSession, {}, e, x)
  BY <1>2, <1>4, <1>5 DEF SoundSession
<1> QED BY <1>1, <1>2, <1>3, <1>6, <1>7, <1>8

(* An id is not the instruction's, and no request is a message. *)
LEMMA IdsAreApart == 0 \notin Ids /\ Messages \intersect OutboxRequests = {}
BY MessagesAssumption, HostBoundsAssumption DEF Ids, OutboxRequests

\* What may be queued: a client's message, or an acknowledgement that is due.
Queueable(s) == Messages \union EndedIn(s)

Queued(s, id) == [s EXCEPT !.queue = Append(@, id)]

Dequeued(s) == [s EXCEPT !.queue = Tail(@)]

(* An id is queued. *)
LEMMA QueuedSession ==
    ASSUME NEW s \in HostSessions, NEW id \in Ids, NEW t, t = Queued(s, id)
    PROVE  /\ t \in HostSessions
           /\ ToSet(t.queue) = ToSet(s.queue) \union {id}
           /\ t.log = s.log /\ t.seen = s.seen /\ t.outbox = s.outbox /\ t.whole = s.whole
           /\ EndedIn(t) = EndedIn(s)
<1>1. s.queue \in Seq(Ids) /\ Append(s.queue, id) \in Seq(Ids)
  BY DEF HostSessions
<1>2. t = [s EXCEPT !.queue = Append(s.queue, id)]
  BY DEF Queued
<1>3. ToSet(Append(s.queue, id)) = ToSet(s.queue) \union {id}
  BY <1>1, ToSetAppend
<1>4. /\ t.queue = Append(s.queue, id) /\ t.log = s.log /\ t.seen = s.seen
      /\ t.outbox = s.outbox /\ t.whole = s.whole
  BY <1>2 DEF HostSessions
<1>6. t \in HostSessions
  BY <1>1, <1>2 DEF HostSessions
<1>7. EndedIn(t) = EndedIn(s)
  BY <1>4 DEF EndedIn
<1> QED BY <1>3, <1>4, <1>6, <1>7

LEMMA QueuedSessionIsSound ==
    ASSUME NEW s \in HostSessions, NEW id \in Ids, NEW t, t = Queued(s, id),
           NEW known, NEW e, NEW x, SoundSession(s, known, e, x), id \in Queueable(s)
    PROVE  SoundSession(t, known, e, x)
<1>1. /\ ToSet(t.queue) = ToSet(s.queue) \union {id}
      /\ t.log = s.log /\ t.seen = s.seen /\ t.outbox = s.outbox /\ t.whole = s.whole
      /\ EndedIn(t) = EndedIn(s)
  BY QueuedSession
<1> QED BY <1>1 DEF SoundSession, Queueable

(* The head of the queue leaves it. *)
LEMMA DequeuedSession ==
    ASSUME NEW s \in HostSessions, s.queue # <<>>, NEW t, t = Dequeued(s)
    PROVE  /\ t \in HostSessions /\ Head(s.queue) \in Ids
           /\ ToSet(s.queue) = ToSet(t.queue) \union {Head(s.queue)}
           /\ t.log = s.log /\ t.seen = s.seen /\ t.outbox = s.outbox /\ t.whole = s.whole
           /\ EndedIn(t) = EndedIn(s)
<1>1. s.queue \in Seq(Ids) /\ Tail(s.queue) \in Seq(Ids) /\ Head(s.queue) \in Ids
  BY DEF HostSessions
<1>2. t = [s EXCEPT !.queue = Tail(s.queue)]
  BY DEF Dequeued
<1>3. /\ t.queue = Tail(s.queue) /\ t.log = s.log /\ t.seen = s.seen
      /\ t.outbox = s.outbox /\ t.whole = s.whole
  BY <1>2 DEF HostSessions
<1>6. t \in HostSessions
  BY <1>1, <1>2 DEF HostSessions
<1>7. EndedIn(t) = EndedIn(s)
  BY <1>3 DEF EndedIn
<1>4. ToSet(s.queue) = ToSet(t.queue) \union {Head(s.queue)}
  BY <1>1, <1>3, ToSetTail
<1> QED BY <1>1, <1>3, <1>4, <1>6, <1>7

LEMMA DequeuedSessionIsSound ==
    ASSUME NEW s \in HostSessions, s.queue # <<>>, NEW t, t = Dequeued(s),
           NEW known, NEW e, NEW x, SoundSession(s, known, e, x)
    PROVE  SoundSession(t, known, e, x)
<1>1. /\ ToSet(s.queue) = ToSet(t.queue) \union {Head(s.queue)}
      /\ t.log = s.log /\ t.seen = s.seen /\ t.outbox = s.outbox /\ t.whole = s.whole
      /\ EndedIn(t) = EndedIn(s)
  BY DequeuedSession
<1> QED BY <1>1 DEF SoundSession

(* The drive gets an id: it is in the transcript, once. *)
LEMMA ReceivedSession ==
    ASSUME NEW s \in HostSessions, NEW id \in Ids, NEW t, t = Received(s, id).session,
           NEW e, NEW x, SoundSession(s, s.seen, e, x), id \in Queueable(s)
    PROVE  /\ t \in HostSessions /\ SoundSession(t, t.seen, e, x)
           /\ t.queue = s.queue /\ t.outbox = s.outbox /\ t.whole = s.whole
           /\ EndedIn(t) = EndedIn(s)
           /\ ToSet(s.log) \union {id} \subseteq ToSet(t.log)
           /\ Received(s, id).stage \in {"turn", "parked"}
<1>1. CASE id \in s.seen
  <2>1. t = s /\ Received(s, id).stage = "parked"
    BY <1>1 DEF Received
  <2> QED BY <1>1, <2>1 DEF SoundSession
<1>2. CASE id \notin s.seen
  <2>1. t = [s EXCEPT !.seen = s.seen \union {id}, !.log = Append(s.log, id)]
    BY <1>2 DEF Received
  <2>2. Received(s, id).stage = "turn"
    BY <1>2 DEF Received
  <2>3. s.log \in Seq(Ids \union {0}) /\ Append(s.log, id) \in Seq(Ids \union {0})
    BY DEF HostSessions
  <2>4. /\ t.queue = s.queue /\ t.log = Append(s.log, id) /\ t.seen = s.seen \union {id}
        /\ t.outbox = s.outbox /\ t.whole = s.whole
    BY <2>1 DEF HostSessions
  <2>5. t \in HostSessions
    <3>1. s.seen \union {id} \in SUBSET Ids
      BY DEF HostSessions
    <3>2. s \in HostSessions
      OBVIOUS
    <3> QED BY <2>1, <2>3, <3>1, <3>2 DEF HostSessions
  <2>6. ToSet(t.log) = ToSet(s.log) \union {id}
    BY <2>3, <2>4, ToSetAppend
  <2>7. s.whole => IsInjective(t.log)
    <3> SUFFICES ASSUME s.whole PROVE IsInjective(t.log)
      OBVIOUS
    <3>1. id \notin ToSet(s.log)
      BY <1>2, IdsAreApart DEF SoundSession
    <3>2. IsInjective(s.log)
      BY DEF SoundSession
    <3> QED BY <2>3, <2>4, <3>1, <3>2, AppendKeepsInjective
  <2>8. EndedIn(t) = EndedIn(s)
    BY <2>4 DEF EndedIn
  <2>9. SoundSession(t, t.seen, e, x)
    BY <2>4, <2>6, <2>7, <2>8 DEF SoundSession, Queueable
  <2> QED BY <2>2, <2>4, <2>5, <2>6, <2>8, <2>9
<1> QED BY <1>1, <1>2

(* A request is staged under the next number. *)
LEMMA StagedSession ==
    ASSUME NEW s \in HostSessions, NEW e \in Nat, e + 1 \in OutboxRequests, NEW known, NEW x,
           SoundSession(s, known, e, x), NEW t, t = [s EXCEPT !.outbox[e + 1] = "pending"]
    PROVE  /\ t \in HostSessions /\ SoundSession(t, known, e + 1, x)
           /\ t.queue = s.queue /\ t.log = s.log /\ t.seen = s.seen /\ t.whole = s.whole
           /\ EndedIn(t) = EndedIn(s)
<1>1. t.outbox = [s.outbox EXCEPT ![e + 1] = "pending"]
  BY DEF HostSessions
<1>2. t.queue = s.queue /\ t.log = s.log /\ t.seen = s.seen /\ t.whole = s.whole
  BY DEF HostSessions
<1>3. s.outbox \in [OutboxRequests -> OutboxStates]
  BY DEF HostSessions
<1>4. t.outbox \in [OutboxRequests -> OutboxStates]
  BY <1>1, <1>3 DEF OutboxStates
<1>5. t \in HostSessions
  <2>1. t = [s EXCEPT !.outbox = t.outbox]
    BY <1>1
  <2> QED BY <1>4, <2>1 DEF HostSessions
<1>6. s.outbox[e + 1] = "none"
  BY DEF SoundSession
<1>7. EndedIn(t) = EndedIn(s)
  BY <1>1, <1>3, <1>6 DEF EndedIn
<1>8. \A r \in OutboxRequests : r > e + 1 => t.outbox[r] = "none"
  BY <1>1, <1>3 DEF SoundSession, OutboxRequests
<1> QED BY <1>2, <1>5, <1>7, <1>8 DEF SoundSession

\* What a drain may send, and what comes of it.
Unsent(s) == {r \in OutboxRequests : s.outbox[r] \in {"pending", "retrying"}}

SendOutcomes == {"dispatched", "failed", "retrying"}

(* A result is recorded, and acknowledged if the sending has ended. *)
LEMMA RecordedSession ==
    ASSUME NEW s \in HostSessions, NEW r \in Unsent(s), NEW outcome \in SendOutcomes,
           NEW known, NEW e \in Nat, NEW x, SoundSession(s, known, e, x),
           NEW t, t = Recorded(s, r, outcome), NEW y, x \subseteq y, r \in y
    PROVE  /\ t \in HostSessions /\ SoundSession(t, known, e, y)
           /\ ToSet(s.queue) \subseteq ToSet(t.queue) /\ t.log = s.log
           /\ t.seen = s.seen /\ t.whole = s.whole
           /\ EndedIn(s) \subseteq EndedIn(t)
           /\ \A q \in OutboxRequests : q # r => t.outbox[q] = s.outbox[q]
<1>0. /\ r \in OutboxRequests /\ s.outbox[r] \in {"pending", "retrying"}
      /\ outcome \in {"dispatched", "failed", "retrying"}
  BY DEF Unsent, SendOutcomes
<1> DEFINE m == [s EXCEPT !.outbox[r] = outcome]
<1>1. m.outbox = [s.outbox EXCEPT ![r] = outcome]
  BY DEF HostSessions
<1>2. m.queue = s.queue /\ m.log = s.log /\ m.seen = s.seen /\ m.whole = s.whole
  BY DEF HostSessions
<1>3. s.outbox \in [OutboxRequests -> OutboxStates]
  BY DEF HostSessions
<1>4. m.outbox \in [OutboxRequests -> OutboxStates]
  BY <1>0, <1>1, <1>3 DEF OutboxStates
<1>5. m \in HostSessions
  <2>1. m = [s EXCEPT !.outbox = m.outbox]
    BY <1>1
  <2> HIDE DEF m
  <2> QED BY <1>4, <2>1 DEF HostSessions
<1>6. r <= e
  BY <1>0 DEF SoundSession, OutboxRequests
<1>7. EndedIn(s) \subseteq EndedIn(m) /\ EndedIn(m) \subseteq EndedIn(s) \union {r}
  BY <1>0, <1>1, <1>3 DEF EndedIn
<1>8. \A q \in OutboxRequests : q # r => m.outbox[q] = s.outbox[q]
  BY <1>1, <1>3
<1> HIDE DEF m
<1>9. SoundSession(m, known, e, y)
  <2>1. \A q \in OutboxRequests : q > e => m.outbox[q] = "none"
    BY <1>6, <1>8 DEF SoundSession, OutboxRequests
  <2> QED BY <1>2, <1>7, <2>1 DEF SoundSession
<1>10. m.outbox[r] = outcome
  BY <1>0, <1>1, <1>3
<1>11. CASE t = m
  BY <1>11, <1>2, <1>5, <1>7, <1>8, <1>9
<1>12. CASE outcome # "retrying" /\ t = [m EXCEPT !.queue = Append(@, r)]
  <2>1. r \in Queueable(m) /\ r \in Ids
    BY <1>0, <1>10, <1>12 DEF EndedIn, Ids, Queueable
  <2>2. t = Queued(m, r)
    BY <1>12 DEF Queued
  <2>3. /\ t \in HostSessions
        /\ ToSet(t.queue) = ToSet(m.queue) \union {r}
        /\ t.log = m.log /\ t.seen = m.seen /\ t.outbox = m.outbox /\ t.whole = m.whole
        /\ EndedIn(t) = EndedIn(m)
    BY <1>5, <2>1, <2>2, QueuedSession
  <2>4. SoundSession(t, known, e, y)
    BY <1>5, <1>9, <2>1, <2>2, QueuedSessionIsSound
  <2> QED BY <1>2, <1>7, <1>8, <2>3, <2>4
<1>13. t = m \/ (outcome # "retrying" /\ t = [m EXCEPT !.queue = Append(@, r)])
  BY DEF Recorded, WithAck, m
<1> QED BY <1>11, <1>12, <1>13

-----------------------------------------------------------------------------
(* Records *)

(* A worker that tracks no run. *)
LEMMA IdleRecord ==
    /\ Idle \in HostRecords
    /\ Idle.session = NoCheckpoint /\ Idle.rest = NoRest /\ Idle.rest.queue = <<>>
    /\ Idle.rest.seen = {} /\ Idle.taken = <<>> /\ Idle.command = <<>> /\ ~Idle.draining
    /\ Idle.stage = "idle" /\ Idle.due = {} /\ Idle.claimed = FALSE
<1>1. NoCheckpoint \in HostSessions
  BY FirstSessions
<1>2. NoRest \in HostRests /\ NoRest.queue = <<>> /\ NoRest.seen = {}
  BY DEF NoRest, HostRests
<1>3. Idle \in HostRecords
  BY <1>1, <1>2 DEF Idle, HostRecords, HostStages, CommandPlaces
<1> QED BY <1>2, <1>3 DEF Idle

(* A record that holds no queue, no ids and no message is sound. *)
LEMMA EmptyRecord ==
    ASSUME NEW h \in HostRecords, h.session \in {NoCheckpoint, NewSession}, h.rest = NoRest,
           h.taken = <<>>, h.due = {}, ~h.draining, NEW e, NEW x
    PROVE  SoundRecord(h, e, x)
<1>1. h.rest.queue = <<>> /\ h.rest.seen = {} /\ ToSet(<<>>) = {}
  BY DEF NoRest, ToSet
<1>2. h.session.seen = {} /\ KnownTo(h) = {}
  BY <1>1, FirstSessions DEF KnownTo
<1>3. SoundSession(h.session, KnownTo(h), e, x)
  BY <1>2, FirstSessions
<1> QED BY <1>1, <1>2, <1>3 DEF SoundRecord

(* What the types say of a record. *)
LEMMA RecordFields ==
    ASSUME NEW h \in HostRecords
    PROVE  /\ h.stage \in HostStages /\ h.session \in HostSessions /\ h.rest \in HostRests
           /\ h.rest.queue \in Seq(Ids) /\ h.rest.seen \in SUBSET Ids
           /\ h.session.queue \in Seq(Ids) /\ h.session.seen \in SUBSET Ids
           /\ h.taken \in {<<>>} \union {<<id>> : id \in Ids}
           /\ h.due \in SUBSET OutboxRequests /\ h.command \in CommandPlaces
BY DEF HostRecords, HostRests, HostSessions

(* A record stays sound when its stage, its drain or its command changes, if the
   recovery it is at allows for it. *)
LEMMA QuietRecord ==
    ASSUME NEW r \in HostRecords, NEW h \in HostRecords,
           h.session = r.session, h.rest = r.rest, h.taken = r.taken,
           NEW e, NEW x, SoundRecord(r, e, x),
           h.stage \notin Restoring => r.rest.seen = {},
           h.stage \in Restoring => r.session.seen = {},
           h.stage \notin Requeueing => r.rest.queue = <<>>,
           r.taken # <<>> => h.stage \in {"turn", "parked", "done"},
           IF h.draining THEN h.stage \in Looped ELSE h.due = {},
           \A q \in h.due : h.session.outbox[q] \in {"pending", "retrying"}
    PROVE  SoundRecord(h, e, x) /\ Held(h) = Held(r)
<1>1. KnownTo(h) = KnownTo(r) /\ Held(h) = Held(r)
  BY DEF KnownTo, Held
<1> QED BY <1>1 DEF SoundRecord

(* A record stays sound while more is staged and sent. *)
LEMMA RecordSoundnessGrows ==
    ASSUME NEW h \in HostRecords, NEW e \in Nat, NEW f \in Nat, e <= f,
           NEW x, NEW y, x \subseteq y, SoundRecord(h, e, x)
    PROVE  SoundRecord(h, f, y)
<1>1. h.session \in HostSessions /\ SoundSession(h.session, KnownTo(h), e, x)
  BY RecordFields DEF SoundRecord
<1>2. SoundSession(h.session, KnownTo(h), f, y)
  BY <1>1, SoundnessGrows
<1> QED BY <1>2 DEF SoundRecord

(* The image of a record: what it committed. *)
LEMMA ImageOfRecord ==
    ASSUME NEW h \in HostRecords
    PROVE  /\ Image(h) \in HostSessions
           /\ Image(h).queue = h.session.queue /\ Image(h).log = h.session.log
           /\ Image(h).seen = h.session.seen /\ Image(h).outbox = h.session.outbox
           /\ Image(h).whole => h.session.whole /\ h.stage # "attached" /\ h.rest.queue = <<>>
           /\ EndedIn(Image(h)) = EndedIn(h.session) /\ Kept(Image(h)) = Kept(h.session)
<1> DEFINE b == h.session.whole /\ h.stage # "attached" /\ h.rest.queue = <<>>
           t == [h.session EXCEPT !.whole = b]
<1>1. Image(h) = t
  BY DEF Image
<1>2. b \in BOOLEAN /\ h.session \in HostSessions
  BY RecordFields DEF HostSessions
<1>3. t \in HostSessions /\ t.queue = h.session.queue /\ t.log = h.session.log
      /\ t.seen = h.session.seen /\ t.outbox = h.session.outbox /\ t.whole = b
  <2> HIDE DEF b
  <2> QED BY <1>2 DEF HostSessions
<1>4. EndedIn(t) = EndedIn(h.session) /\ Kept(t) = Kept(h.session)
  BY <1>3 DEF EndedIn, Kept
<1>5. t.whole => h.session.whole /\ h.stage # "attached" /\ h.rest.queue = <<>>
  BY <1>3
<1> HIDE DEF t
<1> QED BY <1>1, <1>3, <1>4, <1>5

(* What is committed is sound: a session without the ids it has to get back is
   not whole. *)
LEMMA ImageIsSound ==
    ASSUME NEW h \in HostRecords, NEW e, NEW x, SoundRecord(h, e, x),
           h.stage \in Looped
    PROVE  SoundSession(Image(h), Image(h).seen, e, x)
<1>1. SoundSession(h.session, KnownTo(h), e, x)
  BY DEF SoundRecord
<1>2. CASE h.stage = "attached"
  <2>1. h.session.seen = {}
    BY <1>2 DEF SoundRecord, Restoring
  <2>2. ~Image(h).whole
    BY <1>2, ImageOfRecord
  <2> QED BY <1>1, <2>1, <2>2, ImageOfRecord DEF SoundSession
<1>3. CASE h.stage # "attached"
  <2>1. KnownTo(h) = h.session.seen
    BY <1>3 DEF SoundRecord, Restoring, Looped, KnownTo
  <2> QED BY <1>1, <2>1, ImageOfRecord DEF SoundSession
<1> QED BY <1>2, <1>3

(* A drain that starts keeps the rest of the record. *)
LEMMA DrainingRecord ==
    ASSUME NEW g \in HostRecords, ~g.draining, g.stage \in Looped, NEW due \in DueSets(g.session), NEW e, NEW x,
           SoundRecord(g, e, x), NEW h, h = Draining(g, due)
    PROVE  /\ h \in HostRecords /\ SoundRecord(h, e, x)
           /\ h.stage = g.stage /\ h.session = g.session /\ h.rest = g.rest
           /\ h.taken = g.taken /\ h.command = g.command
           /\ Held(h) = Held(g) /\ Image(h) = Image(g)
<1>1. /\ due \subseteq OutboxRequests
      /\ \A r \in due : g.session.outbox[r] \in {"pending", "retrying"}
  BY DEF DueSets
<1>2. PICK b \in BOOLEAN : b = (due # {})
  OBVIOUS
<1>3. h = [g EXCEPT !.due = due, !.draining = b]
  BY <1>2 DEF Draining
<1>4. /\ h.stage = g.stage /\ h.session = g.session /\ h.rest = g.rest /\ h.taken = g.taken
      /\ h.command = g.command /\ h.due = due /\ h.draining = b
  BY <1>3 DEF HostRecords
<1>5. h \in HostRecords
  BY <1>1, <1>3 DEF HostRecords
<1>6. Image(h) = Image(g)
  BY <1>4 DEF Image
<1>7. SoundRecord(h, e, x) /\ Held(h) = Held(g)
  <2>1. IF h.draining THEN h.stage \in Looped ELSE h.due = {}
    BY <1>2, <1>4
  <2>2. \A q \in h.due : h.session.outbox[q] \in {"pending", "retrying"}
    BY <1>1, <1>4
  <2>3. /\ h.stage \notin Restoring => g.rest.seen = {}
        /\ h.stage \in Restoring => g.session.seen = {}
        /\ h.stage \notin Requeueing => g.rest.queue = <<>>
        /\ g.taken # <<>> => h.stage \in {"turn", "parked", "done"}
    BY <1>4 DEF SoundRecord
  <2> QED BY <1>4, <1>5, <2>1, <2>2, <2>3, QuietRecord
<1> QED BY <1>4, <1>5, <1>6, <1>7

-----------------------------------------------------------------------------
(* From the description of a step to the invariants *)

\* What changes around a worker's record: nothing is taken back.
Grows ==
    /\ lease' \in {"fresh", "stale"} /\ artifact' \in Directories /\ failures' \in Nat
    /\ emitted' \in 0 .. MaxRequests /\ emitted <= emitted'
    /\ sent' \in SUBSET OutboxRequests /\ sent \subseteq sent'
    /\ shared' \in BOOLEAN /\ (shared => shared')
    /\ inbox' \in Seq(CommandRecords) /\ DOMAIN inbox \subseteq DOMAIN inbox'

(* A step that is described so keeps every session sound. *)
LEMMA StepIsSound ==
    ASSUME HostSound, Grows, NEW w \in Workers, NEW h, WorkerStep(w, h)
    PROVE  HostSound'
<1>1. /\ host \in [Workers -> HostRecords] /\ emitted \in Nat /\ emitted' \in Nat
      /\ emitted <= emitted' /\ sent \subseteq sent' /\ saved \in SUBSET Messages
      /\ store \in HostSessions /\ SoundSession(store, store.seen, emitted, sent)
      /\ \A v \in Workers : SoundRecord(host[v], emitted, sent)
      /\ \A v \in Workers : SoundPlace(host[v].command, inbox)
  BY HostBoundsAssumption DEF HostSound, HostTypes, Grows
<1>2. /\ h \in HostRecords /\ host' = [host EXCEPT ![w] = h] /\ SoundRecord(h, emitted', sent')
      /\ SoundPlace(h.command, inbox) /\ Commits(w, h)
  BY DEF WorkerStep
<1>3. store' \in HostSessions /\ SoundSession(store', store'.seen, emitted', sent')
  <2>1. CASE store' = store
    BY <1>1, <2>1, SoundnessGrows
  <2>2. CASE store' = Image(h) /\ h.stage \in Looped
    BY <1>2, <2>2, ImageOfRecord, ImageIsSound
  <2> QED BY <1>2, <2>1, <2>2 DEF Commits
<1>4. saved' \in SUBSET Messages
  BY <1>1, <1>2 DEF Commits
<1>5. HostTypes'
  BY <1>1, <1>2, <1>3, <1>4 DEF HostTypes, Grows
<1>6. ASSUME NEW v \in Workers
      PROVE  SoundRecord(host'[v], emitted', sent') /\ SoundPlace(host'[v].command, inbox')
  <2>0. DOMAIN inbox \subseteq DOMAIN inbox'
    BY DEF Grows
  <2>1. CASE v = w
    <3>1. host'[v] = h
      BY <1>1, <1>2, <2>1
    <3> QED BY <1>2, <2>0, <3>1 DEF SoundPlace
  <2>2. CASE v # w
    <3>1. host'[v] = host[v] /\ host[v] \in HostRecords
      BY <1>1, <1>2, <2>2
    <3>2. SoundRecord(host[v], emitted', sent')
      BY <1>1, <3>1, RecordSoundnessGrows
    <3> QED BY <1>1, <2>0, <3>1, <3>2 DEF SoundPlace
  <2> QED BY <2>1, <2>2
<1>7. \A v \in Workers : (SoundRecord(host[v], emitted, sent) /\ SoundPlace(host[v].command, inbox))'
  BY <1>6 DEF SoundRecord, SoundSession, SoundPlace, EndedIn, KnownTo
<1> QED BY <1>3, <1>5, <1>7 DEF HostSound, SoundSession, EndedIn

(* It leaves the run to one process ... *)
LEMMA StepKeepsSoleHost ==
    ASSUME HostTypes, SoleHost, Grows, NEW w \in Workers, NEW h, WorkerStep(w, h)
    PROVE  SoleHost'
<1>1. h = host'[w] /\ \A v \in Workers : v # w => host'[v] = host[v]
  BY DEF HostTypes, WorkerStep
<1>2. Arrives(w, h) /\ (shared => shared') /\ artifact \in Directories
  BY DEF WorkerStep, Grows, HostTypes
<1>3. saved' = saved \/ Present(host[w])
  BY DEF WorkerStep, Commits
<1>4. Live(h) => Present(h)
  BY DEF Present
<1>5. ASSUME ~shared', NEW u \in Workers, NEW v \in Workers, Present(host'[u]), Present(host'[v])
      PROVE  u = v
  <2>1. \A y \in Workers : Present(host'[y]) => Present(host[y]) \/ y = w
    BY <1>1
  <2>2. Present(host[w]) \/ (\A y \in Workers : ~Present(host[y])) \/ ~Present(h)
    BY <1>2, <1>5 DEF Arrives, SoleHost
  <2> QED BY <1>1, <1>2, <1>5, <2>1, <2>2 DEF SoleHost
<1>6. ASSUME artifact' = "absent" PROVE saved' = {} /\ \A v \in Workers : ~Present(host'[v])
  <2>1. artifact = "absent" /\ ~Present(h)
    BY <1>2, <1>6 DEF Arrives, SoleHost
  <2> QED BY <1>1, <1>3, <2>1 DEF SoleHost
<1>7. ASSUME ~shared', artifact' \in {"closed", "failed"}, NEW v \in Workers PROVE ~Live(host'[v])
  <2>1. CASE artifact' = artifact
    BY <1>1, <1>2, <1>7, <2>1 DEF Arrives, SoleHost
  <2>2. CASE artifact' # artifact
    <3>1. Present(host[w]) /\ ~Live(h)
      BY <1>2, <1>7, <2>2 DEF Arrives
    <3> QED BY <1>1, <1>2, <1>7, <3>1 DEF SoleHost, Present
  <2> QED BY <2>1, <2>2
<1> QED BY <1>5, <1>6, <1>7 DEF SoleHost, Present, Live

(* ... and loses no message. *)
LEMMA StepLosesNothing ==
    ASSUME ~TaskedWait, HostTypes, SoleHost, NothingIsLost, Grows,
           NEW w \in Workers, NEW h, WorkerStep(w, h)
    PROVE  NothingIsLost'
<1>1. h = host'[w] /\ \A v \in Workers : v # w => host'[v] = host[v]
  BY DEF HostTypes, WorkerStep
<1>2. /\ Arrives(w, h) /\ Commits(w, h) /\ Keeps(w, h) /\ h \in HostRecords
      /\ (shared => shared') /\ artifact \in Directories
  BY DEF WorkerStep, Grows, HostTypes
<1>3. ASSUME ~shared', Live(h), h.session.whole PROVE saved' \subseteq Held(h)
  <2>1. saved \subseteq Held(h)
    <3>1. CASE Live(host[w]) /\ host[w].session.whole /\ Held(host[w]) \subseteq Held(h)
      BY <1>2, <1>3, <3>1 DEF NothingIsLost
    <3>2. CASE artifact = "open" /\ store.whole /\ Kept(store) \subseteq Held(h)
      BY <1>2, <1>3, <3>2 DEF NothingIsLost
    <3>3. CASE artifact = "absent"
      BY <3>3 DEF SoleHost
    <3>4. Keeps(w, h)
      BY <1>2
    <3> QED BY <1>3, <3>1, <3>2, <3>3, <3>4, Zenon DEF Keeps
  <2> QED BY <1>2, <2>1 DEF Commits
<1>4. ASSUME ~shared', NEW v \in Workers, v # w, Live(host[v]), host[v].session.whole
      PROVE  saved' \subseteq Held(host[v])
  <2>1. ~Present(host[w])
    BY <1>2, <1>4 DEF SoleHost, Present
  <2>2. saved' = saved
    BY <1>2, <2>1 DEF Commits
  <2> QED BY <1>2, <1>4, <2>2 DEF NothingIsLost
<1>5. Calm(h) /\ \A v \in Workers : Calm(host[v])
  BY <1>2 DEF Keeps, NothingIsLost
<1>6. ASSUME ~shared', artifact' = "open", store'.whole PROVE saved' \subseteq Kept(store')
  <2>1. CASE store' = store /\ saved' = saved
    <3>1. artifact = "open" \/ artifact = "absent"
      BY <1>2, <1>6 DEF Arrives
    <3> QED BY <1>2, <1>6, <2>1, <3>1 DEF NothingIsLost, SoleHost
  <2>2. CASE store' = Image(h) /\ ~(store' = store /\ saved' = saved)
    <3>1. h.taken = <<>> /\ Live(h)
      BY <1>2, <1>5, <2>2 DEF Commits, Live, Looped
    <3>2. h.rest.queue = <<>> /\ h.session.whole /\ Kept(store') = Kept(h.session)
      BY <1>2, <1>6, <2>2, ImageOfRecord
    <3>3. Held(h) = Kept(store')
      <4>1. ToSet(<<>>) = {}
        BY DEF ToSet
      <4> QED BY <3>1, <3>2, <4>1 DEF Held
    <3> QED BY <1>3, <1>6, <3>1, <3>2, <3>3
  <2> QED BY <1>2, <1>6, <2>1, <2>2 DEF Commits
<1>7. \A v \in Workers :
         /\ ~shared' /\ Live(host'[v]) /\ host'[v].session.whole => saved' \subseteq Held(host'[v])
         /\ Calm(host'[v])
  BY <1>1, <1>3, <1>4, <1>5
<1> QED BY <1>6, <1>7 DEF NothingIsLost, Kept, Held, Calm, Live

-----------------------------------------------------------------------------
(* The description of each step *)

(* What the invariant says of one worker. *)
LEMMA HostFacts ==
    ASSUME HostSound, NEW w \in Workers
    PROVE  /\ host \in [Workers -> HostRecords] /\ host[w] \in HostRecords
           /\ SoundRecord(host[w], emitted, sent) /\ SoundPlace(host[w].command, inbox)
           /\ emitted \in Nat /\ emitted \in 0 .. MaxRequests /\ emitted <= emitted
           /\ store \in HostSessions /\ SoundSession(store, store.seen, emitted, sent)
           /\ saved \in SUBSET Messages /\ shared \in BOOLEAN /\ artifact \in Directories
           /\ inbox \in Seq(CommandRecords)
BY HostBoundsAssumption DEF HostSound, HostTypes

(* A step within the worker's record: nothing is committed and nothing dropped. *)
LEMMA InPlace ==
    ASSUME HostSound, NEW w \in Workers, NEW h \in HostRecords,
           host' = [host EXCEPT ![w] = h], SoundRecord(h, emitted', sent'),
           SoundPlace(h.command, inbox), UNCHANGED <<artifact, store, saved>>,
           Present(h) => Present(host[w]),
           Live(h) => /\ Live(host[w])
                      /\ (h.session.whole => host[w].session.whole)
                      /\ Held(host[w]) \subseteq Held(h),
           Calm(host[w]) /\ ~TaskedWait => Calm(h)
    PROVE  WorkerStep(w, h)
BY DEF WorkerStep, Arrives, Commits, Keeps

(* A step that leaves the directory as it is and the worker's commitments to the
   commit of its new record. *)
LEMMA Committed ==
    ASSUME HostSound, NEW w \in Workers, NEW h \in HostRecords,
           host' = [host EXCEPT ![w] = h], SoundRecord(h, emitted', sent'),
           SoundPlace(h.command, inbox), artifact' = artifact,
           store' = Image(h) \/ (shared /\ store' = store),
           h.stage \in Looped, Live(host[w]),
           h.session.whole => host[w].session.whole, Held(host[w]) \subseteq Held(h),
           saved \subseteq saved', saved' \subseteq (saved \union Held(h)) \intersect Messages,
           Calm(host[w]) /\ ~TaskedWait => h.taken = <<>>
    PROVE  WorkerStep(w, h)
<1>1. Arrives(w, h)
  BY DEF Arrives, Present
<1>2. Commits(w, h)
  BY DEF Commits, Present
<1>3. Keeps(w, h)
  BY DEF Keeps, Calm
<1> QED BY <1>1, <1>2, <1>3 DEF WorkerStep

(* A record is committed and its drain starts. *)
LEMMA Persisted ==
    ASSUME HostSound, NEW w \in Workers, NEW g \in HostRecords, Persist(w, g), ~g.draining,
           SoundRecord(g, emitted', sent'), SoundPlace(g.command, inbox), artifact' = artifact,
           g.stage \in Looped, Live(host[w]),
           g.session.whole => host[w].session.whole, Held(host[w]) \subseteq Held(g),
           saved \subseteq saved', saved' \subseteq (saved \union Held(g)) \intersect Messages,
           Calm(host[w]) /\ ~TaskedWait => g.taken = <<>>
    PROVE  \E h : WorkerStep(w, h)
<1>1. PICK due \in DueSets(g.session) : host' = [host EXCEPT ![w] = Draining(g, due)]
  BY DEF Persist
<1>2. PICK h : h = Draining(g, due)
  OBVIOUS
<1>3. /\ h \in HostRecords /\ SoundRecord(h, emitted', sent')
      /\ h.stage = g.stage /\ h.session = g.session
      /\ h.taken = g.taken /\ h.command = g.command
      /\ Held(h) = Held(g) /\ Image(h) = Image(g)
  BY <1>2, DrainingRecord
<1>4. store' = Image(g) \/ (shared /\ store' = store)
  BY DEF Persist, Commit
<1>5. WorkerStep(w, h)
  BY <1>1, <1>2, <1>3, <1>4, Committed
<1> QED BY <1>5

(* The watchdog and a crash. *)
LEMMA WatchdogSteps ==
    ASSUME HostSound, NEW w \in Workers, Watchdog(w)
    PROVE  \E h : WorkerStep(w, h)
<1>0. /\ host \in [Workers -> HostRecords] /\ host[w] \in HostRecords
      /\ SoundRecord(host[w], emitted, sent) /\ SoundPlace(host[w].command, inbox)
  BY HostFacts
<1>1. CASE CreateRun(w)
  <2>1. PICK h : h = [Idle EXCEPT !.stage = "waiting", !.session = NewSession]
    OBVIOUS
  <2>2. /\ h.stage = "waiting" /\ h.session = NewSession /\ h.rest = NoRest /\ h.taken = <<>>
        /\ h.due = {} /\ h.command = <<>> /\ ~h.draining
    BY <2>1, IdleRecord DEF HostRecords
  <2>3. h \in HostRecords
    BY <2>1, IdleRecord, FirstSessions DEF HostRecords, HostStages
  <2>4. SoundRecord(h, emitted', sent')
    BY <2>2, <2>3, EmptyRecord
  <2>5. artifact = "absent" /\ artifact' = "open" /\ UNCHANGED <<store, saved>>
    BY <1>1 DEF CreateRun
  <2>6. host' = [host EXCEPT ![w] = h]
    BY <1>1, <2>1 DEF CreateRun
  <2>7. Calm(h) /\ SoundPlace(h.command, inbox)
    BY <2>2 DEF Calm, SoundPlace
  <2> QED BY <2>3, <2>4, <2>5, <2>6, <2>7 DEF WorkerStep, Arrives, Commits, Keeps
<1>2. CASE Heartbeat(w)
  <2>1. host' = [host EXCEPT ![w] = host[w]]
    BY <1>0, <1>2 DEF Heartbeat
  <2>2. UNCHANGED <<artifact, store, emitted, sent, saved>>
    BY <1>2 DEF Heartbeat
  <2>3. WorkerStep(w, host[w])
    BY <1>0, <2>1, <2>2, InPlace
  <2> QED BY <2>3
<1>3. CASE Redrive(w)
  <2>1. PICK due \in DueSets(host[w].session) : host' = [host EXCEPT ![w] = Draining(@, due)]
    BY <1>3 DEF Redrive
  <2>2. PICK h : h = Draining(host[w], due)
    OBVIOUS
  <2>3. UNCHANGED <<artifact, store, emitted, sent, saved>> /\ OnLoop(w)
    BY <1>3 DEF Redrive
  <2>4. /\ ~host[w].draining /\ (~TaskedWait => host[w].taken = <<>>)
        /\ host[w].stage \in Looped
    BY <1>3, <2>3 DEF OnLoop, Redrive, HasLoop, Drives, Looped
  <2>5. /\ h \in HostRecords /\ SoundRecord(h, emitted, sent)
        /\ h.stage = host[w].stage /\ h.session = host[w].session
        /\ h.taken = host[w].taken /\ h.command = host[w].command /\ Held(h) = Held(host[w])
    BY <1>0, <2>2, <2>4, DrainingRecord
  <2>6. host' = [host EXCEPT ![w] = h]
    BY <2>1, <2>2
  <2>7. Live(h) = Live(host[w]) /\ Present(h) = Present(host[w]) /\ (~TaskedWait => Calm(h))
    BY <2>4, <2>5 DEF Live, Present, Calm
  <2>8. WorkerStep(w, h)
    BY <1>0, <2>3, <2>5, <2>6, <2>7, InPlace
  <2> QED BY <2>8
<1>4. CASE Crash(w)
  <2>1. PICK h : h = [Idle EXCEPT !.stage = "down"]
    OBVIOUS
  <2>2. /\ h.stage = "down" /\ h.session = NoCheckpoint /\ h.rest = NoRest /\ h.taken = <<>>
        /\ h.due = {} /\ h.command = <<>> /\ ~h.draining
    BY <2>1, IdleRecord DEF HostRecords
  <2>3. h \in HostRecords
    BY <2>1, IdleRecord DEF HostRecords, HostStages
  <2>4. SoundRecord(h, emitted', sent')
    BY <2>2, <2>3, EmptyRecord
  <2>5. UNCHANGED <<artifact, store, saved>> /\ host' = [host EXCEPT ![w] = h]
    BY <1>4, <2>1 DEF Crash
  <2>6. ~Live(h) /\ ~Present(h) /\ Calm(h) /\ SoundPlace(h.command, inbox)
    BY <2>2 DEF Live, Present, Calm, SoundPlace
  <2>7. WorkerStep(w, h)
    BY <2>3, <2>4, <2>5, <2>6, InPlace
  <2> QED BY <2>7
<1> QED BY <1>1, <1>2, <1>3, <1>4 DEF Watchdog

(* A record that is given up leaves nothing but the command it is at. *)
LEMMA GivenUp ==
    ASSUME HostSound, NEW w \in Workers, Present(host[w]), NEW outcome, GivesUp(w, outcome),
           outcome \in {artifact, "failed"}, UNCHANGED <<store, saved>>
    PROVE  \E h : WorkerStep(w, h)
<1>0. host[w].command \in CommandPlaces /\ SoundPlace(host[w].command, inbox)
  BY HostFacts, RecordFields
<1>1. PICK h : h = [Idle EXCEPT !.command = host[w].command]
  OBVIOUS
<1>2. /\ h.stage = "idle" /\ h.session = NoCheckpoint /\ h.rest = NoRest /\ h.taken = <<>>
      /\ h.due = {} /\ h.command = host[w].command /\ ~h.draining
  BY <1>1, IdleRecord DEF HostRecords
<1>3. h \in HostRecords
  BY <1>0, <1>1, IdleRecord DEF HostRecords
<1>4. SoundRecord(h, emitted', sent')
  BY <1>2, <1>3, EmptyRecord
<1>5. host' = [host EXCEPT ![w] = h] /\ artifact' = outcome
  BY <1>1 DEF GivesUp
<1>6. ~Live(h) /\ ~Present(h) /\ Calm(h)
  BY <1>2 DEF Live, Present, Calm
<1>7. Arrives(w, h) /\ Commits(w, h) /\ Keeps(w, h)
  BY <1>5, <1>6 DEF Arrives, Commits, Keeps
<1> QED BY <1>0, <1>2, <1>3, <1>4, <1>5, <1>7 DEF WorkerStep

(* A recovery, by the watchdog or for a starting worker or a client. *)
LEMMA RecoverySteps ==
    ASSUME HostSound, NEW w \in Workers, Recovery(w)
    PROVE  \E h : WorkerStep(w, h)
<1>0. /\ host \in [Workers -> HostRecords] /\ host[w] \in HostRecords
      /\ SoundRecord(host[w], emitted, sent) /\ SoundPlace(host[w].command, inbox)
      /\ host[w].session \in HostSessions /\ host[w].rest \in HostRests
      /\ store \in HostSessions /\ SoundSession(store, store.seen, emitted, sent)
      /\ artifact \in Directories
  BY HostFacts, RecordFields
<1>1. CASE Claim(w) \/ ResumeRun(w)
  <2>1. PICK claimed \in BOOLEAN : BeginResume(w, claimed)
    BY <1>1 DEF Claim, ResumeRun
  <2>2. PICK h : h = [host[w] EXCEPT !.stage = "resuming", !.claimed = claimed]
    OBVIOUS
  <2>3. /\ h.stage = "resuming" /\ h.session = host[w].session /\ h.rest = host[w].rest
        /\ h.taken = host[w].taken /\ h.due = host[w].due /\ h.command = host[w].command
        /\ h.draining = host[w].draining
    BY <1>0, <2>2 DEF HostRecords
  <2>4. h \in HostRecords
    BY <1>0, <2>2 DEF HostRecords, HostStages
  <2>5. /\ host[w].stage = "idle" /\ artifact' = artifact /\ artifact # "absent"
        /\ host' = [host EXCEPT ![w] = h] /\ UNCHANGED <<store, emitted, sent, saved>>
        /\ shared' \/ \A v \in Workers : ~(HasRun(v) \/ host[v].stage = "resuming")
    BY <2>1, <2>2 DEF BeginResume
  <2>6. shared' \/ \A v \in Workers : ~Present(host[v])
    BY <2>5 DEF Present, Live, HasRun, HasLoop, Drives
  <2>7. SoundRecord(h, emitted, sent)
    BY <1>0, <2>3, <2>5 DEF SoundRecord, KnownTo, Restoring, Requeueing, Looped
  <2>8. ~Live(h) /\ (Calm(host[w]) => Calm(h)) /\ SoundPlace(h.command, inbox)
    BY <1>0, <2>3 DEF Live, Calm
  <2>9. WorkerStep(w, h)
    BY <2>4, <2>5, <2>6, <2>7, <2>8 DEF WorkerStep, Arrives, Commits, Keeps
  <2> QED BY <2>9
<1>2. CASE ResumeFindsNothing(w) \/ LoadFails(w) \/ ResumeFails(w)
  <2>1. Present(host[w]) /\ UNCHANGED <<store, saved>>
    BY <1>2 DEF ResumeFindsNothing, LoadFails, ResumeFails, Present, Live
  <2>2. PICK outcome \in {artifact, "failed"} : GivesUp(w, outcome)
    BY <1>2 DEF ResumeFindsNothing, LoadFails, ResumeFails, Resumable
  <2> QED BY <2>1, <2>2, GivenUp
<1>3. CASE RegisterRecovered(w)
  <2>1. PICK t : t = [store EXCEPT !.queue = <<>>, !.seen = {}]
    OBVIOUS
  <2>2. PICK left : left = [queue |-> store.queue, seen |-> store.seen]
    OBVIOUS
  <2>3. /\ t.queue = <<>> /\ t.seen = {} /\ t.log = store.log /\ t.outbox = store.outbox
        /\ t.whole = store.whole /\ t \in HostSessions
    <3>1. <<>> \in Seq(Ids) /\ {} \in SUBSET Ids
      OBVIOUS
    <3> QED BY <1>0, <2>1, <3>1 DEF HostSessions
  <2>4. left.queue = store.queue /\ left.seen = store.seen /\ left \in HostRests
    BY <1>0, <2>2 DEF HostSessions, HostRests
  <2>5. PICK h : h = [host[w] EXCEPT !.stage = "building", !.session = t, !.rest = left]
    OBVIOUS
  <2>6. /\ h.stage = "building" /\ h.session = t /\ h.rest = left
        /\ h.taken = host[w].taken /\ h.due = host[w].due /\ h.command = host[w].command
        /\ h.draining = host[w].draining
    BY <1>0, <2>5 DEF HostRecords
  <2>7. h \in HostRecords
    BY <1>0, <2>3, <2>4, <2>5 DEF HostRecords, HostStages
  <2>8. /\ host[w].stage = "resuming" /\ artifact = "open"
        /\ UNCHANGED <<artifact, store, emitted, sent, saved>>
    BY <1>3 DEF RegisterRecovered, Resumable
  <2>9. host' = [host EXCEPT ![w] = h]
    BY <1>3, <2>1, <2>2, <2>5 DEF RegisterRecovered
  <2>10. host[w].taken = <<>> /\ ToSet(<<>>) = {}
    BY <1>0, <2>8 DEF SoundRecord, ToSet
  <2>11. KnownTo(h) = store.seen /\ EndedIn(t) = EndedIn(store)
    BY <2>3, <2>4, <2>6 DEF KnownTo, EndedIn
  <2>12. SoundSession(t, store.seen, emitted, sent)
    BY <1>0, <2>3, <2>10, <2>11 DEF SoundSession
  <2>13. ToSet(h.taken) \union ToSet(h.rest.queue) \subseteq Messages \union EndedIn(h.session)
    BY <1>0, <2>4, <2>6, <2>10, <2>11 DEF SoundSession
  <2>14. SoundRecord(h, emitted, sent)
    <3>1. host[w].due = {} /\ ~host[w].draining
      BY <1>0, <2>8 DEF SoundRecord, Looped
    <3>2. SoundSession(h.session, KnownTo(h), emitted, sent)
      BY <2>6, <2>11, <2>12
    <3> QED BY <2>3, <2>6, <2>10, <2>13, <3>1, <3>2
            DEF SoundRecord, Restoring, Requeueing
  <2>15. Kept(store) \subseteq Held(h)
    BY <2>3, <2>4, <2>6 DEF Kept, Held
  <2>16. Calm(h) /\ SoundPlace(h.command, inbox) /\ Present(host[w])
    BY <1>0, <2>6, <2>8, <2>10 DEF Calm, Present
  <2>17. Arrives(w, h) /\ Commits(w, h)
    BY <2>8, <2>16 DEF Arrives, Commits
  <2>18. Keeps(w, h)
    <3>1. h.session.whole => store.whole
      BY <2>3, <2>6
    <3> QED BY <2>8, <2>15, <2>16, <3>1, Zenon DEF Keeps
  <2>19. WorkerStep(w, h)
    BY <2>7, <2>8, <2>9, <2>14, <2>16, <2>17, <2>18 DEF WorkerStep
  <2> QED BY <2>19
<1>4. CASE AttachLoop(w)
  <2>1. PICK h : h = [host[w] EXCEPT !.stage = "attached"]
    OBVIOUS
  <2>2. /\ h.stage = "attached" /\ h.session = host[w].session /\ h.rest = host[w].rest
        /\ h.taken = host[w].taken /\ h.due = host[w].due /\ h.command = host[w].command
        /\ h.draining = host[w].draining
    BY <1>0, <2>1 DEF HostRecords
  <2>3. h \in HostRecords
    BY <1>0, <2>1 DEF HostRecords, HostStages
  <2>4. /\ host[w].stage = "building" /\ host' = [host EXCEPT ![w] = h]
        /\ UNCHANGED <<artifact, store, emitted, sent, saved>>
    BY <1>4, <2>1 DEF AttachLoop
  <2>5. /\ host[w].taken = <<>> /\ host[w].session.seen = {} /\ ~host[w].draining
        /\ host[w].due = {}
    BY <1>0, <2>4 DEF SoundRecord, Restoring, Looped
  <2>6. SoundRecord(h, emitted, sent) /\ Held(h) = Held(host[w])
    BY <1>0, <2>2, <2>3, <2>5, QuietRecord DEF Restoring, Requeueing
  <2>7. /\ Live(host[w]) /\ Present(host[w]) /\ Calm(h) /\ SoundPlace(h.command, inbox)
        /\ (h.session.whole => host[w].session.whole)
    BY <1>0, <2>2, <2>4, <2>5 DEF Live, Present, Calm
  <2>8. WorkerStep(w, h)
    BY <2>3, <2>4, <2>6, <2>7, InPlace
  <2> QED BY <2>8
<1>5. CASE RestoreSeenIds(w)
  <2>1. PICK t : t = [host[w].session EXCEPT !.seen = host[w].rest.seen]
    OBVIOUS
  <2>2. PICK left : left = [host[w].rest EXCEPT !.seen = {}]
    OBVIOUS
  <2>3. host[w].rest.seen \in SUBSET Ids
    BY <1>0 DEF HostRests
  <2>4. /\ t.queue = host[w].session.queue /\ t.seen = host[w].rest.seen
        /\ t.log = host[w].session.log /\ t.outbox = host[w].session.outbox
        /\ t.whole = host[w].session.whole /\ t \in HostSessions
    BY <1>0, <2>1, <2>3 DEF HostSessions
  <2>5. left.queue = host[w].rest.queue /\ left.seen = {} /\ left \in HostRests
    BY <1>0, <2>2 DEF HostRests
  <2>6. PICK h : h = [host[w] EXCEPT !.stage = "posting", !.session = t, !.rest = left]
    OBVIOUS
  <2>7. /\ h.stage = "posting" /\ h.session = t /\ h.rest = left
        /\ h.taken = host[w].taken /\ h.due = host[w].due /\ h.command = host[w].command
        /\ h.draining = host[w].draining
    BY <1>0, <2>6 DEF HostRecords
  <2>8. h \in HostRecords
    BY <1>0, <2>4, <2>5, <2>6 DEF HostRecords, HostStages
  <2>9. /\ host[w].stage = "attached" /\ UNCHANGED <<artifact, store, emitted, sent, saved>>
    BY <1>5 DEF RestoreSeenIds
  <2>10. host' = [host EXCEPT ![w] = h]
    <3>1. h = [host[w] EXCEPT !.stage = "posting", !.session.seen = host[w].rest.seen,
                              !.rest.seen = {}]
      BY <1>0, <2>1, <2>2, <2>6 DEF HostRecords
    <3> QED BY <1>5, <3>1 DEF RestoreSeenIds
  <2>11. host[w].taken = <<>> /\ host[w].session.seen = {}
    BY <1>0, <2>9 DEF SoundRecord, Restoring
  <2>12. KnownTo(h) = KnownTo(host[w]) /\ EndedIn(t) = EndedIn(host[w].session)
    BY <2>4, <2>5, <2>7, <2>11 DEF KnownTo, EndedIn
  <2>13. SoundSession(t, KnownTo(h), emitted, sent)
    <3>1. SoundSession(host[w].session, KnownTo(h), emitted, sent)
      BY <1>0, <2>12 DEF SoundRecord
    <3>2. t.seen \subseteq KnownTo(h)
      BY <2>7 DEF KnownTo
    <3> QED BY <2>4, <2>12, <3>1, <3>2 DEF SoundSession
  <2>14. SoundRecord(h, emitted, sent)
    BY <1>0, <2>4, <2>5, <2>7, <2>9, <2>11, <2>12, <2>13
       DEF SoundRecord, Restoring, Requeueing, Looped
  <2>15. Held(h) = Held(host[w])
    BY <2>4, <2>5, <2>7 DEF Held, Kept
  <2>16. /\ Live(host[w]) /\ Present(host[w]) /\ Calm(h) /\ SoundPlace(h.command, inbox)
         /\ (h.session.whole => host[w].session.whole)
    BY <1>0, <2>4, <2>7, <2>9, <2>11 DEF Live, Present, Calm
  <2>17. WorkerStep(w, h)
    BY <2>8, <2>9, <2>10, <2>14, <2>15, <2>16, InPlace
  <2> QED BY <2>17
<1>6. CASE RequeueMessage(w)
  <2>1. PICK id : id = Head(host[w].rest.queue)
    OBVIOUS
  <2>2. PICK q : q = Tail(host[w].rest.queue)
    OBVIOUS
  <2>3. /\ id \in Ids /\ q \in Seq(Ids) /\ host[w].rest.queue \in Seq(Ids)
        /\ ToSet(host[w].rest.queue) = ToSet(q) \union {id}
    <3>1. host[w].rest.queue \in Seq(Ids) /\ host[w].rest.queue # <<>>
      BY <1>0, <1>6 DEF HostRests, RequeueMessage
    <3>2. ToSet(host[w].rest.queue) = ToSet(q) \union {id}
      BY <2>1, <2>2, <3>1, ToSetTail
    <3> QED BY <2>1, <2>2, <3>1, <3>2
  <2>0. PICK s \in HostSessions : s = host[w].session
    BY <1>0
  <2>4. PICK t : t = Queued(s, id)
    OBVIOUS
  <2>5. PICK left : left = [host[w].rest EXCEPT !.queue = q]
    OBVIOUS
  <2>6. left.queue = q /\ left.seen = host[w].rest.seen /\ left \in HostRests
    BY <1>0, <2>3, <2>5 DEF HostRests
  <2>7. id \in Messages \union EndedIn(host[w].session)
    BY <1>0, <2>3 DEF SoundRecord
  <2>8. /\ t \in HostSessions /\ ToSet(t.queue) = ToSet(host[w].session.queue) \union {id}
        /\ t.log = host[w].session.log /\ t.seen = host[w].session.seen
        /\ t.outbox = host[w].session.outbox /\ t.whole = host[w].session.whole
        /\ EndedIn(t) = EndedIn(host[w].session)
    <3>1. /\ t \in HostSessions /\ ToSet(t.queue) = ToSet(s.queue) \union {id}
          /\ t.log = s.log /\ t.seen = s.seen /\ t.outbox = s.outbox /\ t.whole = s.whole
          /\ EndedIn(t) = EndedIn(s)
      <4>1. id \in Ids
        BY <2>3
      <4> QED BY <2>4, <4>1, QueuedSession
    <3> QED BY <2>0, <3>1
  <2>9. SoundSession(t, KnownTo(host[w]), emitted, sent)
    <3>1. SoundSession(s, KnownTo(host[w]), emitted, sent)
      BY <1>0, <2>0 DEF SoundRecord
    <3>2. id \in Queueable(s)
      BY <2>0, <2>7 DEF Queueable
    <3> QED BY <2>3, <2>4, <3>1, <3>2, QueuedSessionIsSound
  <2>10. PICK h : h = [host[w] EXCEPT !.session = t, !.rest = left]
    OBVIOUS
  <2>11. /\ h.stage = host[w].stage /\ h.session = t /\ h.rest = left
         /\ h.taken = host[w].taken /\ h.due = host[w].due /\ h.command = host[w].command
         /\ h.draining = host[w].draining
    BY <1>0, <2>10 DEF HostRecords
  <2>12. h \in HostRecords
    BY <1>0, <2>6, <2>8, <2>10 DEF HostRecords
  <2>13. /\ host[w].stage = "posting" /\ ~host[w].draining
         /\ UNCHANGED <<artifact, store, emitted, sent, saved>>
    BY <1>6 DEF RequeueMessage
  <2>14. host' = [host EXCEPT ![w] = h]
    <3>1. h = [host[w] EXCEPT !.session.queue = Append(@, Head(host[w].rest.queue)),
                              !.rest.queue = Tail(host[w].rest.queue)]
      BY <1>0, <2>0, <2>1, <2>2, <2>4, <2>5, <2>10 DEF HostRecords, Queued
    <3> QED BY <1>6, <3>1 DEF RequeueMessage
  <2>15. KnownTo(h) = KnownTo(host[w])
    BY <2>6, <2>8, <2>11 DEF KnownTo
  <2>16. SoundRecord(h, emitted, sent)
    <3>1. ToSet(h.taken) \union ToSet(h.rest.queue) \subseteq Messages \union EndedIn(h.session)
      BY <1>0, <2>3, <2>6, <2>8, <2>11 DEF SoundRecord
    <3>2. host[w].due = {} /\ host[w].rest.seen = {}
      BY <1>0, <2>13 DEF SoundRecord, Restoring
    <3> QED BY <1>0, <2>6, <2>8, <2>9, <2>11, <2>13, <2>15, <3>1, <3>2
            DEF SoundRecord, Restoring, Requeueing
  <2>17. Held(host[w]) \subseteq Held(h)
    BY <2>3, <2>6, <2>8, <2>11 DEF Held, Kept
  <2>18. /\ Live(host[w]) /\ Present(host[w]) /\ Calm(h) /\ SoundPlace(h.command, inbox)
         /\ (h.session.whole => host[w].session.whole)
    BY <1>0, <2>8, <2>11, <2>13 DEF Live, Present, Calm
  <2>19. WorkerStep(w, h)
    BY <2>12, <2>13, <2>14, <2>16, <2>17, <2>18, InPlace
  <2> QED BY <2>19
<1>7. CASE DriveRecovered(w)
  <2>1. PICK g : g = [host[w] EXCEPT !.stage = "parked", !.claimed = FALSE]
    OBVIOUS
  <2>2. /\ g.stage = "parked" /\ g.session = host[w].session /\ g.rest = host[w].rest
        /\ g.taken = host[w].taken /\ g.due = host[w].due /\ g.command = host[w].command
        /\ g.draining = host[w].draining
    BY <1>0, <2>1 DEF HostRecords
  <2>3. g \in HostRecords
    BY <1>0, <2>1 DEF HostRecords, HostStages
  <2>4. /\ host[w].stage = "posting" /\ ~host[w].draining /\ host[w].rest.queue = <<>>
        /\ Persist(w, g) /\ UNCHANGED <<artifact, emitted, sent, saved>>
    BY <1>7, <2>1 DEF DriveRecovered
  <2>5. host[w].taken = <<>> /\ host[w].rest.seen = {} /\ host[w].due = {}
    BY <1>0, <2>4 DEF SoundRecord, Restoring
  <2>6. SoundRecord(g, emitted, sent) /\ Held(g) = Held(host[w])
    BY <1>0, <2>2, <2>3, <2>4, <2>5, QuietRecord DEF Restoring
  <2>7. /\ g.stage \in Looped /\ Live(host[w]) /\ SoundPlace(g.command, inbox) /\ ~g.draining
        /\ g.taken = <<>> /\ (g.session.whole => host[w].session.whole)
    BY <1>0, <2>2, <2>4, <2>5 DEF Live, Looped
  <2>8. saved \in SUBSET Messages
    BY HostFacts
  <2> QED BY <2>3, <2>4, <2>6, <2>7, <2>8, Persisted
<1> QED BY <1>1, <1>2, <1>3, <1>4, <1>5, <1>6, <1>7 DEF Recovery

(* A message is enqueued; the answer is "queued" whether or not that is saved. *)
LEMMA EnqueueSteps ==
    ASSUME HostSound, NEW w \in Workers, NEW m \in Messages, NEW c \in CommandPlaces,
           SoundPlace(c, inbox), OnLoop(w), Enqueue(w, m, c),
           UNCHANGED <<artifact, emitted, sent>>
    PROVE  \E h : WorkerStep(w, h)
<1>0. /\ host[w] \in HostRecords /\ SoundRecord(host[w], emitted, sent)
      /\ saved \in SUBSET Messages /\ m \in Ids
  BY HostFacts DEF Ids
<1>1. PICK s \in HostSessions : s = host[w].session
  BY <1>0, RecordFields
<1>2. PICK t : t = Queued(s, m)
  OBVIOUS
<1>3. /\ t \in HostSessions /\ ToSet(t.queue) = ToSet(s.queue) \union {m}
      /\ t.log = s.log /\ t.seen = s.seen /\ t.outbox = s.outbox /\ t.whole = s.whole
      /\ EndedIn(t) = EndedIn(s)
  BY <1>0, <1>2, QueuedSession
<1>4. SoundSession(t, KnownTo(host[w]), emitted, sent)
  <2>1. SoundSession(s, KnownTo(host[w]), emitted, sent)
    BY <1>0, <1>1 DEF SoundRecord
  <2>2. m \in Queueable(s)
    BY DEF Queueable
  <2> QED BY <1>0, <1>2, <2>1, <2>2, QueuedSessionIsSound
<1>5. PICK g : g = [host[w] EXCEPT !.session = t, !.command = c]
  OBVIOUS
<1>6. /\ g.stage = host[w].stage /\ g.session = t /\ g.rest = host[w].rest
      /\ g.taken = host[w].taken /\ g.due = host[w].due /\ g.command = c
      /\ g.draining = host[w].draining
  BY <1>0, <1>5 DEF HostRecords
<1>7. g \in HostRecords
  BY <1>0, <1>3, <1>5 DEF HostRecords
<1>8. SoundRecord(g, emitted, sent)
  <2>1. KnownTo(g) = KnownTo(host[w])
    BY <1>1, <1>3, <1>6 DEF KnownTo
  <2>2. \A q \in g.due : g.session.outbox[q] \in {"pending", "retrying"}
    BY <1>0, <1>1, <1>3, <1>6 DEF SoundRecord
  <2>3. ToSet(g.taken) \union ToSet(g.rest.queue) \subseteq Messages \union EndedIn(g.session)
    BY <1>0, <1>1, <1>3, <1>6 DEF SoundRecord
  <2> QED BY <1>0, <1>1, <1>3, <1>4, <1>6, <2>1, <2>2, <2>3 DEF SoundRecord
<1>9. /\ Held(host[w]) \subseteq Held(g) /\ m \in Held(g)
      /\ (g.session.whole => host[w].session.whole)
  BY <1>1, <1>3, <1>6 DEF Held, Kept
<1>10. /\ ~g.draining /\ (~TaskedWait => g.taken = <<>>) /\ Live(host[w]) /\ Present(host[w])
       /\ Calm(g) /\ SoundPlace(g.command, inbox)
  BY <1>6 DEF OnLoop, HasRun, HasLoop, Drives, Live, Present, Calm
<1>11. g = [host[w] EXCEPT !.session.queue = Append(@, m), !.command = c]
  BY <1>1, <1>2, <1>5 DEF Queued
<1>12. CASE HasLoop(w) /\ Persist(w, g) /\ saved' = saved \union {m}
  <2>1. g.stage \in Looped
    BY <1>6, <1>12 DEF HasLoop, Drives, Looped
  <2>2. saved \subseteq saved' /\ saved' \subseteq (saved \union Held(g)) \intersect Messages
    BY <1>0, <1>9, <1>12
  <2> QED BY <1>7, <1>8, <1>9, <1>10, <1>12, <2>1, <2>2, Persisted
<1>13. CASE Unsaved(w, g) /\ UNCHANGED saved
  <2>1. host' = [host EXCEPT ![w] = g] /\ UNCHANGED <<artifact, store, emitted, sent, saved>>
    BY <1>13 DEF Unsaved
  <2>2. WorkerStep(w, g)
    BY <1>7, <1>8, <1>9, <1>10, <2>1, InPlace
  <2> QED BY <2>2
<1> QED BY <1>11, <1>12, <1>13 DEF Enqueue

(* The drive of a tracked run. *)
LEMMA DriveSteps ==
    ASSUME HostSound, NEW w \in Workers, Drive(w)
    PROVE  \E h : WorkerStep(w, h)
<1>0. /\ host \in [Workers -> HostRecords] /\ host[w] \in HostRecords
      /\ SoundRecord(host[w], emitted, sent) /\ SoundPlace(host[w].command, inbox)
      /\ host[w].command \in CommandPlaces /\ host[w].due \in SUBSET OutboxRequests
      /\ emitted \in Nat /\ artifact \in Directories
  BY HostFacts, RecordFields
<1>s. PICK s \in HostSessions : s = host[w].session
  BY <1>0, RecordFields
<1>k. SoundSession(s, KnownTo(host[w]), emitted, sent)
  BY <1>0, <1>s DEF SoundRecord
<1>1. CASE StartRun(w)
  <2>1. PICK h : h = [host[w] EXCEPT !.stage = "turn"]
    OBVIOUS
  <2>2. /\ h.stage = "turn" /\ h.session = host[w].session /\ h.rest = host[w].rest
        /\ h.taken = host[w].taken /\ h.due = host[w].due /\ h.command = host[w].command
        /\ h.draining = host[w].draining
    BY <1>0, <2>1 DEF HostRecords
  <2>3. h \in HostRecords
    BY <1>0, <2>1 DEF HostRecords, HostStages
  <2>4. /\ host[w].stage = "waiting" /\ host' = [host EXCEPT ![w] = h]
        /\ UNCHANGED <<artifact, store, emitted, sent, saved>>
    BY <1>1, <2>1 DEF StartRun
  <2>5. /\ host[w].taken = <<>> /\ ~host[w].draining /\ host[w].due = {}
        /\ host[w].rest.seen = {} /\ host[w].rest.queue = <<>>
    BY <1>0, <2>4 DEF SoundRecord, Restoring, Requeueing, Looped
  <2>6. SoundRecord(h, emitted, sent) /\ Held(h) = Held(host[w])
    BY <1>0, <2>2, <2>3, <2>5, QuietRecord DEF Restoring
  <2>7. /\ Live(host[w]) /\ Present(host[w]) /\ Calm(h) /\ SoundPlace(h.command, inbox)
        /\ (h.session.whole => host[w].session.whole)
    BY <1>0, <2>2, <2>4, <2>5 DEF Live, Present, Calm
  <2>8. WorkerStep(w, h)
    BY <2>3, <2>4, <2>6, <2>7, InPlace
  <2> QED BY <2>8
<1>2. CASE Dequeue(w)
  <2>1. PICK t : t = Dequeued(s)
    OBVIOUS
  <2>2. /\ s.queue # <<>> /\ host[w].taken = <<>> /\ host[w].stage = "parked"
        /\ ~host[w].draining /\ UNCHANGED <<artifact, store, emitted, sent, saved>>
    BY <1>2, <1>s DEF Dequeue, OnLoop
  <2>3. /\ t \in HostSessions /\ Head(s.queue) \in Ids
        /\ ToSet(s.queue) = ToSet(t.queue) \union {Head(s.queue)}
        /\ t.log = s.log /\ t.seen = s.seen /\ t.outbox = s.outbox /\ t.whole = s.whole
        /\ EndedIn(t) = EndedIn(s)
    BY <2>1, <2>2, DequeuedSession
  <2>4. SoundSession(t, KnownTo(host[w]), emitted, sent)
    BY <1>k, <2>1, <2>2, DequeuedSessionIsSound
  <2>5. PICK h : h = [host[w] EXCEPT !.taken = <<Head(s.queue)>>, !.session = t]
    OBVIOUS
  <2>6. /\ h.stage = host[w].stage /\ h.session = t /\ h.rest = host[w].rest
        /\ h.taken = <<Head(s.queue)>> /\ h.due = host[w].due
        /\ h.command = host[w].command /\ h.draining = host[w].draining
    BY <1>0, <2>5 DEF HostRecords
  <2>7. h \in HostRecords
    BY <1>0, <2>3, <2>5 DEF HostRecords
  <2>8. ToSet(h.taken) = {Head(s.queue)} /\ ToSet(host[w].taken) = {}
    BY <2>2, <2>6 DEF ToSet
  <2>9. SoundRecord(h, emitted, sent)
    <3>1. ToSet(h.taken) \union ToSet(h.rest.queue) \subseteq Messages \union EndedIn(h.session)
      <4>1. Head(s.queue) \in Messages \union EndedIn(s)
        BY <1>k, <2>3 DEF SoundSession
      <4>2. ToSet(host[w].rest.queue) \subseteq Messages \union EndedIn(s)
        BY <1>0, <1>s DEF SoundRecord
      <4> QED BY <2>3, <2>6, <2>8, <4>1, <4>2
    <3>2. KnownTo(h) = KnownTo(host[w])
      BY <1>s, <2>3, <2>6 DEF KnownTo
    <3>3. h.due = {}
      BY <1>0, <2>2, <2>6 DEF SoundRecord
    <3> QED BY <1>0, <1>s, <2>2, <2>3, <2>4, <2>6, <3>1, <3>2, <3>3 DEF SoundRecord, Restoring
  <2>10. host' = [host EXCEPT ![w] = h]
    <3>1. h = [host[w] EXCEPT !.taken = <<Head(host[w].session.queue)>>,
                              !.session = [host[w].session EXCEPT !.queue = Tail(@)]]
      BY <1>s, <2>1, <2>5 DEF Dequeued
    <3>2. [host[w] EXCEPT !.taken = <<Head(host[w].session.queue)>>].session = host[w].session
      BY <1>0 DEF HostRecords
    <3> QED BY <1>2, <3>1, <3>2 DEF Dequeue
  <2>11. Held(host[w]) \subseteq Held(h)
    BY <1>s, <2>3, <2>6, <2>8 DEF Held, Kept
  <2>12. /\ Live(host[w]) /\ Present(host[w]) /\ Calm(h) /\ SoundPlace(h.command, inbox)
         /\ (h.session.whole => host[w].session.whole)
    BY <1>0, <1>s, <2>2, <2>3, <2>6 DEF Live, Present, Calm
  <2>13. WorkerStep(w, h)
    BY <2>2, <2>7, <2>9, <2>10, <2>11, <2>12, InPlace
  <2> QED BY <2>13
<1>3. CASE TakeMessage(w)
  <2>1. PICK id \in Ids : host[w].taken = <<id>>
    BY <1>0, <1>3 DEF TakeMessage, HostRecords
  <2>2. Head(host[w].taken) = id /\ ToSet(host[w].taken) = {id}
    BY <2>1 DEF ToSet
  <2>3. PICK t : t = Received(s, id).session
    OBVIOUS
  <2>4. PICK stage : stage = Received(s, id).stage
    OBVIOUS
  <2>5. /\ Drives(w) /\ ~host[w].draining /\ UNCHANGED <<artifact, store, emitted, sent, saved>>
        /\ host' = [host EXCEPT ![w] = [@ EXCEPT !.session = t, !.stage = stage, !.taken = <<>>]]
    BY <1>3, <1>s, <2>2, <2>3, <2>4 DEF TakeMessage
  <2>6. /\ host[w].rest.seen = {} /\ host[w].rest.queue = <<>> /\ host[w].due = {}
        /\ KnownTo(host[w]) = s.seen
    BY <1>0, <1>s, <2>5 DEF SoundRecord, Drives, Restoring, Requeueing, KnownTo
  <2>7. id \in Queueable(s)
    BY <1>0, <1>s, <2>2 DEF SoundRecord, Queueable
  <2>8. /\ t \in HostSessions /\ SoundSession(t, t.seen, emitted, sent)
        /\ t.queue = s.queue /\ t.outbox = s.outbox /\ t.whole = s.whole
        /\ EndedIn(t) = EndedIn(s) /\ ToSet(s.log) \union {id} \subseteq ToSet(t.log)
        /\ stage \in {"turn", "parked"}
    <3>1. SoundSession(s, s.seen, emitted, sent)
      BY <1>k, <2>6
    <3>2. /\ t \in HostSessions /\ SoundSession(t, t.seen, emitted, sent)
          /\ t.queue = s.queue /\ t.outbox = s.outbox /\ t.whole = s.whole
          /\ EndedIn(t) = EndedIn(s) /\ ToSet(s.log) \union {id} \subseteq ToSet(t.log)
      BY <2>3, <2>7, <3>1, ReceivedSession
    <3>3. Received(s, id).stage \in {"turn", "parked"}
      BY DEF Received
    <3> QED BY <2>4, <3>2, <3>3
  <2>9. PICK h : h = [host[w] EXCEPT !.session = t, !.stage = stage, !.taken = <<>>]
    OBVIOUS
  <2>10. /\ h.stage = stage /\ h.session = t /\ h.rest = host[w].rest /\ h.taken = <<>>
         /\ h.due = host[w].due /\ h.command = host[w].command /\ h.draining = host[w].draining
    BY <1>0, <2>9 DEF HostRecords
  <2>11. h \in HostRecords
    BY <1>0, <2>8, <2>9 DEF HostRecords, HostStages
  <2>12. ToSet(<<>>) = {}
    BY DEF ToSet
  <2>13. SoundRecord(h, emitted, sent)
    <3>1. KnownTo(h) = t.seen
      BY <2>6, <2>10 DEF KnownTo
    <3> QED BY <2>5, <2>6, <2>8, <2>10, <2>12, <3>1 DEF SoundRecord, Restoring
  <2>14. Held(host[w]) \subseteq Held(h)
    BY <1>s, <2>2, <2>8, <2>10 DEF Held, Kept
  <2>15. /\ Live(host[w]) /\ Present(host[w]) /\ Calm(h) /\ SoundPlace(h.command, inbox)
         /\ (h.session.whole => host[w].session.whole)
    BY <1>0, <1>s, <2>5, <2>8, <2>10 DEF Live, Present, Calm, Drives
  <2>16. host' = [host EXCEPT ![w] = h]
    BY <2>5, <2>9
  <2>17. WorkerStep(w, h)
    BY <2>5, <2>11, <2>13, <2>14, <2>15, <2>16, InPlace
  <2> QED BY <2>17
<1>4. CASE StageRequest(w)
  <2>1. emitted' = emitted + 1 /\ emitted + 1 \in OutboxRequests
    BY <1>0, <1>4, HostBoundsAssumption DEF StageRequest, OutboxRequests
  <2>2. PICK t : t = [s EXCEPT !.outbox[emitted + 1] = "pending"]
    OBVIOUS
  <2>3. /\ t \in HostSessions /\ SoundSession(t, KnownTo(host[w]), emitted + 1, sent)
        /\ t.queue = s.queue /\ t.log = s.log /\ t.seen = s.seen /\ t.whole = s.whole
        /\ EndedIn(t) = EndedIn(s)
    BY <1>0, <1>k, <2>1, <2>2, StagedSession
  <2>4. PICK h : h = [host[w] EXCEPT !.session = t]
    OBVIOUS
  <2>5. /\ h.stage = host[w].stage /\ h.session = t /\ h.rest = host[w].rest
        /\ h.taken = host[w].taken /\ h.due = host[w].due
        /\ h.command = host[w].command /\ h.draining = host[w].draining
    BY <1>0, <2>4 DEF HostRecords
  <2>6. h \in HostRecords
    BY <1>0, <2>3, <2>4 DEF HostRecords
  <2>7. /\ ~host[w].draining /\ host[w].stage = "turn"
        /\ UNCHANGED <<artifact, store, sent, saved>> /\ host' = [host EXCEPT ![w] = h]
    BY <1>4, <1>s, <2>1, <2>2, <2>4 DEF StageRequest, OnLoop
  <2>8. SoundRecord(h, emitted', sent)
    <3>1. KnownTo(h) = KnownTo(host[w])
      BY <1>s, <2>3, <2>5 DEF KnownTo
    <3>2. h.due = {}
      BY <1>0, <2>5, <2>7 DEF SoundRecord
    <3>3. ToSet(h.taken) \union ToSet(h.rest.queue) \subseteq Messages \union EndedIn(h.session)
      BY <1>0, <1>s, <2>3, <2>5 DEF SoundRecord
    <3> QED BY <1>0, <1>s, <2>1, <2>3, <2>5, <2>7, <3>1, <3>2, <3>3 DEF SoundRecord, Restoring
  <2>9. Held(h) = Held(host[w])
    BY <1>s, <2>3, <2>5 DEF Held, Kept
  <2>10. /\ Live(host[w]) /\ Present(host[w]) /\ Calm(h) /\ SoundPlace(h.command, inbox)
         /\ (h.session.whole => host[w].session.whole)
    BY <1>0, <1>s, <2>3, <2>5, <2>7 DEF Live, Present, Calm
  <2>11. WorkerStep(w, h)
    BY <2>6, <2>7, <2>8, <2>9, <2>10, InPlace
  <2> QED BY <2>11
<1>5. CASE Settle(w)
  <2>1. PICK g : g = [host[w] EXCEPT !.stage = "parked"]
    OBVIOUS
  <2>2. /\ g.stage = "parked" /\ g.session = host[w].session /\ g.rest = host[w].rest
        /\ g.taken = host[w].taken /\ g.due = host[w].due /\ g.command = host[w].command
        /\ g.draining = host[w].draining
    BY <1>0, <2>1 DEF HostRecords
  <2>3. g \in HostRecords
    BY <1>0, <2>1 DEF HostRecords, HostStages
  <2>4. /\ host[w].stage = "turn" /\ ~host[w].draining /\ (~TaskedWait => host[w].taken = <<>>)
        /\ Persist(w, g) /\ UNCHANGED <<artifact, emitted, sent, saved>>
    BY <1>5, <2>1 DEF Settle, OnLoop
  <2>5. host[w].rest.seen = {} /\ host[w].rest.queue = <<>> /\ host[w].due = {}
    BY <1>0, <2>4 DEF SoundRecord, Restoring, Requeueing
  <2>6. SoundRecord(g, emitted, sent) /\ Held(g) = Held(host[w])
    BY <1>0, <2>2, <2>3, <2>4, <2>5, QuietRecord DEF Restoring
  <2>7. /\ g.stage \in Looped /\ Live(host[w]) /\ SoundPlace(g.command, inbox) /\ ~g.draining
        /\ (~TaskedWait => g.taken = <<>>) /\ (g.session.whole => host[w].session.whole)
    BY <1>0, <2>2, <2>4 DEF Live, Looped
  <2>8. saved \in SUBSET Messages
    BY HostFacts
  <2> QED BY <2>3, <2>4, <2>6, <2>7, <2>8, Persisted
<1>6. CASE EndSession(w) \/ FailRun(w)
  <2>1. PICK h : \/ EndSession(w) /\ h = [host[w] EXCEPT !.stage = "done"]
                 \/ FailRun(w) /\ h = [host[w] EXCEPT !.stage = "done", !.draining = FALSE,
                                                      !.due = {}]
    BY <1>6
  <2>2. /\ h.stage = "done" /\ h.session = host[w].session /\ h.rest = host[w].rest
        /\ h.taken = host[w].taken /\ h.command = host[w].command
    BY <1>0, <2>1 DEF HostRecords
  <2>3. h \in HostRecords
    <3>1. "done" \in HostStages /\ {} \in SUBSET OutboxRequests
      BY DEF HostStages
    <3> QED BY <1>0, <2>1, <3>1 DEF HostRecords
  <2>4. ~h.draining /\ h.due = {}
    <3>1. CASE EndSession(w) /\ h = [host[w] EXCEPT !.stage = "done"]
      <4>1. ~host[w].draining /\ host[w].due = {}
        BY <1>0, <3>1 DEF EndSession, OnLoop, SoundRecord
      <4> QED BY <1>0, <3>1, <4>1 DEF HostRecords
    <3>2. CASE h = [host[w] EXCEPT !.stage = "done", !.draining = FALSE, !.due = {}]
      BY <1>0, <3>2 DEF HostRecords
    <3> QED BY <2>1, <3>1, <3>2
  <2>5. /\ Present(host[w]) /\ artifact' \in {"closed", "failed"}
        /\ host' = [host EXCEPT ![w] = h] /\ UNCHANGED <<store, emitted, sent, saved>>
        /\ host[w].stage \in {"waiting", "turn", "parked"}
    BY <2>1 DEF EndSession, FailRun, Present, Live, Drives
  <2>6. host[w].rest.seen = {} /\ host[w].rest.queue = <<>>
    BY <1>0, <2>5 DEF SoundRecord, Restoring, Requeueing
  <2>7. SoundRecord(h, emitted, sent)
    BY <1>0, <2>2, <2>3, <2>4, <2>6, QuietRecord DEF Restoring
  <2>8. ~Live(h) /\ ~Present(h) /\ Calm(h) /\ SoundPlace(h.command, inbox)
    BY <1>0, <2>2, <2>4 DEF Live, Present, Calm
  <2>9. Arrives(w, h) /\ Commits(w, h) /\ Keeps(w, h)
    BY <2>5, <2>8 DEF Arrives, Commits, Keeps
  <2>10. WorkerStep(w, h)
    BY <2>3, <2>5, <2>7, <2>8, <2>9 DEF WorkerStep
  <2> QED BY <2>10
<1>7. CASE SendRequest(w)
  <2>1. PICK r : r = Min(host[w].due)
    OBVIOUS
  <2>2. r \in host[w].due /\ r \in OutboxRequests /\ s.outbox[r] \in {"pending", "retrying"}
    <3>1. host[w].due \in SUBSET (1 .. MaxRequests) /\ host[w].due # {}
      BY <1>0, <1>7 DEF SendRequest, OutboxRequests
    <3>2. r \in host[w].due
      BY <2>1, <3>1, MinInSet, HostBoundsAssumption
    <3>3. s.outbox[r] \in {"pending", "retrying"}
      BY <1>0, <1>s, <3>2 DEF SoundRecord
    <3> QED BY <3>1, <3>2, <3>3 DEF OutboxRequests
  <2>3. PICK outcome \in {"dispatched", "failed", "retrying"} :
           host' = [host EXCEPT ![w] = [host[w] EXCEPT !.session = Recorded(@, r, outcome),
                                                       !.due = @ \ {r}]]
    BY <1>7, <2>1 DEF SendRequest
  <2>4. PICK t : t = Recorded(s, r, outcome)
    OBVIOUS
  <2>5. /\ t \in HostSessions /\ SoundSession(t, KnownTo(host[w]), emitted, sent \union {r})
        /\ ToSet(s.queue) \subseteq ToSet(t.queue) /\ t.log = s.log
        /\ t.seen = s.seen /\ t.whole = s.whole /\ EndedIn(s) \subseteq EndedIn(t)
        /\ \A q \in OutboxRequests : q # r => t.outbox[q] = s.outbox[q]
    <3>1. PICK known : known = KnownTo(host[w])
      OBVIOUS
    <3>2. PICK y : y = sent \union {r}
      OBVIOUS
    <3>3. emitted \in Nat /\ SoundSession(s, known, emitted, sent)
      BY <1>0, <1>k, <3>1
    <3>4. /\ t \in HostSessions /\ SoundSession(t, known, emitted, y)
          /\ ToSet(s.queue) \subseteq ToSet(t.queue) /\ t.log = s.log
          /\ t.seen = s.seen /\ t.whole = s.whole /\ EndedIn(s) \subseteq EndedIn(t)
          /\ \A q \in OutboxRequests : q # r => t.outbox[q] = s.outbox[q]
      <4>1. sent \subseteq y /\ r \in y
        BY <3>2
      <4>2. r \in Unsent(s) /\ outcome \in SendOutcomes
        BY <2>2 DEF Unsent, SendOutcomes
      <4> QED BY <2>4, <3>3, <4>1, <4>2, RecordedSession
    <3> QED BY <3>1, <3>2, <3>4
  <2>6. PICK h : h = [host[w] EXCEPT !.session = t, !.due = host[w].due \ {r}]
    OBVIOUS
  <2>7. /\ h.stage = host[w].stage /\ h.session = t /\ h.rest = host[w].rest
        /\ h.taken = host[w].taken /\ h.due = host[w].due \ {r}
        /\ h.command = host[w].command /\ h.draining = host[w].draining
    BY <1>0, <2>6 DEF HostRecords
  <2>8. h \in HostRecords
    <3>1. host[w].due \ {r} \in SUBSET OutboxRequests
      BY <1>0
    <3> QED BY <1>0, <2>5, <2>6, <3>1 DEF HostRecords
  <2>9. /\ HasLoop(w) /\ sent' = sent \union {r}
        /\ UNCHANGED <<artifact, store, emitted, saved>>
    BY <1>7, <2>1 DEF SendRequest
  <2>10. host' = [host EXCEPT ![w] = h]
    <3>1. h = [host[w] EXCEPT !.session = Recorded(@, r, outcome), !.due = @ \ {r}]
      BY <1>0, <1>s, <2>4, <2>6 DEF HostRecords
    <3> QED BY <2>3, <3>1
  <2>11. SoundRecord(h, emitted, sent \union {r})
    <3>1. KnownTo(h) = KnownTo(host[w])
      BY <1>s, <2>5, <2>7 DEF KnownTo
    <3>2. \A q \in h.due : h.session.outbox[q] \in {"pending", "retrying"}
      BY <1>0, <1>s, <2>5, <2>7 DEF SoundRecord
    <3>3. ToSet(h.taken) \union ToSet(h.rest.queue) \subseteq Messages \union EndedIn(h.session)
      BY <1>0, <1>s, <2>5, <2>7 DEF SoundRecord
    <3>4. IF h.draining THEN h.stage \in Looped ELSE h.due = {}
      BY <1>0, <2>7 DEF SoundRecord
    <3> QED BY <1>0, <1>s, <2>5, <2>7, <3>1, <3>2, <3>3, <3>4 DEF SoundRecord
  <2>12. Held(host[w]) \subseteq Held(h)
    BY <1>s, <2>5, <2>7 DEF Held, Kept
  <2>13. /\ Live(host[w]) /\ Present(host[w]) /\ (Calm(host[w]) => Calm(h))
         /\ SoundPlace(h.command, inbox) /\ (h.session.whole => host[w].session.whole)
    BY <1>0, <1>s, <2>5, <2>7, <2>9 DEF Live, Present, Calm, HasLoop, Drives
  <2>14. WorkerStep(w, h)
    BY <2>8, <2>9, <2>10, <2>11, <2>12, <2>13, InPlace
  <2> QED BY <2>14
<1>8. CASE DrainCommits(w)
  <2>1. PICK h : h = [host[w] EXCEPT !.draining = FALSE]
    OBVIOUS
  <2>2. /\ h.stage = host[w].stage /\ h.session = host[w].session /\ h.rest = host[w].rest
        /\ h.taken = host[w].taken /\ h.due = host[w].due /\ h.command = host[w].command
        /\ ~h.draining
    BY <1>0, <2>1 DEF HostRecords
  <2>3. h \in HostRecords
    BY <1>0, <2>1 DEF HostRecords
  <2>4. /\ HasLoop(w) /\ host[w].draining /\ host[w].due = {}
        /\ host' = [host EXCEPT ![w] = h] /\ UNCHANGED <<artifact, emitted, sent, saved>>
        /\ Commit(host[w]) \/ UNCHANGED store
    BY <1>8, <2>1 DEF DrainCommits
  <2>5. SoundRecord(h, emitted, sent) /\ Held(h) = Held(host[w])
    <3>1. /\ h.stage \notin Restoring => host[w].rest.seen = {}
          /\ h.stage \in Restoring => host[w].session.seen = {}
          /\ h.stage \notin Requeueing => host[w].rest.queue = <<>>
          /\ host[w].taken # <<>> => h.stage \in {"turn", "parked", "done"}
      BY <1>0, <2>2 DEF SoundRecord
    <3>2. h.due = {}
      BY <2>2, <2>4
    <3> QED BY <1>0, <2>2, <2>3, <3>1, <3>2, QuietRecord
  <2>6. Image(h) = Image(host[w])
    BY <2>2 DEF Image
  <2>7. /\ Live(host[w]) /\ Present(host[w]) /\ Calm(h) /\ SoundPlace(h.command, inbox)
        /\ h.stage \in Looped /\ (h.session.whole => host[w].session.whole)
        /\ (Calm(host[w]) => h.taken = <<>>)
    BY <1>0, <2>2, <2>4 DEF Live, Present, Calm, HasLoop, Drives, Looped
  <2>8. CASE UNCHANGED store
    <3>1. WorkerStep(w, h)
      BY <2>3, <2>4, <2>5, <2>7, <2>8, InPlace
    <3> QED BY <3>1
  <2>9. CASE Commit(host[w])
    <3>1. store' = Image(h) \/ (shared /\ store' = store)
      BY <2>6, <2>9 DEF Commit
    <3>2. saved \subseteq saved' /\ saved' \subseteq (saved \union Held(h)) \intersect Messages
      BY <2>4, HostFacts
    <3>3. WorkerStep(w, h)
      BY <2>3, <2>4, <2>5, <2>7, <3>1, <3>2, Committed
    <3> QED BY <3>3
  <2> QED BY <2>4, <2>8, <2>9
<1>9. ASSUME NEW m \in Messages, SendMessage(w, m) PROVE \E h : WorkerStep(w, h)
  BY <1>0, <1>9, EnqueueSteps DEF SendMessage
<1> QED BY <1>1, <1>2, <1>3, <1>4, <1>5, <1>6, <1>7, <1>8, <1>9 DEF Drive

(* The command a worker is at is one of the inbox. *)
LEMMA CommandFound ==
    ASSUME HostSound, NEW w \in Workers, host[w].command # <<>>
    PROVE  /\ host[w].command[1] \in Nat /\ host[w].command[2] \in CommandAnswers
           /\ host[w].command = <<host[w].command[1], host[w].command[2]>>
           /\ host[w].command[1] \in DOMAIN inbox
           /\ inbox[host[w].command[1]] \in CommandRecords
           /\ inbox[host[w].command[1]].id \in Messages
<1>1. /\ host[w].command \in CommandPlaces /\ SoundPlace(host[w].command, inbox)
      /\ inbox \in Seq(CommandRecords)
  BY HostFacts, RecordFields
<1>2. host[w].command \in Nat \X CommandAnswers
  BY <1>1 DEF CommandPlaces
<1>3. host[w].command[1] \in DOMAIN inbox
  BY <1>1 DEF SoundPlace
<1>4. inbox[host[w].command[1]] \in CommandRecords
  BY <1>1, <1>3
<1> QED BY <1>2, <1>3, <1>4 DEF CommandRecords

(* A worker turns to a command, answers it or is done with it. *)
LEMMA AtCommand ==
    ASSUME HostSound, NEW w \in Workers, NEW c \in CommandPlaces, SoundPlace(c, inbox),
           host' = [host EXCEPT ![w].command = c],
           UNCHANGED <<artifact, store, emitted, sent, saved>>
    PROVE  \E h : WorkerStep(w, h)
<1>0. host[w] \in HostRecords /\ SoundRecord(host[w], emitted, sent)
  BY HostFacts
<1>1. PICK h : h = [host[w] EXCEPT !.command = c]
  OBVIOUS
<1>2. /\ h.stage = host[w].stage /\ h.session = host[w].session /\ h.rest = host[w].rest
      /\ h.taken = host[w].taken /\ h.due = host[w].due /\ h.command = c
      /\ h.draining = host[w].draining
  BY <1>0, <1>1 DEF HostRecords
<1>3. h \in HostRecords
  BY <1>0, <1>1 DEF HostRecords
<1>4. SoundRecord(h, emitted, sent) /\ Held(h) = Held(host[w])
  <2>1. /\ h.stage \notin Restoring => host[w].rest.seen = {}
        /\ h.stage \in Restoring => host[w].session.seen = {}
        /\ h.stage \notin Requeueing => host[w].rest.queue = <<>>
        /\ host[w].taken # <<>> => h.stage \in {"turn", "parked", "done"}
        /\ IF h.draining THEN h.stage \in Looped ELSE h.due = {}
        /\ \A q \in h.due : h.session.outbox[q] \in {"pending", "retrying"}
    BY <1>0, <1>2 DEF SoundRecord
  <2> QED BY <1>0, <1>2, <1>3, <2>1, QuietRecord
<1>5. /\ Present(h) => Present(host[w])
      /\ Live(h) => Live(host[w])
      /\ Calm(host[w]) => Calm(h)
      /\ SoundPlace(h.command, inbox) /\ (h.session.whole => host[w].session.whole)
  BY <1>2 DEF Live, Present, Calm
<1>6. host' = [host EXCEPT ![w] = h]
  BY <1>1
<1>7. WorkerStep(w, h)
  BY <1>3, <1>4, <1>5, <1>6, InPlace
<1> QED BY <1>7

(* The commands of the inbox. *)
LEMMA CommandSteps ==
    ASSUME HostSound, NEW w \in Workers, Commands(w)
    PROVE  \E h : WorkerStep(w, h)
<1>1. CASE ClaimCommand(w)
  <2>1. PICK i \in DOMAIN inbox : host' = [host EXCEPT ![w].command = <<i, "none">>]
    BY <1>1 DEF ClaimCommand
  <2>2. PICK c : c = <<i, "none">>
    OBVIOUS
  <2>3. i \in Nat
    BY HostFacts
  <2>4. c \in CommandPlaces /\ SoundPlace(c, inbox)
    BY <2>2, <2>3 DEF CommandPlaces, CommandAnswers, SoundPlace
  <2>5. UNCHANGED <<artifact, store, emitted, sent, saved>>
    BY <1>1 DEF ClaimCommand
  <2> QED BY <2>1, <2>2, <2>4, <2>5, AtCommand
<1>2. CASE ExecuteCommand(w)
  <2>1. PICK i \in Nat : i = host[w].command[1]
    BY <1>2, CommandFound DEF ExecuteCommand, Executing
  <2>2. PICK m \in Messages : m = inbox[i].id
    BY <1>2, <2>1, CommandFound DEF ExecuteCommand, Executing
  <2>3. PICK c : c = <<i, "completed">>
    OBVIOUS
  <2>4. /\ i \in DOMAIN inbox /\ host[w].command = <<i, host[w].command[2]>>
    BY <1>2, <2>1, CommandFound DEF ExecuteCommand, Executing
  <2>5. c \in CommandPlaces /\ SoundPlace(c, inbox)
    BY <2>3, <2>4 DEF CommandPlaces, CommandAnswers, SoundPlace
  <2>6. OnLoop(w) /\ UNCHANGED <<artifact, emitted, sent>>
    BY <1>2 DEF ExecuteCommand
  <2>7. \/ Enqueue(w, m, c)
        \/ host' = [host EXCEPT ![w].command[2] = "completed"] /\ UNCHANGED <<store, saved>>
    BY <1>2, <2>1, <2>2, <2>3 DEF ExecuteCommand
  <2>8. CASE Enqueue(w, m, c)
    BY <2>5, <2>6, <2>8, EnqueueSteps
  <2>9. CASE host' = [host EXCEPT ![w].command[2] = "completed"] /\ UNCHANGED <<store, saved>>
    <3>1. [host[w].command EXCEPT ![2] = "completed"] = c
      BY <2>3, <2>4
    <3>2. host' = [host EXCEPT ![w].command = c]
      BY <2>9, <3>1
    <3> QED BY <2>5, <2>6, <2>9, <3>2, AtCommand
  <2> QED BY <2>7, <2>8, <2>9
<1>3. CASE RefuseCommand(w)
  <2>1. PICK i \in Nat : i = host[w].command[1]
    BY <1>3, CommandFound DEF RefuseCommand, Executing
  <2>2. PICK c : c = <<i, "failed">>
    OBVIOUS
  <2>3. i \in DOMAIN inbox /\ host[w].command = <<i, host[w].command[2]>>
    BY <1>3, <2>1, CommandFound DEF RefuseCommand, Executing
  <2>4. c \in CommandPlaces /\ SoundPlace(c, inbox)
    BY <2>2, <2>3 DEF CommandPlaces, CommandAnswers, SoundPlace
  <2>5. [host[w].command EXCEPT ![2] = "failed"] = c
    BY <2>2, <2>3
  <2>6. host' = [host EXCEPT ![w].command = c]
    BY <1>3, <2>5 DEF RefuseCommand
  <2>7. UNCHANGED <<artifact, store, emitted, sent, saved>>
    BY <1>3 DEF RefuseCommand
  <2> QED BY <2>4, <2>6, <2>7, AtCommand
<1>4. CASE AcknowledgeCommand(w)
  <2>1. PICK c : c = <<>>
    OBVIOUS
  <2>2. c \in CommandPlaces /\ SoundPlace(c, inbox)
    BY <2>1 DEF CommandPlaces, SoundPlace
  <2>3. host' = [host EXCEPT ![w].command = c] /\ UNCHANGED <<artifact, store, emitted, sent, saved>>
    BY <1>4, <2>1 DEF AcknowledgeCommand
  <2> QED BY <2>2, <2>3, AtCommand
<1> QED BY <1>1, <1>2, <1>3, <1>4 DEF Commands

-----------------------------------------------------------------------------
(* What changes around the records *)

(* A command of the inbox is marked. *)
LEMMA MarkedInbox ==
    ASSUME HostSound, NEW i \in DOMAIN inbox, NEW c \in CommandRecords,
           inbox' = [inbox EXCEPT ![i] = c]
    PROVE  inbox' \in Seq(CommandRecords) /\ DOMAIN inbox \subseteq DOMAIN inbox'
<1>1. inbox \in Seq(CommandRecords)
  BY DEF HostSound, HostTypes
<1>2. i \in 1 .. Len(inbox)
  BY <1>1
<1> QED BY <1>1, <1>2, ExceptSeq

(* No step of a worker takes anything back. *)
LEMMA StepsGrow ==
    ASSUME HostSound, NEW w \in Workers,
           Watchdog(w) \/ Recovery(w) \/ Drive(w) \/ Commands(w)
    PROVE  Grows
<1>0. /\ lease \in {"fresh", "stale"} /\ artifact \in Directories /\ failures \in Nat
      /\ emitted \in 0 .. MaxRequests /\ emitted \in Nat /\ MaxRequests \in Nat
      /\ sent \in SUBSET OutboxRequests /\ shared \in BOOLEAN /\ inbox \in Seq(CommandRecords)
  BY HostBoundsAssumption DEF HostSound, HostTypes
<1>1. CASE UNCHANGED <<emitted, sent, inbox>>
  <2>1. lease' \in {"fresh", "stale"} /\ artifact' \in Directories /\ failures' \in Nat
    <3>1. CASE Watchdog(w)
      BY <1>0, <3>1 DEF Watchdog, CreateRun, Heartbeat, Redrive, Crash, Directories
    <3>2. CASE Recovery(w)
      <4>1. CASE ResumeFails(w)
        BY <1>0, <4>1 DEF ResumeFails, GivesUp, Directories
      <4>2. CASE Claim(w) \/ ResumeRun(w)
        BY <1>0, <4>2 DEF Claim, ResumeRun, BeginResume
      <4>3. CASE ResumeFindsNothing(w) \/ LoadFails(w)
        BY <1>0, <4>3 DEF ResumeFindsNothing, LoadFails, GivesUp, Directories
      <4>4. CASE RegisterRecovered(w) \/ AttachLoop(w) \/ RestoreSeenIds(w) \/ RequeueMessage(w)
        BY <1>0, <4>4 DEF RegisterRecovered, AttachLoop, RestoreSeenIds, RequeueMessage
      <4>5. CASE DriveRecovered(w)
        BY <1>0, <4>5 DEF DriveRecovered
      <4> QED BY <3>2, <4>1, <4>2, <4>3, <4>4, <4>5 DEF Recovery
    <3>3. CASE Drive(w)
      <4>1. CASE EndSession(w) \/ FailRun(w)
        BY <1>0, <4>1 DEF EndSession, FailRun, Directories
      <4>2. CASE StartRun(w) \/ Dequeue(w) \/ TakeMessage(w) \/ StageRequest(w) \/ Settle(w)
        BY <1>0, <4>2 DEF StartRun, Dequeue, TakeMessage, StageRequest, Settle
      <4>3. CASE SendRequest(w) \/ DrainCommits(w) \/ \E m \in Messages : SendMessage(w, m)
        BY <1>0, <4>3 DEF SendRequest, DrainCommits, SendMessage
      <4> QED BY <3>3, <4>1, <4>2, <4>3 DEF Drive
    <3>4. CASE Commands(w)
      BY <1>0, <3>4 DEF Commands, ClaimCommand, ExecuteCommand, RefuseCommand, AcknowledgeCommand
    <3> QED BY <3>1, <3>2, <3>3, <3>4
  <2>2. shared' = shared \/ Claim(w) \/ ResumeRun(w)
    <3>1. CASE Watchdog(w)
      BY <3>1 DEF Watchdog, CreateRun, Heartbeat, Redrive, Crash
    <3>2. CASE Recovery(w)
      BY <3>2 DEF Recovery, ResumeFails, ResumeFindsNothing, LoadFails, RegisterRecovered,
                  AttachLoop, RestoreSeenIds, RequeueMessage, DriveRecovered
    <3>3. CASE Drive(w)
      BY <3>3 DEF Drive, EndSession, FailRun, StartRun, Dequeue, TakeMessage, StageRequest, Settle,
                  SendRequest, DrainCommits, SendMessage
    <3>4. CASE Commands(w)
      BY <3>4 DEF Commands, ClaimCommand, ExecuteCommand, RefuseCommand, AcknowledgeCommand
    <3> QED BY <3>1, <3>2, <3>3, <3>4
  <2>3. shared' \in BOOLEAN /\ (shared => shared')
    <3>1. CASE shared' = shared
      BY <1>0, <3>1
    <3>2. CASE shared' = (shared \/ \E v \in Workers : HasRun(v) \/ host[v].stage = "resuming")
      BY <3>2
    <3> QED BY <2>2, <3>1, <3>2 DEF Claim, ResumeRun, BeginResume
  <2>4. emitted' = emitted /\ sent' = sent /\ inbox' = inbox
    BY <1>1
  <2> QED BY <1>0, <2>1, <2>3, <2>4 DEF Grows
<1>2. CASE StageRequest(w)
  BY <1>0, <1>2 DEF StageRequest, Grows
<1>3. CASE SendRequest(w)
  <2>1. host[w].due \in SUBSET OutboxRequests /\ host[w].due # {}
    BY <1>3, HostFacts, RecordFields DEF SendRequest
  <2>2. Min(host[w].due) \in OutboxRequests
    BY <1>0, <2>1, MinInSet DEF OutboxRequests
  <2>3. /\ sent' = sent \union {Min(host[w].due)}
        /\ UNCHANGED <<lease, artifact, failures, inbox, emitted, shared>>
    BY <1>3 DEF SendRequest
  <2> QED BY <1>0, <2>2, <2>3 DEF Grows
<1>4. CASE ClaimCommand(w)
  <2>1. PICK i \in DOMAIN inbox :
           inbox' = [inbox EXCEPT ![i] = [@ EXCEPT !.status = "claimed", !.by = w, !.aged = FALSE]]
    BY <1>4 DEF ClaimCommand
  <2>2. PICK c : c = [inbox[i] EXCEPT !.status = "claimed", !.by = w, !.aged = FALSE]
    OBVIOUS
  <2>3. inbox[i] \in CommandRecords
    BY <1>0
  <2>4. c \in CommandRecords
    BY <2>2, <2>3 DEF CommandRecords
  <2>5. inbox' \in Seq(CommandRecords) /\ DOMAIN inbox \subseteq DOMAIN inbox'
    BY <2>1, <2>2, <2>4, MarkedInbox
  <2>6. UNCHANGED <<lease, artifact, failures, emitted, sent, shared>>
    BY <1>4 DEF ClaimCommand
  <2> QED BY <1>0, <2>5, <2>6 DEF Grows
<1>5. CASE AcknowledgeCommand(w)
  <2>1. PICK i : i = host[w].command[1]
    OBVIOUS
  <2>2. PICK answer : answer = host[w].command[2]
    OBVIOUS
  <2>3. i \in DOMAIN inbox /\ answer \in {"completed", "failed"} /\ inbox[i] \in CommandRecords
    BY <1>5, <2>1, <2>2, CommandFound DEF AcknowledgeCommand, Executing, CommandAnswers
  <2>4. PICK c : c = [inbox[i] EXCEPT !.status = answer]
    OBVIOUS
  <2>5. c \in CommandRecords
    BY <2>3, <2>4 DEF CommandRecords
  <2>6. inbox' = inbox \/ inbox' = [inbox EXCEPT ![i] = c]
    BY <1>5, <2>1, <2>2, <2>4 DEF AcknowledgeCommand
  <2>7. inbox' \in Seq(CommandRecords) /\ DOMAIN inbox \subseteq DOMAIN inbox'
    BY <1>0, <2>3, <2>5, <2>6, MarkedInbox
  <2>8. UNCHANGED <<lease, artifact, failures, emitted, sent, shared>>
    BY <1>5 DEF AcknowledgeCommand
  <2> QED BY <1>0, <2>7, <2>8 DEF Grows
<1>6. \/ UNCHANGED <<emitted, sent, inbox>> \/ StageRequest(w) \/ SendRequest(w)
      \/ ClaimCommand(w) \/ AcknowledgeCommand(w)
  <2>1. CASE Watchdog(w)
    BY <2>1 DEF Watchdog, CreateRun, Heartbeat, Redrive, Crash
  <2>2. CASE Recovery(w)
    BY <2>2 DEF Recovery, Claim, ResumeRun, BeginResume, ResumeFails, ResumeFindsNothing, LoadFails,
                RegisterRecovered, AttachLoop, RestoreSeenIds, RequeueMessage, DriveRecovered
  <2>3. CASE Drive(w)
    BY <2>3 DEF Drive, EndSession, FailRun, StartRun, Dequeue, TakeMessage, Settle, DrainCommits,
                SendMessage
  <2>4. CASE Commands(w)
    BY <2>4 DEF Commands, ExecuteCommand, RefuseCommand
  <2> QED BY <2>1, <2>2, <2>3, <2>4
<1> QED BY <1>1, <1>2, <1>3, <1>4, <1>5, <1>6

(* A step of a worker is described by the record it leaves. *)
LEMMA StepsOfWorkers ==
    ASSUME HostSound, NEW w \in Workers,
           Watchdog(w) \/ Recovery(w) \/ Drive(w) \/ Commands(w)
    PROVE  Grows /\ \E h : WorkerStep(w, h)
BY StepsGrow, WatchdogSteps, RecoverySteps, DriveSteps, CommandSteps

\* What is left to clients and to time: the records and what they wrote.
TimePasses ==
    /\ lease' \in {"fresh", "stale"}
    /\ inbox' \in Seq(CommandRecords) /\ DOMAIN inbox \subseteq DOMAIN inbox'
    /\ UNCHANGED <<artifact, failures, store, host, emitted, sent, saved, shared>>

(* Time passes, and clients append commands. *)
LEMMA ClientSteps ==
    ASSUME HostSound, LeaseAges \/ CommandAges \/ (\E m \in Messages : AppendCommand(m))
                         \/ UNCHANGED hostVars
    PROVE  TimePasses
<1>0. lease \in {"fresh", "stale"} /\ inbox \in Seq(CommandRecords)
  BY DEF HostSound, HostTypes
<1>1. CASE LeaseAges \/ UNCHANGED hostVars
  BY <1>0, <1>1 DEF LeaseAges, hostVars, TimePasses
<1>2. CASE CommandAges
  <2>1. PICK i \in DOMAIN inbox : inbox' = [inbox EXCEPT ![i].aged = TRUE]
    BY <1>2 DEF CommandAges
  <2>2. PICK c : c = [inbox[i] EXCEPT !.aged = TRUE]
    OBVIOUS
  <2>3. inbox[i] \in CommandRecords
    BY <1>0
  <2>4. c \in CommandRecords
    BY <2>2, <2>3 DEF CommandRecords
  <2>5. inbox' = [inbox EXCEPT ![i] = c]
    BY <2>1, <2>2
  <2>6. inbox' \in Seq(CommandRecords) /\ DOMAIN inbox \subseteq DOMAIN inbox'
    BY <2>4, <2>5, MarkedInbox
  <2>7. UNCHANGED <<lease, artifact, failures, store, host, emitted, sent, saved, shared>>
    BY <1>2 DEF CommandAges
  <2> QED BY <1>0, <2>6, <2>7 DEF TimePasses
<1>3. ASSUME NEW m \in Messages, AppendCommand(m) PROVE TimePasses
  <2>1. PICK c : c = [id |-> m, status |-> "pending", by |-> NoWorker, aged |-> FALSE]
    OBVIOUS
  <2>2. c \in CommandRecords /\ inbox' = Append(inbox, c)
    BY <1>3, <2>1 DEF CommandRecords, AppendCommand
  <2>3. inbox' \in Seq(CommandRecords) /\ Len(inbox') = Len(inbox) + 1
    BY <1>0, <2>2, AppendProperties
  <2>4. DOMAIN inbox = 1 .. Len(inbox) /\ DOMAIN inbox' = 1 .. Len(inbox) + 1 /\ Len(inbox) \in Nat
    BY <1>0, <2>3
  <2>5. UNCHANGED <<lease, artifact, failures, store, host, emitted, sent, saved, shared>>
    BY <1>3 DEF AppendCommand
  <2> QED BY <1>0, <2>3, <2>4, <2>5 DEF TimePasses
<1> QED BY <1>1, <1>2, <1>3

(* None of that touches what the invariants speak of. *)
LEMMA TimeIsHarmless ==
    ASSUME TimePasses
    PROVE  (HostSound => HostSound') /\ (SoleHost => SoleHost')
           /\ (NothingIsLost => NothingIsLost')
<1>1. ASSUME HostSound PROVE HostSound'
  <2>1. HostTypes'
    BY <1>1 DEF HostSound, HostTypes, TimePasses
  <2>2. store' = store /\ emitted' = emitted /\ sent' = sent /\ host' = host
        /\ DOMAIN inbox \subseteq DOMAIN inbox'
    BY DEF TimePasses
  <2>3. \A w \in Workers : SoundPlace(host[w].command, inbox)'
    BY <1>1, <2>2 DEF HostSound, SoundPlace
  <2>4. \A w \in Workers : SoundRecord(host[w], emitted, sent)'
    BY <1>1, <2>2 DEF HostSound, SoundRecord, SoundSession, EndedIn, KnownTo
  <2>5. SoundSession(store, store.seen, emitted, sent)'
    BY <1>1, <2>2 DEF HostSound, SoundSession, EndedIn
  <2> QED BY <2>1, <2>3, <2>4, <2>5 DEF HostSound
<1>2. ASSUME SoleHost PROVE SoleHost'
  BY <1>2 DEF SoleHost, Present, Live, TimePasses
<1>3. ASSUME NothingIsLost PROVE NothingIsLost'
  BY <1>3 DEF NothingIsLost, Kept, Held, Calm, Live, TimePasses
<1> QED BY <1>1, <1>2, <1>3

-----------------------------------------------------------------------------
(* The theorems *)

(* At the start there is no record, no checkpoint and no message. *)
LEMMA HostInitFacts ==
    ASSUME HostInit
    PROVE  /\ artifact = "absent" /\ saved = {} /\ store = NoCheckpoint
           /\ host = [w \in Workers |-> Idle]
           /\ \A w \in Workers : ~Present(host[w]) /\ ~Live(host[w]) /\ Calm(host[w])
<1>1. artifact = "absent" /\ saved = {} /\ store = NoCheckpoint /\ host = [w \in Workers |-> Idle]
  BY DEF HostInit
<1>2. \A w \in Workers : host[w] = Idle
  BY <1>1
<1> QED BY <1>1, <1>2, IdleRecord DEF Present, Live, Calm

(* Every session of the run, committed or not, is sound: the inductive invariant of
   what one record and its checkpoints promise, whatever several processes do. *)
THEOREM HostSoundHolds == HostSpec => []HostSound
<1>1. HostInit => HostSound
  <2> SUFFICES ASSUME HostInit PROVE HostSound
    OBVIOUS
  <2>1. /\ lease \in {"fresh", "stale"} /\ failures \in Nat /\ emitted \in 0 .. MaxRequests
        /\ sent = {} /\ inbox = <<>> /\ inbox \in Seq(CommandRecords) /\ shared \in BOOLEAN
    <3>1. lease = "stale" /\ failures = 0 /\ emitted = 0 /\ sent = {} /\ inbox = <<>>
      BY DEF HostInit
    <3>2. shared \in BOOLEAN
      BY DEF HostInit
    <3>3. <<>> \in Seq(CommandRecords) /\ 0 \in 0 .. MaxRequests
      BY HostBoundsAssumption
    <3> QED BY <3>1, <3>2, <3>3
  <2>2. /\ artifact \in Directories /\ store = NoCheckpoint /\ saved = {}
        /\ host = [w \in Workers |-> Idle]
    BY HostInitFacts DEF Directories
  <2>3. store \in HostSessions /\ host \in [Workers -> HostRecords]
    BY <2>2, FirstSessions, IdleRecord
  <2>4. SoundSession(store, store.seen, emitted, sent)
    BY <2>2, FirstSessions
  <2>5. SoundRecord(Idle, emitted, sent) /\ SoundPlace(Idle.command, inbox)
    BY IdleRecord, EmptyRecord DEF SoundPlace
  <2>6. HostTypes
    BY <2>1, <2>2, <2>3 DEF HostTypes
  <2> QED BY <2>2, <2>4, <2>5, <2>6 DEF HostSound
<1>2. HostSound /\ [HostNext]_hostVars => HostSound'
  <2> SUFFICES ASSUME HostSound, [HostNext]_hostVars PROVE HostSound'
    OBVIOUS
  <2>1. CASE LeaseAges \/ CommandAges \/ (\E m \in Messages : AppendCommand(m)) \/ UNCHANGED hostVars
    BY <2>1, ClientSteps, TimeIsHarmless
  <2>2. ASSUME NEW w \in Workers, Watchdog(w) \/ Recovery(w) \/ Drive(w) \/ Commands(w)
        PROVE  HostSound'
    BY <2>2, StepsOfWorkers, StepIsSound
  <2> QED BY <2>1, <2>2 DEF HostNext
<1> QED BY <1>1, <1>2, PTL DEF HostSpec

(* AppliedOnce holds of any number of processes, two that have the run at once
   included: no transcript holds an input twice, unless it goes back to a
   checkpoint that was committed between attach_loop and the restored ids. *)
THEOREM InputsAreAppliedOnce == HostSpec => []AppliedOnce
<1>1. HostSound => AppliedOnce
  BY DEF HostSound, SoundRecord, SoundSession, AppliedOnce
<1> QED BY <1>1, HostSoundHolds, PTL

(* AcksFollowSends: an acknowledgement that a checkpoint holds is of a request whose
   sending has ended, and such a request was sent. *)
THEOREM AcksAreTrue == HostSpec => []AcksFollowSends
<1>1. HostSound => AcksFollowSends
  <2> SUFFICES ASSUME HostSound, NEW r \in OutboxRequests
               PROVE  /\ r \in ToSet(store.queue) \union store.seen
                            => store.outbox[r] \in {"dispatched", "failed"}
                      /\ store.outbox[r] \in {"dispatched", "failed"} => r \in sent
    BY DEF AcksFollowSends
  <2>1. SoundSession(store, store.seen, emitted, sent)
    BY DEF HostSound
  <2>2. r \notin Messages
    BY IdsAreApart
  <2> QED BY <2>1, <2>2 DEF SoundSession, EndedIn
<1> QED BY <1>1, HostSoundHolds, PTL

(* Unless two processes had the run at once, one process at most has a record of
   it or is about to, and nobody has once it has ended. *)
THEOREM SoleHostHolds == HostSpec => []SoleHost
<1>1. HostInit => SoleHost
  BY HostInitFacts DEF SoleHost
<1>2. HostSound /\ SoleHost /\ [HostNext]_hostVars => SoleHost'
  <2> SUFFICES ASSUME HostSound, SoleHost, [HostNext]_hostVars PROVE SoleHost'
    OBVIOUS
  <2>1. CASE LeaseAges \/ CommandAges \/ (\E m \in Messages : AppendCommand(m)) \/ UNCHANGED hostVars
    BY <2>1, ClientSteps, TimeIsHarmless
  <2>2. ASSUME NEW w \in Workers, Watchdog(w) \/ Recovery(w) \/ Drive(w) \/ Commands(w)
        PROVE  SoleHost'
    <3>1. HostTypes
      BY DEF HostSound
    <3> QED BY <2>2, <3>1, StepsOfWorkers, StepKeepsSoleHost
  <2> QED BY <2>1, <2>2 DEF HostNext
<1> QED BY <1>1, <1>2, HostSoundHolds, PTL DEF HostSpec

(* EndedRunIsNotDriven, whatever the leases say: attempt_resume looks for the end
   the directory records before it registers a record, so only a process that had
   the run beside the one that ended it can still drive it. *)
THEOREM EndedRunsStayEnded == HostSpec => []EndedRunIsNotDriven
<1>1. \A w \in Workers : HasRun(w) => Live(host[w])
  BY DEF HasRun, HasLoop, Drives, Live
<1>2. SoleHost => EndedRunIsNotDriven
  BY <1>1 DEF SoleHost, EndedRunIsNotDriven
<1> QED BY <1>2, SoleHostHolds, PTL

(* A saved message is where a recovery finds it, and with the process that has the
   run, if a queue.get() hands its message straight to the drive. *)
THEOREM NothingIsEverLost ==
    ASSUME ~TaskedWait PROVE HostSpec => []NothingIsLost
<1>1. HostInit => NothingIsLost
  BY HostInitFacts DEF NothingIsLost
<1>2. HostSound /\ SoleHost /\ NothingIsLost /\ [HostNext]_hostVars => NothingIsLost'
  <2> SUFFICES ASSUME HostSound, SoleHost, NothingIsLost, [HostNext]_hostVars PROVE NothingIsLost'
    OBVIOUS
  <2>1. CASE LeaseAges \/ CommandAges \/ (\E m \in Messages : AppendCommand(m)) \/ UNCHANGED hostVars
    BY <2>1, ClientSteps, TimeIsHarmless
  <2>2. ASSUME NEW w \in Workers, Watchdog(w) \/ Recovery(w) \/ Drive(w) \/ Commands(w)
        PROVE  NothingIsLost'
    <3>1. HostTypes
      BY DEF HostSound
    <3> QED BY <2>2, <3>1, StepsOfWorkers, StepLosesNothing
  <2> QED BY <2>1, <2>2 DEF HostNext
<1> QED BY <1>1, <1>2, HostSoundHolds, SoleHostHolds, PTL DEF HostSpec

(* AcceptedIsKept, for any number of processes, messages, crashes and recoveries:
   while no two processes wrote the run and the latest checkpoint is not one of a
   half-restored record, it holds every message that was saved, and no marker
   without its message. *)
THEOREM AcceptedMessagesAreKept ==
    ASSUME ~TaskedWait PROVE HostSpec => []AcceptedIsKept
<1>1. HostSound /\ NothingIsLost => AcceptedIsKept
  <2> SUFFICES ASSUME HostSound, NothingIsLost PROVE AcceptedIsKept
    OBVIOUS
  <2>1. SoundSession(store, store.seen, emitted, sent)
    BY DEF HostSound
  <2> QED BY <2>1 DEF NothingIsLost, Kept, SoundSession, AcceptedIsKept
<1> QED BY <1>1, HostSoundHolds, NothingIsEverLost, PTL


-----------------------------------------------------------------------------
(* The DBOS host.  The lifecycle says who may be at work: a launch comes     *)
(* before any tear-down, there is one tear-down at most, and it destroys    *)
(* the runtime behind the last operation.  So whoever releases the owner    *)
(* token has found the runtime gone.                                        *)

RuntimeStates == {"registering", "launching", "running", "closing", "closed", "fenced"}

LaunchSteps == {"prepare", "activate", "control", "run", "finish"}

TearSteps == {"idle", "stop", "stopControl", "drain", "destroy", "mark", "release", "ended"}

\* What the runtime host is made of.
RuntimeRecords ==
    [state : RuntimeStates, admission : BOOLEAN, closeRequested : BOOLEAN,
     owner : Closers \union {NoThread}, late : BOOLEAN, error : BOOLEAN, held : BOOLEAN]

ParticipantRecords ==
    [launched : BOOLEAN, accepting : BOOLEAN, closing : BOOLEAN, closed : BOOLEAN,
     lock : Callers \union {NoThread}]

HostedTypes ==
    /\ dbos \in RuntimeRecords
    /\ launcher \in LaunchSteps \union {"idle", "ended"}
    /\ tear \in [TearDowns -> TearSteps]
    /\ participant \in [Participants -> ParticipantRecords]
    /\ engine \in {"built", "live", "stopping", "gone"}
    /\ op \in [Callers -> [pc : {"idle", "checked", "in"}, at : Participants]]
    /\ drives \in Nat /\ cleanupFailed \in BOOLEAN

\* A tear-down that has begun and not ended.
Tearing(t) == tear[t] \notin {"idle", "ended"}

NoTear == \A t \in TearDowns : tear[t] = "idle"

\* What the host says of itself.
HostIsSound(h) ==
    /\ h.error => h.state = "fenced"
    /\ h.held <=> h.state # "closed"
    /\ h.admission => h.state = "running" /\ ~h.closeRequested

\* The lifecycle says who may be at work.
LifecycleFits ==
    /\ dbos.state = "registering" => launcher = "idle" /\ NoTear
    /\ dbos.state = "launching" => launcher # "idle" /\ tear["worker"] = "idle"
                                     /\ tear["cleanup"] = "idle"
    /\ dbos.state = "running" => launcher = "ended" /\ NoTear /\ engine = "live"
    /\ dbos.state = "closing" => launcher \notin LaunchSteps
    /\ dbos.state = "closed" =>
          /\ launcher \notin LaunchSteps /\ engine = "gone"
          /\ \A t \in TearDowns : ~Tearing(t)

\* A launch comes before any tear-down, and has built what it registers with.
LaunchFits ==
    /\ launcher \in LaunchSteps => dbos.state \in {"launching", "fenced"} /\ NoTear
    /\ launcher \in {"control", "run", "finish"} => engine = "live"
    /\ tear["rollback"] # "idle" => launcher = "ended"

\* One tear-down takes the host apart, behind the last operation.
TearFits ==
    /\ \A t, u \in TearDowns : tear[t] # "idle" /\ tear[u] # "idle" => t = u
    /\ \A t \in TearDowns :
          /\ tear[t] = "destroy" => engine = "stopping"
          /\ tear[t] \in {"mark", "release"} => engine = "gone" /\ t # "cleanup"
    /\ engine = "gone" => drives = 0

OperationsFit ==
    \A a \in Callers :
       /\ op[a].pc # "idle" => launcher = "ended"
       /\ op[a].pc = "in" => engine = "live"

AdmissionsFit == cleanupFailed => ~participant["run"].accepting

\* The invariant of the DBOS host.
HostedInv ==
    /\ HostedTypes /\ HostIsSound(dbos) /\ LifecycleFits /\ LaunchFits
    /\ TearFits /\ OperationsFit /\ AdmissionsFit

\* The invariant holds of a host that registers.
LEMMA HostedInitFits == HostedInit => HostedInv
<1> SUFFICES ASSUME HostedInit PROVE HostedInv
    OBVIOUS
<1>1. HostedTypes
    <2>1. dbos \in RuntimeRecords
        BY DEF HostedInit, RuntimeRecords, RuntimeStates
    <2>2. participant \in [Participants -> ParticipantRecords]
        BY DEF HostedInit, ParticipantRecords
    <2>3. tear \in [TearDowns -> TearSteps]
        BY DEF HostedInit, TearSteps
    <2> QED
        BY <2>1, <2>2, <2>3 DEF HostedInit, HostedTypes, Participants
<1>2. HostIsSound(dbos) /\ LifecycleFits /\ LaunchFits
    BY DEF HostedInit, HostIsSound, LifecycleFits, LaunchFits, NoTear, LaunchSteps, TearDowns
<1>3. TearFits /\ OperationsFit /\ AdmissionsFit
    BY DEF HostedInit, TearFits, OperationsFit, AdmissionsFit
<1> QED
    BY <1>1, <1>2, <1>3 DEF HostedInv

\* A host that is fenced.
LEMMA FencedHost ==
    ASSUME NEW h \in RuntimeRecords
    PROVE  /\ Fenced(h) \in RuntimeRecords /\ Fenced(h).state = "fenced"
           /\ h.held => HostIsSound(Fenced(h))
BY DEF Fenced, RuntimeRecords, RuntimeStates, HostIsSound

\* A host that starts to close.
LEMMA ClosingHost ==
    ASSUME NEW h \in RuntimeRecords, h.held, ~h.error, StartShutdown(h)
    PROVE  /\ dbos' \in RuntimeRecords /\ HostIsSound(dbos') /\ dbos'.state = "closing"
           /\ tear' = [tear EXCEPT !["worker"] = "stop"]
BY DEF StartShutdown, Begin, RuntimeRecords, RuntimeStates, HostIsSound

\* The host of a close that takes the shutdown authority.
LEMMA ClaimedHost ==
    ASSUME dbos \in RuntimeRecords, HostIsSound(dbos), NEW c \in Closers
    PROVE  /\ Claimed(c) \in RuntimeRecords /\ HostIsSound(Claimed(c)) /\ Claimed(c).state = dbos.state
           /\ Claimed(c).held = dbos.held /\ Claimed(c).error = dbos.error
BY DEF Claimed, RuntimeRecords, HostIsSound

\* A host of which somebody wants the end of the launch.
LEMMA RequestedHost ==
    ASSUME NEW h \in RuntimeRecords, HostIsSound(h), h.state # "running", NEW b \in BOOLEAN
    PROVE  /\ [h EXCEPT !.closeRequested = b] \in RuntimeRecords
           /\ HostIsSound([h EXCEPT !.closeRequested = b])
           /\ [h EXCEPT !.closeRequested = b].state = h.state
BY DEF RuntimeRecords, HostIsSound

\* A host whose token goes back.
LEMMA ReleasedHost ==
    ASSUME dbos \in RuntimeRecords, NEW owner \in Closers \union {NoThread}, ~dbos.error,
           ~dbos.admission, Release(owner)
    PROVE  dbos' \in RuntimeRecords /\ HostIsSound(dbos') /\ dbos'.state = "closed"
BY DEF Release, RuntimeRecords, RuntimeStates, HostIsSound

\* What a participant is made of, written one flag at a time.
LEMMA FlagIsWritten ==
    ASSUME NEW r \in ParticipantRecords, NEW b \in BOOLEAN
    PROVE  /\ [r EXCEPT !.launched = b] \in ParticipantRecords
           /\ [r EXCEPT !.accepting = b] \in ParticipantRecords
           /\ [r EXCEPT !.closing = b] \in ParticipantRecords
           /\ [r EXCEPT !.closed = b] \in ParticipantRecords
BY DEF ParticipantRecords

\* Two flags of a participant are written at a time.
LEMMA FlagsAreWritten ==
    ASSUME NEW f \in [Participants -> ParticipantRecords], NEW p \in Participants,
           NEW b \in BOOLEAN, NEW c \in BOOLEAN
    PROVE  /\ [f EXCEPT ![p].launched = b, ![p].accepting = c]
                 \in [Participants -> ParticipantRecords]
           /\ [f EXCEPT ![p].accepting = b, ![p].closing = c]
                 \in [Participants -> ParticipantRecords]
<1>1. /\ [f EXCEPT ![p].launched = b] \in [Participants -> ParticipantRecords]
      /\ [f EXCEPT ![p].accepting = b] \in [Participants -> ParticipantRecords]
    BY FlagIsWritten
<1> QED
    BY <1>1, FlagIsWritten

\* A participant that admits nothing more.
LEMMA AdmissionIsClosed ==
    ASSUME participant \in [Participants -> ParticipantRecords], NEW p \in Participants
    PROVE  [participant EXCEPT ![p].accepting = FALSE] \in [Participants -> ParticipantRecords]
BY FlagIsWritten

\* What register_queue leaves in a participant is one.
LEMMA QueueIsRegistered ==
    ASSUME participant \in [Participants -> ParticipantRecords], NEW p \in Participants
    PROVE  [participant EXCEPT ![p].launched = TRUE, ![p].accepting = Accepts(p)]
              \in [Participants -> ParticipantRecords]
<1>1. Accepts(p) \in BOOLEAN
    BY DEF Accepts
<1> DEFINE b == Accepts(p)
<1>2. b \in BOOLEAN
    BY <1>1
<1> HIDE DEF b
<1>3. [participant EXCEPT ![p].launched = TRUE, ![p].accepting = b]
         \in [Participants -> ParticipantRecords]
    BY <1>2, FlagsAreWritten
<1> QED
    BY <1>3 DEF b

\* No step of launch, close, tear-down or operation breaks it.
LEMMA HostedStepFits == HostedInv /\ [HostedNext]_hostedVars => HostedInv'
<1> SUFFICES ASSUME HostedInv, [HostedNext]_hostedVars PROVE HostedInv'
    OBVIOUS
<1> USE DEF HostedInv, NoTear, Tearing
<1>00. "control" \in Participants /\ "run" \in Participants
    BY DEF Participants
<1>a. dbos \in RuntimeRecords
    BY DEF HostedTypes
<1>b. tear \in [TearDowns -> TearSteps]
    BY DEF HostedTypes
<1>c. participant \in [Participants -> ParticipantRecords]
    BY DEF HostedTypes
<1>d. op \in [Callers -> [pc : {"idle", "checked", "in"}, at : Participants]]
    BY DEF HostedTypes
<1>f. Fence => /\ dbos' \in RuntimeRecords /\ dbos'.state = "fenced"
               /\ dbos.state # "closed" => HostIsSound(dbos')
    BY <1>a, FencedHost DEF Fence, HostIsSound
<1>1. CASE Launch
    <2>0. /\ dbos' \in RuntimeRecords /\ HostIsSound(dbos') /\ dbos'.state = "launching"
          /\ dbos.state = "registering" /\ launcher' = "prepare"
          /\ UNCHANGED <<tear, participant, engine, op, drives, cleanupFailed>>
        BY <1>1, <1>a DEF Launch, RuntimeRecords, RuntimeStates, HostIsSound
    <2>1. HostedTypes'
        BY <2>0, <1>b DEF HostedTypes, TearSteps, LaunchSteps
    <2>2. HostIsSound(dbos)'
        BY <2>0
    <2>3. LifecycleFits'
        BY <2>0, <1>b DEF LifecycleFits, LaunchFits, TearFits, OperationsFit,
           LaunchSteps, TearDowns
    <2>4. LaunchFits'
        BY <2>0, <1>b DEF LifecycleFits, LaunchFits, LaunchSteps, TearDowns
    <2>5. TearFits'
        BY <2>0, <1>b DEF LifecycleFits, LaunchFits, TearFits, OperationsFit,
           LaunchSteps, TearDowns
    <2>6. OperationsFit'
        BY <2>0, <1>b, <1>d DEF LifecycleFits, LaunchFits, TearFits, OperationsFit,
           LaunchSteps, TearDowns
    <2>7. AdmissionsFit'
        BY <2>0 DEF AdmissionsFit
    <2> QED
        BY <2>1, <2>2, <2>3, <2>4, <2>5, <2>6, <2>7
<1>2. CASE Prepare
    <2>1. HostedTypes'
        <3>1. dbos' \in RuntimeRecords
            BY <1>2, <1>a, <1>f DEF Prepare, OwnsLaunch, Begin
        <3>2. tear' \in [TearDowns -> TearSteps]
            BY <1>2, <1>b DEF Prepare, OwnsLaunch, Begin, TearSteps
        <3> QED
            BY <1>2, <3>1, <3>2 DEF Prepare, OwnsLaunch, Begin, HostedTypes,
               LaunchSteps
    <2>2. HostIsSound(dbos)'
        BY <1>2, <1>f DEF Prepare, OwnsLaunch, Begin, LifecycleFits, LaunchFits,
           OperationsFit, LaunchSteps
    <2>3. LifecycleFits'
        BY <1>2, <1>b, <1>f DEF Prepare, OwnsLaunch, Begin, LifecycleFits,
           LaunchFits, TearFits, OperationsFit, LaunchSteps, TearDowns
    <2>4. LaunchFits'
        BY <1>2, <1>b, <1>f DEF Prepare, OwnsLaunch, Begin, LifecycleFits,
           LaunchFits, LaunchSteps, TearDowns
    <2>5. TearFits'
        BY <1>2, <1>b, <1>f DEF Prepare, OwnsLaunch, Begin, LifecycleFits,
           LaunchFits, TearFits, OperationsFit, LaunchSteps, TearDowns
    <2>6. OperationsFit'
        BY <1>2, <1>b, <1>d, <1>f DEF Prepare, OwnsLaunch, Begin, LifecycleFits,
           LaunchFits, TearFits, OperationsFit, LaunchSteps, TearDowns
    <2>7. AdmissionsFit'
        BY <1>2, <1>c, <1>00 DEF Prepare, OwnsLaunch, Begin, AdmissionsFit,
           Participants, ParticipantRecords
    <2> QED
        BY <2>1, <2>2, <2>3, <2>4, <2>5, <2>6, <2>7
<1>3. CASE Activate
    <2>1. HostedTypes'
        <3>1. dbos' \in RuntimeRecords
            BY <1>3, <1>a, <1>f DEF Activate, OwnsLaunch, FenceLive, Begin
        <3>2. tear' \in [TearDowns -> TearSteps]
            BY <1>3, <1>b DEF Activate, OwnsLaunch, FenceLive, Begin, TearSteps
        <3> QED
            BY <1>3, <3>1, <3>2 DEF Activate, OwnsLaunch, FenceLive, Begin,
               HostedTypes, LaunchSteps
    <2>2. HostIsSound(dbos)'
        BY <1>3, <1>f DEF Activate, OwnsLaunch, FenceLive, Begin, LifecycleFits,
           LaunchFits, OperationsFit, LaunchSteps
    <2>3. LifecycleFits'
        BY <1>3, <1>b, <1>f DEF Activate, OwnsLaunch, FenceLive, Begin,
           LifecycleFits, LaunchFits, TearFits, OperationsFit, LaunchSteps,
           TearDowns
    <2>4. LaunchFits'
        BY <1>3, <1>b, <1>f DEF Activate, OwnsLaunch, FenceLive, Begin,
           LifecycleFits, LaunchFits, LaunchSteps, TearDowns
    <2>5. TearFits'
        BY <1>3, <1>b, <1>f DEF Activate, OwnsLaunch, FenceLive, Begin,
           LifecycleFits, LaunchFits, TearFits, OperationsFit, LaunchSteps,
           TearDowns
    <2>6. OperationsFit'
        BY <1>3, <1>b, <1>d, <1>f DEF Activate, OwnsLaunch, FenceLive, Begin,
           LifecycleFits, LaunchFits, TearFits, OperationsFit, LaunchSteps,
           TearDowns
    <2>7. AdmissionsFit'
        BY <1>3, <1>c, <1>00 DEF Activate, OwnsLaunch, FenceLive, Begin,
           AdmissionsFit, Participants, ParticipantRecords
    <2> QED
        BY <2>1, <2>2, <2>3, <2>4, <2>5, <2>6, <2>7
<1>4. CASE RegisterQueue("control", "run")
    <2>1. HostedTypes'
        <3>1. dbos' \in RuntimeRecords
            BY <1>4, <1>a, <1>f DEF RegisterQueue, OwnsLaunch, FenceLive, Begin
        <3>2. participant' \in [Participants -> ParticipantRecords]
            BY <1>4, <1>00, <1>c, QueueIsRegistered DEF RegisterQueue
        <3>3. tear' \in [TearDowns -> TearSteps]
            BY <1>4, <1>b DEF RegisterQueue, OwnsLaunch, FenceLive, Begin,
               TearSteps
        <3> QED
            BY <1>4, <3>1, <3>2, <3>3 DEF RegisterQueue, OwnsLaunch, FenceLive,
               Begin, HostedTypes, LaunchSteps
    <2>2. HostIsSound(dbos)'
        BY <1>4, <1>f DEF RegisterQueue, OwnsLaunch, FenceLive, Begin,
           LifecycleFits, LaunchFits, OperationsFit, LaunchSteps
    <2>3. LifecycleFits'
        BY <1>4, <1>b, <1>f DEF RegisterQueue, OwnsLaunch, FenceLive, Begin,
           LifecycleFits, LaunchFits, TearFits, OperationsFit, LaunchSteps,
           TearDowns
    <2>4. LaunchFits'
        BY <1>4, <1>b, <1>f DEF RegisterQueue, OwnsLaunch, FenceLive, Begin,
           LifecycleFits, LaunchFits, LaunchSteps, TearDowns
    <2>5. TearFits'
        BY <1>4, <1>b, <1>f DEF RegisterQueue, OwnsLaunch, FenceLive, Begin,
           LifecycleFits, LaunchFits, TearFits, OperationsFit, LaunchSteps,
           TearDowns
    <2>6. OperationsFit'
        BY <1>4, <1>b, <1>d, <1>f DEF RegisterQueue, OwnsLaunch, FenceLive, Begin,
           LifecycleFits, LaunchFits, TearFits, OperationsFit, LaunchSteps,
           TearDowns
    <2>7. AdmissionsFit'
        BY <1>4, <1>c, <1>00 DEF RegisterQueue, OwnsLaunch, FenceLive, Begin,
           Accepts, AdmissionsFit, Participants, ParticipantRecords
    <2> QED
        BY <2>1, <2>2, <2>3, <2>4, <2>5, <2>6, <2>7
<1>5. CASE RegisterQueue("run", "finish")
    <2>1. HostedTypes'
        <3>1. dbos' \in RuntimeRecords
            BY <1>5, <1>a, <1>f DEF RegisterQueue, OwnsLaunch, FenceLive, Begin
        <3>2. participant' \in [Participants -> ParticipantRecords]
            BY <1>5, <1>00, <1>c, QueueIsRegistered DEF RegisterQueue
        <3>3. tear' \in [TearDowns -> TearSteps]
            BY <1>5, <1>b DEF RegisterQueue, OwnsLaunch, FenceLive, Begin,
               TearSteps
        <3> QED
            BY <1>5, <3>1, <3>2, <3>3 DEF RegisterQueue, OwnsLaunch, FenceLive,
               Begin, HostedTypes, LaunchSteps
    <2>2. HostIsSound(dbos)'
        BY <1>5, <1>f DEF RegisterQueue, OwnsLaunch, FenceLive, Begin,
           LifecycleFits, LaunchFits, OperationsFit, LaunchSteps
    <2>3. LifecycleFits'
        BY <1>5, <1>b, <1>f DEF RegisterQueue, OwnsLaunch, FenceLive, Begin,
           LifecycleFits, LaunchFits, TearFits, OperationsFit, LaunchSteps,
           TearDowns
    <2>4. LaunchFits'
        BY <1>5, <1>b, <1>f DEF RegisterQueue, OwnsLaunch, FenceLive, Begin,
           LifecycleFits, LaunchFits, LaunchSteps, TearDowns
    <2>5. TearFits'
        BY <1>5, <1>b, <1>f DEF RegisterQueue, OwnsLaunch, FenceLive, Begin,
           LifecycleFits, LaunchFits, TearFits, OperationsFit, LaunchSteps,
           TearDowns
    <2>6. OperationsFit'
        BY <1>5, <1>b, <1>d, <1>f DEF RegisterQueue, OwnsLaunch, FenceLive, Begin,
           LifecycleFits, LaunchFits, TearFits, OperationsFit, LaunchSteps,
           TearDowns
    <2>7. AdmissionsFit'
        BY <1>5, <1>c, <1>00 DEF RegisterQueue, OwnsLaunch, FenceLive, Begin,
           Accepts, AdmissionsFit, Participants, ParticipantRecords
    <2> QED
        BY <2>1, <2>2, <2>3, <2>4, <2>5, <2>6, <2>7
<1>6. CASE FinishLaunch
    <2>0. /\ dbos' \in RuntimeRecords /\ HostIsSound(dbos')
          /\ launcher = "finish" /\ launcher' = "ended"
          /\ UNCHANGED <<participant, engine, op, drives, cleanupFailed>>
          /\ \/ dbos.state = "launching" /\ dbos'.state = "running" /\ UNCHANGED tear
             \/ /\ dbos.state = "fenced" /\ dbos'.state = "fenced"
                /\ tear' = [tear EXCEPT !["cleanup"] = "stop"]
        <3>1. CASE dbos.state = "launching"
            <4>1. dbos' = [dbos EXCEPT !.state = "running", !.admission = ~dbos.closeRequested]
                BY <1>6, <3>1 DEF FinishLaunch
            <4>2. dbos' \in RuntimeRecords /\ HostIsSound(dbos') /\ dbos'.state = "running"
                BY <1>a, <3>1, <4>1 DEF RuntimeRecords, RuntimeStates, HostIsSound
            <4> QED
                BY <1>6, <3>1, <4>2 DEF FinishLaunch
        <3>2. CASE dbos.state = "fenced"
            BY <1>6, <1>f, <3>2 DEF FinishLaunch, FenceLive, Begin
        <3> QED
            BY <1>6, <3>1, <3>2 DEF FinishLaunch, LaunchFits, LaunchSteps
    <2>1. HostedTypes'
        BY <2>0, <1>b DEF HostedTypes, TearSteps, LaunchSteps
    <2>2. HostIsSound(dbos)'
        BY <2>0
    <2>3. LifecycleFits'
        BY <2>0, <1>b DEF LifecycleFits, LaunchFits, TearFits, OperationsFit,
           LaunchSteps, TearDowns
    <2>4. LaunchFits'
        BY <2>0, <1>b DEF LifecycleFits, LaunchFits, LaunchSteps, TearDowns
    <2>5. TearFits'
        BY <2>0, <1>b DEF LifecycleFits, LaunchFits, TearFits, OperationsFit,
           LaunchSteps, TearDowns
    <2>6. OperationsFit'
        BY <2>0, <1>b, <1>d DEF LifecycleFits, LaunchFits, TearFits, OperationsFit,
           LaunchSteps, TearDowns
    <2>7. AdmissionsFit'
        BY <2>0 DEF AdmissionsFit
    <2> QED
        BY <2>1, <2>2, <2>3, <2>4, <2>5, <2>6, <2>7
<1>7. ASSUME NEW c \in Closers, Close(c) PROVE HostedInv'
    <2>0. /\ dbos' \in RuntimeRecords /\ HostIsSound(dbos')
          /\ UNCHANGED <<launcher, participant, engine, op, drives, cleanupFailed>>
          /\ \/ dbos'.state = dbos.state /\ UNCHANGED tear
             \/ /\ dbos.state \in {"registering", "running"} /\ dbos'.state = "closing"
                /\ tear' = [tear EXCEPT !["worker"] = "stop"]
             \/ dbos.state # "closed" /\ dbos'.state = "fenced" /\ UNCHANGED tear
        <3>1. CASE dbos.state \in {"closed", "fenced"}
            BY <1>7, <1>a, <3>1 DEF Close
        <3>2. ASSUME dbos.state \in {"launching", "closing"}, UNCHANGED tear,
                     dbos' = [Claimed(c) EXCEPT !.closeRequested = @ \/ dbos.state = "launching"]
              PROVE  dbos' \in RuntimeRecords /\ HostIsSound(dbos') /\ dbos'.state = dbos.state
            <4>1. PICK b \in BOOLEAN : dbos' = [Claimed(c) EXCEPT !.closeRequested = b]
                BY <3>2
            <4> QED
                BY <1>a, <3>2, <4>1, ClaimedHost, RequestedHost
        <3>3. ASSUME dbos.state \in {"registering", "running"}, StartShutdown(Claimed(c))
              PROVE  /\ dbos' \in RuntimeRecords /\ HostIsSound(dbos') /\ dbos'.state = "closing"
                     /\ tear' = [tear EXCEPT !["worker"] = "stop"]
            BY <1>a, <3>3, ClaimedHost, ClosingHost DEF HostIsSound
        <3>4. ASSUME dbos.state \notin {"closed", "fenced"}, dbos' = Fenced(Claimed(c))
              PROVE  dbos' \in RuntimeRecords /\ HostIsSound(dbos') /\ dbos'.state = "fenced"
            BY <1>a, <3>4, ClaimedHost, FencedHost DEF HostIsSound
        <3> QED
            BY <1>7, <3>1, <3>2, <3>3, <3>4 DEF Close
    <2>1. HostedTypes'
        BY <2>0, <1>b DEF HostedTypes, TearSteps, LaunchSteps
    <2>2. HostIsSound(dbos)'
        BY <2>0
    <2>3. LifecycleFits'
        BY <2>0, <1>b DEF LifecycleFits, LaunchFits, TearFits, OperationsFit,
           LaunchSteps, TearDowns
    <2>4. LaunchFits'
        BY <2>0, <1>b DEF LifecycleFits, LaunchFits, LaunchSteps, TearDowns
    <2>5. TearFits'
        BY <2>0, <1>b DEF LifecycleFits, LaunchFits, TearFits, OperationsFit,
           LaunchSteps, TearDowns
    <2>6. OperationsFit'
        BY <2>0, <1>b, <1>d DEF LifecycleFits, LaunchFits, TearFits, OperationsFit,
           LaunchSteps, TearDowns
    <2>7. AdmissionsFit'
        BY <2>0 DEF AdmissionsFit
    <2> QED
        BY <2>1, <2>2, <2>3, <2>4, <2>5, <2>6, <2>7
<1>8. ASSUME NEW c \in Closers, CloserWakes(c) PROVE HostedInv'
    <2>0. /\ dbos' \in RuntimeRecords /\ HostIsSound(dbos')
          /\ UNCHANGED <<launcher, participant, engine, op, drives, cleanupFailed>>
          /\ \/ UNCHANGED <<dbos, tear>>
             \/ /\ dbos.state = "running" /\ dbos'.state = "closing"
                /\ tear' = [tear EXCEPT !["worker"] = "stop"]
             \/ dbos.state = "running" /\ dbos'.state = "fenced" /\ UNCHANGED tear
        <3>1. ASSUME dbos.state = "running", StartShutdown(dbos)
              PROVE  /\ dbos' \in RuntimeRecords /\ HostIsSound(dbos') /\ dbos'.state = "closing"
                     /\ tear' = [tear EXCEPT !["worker"] = "stop"]
            BY <1>a, <3>1, ClosingHost DEF HostIsSound
        <3> QED
            BY <1>8, <1>a, <1>f, <3>1 DEF CloserWakes
    <2>1. HostedTypes'
        BY <2>0, <1>b DEF HostedTypes, TearSteps, LaunchSteps
    <2>2. HostIsSound(dbos)'
        BY <2>0
    <2>3. LifecycleFits'
        BY <2>0, <1>b DEF LifecycleFits, LaunchFits, TearFits, OperationsFit,
           LaunchSteps, TearDowns
    <2>4. LaunchFits'
        BY <2>0, <1>b DEF LifecycleFits, LaunchFits, LaunchSteps, TearDowns
    <2>5. TearFits'
        BY <2>0, <1>b DEF LifecycleFits, LaunchFits, TearFits, OperationsFit,
           LaunchSteps, TearDowns
    <2>6. OperationsFit'
        BY <2>0, <1>b, <1>d DEF LifecycleFits, LaunchFits, TearFits, OperationsFit,
           LaunchSteps, TearDowns
    <2>7. AdmissionsFit'
        BY <2>0 DEF AdmissionsFit
    <2> QED
        BY <2>1, <2>2, <2>3, <2>4, <2>5, <2>6, <2>7
<1>9. ASSUME NEW c \in Closers, CloserGivesUp(c) PROVE HostedInv'
    <2>1. HostedTypes'
        <3>1. dbos' \in RuntimeRecords
            BY <1>9, <1>a, <1>f DEF CloserGivesUp
        <3> QED
            BY <1>9, <3>1 DEF CloserGivesUp, HostedTypes, LaunchSteps
    <2>2. HostIsSound(dbos)'
        BY <1>9, <1>f DEF CloserGivesUp, LifecycleFits, LaunchFits, OperationsFit,
           LaunchSteps
    <2>3. LifecycleFits'
        BY <1>9, <1>b, <1>f DEF CloserGivesUp, LifecycleFits, LaunchFits, TearFits,
           OperationsFit, LaunchSteps, TearDowns
    <2>4. LaunchFits'
        BY <1>9, <1>b, <1>f DEF CloserGivesUp, LifecycleFits, LaunchFits,
           LaunchSteps, TearDowns
    <2>5. TearFits'
        BY <1>9, <1>b, <1>f DEF CloserGivesUp, LifecycleFits, LaunchFits, TearFits,
           OperationsFit, LaunchSteps, TearDowns
    <2>6. OperationsFit'
        BY <1>9, <1>b, <1>d, <1>f DEF CloserGivesUp, LifecycleFits, LaunchFits,
           TearFits, OperationsFit, LaunchSteps, TearDowns
    <2>7. AdmissionsFit'
        BY <1>9, <1>c, <1>00 DEF CloserGivesUp, AdmissionsFit, Participants,
           ParticipantRecords
    <2> QED
        BY <2>1, <2>2, <2>3, <2>4, <2>5, <2>6, <2>7
<1>10. CASE ShutdownDeadlinePasses
    <2>0. /\ dbos' \in RuntimeRecords /\ HostIsSound(dbos') /\ dbos'.state = dbos.state
          /\ UNCHANGED <<launcher, tear, participant, engine, op, drives, cleanupFailed>>
        BY <1>10, <1>a DEF ShutdownDeadlinePasses, RuntimeRecords, HostIsSound
    <2>1. HostedTypes'
        BY <2>0, <1>b DEF HostedTypes, TearSteps, LaunchSteps
    <2>2. HostIsSound(dbos)'
        BY <2>0
    <2>3. LifecycleFits'
        BY <2>0, <1>b DEF LifecycleFits, LaunchFits, TearFits, OperationsFit,
           LaunchSteps, TearDowns
    <2>4. LaunchFits'
        BY <2>0, <1>b DEF LifecycleFits, LaunchFits, LaunchSteps, TearDowns
    <2>5. TearFits'
        BY <2>0, <1>b DEF LifecycleFits, LaunchFits, TearFits, OperationsFit,
           LaunchSteps, TearDowns
    <2>6. OperationsFit'
        BY <2>0, <1>b, <1>d DEF LifecycleFits, LaunchFits, TearFits, OperationsFit,
           LaunchSteps, TearDowns
    <2>7. AdmissionsFit'
        BY <2>0 DEF AdmissionsFit
    <2> QED
        BY <2>1, <2>2, <2>3, <2>4, <2>5, <2>6, <2>7
<1>11. CASE ShutdownWatchdog
    <2>1. HostedTypes'
        <3>1. dbos' \in RuntimeRecords
            BY <1>11, <1>a, <1>f DEF ShutdownWatchdog
        <3> QED
            BY <1>11, <3>1 DEF ShutdownWatchdog, HostedTypes, LaunchSteps
    <2>2. HostIsSound(dbos)'
        BY <1>11, <1>f DEF ShutdownWatchdog, LifecycleFits, LaunchFits,
           OperationsFit, LaunchSteps
    <2>3. LifecycleFits'
        BY <1>11, <1>b, <1>f DEF ShutdownWatchdog, LifecycleFits, LaunchFits,
           TearFits, OperationsFit, LaunchSteps, TearDowns
    <2>4. LaunchFits'
        BY <1>11, <1>b, <1>f DEF ShutdownWatchdog, LifecycleFits, LaunchFits,
           LaunchSteps, TearDowns
    <2>5. TearFits'
        BY <1>11, <1>b, <1>f DEF ShutdownWatchdog, LifecycleFits, LaunchFits,
           TearFits, OperationsFit, LaunchSteps, TearDowns
    <2>6. OperationsFit'
        BY <1>11, <1>b, <1>d, <1>f DEF ShutdownWatchdog, LifecycleFits, LaunchFits,
           TearFits, OperationsFit, LaunchSteps, TearDowns
    <2>7. AdmissionsFit'
        BY <1>11, <1>c, <1>00 DEF ShutdownWatchdog, AdmissionsFit, Participants,
           ParticipantRecords
    <2> QED
        BY <2>1, <2>2, <2>3, <2>4, <2>5, <2>6, <2>7
<1>12. ASSUME NEW t \in TearDowns, Stop(t, "stop", "run", "stopControl") PROVE HostedInv'
    <2>1. HostedTypes'
        <3>1. participant' \in [Participants -> ParticipantRecords]
            BY <1>12, <1>00, <1>c, FlagsAreWritten DEF Stop
        <3>2. tear' \in [TearDowns -> TearSteps]
            BY <1>12, <1>b DEF Stop, Goes, TearSteps
        <3> QED
            BY <1>12, <3>1, <3>2 DEF Stop, Goes, HostedTypes, LaunchSteps
    <2>2. HostIsSound(dbos)'
        BY <1>12 DEF Stop, Goes, LifecycleFits, LaunchFits, OperationsFit,
           LaunchSteps
    <2>3. LifecycleFits'
        BY <1>12, <1>b DEF Stop, Goes, LifecycleFits, LaunchFits, TearFits,
           OperationsFit, LaunchSteps, TearDowns
    <2>4. LaunchFits'
        BY <1>12, <1>b DEF Stop, Goes, LifecycleFits, LaunchFits, LaunchSteps,
           TearDowns
    <2>5. TearFits'
        BY <1>12, <1>b DEF Stop, Goes, LifecycleFits, LaunchFits, TearFits,
           OperationsFit, LaunchSteps, TearDowns
    <2>6. OperationsFit'
        BY <1>12, <1>b, <1>d DEF Stop, Goes, LifecycleFits, LaunchFits, TearFits,
           OperationsFit, LaunchSteps, TearDowns
    <2>7. AdmissionsFit'
        BY <1>12, <1>c, <1>00 DEF Stop, Goes, AdmissionsFit, Participants,
           ParticipantRecords
    <2> QED
        BY <2>1, <2>2, <2>3, <2>4, <2>5, <2>6, <2>7
<1>13. ASSUME NEW t \in TearDowns, Stop(t, "stopControl", "control", "drain") PROVE HostedInv'
    <2>1. HostedTypes'
        <3>1. participant' \in [Participants -> ParticipantRecords]
            BY <1>13, <1>00, <1>c, FlagsAreWritten DEF Stop
        <3>2. tear' \in [TearDowns -> TearSteps]
            BY <1>13, <1>b DEF Stop, Goes, TearSteps
        <3> QED
            BY <1>13, <3>1, <3>2 DEF Stop, Goes, HostedTypes, LaunchSteps
    <2>2. HostIsSound(dbos)'
        BY <1>13 DEF Stop, Goes, LifecycleFits, LaunchFits, OperationsFit,
           LaunchSteps
    <2>3. LifecycleFits'
        BY <1>13, <1>b DEF Stop, Goes, LifecycleFits, LaunchFits, TearFits,
           OperationsFit, LaunchSteps, TearDowns
    <2>4. LaunchFits'
        BY <1>13, <1>b DEF Stop, Goes, LifecycleFits, LaunchFits, LaunchSteps,
           TearDowns
    <2>5. TearFits'
        BY <1>13, <1>b DEF Stop, Goes, LifecycleFits, LaunchFits, TearFits,
           OperationsFit, LaunchSteps, TearDowns
    <2>6. OperationsFit'
        BY <1>13, <1>b, <1>d DEF Stop, Goes, LifecycleFits, LaunchFits, TearFits,
           OperationsFit, LaunchSteps, TearDowns
    <2>7. AdmissionsFit'
        BY <1>13, <1>c, <1>00 DEF Stop, Goes, AdmissionsFit, Participants,
           ParticipantRecords
    <2> QED
        BY <2>1, <2>2, <2>3, <2>4, <2>5, <2>6, <2>7
<1>14. ASSUME NEW t \in TearDowns, BeginDestroy(t) PROVE HostedInv'
    <2>1. HostedTypes'
        <3>1. dbos' \in RuntimeRecords
            BY <1>14, <1>a, <1>f DEF BeginDestroy, Drained, Goes, TearFails
        <3>2. tear' \in [TearDowns -> TearSteps]
            BY <1>14, <1>b DEF BeginDestroy, Drained, Goes, TearFails, TearSteps
        <3> QED
            BY <1>14, <3>1, <3>2 DEF BeginDestroy, Drained, Goes, TearFails,
               HostedTypes, LaunchSteps
    <2>2. HostIsSound(dbos)'
        BY <1>14, <1>f DEF BeginDestroy, Drained, Goes, TearFails, LifecycleFits,
           LaunchFits, OperationsFit, LaunchSteps
    <2>3. LifecycleFits'
        BY <1>14, <1>b, <1>f DEF BeginDestroy, Drained, Goes, TearFails,
           LifecycleFits, LaunchFits, TearFits, OperationsFit, LaunchSteps,
           TearDowns
    <2>4. LaunchFits'
        BY <1>14, <1>b, <1>f DEF BeginDestroy, Drained, Goes, TearFails,
           LifecycleFits, LaunchFits, LaunchSteps, TearDowns
    <2>5. TearFits'
        BY <1>14, <1>b, <1>f DEF BeginDestroy, Drained, Goes, TearFails,
           LifecycleFits, LaunchFits, TearFits, OperationsFit, LaunchSteps,
           TearDowns
    <2>6. OperationsFit'
        BY <1>14, <1>b, <1>d, <1>f DEF BeginDestroy, Drained, Goes, TearFails,
           LifecycleFits, LaunchFits, TearFits, OperationsFit, LaunchSteps,
           TearDowns
    <2>7. AdmissionsFit'
        BY <1>14, <1>c, <1>00 DEF BeginDestroy, Drained, Goes, TearFails,
           AdmissionsFit, Participants, ParticipantRecords
    <2> QED
        BY <2>1, <2>2, <2>3, <2>4, <2>5, <2>6, <2>7
<1>15. ASSUME NEW t \in TearDowns, EndDestroy(t) PROVE HostedInv'
    <2>1. HostedTypes'
        <3>1. tear' \in [TearDowns -> TearSteps]
            BY <1>15, <1>b DEF EndDestroy, Goes, TearSteps
        <3> QED
            BY <1>15, <3>1 DEF EndDestroy, Goes, HostedTypes, LaunchSteps
    <2>2. HostIsSound(dbos)'
        BY <1>15 DEF EndDestroy, Goes, LifecycleFits, LaunchFits, OperationsFit,
           LaunchSteps
    <2>3. LifecycleFits'
        BY <1>15, <1>b DEF EndDestroy, Goes, LifecycleFits, LaunchFits, TearFits,
           OperationsFit, LaunchSteps, TearDowns
    <2>4. LaunchFits'
        BY <1>15, <1>b DEF EndDestroy, Goes, LifecycleFits, LaunchFits, LaunchSteps,
           TearDowns
    <2>5. TearFits'
        BY <1>15, <1>b DEF EndDestroy, Goes, LifecycleFits, LaunchFits, TearFits,
           OperationsFit, LaunchSteps, TearDowns
    <2>6. OperationsFit'
        BY <1>15, <1>b, <1>d DEF EndDestroy, Goes, LifecycleFits, LaunchFits,
           TearFits, OperationsFit, LaunchSteps, TearDowns
    <2>7. AdmissionsFit'
        BY <1>15, <1>c, <1>00 DEF EndDestroy, Goes, AdmissionsFit, Participants,
           ParticipantRecords
    <2> QED
        BY <2>1, <2>2, <2>3, <2>4, <2>5, <2>6, <2>7
<1>16. ASSUME NEW t \in TearDowns, GiveUpTear(t) PROVE HostedInv'
    <2>1. HostedTypes'
        <3>1. dbos' \in RuntimeRecords
            BY <1>16, <1>a, <1>f DEF GiveUpTear, TearFails, Goes
        <3>2. tear' \in [TearDowns -> TearSteps]
            BY <1>16, <1>b DEF GiveUpTear, TearFails, Goes, TearSteps
        <3> QED
            BY <1>16, <3>1, <3>2 DEF GiveUpTear, TearFails, Goes, HostedTypes,
               LaunchSteps
    <2>2. HostIsSound(dbos)'
        BY <1>16, <1>f DEF GiveUpTear, TearFails, Goes, LifecycleFits, LaunchFits,
           OperationsFit, LaunchSteps
    <2>3. LifecycleFits'
        BY <1>16, <1>b, <1>f DEF GiveUpTear, TearFails, Goes, LifecycleFits,
           LaunchFits, TearFits, OperationsFit, LaunchSteps, TearDowns
    <2>4. LaunchFits'
        BY <1>16, <1>b, <1>f DEF GiveUpTear, TearFails, Goes, LifecycleFits,
           LaunchFits, LaunchSteps, TearDowns
    <2>5. TearFits'
        BY <1>16, <1>b, <1>f DEF GiveUpTear, TearFails, Goes, LifecycleFits,
           LaunchFits, TearFits, OperationsFit, LaunchSteps, TearDowns
    <2>6. OperationsFit'
        BY <1>16, <1>b, <1>d, <1>f DEF GiveUpTear, TearFails, Goes, LifecycleFits,
           LaunchFits, TearFits, OperationsFit, LaunchSteps, TearDowns
    <2>7. AdmissionsFit'
        BY <1>16, <1>c, <1>00 DEF GiveUpTear, TearFails, Goes, AdmissionsFit,
           Participants, ParticipantRecords
    <2> QED
        BY <2>1, <2>2, <2>3, <2>4, <2>5, <2>6, <2>7
<1>17. ASSUME NEW t \in TearDowns, Mark(t) PROVE HostedInv'
    <2>0. /\ tear[t] = "mark" /\ UNCHANGED <<launcher, engine, op, drives, cleanupFailed>>
          /\ \/ tear' = [tear EXCEPT ![t] = "release"] /\ UNCHANGED dbos
             \/ tear' = [tear EXCEPT ![t] = "ended"] /\ Fence
             \/ tear' = [tear EXCEPT ![t] = "ended"] /\ UNCHANGED dbos
        BY <1>17 DEF Mark, TearFails, Goes
    <2>1. HostedTypes'
        <3>1. dbos' \in RuntimeRecords
            BY <2>0, <1>a, <1>f
        <3>2. participant' \in [Participants -> ParticipantRecords]
            <4>1. \A p \in Participants :
                     [participant[p] EXCEPT !.launched = FALSE, !.accepting = FALSE,
                                            !.closing = FALSE, !.closed = TRUE]
                        \in ParticipantRecords
                BY <1>c, FlagIsWritten
            <4> QED
                BY <1>17, <4>1 DEF Mark
        <3>3. tear' \in [TearDowns -> TearSteps]
            BY <2>0, <1>b DEF TearSteps
        <3> QED
            BY <2>0, <3>1, <3>2, <3>3 DEF HostedTypes, LaunchSteps
    <2>2. HostIsSound(dbos)'
        BY <2>0, <1>f DEF LifecycleFits, LaunchFits, OperationsFit, LaunchSteps
    <2>3. LifecycleFits'
        BY <2>0, <1>b, <1>f DEF LifecycleFits, LaunchFits, TearFits, OperationsFit,
           LaunchSteps, TearDowns
    <2>4. LaunchFits'
        BY <2>0, <1>b, <1>f DEF LifecycleFits, LaunchFits, LaunchSteps, TearDowns
    <2>5. TearFits'
        BY <2>0, <1>b, <1>f DEF LifecycleFits, LaunchFits, TearFits, OperationsFit,
           LaunchSteps, TearDowns
    <2>6. OperationsFit'
        BY <2>0, <1>b, <1>d, <1>f DEF LifecycleFits, LaunchFits, TearFits,
           OperationsFit, LaunchSteps, TearDowns
    <2>7. AdmissionsFit'
        BY <1>17, <1>c DEF Mark, AdmissionsFit, Participants, ParticipantRecords
    <2> QED
        BY <2>1, <2>2, <2>3, <2>4, <2>5, <2>6, <2>7
<1>18. ASSUME NEW t \in TearDowns, EndTear(t) PROVE HostedInv'
    <2>0. /\ dbos' \in RuntimeRecords /\ HostIsSound(dbos')
          /\ tear[t] = "release" /\ tear' = [tear EXCEPT ![t] = "ended"]
          /\ UNCHANGED <<launcher, participant, engine, op, drives, cleanupFailed>>
          /\ \/ t = "worker" /\ dbos.state = "closing" /\ dbos'.state = "fenced"
             \/ t = "worker" /\ dbos.state = "closing" /\ dbos'.state = "closed"
             \/ t = "rollback" /\ dbos.state = "launching" /\ dbos'.state = "closed"
             \/ dbos.state = "fenced" /\ UNCHANGED dbos
        <3>1. ASSUME NEW owner \in Closers \union {NoThread}, Release(owner),
                     dbos.state \in {"closing", "launching"}
              PROVE  dbos' \in RuntimeRecords /\ HostIsSound(dbos') /\ dbos'.state = "closed"
            BY <1>a, <3>1, ReleasedHost DEF HostIsSound
        <3>2. dbos.owner \in Closers \union {NoThread}
            BY <1>a DEF RuntimeRecords
        <3> QED
            BY <1>18, <1>a, <1>f, <3>1, <3>2 DEF EndTear, Goes
    <2>1. HostedTypes'
        BY <2>0, <1>b DEF HostedTypes, TearSteps, LaunchSteps
    <2>2. HostIsSound(dbos)'
        BY <2>0
    <2>3. LifecycleFits'
        BY <2>0, <1>b DEF LifecycleFits, LaunchFits, TearFits, OperationsFit,
           LaunchSteps, TearDowns
    <2>4. LaunchFits'
        BY <2>0, <1>b DEF LifecycleFits, LaunchFits, LaunchSteps, TearDowns
    <2>5. TearFits'
        BY <2>0, <1>b DEF LifecycleFits, LaunchFits, TearFits, OperationsFit,
           LaunchSteps, TearDowns
    <2>6. OperationsFit'
        BY <2>0, <1>b, <1>d DEF LifecycleFits, LaunchFits, TearFits, OperationsFit,
           LaunchSteps, TearDowns
    <2>7. AdmissionsFit'
        BY <2>0 DEF AdmissionsFit
    <2> QED
        BY <2>1, <2>2, <2>3, <2>4, <2>5, <2>6, <2>7
<1>19. ASSUME NEW a \in Callers, NEW p \in Participants, NEW reads \in BOOLEAN,
             OpChecks(a, p, reads)
      PROVE  HostedInv'
    <2>1. HostedTypes'
        <3>1. participant' \in [Participants -> ParticipantRecords]
            BY <1>19, <1>c DEF OpChecks, ParticipantRecords
        <3>2. op' \in [Callers -> [pc : {"idle", "checked", "in"}, at : Participants]]
            BY <1>19, <1>d DEF OpChecks
        <3> QED
            BY <1>19, <3>1, <3>2 DEF OpChecks, HostedTypes, LaunchSteps
    <2>2. HostIsSound(dbos)'
        BY <1>19 DEF OpChecks, LifecycleFits, LaunchFits, OperationsFit, LaunchSteps
    <2>3. LifecycleFits'
        BY <1>19, <1>b DEF OpChecks, LifecycleFits, LaunchFits, TearFits,
           OperationsFit, LaunchSteps, TearDowns
    <2>4. LaunchFits'
        BY <1>19, <1>b DEF OpChecks, LifecycleFits, LaunchFits, LaunchSteps,
           TearDowns
    <2>5. TearFits'
        BY <1>19, <1>b DEF OpChecks, LifecycleFits, LaunchFits, TearFits,
           OperationsFit, LaunchSteps, TearDowns
    <2>6. OperationsFit'
        BY <1>19, <1>b, <1>d DEF OpChecks, LifecycleFits, LaunchFits, TearFits,
           OperationsFit, LaunchSteps, TearDowns
    <2>7. AdmissionsFit'
        BY <1>19, <1>c, <1>00 DEF OpChecks, AdmissionsFit, Participants,
           ParticipantRecords
    <2> QED
        BY <2>1, <2>2, <2>3, <2>4, <2>5, <2>6, <2>7
<1>20. ASSUME NEW a \in Callers, OpBegins(a) PROVE HostedInv'
    <2>1. HostedTypes'
        <3>1. participant' \in [Participants -> ParticipantRecords]
            BY <1>20, <1>c, <1>d DEF OpBegins, ParticipantRecords
        <3>2. op' \in [Callers -> [pc : {"idle", "checked", "in"}, at : Participants]]
            BY <1>20, <1>d DEF OpBegins
        <3> QED
            BY <1>20, <3>1, <3>2 DEF OpBegins, HostedTypes, LaunchSteps
    <2>2. HostIsSound(dbos)'
        BY <1>20 DEF OpBegins, LifecycleFits, LaunchFits, OperationsFit, LaunchSteps
    <2>3. LifecycleFits'
        BY <1>20, <1>b DEF OpBegins, LifecycleFits, LaunchFits, TearFits,
           OperationsFit, LaunchSteps, TearDowns
    <2>4. LaunchFits'
        BY <1>20, <1>b DEF OpBegins, LifecycleFits, LaunchFits, LaunchSteps,
           TearDowns
    <2>5. TearFits'
        BY <1>20, <1>b DEF OpBegins, LifecycleFits, LaunchFits, TearFits,
           OperationsFit, LaunchSteps, TearDowns
    <2>6. OperationsFit'
        BY <1>20, <1>b, <1>d DEF OpBegins, LifecycleFits, LaunchFits, TearFits,
           OperationsFit, LaunchSteps, TearDowns
    <2>7. AdmissionsFit'
        BY <1>20, <1>c, <1>00 DEF OpBegins, AdmissionsFit, Participants,
           ParticipantRecords
    <2> QED
        BY <2>1, <2>2, <2>3, <2>4, <2>5, <2>6, <2>7
<1>21. ASSUME NEW a \in Callers, OpEnds(a) PROVE HostedInv'
    <2>1. HostedTypes'
        <3>1. dbos' \in RuntimeRecords
            BY <1>21, <1>a, <1>f DEF OpEnds
        <3>2. participant' \in [Participants -> ParticipantRecords]
            BY <1>21, <1>00, <1>c, <1>d, AdmissionIsClosed DEF OpEnds
        <3>3. op' \in [Callers -> [pc : {"idle", "checked", "in"}, at : Participants]]
            BY <1>21, <1>d DEF OpEnds
        <3> QED
            BY <1>21, <3>1, <3>2, <3>3 DEF OpEnds, HostedTypes, LaunchSteps
    <2>2. HostIsSound(dbos)'
        BY <1>21, <1>f DEF OpEnds, LifecycleFits, LaunchFits, OperationsFit,
           LaunchSteps
    <2>3. LifecycleFits'
        BY <1>21, <1>b, <1>f DEF OpEnds, LifecycleFits, LaunchFits, TearFits,
           OperationsFit, LaunchSteps, TearDowns
    <2>4. LaunchFits'
        BY <1>21, <1>b, <1>f DEF OpEnds, LifecycleFits, LaunchFits, LaunchSteps,
           TearDowns
    <2>5. TearFits'
        BY <1>21, <1>b, <1>f DEF OpEnds, LifecycleFits, LaunchFits, TearFits,
           OperationsFit, LaunchSteps, TearDowns
    <2>6. OperationsFit'
        BY <1>21, <1>b, <1>d, <1>f DEF OpEnds, LifecycleFits, LaunchFits, TearFits,
           OperationsFit, LaunchSteps, TearDowns
    <2>7. AdmissionsFit'
        BY <1>21, <1>c, <1>00 DEF OpEnds, AdmissionsFit, Participants,
           ParticipantRecords
    <2> QED
        BY <2>1, <2>2, <2>3, <2>4, <2>5, <2>6, <2>7
<1>22. CASE DriveStarts
    <2>1. HostedTypes'
        <3>1. drives' \in Nat
            BY <1>22 DEF DriveStarts, HostedTypes
        <3> QED
            BY <1>22, <3>1 DEF DriveStarts, HostedTypes, LaunchSteps
    <2>2. HostIsSound(dbos)'
        BY <1>22 DEF DriveStarts, LifecycleFits, LaunchFits, OperationsFit,
           LaunchSteps
    <2>3. LifecycleFits'
        BY <1>22, <1>b DEF DriveStarts, LifecycleFits, LaunchFits, TearFits,
           OperationsFit, LaunchSteps, TearDowns
    <2>4. LaunchFits'
        BY <1>22, <1>b DEF DriveStarts, LifecycleFits, LaunchFits, LaunchSteps,
           TearDowns
    <2>5. TearFits'
        BY <1>22, <1>b DEF DriveStarts, LifecycleFits, LaunchFits, TearFits,
           OperationsFit, LaunchSteps, TearDowns
    <2>6. OperationsFit'
        BY <1>22, <1>b, <1>d DEF DriveStarts, LifecycleFits, LaunchFits, TearFits,
           OperationsFit, LaunchSteps, TearDowns
    <2>7. AdmissionsFit'
        BY <1>22, <1>c, <1>00 DEF DriveStarts, AdmissionsFit, Participants,
           ParticipantRecords
    <2> QED
        BY <2>1, <2>2, <2>3, <2>4, <2>5, <2>6, <2>7
<1>23. CASE DriveEnds
    <2>1. HostedTypes'
        <3>1. participant' \in [Participants -> ParticipantRecords]
            BY <1>23, <1>00, <1>c, AdmissionIsClosed DEF DriveEnds
        <3>2. drives' \in Nat
            BY <1>23 DEF DriveEnds, HostedTypes
        <3> QED
            BY <1>23, <3>1, <3>2 DEF DriveEnds, HostedTypes, LaunchSteps
    <2>2. HostIsSound(dbos)'
        BY <1>23 DEF DriveEnds, LifecycleFits, LaunchFits, OperationsFit,
           LaunchSteps
    <2>3. LifecycleFits'
        BY <1>23, <1>b DEF DriveEnds, LifecycleFits, LaunchFits, TearFits,
           OperationsFit, LaunchSteps, TearDowns
    <2>4. LaunchFits'
        BY <1>23, <1>b DEF DriveEnds, LifecycleFits, LaunchFits, LaunchSteps,
           TearDowns
    <2>5. TearFits'
        BY <1>23, <1>b DEF DriveEnds, LifecycleFits, LaunchFits, TearFits,
           OperationsFit, LaunchSteps, TearDowns
    <2>6. OperationsFit'
        BY <1>23, <1>b, <1>d DEF DriveEnds, LifecycleFits, LaunchFits, TearFits,
           OperationsFit, LaunchSteps, TearDowns
    <2>7. AdmissionsFit'
        BY <1>23, <1>c, <1>00 DEF DriveEnds, AdmissionsFit, Participants,
           ParticipantRecords
    <2> QED
        BY <2>1, <2>2, <2>3, <2>4, <2>5, <2>6, <2>7
<1>24. CASE GlobalsChange
    <2>1. HostedTypes'
        BY <1>24 DEF GlobalsChange, HostedTypes
    <2>2. HostIsSound(dbos)'
        BY <1>24 DEF GlobalsChange, LifecycleFits, LaunchFits, OperationsFit,
           LaunchSteps
    <2>3. LifecycleFits'
        BY <1>24, <1>b DEF GlobalsChange, LifecycleFits, LaunchFits, TearFits,
           OperationsFit, LaunchSteps, TearDowns
    <2>4. LaunchFits'
        BY <1>24, <1>b DEF GlobalsChange, LifecycleFits, LaunchFits, LaunchSteps,
           TearDowns
    <2>5. TearFits'
        BY <1>24, <1>b DEF GlobalsChange, LifecycleFits, LaunchFits, TearFits,
           OperationsFit, LaunchSteps, TearDowns
    <2>6. OperationsFit'
        BY <1>24, <1>b, <1>d DEF GlobalsChange, LifecycleFits, LaunchFits, TearFits,
           OperationsFit, LaunchSteps, TearDowns
    <2>7. AdmissionsFit'
        BY <1>24, <1>c, <1>00 DEF GlobalsChange, AdmissionsFit, Participants,
           ParticipantRecords
    <2> QED
        BY <2>1, <2>2, <2>3, <2>4, <2>5, <2>6, <2>7
<1>25. CASE UNCHANGED hostedVars
    <2>1. HostedTypes'
        BY <1>25 DEF hostedVars, HostedTypes
    <2>2. HostIsSound(dbos)'
        BY <1>25 DEF hostedVars, LifecycleFits, LaunchFits, OperationsFit,
           LaunchSteps
    <2>3. LifecycleFits'
        BY <1>25, <1>b DEF hostedVars, LifecycleFits, LaunchFits, TearFits,
           OperationsFit, LaunchSteps, TearDowns
    <2>4. LaunchFits'
        BY <1>25, <1>b DEF hostedVars, LifecycleFits, LaunchFits, LaunchSteps,
           TearDowns
    <2>5. TearFits'
        BY <1>25, <1>b DEF hostedVars, LifecycleFits, LaunchFits, TearFits,
           OperationsFit, LaunchSteps, TearDowns
    <2>6. OperationsFit'
        BY <1>25, <1>b, <1>d DEF hostedVars, LifecycleFits, LaunchFits, TearFits,
           OperationsFit, LaunchSteps, TearDowns
    <2>7. AdmissionsFit'
        BY <1>25, <1>c, <1>00 DEF hostedVars, AdmissionsFit, Participants,
           ParticipantRecords
    <2> QED
        BY <2>1, <2>2, <2>3, <2>4, <2>5, <2>6, <2>7
<1> QED
    BY <1>1, <1>2, <1>3, <1>4, <1>5, <1>6, <1>7, <1>8, <1>9, <1>10, <1>11, <1>12, <1>13,
       <1>14, <1>15, <1>16, <1>17, <1>18, <1>19, <1>20, <1>21, <1>22, <1>23, <1>24,
       <1>25 DEF HostedNext, TearDown

(* The process owner token goes back from a quiet host only, no operation meets
   a runtime that is being destroyed, and no closing or failing host takes on
   work (_close_worker, _rollback_launch, _cleanup_fenced_launch), for any
   number of threads that close, operations and workflows. *)
THEOREM ReleasedHostsAreQuiet == HostedSpec => []ReleasedHostIsQuiet
<1>1. HostedInv => ReleasedHostIsQuiet
    BY DEF HostedInv, HostedTypes, RuntimeRecords, HostIsSound,
           LifecycleFits, TearFits, OperationsFit, AdmissionsFit,
           ReleasedHostIsQuiet
<1> QED
    BY HostedInitFits, HostedStepFits, <1>1, PTL DEF HostedSpec
=============================================================================
