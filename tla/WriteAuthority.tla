---------------------------- MODULE WriteAuthority ----------------------------
(***************************************************************************)
(* ActivationWriteAuthority: the sticky, process-local capability that all *)
(* threads of an activation mutate under.  A revocation first publishes    *)
(* its request and then waits for the lock, so a mutation that has entered *)
(* ends before revoke returns and no other enters.  The lock is reentrant: *)
(* an operation may revoke the authority it runs under.                    *)
(***************************************************************************)
EXTENDS Naturals, FiniteSets

CONSTANTS
    Agents,      \* threads that use the authority
    NoAgent,     \* nobody holds the lock
    Callbacks    \* revoke callbacks, each registered at most once

ASSUME AgentsAssumption == NoAgent \notin Agents

VARIABLES
    requested,   \* _revoke_requested
    revoked,     \* _revoked
    mutex,       \* the thread inside _lock
    callbacks,   \* _callbacks
    agents,      \* per thread: what it does
    added,       \* callbacks whose registration was made
    removed,     \* callbacks whose registration was undone
    ran          \* how often each callback ran

localVars == <<requested, revoked, mutex, callbacks, agents, added, removed, ran>>

-----------------------------------------------------------------------------
\* `stage`: a thread rests (perhaps in its operation), makes an external call,
\* waits to revoke, runs the callbacks of its revoke, or its own that came late;
\* `inside`: in the operation of guard_local_mutation, holding the lock;
\* `running`: the callbacks that a revoke, or a late registration, has to run.
Resting == [stage |-> "rest", inside |-> FALSE, running |-> {}]

Enters(t) == mutex \in {NoAgent, t}

\* Mutant: without waiting for the operation that is under way.
EntersUnlocked(t) == TRUE

\* The revocation waits for the lock.
RevokeEnters(t) == Enters(t)

\* guard_local_mutation: the request is read under the lock ...
StartMutation(t) ==
    /\ agents[t] = Resting /\ Enters(t) /\ ~requested
    /\ mutex' = t
    /\ agents' = [agents EXCEPT ![t].inside = TRUE]
    /\ UNCHANGED <<requested, revoked, callbacks, added, removed, ran>>

\* ... and the lock is held until the operation has ended.  Its result is
\* suppressed when the request was made meanwhile.
EndMutation(t) ==
    /\ agents[t].stage = "rest" /\ agents[t].inside
    /\ mutex' = NoAgent
    /\ agents' = [agents EXCEPT ![t] = Resting]
    /\ UNCHANGED <<requested, revoked, callbacks, added, removed, ran>>

\* guard_external_call asserts the authority before and after, and holds no lock
\* across the call.
StartExternal(t) ==
    /\ agents[t] = Resting /\ Enters(t) /\ ~requested
    /\ agents' = [agents EXCEPT ![t].stage = "external"]
    /\ UNCHANGED <<requested, revoked, mutex, callbacks, added, removed, ran>>

EndExternal(t) ==
    /\ agents[t].stage = "external" /\ Enters(t)
    /\ agents' = [agents EXCEPT ![t].stage = "rest"]
    /\ UNCHANGED <<requested, revoked, mutex, callbacks, added, removed, ran>>

\* revoke publishes the request ...
RequestRevoke(t) ==
    /\ agents[t].stage = "rest"
    /\ requested' = TRUE
    /\ agents' = [agents EXCEPT ![t].stage = "waiting"]
    /\ UNCHANGED <<revoked, mutex, callbacks, added, removed, ran>>

\* ... and, once it has the lock, the first revoke takes the callbacks.
Revoke(t) ==
    /\ agents[t].stage = "waiting" /\ RevokeEnters(t)
    /\ revoked' = TRUE
    /\ callbacks' = {}
    /\ agents' = [agents EXCEPT ![t] =
                     [@ EXCEPT !.stage = "notifying", !.running = IF revoked THEN {} ELSE callbacks]]
    /\ UNCHANGED <<requested, mutex, added, removed, ran>>

\* Mutant: registered whether or not the revocation was requested.
RegisteredAlways(t, c) ==
    /\ callbacks' = callbacks \union {c}
    /\ UNCHANGED agents

\* add_revoke_callback: one that comes after the request runs at once, outside
\* the lock.
Registered(t, c) ==
    IF requested
    THEN /\ agents' = [agents EXCEPT ![t] = [@ EXCEPT !.stage = "late", !.running = {c}]]
         /\ UNCHANGED callbacks
    ELSE callbacks' = callbacks \union {c} /\ UNCHANGED agents

AddCallback(t, c) ==
    /\ agents[t].stage = "rest" /\ Enters(t)
    /\ c \notin added
    /\ Registered(t, c)
    /\ added' = added \union {c}
    /\ UNCHANGED <<requested, revoked, mutex, removed, ran>>

\* The unsubscribe function of a registration.
RemoveCallback(t, c) ==
    /\ agents[t].stage = "rest" /\ Enters(t) /\ c \in added \ removed
    /\ callbacks' = callbacks \ {c}
    /\ removed' = removed \union {c}
    /\ UNCHANGED <<requested, revoked, mutex, agents, added, ran>>

Calling(t) == agents[t].stage \in {"notifying", "late"}

RunCallback(t) ==
    /\ Calling(t)
    /\ \E c \in agents[t].running :
          /\ ran' = [ran EXCEPT ![c] = @ + 1]
          /\ agents' = [agents EXCEPT ![t].running = @ \ {c}]
    /\ UNCHANGED <<requested, revoked, mutex, callbacks, added, removed>>

Return(t) ==
    /\ Calling(t) /\ agents[t].running = {}
    /\ agents' = [agents EXCEPT ![t].stage = "rest"]
    /\ UNCHANGED <<requested, revoked, mutex, callbacks, added, removed, ran>>

-----------------------------------------------------------------------------
LocalInit ==
    /\ requested = FALSE /\ revoked = FALSE /\ mutex = NoAgent /\ callbacks = {}
    /\ agents = [t \in Agents |-> Resting]
    /\ added = {} /\ removed = {} /\ ran = [c \in Callbacks |-> 0]

LocalNext ==
    \E t \in Agents :
        \/ StartMutation(t) \/ EndMutation(t) \/ StartExternal(t) \/ EndExternal(t)
        \/ RequestRevoke(t) \/ Revoke(t) \/ RunCallback(t) \/ Return(t)
        \/ \E c \in Callbacks : AddCallback(t, c) \/ RemoveCallback(t, c)

LocalSpec == LocalInit /\ [][LocalNext]_localVars

-----------------------------------------------------------------------------
(* Properties *)

(* Revocation drains the activation: from the moment a revoke has the lock, and
   so when it returns, no other thread is inside a guarded mutation; a thread
   that revokes from inside its own operation is the only exception. *)
RevocationDrains ==
    \A t, u \in Agents : agents[t].stage = "notifying" /\ agents[u].inside => u = t

(* Every bridge is told once: a callback runs at most once, and when nobody is
   running callbacks any more, each that is registered with a revoked authority
   has run, however registration, removal and revocations interleaved. *)
BridgesAreToldOnce ==
    /\ \A c \in Callbacks : ran[c] <= 1
    /\ revoked /\ (\A t \in Agents : ~Calling(t))
           => \A c \in added \ removed : ran[c] = 1
=============================================================================
