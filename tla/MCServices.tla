------------------------------ MODULE MCServices ------------------------------
(* The services around a run, explored one after the other: the durable model
   calls of its turns, the objects its commits bring, the Reference backend
   that hosts it and the local write authority of an activation.  `part` says
   which one moves, the others stay where they start. *)
EXTENDS ModelInvocation, ObjectCollection, ReferenceHost, WriteAuthority, TLC

VARIABLE part

\* Commands and outbox requests meet, and meet crashes and recoveries, while no
\* recovery has failed and the checkpoint is whole; else the run has the one or
\* the other, and a run that two processes had at the same time has neither:
\* there is what clients send.
HostBound ==
    /\ inbox # <<>> /\ emitted > 0 => failures = 0 /\ store.whole
    /\ shared => inbox = <<>> /\ emitted = 0

ServicesInit ==
    /\ part \in {"invocation", "objects", "host", "local"}
    /\ InvocationInit /\ ObjectInit /\ HostInit /\ LocalInit

ServicesNext ==
    /\ UNCHANGED part
    /\ \/ /\ part = "invocation" /\ InvocationNext
          /\ UNCHANGED <<objectVars, hostVars, localVars>>
       \/ /\ part = "objects" /\ ObjectNext
          /\ UNCHANGED <<invocationVars, hostVars, localVars>>
       \/ /\ part = "host" /\ HostNext /\ HostBound'
          /\ UNCHANGED <<invocationVars, objectVars, localVars>>
       \/ /\ part = "local" /\ LocalNext
          /\ UNCHANGED <<invocationVars, objectVars, hostVars>>

ServicesSpec ==
    ServicesInit /\ [][ServicesNext]_<<part, invocationVars, objectVars, hostVars, localVars>>

\* The activations of the first part are workers of the third and threads of
\* the fourth, its requests the uploaders of the second.
Symmetry == Permutations(Activations) \union Permutations(Requests)
=============================================================================
