---------------------------- MODULE MCPublication ----------------------------
(* What a hosted run publishes, its event journal and its durable streams,
   explored one after the other: `part` says which one moves, the other stays
   where it starts. *)
EXTENDS EventPublication, DurableStream, TLC

VARIABLE part

eventState == <<eventJournal, cursors, disk, proc>>
streamState == <<durableCall, streamCall, streamTables, writer, published>>

PublicationInit ==
    /\ EventInit /\ StreamInit
    /\ part \in {"events", "stream"} /\ (part # "stream" => ~durableCall)

PublicationNext ==
    /\ UNCHANGED part
    /\ \/ part = "events" /\ EventNext /\ UNCHANGED streamState
       \/ part = "stream" /\ StreamNext /\ UNCHANGED eventState

PublicationSpec ==
    PublicationInit /\ [][PublicationNext]_<<part, leaseVars, eventState, streamState>>

Symmetry == Permutations(Activations) \union Permutations(Threads)
=============================================================================
