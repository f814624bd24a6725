------------------------------ MODULE MCRunSink ------------------------------
(* Model-checking instance of RunSink.  Two families of mutations are explored
   one after the other: a journal with a terminal record under two writers, and
   checkpoints with blobs under one. *)
EXTENDS RunSink, TLC

CONSTANTS EventIds, Outcomes, Blobs

VARIABLE family  \* the mutations of this behaviour

JournalMutations ==
    {EventMutation(s, id) : s \in 1 .. MaxSeq, id \in EventIds}
        \union {TerminalMutation(o) : o \in Outcomes}

CheckpointMutations ==
    {CheckpointMutation(s, refs, blobs) :
        s \in 0 .. 1, refs \in SUBSET Blobs, blobs \in SUBSET Blobs}

AllMutations == JournalMutations \union CheckpointMutations

\* The submitted mutations are of the family, whose writers are bounded.
InFamily ==
    /\ \A c \in Callers : work'[c].mutation # None =>
          (work'[c].mutation.kind = "checkpoint") = (family = "checkpoints")
    /\ family = "checkpoints" => row'.generation <= 1

FamiliesInit == SinkInit /\ family \in {"journal", "checkpoints"}

FamiliesSpec ==
    /\ FamiliesInit
    /\ [][SinkNext /\ InFamily /\ UNCHANGED family]_<<vars, family>>

Symmetry ==
    Permutations(Callers) \union Permutations(Owners) \union Permutations(EventIds)
        \union Permutations(Outcomes) \union Permutations(Blobs)
=============================================================================
