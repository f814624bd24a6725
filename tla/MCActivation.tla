---------------------------- MODULE MCActivation ----------------------------
(* The lane that orders the commands of a run and the loop an activation
   drives, explored one after the other: `part` says which one moves, the other
   stays where it starts. *)
EXTENDS CommandLane, MCAgentLoop

VARIABLE part

\* Where the lane moves, the limits of the loop make no difference.
ActivationInit ==
    /\ part \in {"lane", "loop"}
    /\ LaneInit /\ LoopInit
    /\ part = "lane" => history.limits = OneTurn

ActivationNext ==
    /\ UNCHANGED part
    /\ \/ part = "lane" /\ LaneNext /\ UNCHANGED loopVars
       \/ part = "loop" /\ LoopNext /\ UNCHANGED laneVars

ActivationSpec == ActivationInit /\ [][ActivationNext]_<<part, laneVars, loopVars>>

\* The command ids of the lane are the call ids of the loop.
Symmetry == Permutations(CommandIds) \union Permutations(Attempts)
=============================================================================
