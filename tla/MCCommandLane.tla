---------------------------- MODULE MCCommandLane ----------------------------
(* Model-checking instance of CommandLane: ids, dispatchers and attempts are
   interchangeable. *)
EXTENDS CommandLane, TLC

Symmetry ==
    Permutations(CommandIds) \union Permutations(Dispatchers) \union Permutations(Attempts)
=============================================================================
