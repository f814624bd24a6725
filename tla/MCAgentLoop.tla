---------------------------- MODULE MCAgentLoop ----------------------------
(* Model-checking instances of AgentLoop: three runs with different limits.
   One turn with up to two calls at a time, long enough to resume after its
   tasks; two turns with one stop or one crash; two turns with a budget of one
   tool call and one repair of the output. *)
EXTENDS AgentLoop, TLC

OneTurn ==
    [toolCalls |-> 2, steps |-> 3, retries |-> 0, inputs |-> 1, batch |-> 2,
     faults |-> 2]

TwoTurns ==
    [toolCalls |-> 2, steps |-> 2, retries |-> 0, inputs |-> 2, batch |-> 1,
     faults |-> 1]

ShortBudget ==
    [toolCalls |-> 1, steps |-> 2, retries |-> 1, inputs |-> 2, batch |-> 2,
     faults |-> 2]

AllLimits == {OneTurn, TwoTurns, ShortBudget}

OneLimit == {OneTurn}

CallSymmetry == Permutations(Calls)
=============================================================================
