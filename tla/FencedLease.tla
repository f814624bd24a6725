---------------------------- MODULE FencedLease ----------------------------
(***************************************************************************)
(* What the writer authority of one run promises, with everything about   *)
(* rows, clocks, transactions and lost responses left out.  A run has at   *)
(* most one holder; every grant opens a new generation; a holder loses its *)
(* authority before anybody else can be granted it, and a generation that  *)
(* has lapsed never comes back.                                            *)
(***************************************************************************)
EXTENDS Naturals

CONSTANTS Owners,   \* claim identities (owner_id), unique per activation
          NoOwner   \* nobody holds the run

VARIABLES generation,  \* generations granted so far
          holder       \* who may write now

vars == <<generation, holder>>

Init == generation = 0 /\ holder = NoOwner

\* A new writer generation starts, only while nobody holds the run.
Grant(o) ==
    /\ holder = NoOwner
    /\ holder' = o
    /\ generation' = generation + 1

\* The holder's lease expires or is released.
Lapse ==
    /\ holder # NoOwner
    /\ holder' = NoOwner
    /\ UNCHANGED generation

Next == Lapse \/ \E o \in Owners : Grant(o)

Spec == Init /\ [][Next]_vars
=============================================================================
