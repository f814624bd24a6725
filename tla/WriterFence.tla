----------------------------- MODULE WriterFence -----------------------------
(***************************************************************************)
(* The writer lease as the modules of one hosted activation use it: what   *)
(* AuthorityStore promises (FencedLease), and nothing of how it keeps the  *)
(* promise.  An activation is known by the generation it was granted; the  *)
(* stores accept its writes while no higher one was granted.               *)
(***************************************************************************)
EXTENDS Integers, Sequences

CONSTANTS
    Activations,     \* activations that may run at one time
    NoActivation,    \* nobody holds the lease
    MaxGeneration    \* bound on writer generations

ASSUME ActivationsAssumption == NoActivation \notin Activations
ASSUME GenerationsAssumption == MaxGeneration \in Nat

VARIABLES
    generation,   \* writer generations granted
    holder        \* activation that holds the lease

leaseVars == <<generation, holder>>

Lease == INSTANCE FencedLease WITH Owners <- Activations, NoOwner <- NoActivation

\* _current_writer_locked: the token is the row's and the lease has not run out.
Holds(a, token) == holder = a /\ generation = token

\* claim by a new activation, within the bound.
Granted(a) == generation < MaxGeneration /\ Lease!Grant(a)

\* An activation that ends releases its lease, or leaves it to expire.
Released(a) ==
    /\ holder' \in IF holder = a THEN {a, NoActivation} ELSE {holder}
    /\ UNCHANGED generation
=============================================================================
