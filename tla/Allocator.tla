------------------------------ MODULE Allocator ------------------------------
(***************************************************************************)
(* What a pool of the runtime promises its users (samm_pool.h, the         *)
(* comments on samm_slab_pool_alloc and samm_slab_pool_free): the slot it  *)
(* hands out is nobody else's until its user gives it back.                *)
(***************************************************************************)
CONSTANT Slots  \* the addresses of slots

VARIABLE out    \* the slots that have a user

Init == out = {}

Take(s) == s \notin out /\ out' = out \cup {s}
GiveBack(s) == s \in out /\ out' = out \ {s}
\* The pool is destroyed: what was out is reported as leaked.
Destroy == out' = {}

Next == (\E s \in Slots : Take(s) \/ GiveBack(s)) \/ Destroy

Spec == Init /\ [][Next]_out
=============================================================================
