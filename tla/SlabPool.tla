------------------------------ MODULE SlabPool ------------------------------
(***************************************************************************)
(* A pool of slots of one size (zig_compiler/runtime/samm_pool.zig, and    *)
(* its C original qbe_basic_integrated/runtime/samm_pool.c): strings, list *)
(* headers, list atoms and objects come from pools.  An action is one call *)
(* under the mutex of the pool; alloc zeroes the slot and does not read    *)
(* it, so what a slot holds is left out, except for the link of the free   *)
(* list, which is the order of the sequence free.                          *)
(***************************************************************************)
EXTENDS Integers, Sequences, FiniteSets

CONSTANTS SlotsPerSlab, \* slots_per_slab (512 for list atoms)
          MaxSlabs,     \* MAX_SLABS (1024)
          Mallocs,      \* the blocks malloc can provide when no slab can be had
          NULL

SlabSlot == (1 .. MaxSlabs) \X (1 .. SlotsPerSlab)
Slots == SlabSlot \cup Mallocs

ASSUME PoolAssumption ==
    /\ SlotsPerSlab \in Nat \ {0} /\ MaxSlabs \in Nat \ {0}
    /\ Mallocs \cap SlabSlot = {} /\ NULL \notin Slots

VARIABLES
    free,      \* free_list, its head first
    slabs,     \* total_slabs
    capacity,  \* total_capacity
    in_use,    \* in_use
    foreign,   \* (history) the blocks malloc has provided: never given back to it
    out        \* (history) the slots that have a user

pool == <<free, slabs, capacity, in_use, foreign, out>>

\* The slots of a slab, in the order addSlab threads them: the first is the head.
SlabSlots(k) == [i \in 1 .. SlotsPerSlab |-> <<k, i>>]
FreeSlots == {free[i] : i \in 1 .. Len(free)}

PoolInit ==
    /\ free = << >> /\ slabs = 0 /\ capacity = 0
    /\ in_use = 0 /\ foreign = {} /\ out = {}

\* samm_slab_pool_init: the first slab, before there is a user.
AddFirstSlab ==
    /\ slabs = 0 /\ free = << >> /\ out = {}
    /\ free' = SlabSlots(1)
    /\ slabs' = 1 /\ capacity' = SlotsPerSlab
    /\ UNCHANGED <<in_use, foreign, out>>

\* A faulty variant: the head stays on the list.
AllocPopsKeeping(s) ==
    /\ free # << >> /\ s = Head(free)
    /\ in_use' = in_use + 1 /\ out' = out \cup {s}
    /\ UNCHANGED <<free, slabs, capacity, foreign>>

\* alloc, with a free slot at hand ...
AllocPops(s) ==
    /\ free # << >> /\ s = Head(free)
    /\ free' = Tail(free)
    /\ in_use' = in_use + 1 /\ out' = out \cup {s}
    /\ UNCHANGED <<slabs, capacity, foreign>>

\* ... with none, after addSlab threaded a new slab ...
AllocGrows(s) ==
    /\ free = << >> /\ slabs < MaxSlabs
    /\ s = <<slabs + 1, 1>>
    /\ free' = Tail(SlabSlots(slabs + 1))
    /\ slabs' = slabs + 1 /\ capacity' = capacity + SlotsPerSlab
    /\ in_use' = in_use + 1 /\ out' = out \cup {s}
    /\ UNCHANGED foreign

\* ... with none, when addSlab failed (too many slabs, or no memory): a block
\* of malloc, which no counter counts ...
AllocFallsBack(s) ==
    /\ free = << >> /\ s \in Mallocs \ foreign
    /\ foreign' = foreign \cup {s} /\ out' = out \cup {s}
    /\ UNCHANGED <<free, slabs, capacity, in_use>>

\* ... or null, when malloc failed as well.
AllocFails == free = << >> /\ UNCHANGED pool

Alloc(s) == AllocPops(s) \/ AllocGrows(s) \/ AllocFallsBack(s)

\* free: whatever the block is, it joins the free list; a counter that is 0
\* stays 0, with the warning "(double free?)".
Free(s) ==
    /\ free' = <<s>> \o free
    /\ in_use' = IF in_use > 0 THEN in_use - 1 ELSE 0
    /\ out' = out \ {s}
    /\ UNCHANGED <<slabs, capacity, foreign>>

\* deinit: the slabs go; blocks of malloc on the free list are forgotten.
Deinit ==
    /\ free' = << >> /\ slabs' = 0 /\ capacity' = 0 /\ in_use' = 0
    /\ out' = {}
    /\ UNCHANGED foreign

\* A user that keeps the contract: what it gives back it was given.
PoolNext ==
    \/ AddFirstSlab \/ AllocFails \/ Deinit
    \/ \E s \in Slots : Alloc(s) \/ (s \in out /\ Free(s))

PoolSpec == PoolInit /\ [][PoolNext]_pool

-----------------------------------------------------------------------------
PoolTypeOK ==
    /\ free \in Seq(Slots) /\ slabs \in 0 .. MaxSlabs
    /\ capacity \in Nat /\ in_use \in Nat
    /\ foreign \subseteq Mallocs /\ out \subseteq Slots

\* Every slot of every slab is either on the free list, once, or has a user,
\* whatever the mix of slots and of blocks of malloc that went through the
\* list: no slot is lost, and none is handed out twice.
Present == {s \in SlabSlot : s[1] <= slabs}
EverySlotOnce ==
    /\ \A i, j \in 1 .. Len(free) : free[i] = free[j] => i = j
    /\ FreeSlots \cap out = {}
    /\ Present \subseteq FreeSlots \cup out
    /\ FreeSlots \cup out \subseteq Present \cup foreign

\* samm_slab_pool_validate: free plus in use is the capacity, and in_use, what
\* deinit reports as leaked, is the number of slots that have a user, as long
\* as the pool never fell back to malloc.  From then on in_use may be short of
\* the users by the blocks that malloc provided.
CountersTrue ==
    /\ foreign = {} => /\ Len(free) + in_use = capacity
                       /\ in_use = Cardinality(out)
    /\ in_use <= Cardinality(out)
    /\ Cardinality(out) <= in_use + Cardinality(foreign)

\* What samm_slab_pool_validate looks for, and what it cannot see: a slot on
\* the free list twice, or on the list and with a user.
PoolSound == EverySlotOnce /\ CountersTrue

\* The pool keeps the promise of an allocator.
Users == INSTANCE Allocator
IsAllocator == Users!Spec
=============================================================================
