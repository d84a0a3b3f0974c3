------------------------------ MODULE HashMap ------------------------------
(***************************************************************************)
(* The hash table behind HASHMAP (zig_compiler/runtime/hashmap_runtime.c): *)
(* open addressing with linear probing, tombstones for removed keys and a  *)
(* table that doubles when seven tenths of its slots have been used.       *)
(* A slot is EMPTY, a TOMBSTONE, or the entry of a key.  The hash an entry *)
(* stores is that of its key and is left out; strdup does not fail.  The   *)
(* loop of do_resize is one step per slot of the old table: nothing else   *)
(* happens between its steps, the program waits for the store.             *)
(***************************************************************************)
EXTENDS Integers, FiniteSets

CONSTANTS Keys, Values,
          Hash,            \* hash_string of each key
          InitialCapacity, \* 128, what DIM x AS HASHMAP asks for
          MinCapacity,     \* HASHMAP_MIN_CAPACITY (16)
          MaxCapacity,     \* the largest table calloc can supply
          NULL, EMPTY, TOMBSTONE

Entry == [key : Keys, value : Values \union {NULL}]
Slot == Entry \union {EMPTY, TOMBSTONE}

ASSUME HashMapAssumption ==
    /\ Hash \in [Keys -> Nat]
    /\ InitialCapacity \in Nat /\ MaxCapacity \in Nat
    /\ MinCapacity \in Nat /\ MinCapacity >= 4
    /\ EMPTY # TOMBSTONE /\ {EMPTY, TOMBSTONE} \cap Entry = {}
    /\ NULL \notin Entry

VARIABLES
    capacity, size, tombstones,
    entries,     \* the table: a slot for each of 0 .. capacity - 1
    old,         \* the table do_resize copies from
    oldCapacity, \* its slots; 0 outside do_resize
    pos,         \* how many of them have been copied
    pending,     \* the entry whose store made the table grow, or NULL
    result       \* what the last operation returned

table == <<capacity, size, tombstones, entries>>
resizing == <<old, oldCapacity, pos, pending>>
mapVars == <<table, resizing, result>>

Larger(a, b) == IF a < b THEN b ELSE a
EmptyTable(n) == [s \in 0 .. n - 1 |-> EMPTY]
Occupied(slot) == slot \notin {EMPTY, TOMBSTONE}
Holds(slot, k) == Occupied(slot) /\ slot.key = k

Init ==
    /\ capacity = Larger(InitialCapacity, MinCapacity)
    /\ size = 0 /\ tombstones = 0
    /\ entries = EmptyTable(capacity)
    /\ old = EmptyTable(0) /\ oldCapacity = 0 /\ pos = 0 /\ pending = NULL
    /\ result = NULL

(***************************************************************************)
(* find_slot: the slots of a probe, and where it ends.                     *)
(***************************************************************************)
Home(k) == Hash[k] % capacity

\* The slot find_slot looks at in its i-th turn: idx walks round the table.
Probe(k, i) ==
    IF Home(k) + i < capacity THEN Home(k) + i ELSE Home(k) + i - capacity

Turns == 0 .. capacity - 1
Least(S) == CHOOSE i \in S : \A j \in S : i <= j

\* The turns whose slot ends the probe: an empty one, or the entry of k.
Ends(k) == {i \in Turns : entries[Probe(k, i)] = EMPTY
                          \/ Holds(entries[Probe(k, i)], k)}

\* The tombstones it meets before turn n.
Passed(k, n) == {i \in Turns : i < n /\ entries[Probe(k, i)] = TOMBSTONE}

NoSlot == -1

\* for_insert = 0: the slot of k.
FindSlot(k) ==
    LET ends == Ends(k)
        s == Probe(k, Least(ends))
    IN  IF ends # {} /\ Holds(entries[s], k) THEN s ELSE NoSlot

\* for_insert = 1: the slot of k, else the first tombstone met on the way to
\* the first empty slot, else that slot.
SlotForInsert(k) ==
    LET ends == Ends(k)
        last == IF ends = {} THEN capacity ELSE Least(ends)
        passed == Passed(k, last)
    IN  IF ends # {} /\ Holds(entries[Probe(k, last)], k) THEN Probe(k, last)
        ELSE IF passed # {} THEN Probe(k, Least(passed))
        ELSE IF ends # {} THEN Probe(k, last)
        ELSE NoSlot

NeedsResize == (size + tombstones) * 10 >= capacity * 7

(***************************************************************************)
(* hashmap_insert                                                          *)
(***************************************************************************)
Idle == pending = NULL

\* After the resize: an entry of its own for k, or the one it has.
Put(k, v) ==
    LET s == SlotForInsert(k) IN
    IF s = NoSlot THEN result' = 0 /\ UNCHANGED table
    ELSE /\ entries' = [entries EXCEPT ![s] = [key |-> k, value |-> v]]
         /\ size' = IF Occupied(entries[s]) THEN size ELSE size + 1
         /\ tombstones' = IF entries[s] = TOMBSTONE THEN tombstones - 1
                          ELSE tombstones
         /\ result' = 1
         /\ UNCHANGED capacity

\* d(k) = v, with room in the table.  A value is NULL when it is the value of
\* an absent key, as in d(k) = d(absent).
Store(k, v) == Idle /\ ~NeedsResize /\ Put(k, v) /\ UNCHANGED resizing

NewCapacity == Larger(2 * capacity, MinCapacity)

\* d(k) = v, when do_resize has its new table.
Grow(k, v) ==
    /\ Idle /\ NeedsResize
    /\ NewCapacity <= MaxCapacity
    /\ capacity' = NewCapacity /\ entries' = EmptyTable(NewCapacity)
    /\ size' = 0 /\ tombstones' = 0
    /\ old' = entries /\ oldCapacity' = capacity /\ pos' = 0
    /\ pending' = [key |-> k, value |-> v]
    /\ UNCHANGED result

\* d(k) = v, when it has not: the store is lost, and the program not told.
GrowFails(k, v) ==
    /\ Idle /\ NeedsResize
    /\ result' = 0 /\ UNCHANGED <<table, resizing>>

\* A faulty variant: the loop starts at slot 1.
CopySlotSkipsFirst ==
    /\ pending # NULL /\ pos < oldCapacity
    /\ IF Occupied(old[pos]) /\ pos > 0 /\ SlotForInsert(old[pos].key) # NoSlot
       THEN /\ entries' = [entries EXCEPT
                              ![SlotForInsert(old[pos].key)] = old[pos]]
            /\ size' = size + 1
       ELSE UNCHANGED <<entries, size>>
    /\ pos' = pos + 1
    /\ UNCHANGED <<capacity, tombstones, old, oldCapacity, pending, result>>

\* One turn of the loop of do_resize.  Without a slot the entry is dropped.
CopySlot ==
    /\ pending # NULL /\ pos < oldCapacity
    /\ IF Occupied(old[pos]) /\ SlotForInsert(old[pos].key) # NoSlot
       THEN /\ entries' = [entries EXCEPT
                              ![SlotForInsert(old[pos].key)] = old[pos]]
            /\ size' = size + 1
       ELSE UNCHANGED <<entries, size>>
    /\ pos' = pos + 1
    /\ UNCHANGED <<capacity, tombstones, old, oldCapacity, pending, result>>

\* do_resize frees the old table; the store goes on.
GrowEnds ==
    /\ pending # NULL /\ pos = oldCapacity
    /\ Put(pending.key, pending.value)
    /\ old' = EmptyTable(0) /\ oldCapacity' = 0 /\ pos' = 0 /\ pending' = NULL

(***************************************************************************)
(* The other operations.                                                   *)
(***************************************************************************)
ValueAt(s) == IF s = NoSlot THEN NULL ELSE entries[s].value

\* hashmap_lookup: d(k)
Fetch(k) ==
    /\ Idle
    /\ result' = ValueAt(FindSlot(k)) /\ UNCHANGED <<table, resizing>>

\* hashmap_has_key: whether hashmap_lookup answers a value.
HasKey(k) ==
    /\ Idle
    /\ result' = IF ValueAt(FindSlot(k)) # NULL THEN 1 ELSE 0
    /\ UNCHANGED <<table, resizing>>

\* A faulty variant: the slot of a removed key is emptied.
RemoveEmpties(k) ==
    /\ Idle
    /\ LET s == FindSlot(k) IN
       IF s = NoSlot THEN result' = 0 /\ UNCHANGED table
       ELSE /\ entries' = [entries EXCEPT ![s] = EMPTY]
            /\ size' = size - 1
            /\ result' = 1
            /\ UNCHANGED <<capacity, tombstones>>
    /\ UNCHANGED resizing

\* hashmap_remove
Remove(k) ==
    /\ Idle
    /\ LET s == FindSlot(k) IN
       IF s = NoSlot THEN result' = 0 /\ UNCHANGED table
       ELSE /\ entries' = [entries EXCEPT ![s] = TOMBSTONE]
            /\ size' = size - 1 /\ tombstones' = tombstones + 1
            /\ result' = 1
            /\ UNCHANGED capacity
    /\ UNCHANGED resizing

\* hashmap_size
Size == Idle /\ result' = size /\ UNCHANGED <<table, resizing>>

\* hashmap_clear; the method is compiled to a 0.
Clear ==
    /\ Idle
    /\ entries' = EmptyTable(capacity) /\ size' = 0 /\ tombstones' = 0
    /\ result' = 0
    /\ UNCHANGED <<capacity, resizing>>

StoreSteps ==
    \/ \E k \in Keys, v \in Values \union {NULL} :
          Store(k, v) \/ Grow(k, v) \/ GrowFails(k, v)
    \/ CopySlot \/ GrowEnds

Queries == (\E k \in Keys : Fetch(k) \/ HasKey(k)) \/ Size

Next == StoreSteps \/ Queries \/ (\E k \in Keys : Remove(k)) \/ Clear

Spec == Init /\ [][Next]_mapVars

(***************************************************************************)
(* Properties                                                              *)
(***************************************************************************)
TypeOK ==
    /\ capacity \in Nat /\ capacity >= MinCapacity
    /\ size \in Nat /\ tombstones \in Nat
    /\ entries \in [0 .. capacity - 1 -> Slot]
    /\ oldCapacity \in Nat /\ old \in [0 .. oldCapacity - 1 -> Slot]
    /\ pos \in 0 .. oldCapacity
    /\ pending \in Entry \union {NULL}
    /\ result \in Values \union {NULL} \union Nat

\* The counters are true: SIZE and the load factor are computed from them.
Counted ==
    /\ size = Cardinality({s \in Turns : Occupied(entries[s])})
    /\ tombstones = Cardinality({s \in Turns : entries[s] = TOMBSTONE})

\* A store never fills the table, nor does do_resize, whose new table has room
\* for all it has copied and for the entry that made it grow: the full table
\* that the end of find_slot calls impossible does not happen.
RoomLeft ==
    /\ size + tombstones < capacity
    /\ IF Idle THEN oldCapacity = 0
       ELSE /\ tombstones = 0 /\ size <= pos
            /\ 4 <= oldCapacity /\ 2 * oldCapacity <= capacity

\* So a probe always meets an empty slot, and an unsuccessful search ends.
SomeEmpty == \E s \in Turns : entries[s] = EMPTY

\* Whatever was stored, removed and moved before, a probe for the key of an
\* entry comes to that entry: no slot on its way is empty.
ProbesReach ==
    \A k \in Keys : \A i \in Turns :
        Holds(entries[Probe(k, i)], k) =>
            \A j \in 0 .. i - 1 : entries[Probe(k, j)] # EMPTY

\* What the map holds, the part do_resize has not copied included.
Copied == {s \in Turns : Occupied(entries[s])}
Uncopied == {s \in pos .. oldCapacity - 1 : Occupied(old[s])}
Bindings == {entries[s] : s \in Copied} \union {old[s] : s \in Uncopied}

\* A key has one entry, in one table: an entry left behind by a store that
\* reused an earlier tombstone would come back when the newer one is removed.
OneEntryPerKey ==
    /\ \A s, t \in Copied : entries[s].key = entries[t].key => s = t
    /\ \A s, t \in Uncopied : old[s].key = old[t].key => s = t
    /\ \A s \in Copied, t \in Uncopied : entries[s].key # old[t].key

\* What makes the table one: whatever is stored, removed and moved.
TableSound == TypeOK /\ Counted /\ RoomLeft /\ ProbesReach /\ OneEntryPerKey

\* The table is a map: every operation answers what AbstractMap says.
Map == INSTANCE AbstractMap WITH bindings <- Bindings
IsMap == Map!Spec
=============================================================================
