--------------------------- MODULE HashMapProofs ---------------------------
(***************************************************************************)
(* The hash table is a map, for every hash function and every capacity     *)
(* from four slots on; and a FOR EACH over it gives the body every key     *)
(* once, whatever else the body does to the table.                         *)
(***************************************************************************)
EXTENDS ForEachMap, FiniteSetTheorems, FunctionTheorems, TLAPS

\* The four invariants hold together, and no smaller part of them does alone:
\* a search is right when the probes reach their entries, a store keeps that
\* when it has room, it has room when the counters are true.
Inv == TypeOK /\ Counted /\ RoomLeft /\ ProbesReach /\ OneEntryPerKey

\* A probe has as many turns as the table has slots.
LEMMA TurnsFinite ==
    ASSUME capacity \in Nat
    PROVE  IsFiniteSet(Turns) /\ Cardinality(Turns) = capacity
BY FS_Interval, capacity - 1 \in Int, 0 \in Int DEF Turns

\* The walk of find_slot stays in the table, visits no slot twice and leaves
\* none out.
LEMMA ProbeFacts ==
    ASSUME TypeOK, NEW k \in Keys
    PROVE  /\ \A i \in Turns : Probe(k, i) \in Turns
           /\ \A i, j \in Turns : Probe(k, i) = Probe(k, j) => i = j
           /\ \A s \in Turns : \E i \in Turns : Probe(k, i) = s
<1>1. capacity \in Nat /\ capacity >= 4
  BY HashMapAssumption DEF TypeOK
<1>2. Hash[k] \in Nat
  BY HashMapAssumption
<1>3. Home(k) \in 0 .. capacity - 1
  <2>1. \A h, n \in Nat : n >= 4 => h % n \in 0 .. n - 1
    OBVIOUS
  <2> QED  BY <1>1, <1>2, <2>1 DEF Home
<1>4. \A s \in Turns : \E i \in Turns : Probe(k, i) = s
  <2> TAKE s \in Turns
  <2>1. CASE s >= Home(k)
    <3>1. s - Home(k) \in Turns /\ Probe(k, s - Home(k)) = s
      BY <1>1, <1>3, <2>1 DEF Turns, Probe
    <3> QED  BY <3>1
  <2>2. CASE s < Home(k)
    <3>1. /\ s - Home(k) + capacity \in Turns
          /\ Probe(k, s - Home(k) + capacity) = s
      BY <1>1, <1>3, <2>2 DEF Turns, Probe
    <3> QED  BY <3>1
  <2> QED  BY <1>1, <1>3, <2>1, <2>2 DEF Turns
<1>5. \A i \in Turns : Probe(k, i) \in Turns
  BY <1>1, <1>3 DEF Turns, Probe
<1>6. \A i, j \in Turns : Probe(k, i) = Probe(k, j) => i = j
  BY <1>1, <1>3 DEF Turns, Probe
<1> QED  BY <1>4, <1>5, <1>6

\* A set of turns has a first one.
LEMMA LeastFacts ==
    ASSUME NEW S \in SUBSET Nat, S # {}
    PROVE  Least(S) \in S /\ \A j \in S : Least(S) <= j
<1>1. \E i \in S : \A j \in S : i <= j
  <2>1. PICK i \in S : \A j \in S : <<j, i>> \notin OpToRel(<, Nat)
    BY NatLessThanWellFounded, WFMin DEF IsWellFoundedOn
  <2>2. ASSUME NEW j \in S PROVE i <= j
    <3>1. i \in Nat /\ j \in Nat
      OBVIOUS
    <3>2. CASE j < i
      <4>1. <<j, i>> \in OpToRel(<, Nat)
        BY <3>1, <3>2 DEF OpToRel
      <4> QED  BY <2>1, <4>1
    <3> QED  BY <3>1, <3>2
  <2> QED  BY <2>2
<1> QED  BY <1>1 DEF Least

Tombstones == {s \in Turns : entries[s] = TOMBSTONE}

\* The counters are true and do not add up to the capacity: a slot is empty.
LEMMA EmptySlot ==
    ASSUME TypeOK, Counted, RoomLeft
    PROVE  SomeEmpty
<1>1. capacity \in Nat /\ size \in Nat /\ tombstones \in Nat
  BY DEF TypeOK
<1>2. IsFiniteSet(Turns) /\ Cardinality(Turns) = capacity
  BY <1>1, TurnsFinite
<1>3. IsFiniteSet(Copied) /\ IsFiniteSet(Tombstones)
  BY <1>2, FS_Subset, Copied \in SUBSET Turns, Tombstones \in SUBSET Turns
     DEF Copied, Tombstones
<1>4. /\ Cardinality(Copied \cup Tombstones)
             = size + tombstones - Cardinality(Copied \cap Tombstones)
  BY <1>3, FS_Union DEF Counted, Copied, Tombstones
<1>5. Copied \cap Tombstones = {}
  BY DEF Copied, Tombstones, Occupied
<1>6. Cardinality(Copied \cap Tombstones) = 0
  BY <1>5, FS_EmptySet
<1>7. Cardinality(Copied \cup Tombstones) # Cardinality(Turns)
  BY <1>1, <1>2, <1>4, <1>6 DEF RoomLeft
<1>8. Copied \cup Tombstones # Turns
  BY <1>7
<1>9. PICK s \in Turns : s \notin Copied /\ s \notin Tombstones
  BY <1>8 DEF Copied, Tombstones
<1>10. entries[s] = EMPTY
  BY <1>9 DEF Copied, Tombstones, Occupied
<1> QED  BY <1>10 DEF SomeEmpty

-----------------------------------------------------------------------------
\* An unsuccessful search means that the key has no entry in the table, and a
\* successful one finds it: this is where ProbesReach is needed.
LEMMA FindSlotFacts ==
    ASSUME TypeOK, ProbesReach, NEW k \in Keys
    PROVE  \/ /\ FindSlot(k) \in Turns
              /\ Holds(entries[FindSlot(k)], k)
           \/ /\ FindSlot(k) = NoSlot
              /\ \A s \in Turns : ~Holds(entries[s], k)
<1> DEFINE ends == Ends(k)
           l == Least(ends)
<1>1. ends \in SUBSET Nat
  BY DEF Ends, Turns
<1>2. FindSlot(k) = IF ends # {} /\ Holds(entries[Probe(k, l)], k)
                    THEN Probe(k, l) ELSE NoSlot
  BY DEF FindSlot
<1>3. ends # {} => l \in ends /\ \A j \in ends : l <= j
  BY <1>1, LeastFacts
<1>4. ASSUME NEW s \in Turns, Holds(entries[s], k)
      PROVE  ends # {} /\ Holds(entries[Probe(k, l)], k)
  <2>1. PICK i \in Turns : Probe(k, i) = s
    BY ProbeFacts
  <2>2. i \in ends
    BY <1>4, <2>1 DEF Ends
  <2>3. l \in ends /\ l <= i
    BY <1>3, <2>2
  <2>4. CASE l = i
    BY <1>4, <2>1, <2>2, <2>4
  <2>5. CASE l # i
    <3>1. l \in 0 .. i - 1
      BY <1>1, <2>3, <2>5 DEF Turns
    <3>2. entries[Probe(k, l)] # EMPTY
      BY <1>4, <2>1, <3>1 DEF ProbesReach
    <3> QED  BY <2>2, <2>3, <3>2 DEF Ends
  <2> QED  BY <2>4, <2>5
<1>5. ends # {} => Probe(k, l) \in Turns
  BY <1>3, ProbeFacts DEF Ends
<1> QED  BY <1>2, <1>4, <1>5

\* What find_slot promises to a store: the slot of the key, or, if it has
\* none, a free one on its way that no empty slot precedes.
LEMMA SlotForInsertFacts ==
    ASSUME TypeOK, Counted, RoomLeft, ProbesReach, NEW k \in Keys,
           NEW s, s = SlotForInsert(k)
    PROVE  /\ s \in Turns /\ s # NoSlot
           /\ \E n \in Turns :
                 /\ s = Probe(k, n)
                 /\ \A j \in 0 .. n - 1 : entries[Probe(k, j)] # EMPTY
           /\ \/ Holds(entries[s], k)
              \/ /\ entries[s] \in {EMPTY, TOMBSTONE}
                 /\ \A t \in Turns : ~Holds(entries[t], k)
<1> DEFINE ends == Ends(k)
           l == Least(ends)
           passed == Passed(k, l)
           p == Least(passed)
<1>1. ends \in SUBSET Nat /\ passed \in SUBSET Nat
  BY DEF Ends, Passed, Turns
<1>2. ends # {}
  <2>1. PICK t \in Turns : entries[t] = EMPTY
    BY EmptySlot DEF SomeEmpty
  <2>2. PICK i \in Turns : Probe(k, i) = t
    BY ProbeFacts
  <2> QED  BY <2>1, <2>2 DEF Ends
<1>3. l \in ends /\ \A j \in ends : l <= j
  BY <1>1, <1>2, LeastFacts
<1>4. l \in Turns /\ Probe(k, l) \in Turns
  BY <1>3, ProbeFacts DEF Ends
<1>5. \A j \in 0 .. l - 1 : entries[Probe(k, j)] # EMPTY
  <2> TAKE j \in 0 .. l - 1
  <2>1. capacity \in Nat /\ l \in 0 .. capacity - 1
    BY <1>4 DEF TypeOK, Turns
  <2>2. j \in Turns /\ ~(l <= j)
    BY <2>1 DEF Turns
  <2> QED  BY <1>3, <2>2 DEF Ends
<1>6. s = IF Holds(entries[Probe(k, l)], k) THEN Probe(k, l)
          ELSE IF passed # {} THEN Probe(k, p) ELSE Probe(k, l)
  BY <1>2 DEF SlotForInsert
<1>7. -1 \notin Turns
  BY DEF Turns
<1>8. CASE Holds(entries[Probe(k, l)], k)
  BY <1>4, <1>5, <1>6, <1>7, <1>8 DEF NoSlot
<1>9. CASE ~Holds(entries[Probe(k, l)], k)
  <2>1. entries[Probe(k, l)] = EMPTY
    BY <1>3, <1>9 DEF Ends
  <2>2. FindSlot(k) = NoSlot
    BY <1>9 DEF FindSlot
  <2>3. \A t \in Turns : ~Holds(entries[t], k)
    BY <1>7, <2>2, FindSlotFacts DEF NoSlot
  <2>4. CASE passed = {}
    BY <1>4, <1>5, <1>6, <1>7, <1>9, <2>1, <2>3, <2>4 DEF NoSlot
  <2>5. CASE passed # {}
    <3>1. p \in passed
      BY <1>1, <2>5, LeastFacts
    <3>2. p \in Turns /\ p < l /\ entries[Probe(k, p)] = TOMBSTONE
      BY <3>1 DEF Passed
    <3>3. \A j \in 0 .. p - 1 : entries[Probe(k, j)] # EMPTY
      BY <1>4, <1>5, <3>2 DEF Turns
    <3>4. s = Probe(k, p) /\ s \in Turns
      BY <1>6, <1>9, <2>5, <3>2, ProbeFacts
    <3> QED  BY <1>7, <2>3, <3>2, <3>3, <3>4 DEF NoSlot
  <2> QED  BY <2>4, <2>5
<1> QED  BY <1>8, <1>9

-----------------------------------------------------------------------------
\* Writing an entry to the slot find_slot chose for its key, as a store and
\* the copy loop do: one more key has a slot, or the same keys have.
LEMMA PlaceFacts ==
    ASSUME TypeOK, Counted, RoomLeft, ProbesReach,
           NEW e \in Entry, NEW s, s = SlotForInsert(e.key),
           entries' = [entries EXCEPT ![s] = e], capacity' = capacity
    PROVE  /\ s \in Turns
           /\ entries' \in [Turns -> Slot]
           /\ entries'[s] = e
           /\ \A t \in Turns : t # s => entries'[t] = entries[t]
           /\ Occupied(entries[s]) <=> Holds(entries[s], e.key)
           /\ Copied' = Copied \cup {s}
           /\ Tombstones' = Tombstones \ {s}
           /\ ~Occupied(entries[s]) =>
                 \A t \in Turns : ~Holds(entries[t], e.key)
           /\ ProbesReach'
<1>1. e.key \in Keys /\ e \in Slot /\ Occupied(e)
  BY HashMapAssumption DEF Entry, Slot, Occupied
<1>2. /\ s \in Turns
      /\ \E n \in Turns :
             /\ s = Probe(e.key, n)
             /\ \A j \in 0 .. n - 1 : entries[Probe(e.key, j)] # EMPTY
      /\ \/ Holds(entries[s], e.key)
         \/ /\ entries[s] \in {EMPTY, TOMBSTONE}
            /\ \A t \in Turns : ~Holds(entries[t], e.key)
  BY <1>1, SlotForInsertFacts
<1>3. entries \in [Turns -> Slot] /\ Turns' = Turns
  BY DEF TypeOK, Turns
<1>4. entries' \in [Turns -> Slot]
  BY <1>1, <1>3
<1>5. entries'[s] = e /\ \A t \in Turns : t # s => entries'[t] = entries[t]
  BY <1>2, <1>3
<1>6. Copied' = Copied \cup {s}
  BY <1>1, <1>2, <1>3, <1>5 DEF Copied, Occupied
<1>7. Tombstones' = Tombstones \ {s}
  BY <1>1, <1>2, <1>3, <1>5 DEF Tombstones, Occupied
<1>8. Occupied(entries[s]) <=> Holds(entries[s], e.key)
  BY <1>2 DEF Holds, Occupied
<1>9. ProbesReach'
  <2>2. ASSUME NEW k \in Keys, NEW i \in Turns,
               Holds(entries'[Probe(k, i)], k), NEW j \in 0 .. i - 1
        PROVE  entries'[Probe(k, j)] # EMPTY
    <3>1. capacity \in Nat /\ i \in 0 .. capacity - 1
      BY DEF TypeOK, Turns
    <3>2. j \in Turns /\ Probe(k, j) \in Turns /\ Probe(k, i) \in Turns
      BY <3>1, ProbeFacts DEF Turns
    <3>3. e # EMPTY
      BY <1>1 DEF Occupied
    <3>4. SUFFICES ASSUME Probe(k, j) # s
                   PROVE  entries[Probe(k, j)] # EMPTY
      BY <1>5, <3>2, <3>3
    <3>5. CASE Probe(k, i) # s
      <4>1. Holds(entries[Probe(k, i)], k)
        BY <1>5, <2>2, <3>2, <3>5
      <4> QED  BY <2>2, <4>1 DEF ProbesReach
    <3>6. CASE Probe(k, i) = s
      <4>1. k = e.key
        BY <1>5, <2>2, <3>6 DEF Holds
      <4>2. PICK n \in Turns :
               /\ s = Probe(e.key, n)
               /\ \A m \in 0 .. n - 1 : entries[Probe(e.key, m)] # EMPTY
        BY <1>2
      <4>3. n = i
        BY <3>6, <4>1, <4>2, ProbeFacts
      <4> QED  BY <2>2, <4>1, <4>2, <4>3
    <3> QED  BY <3>5, <3>6
  <2> QED  BY <2>2 DEF ProbesReach, Probe, Home, Turns
<1>10. ~Occupied(entries[s]) => \A t \in Turns : ~Holds(entries[t], e.key)
  BY <1>2 DEF Holds, Occupied
<1> QED  BY <1>2, <1>4, <1>5, <1>6, <1>7, <1>8, <1>9, <1>10

\* A removed entry leaves a tombstone, which no probe stops at.
LEMMA RemoveFacts ==
    ASSUME TypeOK, ProbesReach, NEW s \in Turns, Occupied(entries[s]),
           entries' = [entries EXCEPT ![s] = TOMBSTONE], capacity' = capacity
    PROVE  /\ entries' \in [Turns -> Slot]
           /\ \A t \in Turns : t # s => entries'[t] = entries[t]
           /\ Copied' = Copied \ {s}
           /\ Tombstones' = Tombstones \cup {s}
           /\ s \in Copied /\ s \notin Tombstones
           /\ ProbesReach'
<1>1. entries \in [Turns -> Slot] /\ Turns' = Turns
  BY DEF TypeOK, Turns
<1>2. entries' \in [Turns -> Slot]
  BY <1>1 DEF Slot
<1>3. entries'[s] = TOMBSTONE
  BY <1>1
<1>4. \A t \in Turns : t # s => entries'[t] = entries[t]
  BY <1>1
<1>5. Copied' = Copied \ {s} /\ Tombstones' = Tombstones \cup {s}
  BY <1>1, <1>3, <1>4 DEF Copied, Tombstones, Occupied
<1>6. s \in Copied /\ s \notin Tombstones
  BY DEF Copied, Tombstones, Occupied
<1>7. ProbesReach'
  <2>2. ASSUME NEW k \in Keys, NEW i \in Turns,
               Holds(entries'[Probe(k, i)], k), NEW j \in 0 .. i - 1
        PROVE  entries'[Probe(k, j)] # EMPTY
    <3>1. capacity \in Nat /\ i \in 0 .. capacity - 1
      BY DEF TypeOK, Turns
    <3>2. j \in Turns /\ Probe(k, j) \in Turns /\ Probe(k, i) \in Turns
      BY <3>1, ProbeFacts DEF Turns
    <3>3. Holds(entries[Probe(k, i)], k)
      BY <1>3, <1>4, <2>2, <3>2 DEF Holds, Occupied
    <3>4. entries[Probe(k, j)] # EMPTY
      BY <2>2, <3>3 DEF ProbesReach
    <3> QED  BY <1>3, <1>4, <3>2, <3>4, HashMapAssumption
  <2> QED  BY <2>2 DEF ProbesReach, Probe, Home, Turns
<1> QED  BY <1>2, <1>4, <1>5, <1>6, <1>7

-----------------------------------------------------------------------------
Held == {entries[s] : s \in Copied}

KeysApart == \A s, t \in Copied : entries[s].key = entries[t].key => s = t

\* What a store and the copy loop do to the table.
Placed(e) ==
    LET s == SlotForInsert(e.key) IN
    /\ entries' = [entries EXCEPT ![s] = e]
    /\ capacity' = capacity
    /\ size' = IF Occupied(entries[s]) THEN size ELSE size + 1
    /\ tombstones' = IF entries[s] = TOMBSTONE THEN tombstones - 1
                     ELSE tombstones

\* Writing an entry into the slot that a search found counts it once, and takes
\* a tombstone or an empty slot for it.
LEMMA PlaceCounts ==
    ASSUME TypeOK, Counted, RoomLeft, ProbesReach, NEW e \in Entry, Placed(e)
    PROVE  /\ Counted'
           /\ size' \in Nat /\ tombstones' \in Nat
           /\ size' + tombstones' <= size + tombstones + 1
           /\ size' <= size + 1
           /\ tombstones = 0 => tombstones' = 0
<1> DEFINE s == SlotForInsert(e.key)
<1>1. /\ entries' = [entries EXCEPT ![s] = e]
      /\ capacity' = capacity
      /\ size' = IF Occupied(entries[s]) THEN size ELSE size + 1
      /\ tombstones' = IF entries[s] = TOMBSTONE THEN tombstones - 1
                       ELSE tombstones
  BY DEF Placed
<1>2. /\ s \in Turns
      /\ Copied' = Copied \cup {s}
      /\ Tombstones' = Tombstones \ {s}
  BY <1>1, PlaceFacts
<1> HIDE DEF s
<1>3. capacity \in Nat /\ size \in Nat /\ tombstones \in Nat
  BY DEF TypeOK
<1>4. IsFiniteSet(Copied) /\ IsFiniteSet(Tombstones)
  BY <1>3, TurnsFinite, FS_Subset, Copied \in SUBSET Turns,
     Tombstones \in SUBSET Turns DEF Copied, Tombstones
<1>5. size = Cardinality(Copied) /\ tombstones = Cardinality(Tombstones)
  BY DEF Counted, Copied, Tombstones
<1>6. s \in Copied <=> Occupied(entries[s])
  BY <1>2 DEF Copied
<1>7. s \in Tombstones <=> entries[s] = TOMBSTONE
  BY <1>2 DEF Tombstones
<1>8. Cardinality(Copied') = size'
  BY <1>1, <1>2, <1>4, <1>5, <1>6, FS_AddElement
<1>9. Cardinality(Tombstones') = tombstones'
  BY <1>1, <1>2, <1>4, <1>5, <1>7, FS_RemoveElement
<1>10. tombstones' \in Nat
  BY <1>2, <1>4, <1>9, FS_RemoveElement, FS_CardinalityType
<1>11. ~(Occupied(entries[s]) /\ entries[s] = TOMBSTONE)
  BY DEF Occupied
<1> QED  BY <1>1, <1>3, <1>8, <1>9, <1>10, <1>11
         DEF Counted, Copied, Tombstones

\* The bindings of the table after it: the new one, and those of other keys.
LEMMA PlaceHeld ==
    ASSUME TypeOK, Counted, RoomLeft, ProbesReach, KeysApart,
           NEW e \in Entry, Placed(e)
    PROVE  /\ KeysApart'
           /\ Held' = {b \in Held : b.key # e.key} \cup {e}
<1> DEFINE s == SlotForInsert(e.key)
<1>1. entries' = [entries EXCEPT ![s] = e] /\ capacity' = capacity
  BY DEF Placed
<1>2. /\ s \in Turns
      /\ entries'[s] = e
      /\ \A t \in Turns : t # s => entries'[t] = entries[t]
      /\ Occupied(entries[s]) <=> Holds(entries[s], e.key)
      /\ Copied' = Copied \cup {s}
      /\ ~Occupied(entries[s]) =>
            \A t \in Turns : ~Holds(entries[t], e.key)
  BY <1>1, PlaceFacts
<1> HIDE DEF s
<1>3. \A t \in Copied : t # s => entries[t].key # e.key
  BY <1>2 DEF KeysApart, Copied, Holds
<1>4. \A t \in Copied : t \in Turns
  BY DEF Copied
<1>5. s \in Copied => entries[s].key = e.key
  BY <1>2 DEF Copied, Holds
<1>6. KeysApart'
  BY <1>2, <1>3, <1>4 DEF KeysApart
<1>7. Held' = {entries'[t] : t \in Copied \cup {s}}
  BY <1>2 DEF Held
<1>8. {entries'[t] : t \in Copied \cup {s}}
        = {b \in Held : b.key # e.key} \cup {e}
  BY <1>2, <1>3, <1>4, <1>5 DEF Held
<1> QED  BY <1>6, <1>7, <1>8

-----------------------------------------------------------------------------
\* With nothing left to copy the bindings are those of the table.
LEMMA BindingsOfTable ==
    ASSUME pos = oldCapacity, oldCapacity \in Nat
    PROVE  Uncopied = {} /\ Bindings = Held /\ (OneEntryPerKey <=> KeysApart)
<1>1. Uncopied = {}
  BY DEF Uncopied
<1> QED  BY <1>1 DEF Bindings, Held, OneEntryPerKey, KeysApart

\* Below seven tenths there is room for one more, in four slots or more.
LEMMA StoreKeepsRoom ==
    \A a, b, c, d, n \in Nat :
        a + b <= c + d + 1 /\ (c + d) * 10 < n * 7 /\ n >= 4 => a + b < n
OBVIOUS

\* A store, with or without the resize before it, ends with the new binding
\* in the place of the old one.
LEMMA PutStep ==
    ASSUME Inv, NEW k \in Keys, NEW v \in Values \cup {NULL}, Put(k, v),
           pos = oldCapacity, (size + tombstones) * 10 < capacity * 7,
           oldCapacity' = 0, old' \in [0 .. oldCapacity' - 1 -> Slot], pos' = 0,
           pending' = NULL
    PROVE  Inv' /\ Map!Store(k, v)
<1> DEFINE e == [key |-> k, value |-> v]
           s == SlotForInsert(k)
<1>1. e \in Entry /\ e.key = k
  BY DEF Entry
<1>2. s \in Turns /\ s # NoSlot
  BY SlotForInsertFacts DEF Inv
<1>3. Placed(e) /\ result' = 1
  BY <1>1, <1>2 DEF Put, Placed
<1> HIDE DEF s
<1>4. /\ Counted' /\ size' \in Nat /\ tombstones' \in Nat
      /\ size' + tombstones' <= size + tombstones + 1
  BY <1>1, <1>3, PlaceCounts DEF Inv
<1>5. capacity' = capacity
  BY <1>3 DEF Placed
<1>6. entries' \in [Turns -> Slot] /\ ProbesReach'
  BY <1>1, <1>3, PlaceFacts DEF Inv, Placed
<1>7. oldCapacity \in Nat /\ capacity \in Nat /\ capacity >= MinCapacity
      /\ MinCapacity \in Nat /\ MinCapacity >= 4 /\ capacity >= 4
      /\ size \in Nat /\ tombstones \in Nat
  BY HashMapAssumption DEF Inv, TypeOK
<1>8. TypeOK'
  BY <1>3, <1>4, <1>5, <1>6, <1>7 DEF TypeOK, Turns
<1>9. RoomLeft'
  <2>1. size' + tombstones' < capacity
    BY <1>4, <1>7, StoreKeepsRoom, Zenon
  <2>2. size' + tombstones' < capacity'
    BY <1>5, <2>1
  <2> QED  BY <2>2 DEF RoomLeft, Idle
<1>10. KeysApart /\ Bindings = Held
  BY <1>7, BindingsOfTable DEF Inv
<1>11. KeysApart' /\ Held' = {b \in Held : b.key # k} \cup {e}
  BY <1>1, <1>3, <1>10, PlaceHeld DEF Inv
<1>12. Uncopied' = {} /\ Bindings' = Held' /\ OneEntryPerKey'
  <2>1. Uncopied' = {}
    BY DEF Uncopied
  <2> QED  BY <2>1, <1>11 DEF Bindings, Held, OneEntryPerKey, KeysApart
<1>13. Map!Store(k, v)
  BY <1>3, <1>10, <1>11, <1>12 DEF Map!Store, Map!Of
<1> QED  BY <1>4, <1>6, <1>8, <1>9, <1>12, <1>13 DEF Inv

\* A store without a resize keeps the invariant and is a store of the abstract map.
LEMMA StoreStep ==
    ASSUME Inv, NEW k \in Keys, NEW v \in Values \cup {NULL}, Store(k, v)
    PROVE  Inv' /\ Map!Store(k, v)
<1>1. oldCapacity = 0 /\ pos = 0 /\ old \in [0 .. oldCapacity - 1 -> Slot]
  BY DEF Inv, TypeOK, RoomLeft, Store
<1>2. (size + tombstones) * 10 < capacity * 7
  BY DEF Inv, TypeOK, Store, NeedsResize
<1> QED  BY <1>1, <1>2, PutStep DEF Store, resizing, Idle

\* The new table is empty and has all of the old one before it.
LEMMA GrowStep ==
    ASSUME Inv, NEW k \in Keys, NEW v \in Values \cup {NULL}, Grow(k, v)
    PROVE  Inv' /\ Bindings' = Bindings
<1>1. /\ capacity \in Nat /\ capacity >= MinCapacity
      /\ MinCapacity \in Nat /\ MinCapacity >= 4
      /\ entries \in [0 .. capacity - 1 -> Slot]
      /\ oldCapacity = 0 /\ pos = 0
      /\ result \in Values \cup {NULL} \cup Nat
  BY HashMapAssumption DEF Inv, TypeOK, RoomLeft, Grow
<1>2. /\ capacity' = NewCapacity /\ entries' = EmptyTable(NewCapacity)
      /\ size' = 0 /\ tombstones' = 0
      /\ old' = entries /\ oldCapacity' = capacity /\ pos' = 0
      /\ pending' = [key |-> k, value |-> v] /\ result' = result
  BY DEF Grow
<1>3. NewCapacity = 2 * capacity /\ NewCapacity \in Nat
  BY <1>1 DEF NewCapacity, Larger
<1>4. pending' \in Entry
  BY <1>2 DEF Entry
<1>5. pending' # NULL
  BY <1>4, HashMapAssumption
<1>6. entries' \in [0 .. capacity' - 1 -> Slot]
  BY <1>2 DEF EmptyTable, Slot
<1>7. TypeOK'
  BY <1>1, <1>2, <1>3, <1>4, <1>6 DEF TypeOK
<1>8. \A s \in Turns' : entries'[s] = EMPTY
  BY <1>2 DEF Turns, EmptyTable
<1>9. Copied' = {} /\ {s \in Turns' : entries'[s] = TOMBSTONE} = {}
  BY <1>8, HashMapAssumption DEF Copied, Occupied
<1>10. Counted'
  BY <1>2, <1>9, FS_EmptySet DEF Counted, Copied
<1>11. RoomLeft'
  BY <1>1, <1>2, <1>3, <1>5 DEF RoomLeft, Idle
<1>12. ProbesReach'
  <2>1. Turns' = 0 .. capacity' - 1 /\ capacity' \in Nat /\ capacity' >= 4
    BY <1>1, <1>2, <1>3 DEF Turns
  <2>2. \A s \in Turns', kk \in Keys : ~Holds(entries'[s], kk)
    BY <1>8 DEF Holds, Occupied
  <2>3. ASSUME NEW kk \in Keys, NEW i \in Turns'
        PROVE  Probe(kk, i)' \in Turns'
    <3>1. \A h, n \in Nat : n >= 4 => h % n \in 0 .. n - 1
      OBVIOUS
    <3>2. Hash[kk] % capacity' \in 0 .. capacity' - 1
      BY <2>1, <3>1, HashMapAssumption
    <3>3. Probe(kk, i)' = IF (Hash[kk] % capacity') + i < capacity'
                          THEN (Hash[kk] % capacity') + i
                          ELSE (Hash[kk] % capacity') + i - capacity'
      BY DEF Probe, Home
    <3>4. \A n \in Nat : \A h, j \in 0 .. n - 1 :
             (IF h + j < n THEN h + j ELSE h + j - n) \in 0 .. n - 1
      OBVIOUS
    <3> QED  BY <2>1, <3>2, <3>3, <3>4
  <2> QED  BY <2>2, <2>3 DEF ProbesReach
<1>13. Uncopied' = Copied
  BY <1>1, <1>2 DEF Uncopied, Copied, Turns
<1>14. Uncopied = {}
  BY <1>1 DEF Uncopied
<1>15. OneEntryPerKey'
  BY <1>2, <1>9, <1>13 DEF OneEntryPerKey, Inv
<1>16. Bindings' = Bindings
  BY <1>2, <1>9, <1>13, <1>14 DEF Bindings
<1> QED  BY <1>7, <1>10, <1>11, <1>12, <1>15, <1>16 DEF Inv

\* A turn of the copy loop moves an entry from one table to the other.
LEMMA CopyStep ==
    ASSUME Inv, CopySlot
    PROVE  Inv' /\ Bindings' = Bindings
<1>1. /\ capacity \in Nat /\ size \in Nat /\ tombstones = 0
      /\ oldCapacity \in Nat /\ pos \in 0 .. oldCapacity - 1
      /\ old \in [0 .. oldCapacity - 1 -> Slot]
      /\ size <= pos /\ 4 <= oldCapacity /\ 2 * oldCapacity <= capacity
      /\ pending # NULL /\ pending \in Entry
  BY DEF Inv, TypeOK, RoomLeft, Idle, CopySlot
<1>2. /\ pos' = pos + 1 /\ capacity' = capacity /\ tombstones' = tombstones
      /\ old' = old /\ oldCapacity' = oldCapacity /\ pending' = pending
      /\ result' = result
  BY DEF CopySlot
<1>3. pos' \in 0 .. oldCapacity'
  BY <1>1, <1>2
<1>4. CASE ~Occupied(old[pos])
  <2>1. entries' = entries /\ size' = size
    BY <1>4 DEF CopySlot
  <2>2. Turns' = Turns /\ Copied' = Copied
    BY <1>2, <2>1 DEF Turns, Copied
  <2>3. Uncopied' = Uncopied
    BY <1>1, <1>2, <1>4 DEF Uncopied
  <2>4. TypeOK'
    BY <1>2, <1>3, <2>1 DEF Inv, TypeOK
  <2>5. Counted'
    BY <1>2, <2>1, <2>2 DEF Inv, Counted
  <2>6. RoomLeft'
    BY <1>1, <1>2, <2>1 DEF RoomLeft, Idle
  <2>7. ProbesReach'
    BY <1>2, <2>1, <2>2 DEF Inv, ProbesReach, Probe, Home
  <2>8. OneEntryPerKey' /\ Bindings' = Bindings
    BY <1>2, <2>1, <2>2, <2>3 DEF Inv, OneEntryPerKey, Bindings
  <2> QED  BY <2>4, <2>5, <2>6, <2>7, <2>8 DEF Inv
<1>5. CASE Occupied(old[pos])
  <2> DEFINE e == old[pos]
             s == SlotForInsert(e.key)
  <2>1. e \in Entry /\ e.key \in Keys /\ pos \in Uncopied
    BY <1>1, <1>5 DEF Slot, Entry, Occupied, Uncopied
  <2>2. s \in Turns /\ s # NoSlot
    BY <2>1, SlotForInsertFacts DEF Inv
  <2>3. entries' = [entries EXCEPT ![s] = e] /\ size' = size + 1
    BY <1>5, <2>2 DEF CopySlot
  <2> HIDE DEF e, s
  <2>4. /\ entries' \in [Turns -> Slot] /\ entries'[s] = e
        /\ \A t \in Turns : t # s => entries'[t] = entries[t]
        /\ Occupied(entries[s]) <=> Holds(entries[s], e.key)
        /\ Copied' = Copied \cup {s}
        /\ ProbesReach'
    BY <1>2, <2>1, <2>3, PlaceFacts DEF Inv, s
  <2>5. ~Occupied(entries[s])
    BY <2>1, <2>2, <2>4 DEF Inv, OneEntryPerKey, Copied, Holds, e
  <2>6. entries[s] # TOMBSTONE
    <3>1. IsFiniteSet(Tombstones)
      BY <1>1, TurnsFinite, FS_Subset, Tombstones \in SUBSET Turns
         DEF Tombstones
    <3>2. Tombstones = {}
      BY <1>1, <3>1, FS_EmptySet DEF Inv, Counted, Tombstones
    <3> QED  BY <2>2, <3>2 DEF Tombstones
  <2>7. Placed(e)
    BY <1>2, <2>3, <2>5, <2>6 DEF Placed, s
  <2>8. Counted'
    BY <2>1, <2>7, PlaceCounts DEF Inv
  <2>9. TypeOK'
    BY <1>1, <1>2, <1>3, <2>3, <2>4 DEF Inv, TypeOK, Turns
  <2>10. RoomLeft'
    BY <1>1, <1>2, <2>3 DEF RoomLeft, Idle
  <2>11. Uncopied' = Uncopied \ {pos}
    BY <1>1, <1>2 DEF Uncopied
  <2>12. KeysApart
    BY DEF Inv, OneEntryPerKey, KeysApart
  <2>13. KeysApart' /\ Held' = {b \in Held : b.key # e.key} \cup {e}
    BY <2>1, <2>7, <2>12, PlaceHeld DEF Inv
  <2>14. \A t \in Copied : entries[t].key # e.key
    BY <2>1 DEF Inv, OneEntryPerKey, e
  <2>15. Held' = Held \cup {e}
    BY <2>13, <2>14 DEF Held
  <2>16. Copied \in SUBSET Turns
    BY DEF Copied
  <2>17. OneEntryPerKey'
    <3>1. \A t \in Uncopied \ {pos} : old[t].key # e.key
      BY <2>1 DEF Inv, OneEntryPerKey, e
    <3>2. \A t \in Copied', u \in Uncopied' : entries'[t].key # old'[u].key
      BY <1>2, <2>4, <2>11, <2>16, <3>1 DEF Inv, OneEntryPerKey
    <3>3. \A t, u \in Uncopied' : old'[t].key = old'[u].key => t = u
      BY <1>2, <2>11 DEF Inv, OneEntryPerKey
    <3> QED  BY <2>13, <3>2, <3>3 DEF OneEntryPerKey, KeysApart
  <2>18. Bindings' = Bindings
    <3>1. Bindings' = Held' \cup {old'[t] : t \in Uncopied'}
      BY DEF Bindings, Held
    <3>2. Bindings = Held \cup {old[t] : t \in Uncopied}
      BY DEF Bindings, Held
    <3> QED  BY <1>2, <2>1, <2>11, <2>15, <3>1, <3>2 DEF e
  <2> QED  BY <2>4, <2>8, <2>9, <2>10, <2>17, <2>18 DEF Inv
<1> QED  BY <1>4, <1>5

\* The end of a resize swaps the tables and stores the pending entry.
LEMMA GrowEndsStep ==
    ASSUME Inv, GrowEnds
    PROVE  Inv' /\ \E k \in Keys, v \in Values \cup {NULL} : Map!Store(k, v)
<1>1. pending \in Entry /\ pos = oldCapacity
  BY DEF Inv, TypeOK, GrowEnds
<1>2. pending.key \in Keys /\ pending.value \in Values \cup {NULL}
  BY <1>1 DEF Entry
<1>3. (size + tombstones) * 10 < capacity * 7
  BY DEF Inv, TypeOK, RoomLeft, Idle, GrowEnds
<1>4. /\ oldCapacity' = 0 /\ old' \in [0 .. oldCapacity' - 1 -> Slot]
      /\ pos' = 0 /\ pending' = NULL
  BY DEF GrowEnds, EmptyTable
<1>5. Put(pending.key, pending.value)
  BY DEF GrowEnds
<1>6. Inv' /\ Map!Store(pending.key, pending.value)
  BY <1>1, <1>2, <1>3, <1>4, <1>5, PutStep
<1> QED  BY <1>2, <1>6

-----------------------------------------------------------------------------
\* A step that leaves the tables alone keeps the invariant.
LEMMA TablesUnchanged ==
    ASSUME Inv, UNCHANGED <<table, resizing>>,
           result' \in Values \cup {NULL} \cup Nat
    PROVE  Inv' /\ Bindings' = Bindings
<1>1. /\ capacity' = capacity /\ size' = size /\ tombstones' = tombstones
      /\ entries' = entries /\ old' = old /\ oldCapacity' = oldCapacity
      /\ pos' = pos /\ pending' = pending
  BY DEF table, resizing
<1>2. TypeOK'
  BY <1>1 DEF Inv, TypeOK
<1>3. Counted' /\ RoomLeft'
  BY <1>1 DEF Inv, Counted, RoomLeft, Idle, Turns
<1>4. ProbesReach'
  BY <1>1 DEF Inv, ProbesReach, Probe, Home, Turns
<1>5. Copied' = Copied /\ Uncopied' = Uncopied
  BY <1>1 DEF Copied, Uncopied, Turns
<1> QED  BY <1>1, <1>2, <1>3, <1>4, <1>5 DEF Inv, OneEntryPerKey, Bindings

\* What hashmap_lookup answers is what is bound.
LEMMA LookupFacts ==
    ASSUME Inv, Idle, NEW k \in Keys
    PROVE  /\ ValueAt(FindSlot(k)) \in Values \cup {NULL}
           /\ \/ \E b \in Map!Of(k) : b.value = ValueAt(FindSlot(k))
              \/ Map!Of(k) = {} /\ ValueAt(FindSlot(k)) = NULL
           /\ \A b \in Map!Of(k) : b.value = ValueAt(FindSlot(k))
<1>1. pos = oldCapacity /\ oldCapacity \in Nat
  BY DEF Inv, TypeOK, RoomLeft, Idle
<1>2. Bindings = Held /\ KeysApart
  BY <1>1, BindingsOfTable DEF Inv
<1>3. entries \in [Turns -> Slot] /\ -1 \notin Turns
  BY DEF Inv, TypeOK, Turns
<1>4. CASE FindSlot(k) \in Turns /\ Holds(entries[FindSlot(k)], k)
  <2> DEFINE s == FindSlot(k)
  <2>1. s \in Copied /\ entries[s].key = k /\ s # NoSlot
    BY <1>3, <1>4 DEF Copied, Holds, NoSlot
  <2>2. entries[s] \in Entry
    BY <1>3, <1>4 DEF Slot, Holds, Occupied
  <2>3. entries[s].value \in Values \cup {NULL}
    BY <2>2 DEF Entry
  <2>4. entries[s] \in Map!Of(k)
    BY <1>2, <2>1 DEF Map!Of, Held
  <2>5. \A b \in Map!Of(k) : b = entries[s]
    BY <1>2, <2>1 DEF Map!Of, Held, KeysApart
  <2>6. ValueAt(s) = entries[s].value
    BY <2>1 DEF ValueAt
  <2> QED  BY <2>3, <2>4, <2>5, <2>6
<1>5. CASE FindSlot(k) = NoSlot /\ \A t \in Turns : ~Holds(entries[t], k)
  <2>1. Map!Of(k) = {}
    BY <1>2, <1>5 DEF Map!Of, Held, Copied, Holds
  <2> QED  BY <1>5, <2>1 DEF ValueAt
<1> QED  BY <1>4, <1>5, FindSlotFacts DEF Inv

\* HASKEY, SIZE and a fetch change nothing and answer as the abstract map.
LEMMA QueryStep ==
    ASSUME Inv, Queries
    PROVE  Inv' /\ Map!Next
<1>1. ASSUME NEW k \in Keys, Fetch(k)
      PROVE  Inv' /\ Map!Fetch(k)
  <2>1. result' = ValueAt(FindSlot(k)) /\ UNCHANGED <<table, resizing>>
    BY <1>1 DEF Fetch
  <2>2. Inv' /\ Bindings' = Bindings
    BY <1>1, <2>1, LookupFacts, TablesUnchanged DEF Fetch
  <2>3. \/ \E b \in Map!Of(k) : b.value = ValueAt(FindSlot(k))
        \/ Map!Of(k) = {} /\ ValueAt(FindSlot(k)) = NULL
    BY <1>1, LookupFacts DEF Fetch
  <2> QED  BY <2>1, <2>2, <2>3 DEF Map!Fetch
<1>2. ASSUME NEW k \in Keys, HasKey(k)
      PROVE  Inv' /\ Map!HasKey(k)
  <2>1. /\ result' = IF ValueAt(FindSlot(k)) # NULL THEN 1 ELSE 0
        /\ UNCHANGED <<table, resizing>>
    BY <1>2 DEF HasKey
  <2>2. result' \in Nat
    BY <2>1
  <2>3. Inv' /\ Bindings' = Bindings
    BY <2>1, <2>2, TablesUnchanged
  <2>4. ValueAt(FindSlot(k)) # NULL <=> \E b \in Map!Of(k) : b.value # NULL
    BY <1>2, LookupFacts DEF HasKey
  <2> QED  BY <2>1, <2>3, <2>4 DEF Map!HasKey
<1>3. ASSUME Size
      PROVE  Inv' /\ Map!Size
  <2>1. result' = size /\ UNCHANGED <<table, resizing>> /\ Idle
    BY <1>3 DEF Size
  <2>2. Inv' /\ Bindings' = Bindings
    BY <2>1, TablesUnchanged DEF Inv, TypeOK
  <2>3. Bindings = Held /\ KeysApart
    BY <2>1, BindingsOfTable DEF Inv, TypeOK, RoomLeft, Idle
  <2>4. IsFiniteSet(Copied)
    BY TurnsFinite, FS_Subset, Copied \in SUBSET Turns
       DEF Inv, TypeOK, Copied
  <2> DEFINE f == [s \in Copied |-> entries[s]]
  <2>5. f \in Bijection(Copied, Held)
    <3>1. \A s, t \in Copied : f[s] = f[t] => s = t
      BY <2>3 DEF KeysApart
    <3>2. f \in [Copied -> Held]
      BY DEF Held
    <3>3. \A b \in Held : \E s \in Copied : f[s] = b
      BY DEF Held
    <3> HIDE DEF f
    <3> QED  BY <3>1, <3>2, <3>3, Fun_IsBij
  <2>6. Cardinality(Held) = Cardinality(Copied)
    BY <2>4, <2>5, FS_Bijection DEF ExistsBijection
  <2>7. size = Cardinality(Copied)
    BY DEF Inv, Counted, Copied
  <2>8. Map!Cardinality(Bindings) = Cardinality(Bindings)
    BY DEF Map!Cardinality, Cardinality
  <2> QED  BY <2>1, <2>2, <2>3, <2>6, <2>7, <2>8 DEF Map!Size
<1> QED  BY <1>1, <1>2, <1>3 DEF Queries, Map!Next

\* REMOVE leaves a tombstone, and is a removal of the abstract map.
LEMMA RemoveStep ==
    ASSUME Inv, NEW k \in Keys, Remove(k)
    PROVE  Inv' /\ Map!Remove(k)
<1> DEFINE s == FindSlot(k)
<1>1. /\ pos = oldCapacity /\ oldCapacity = 0
      /\ capacity \in Nat /\ size \in Nat /\ tombstones \in Nat
      /\ size + tombstones < capacity /\ Idle
  BY DEF Inv, TypeOK, RoomLeft, Idle, Remove
<1>2. Bindings = Held /\ KeysApart
  BY <1>1, BindingsOfTable DEF Inv
<1>3. -1 \notin Turns
  BY DEF Turns
<1>4. CASE s = NoSlot /\ \A t \in Turns : ~Holds(entries[t], k)
  <2>1. result' = 0 /\ UNCHANGED <<table, resizing>>
    BY <1>4 DEF Remove
  <2>2. Inv' /\ Bindings' = Bindings
    BY <2>1, TablesUnchanged
  <2>3. Map!Of(k) = {}
    BY <1>2, <1>4 DEF Map!Of, Held, Copied, Holds
  <2> QED  BY <2>1, <2>2, <2>3 DEF Map!Remove
<1>5. CASE s \in Turns /\ Holds(entries[s], k)
  <2>1. /\ entries' = [entries EXCEPT ![s] = TOMBSTONE]
        /\ size' = size - 1 /\ tombstones' = tombstones + 1
        /\ result' = 1 /\ capacity' = capacity
        /\ old' = old /\ oldCapacity' = oldCapacity /\ pos' = pos
        /\ pending' = pending
    BY <1>3, <1>5 DEF Remove, NoSlot, resizing
  <2>2. s \in Turns /\ Occupied(entries[s]) /\ entries[s].key = k
    BY <1>5 DEF Holds
  <2> HIDE DEF s
  <2>3. /\ entries' \in [Turns -> Slot]
        /\ \A t \in Turns : t # s => entries'[t] = entries[t]
        /\ Copied' = Copied \ {s}
        /\ Tombstones' = Tombstones \cup {s}
        /\ s \in Copied /\ s \notin Tombstones
        /\ ProbesReach'
    BY <2>1, <2>2, RemoveFacts DEF Inv
  <2>4. IsFiniteSet(Copied) /\ IsFiniteSet(Tombstones)
    BY <1>1, TurnsFinite, FS_Subset, Copied \in SUBSET Turns,
       Tombstones \in SUBSET Turns DEF Copied, Tombstones
  <2>5. size = Cardinality(Copied) /\ tombstones = Cardinality(Tombstones)
    BY DEF Inv, Counted, Copied, Tombstones
  <2>6. Cardinality(Copied') = size'
    BY <2>1, <2>3, <2>4, <2>5, FS_RemoveElement
  <2>7. Cardinality(Tombstones') = tombstones'
    BY <2>1, <2>3, <2>4, <2>5, FS_AddElement
  <2>8. Counted'
    BY <2>6, <2>7 DEF Counted, Copied, Tombstones
  <2>9. size' \in Nat /\ tombstones' \in Nat
    <3>1. Cardinality(Copied \ {s}) \in Nat
      BY <2>4, FS_RemoveElement, FS_CardinalityType
    <3> QED  BY <1>1, <2>1, <2>3, <2>6, <3>1
  <2>10. TypeOK'
    BY <1>1, <2>1, <2>3, <2>9 DEF Inv, TypeOK, Turns
  <2>11. RoomLeft'
    BY <1>1, <2>1 DEF RoomLeft, Idle
  <2>12. Uncopied' = {} /\ Bindings' = Held'
    <3>1. Uncopied' = {}
      BY <1>1, <2>1 DEF Uncopied
    <3> QED  BY <3>1 DEF Bindings, Held
  <2>13. Copied \in SUBSET Turns
    BY DEF Copied
  <2>14. OneEntryPerKey'
    BY <1>2, <2>3, <2>12, <2>13 DEF OneEntryPerKey, KeysApart
  <2>15. Held' = {entries[t] : t \in Copied \ {s}}
    BY <2>3, <2>13 DEF Held
  <2>16. Held' = Held \ {b \in Held : b.key = k}
    <3>1. \A t \in Copied : entries[t].key = k <=> t = s
      BY <1>2, <2>2, <2>3 DEF KeysApart
    <3>2. Held' \subseteq Held \ {b \in Held : b.key = k}
      BY <2>15, <3>1 DEF Held
    <3>3. Held \ {b \in Held : b.key = k} \subseteq Held'
      BY <2>15, <3>1 DEF Held
    <3> QED  BY <3>2, <3>3
  <2>17. entries[s] \in Map!Of(k)
    BY <1>2, <2>2, <2>3 DEF Map!Of, Held
  <2>18. Map!Remove(k)
    BY <1>2, <2>1, <2>12, <2>16, <2>17 DEF Map!Remove, Map!Of
  <2> QED  BY <2>3, <2>8, <2>10, <2>11, <2>14, <2>18 DEF Inv
<1> QED  BY <1>4, <1>5, FindSlotFacts DEF Inv

\* A table of empty slots, as hashmap_new makes and hashmap_clear leaves it.
LEMMA EmptyTableFacts ==
    ASSUME TypeOK, entries = EmptyTable(capacity), pos = oldCapacity,
           size = 0, tombstones = 0
    PROVE  Counted /\ ProbesReach /\ OneEntryPerKey /\ Bindings = {}
<1>1. \A s \in Turns : entries[s] = EMPTY
  BY DEF Turns, EmptyTable
<1>2. Copied = {} /\ {s \in Turns : entries[s] = TOMBSTONE} = {}
  BY <1>1, HashMapAssumption DEF Copied, Occupied
<1>3. Uncopied = {}
  BY DEF Uncopied, TypeOK
<1>4. Counted
  BY <1>2, FS_EmptySet DEF Counted, Copied
<1>5. ProbesReach
  BY <1>1, ProbeFacts DEF ProbesReach, Holds, Occupied
<1> QED  BY <1>2, <1>3, <1>4, <1>5 DEF OneEntryPerKey, Bindings

\* A new table is sound and stands for the empty map.
LEMMA InitInv == Init => Inv /\ Map!Init
<1> SUFFICES ASSUME Init PROVE Inv /\ Map!Init
  OBVIOUS
<1>1. /\ capacity \in Nat /\ capacity >= MinCapacity /\ capacity >= 4
      /\ size = 0 /\ tombstones = 0 /\ oldCapacity = 0 /\ pos = 0
      /\ pending = NULL /\ result = NULL /\ entries = EmptyTable(capacity)
  BY HashMapAssumption DEF Init, Larger
<1>2. entries \in [0 .. capacity - 1 -> Slot]
  BY <1>1 DEF EmptyTable, Slot
<1>3. old \in [0 .. oldCapacity - 1 -> Slot]
  BY <1>1 DEF Init, EmptyTable
<1>4. TypeOK
  BY <1>1, <1>2, <1>3 DEF TypeOK
<1>5. RoomLeft
  BY <1>1 DEF RoomLeft, Idle
<1>6. Counted /\ ProbesReach /\ OneEntryPerKey /\ Bindings = {}
  BY <1>1, <1>4, EmptyTableFacts
<1> QED  BY <1>1, <1>4, <1>5, <1>6 DEF Inv, Map!Init

\* CLEAR empties the table and the abstract map.
LEMMA ClearStep ==
    ASSUME Inv, Clear
    PROVE  Inv' /\ Map!Clear
<1>1. /\ capacity \in Nat /\ capacity >= MinCapacity /\ capacity >= 4
      /\ oldCapacity = 0 /\ pos = 0 /\ pending = NULL
  BY HashMapAssumption DEF Inv, TypeOK, RoomLeft, Idle, Clear
<1>2. /\ entries' = EmptyTable(capacity) /\ size' = 0 /\ tombstones' = 0
      /\ capacity' = capacity /\ old' = old /\ oldCapacity' = oldCapacity
      /\ pos' = pos /\ pending' = pending /\ result' = 0
  BY DEF Clear, resizing
<1>3. entries' \in [0 .. capacity' - 1 -> Slot]
  BY <1>2 DEF EmptyTable, Slot
<1>4. TypeOK'
  BY <1>1, <1>2, <1>3 DEF Inv, TypeOK
<1>5. RoomLeft'
  BY <1>1, <1>2 DEF RoomLeft, Idle
<1>6. \A s \in Turns : entries'[s] = EMPTY
  BY <1>2 DEF Turns, EmptyTable
<1>7. Copied' = {} /\ {s \in Turns' : entries'[s] = TOMBSTONE} = {}
  BY <1>2, <1>6, HashMapAssumption DEF Copied, Occupied, Turns
<1>8. Uncopied' = {}
  BY <1>1, <1>2 DEF Uncopied
<1>9. Counted'
  BY <1>2, <1>7, FS_EmptySet DEF Counted, Copied
<1>10. ProbesReach'
  <2>1. \A k \in Keys, i \in Turns : Probe(k, i) \in Turns
    BY ProbeFacts DEF Inv
  <2>2. \A k \in Keys, i \in Turns : ~Holds(entries'[Probe(k, i)], k)
    BY <1>6, <2>1 DEF Holds, Occupied
  <2> QED  BY <1>2, <2>2 DEF ProbesReach, Probe, Home, Turns
<1>11. OneEntryPerKey' /\ Bindings' = {}
  BY <1>7, <1>8 DEF OneEntryPerKey, Bindings
<1> QED  BY <1>2, <1>4, <1>5, <1>9, <1>10, <1>11 DEF Inv, Map!Clear

-----------------------------------------------------------------------------
\* Every step keeps the invariant, and is a step of the map or none.
LEMMA Step ==
    ASSUME Inv, [Next]_mapVars
    PROVE  Inv' /\ (Map!Next \/ UNCHANGED <<Bindings, result>>)
<1>1. ASSUME NEW k \in Keys, NEW v \in Values \cup {NULL}, Store(k, v)
      PROVE  Inv' /\ Map!Next
  BY <1>1, StoreStep DEF Map!Next
<1>2. ASSUME NEW k \in Keys, NEW v \in Values \cup {NULL}, Grow(k, v)
      PROVE  Inv' /\ UNCHANGED <<Bindings, result>>
  BY <1>2, GrowStep DEF Grow
<1>3. ASSUME NEW k \in Keys, NEW v \in Values \cup {NULL}, GrowFails(k, v)
      PROVE  Inv' /\ Map!Next
  BY <1>3, TablesUnchanged DEF GrowFails, Map!Next, Map!StoreFails
<1>4. CASE CopySlot
  BY <1>4, CopyStep DEF CopySlot
<1>5. CASE GrowEnds
  BY <1>5, GrowEndsStep DEF Map!Next
<1>6. CASE Queries
  BY <1>6, QueryStep
<1>7. ASSUME NEW k \in Keys, Remove(k)
      PROVE  Inv' /\ Map!Next
  BY <1>7, RemoveStep DEF Map!Next
<1>8. CASE Clear
  BY <1>8, ClearStep DEF Map!Next
<1>9. CASE UNCHANGED mapVars
  <2>1. UNCHANGED <<table, resizing>> /\ result' = result
    BY <1>9 DEF mapVars
  <2> QED  BY <2>1, TablesUnchanged DEF Inv, TypeOK
<1> QED  BY <1>1, <1>2, <1>3, <1>4, <1>5, <1>6, <1>7, <1>8, <1>9
         DEF Next, StoreSteps

\* The hash table keeps its shape: the types, true counters, room for the next
\* store, probes that reach every entry, and one entry for each key.
THEOREM TableInvariant == Spec => []TableSound
<1>1. Init => Inv
  BY InitInv
<1>2. Inv /\ [Next]_mapVars => Inv'
  BY Step
<1>3. Spec => []Inv
  BY <1>1, <1>2, PTL DEF Spec
<1>4. Inv => TableSound
  BY DEF Inv, TableSound
<1> QED  BY <1>3, <1>4, PTL

\* A probe always meets an empty slot: no search goes round the whole table.
THEOREM AlwaysSomeEmpty == Spec => []SomeEmpty
<1>1. TableSound => SomeEmpty
  BY EmptySlot DEF TableSound
<1> QED  BY <1>1, TableInvariant, PTL

\* HASHMAP is a map: whatever is stored, removed and moved, every operation of
\* the table answers what the abstract map answers.
THEOREM TableIsMap == Spec => IsMap
<1>1. Init => Map!Init
  BY InitInv
<1>2. Inv /\ [Next]_mapVars => [Map!Next]_<<Bindings, result>>
  BY Step
<1>3. Init => Inv
  BY InitInv
<1>4. Inv /\ [Next]_mapVars => Inv'
  BY Step
<1> QED  BY <1>1, <1>2, <1>3, <1>4, PTL DEF Spec, IsMap, Map!Spec

-----------------------------------------------------------------------------
\* FOR EACH.  The number of occupied slots before slot s: its place in the array
\* that hashmap_keys returns.
Place(s) == Cardinality({t \in Copied : t < s})

\* Every place of the array belongs to one slot.
LEMMA PlaceOrder ==
    ASSUME Inv
    PROVE  /\ IsFiniteSet(Copied) /\ Cardinality(Copied) = size /\ Copied \subseteq Nat
           /\ \A s \in Copied : Place(s) \in 0 .. size - 1
           /\ \A s, t \in Copied : Place(s) = Place(t) => s = t
           /\ \A n \in 1 .. size : \E s \in Copied : Place(s) = n - 1
<1>1. /\ capacity \in Nat /\ size \in Nat /\ size = Cardinality(Copied)
      /\ Copied \subseteq Turns /\ Turns \subseteq Nat
  BY DEF Inv, TypeOK, Counted, Copied, Turns
<1>2. IsFiniteSet(Copied)
  BY <1>1, TurnsFinite, FS_Subset
<1>3. ASSUME NEW s \in Copied
      PROVE  /\ Place(s) \in 0 .. size - 1
             /\ \A t \in Copied : t < s => Place(t) < Place(s)
  <2> DEFINE before(t) == {u \in Copied : u < t}
  <2>1. \A t \in Copied : IsFiniteSet(before(t)) /\ Place(t) = Cardinality(before(t)) /\ Place(t) \in Nat
    BY <1>2, FS_Subset, FS_CardinalityType DEF Place
  <2>2. Place(s) < size
    <3>1. before(s) \in SUBSET Copied /\ before(s) # Copied
      BY <1>1
    <3>2. Cardinality(before(s)) <= size /\ Cardinality(before(s)) # size
      BY <1>1, <1>2, <3>1, FS_Subset
    <3> QED BY <1>1, <2>1, <3>2
  <2>3. ASSUME NEW t \in Copied, t < s PROVE Place(t) < Place(s)
    <3>1. before(t) \in SUBSET before(s) /\ before(t) # before(s)
      <4>1. t \in before(s) /\ t \notin before(t) /\ \A u \in Copied : u < t => u < s
        BY <1>1, <2>3
      <4> QED BY <4>1
    <3>2. Cardinality(before(t)) <= Cardinality(before(s))
          /\ Cardinality(before(s)) # Cardinality(before(t))
      BY <2>1, <3>1, FS_Subset
    <3> QED BY <2>1, <3>2
  <2>4. Place(s) \in Nat
    BY <2>1
  <2>5. Place(s) \in 0 .. size - 1
    BY <1>1, <2>2, <2>4
  <2> QED BY <2>3, <2>5
<1>4. ASSUME NEW s \in Copied, NEW t \in Copied, Place(s) = Place(t) PROVE s = t
  <2>1. s \in Nat /\ t \in Nat /\ Place(s) \in Int /\ Place(t) \in Int
    BY <1>1, <1>3
  <2>2. CASE s < t
    BY <1>3, <1>4, <2>1, <2>2
  <2>3. CASE t < s
    BY <1>3, <1>4, <2>1, <2>3
  <2> QED BY <2>1, <2>2, <2>3
<1>5. ASSUME NEW n \in 1 .. size PROVE \E s \in Copied : Place(s) = n - 1
  <2> DEFINE f == [s \in Copied |-> Place(s)]
             T == 0 .. size - 1
  <2>1. f \in Injection(Copied, T)
    BY <1>3, <1>4 DEF Injection, IsInjective
  <2>2. IsFiniteSet(T) /\ Cardinality(T) = size
    BY <1>1, FS_Interval, size - 1 \in Int, 0 \in Int
  <2> HIDE DEF T
  <2>3. f \in Surjection(Copied, T)
    BY <1>1, <2>1, <2>2, FS_Injection
  <2>4. n - 1 \in T
    BY <1>1 DEF T
  <2> QED BY <2>3, <2>4 DEF Surjection
<1> QED BY <1>1, <1>2, <1>3, <1>4, <1>5

\* hashmap_keys: the array has every key of the map once.
LEMMA KeyArrayFacts ==
    ASSUME Inv, Idle
    PROVE  /\ KeyArray \in Seq(Keys) /\ Len(KeyArray) = size /\ size \in Nat
           /\ \A i, j \in 1 .. size : KeyArray[i] = KeyArray[j] => i = j
           /\ {KeyArray[i] : i \in 1 .. size} = {b.key : b \in Bindings}
<1>1. size \in Nat /\ Bindings = Held /\ KeysApart /\ entries \in [Turns -> Slot]
  BY BindingsOfTable DEF Inv, TypeOK, RoomLeft, Idle, Turns
<1> DEFINE slot(n) == CHOOSE s \in Copied : Cardinality({t \in Copied : t < s}) = n - 1
<1>2. \A n \in 1 .. size : slot(n) \in Copied /\ Place(slot(n)) = n - 1
  BY PlaceOrder DEF Place
<1>3. KeyArray = [n \in 1 .. size |-> entries[slot(n)].key]
  BY PlaceOrder DEF KeyArray
<1> HIDE DEF slot
<1>4. \A s \in Copied : entries[s].key \in Keys
  BY <1>1 DEF Copied, Occupied, Slot, Entry
<1>5. KeyArray \in Seq(Keys) /\ Len(KeyArray) = size
  <2>1. KeyArray \in [1 .. size -> Keys]
    BY <1>2, <1>3, <1>4
  <2> QED BY <1>1, <2>1
<1>6. ASSUME NEW i \in 1 .. size, NEW j \in 1 .. size, KeyArray[i] = KeyArray[j] PROVE i = j
  <2>1. slot(i) = slot(j)
    BY <1>1, <1>2, <1>3, <1>6 DEF KeysApart
  <2> QED BY <1>1, <1>2, <2>1
<1>7. ASSUME NEW s \in Copied PROVE \E i \in 1 .. size : KeyArray[i] = entries[s].key
  <2>1. PICK i \in 1 .. size : Place(s) = i - 1
    <3>1. Place(s) \in 0 .. size - 1
      BY PlaceOrder
    <3> QED BY <1>1, <3>1
  <2>2. slot(i) = s
    BY <1>2, <2>1, PlaceOrder
  <2> QED BY <1>3, <2>2
<1>8. {KeyArray[i] : i \in 1 .. size} = {entries[s].key : s \in Copied}
  BY <1>2, <1>3, <1>7
<1>9. {b.key : b \in Bindings} = {entries[s].key : s \in Copied}
  BY <1>1 DEF Held
<1> QED BY <1>1, <1>5, <1>6, <1>8, <1>9

-----------------------------------------------------------------------------
\* The variables of the loop.
LoopTyped ==
    /\ phase \in {"out", "test", "body"}
    /\ keyArray \in Seq(Keys) /\ count \in Nat /\ index \in Nat
    /\ stale \subseteq Keys /\ seen \in Seq(Keys) /\ started \subseteq Keys
    /\ disturbed \in BOOLEAN

\* Out of a loop nothing is left of the last one.
LoopReset ==
    phase = "out" => /\ keyArray = << >> /\ count = 0 /\ index = 0 /\ stale = {}
                     /\ seen = << >> /\ started = {} /\ disturbed = FALSE

\* How many keys the body has been given, the current one included.
Given == IF phase = "body" THEN index + 1 ELSE index
Bound(k) == \E b \in Bindings : b.key = k

\* What the loop took at its start, each key once.
Taken ==
    /\ Len(keyArray) = count
    /\ \A i, j \in 1 .. count : keyArray[i] = keyArray[j] => i = j
    /\ started = {keyArray[i] : i \in 1 .. count}

\* The body has been given the keys in their order.
Told ==
    /\ Given <= count /\ Len(seen) = Given
    /\ \A i \in 1 .. Given : seen[i] = keyArray[i]

\* The string of a key to come is alive, and the map still has the key.
Waiting ==
    \A i \in 1 .. count : i > Given => keyArray[i] \notin stale /\ Bound(keyArray[i])

Undisturbed == phase # "out" /\ ~disturbed => Taken /\ Told /\ Waiting

LoopInv == LoopTyped /\ LoopReset /\ Undisturbed

\* A step of the loop, or of the program around it, is an operation of the map
\* or does not touch it.
LEMMA LoopMapStep ==
    ASSUME LoopTyped, [LoopSteps]_vars
    PROVE  [Next]_mapVars
<1>1. KeyRead \subseteq Keys
  BY DEF LoopTyped, KeyRead
<1>2. CASE LoopLoads
  <2>1. PICK k \in KeyRead : Fetch(k)
    BY <1>2 DEF LoopLoads
  <2> QED BY <1>1, <2>1 DEF Next, Queries
<1>3. CASE LoopBegins \/ LoopNext \/ LoopExits \/ ExitFor \/ UNCHANGED vars
  BY <1>3 DEF LoopBegins, LoopNext, LoopExits, ExitFor, LeaveLoop, vars
<1>4. CASE Program
  <2>1. CASE ProgramStores
    BY <2>1 DEF ProgramStores, Next, StoreSteps
  <2>2. CASE ProgramRemoves
    BY <2>2 DEF ProgramRemoves, Next
  <2>3. CASE Queries
    BY <2>3 DEF Next
  <2> QED BY <1>4, <2>1, <2>2, <2>3 DEF Program
<1> QED BY <1>2, <1>3, <1>4 DEF LoopSteps

\* When the loop begins the invariant holds by what hashmap_keys returns.
LEMMA LoopBeginsStep ==
    ASSUME Inv, LoopInv, LoopBegins
    PROVE  LoopInv'
<1>1. /\ keyArray' = KeyArray /\ count' = size /\ index' = 0 /\ phase' = "test"
      /\ started' = {b.key : b \in Bindings} /\ seen' = << >>
      /\ UNCHANGED mapVars /\ stale' = {} /\ disturbed' = FALSE /\ Idle
  BY DEF LoopInv, LoopReset, LoopBegins
<1>2. /\ KeyArray \in Seq(Keys) /\ Len(KeyArray) = size /\ size \in Nat
      /\ \A i, j \in 1 .. size : KeyArray[i] = KeyArray[j] => i = j
      /\ {KeyArray[i] : i \in 1 .. size} = {b.key : b \in Bindings}
  BY <1>1, KeyArrayFacts
<1>3. \A i \in 1 .. size : KeyArray[i] \in Keys
  BY <1>2
<1>4. LoopTyped'
  <2>1. started' \subseteq Keys
    <3>1. started' = {KeyArray[i] : i \in 1 .. size}
      BY <1>1, <1>2
    <3> QED BY <1>3, <3>1, Zenon
  <2>2. << >> \in Seq(Keys)
    OBVIOUS
  <2>3. keyArray' \in Seq(Keys) /\ count' \in Nat /\ seen' \in Seq(Keys)
    BY <1>1, <1>2, <2>2
  <2> QED BY <1>1, <2>1, <2>3 DEF LoopTyped
<1>5. Bindings' = Bindings
  BY <1>1 DEF mapVars, table, resizing, Bindings, Copied, Uncopied, Turns
<1>6. \A i \in 1 .. size : \E b \in Bindings : b.key = KeyArray[i]
  BY <1>2
<1>7. Given' = 0
  BY <1>1 DEF Given
<1>8. Taken'
  <2>1. Len(KeyArray) = size /\ keyArray' = KeyArray /\ count' = size
    BY <1>1, <1>2
  <2>2. started' = {keyArray'[i] : i \in 1 .. count'}
    BY <1>1, <1>2, <2>1
  <2>3. \A i, j \in 1 .. count' : keyArray'[i] = keyArray'[j] => i = j
    BY <1>2, <2>1
  <2> QED BY <2>1, <2>2, <2>3 DEF Taken
<1>9. Told'
  BY <1>1, <1>2, <1>7 DEF Told
<1>10. Waiting'
  BY <1>1, <1>5, <1>6 DEF Waiting, Bound
<1> QED BY <1>1, <1>4, <1>8, <1>9, <1>10 DEF LoopInv, LoopReset, Undisturbed

\* The key that an undisturbed loop reads is the next one of its array, which is
\* alive and bound.
LEMMA NextKey ==
    ASSUME LoopInv, LoopLoads, ~disturbed
    PROVE  /\ Taken /\ Told /\ Waiting
           /\ index + 1 \in 1 .. count /\ Given = index
           /\ keyArray[index + 1] \in Keys /\ Bound(keyArray[index + 1])
           /\ KeyRead = {keyArray[index + 1]}
<1>1. Taken /\ Told /\ Waiting
  BY DEF LoopLoads, LoopInv, Undisturbed
<1>2. index + 1 \in 1 .. count /\ Given = index
  BY DEF LoopLoads, MoreTurns, LoopInv, LoopTyped, Given
<1>3. keyArray[index + 1] \in Keys
  BY <1>1, <1>2 DEF LoopInv, LoopTyped, Taken
<1>4. keyArray[index + 1] \notin stale /\ Bound(keyArray[index + 1])
  BY <1>1, <1>2 DEF Waiting, LoopInv, LoopTyped
<1>5. KeyRead = {keyArray[index + 1]}
  BY <1>1, <1>2, <1>4 DEF KeyRead, Taken, LoopInv, LoopTyped
<1> QED BY <1>1, <1>2, <1>3, <1>4, <1>5

\* The head of the body: one more key is given.
LEMMA LoopLoadsStep ==
    ASSUME LoopInv, LoopLoads
    PROVE  LoopInv'
<1>1. /\ phase = "test" /\ phase' = "body" /\ index < count
      /\ UNCHANGED <<keyArray, count, index, stale, started, disturbed, table, resizing>>
  BY DEF LoopLoads, MoreTurns, Fetch
<1>2. PICK k \in KeyRead : seen' = IF disturbed THEN seen ELSE Append(seen, k)
  BY DEF LoopLoads
<1>3. k \in Keys
  BY DEF LoopInv, LoopTyped, KeyRead
<1>4. LoopTyped'
  BY <1>1, <1>2, <1>3 DEF LoopInv, LoopTyped
<1>5. ASSUME ~disturbed PROVE Taken' /\ Told' /\ Waiting'
  <2>1. /\ Taken /\ Told /\ Waiting /\ Given = index /\ k = keyArray[index + 1]
        /\ index + 1 \in 1 .. count
    BY <1>5, NextKey
  <2>2. Given' = index + 1 /\ index \in Nat /\ count \in Nat /\ seen \in Seq(Keys)
    BY <1>1 DEF Given, LoopInv, LoopTyped
  <2>3. seen' = Append(seen, k) /\ Len(seen) = index
    BY <1>2, <1>5, <2>1 DEF Told
  <2>4. Told'
    BY <1>1, <2>1, <2>2, <2>3 DEF Told
  <2>5. Bindings' = Bindings
    BY <1>1 DEF table, resizing, Bindings, Copied, Uncopied, Turns
  <2>6. Waiting'
    BY <1>1, <2>1, <2>2, <2>5 DEF Waiting, Bound
  <2> QED BY <1>1, <2>1, <2>4, <2>6 DEF Taken
<1> QED BY <1>1, <1>4, <1>5 DEF LoopInv, LoopReset, Undisturbed

\* The end of a turn, and of the loop.
LEMMA LoopTurnStep ==
    ASSUME LoopInv, LoopNext \/ LoopExits \/ ExitFor \/ UNCHANGED vars
    PROVE  LoopInv'
<1>1. CASE LoopNext
  <2>1. /\ phase = "body" /\ phase' = "test" /\ index' = index + 1
        /\ UNCHANGED <<mapVars, keyArray, count, stale, seen, started, disturbed>>
    BY <1>1 DEF LoopNext
  <2>2. Given' = Given /\ Bindings' = Bindings
    BY <2>1 DEF Given, mapVars, table, resizing, Bindings, Copied, Uncopied, Turns
  <2>3. LoopTyped'
    BY <2>1 DEF LoopInv, LoopTyped
  <2> QED BY <2>1, <2>2, <2>3 DEF LoopInv, LoopReset, Undisturbed, Taken, Told, Waiting, Bound
<1>2. CASE LoopExits \/ ExitFor
  <2>1. << >> \in Seq(Keys) /\ LeaveLoop
    BY <1>2 DEF LoopExits, ExitFor
  <2>2. LoopTyped'
    BY <2>1 DEF LeaveLoop, LoopTyped
  <2> QED BY <2>1, <2>2 DEF LeaveLoop, LoopInv, LoopReset, Undisturbed
<1>3. CASE UNCHANGED vars
  <2>1. UNCHANGED loopVars /\ UNCHANGED mapVars
    BY <1>3 DEF vars
  <2>2. Bindings' = Bindings
    BY <2>1 DEF mapVars, table, resizing, Bindings, Copied, Uncopied, Turns
  <2> QED BY <2>1, <2>2 DEF loopVars, LoopInv, LoopTyped, LoopReset, Undisturbed, Taken, Told,
                            Waiting, Bound, Given
<1> QED BY <1>1, <1>2, <1>3

\* A store leaves every key bound that was, and so does what is no store.
LEMMA StoreBinds ==
    ASSUME NEW k, NEW v, Map!Store(k, v) \/ Bindings' = Bindings, NEW j, Bound(j)
    PROVE  Bound(j)'
<1>1. CASE Bindings' = Bindings
  BY <1>1 DEF Bound
<1>2. CASE Map!Store(k, v)
  <2>1. Bindings' = (Bindings \ Map!Of(k)) \cup {[key |-> k, value |-> v]}
    BY <1>2 DEF Map!Store
  <2>2. PICK b \in Bindings : b.key = j
    BY DEF Bound
  <2>3. CASE j = k
    <3>1. [key |-> k, value |-> v] \in Bindings'
      BY <2>1
    <3> QED BY <2>3, <3>1 DEF Bound
  <2>4. CASE j # k
    <3>1. b \in Bindings'
      BY <2>1, <2>2, <2>4 DEF Map!Of
    <3> QED BY <2>2, <3>1 DEF Bound
  <2> QED BY <2>3, <2>4
<1> QED BY <1>1, <1>2

\* A key that is bound is found.
LEMMA BoundPresent ==
    ASSUME Inv, Idle, NEW k \in Keys, Bound(k)
    PROVE  Present(k) /\ \E s \in Copied : entries[s].key = k
<1>1. pos = oldCapacity /\ oldCapacity \in Nat
  BY DEF Inv, TypeOK, RoomLeft, Idle
<1>2. Bindings = Held
  BY <1>1, BindingsOfTable
<1>3. PICK s \in Copied : entries[s].key = k
  BY <1>2 DEF Bound, Held
<1>4. s \in Turns /\ Holds(entries[s], k)
  BY <1>3 DEF Copied, Holds
<1>5. FindSlot(k) \in Turns
  BY <1>4, FindSlotFacts DEF Inv
<1>6. -1 \notin Turns
  BY DEF Inv, TypeOK, Turns
<1> QED BY <1>3, <1>5, <1>6 DEF Present, NoSlot

\* A step of the program that frees the strings in S, and after which every other
\* key that was bound still is.
LEMMA FreesStep ==
    ASSUME LoopInv, phase \in {"out", "body"}, NEW S, Frees(S),
           \A k \in Keys : Bound(k) /\ k \notin S => Bound(k)'
    PROVE  LoopInv'
<1>1. /\ stale' = stale \cup (S \cap Seqs!ToSet(keyArray))
      /\ UNCHANGED <<phase, keyArray, count, index>>
      /\ \/ /\ S \cap (started \ Seqs!ToSet(seen)) # {}
            /\ disturbed' = TRUE /\ seen' = << >> /\ started' = {}
         \/ /\ S \cap (started \ Seqs!ToSet(seen)) = {}
            /\ UNCHANGED <<disturbed, seen, started>>
  BY DEF Frees
<1>2. LoopTyped /\ LoopReset /\ Undisturbed
  BY DEF LoopInv
<1>3. LoopTyped'
  <2>1. << >> \in Seq(Keys)
    OBVIOUS
  <2>2. Seqs!ToSet(keyArray) \subseteq Keys
    BY <1>2 DEF LoopTyped, Seqs!ToSet
  <2> QED BY <1>1, <1>2, <2>1, <2>2 DEF LoopTyped
<1>4. LoopReset'
  <2> SUFFICES ASSUME phase = "out" PROVE LoopReset'
    BY <1>1 DEF LoopReset
  <2>1. Seqs!ToSet(keyArray) = {} /\ started = {}
    BY <1>2 DEF LoopReset, Seqs!ToSet
  <2> QED BY <1>1, <1>2, <2>1 DEF LoopReset
<1>5. ASSUME phase' # "out", ~disturbed' PROVE Taken' /\ Told' /\ Waiting'
  <2>1. /\ S \cap (started \ Seqs!ToSet(seen)) = {}
        /\ UNCHANGED <<disturbed, seen, started>>
        /\ Taken /\ Told /\ Waiting
    BY <1>1, <1>2, <1>5 DEF Undisturbed
  <2>2. Given' = Given /\ Given \in Nat /\ count \in Nat /\ seen \in Seq(Keys)
    BY <1>1, <1>2 DEF Given, LoopTyped
  <2>3. ASSUME NEW i \in 1 .. count, i > Given
        PROVE  keyArray[i] \notin stale' /\ Bound(keyArray[i])'
    <3>1. keyArray[i] \in started /\ keyArray[i] \in Keys
      BY <1>2, <2>1 DEF Taken, LoopTyped
    <3>2. keyArray[i] \notin Seqs!ToSet(seen)
      <4> SUFFICES ASSUME NEW j \in DOMAIN seen, seen[j] = keyArray[i] PROVE FALSE
        BY DEF Seqs!ToSet
      <4>1. j \in 1 .. Given /\ j \in 1 .. count
        BY <2>1, <2>2 DEF Told
      <4>2. keyArray[j] = keyArray[i]
        BY <2>1, <4>1 DEF Told
      <4>3. j = i
        BY <2>1, <4>1, <4>2 DEF Taken
      <4> QED BY <2>2, <2>3, <4>1, <4>3
    <3>3. keyArray[i] \notin S
      BY <2>1, <3>1, <3>2
    <3>4. keyArray[i] \notin stale /\ Bound(keyArray[i])
      BY <2>1, <2>3 DEF Waiting
    <3> QED BY <1>1, <3>1, <3>3, <3>4
  <2>4. Taken' /\ Told'
    BY <1>1, <2>1, <2>2 DEF Taken, Told
  <2>5. Waiting'
    BY <1>1, <2>2, <2>3 DEF Waiting, Bound
  <2> QED BY <2>4, <2>5
<1> QED BY <1>3, <1>4, <1>5 DEF LoopInv, Undisturbed

\* What the program stores or removes, in the body of the loop or out of it.
LEMMA LoopProgramStep ==
    ASSUME Inv, LoopInv, Program
    PROVE  LoopInv'
<1>1. phase \in {"out", "body"}
  BY DEF Program
<1>2. ASSUME NEW k \in Keys, NEW v \in Values \cup {NULL},
             Store(k, v) /\ Frees(IF Present(k) THEN {k} ELSE {})
      PROVE  LoopInv'
  <2>1. Map!Store(k, v)
    BY <1>2, StoreStep
  <2>2. \A j : Bound(j) => Bound(j)'
    BY <2>1, StoreBinds
  <2> QED BY <1>1, <1>2, <2>2, FreesStep
<1>3. ASSUME NEW k \in Keys, NEW v \in Values \cup {NULL},
             (Grow(k, v) \/ GrowFails(k, v)) /\ Frees({})
      PROVE  LoopInv'
  <2>1. Bindings' = Bindings
    <3>1. CASE Grow(k, v)
      BY <3>1, GrowStep
    <3>2. CASE GrowFails(k, v)
      <4>1. result' \in Values \cup {NULL} \cup Nat /\ UNCHANGED <<table, resizing>>
        BY <3>2 DEF GrowFails
      <4> QED BY <4>1, TablesUnchanged
    <3> QED BY <1>3, <3>1, <3>2
  <2>2. \A j : Bound(j) => Bound(j)'
    BY <2>1 DEF Bound
  <2> QED BY <1>1, <1>3, <2>2, FreesStep
<1>4. ASSUME CopySlot, NEW S, Frees(S) PROVE LoopInv'
  <2>1. \A j : Bound(j) => Bound(j)'
    BY <1>4, CopyStep DEF Bound
  <2> QED BY <1>1, <1>4, <2>1, FreesStep
<1>5. ASSUME GrowEnds, NEW S, Frees(S) PROVE LoopInv'
  <2>1. PICK k \in Keys, v \in Values \cup {NULL} : Map!Store(k, v)
    BY <1>5, GrowEndsStep
  <2>2. \A j : Bound(j) => Bound(j)'
    BY <2>1, StoreBinds
  <2> QED BY <1>1, <1>5, <2>2, FreesStep
<1>6. ASSUME NEW k \in Keys, Remove(k) /\ Frees(IF Present(k) THEN {k} ELSE {})
      PROVE  LoopInv'
  <2>1. Map!Remove(k) /\ Idle
    BY <1>6, RemoveStep DEF Remove
  <2>2. ASSUME NEW j \in Keys, Bound(j), j \notin (IF Present(k) THEN {k} ELSE {})
        PROVE  Bound(j)'
    <3>1. j # k
      BY <2>1, <2>2, BoundPresent
    <3>2. PICK b \in Bindings : b.key = j
      BY <2>2 DEF Bound
    <3>3. b \in Bindings'
      BY <2>1, <3>1, <3>2 DEF Map!Remove, Map!Of
    <3> QED BY <3>2, <3>3 DEF Bound
  <2> QED BY <1>1, <1>6, <2>2, FreesStep
<1>7. ASSUME Clear, Frees({entries[s].key : s \in Copied}) PROVE LoopInv'
  <2>1. \A j \in Keys : Bound(j) => j \in {entries[s].key : s \in Copied}
    BY <1>7, BoundPresent DEF Clear
  <2> QED BY <1>1, <1>7, <2>1, FreesStep
<1>8. CASE ProgramStores
  BY <1>2, <1>3, <1>4, <1>5, <1>8 DEF ProgramStores
<1>9. CASE ProgramRemoves
  BY <1>6, <1>7, <1>9 DEF ProgramRemoves
<1>10. CASE phase = "out" /\ Queries /\ UNCHANGED loopVars
  BY <1>10 DEF loopVars, LoopInv, LoopTyped, LoopReset, Undisturbed
<1> QED BY <1>8, <1>9, <1>10 DEF Program

\* Every step keeps the invariant of the loop.
LEMMA LoopStep ==
    ASSUME Inv, LoopInv, [LoopSteps]_vars
    PROVE  Inv' /\ LoopInv'
<1>1. [Next]_mapVars
  BY LoopMapStep DEF LoopInv
<1>2. Inv'
  BY <1>1, Step
<1>3. LoopInv'
  BY LoopBeginsStep, LoopLoadsStep, LoopTurnStep, LoopProgramStep DEF LoopSteps
<1> QED BY <1>2, <1>3

\* There is no loop in the beginning.
LEMMA LoopInitInv == LoopInit => Inv /\ LoopInv
<1> SUFFICES ASSUME LoopInit PROVE Inv /\ LoopInv
  OBVIOUS
<1>1. Inv
  BY InitInv DEF LoopInit
<1>2. << >> \in Seq(Keys)
  OBVIOUS
<1>3. LoopTyped
  BY <1>2 DEF LoopInit, LoopTyped
<1> QED BY <1>1, <1>3 DEF LoopInit, LoopInv, LoopReset, Undisturbed

\* A program with a loop uses the map as any program does: what is proved of the
\* table holds through the loop and its body.
THEOREM LoopUsesMap == LoopSpec => Spec
<1>1. LoopInit => Init
  BY DEF LoopInit
<1>2. LoopInv /\ [LoopSteps]_vars => [Next]_mapVars
  BY LoopMapStep DEF LoopInv
<1> QED BY <1>1, <1>2, LoopInitInv, LoopStep, PTL DEF LoopSpec, Spec

\* FOR EACH k, v IN m gives every key that m had at its start to the body exactly
\* once, although the body stores new keys, removes the current one and makes the
\* table grow: hashmap_keys has them all, and the loop counts through its array.
THEOREM LoopGivesAll == LoopSpec => []LoopComplete
<1>1. LoopInv => LoopComplete
  <2> SUFFICES ASSUME LoopInv, phase = "test", ~MoreTurns, ~disturbed
               PROVE  Seqs!ToSet(seen) = started /\ Len(seen) = Cardinality(started)
    BY DEF LoopComplete
  <2>1. Taken /\ Told /\ Given = index /\ index \in Nat /\ count \in Nat /\ seen \in Seq(Keys)
        /\ keyArray \in Seq(Keys)
    BY DEF LoopInv, LoopTyped, Undisturbed, Given
  <2>2. index = count
    BY <2>1 DEF MoreTurns, Told
  <2>3. DOMAIN seen = 1 .. count /\ Len(seen) = count
    BY <2>1, <2>2 DEF Told
  <2>4. \A i \in 1 .. count : seen[i] = keyArray[i]
    BY <2>1, <2>2 DEF Told
  <2>5. Seqs!ToSet(seen) = started
    BY <2>1, <2>3, <2>4 DEF Seqs!ToSet, Taken
  <2>6. Cardinality(started) = count
    <3> DEFINE S == 1 .. count
               f == [i \in S |-> keyArray[i]]
    <3>1. IsFiniteSet(S) /\ Cardinality(S) = count
      BY <2>1, FS_Interval, 1 \in Int
    <3> HIDE DEF S
    <3>2. f \in Bijection(S, started)
      <4>1. \A i \in S : f[i] = keyArray[i] /\ keyArray[i] \in started
        BY <2>1 DEF Taken, S
      <4>2. \A x \in started : \E i \in S : f[i] = x
        BY <2>1 DEF Taken, S
      <4>3. \A i, j \in S : f[i] = f[j] => i = j
        BY <2>1, <4>1 DEF Taken, S
      <4> QED BY <4>1, <4>2, <4>3 DEF Bijection, Injection, IsInjective, Surjection
    <3> QED BY <3>1, <3>2, FS_Bijection DEF ExistsBijection
  <2> QED BY <2>3, <2>5, <2>6
<1> QED BY <1>1, LoopInitInv, LoopStep, PTL DEF LoopSpec

\* What the body of an undisturbed loop is given is bound at that moment: the key
\* pointer is read, and looked up, before anything can free it.
THEOREM LoopReadsBound == LoopSpec => LoopReadsMap
<1>1. ASSUME Inv, LoopInv, LoopLoads, ~disturbed
      PROVE  [key |-> Seqs!Last(seen'), value |-> result'] \in Bindings
  <2>1. PICK k \in KeyRead : seen' = Append(seen, k) /\ Fetch(k)
    BY <1>1 DEF LoopLoads
  <2>2. k = keyArray[index + 1] /\ k \in Keys /\ Bound(k)
    BY <1>1, <2>1, NextKey
  <2>3. seen \in Seq(Keys)
    BY <1>1 DEF LoopInv, LoopTyped
  <2>4. Seqs!Last(seen') = k
    BY <2>1, <2>2, <2>3 DEF Seqs!Last
  <2>5. result' = ValueAt(FindSlot(k)) /\ Idle
    BY <2>1 DEF Fetch
  <2>6. PICK b \in Bindings : b.key = k
    BY <2>2 DEF Bound
  <2>7. b.value = result'
    BY <1>1, <2>2, <2>5, <2>6, LookupFacts DEF Map!Of
  <2>8. b \in Entry
    BY <1>1 DEF Inv, TypeOK, Bindings, Copied, Uncopied, Occupied, Slot, Turns
  <2> QED BY <2>4, <2>6, <2>7, <2>8 DEF Entry
<1>2. Inv /\ LoopInv /\ [LoopSteps]_vars =>
        [LoopLoads /\ ~disturbed =>
           [key |-> Seqs!Last(seen'), value |-> result'] \in Bindings]_vars
  BY <1>1
<1> QED BY <1>2, LoopInitInv, LoopStep, PTL DEF LoopSpec, LoopReadsMap
=============================================================================
