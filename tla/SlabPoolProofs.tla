--------------------------- MODULE SlabPoolProofs ---------------------------
(***************************************************************************)
(* Proofs about SlabPool for every number and size of slabs: no slot is    *)
(* lost or handed out twice, the counters are true, and the pool           *)
(* implements Allocator.                                                   *)
(***************************************************************************)
EXTENDS SlabPool, FiniteSetTheorems, TLAPS

Entries(f) == {f[i] : i \in 1 .. Len(f)}
Once(f) == \A i, j \in 1 .. Len(f) : f[i] = f[j] => i = j

\* What taking the head of a free list leaves.
LEMMA TailEntries ==
    ASSUME NEW S, NEW f \in Seq(S), f # << >>, Once(f)
    PROVE  /\ Tail(f) \in Seq(S) /\ Len(Tail(f)) = Len(f) - 1
           /\ Head(f) \in S /\ Head(f) \in Entries(f)
           /\ Once(Tail(f))
           /\ Entries(Tail(f)) = Entries(f) \ {Head(f)}
<1> Len(f) \in Nat \ {0} /\ Head(f) = f[1]
  OBVIOUS
<1>1. /\ Tail(f) \in Seq(S) /\ Len(Tail(f)) = Len(f) - 1
      /\ \A i \in 1 .. Len(f) - 1 : Tail(f)[i] = f[i + 1]
  OBVIOUS
<1>2. Head(f) \in S /\ Head(f) \in Entries(f)
  BY DEF Entries
<1>3. Once(Tail(f))
  BY <1>1 DEF Once
<1>4. \A i \in 1 .. Len(f) - 1 : f[i + 1] \in Entries(f) \ {Head(f)}
  BY DEF Entries, Once
<1>5. ASSUME NEW x \in Entries(f) \ {Head(f)}
      PROVE  x \in Entries(Tail(f))
  <2>1. PICK i \in 1 .. Len(f) : x = f[i] /\ i # 1
    BY <1>5 DEF Entries
  <2>2. i - 1 \in 1 .. Len(f) - 1 /\ Tail(f)[i - 1] = x
    BY <2>1, <1>1
  <2> QED BY <2>2, <1>1 DEF Entries
<1>6. Entries(Tail(f)) \subseteq Entries(f) \ {Head(f)}
  BY <1>1, <1>4 DEF Entries
<1> QED BY <1>1, <1>2, <1>3, <1>5, <1>6

\* What pushing a slot makes of a free list.
LEMMA PushEntries ==
    ASSUME NEW S, NEW f \in Seq(S), Once(f), NEW s \in S, s \notin Entries(f)
    PROVE  /\ <<s>> \o f \in Seq(S) /\ Len(<<s>> \o f) = Len(f) + 1
           /\ Once(<<s>> \o f)
           /\ Entries(<<s>> \o f) = Entries(f) \cup {s}
<1> DEFINE g == <<s>> \o f
<1>1. /\ g \in Seq(S) /\ Len(g) = Len(f) + 1 /\ Len(f) \in Nat
      /\ g[1] = s /\ \A i \in 1 .. Len(f) : g[i + 1] = f[i]
  OBVIOUS
<1>2. \A i \in 2 .. Len(g) : i - 1 \in 1 .. Len(f) /\ g[i] = f[i - 1]
  <2> TAKE i \in 2 .. Len(g)
  <2>1. i - 1 \in 1 .. Len(f) /\ (i - 1) + 1 = i
    BY <1>1
  <2> QED BY <2>1, <1>1
<1> HIDE DEF g
<1>3. Once(g)
  <2> SUFFICES ASSUME NEW i \in 1 .. Len(g), NEW j \in 1 .. Len(g), g[i] = g[j]
               PROVE  i = j
    BY DEF Once
  <2>1. CASE i = 1 /\ j # 1
    BY <2>1, <1>1, <1>2 DEF Entries
  <2>2. CASE i # 1 /\ j = 1
    BY <2>2, <1>1, <1>2 DEF Entries
  <2>3. CASE i # 1 /\ j # 1
    BY <2>3, <1>1, <1>2 DEF Once
  <2> QED BY <2>1, <2>2, <2>3
<1>4. Entries(g) \subseteq Entries(f) \cup {s}
  <2> SUFFICES ASSUME NEW i \in 1 .. Len(g)
               PROVE  g[i] \in Entries(f) \cup {s}
    BY DEF Entries
  <2> QED BY <1>1, <1>2 DEF Entries
<1>5. Entries(f) \cup {s} \subseteq Entries(g)
  <2>1. s \in Entries(g)
    BY <1>1 DEF Entries
  <2>2. ASSUME NEW i \in 1 .. Len(f) PROVE f[i] \in Entries(g)
    <3>1. i + 1 \in 1 .. Len(g)
      BY <1>1
    <3> QED BY <3>1, <1>1 DEF Entries
  <2> QED BY <2>1, <2>2 DEF Entries
<1> QED BY <1>1, <1>3, <1>4, <1>5 DEF g

\* What a new slab puts on the list.
LEMMA SlabEntries ==
    ASSUME NEW k \in 1 .. MaxSlabs
    PROVE  /\ SlabSlots(k) \in Seq(Slots) /\ SlabSlots(k) # << >>
           /\ Len(SlabSlots(k)) = SlotsPerSlab /\ Head(SlabSlots(k)) = <<k, 1>>
           /\ Once(SlabSlots(k))
           /\ Entries(SlabSlots(k)) = {s \in SlabSlot : s[1] = k}
<1> SlotsPerSlab \in Nat \ {0}
  BY PoolAssumption
<1> DEFINE f == SlabSlots(k)
<1>1. \A i \in 1 .. SlotsPerSlab : <<k, i>> \in Slots
  BY DEF Slots, SlabSlot
<1>2. f \in Seq(Slots)
  BY <1>1 DEF SlabSlots
<1>3. Len(f) = SlotsPerSlab /\ \A i \in 1 .. SlotsPerSlab : f[i] = <<k, i>>
  BY DEF SlabSlots
<1>4. f # << >> /\ Head(f) = <<k, 1>>
  BY <1>2, <1>3
<1> HIDE DEF f
<1>5. Once(f)
  BY <1>3 DEF Once
<1>6. Entries(f) = {s \in SlabSlot : s[1] = k}
  <2>1. ASSUME NEW s \in SlabSlot, s[1] = k PROVE s \in Entries(f)
    <3>1. PICK i \in 1 .. SlotsPerSlab : s = <<k, i>>
      BY <2>1 DEF SlabSlot
    <3> QED BY <3>1, <1>3 DEF Entries
  <2>2. ASSUME NEW i \in 1 .. Len(f) PROVE f[i] \in SlabSlot /\ f[i][1] = k
    <3>1. f[i] = <<k, i>> /\ i \in 1 .. SlotsPerSlab
      BY <1>3
    <3> QED BY <3>1 DEF SlabSlot
  <2> QED BY <2>1, <2>2 DEF Entries
<1> QED BY <1>2, <1>3, <1>4, <1>5, <1>6 DEF f

-----------------------------------------------------------------------------
\* The inductive invariant, in two parts: where the slots are, and what the
\* counters say of finitely many users.
Shape == PoolTypeOK /\ EverySlotOnce
Tally == CountersTrue /\ IsFiniteSet(out) /\ IsFiniteSet(foreign)
PInv == Shape /\ Tally

\* The facts about the state that the steps use.
LEMMA Apart ==
    ASSUME Shape
    PROVE  /\ FreeSlots = Entries(free) /\ Once(free)
           /\ \A s \in Mallocs \ foreign : s \notin out
           /\ \A s \in SlabSlot : s[1] > slabs => s \notin out
           /\ free # << >> => Head(free) \in Slots \ out
<1>1. FreeSlots = Entries(free) /\ Once(free)
  BY DEF Shape, EverySlotOnce, FreeSlots, Entries, Once
<1>2. free \in Seq(Slots) /\ FreeSlots \cap out = {} /\ out \subseteq Present \cup foreign
      /\ foreign \subseteq Mallocs /\ slabs \in Nat /\ Mallocs \cap SlabSlot = {}
  BY PoolAssumption DEF Shape, EverySlotOnce, PoolTypeOK
<1>3. \A s \in Mallocs \ foreign : s \notin out
  BY <1>2 DEF Present
<1>4. \A s \in SlabSlot : s[1] > slabs => s \notin out
  <2> SUFFICES ASSUME NEW s \in SlabSlot, s[1] > slabs, s \in out PROVE FALSE
    OBVIOUS
  <2>1. s[1] \in Nat
    BY PoolAssumption DEF SlabSlot
  <2>2. s \in Present
    BY <1>2
  <2> QED BY <2>1, <2>2, <1>2 DEF Present
<1>5. free # << >> => Head(free) \in Slots \ out
  BY <1>1, <1>2, TailEntries
<1> QED BY <1>1, <1>3, <1>4, <1>5

\* A pool with its initial slab has every slot once and true counters.
LEMMA InitSound == PoolInit => Shape /\ Tally
<1> SUFFICES ASSUME PoolInit PROVE Shape /\ Tally
  OBVIOUS
<1>0. MaxSlabs \in Nat
  BY PoolAssumption
<1>1. PoolTypeOK
  BY <1>0 DEF PoolInit, PoolTypeOK
<1>2. Present = {}
  <2> SUFFICES ASSUME NEW s \in SlabSlot, s[1] <= slabs PROVE FALSE
    BY DEF Present
  <2> QED BY <1>0 DEF PoolInit, SlabSlot
<1>3. EverySlotOnce
  BY <1>2 DEF PoolInit, EverySlotOnce, FreeSlots
<1>4. Tally
  BY FS_EmptySet DEF PoolInit, CountersTrue, Tally
<1> QED BY <1>1, <1>3, <1>4 DEF Shape

\* Every slot stays in one place.
LEMMA ShapeStep == Shape /\ PoolNext => Shape'
<1> SUFFICES ASSUME Shape, PoolNext PROVE Shape'
  OBVIOUS
<1> USE PoolAssumption
<1>0. /\ free \in Seq(Slots) /\ slabs \in 0 .. MaxSlabs /\ capacity \in Nat
      /\ in_use \in Nat /\ foreign \subseteq Mallocs /\ out \subseteq Slots
      /\ Entries(free) \cap out = {} /\ Present \subseteq Entries(free) \cup out
      /\ Entries(free) \cup out \subseteq Present \cup foreign
      /\ FreeSlots = Entries(free) /\ Once(free)
  BY Apart DEF Shape, PoolTypeOK, EverySlotOnce
<1>goal. ASSUME /\ free' \in Seq(Slots) /\ slabs' \in 0 .. MaxSlabs /\ capacity' \in Nat
                /\ in_use' \in Nat /\ foreign' \subseteq Mallocs /\ out' \subseteq Slots,
                Once(free'), Entries(free') \cap out' = {},
                Present' \subseteq Entries(free') \cup out',
                Entries(free') \cup out' \subseteq Present' \cup foreign'
         PROVE  Shape'
  <2>1. PoolTypeOK'
    BY <1>goal DEF PoolTypeOK
  <2>2. FreeSlots' = Entries(free')
    BY DEF FreeSlots, Entries
  <2>3. EverySlotOnce'
    BY <1>goal, <2>2 DEF EverySlotOnce, Once
  <2> QED BY <2>1, <2>3 DEF Shape
<1>1. CASE AddFirstSlab
  <2>1. 1 \in 1 .. MaxSlabs
    OBVIOUS
  <2>2. Present' = {s \in SlabSlot : s[1] = 1}
    <3>1. \A s \in SlabSlot : s[1] \in 1 .. MaxSlabs
      BY DEF SlabSlot
    <3> QED BY <3>1, <1>1 DEF Present, AddFirstSlab
  <2> QED BY <2>1, <2>2, <1>0, <1>1, <1>goal, SlabEntries DEF AddFirstSlab
<1>2. CASE Deinit
  <2>1. Present' = {}
    <3>1. \A s \in SlabSlot : s[1] \in 1 .. MaxSlabs
      BY DEF SlabSlot
    <3> QED BY <3>1, <1>2 DEF Present, Deinit
  <2>2. Entries(free') = {} /\ Once(free')
    BY <1>2 DEF Deinit, Entries, Once
  <2>3. free' \in Seq(Slots) /\ slabs' = 0 /\ capacity' = 0 /\ in_use' = 0 /\ out' = {}
        /\ foreign' = foreign
    BY <1>2 DEF Deinit
  <2> QED BY <2>1, <2>2, <2>3, <1>0, <1>goal
<1>3. CASE AllocFails
  BY <1>3 DEF AllocFails, pool, Shape, PoolTypeOK, EverySlotOnce, FreeSlots, Present
<1>4. ASSUME NEW s \in Slots, AllocPops(s) PROVE Shape'
  <2>1. Present' = Present
    BY <1>4 DEF AllocPops, Present
  <2>2. /\ free' \in Seq(Slots) /\ Once(free') /\ s \in Entries(free)
        /\ Entries(free') = Entries(free) \ {s}
    BY <1>0, <1>4, TailEntries DEF AllocPops
  <2>3. out' = out \cup {s} /\ in_use' \in Nat /\ slabs' = slabs /\ capacity' = capacity
        /\ foreign' = foreign
    BY <1>0, <1>4 DEF AllocPops
  <2> QED BY <2>1, <2>2, <2>3, <1>0, <1>goal
<1>5. ASSUME NEW s \in Slots, AllocGrows(s) PROVE Shape'
  <2> DEFINE k == slabs + 1
             fresh == {t \in SlabSlot : t[1] = k}
  <2>1. k \in 1 .. MaxSlabs /\ slabs' = k /\ free = << >> /\ s = <<k, 1>>
        /\ free' = Tail(SlabSlots(k)) /\ out' = out \cup {s} /\ foreign' = foreign
        /\ capacity' \in Nat /\ in_use' \in Nat
    BY <1>0, <1>5 DEF AllocGrows
  <2>2. \A t \in SlabSlot : t[1] \in 1 .. MaxSlabs
    BY DEF SlabSlot
  <2>3. Present' = Present \cup fresh /\ Present \cap fresh = {}
    BY <2>1, <2>2, <1>0 DEF Present
  <2> HIDE DEF k
  <2>4. /\ SlabSlots(k) \in Seq(Slots) /\ SlabSlots(k) # << >> /\ Once(SlabSlots(k))
        /\ Head(SlabSlots(k)) = s /\ Entries(SlabSlots(k)) = fresh
    BY <2>1, SlabEntries
  <2> DEFINE f == SlabSlots(k)
  <2> HIDE DEF f, fresh
  <2>a. f \in Seq(Slots) /\ f # << >> /\ Once(f) /\ Head(f) = s /\ Entries(f) = fresh
        /\ free' = Tail(f)
    BY <2>1, <2>4 DEF f
  <2>5. free' \in Seq(Slots) /\ Once(free') /\ Entries(free') = fresh \ {s} /\ s \in fresh
    BY <2>a, TailEntries
  <2>6. Entries(free) = {}
    BY <2>1 DEF Entries
  <2>7. fresh \cap out = {}
    <3>1. \A t \in fresh : t \in SlabSlot /\ t[1] > slabs
      BY <1>0 DEF fresh, k
    <3>2. \A t \in SlabSlot : t[1] > slabs => t \notin out
      BY Apart
    <3> QED BY <3>1, <3>2
  <2>8. Once(free') /\ Entries(free') \cap out' = {}
        /\ Present' \subseteq Entries(free') \cup out'
        /\ Entries(free') \cup out' \subseteq Present' \cup foreign'
    BY <2>1, <2>3, <2>5, <2>6, <2>7, <1>0
  <2>9. slabs' \in 0 .. MaxSlabs
    BY <2>1
  <2>b. out' \subseteq Slots /\ foreign' \subseteq Mallocs
    BY <2>1, <1>0
  <2> QED BY <2>1, <2>5, <2>8, <2>9, <2>b, <1>goal
<1>6. ASSUME NEW s \in Slots, AllocFallsBack(s) PROVE Shape'
  <2>1. Present' = Present
    BY <1>6 DEF AllocFallsBack, Present
  <2>2. s \in Mallocs \ foreign /\ foreign' = foreign \cup {s} /\ out' = out \cup {s}
        /\ free' = free /\ slabs' = slabs /\ capacity' = capacity /\ in_use' = in_use
    BY <1>6 DEF AllocFallsBack
  <2>3. s \notin Entries(free)
    BY <2>2, <1>0 DEF Present
  <2> QED BY <2>1, <2>2, <2>3, <1>0, <1>goal
<1>7. ASSUME NEW s \in Slots, s \in out, Free(s) PROVE Shape'
  <2>1. Present' = Present
    BY <1>7 DEF Free, Present
  <2>2. free' \in Seq(Slots) /\ Once(free') /\ Entries(free') = Entries(free) \cup {s}
    BY <1>0, <1>7, PushEntries DEF Free
  <2>3. out' = out \ {s} /\ in_use' \in Nat /\ slabs' = slabs /\ capacity' = capacity
        /\ foreign' = foreign
    BY <1>0, <1>7 DEF Free
  <2> QED BY <2>1, <2>2, <2>3, <1>0, <1>7, <1>goal
<1> QED BY <1>1, <1>2, <1>3, <1>4, <1>5, <1>6, <1>7 DEF PoolNext, Alloc

\* The counters keep up with the users.
LEMMA TallyStep == Shape /\ Tally /\ PoolNext => Tally'
<1> SUFFICES ASSUME Shape, Tally, PoolNext PROVE Tally'
  OBVIOUS
<1> DEFINE n == Cardinality(out)
           f == Cardinality(foreign)
<1>0. /\ free \in Seq(Slots) /\ slabs \in 0 .. MaxSlabs /\ capacity \in Nat
      /\ in_use \in Nat /\ foreign \subseteq Mallocs /\ out \subseteq Slots
      /\ SlotsPerSlab \in Nat \ {0} /\ Len(free) \in Nat
  BY PoolAssumption DEF Shape, PoolTypeOK
<1>1. /\ foreign = {} => Len(free) + in_use = capacity /\ in_use = n
      /\ in_use <= n /\ n <= in_use + f
      /\ IsFiniteSet(out) /\ IsFiniteSet(foreign)
  BY DEF Tally, CountersTrue
<1>2. n \in Nat /\ f \in Nat /\ (out = {} => n = 0)
  BY <1>1, FS_CardinalityType, FS_EmptySet
<1>3. \A s : s \notin out => /\ IsFiniteSet(out \cup {s})
                            /\ Cardinality(out \cup {s}) = n + 1
  BY <1>1, FS_AddElement
<1>4. \A s : s \in out => /\ IsFiniteSet(out \ {s})
                          /\ Cardinality(out \ {s}) = n - 1 /\ n >= 1
  <2> TAKE s
  <2> HAVE s \in out
  <2>1. IsFiniteSet(out \ {s}) /\ Cardinality(out \ {s}) = n - 1
    BY <1>1, FS_RemoveElement
  <2>2. Cardinality(out \ {s}) \in Nat
    BY <2>1, FS_CardinalityType
  <2> QED BY <2>1, <2>2, <1>2
<1>5. \A s : s \notin foreign => /\ IsFiniteSet(foreign \cup {s})
                                /\ Cardinality(foreign \cup {s}) = f + 1
  BY <1>1, FS_AddElement
<1>6. Cardinality({}) = 0 /\ IsFiniteSet({})
  BY FS_EmptySet
<1>goal. ASSUME foreign' = {} => Len(free') + in_use' = capacity' /\ in_use' = Cardinality(out'),
                in_use' <= Cardinality(out'),
                Cardinality(out') <= in_use' + Cardinality(foreign'),
                IsFiniteSet(out'), IsFiniteSet(foreign')
         PROVE  Tally'
  BY <1>goal DEF Tally, CountersTrue
<1> HIDE DEF n, f
<1>7. CASE AddFirstSlab
  <2>1. /\ out' = out /\ foreign' = foreign /\ in_use' = in_use /\ out = {}
        /\ capacity' = SlotsPerSlab /\ Len(free') = SlotsPerSlab
    BY <1>7, <1>0 DEF AddFirstSlab, SlabSlots
  <2> QED BY <2>1, <1>0, <1>1, <1>2, <1>goal DEF n, f
<1>8. CASE Deinit
  <2>1. /\ out' = {} /\ foreign' = foreign /\ in_use' = 0 /\ capacity' = 0 /\ Len(free') = 0
    BY <1>8 DEF Deinit
  <2> QED BY <2>1, <1>1, <1>2, <1>6, <1>goal DEF f
<1>9. CASE AllocFails
  BY <1>9 DEF AllocFails, pool, Tally, CountersTrue
<1>10. ASSUME NEW s \in Slots, AllocPops(s) PROVE Tally'
  <2>1. /\ out' = out \cup {s} /\ foreign' = foreign /\ in_use' = in_use + 1
        /\ capacity' = capacity /\ Len(free') = Len(free) - 1 /\ s \notin out
    BY <1>10, <1>0, Apart DEF AllocPops
  <2>c. /\ IsFiniteSet(out') /\ Cardinality(out') = n + 1
        /\ IsFiniteSet(foreign') /\ Cardinality(foreign') = f
    BY <2>1, <1>1, <1>3 DEF f
  <2> QED BY <2>1, <2>c, <1>0, <1>1, <1>2, <1>goal
<1>11. ASSUME NEW s \in Slots, AllocGrows(s) PROVE Tally'
  <2>1. /\ out' = out \cup {s} /\ foreign' = foreign /\ in_use' = in_use + 1
        /\ capacity' = capacity + SlotsPerSlab /\ Len(free) = 0
        /\ slabs + 1 \in 1 .. MaxSlabs /\ s = <<slabs + 1, 1>>
        /\ free' = Tail(SlabSlots(slabs + 1))
    BY <1>11, <1>0, PoolAssumption DEF AllocGrows
  <2>2. s \in SlabSlot /\ s[1] > slabs
    BY <2>1, <1>0 DEF SlabSlot
  <2>3. s \notin out
    BY <2>2, Apart
  <2>4. /\ SlabSlots(slabs + 1) \in Seq(Slots) /\ SlabSlots(slabs + 1) # << >>
        /\ Len(SlabSlots(slabs + 1)) = SlotsPerSlab
    BY <2>1, SlabEntries
  <2>5. Len(free') = SlotsPerSlab - 1
    BY <2>1, <2>4
  <2>c. /\ IsFiniteSet(out') /\ Cardinality(out') = n + 1
        /\ IsFiniteSet(foreign') /\ Cardinality(foreign') = f
    BY <2>1, <2>3, <1>1, <1>3 DEF f
  <2>d. /\ in_use' = in_use + 1 /\ capacity' = capacity + SlotsPerSlab
        /\ foreign' = foreign /\ Len(free) = 0
    BY <2>1
  <2>e. foreign' = {} => Len(free') + in_use' = capacity' /\ in_use' = Cardinality(out')
    BY <2>c, <2>d, <2>5, <1>0, <1>1, <1>2
  <2>f. in_use' <= Cardinality(out') /\ Cardinality(out') <= in_use' + Cardinality(foreign')
    BY <2>c, <2>d, <1>0, <1>1, <1>2
  <2> QED BY <2>c, <2>e, <2>f, <1>goal
<1>12. ASSUME NEW s \in Slots, AllocFallsBack(s) PROVE Tally'
  <2>1. /\ out' = out \cup {s} /\ foreign' = foreign \cup {s} /\ in_use' = in_use
        /\ s \notin foreign /\ s \notin out
    BY <1>12, Apart DEF AllocFallsBack
  <2> QED BY <2>1, <1>0, <1>1, <1>2, <1>3, <1>5, <1>goal, SMTT(60)
<1>13. ASSUME NEW s \in Slots, s \in out, Free(s) PROVE Tally'
  <2>1. /\ out' = out \ {s} /\ foreign' = foreign /\ capacity' = capacity
        /\ in_use' = IF in_use > 0 THEN in_use - 1 ELSE 0
        /\ Len(free') = Len(free) + 1
    BY <1>13, <1>0 DEF Free
  <2>c. /\ IsFiniteSet(out') /\ Cardinality(out') = n - 1 /\ n >= 1
        /\ IsFiniteSet(foreign') /\ Cardinality(foreign') = f
    BY <2>1, <1>13, <1>1, <1>4 DEF f
  <2> QED BY <2>1, <2>c, <1>0, <1>1, <1>2, <1>13, <1>goal
<1> QED BY <1>7, <1>8, <1>9, <1>10, <1>11, <1>12, <1>13 DEF PoolNext, Alloc

-----------------------------------------------------------------------------
\* samm_pool.zig alloc, free, addSlab: the free list holds slots of slabs and
\* blocks of malloc only, each slot is on it once or has a user.
THEOREM PoolInvariant == PoolSpec => []PInv
<1>1. PoolInit => PInv
  BY InitSound DEF PInv
<1>2. PInv /\ [PoolNext]_pool => PInv'
  <2> SUFFICES ASSUME Shape, Tally, [PoolNext]_pool PROVE Shape' /\ Tally'
    BY DEF PInv
  <2>1. CASE PoolNext
    BY <2>1, ShapeStep, TallyStep
  <2>2. CASE UNCHANGED pool
    BY <2>2 DEF pool, Shape, PoolTypeOK, EverySlotOnce, FreeSlots, Present, Tally, CountersTrue
  <2> QED BY <2>1, <2>2
<1> QED BY <1>1, <1>2, PTL DEF PoolSpec

\* samm_pool.zig alloc, free, validate: no slot is lost or handed out twice, and
\* the counters that validate compares and deinit reports are true.
THEOREM PoolIsSound == PoolSpec => []PoolSound
<1>1. PInv => PoolSound
  BY DEF PInv, Shape, Tally, PoolSound
<1> QED BY <1>1, PoolInvariant, PTL

\* A user of the pool need know no more than Allocator says.
THEOREM PoolAllocates == PoolSpec => IsAllocator
<1>1. PoolInit => Users!Init
  BY DEF PoolInit, Users!Init
<1>2. PInv /\ [PoolNext]_pool => [Users!Next]_out
  <2> SUFFICES ASSUME Shape, PoolNext, out' # out PROVE Users!Next
    BY DEF pool, PInv
  <2>1. CASE AddFirstSlab \/ Deinit \/ AllocFails
    BY <2>1 DEF AddFirstSlab, Deinit, AllocFails, pool, Users!Next, Users!Destroy
  <2>2. ASSUME NEW s \in Slots, Alloc(s) PROVE Users!Take(s)
    <3>1. CASE AllocPops(s)
      BY <3>1, Apart DEF AllocPops, Users!Take
    <3>2. CASE AllocFallsBack(s)
      BY <3>2, Apart DEF AllocFallsBack, Users!Take
    <3>3. CASE AllocGrows(s)
      <4>1. slabs + 1 \in 1 .. MaxSlabs /\ s = <<slabs + 1, 1>> /\ out' = out \cup {s}
            /\ slabs \in Nat
        BY <3>3, PoolAssumption DEF AllocGrows, Shape, PoolTypeOK
      <4>2. s \in SlabSlot /\ s[1] > slabs
        BY <4>1, PoolAssumption DEF SlabSlot
      <4> QED BY <4>1, <4>2, Apart DEF Users!Take
    <3> QED BY <2>2, <3>1, <3>2, <3>3 DEF Alloc
  <2>3. ASSUME NEW s \in Slots, s \in out, Free(s) PROVE Users!GiveBack(s)
    BY <2>3 DEF Free, Users!GiveBack
  <2> QED BY <2>1, <2>2, <2>3 DEF PoolNext, Users!Next
<1> QED BY <1>1, <1>2, PoolInvariant, PTL DEF PoolSpec, IsAllocator, Users!Spec
=============================================================================
