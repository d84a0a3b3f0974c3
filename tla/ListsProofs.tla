---------------------------- MODULE ListsProofs ----------------------------
(***************************************************************************)
(* Proofs about Lists, for every set of lists, values and slots, and every *)
(* number of levels of scopes: the pool of the atoms stays sound under the *)
(* program and the background thread, nothing leaks, the pointers and the  *)
(* counters of a list agree, and the lists are the sequences of values     *)
(* that the program asked for.  The pool's own steps are proved in         *)
(* SlabPoolProofs.                                                         *)
(***************************************************************************)
EXTENDS Lists, SlabPoolProofs, SequenceTheorems, WellFoundedInduction

\* The row c of atoms starts at a, and each atom but the last has the next.
Linked(m, a, c) ==
    /\ a = IF c = << >> THEN NULL ELSE c[1]
    /\ \A i \in 1 .. Len(c) : After(m, c[i]) = IF i = Len(c) THEN NULL ELSE c[i + 1]

\* The row is linked in the memory m, has no atom twice, and its atoms hold
\* values and are all in T.
Row(m, a, c, T) ==
    /\ c \in Seq(Slots) /\ Linked(m, a, c) /\ Once(c)
    /\ \A i \in 1 .. Len(c) : c[i] \in T /\ m[c[i]].value \in Values

\* The atom of which a list still has the rest: the head, and while the list is
\* cleared the atom that is next.
Top(l) == IF Cleared(l) THEN job.at ELSE list[l].head
Rest(l) == Chain(Top(l))

-----------------------------------------------------------------------------
Things == Names \cup Slots
Links == Slots \cup {NULL}

\* The types of the variables.
ListsTyped ==
    /\ atom \in [Slots -> [value : Values \cup {NULL}, next : Links]]
    /\ list \in [Names -> [head : Links, tail : Links, length : Nat]]
    /\ home \in [Names -> Levels \cup {NULL}]
    /\ level \in -1 .. MaxDepth - 1
    /\ tracked \in [Levels -> SUBSET Things]
    /\ queue \in Seq(SUBSET Things) /\ batch \in SUBSET Things
    /\ cursor \in [list : Names \cup {NULL}, at : Links, level : Levels]
    /\ job \in [op : {"none", "clear", "copy", "reverse"},
                list : Names \cup {NULL}, at : Links, into : Names \cup {NULL}]
    /\ mode \in {"run", "ending", "done", "aborted"}

\* Where a header or an atom is.
InLevel(x, d) == x \in tracked[d]
InQueue(x, i) == x \in queue[i]
InBatch(x) == x \in batch

\* A header or an atom is in one place at most, and an atom is somewhere as
\* long as it has a user, and no longer.
OnePlace ==
    /\ \A x \in Things : \A d, e \in Levels : InLevel(x, d) /\ InLevel(x, e) => d = e
    /\ \A x \in Things : \A i, j \in DOMAIN queue : InQueue(x, i) /\ InQueue(x, j) => i = j
    /\ \A x \in Things : \A d \in Levels : InLevel(x, d) =>
           ~InBatch(x) /\ \A i \in DOMAIN queue : ~InQueue(x, i)
    /\ \A x \in Things : InBatch(x) => \A i \in DOMAIN queue : ~InQueue(x, i)
    /\ \A x \in Slots : x \in out <=> \/ \E d \in Levels : InLevel(x, d)
                                      \/ InBatch(x)
                                      \/ \E i \in DOMAIN queue : InQueue(x, i)
    /\ \A d \in Levels : d > level => tracked[d] = {}

\* The program has lists only while it runs.
Running ==
    /\ mode = "run" => level \in Levels
    /\ mode \in {"ending", "done"} => \A l \in Names : ~Exists(l)
    /\ mode = "ending" => cursor = NoLoop
    /\ mode = "done" => batch = {} /\ queue = << >> /\ level = -1

\* What a list has left is a row, of atoms that its level tracks, and of no
\* other list.
Rows ==
    /\ \A l \in Names : Exists(l) =>
           /\ Row(atom, Top(l), Rest(l), tracked[home[l]])
           /\ l \in tracked[home[l]] /\ home[l] <= level
    /\ \A l, k \in Names : Exists(l) /\ Exists(k) /\ l # k =>
           \A i \in 1 .. Len(Rest(l)), j \in 1 .. Len(Rest(k)) : Rest(l)[i] # Rest(k)[j]

\* The header of a list agrees with its row.
Counts(l) ==
    /\ list[l].length = Len(Rest(l))
    /\ list[l].tail = IF Rest(l) = << >> THEN NULL ELSE Rest(l)[Len(Rest(l))]
Counted == \A l \in Whole : Counts(l)

\* A FOR EACH stands at an atom of a list that is not being cleared.
Standing ==
    /\ cursor.at # NULL =>
           /\ cursor.list \in Whole /\ home[cursor.list] <= cursor.level
           /\ cursor.at \in Entries(Rest(cursor.list))
    /\ mode = "run" => cursor.level <= level

\* A COPY of l has taken the first atoms of l to k, in their order, a REVERSE in
\* the opposite one.
Copied(l, k) ==
    LET n == Len(Rest(k))
    IN  /\ n <= Len(Rest(l))
        /\ job.at = IF n = Len(Rest(l)) THEN NULL ELSE Rest(l)[n + 1]
        /\ \A i \in 1 .. n :
               atom[Rest(k)[i]].value =
                   atom[Rest(l)[IF job.op = "copy" THEN i ELSE n + 1 - i]].value

Working ==
    mode = "run" =>
        /\ job.op = "clear" => job.list \in Names /\ Exists(job.list)
        /\ job.op \in {"copy", "reverse"} =>
               /\ job.list \in Names /\ Exists(job.list)
               /\ job.into \in Names /\ Exists(job.into) /\ home[job.into] = level
               /\ job.list # job.into /\ Copied(job.list, job.into)

LInv == ListsTyped /\ OnePlace /\ Running /\ Rows /\ Counted /\ Standing /\ Working

-----------------------------------------------------------------------------
\* There are finitely many slots.
LEMMA SlotFacts == IsFiniteSet(Slots) /\ SlotCount \in Nat /\ NULL \notin Slots
<1>1. IsFiniteSet(1 .. MaxSlabs) /\ IsFiniteSet(1 .. SlotsPerSlab)
  BY PoolAssumption, FS_Interval
<1>2. IsFiniteSet(Slots)
  BY <1>1, ListsAssumption, FS_Product, FS_Union DEF Slots, SlabSlot
<1> QED BY <1>2, PoolAssumption, FS_CardinalityType DEF SlotCount

\* A row without an atom twice is no longer than there are slots.
LEMMA RowShort ==
    ASSUME NEW c \in Seq(Slots), Once(c)
    PROVE  Len(c) <= SlotCount /\ Cardinality(1 .. Len(c)) = Len(c)
<1>0. Len(c) \in Nat /\ c \in [1 .. Len(c) -> Slots]
  OBVIOUS
<1>1. c \in Injection(1 .. Len(c), Slots)
  BY <1>0 DEF Once, Injection, IsInjective
<1>2. Cardinality(1 .. Len(c)) = Len(c)
  BY <1>0, FS_Interval, SMTT(30)
<1> QED BY <1>1, <1>2, SlotFacts, FS_Injection DEF SlotCount

\* The atoms that are reached from a, when a row is linked in the memory.
LEMMA Reached ==
    ASSUME NEW m, NEW a, NEW c \in Seq(Slots), Len(c) <= SlotCount, Linked(m, a, c),
           NEW g, g = [i \in 1 .. SlotCount |-> IF i = 1 THEN a ELSE After(m, g[i - 1])]
    PROVE  g = [i \in 1 .. SlotCount |-> IF i <= Len(c) THEN c[i] ELSE NULL]
<1>0. SlotCount \in Nat /\ Len(c) \in Nat
  BY SlotFacts
<1> DEFINE f == [i \in 1 .. SlotCount |-> IF i <= Len(c) THEN c[i] ELSE NULL]
           Wrong == {i \in 1 .. SlotCount : g[i] # f[i]}
<1>1. Wrong = {}
  <2> SUFFICES ASSUME Wrong # {} PROVE FALSE
    OBVIOUS
  <2>1. PICK i \in Wrong : \A j \in Wrong : ~(j < i)
    <3>1. PICK i \in Wrong : \A j \in Wrong : ~(<<j, i>> \in OpToRel(<, Nat))
      <4>1. Wrong \subseteq Nat
        BY <1>0
      <4> QED BY <4>1, NatLessThanWellFounded, WFMin
    <3>2. \A j \in Wrong : j < i => <<j, i>> \in OpToRel(<, Nat)
      BY <1>0 DEF OpToRel
    <3> QED BY <3>1, <3>2
  <2>2. i \in 1 .. SlotCount /\ g[i] # f[i]
    OBVIOUS
  <2>3. g[i] = IF i = 1 THEN a ELSE After(m, g[i - 1])
    BY <2>2
  <2>4. CASE i = 1
    BY <1>0, <2>2, <2>3, <2>4 DEF Linked
  <2>5. CASE i # 1
    <3>1. i - 1 \in 1 .. SlotCount /\ i - 1 < i
      BY <1>0, <2>2, <2>5
    <3>2. g[i - 1] = f[i - 1]
      BY <2>1, <3>1
    <3>3. After(m, f[i - 1]) = f[i]
      <4>1. f[i - 1] = IF i - 1 <= Len(c) THEN c[i - 1] ELSE NULL
        BY <3>1
      <4>2. f[i] = IF i <= Len(c) THEN c[i] ELSE NULL
        BY <2>2
      <4>3. CASE i - 1 <= Len(c)
        <5>1. i - 1 \in 1 .. Len(c) /\ (i - 1) + 1 = i /\ (i - 1 = Len(c) <=> ~(i <= Len(c)))
          BY <1>0, <2>2, <2>5, <3>1, <4>3
        <5>2. After(m, c[i - 1]) = IF i - 1 = Len(c) THEN NULL ELSE c[(i - 1) + 1]
          BY <5>1 DEF Linked
        <5> QED BY <4>1, <4>2, <5>1, <5>2
      <4>4. CASE ~(i - 1 <= Len(c))
        BY <1>0, <2>2, <4>1, <4>2, <4>4 DEF After
      <4> QED BY <4>3, <4>4
    <3> QED BY <2>2, <2>3, <2>5, <3>2, <3>3
  <2> QED BY <2>4, <2>5
<1>2. \A i \in 1 .. SlotCount : g[i] = f[i]
  BY <1>1
<1> QED BY <1>2

\* The chain from a is the row that is linked there.
LEMMA ChainIs ==
    ASSUME NEW m, NEW a, NEW c \in Seq(Slots), Once(c), Linked(m, a, c)
    PROVE  ChainIn(m, a) = c
<1> DEFINE Def(g) == [i \in 1 .. SlotCount |-> IF i = 1 THEN a ELSE After(m, g[i - 1])]
           f == [i \in 1 .. SlotCount |-> IF i <= Len(c) THEN c[i] ELSE NULL]
           nth == CHOOSE g : g = Def(g)
<1>0. SlotCount \in Nat /\ Len(c) \in Nat /\ Len(c) <= SlotCount /\ NULL \notin Slots
  BY SlotFacts, RowShort
<1>1. f = Def(f)
  <2> SUFFICES ASSUME NEW i \in 1 .. SlotCount
               PROVE  f[i] = IF i = 1 THEN a ELSE After(m, f[i - 1])
    OBVIOUS
  <2>1. CASE i = 1
    BY <1>0, <2>1 DEF Linked
  <2>2. CASE i # 1
    <3>1. i - 1 \in 1 .. SlotCount
      BY <1>0, <2>2
    <3>2. f[i - 1] = IF i - 1 <= Len(c) THEN c[i - 1] ELSE NULL
      BY <3>1
    <3>3. f[i] = IF i <= Len(c) THEN c[i] ELSE NULL
      OBVIOUS
    <3>4. CASE i - 1 <= Len(c)
      <4>1. i - 1 \in 1 .. Len(c) /\ (i - 1) + 1 = i /\ (i - 1 = Len(c) <=> ~(i <= Len(c)))
        BY <1>0, <2>2, <3>1, <3>4
      <4>2. After(m, c[i - 1]) = IF i - 1 = Len(c) THEN NULL ELSE c[(i - 1) + 1]
        BY <4>1 DEF Linked
      <4> QED BY <3>2, <3>3, <4>1, <4>2
    <3>5. CASE ~(i - 1 <= Len(c))
      BY <1>0, <2>2, <3>2, <3>3, <3>5 DEF After
    <3> QED BY <2>2, <3>4, <3>5
  <2> QED BY <2>1, <2>2
<1> HIDE DEF f
<1>2. nth = Def(nth)
  <2> HIDE DEF Def
  <2> QED BY <1>1, Zenon
<1> HIDE DEF nth
<1>3. nth = f
  BY <1>0, <1>2, Reached DEF f
<1>4. {i \in 1 .. SlotCount : nth[i] # NULL} = 1 .. Len(c)
  BY <1>0, <1>3 DEF f
<1>5. Cardinality(1 .. Len(c)) = Len(c)
  BY RowShort
<1>6. ChainIn(m, a)
        = [i \in 1 .. Cardinality({i \in 1 .. SlotCount : nth[i] # NULL}) |-> nth[i]]
  BY DEF ChainIn, nth, Def
<1>7. \A i \in 1 .. Len(c) : nth[i] = c[i]
  BY <1>0, <1>3 DEF f
<1>8. c = [i \in 1 .. Len(c) |-> c[i]]
  OBVIOUS
<1>9. ChainIn(m, a) = [i \in 1 .. Len(c) |-> nth[i]]
  BY <1>4, <1>5, <1>6
<1> QED BY <1>0, <1>7, <1>8, <1>9

-----------------------------------------------------------------------------
\* What taking the i-th element out of a sequence leaves.
LEMMA RemoveAtFacts ==
    ASSUME NEW S, NEW c \in Seq(S), NEW i \in 1 .. Len(c)
    PROVE  /\ RemoveAt(c, i) \in Seq(S) /\ Len(RemoveAt(c, i)) = Len(c) - 1
           /\ \A j \in 1 .. Len(c) - 1 :
                  RemoveAt(c, i)[j] = IF j < i THEN c[j] ELSE c[j + 1]
<1> DEFINE u == SubSeq(c, 1, i - 1)
           v == SubSeq(c, i + 1, Len(c))
<1>0. Len(c) \in Nat
  OBVIOUS
<1>1. /\ u \in Seq(S) /\ Len(u) = i - 1 /\ \A j \in 1 .. i - 1 : u[j] = c[j]
      /\ v \in Seq(S) /\ Len(v) = Len(c) - i
      /\ \A j \in 1 .. Len(c) - i : v[j] = c[j + i]
  BY <1>0, SMTT(30)
<1>2. RemoveAt(c, i) = u \o v
  BY DEF RemoveAt
<1> HIDE DEF u, v
<1>3. /\ u \o v \in Seq(S) /\ Len(u \o v) = Len(u) + Len(v)
      /\ \A j \in 1 .. Len(u) + Len(v) :
             (u \o v)[j] = IF j <= Len(u) THEN u[j] ELSE v[j - Len(u)]
  BY <1>1, ConcatProperties
<1>4. ASSUME NEW j \in 1 .. Len(c) - 1
      PROVE  (u \o v)[j] = IF j < i THEN c[j] ELSE c[j + 1]
  <2>1. CASE j < i
    BY <1>0, <1>1, <1>3, <2>1
  <2>2. CASE ~(j < i)
    <3>1. j - (i - 1) \in 1 .. Len(c) - i /\ (j - (i - 1)) + i = j + 1
          /\ ~(j <= Len(u)) /\ j \in 1 .. Len(u) + Len(v)
      BY <1>0, <1>1, <2>2
    <3> QED BY <1>1, <1>3, <2>2, <3>1
  <2> QED BY <2>1, <2>2
<1> QED BY <1>0, <1>1, <1>2, <1>3, <1>4

\* Where a row is linked, an atom has a next one in memory.
LEMMA RowFacts ==
    ASSUME NEW m, NEW a, NEW c, NEW T, Row(m, a, c, T)
    PROVE  /\ c \in Seq(Slots) /\ Len(c) \in Nat /\ Once(c) /\ ChainIn(m, a) = c
           /\ a = IF c = << >> THEN NULL ELSE c[1]
           /\ \A i \in 1 .. Len(c) :
                  /\ c[i] \in Slots /\ c[i] \in T /\ m[c[i]].value \in Values
                  /\ m[c[i]].next = IF i = Len(c) THEN NULL ELSE c[i + 1]
           /\ \A i, j \in 1 .. Len(c) : c[i] = c[j] => i = j
           /\ c # << >> <=> Len(c) > 0
<1>1. c \in Seq(Slots) /\ Once(c) /\ Linked(m, a, c) /\ NULL \notin Slots
  BY SlotFacts DEF Row
<1>2. Len(c) \in Nat /\ \A i \in 1 .. Len(c) : c[i] \in Slots
  BY <1>1
<1>3. ChainIn(m, a) = c
  BY <1>1, ChainIs
<1>4. \A i \in 1 .. Len(c) : m[c[i]].next = IF i = Len(c) THEN NULL ELSE c[i + 1]
  BY <1>1, <1>2 DEF Linked, After
<1>5. c # << >> <=> Len(c) > 0
  BY <1>1
<1> QED BY <1>1, <1>2, <1>3, <1>4, <1>5 DEF Row, Linked, Once

\* A row is linked by what the memory says of its atoms.
LEMMA RowBy ==
    ASSUME NEW m, NEW a, NEW c \in Seq(Slots), NEW T,
           a = IF c = << >> THEN NULL ELSE c[1],
           \A i, j \in 1 .. Len(c) : c[i] = c[j] => i = j,
           \A i \in 1 .. Len(c) :
               /\ c[i] \in T /\ m[c[i]].value \in Values
               /\ m[c[i]].next = IF i = Len(c) THEN NULL ELSE c[i + 1]
    PROVE  Row(m, a, c, T)
<1>1. \A i \in 1 .. Len(c) : c[i] \in Slots /\ c[i] # NULL
  BY SlotFacts
<1>2. \A i \in 1 .. Len(c) : After(m, c[i]) = IF i = Len(c) THEN NULL ELSE c[i + 1]
  BY <1>1 DEF After
<1> QED BY <1>2 DEF Row, Linked, Once

\* A row that no step touches.
LEMMA RowKept ==
    ASSUME NEW m, NEW n, NEW a, NEW c, NEW T, NEW U, Row(m, a, c, T),
           \A i \in 1 .. Len(c) : n[c[i]] = m[c[i]] /\ c[i] \in U
    PROVE  Row(n, a, c, U)
BY RowFacts, RowBy

\* A row to which an atom is linked at the end ...
LEMMA RowLast ==
    ASSUME NEW m, NEW n, NEW a, NEW c, NEW T, NEW U, Row(m, a, c, T),
           NEW s \in Slots, \A i \in 1 .. Len(c) : c[i] # s /\ c[i] \in U, s \in U,
           n[s].next = NULL, n[s].value \in Values,
           \A i \in 1 .. Len(c) :
               /\ n[c[i]].value = m[c[i]].value
               /\ n[c[i]].next = IF i = Len(c) THEN s ELSE m[c[i]].next
    PROVE  Row(n, IF c = << >> THEN s ELSE a, Append(c, s), U)
<1> DEFINE d == Append(c, s)
<1>1. /\ c \in Seq(Slots) /\ Len(c) \in Nat
      /\ a = IF c = << >> THEN NULL ELSE c[1]
      /\ \A i \in 1 .. Len(c) :
             /\ c[i] \in Slots /\ m[c[i]].value \in Values
             /\ m[c[i]].next = IF i = Len(c) THEN NULL ELSE c[i + 1]
      /\ \A i, j \in 1 .. Len(c) : c[i] = c[j] => i = j
      /\ c # << >> <=> Len(c) > 0
  BY RowFacts
<1>2. /\ d \in Seq(Slots) /\ Len(d) = Len(c) + 1 /\ d[Len(c) + 1] = s
      /\ \A i \in 1 .. Len(c) : d[i] = c[i]
  BY <1>1, AppendProperties
<1> HIDE DEF d
<1>3. (IF c = << >> THEN s ELSE a) = d[1] /\ d # << >>
  BY <1>1, <1>2
<1>4. ASSUME NEW i \in 1 .. Len(d), NEW j \in 1 .. Len(d), d[i] = d[j] PROVE i = j
  BY <1>1, <1>2, <1>4
<1>5. ASSUME NEW i \in 1 .. Len(d)
      PROVE  /\ d[i] \in U /\ n[d[i]].value \in Values
             /\ n[d[i]].next = IF i = Len(d) THEN NULL ELSE d[i + 1]
  <2>1. CASE i = Len(c) + 1
    BY <1>2, <2>1
  <2>2. CASE i \in 1 .. Len(c)
    <3>1. d[i] = c[i] /\ d[i + 1] = IF i = Len(c) THEN s ELSE c[i + 1]
      BY <1>1, <1>2, <2>2
    <3>2. i # Len(d)
      BY <1>1, <1>2, <2>2
    <3>3. n[c[i]].next = IF i = Len(c) THEN s ELSE c[i + 1]
      BY <1>1, <2>2
    <3>4. n[d[i]].next = d[i + 1]
      BY <3>1, <3>3
    <3>5. d[i] \in U /\ n[d[i]].value \in Values
      BY <1>1, <2>2, <3>1
    <3> QED BY <3>2, <3>4, <3>5
  <2> QED BY <1>1, <1>2, <2>1, <2>2
<1>6. Row(n, d[1], d, U)
  BY <1>2, <1>3, <1>4, <1>5, RowBy
<1> QED BY <1>3, <1>6 DEF d

\* ... and at the front.
LEMMA RowFirst ==
    ASSUME NEW m, NEW n, NEW a, NEW c, NEW T, NEW U, Row(m, a, c, T),
           NEW s \in Slots, \A i \in 1 .. Len(c) : c[i] # s /\ c[i] \in U, s \in U,
           n[s].next = a, n[s].value \in Values,
           \A i \in 1 .. Len(c) : n[c[i]] = m[c[i]]
    PROVE  Row(n, s, <<s>> \o c, U)
<1> DEFINE d == <<s>> \o c
<1>1. /\ c \in Seq(Slots) /\ Len(c) \in Nat
      /\ a = IF c = << >> THEN NULL ELSE c[1]
      /\ \A i \in 1 .. Len(c) :
             /\ c[i] \in Slots /\ m[c[i]].value \in Values
             /\ m[c[i]].next = IF i = Len(c) THEN NULL ELSE c[i + 1]
      /\ \A i, j \in 1 .. Len(c) : c[i] = c[j] => i = j
      /\ c # << >> <=> Len(c) > 0
  BY RowFacts
<1>2. /\ d \in Seq(Slots) /\ Len(d) = Len(c) + 1 /\ d[1] = s
      /\ \A i \in 2 .. Len(d) : i - 1 \in 1 .. Len(c) /\ d[i] = c[i - 1]
  BY <1>1
<1> HIDE DEF d
<1>3. ASSUME NEW i \in 1 .. Len(d), NEW j \in 1 .. Len(d), d[i] = d[j] PROVE i = j
  <2>1. CASE i = 1 \/ j = 1
    BY <1>1, <1>2, <1>3, <2>1, SMTT(30)
  <2>2. CASE i \in 2 .. Len(d) /\ j \in 2 .. Len(d)
    <3>1. i - 1 = j - 1
      BY <1>1, <1>2, <1>3, <2>2, SMTT(30)
    <3> QED BY <3>1, <1>1, <1>2
  <2> QED BY <1>1, <1>2, <2>1, <2>2
<1>4. ASSUME NEW i \in 1 .. Len(d)
      PROVE  /\ d[i] \in U /\ n[d[i]].value \in Values
             /\ n[d[i]].next = IF i = Len(d) THEN NULL ELSE d[i + 1]
  <2>1. CASE i = 1
    <3>1. CASE c = << >>
      BY <1>1, <1>2, <2>1, <3>1
    <3>2. CASE c # << >>
      <4>1. 2 \in 2 .. Len(d) /\ Len(d) # 1
        BY <1>1, <1>2, <3>2
      <4>2. d[2] = c[1]
        BY <1>2, <4>1
      <4> QED BY <1>1, <1>2, <2>1, <3>2, <4>1, <4>2
    <3> QED BY <3>1, <3>2
  <2>2. CASE i \in 2 .. Len(d)
    <3>1. i - 1 \in 1 .. Len(c) /\ d[i] = c[i - 1] /\ (i = Len(d) <=> i - 1 = Len(c))
      BY <1>1, <1>2, <2>2
    <3>2. i # Len(d) => d[i + 1] = c[(i - 1) + 1]
      <4> HAVE i # Len(d)
      <4>1. i + 1 \in 2 .. Len(d) /\ (i + 1) - 1 = (i - 1) + 1
        BY <1>1, <1>2, <2>2
      <4> QED BY <1>2, <4>1
    <3> QED BY <1>1, <3>1, <3>2
  <2> QED BY <1>1, <1>2, <2>1, <2>2
<1>5. d # << >>
  BY <1>1, <1>2
<1>6. Row(n, s, d, U)
  BY <1>2, <1>3, <1>4, <1>5, RowBy
<1> QED BY <1>6 DEF d

\* A row out of which the i-th atom is linked.
LEMMA RowWithout ==
    ASSUME NEW m, NEW n, NEW a, NEW c, NEW T, NEW U, Row(m, a, c, T),
           NEW i \in 1 .. Len(c),
           \A j \in 1 .. Len(c) : j # i =>
               /\ c[j] \in U /\ n[c[j]].value = m[c[j]].value
               /\ n[c[j]].next = IF j = i - 1 THEN m[c[i]].next ELSE m[c[j]].next
    PROVE  Row(n, IF i = 1 THEN m[a].next ELSE a, RemoveAt(c, i), U)
<1> DEFINE d == RemoveAt(c, i)
           b == IF i = 1 THEN m[a].next ELSE a
<1>1. /\ c \in Seq(Slots) /\ Len(c) \in Nat
      /\ a = IF c = << >> THEN NULL ELSE c[1]
      /\ \A j \in 1 .. Len(c) :
             /\ c[j] \in Slots /\ m[c[j]].value \in Values
             /\ m[c[j]].next = IF j = Len(c) THEN NULL ELSE c[j + 1]
      /\ \A j, k \in 1 .. Len(c) : c[j] = c[k] => j = k
      /\ c # << >> <=> Len(c) > 0
  BY RowFacts
<1>2. /\ d \in Seq(Slots) /\ Len(d) = Len(c) - 1
      /\ \A j \in 1 .. Len(c) - 1 : d[j] = IF j < i THEN c[j] ELSE c[j + 1]
  BY <1>1, RemoveAtFacts
<1> HIDE DEF d
<1>3. b = IF d = << >> THEN NULL ELSE d[1]
  <2>1. a = c[1] /\ 1 \in 1 .. Len(c) /\ (d = << >> <=> Len(c) = 1)
    BY <1>1, <1>2
  <2>2. CASE Len(c) = 1
    BY <1>1, <2>1, <2>2
  <2>3. CASE Len(c) # 1
    <3>1. 1 \in 1 .. Len(c) - 1 /\ d[1] = IF 1 < i THEN c[1] ELSE c[2]
      BY <1>1, <1>2, <2>1, <2>3
    <3> QED BY <1>1, <2>1, <2>3, <3>1
  <2> QED BY <2>2, <2>3
<1> HIDE DEF b
<1>4. ASSUME NEW j \in 1 .. Len(d), NEW k \in 1 .. Len(d), d[j] = d[k] PROVE j = k
  <2> DEFINE p == IF j < i THEN j ELSE j + 1
             q == IF k < i THEN k ELSE k + 1
  <2>1. p \in 1 .. Len(c) /\ q \in 1 .. Len(c) /\ d[j] = c[p] /\ d[k] = c[q]
    BY <1>1, <1>2
  <2>2. p = q
    BY <1>1, <1>4, <2>1
  <2> QED BY <1>1, <1>2, <2>2
<1>5. ASSUME NEW j \in 1 .. Len(d)
      PROVE  /\ d[j] \in U /\ n[d[j]].value \in Values
             /\ n[d[j]].next = IF j = Len(d) THEN NULL ELSE d[j + 1]
  <2> DEFINE p == IF j < i THEN j ELSE j + 1
  <2>1. /\ p \in 1 .. Len(c) /\ p # i /\ d[j] = c[p]
        /\ j \in 1 .. Len(c) - 1 /\ j = Len(d) <=> j = Len(c) - 1
    BY <1>1, <1>2
  <2>2. d[j] \in U /\ n[d[j]].value \in Values
    BY <1>1, <2>1, SMTT(30)
  <2>3. j # Len(d) => d[j + 1] = IF j + 1 < i THEN c[j + 1] ELSE c[j + 2]
    BY <1>1, <1>2, <2>1
  <2>4. n[c[p]].next = IF p = i - 1 THEN m[c[i]].next ELSE m[c[p]].next
    BY <2>1
  <2>5. CASE j < i - 1
    <3>1. p = j /\ p # i - 1 /\ p # Len(c) /\ j # Len(d) /\ j + 1 < i
      BY <1>1, <1>2, <2>5
    <3> QED BY <1>1, <2>1, <2>2, <2>3, <2>4, <3>1
  <2>6. CASE j = i - 1
    <3>1. p = j /\ p = i - 1 /\ ~(j + 1 < i) /\ j + 2 = i + 1 /\ (j = Len(d) <=> i = Len(c))
      BY <1>1, <1>2, <2>6
    <3>2. m[c[i]].next = IF i = Len(c) THEN NULL ELSE c[i + 1]
      BY <1>1
    <3> QED BY <2>1, <2>2, <2>3, <2>4, <3>1, <3>2
  <2>7. CASE j >= i
    <3>1. p = j + 1 /\ p # i - 1 /\ ~(j + 1 < i) /\ p + 1 = j + 2
          /\ (j = Len(d) <=> p = Len(c))
      BY <1>1, <1>2, <2>7
    <3> QED BY <1>1, <2>1, <2>2, <2>3, <2>4, <3>1
  <2> QED BY <1>1, <1>2, <2>5, <2>6, <2>7
<1>6. Row(n, b, d, U)
  BY <1>2, <1>3, <1>4, <1>5, RowBy
<1> QED BY <1>6 DEF b, d

-----------------------------------------------------------------------------
\* The facts that every step needs.
LEMMA Basics ==
    /\ Names \cap Slots = {} /\ NULL \notin Names /\ NULL \notin Slots
    /\ NULL \notin Levels /\ MaxDepth \in Nat \ {0} /\ Levels = 0 .. MaxDepth - 1
BY ListsAssumption, SlotFacts DEF Levels

\* What is out has one place, and a slot that is not out has none.
LEMMA AllocFacts ==
    ASSUME Shape, NEW s \in Slots, Alloc(s)
    PROVE  s \notin out /\ out' = out \cup {s} /\ PoolNext
<1> SUFFICES s \notin out /\ out' = out \cup {s}
  BY DEF PoolNext
<1>1. CASE AllocPops(s)
  <2>1. s \notin out
    BY <1>1, Apart DEF AllocPops
  <2> QED BY <1>1, <2>1 DEF AllocPops
<1>2. CASE AllocGrows(s)
  <2>1. slabs \in Nat /\ slabs < MaxSlabs /\ s = <<slabs + 1, 1>>
    BY <1>2, PoolAssumption DEF AllocGrows, Shape, PoolTypeOK
  <2>2. s \in SlabSlot /\ s[1] > slabs
    BY <2>1, PoolAssumption DEF SlabSlot
  <2>3. s \notin out
    BY <2>2, Apart
  <2> QED BY <1>2, <2>3 DEF AllocGrows
<1>3. CASE AllocFallsBack(s)
  <2>1. s \notin out
    BY <1>3, Apart DEF AllocFallsBack
  <2> QED BY <1>3, <2>1 DEF AllocFallsBack
<1> QED BY <1>1, <1>2, <1>3 DEF Alloc

\* The list that a program step finds, while no call is under way.
LEMMA Resting ==
    ASSUME LInv, NEW l \in Names, Exists(l)
    PROVE  /\ home[l] \in Levels /\ home[l] <= level /\ l \in tracked[home[l]]
           /\ Row(atom, Top(l), Rest(l), tracked[home[l]])
           /\ \A i \in 1 .. Len(Rest(l)) : Rest(l)[i] \in Slots \cap tracked[home[l]] \cap out
           /\ Rest(l) \in Seq(Slots) /\ Len(Rest(l)) \in Nat
           /\ ~Cleared(l) => Top(l) = list[l].head /\ Rest(l) = Chain(list[l].head)
<1>1. Row(atom, Top(l), Rest(l), tracked[home[l]]) /\ l \in tracked[home[l]] /\ home[l] <= level
  BY DEF LInv, Rows
<1>2. home[l] \in Levels
  BY DEF LInv, ListsTyped, Exists
<1>3. /\ Rest(l) \in Seq(Slots) /\ Len(Rest(l)) \in Nat
      /\ \A i \in 1 .. Len(Rest(l)) : Rest(l)[i] \in Slots /\ Rest(l)[i] \in tracked[home[l]]
  BY <1>1, RowFacts
<1>4. \A i \in 1 .. Len(Rest(l)) : Rest(l)[i] \in out
  BY <1>2, <1>3 DEF LInv, OnePlace, InLevel
<1>5. ~Cleared(l) => Top(l) = list[l].head /\ Rest(l) = Chain(list[l].head)
  BY DEF Top, Rest
<1> QED BY <1>1, <1>2, <1>3, <1>4, <1>5

\* A step that leaves the row of k where it is, without an atom of c.
Untouched(k, c) ==
    /\ Exists(k) /\ home'[k] = home[k] /\ home[k] <= level'
    /\ Top(k)' = Top(k) /\ k \in tracked'[home[k]]
    /\ \A i \in 1 .. Len(Rest(k)) :
           /\ atom'[Rest(k)[i]] = atom[Rest(k)[i]] /\ Rest(k)[i] \in tracked'[home[k]]
           /\ \A j \in 1 .. Len(c) : c[j] # Rest(k)[i]

\* A row that a step leaves where it is.
LEMMA SameRow ==
    ASSUME LInv, NEW k \in Names, NEW c, Exists(k)', Untouched(k, c)
    PROVE  /\ Exists(k) /\ Rest(k)' = Rest(k)
           /\ Row(atom', Top(k)', Rest(k)', tracked'[home'[k]])
           /\ k \in tracked'[home'[k]] /\ home'[k] <= level'
           /\ \A i \in 1 .. Len(Rest(k)), j \in 1 .. Len(c) : c[j] # Rest(k)[i]
<1>1. Row(atom, Top(k), Rest(k), tracked[home[k]])
  BY Resting DEF Untouched
<1>2. Row(atom', Top(k), Rest(k), tracked'[home[k]])
  BY <1>1, RowKept DEF Untouched
<1>3. ChainIn(atom', Top(k)) = Rest(k)
  BY <1>2, RowFacts
<1>4. Rest(k)' = ChainIn(atom', Top(k)')
  BY DEF Rest, Chain
<1> QED BY <1>2, <1>3, <1>4 DEF Untouched

\* A step that brings no list and changes no row ...
LEMMA NoRow ==
    ASSUME LInv, \A k \in Names : Exists(k)' => Untouched(k, << >>)
    PROVE  Rows' /\ \A k \in Names : Exists(k)' => Exists(k) /\ Rest(k)' = Rest(k)
<1>1. ASSUME NEW k \in Names, Exists(k)'
      PROVE  /\ Exists(k) /\ Rest(k)' = Rest(k)
             /\ Row(atom', Top(k)', Rest(k)', tracked'[home'[k]])
             /\ k \in tracked'[home'[k]] /\ home'[k] <= level'
  BY <1>1, SameRow
<1> QED BY <1>1 DEF LInv, Rows

\* ... and one that makes the row of one list c.
LEMMA OneRow ==
    ASSUME LInv, NEW l \in Names, NEW c, Exists(l)',
           Row(atom', Top(l)', c, tracked'[home'[l]]),
           l \in tracked'[home'[l]], home'[l] <= level',
           \A k \in Names \ {l} : Exists(k)' => Untouched(k, c)
    PROVE  Rows' /\ Rest(l)' = c
           /\ \A k \in Names \ {l} : Exists(k)' => Exists(k) /\ Rest(k)' = Rest(k)
<1>1. ASSUME NEW k \in Names \ {l}, Exists(k)'
      PROVE  /\ Exists(k) /\ Rest(k)' = Rest(k)
             /\ Row(atom', Top(k)', Rest(k)', tracked'[home'[k]])
             /\ k \in tracked'[home'[k]] /\ home'[k] <= level'
             /\ \A i \in 1 .. Len(Rest(k)), j \in 1 .. Len(c) : c[j] # Rest(k)[i]
  BY <1>1, SameRow
<1>2. Rest(l)' = c
  <2>1. Rest(l)' = ChainIn(atom', Top(l)')
    BY DEF Rest, Chain
  <2> QED BY <2>1, RowFacts
<1>3. \A k, h \in Names \ {l} : Exists(k)' /\ Exists(h)' /\ k # h =>
          \A i \in 1 .. Len(Rest(k)'), j \in 1 .. Len(Rest(h)') : Rest(k)'[i] # Rest(h)'[j]
  BY <1>1 DEF LInv, Rows
<1>4. \A k \in Names \ {l} : Exists(k)' =>
          \A i \in 1 .. Len(Rest(k)'), j \in 1 .. Len(Rest(l)') : Rest(l)'[j] # Rest(k)'[i]
  BY <1>1, <1>2
<1>5. \A k \in Names : Exists(k)' =>
          /\ Row(atom', Top(k)', Rest(k)', tracked'[home'[k]])
          /\ k \in tracked'[home'[k]] /\ home'[k] <= level'
  BY <1>1, <1>2
<1>6. \A k, h \in Names : Exists(k)' /\ Exists(h)' /\ k # h =>
          \A i \in 1 .. Len(Rest(k)'), j \in 1 .. Len(Rest(h)') : Rest(k)'[i] # Rest(h)'[j]
  BY <1>3, <1>4
<1> QED BY <1>1, <1>2, <1>5, <1>6 DEF Rows

-----------------------------------------------------------------------------
\* Where things are is decided by the levels, the queue and the batch.
LEMMA PlaceStays ==
    ASSUME LInv, UNCHANGED <<tracked, queue, batch, out>>,
           level' \in Int, level' >= level
    PROVE  OnePlace'
<1>1. \A d \in Levels : d > level' => d > level
  BY Basics DEF LInv, ListsTyped
<1> QED BY <1>1 DEF LInv, OnePlace, InLevel, InQueue, InBatch

\* samm_track of what is in no place.
LEMMA PlaceTrack ==
    ASSUME LInv, NEW x \in Things, level \in Levels,
           tracked' = [tracked EXCEPT ![level] = @ \cup {x}],
           UNCHANGED <<queue, batch, level>>,
           \A d \in Levels : x \notin tracked[d],
           x \notin batch, \A i \in DOMAIN queue : x \notin queue[i],
           \A y \in Slots : y \in out' <=> y \in out \/ y = x
    PROVE  OnePlace'
<1>1. /\ \A y \in Things : \A d \in Levels :
             InLevel(y, d)' <=> InLevel(y, d) \/ (y = x /\ d = level)
      /\ \A y \in Things : (InBatch(y)' <=> InBatch(y))
             /\ \A i \in DOMAIN queue : InQueue(y, i)' <=> InQueue(y, i)
      /\ DOMAIN queue' = DOMAIN queue
  BY DEF LInv, ListsTyped, InLevel, InBatch, InQueue
<1>2. \A d \in Levels : ~InLevel(x, d)
  BY DEF InLevel
<1>3. ~InBatch(x) /\ \A i \in DOMAIN queue : ~InQueue(x, i)
  BY DEF InBatch, InQueue
<1>4. OnePlace
  BY DEF LInv
<1>5. \A y \in Things : \A d, e \in Levels : InLevel(y, d)' /\ InLevel(y, e)' => d = e
  BY <1>1, <1>2, <1>4 DEF OnePlace
<1>6. \A y \in Things : \A d \in Levels : InLevel(y, d)' =>
          ~InBatch(y)' /\ \A i \in DOMAIN queue : ~InQueue(y, i)'
  BY <1>1, <1>3, <1>4 DEF OnePlace
<1>7. \A y \in Slots : y \in out' <=> \/ \E d \in Levels : InLevel(y, d)'
                                      \/ InBatch(y)'
                                      \/ \E i \in DOMAIN queue : InQueue(y, i)'
  <2>1. Slots \subseteq Things
    BY DEF Things
  <2> QED BY <1>1, <1>4, <2>1 DEF OnePlace
<1>8. \A d \in Levels : d > level' => tracked'[d] = {}
  BY <1>4, Basics DEF OnePlace, LInv, ListsTyped
<1> QED BY <1>1, <1>4, <1>5, <1>6, <1>7, <1>8 DEF OnePlace

\* samm_untrack of what a level tracks, and the release of its slot.
LEMMA PlaceUntrack ==
    ASSUME LInv, NEW x \in Things, NEW d0 \in Levels, x \in tracked[d0], Untrack(x),
           UNCHANGED <<queue, batch, level>>,
           \A y \in Slots : y \in out' <=> y \in out /\ y # x
    PROVE  OnePlace' /\ tracked' = [tracked EXCEPT ![d0] = @ \ {x}]
<1>0. OnePlace /\ tracked \in [Levels -> SUBSET Things] /\ level \in -1 .. MaxDepth - 1
  BY DEF LInv, ListsTyped
<1>1. {d \in Levels : d <= level /\ x \in tracked[d]} = {d0}
  <2>1. \A d \in Levels : x \in tracked[d] => d = d0
    BY <1>0 DEF OnePlace, InLevel
  <2>2. d0 <= level
    BY <1>0, Basics DEF OnePlace
  <2> QED BY <2>1, <2>2
<1>2. Max({d0}) = d0
  BY Basics DEF Max
<1>3. tracked' = [tracked EXCEPT ![d0] = @ \ {x}]
  BY <1>1, <1>2 DEF Untrack, Without
<1>4. /\ \A y \in Things : \A d \in Levels : InLevel(y, d)' <=> InLevel(y, d) /\ y # x
      /\ \A y \in Things : (InBatch(y)' <=> InBatch(y))
             /\ \A i \in DOMAIN queue : InQueue(y, i)' <=> InQueue(y, i)
      /\ DOMAIN queue' = DOMAIN queue
  <2>1. \A y \in Things : \A d \in Levels : InLevel(y, d)' <=> InLevel(y, d) /\ y # x
    <3>1. \A d \in Levels : d # d0 => x \notin tracked[d]
      BY <1>0 DEF OnePlace, InLevel
    <3> QED BY <1>0, <1>3, <3>1 DEF InLevel
  <2> QED BY <2>1 DEF InBatch, InQueue
<1>5. ~InBatch(x) /\ \A i \in DOMAIN queue : ~InQueue(x, i)
  BY <1>0 DEF OnePlace, InLevel
<1>6. \A y \in Slots : y \in out' <=> \/ \E d \in Levels : InLevel(y, d)'
                                      \/ InBatch(y)'
                                      \/ \E i \in DOMAIN queue : InQueue(y, i)'
  <2>1. Slots \subseteq Things
    BY DEF Things
  <2> QED BY <1>0, <1>4, <1>5, <2>1 DEF OnePlace
<1>7. \A d \in Levels : d > level' => tracked'[d] = {}
  BY <1>0, <1>3, Basics DEF OnePlace
<1>8. OnePlace'
  BY <1>0, <1>4, <1>6, <1>7 DEF OnePlace
<1> QED BY <1>3, <1>8

\* samm_exit_scope: what the level tracked is the last batch of the queue.
LEMMA PlaceExit ==
    ASSUME LInv, level \in Levels, level > 0,
           queue' = IF tracked[level] = {} THEN queue ELSE queue \o <<tracked[level]>>,
           tracked' = [tracked EXCEPT ![level] = {}], level' = level - 1,
           UNCHANGED <<batch, out>>
    PROVE  OnePlace'
<1>0. /\ OnePlace /\ tracked \in [Levels -> SUBSET Things] /\ level \in Nat
      /\ queue \in Seq(SUBSET Things) /\ Len(queue) \in Nat /\ DOMAIN queue = 1 .. Len(queue)
  BY Basics DEF LInv, ListsTyped
<1>1. /\ \A y \in Things : \A d \in Levels : InLevel(y, d)' <=> InLevel(y, d) /\ d # level
      /\ \A y \in Things : InBatch(y)' <=> InBatch(y)
      /\ \A d \in Levels : d > level' => tracked'[d] = {}
  <2>1. \A d \in Levels : d > level' => d > level \/ d = level
    BY <1>0, Basics
  <2> QED BY <1>0, <2>1 DEF InLevel, InBatch, OnePlace
<1>2. CASE tracked[level] = {}
  <2>1. \A y \in Things : ~InLevel(y, level)
    BY <1>2 DEF InLevel
  <2>2. \A y \in Things : \A d \in Levels : InLevel(y, d)' <=> InLevel(y, d)
    BY <1>1, <2>1
  <2>3. DOMAIN queue' = DOMAIN queue /\ \A y \in Things : \A i : InQueue(y, i)' <=> InQueue(y, i)
    BY <1>2 DEF InQueue
  <2>4. Slots \subseteq Things
    BY DEF Things
  <2> QED BY <1>0, <1>1, <2>2, <2>3, <2>4 DEF OnePlace
<1>3. CASE tracked[level] # {}
  <2>0. PICK n : n = Len(queue) + 1
    OBVIOUS
  <2>1. /\ queue' = queue \o <<tracked[level]>> /\ DOMAIN queue' = DOMAIN queue \cup {n}
        /\ n \notin DOMAIN queue /\ queue'[n] = tracked[level]
        /\ \A i \in DOMAIN queue : queue'[i] = queue[i]
    BY <1>0, <1>3, <2>0
  <2>2. \A y \in Things : /\ InQueue(y, n)' <=> InLevel(y, level)
                          /\ \A i \in DOMAIN queue : InQueue(y, i)' <=> InQueue(y, i)
    BY <2>1 DEF InQueue, InLevel
  <2>3. \A y \in Things : \A i, j \in DOMAIN queue' : InQueue(y, i)' /\ InQueue(y, j)' => i = j
    BY <1>0, <2>1, <2>2 DEF OnePlace
  <2>4. \A y \in Things : \A d \in Levels : InLevel(y, d)' =>
            ~InBatch(y)' /\ \A i \in DOMAIN queue' : ~InQueue(y, i)'
    <3> SUFFICES ASSUME NEW y \in Things, NEW d \in Levels, InLevel(y, d)'
                 PROVE  ~InBatch(y)' /\ \A i \in DOMAIN queue' : ~InQueue(y, i)'
      OBVIOUS
    <3>1. InLevel(y, d) /\ d # level
      BY <1>1
    <3>2. ~InLevel(y, level) /\ ~InBatch(y) /\ \A i \in DOMAIN queue : ~InQueue(y, i)
      BY <1>0, <3>1 DEF OnePlace
    <3> QED BY <1>1, <2>1, <2>2, <3>2
  <2>5. \A y \in Things : InBatch(y)' => \A i \in DOMAIN queue' : ~InQueue(y, i)'
    BY <1>0, <1>1, <2>1, <2>2 DEF OnePlace
  <2>6. \A y \in Slots : y \in out' <=> \/ \E d \in Levels : InLevel(y, d)'
                                        \/ InBatch(y)'
                                        \/ \E i \in DOMAIN queue' : InQueue(y, i)'
    <3> TAKE y \in Slots
    <3>1. y \in Things
      BY DEF Things
    <3>2. (\E d \in Levels : InLevel(y, d)) <=>
              (\E d \in Levels : InLevel(y, d)') \/ InQueue(y, n)'
      BY <1>1, <2>2, <3>1
    <3>3. (\E i \in DOMAIN queue' : InQueue(y, i)') <=>
              InQueue(y, n)' \/ \E i \in DOMAIN queue : InQueue(y, i)
      BY <2>1, <2>2, <3>1
    <3>4. y \in out <=> \/ \E d \in Levels : InLevel(y, d)
                        \/ InBatch(y)
                        \/ \E i \in DOMAIN queue : InQueue(y, i)
      BY <1>0 DEF OnePlace
    <3> QED BY <1>1, <3>1, <3>2, <3>3, <3>4
  <2>7. \A y \in Things : \A d, e \in Levels : InLevel(y, d)' /\ InLevel(y, e)' => d = e
    BY <1>0, <1>1 DEF OnePlace
  <2> QED BY <1>1, <2>3, <2>4, <2>5, <2>6, <2>7 DEF OnePlace
<1> QED BY <1>2, <1>3

\* The background thread takes the oldest batch.
LEMMA PlaceTake ==
    ASSUME LInv, batch = {}, queue # << >>, batch' = Head(queue), queue' = Tail(queue),
           UNCHANGED <<tracked, out, level>>
    PROVE  OnePlace'
<1>0. /\ OnePlace /\ queue \in Seq(SUBSET Things) /\ Len(queue) \in Nat \ {0}
      /\ DOMAIN queue = 1 .. Len(queue)
  BY DEF LInv, ListsTyped
<1>1. /\ DOMAIN queue' = 1 .. Len(queue) - 1
      /\ \A i \in DOMAIN queue' : i + 1 \in DOMAIN queue /\ queue'[i] = queue[i + 1]
      /\ 1 \in DOMAIN queue /\ batch' = queue[1]
  BY <1>0
<1>2. \A y \in Things : /\ InBatch(y)' <=> InQueue(y, 1)
                        /\ ~InBatch(y)
                        /\ \A i \in DOMAIN queue' : InQueue(y, i)' <=> InQueue(y, i + 1)
                        /\ \A d \in Levels : InLevel(y, d)' <=> InLevel(y, d)
  BY <1>1 DEF InBatch, InQueue, InLevel
<1>3. \A y \in Things : \A i, j \in DOMAIN queue' : InQueue(y, i)' /\ InQueue(y, j)' => i = j
  <2> SUFFICES ASSUME NEW y \in Things, NEW i \in DOMAIN queue', NEW j \in DOMAIN queue',
                      InQueue(y, i)', InQueue(y, j)'
               PROVE  i = j
    OBVIOUS
  <2>1. i + 1 = j + 1
    BY <1>0, <1>1, <1>2 DEF OnePlace
  <2> QED BY <1>0, <1>1, <2>1
<1>4. \A y \in Things : InBatch(y)' => \A i \in DOMAIN queue' : ~InQueue(y, i)'
  <2> SUFFICES ASSUME NEW y \in Things, InBatch(y)', NEW i \in DOMAIN queue', InQueue(y, i)'
               PROVE  FALSE
    OBVIOUS
  <2>1. 1 = i + 1
    BY <1>0, <1>1, <1>2 DEF OnePlace
  <2> QED BY <1>0, <1>1, <2>1
<1>5. \A y \in Things : \A d \in Levels : InLevel(y, d)' =>
          ~InBatch(y)' /\ \A i \in DOMAIN queue' : ~InQueue(y, i)'
  BY <1>0, <1>1, <1>2 DEF OnePlace
<1>6. \A y \in Slots : y \in out' <=> \/ \E d \in Levels : InLevel(y, d)'
                                      \/ InBatch(y)'
                                      \/ \E i \in DOMAIN queue' : InQueue(y, i)'
  <2> TAKE y \in Slots
  <2>1. y \in Things
    BY DEF Things
  <2>2. (\E i \in DOMAIN queue : InQueue(y, i)) <=>
            InBatch(y)' \/ \E i \in DOMAIN queue' : InQueue(y, i)'
    <3>1. ASSUME NEW i \in DOMAIN queue, InQueue(y, i)
          PROVE  InBatch(y)' \/ \E j \in DOMAIN queue' : InQueue(y, j)'
      <4>1. CASE i = 1
        BY <1>2, <2>1, <3>1, <4>1
      <4>2. CASE i # 1
        <5>1. i - 1 \in DOMAIN queue' /\ (i - 1) + 1 = i
          BY <1>0, <1>1, <4>2
        <5> QED BY <1>2, <2>1, <3>1, <5>1
      <4> QED BY <4>1, <4>2
    <3> QED BY <1>1, <1>2, <2>1, <3>1
  <2>3. y \in out <=> \/ \E d \in Levels : InLevel(y, d)
                      \/ InBatch(y)
                      \/ \E i \in DOMAIN queue : InQueue(y, i)
    BY <1>0 DEF OnePlace
  <2> QED BY <1>2, <2>1, <2>2, <2>3
<1> QED BY <1>0, <1>2, <1>3, <1>4, <1>5, <1>6 DEF OnePlace

\* It releases one thing of its batch.
LEMMA PlaceRelease ==
    ASSUME LInv, NEW x \in batch, batch' = batch \ {x},
           UNCHANGED <<tracked, queue, level>>,
           \A y \in Slots : y \in out' <=> y \in out /\ y # x
    PROVE  OnePlace'
<1>0. OnePlace /\ x \in Things
  BY DEF LInv, ListsTyped
<1>1. /\ \A y \in Things : InBatch(y)' <=> InBatch(y) /\ y # x
      /\ \A y \in Things : \A d \in Levels : InLevel(y, d)' <=> InLevel(y, d)
      /\ \A y \in Things : \A i \in DOMAIN queue : InQueue(y, i)' <=> InQueue(y, i)
      /\ DOMAIN queue' = DOMAIN queue
  BY DEF InBatch, InLevel, InQueue
<1>2. InBatch(x) /\ \A i \in DOMAIN queue : ~InQueue(x, i)
  BY <1>0 DEF OnePlace, InBatch
<1>3. \A d \in Levels : ~InLevel(x, d)
  BY <1>0, <1>2 DEF OnePlace
<1>4. \A y \in Slots : y \in out' <=> \/ \E d \in Levels : InLevel(y, d)'
                                      \/ InBatch(y)'
                                      \/ \E i \in DOMAIN queue : InQueue(y, i)'
  <2>1. Slots \subseteq Things
    BY DEF Things
  <2> QED BY <1>0, <1>1, <1>2, <1>3, <2>1 DEF OnePlace
<1> QED BY <1>0, <1>1, <1>4 DEF OnePlace

\* samm_shutdown detaches the next scope.
LEMMA PlaceSweep ==
    ASSUME LInv, batch = {}, queue = << >>, level \in Levels, batch' = tracked[level],
           tracked' = [tracked EXCEPT ![level] = {}], level' = level - 1,
           UNCHANGED <<queue, out>>
    PROVE  OnePlace'
<1>0. OnePlace /\ tracked \in [Levels -> SUBSET Things] /\ DOMAIN queue = {} /\ DOMAIN queue' = {}
  BY DEF LInv, ListsTyped
<1>1. \A y \in Things : /\ InBatch(y)' <=> InLevel(y, level)
                        /\ ~InBatch(y)
                        /\ \A d \in Levels : InLevel(y, d)' <=> InLevel(y, d) /\ d # level
  BY <1>0 DEF InBatch, InLevel
<1>2. \A d \in Levels : d > level' => tracked'[d] = {}
  <2>1. \A d \in Levels : d > level' => d > level \/ d = level
    BY Basics
  <2> QED BY <1>0, <2>1 DEF OnePlace
<1>3. \A y \in Slots : y \in out' <=> (\E d \in Levels : InLevel(y, d)') \/ InBatch(y)'
  <2> TAKE y \in Slots
  <2>1. y \in Things
    BY DEF Things
  <2>2. y \in out <=> \E d \in Levels : InLevel(y, d)
    BY <1>0, <1>1, <2>1 DEF OnePlace
  <2> QED BY <1>1, <2>1, <2>2
<1>4. \A y \in Things : \A d \in Levels : InLevel(y, d)' => ~InBatch(y)'
  BY <1>0, <1>1 DEF OnePlace
<1>5. \A y \in Things : \A d, e \in Levels : InLevel(y, d)' /\ InLevel(y, e)' => d = e
  BY <1>0, <1>1 DEF OnePlace
<1> QED BY <1>0, <1>2, <1>3, <1>4, <1>5 DEF OnePlace
-----------------------------------------------------------------------------
\* The row c is the one of l with the atom s in it.
Joins(l, s, c) ==
    \A j \in 1 .. Len(c) : c[j] = s \/ \E i \in 1 .. Len(Rest(l)) : c[j] = Rest(l)[i]

\* The memory of a list is what it was, but for s.
Same(k, s) ==
    /\ Top(k)' = Top(k) /\ home' = home
    /\ \A i \in 1 .. Len(Rest(k)) : Rest(k)[i] # s => atom'[Rest(k)[i]] = atom[Rest(k)[i]]

\* A new atom s, which the innermost level tracks, joins no other row.
LEMMA OtherKept ==
    ASSUME LInv, NEW l \in Names, NEW k \in Names \ {l}, Exists(l), Exists(k)',
           NEW s \in Slots \ out, level \in Levels,
           tracked' = [tracked EXCEPT ![level] = @ \cup {s}], level' = level,
           Same(k, s), NEW c, Joins(l, s, c)
    PROVE  Untouched(k, c)
<1>0. tracked \in [Levels -> SUBSET Things]
  BY DEF LInv, ListsTyped
<1>1. \A d \in Levels : tracked[d] \subseteq tracked'[d]
  BY <1>0
<1>2. Exists(k) /\ home'[k] = home[k]
  BY DEF Exists, Same
<1>3. /\ home[k] \in Levels /\ home[k] <= level' /\ k \in tracked'[home[k]]
      /\ \A i \in 1 .. Len(Rest(k)) : Rest(k)[i] \in tracked'[home[k]] /\ Rest(k)[i] # s
  BY <1>1, <1>2, Resting
<1>4. \A i \in 1 .. Len(Rest(k)), j \in 1 .. Len(Rest(l)) : Rest(l)[j] # Rest(k)[i]
  BY <1>2 DEF LInv, Rows
<1> QED BY <1>2, <1>3, <1>4 DEF Untouched, Same, Joins

\* What listAppendAtom does to the lists: the new atom is the last of l ...
LEMMA LastLinked ==
    ASSUME LInv, NEW l \in Names, Exists(l), home[l] = level, level \in Levels,
           NEW s \in Slots \ out, NEW v \in Values, LinkLast(l, s, v),
           tracked' = [tracked EXCEPT ![level] = @ \cup {s}], UNCHANGED <<home, level>>,
           \A k \in Names : ~Cleared(k) /\ ~Cleared(k)'
    PROVE  /\ Rows' /\ Rest(l)' = Append(Rest(l), s)
           /\ \A k \in Names \ {l} : Exists(k)' => Exists(k) /\ Rest(k)' = Rest(k)
           /\ list'[l].tail = s /\ list'[l].length = list[l].length + 1
           /\ \A k \in Names \ {l} : list'[k] = list[k]
           /\ atom'[s].value = v /\ \A x \in Slots \ {s} : atom'[x].value = atom[x].value
<1> DEFINE c == Rest(l)
           t == list[l].tail
<1>0. /\ atom \in [Slots -> [value : Values \cup {NULL}, next : Links]]
      /\ list \in [Names -> [head : Links, tail : Links, length : Nat]]
      /\ tracked \in [Levels -> SUBSET Things] /\ NULL \notin Slots
  BY Basics DEF LInv, ListsTyped
<1>1. /\ Row(atom, list[l].head, c, tracked[level]) /\ c \in Seq(Slots) /\ Len(c) \in Nat
      /\ \A i \in 1 .. Len(c) : c[i] \in Slots \cap out
  BY Resting
<1>2. t = IF c = << >> THEN NULL ELSE c[Len(c)]
  BY DEF LInv, Counted, Counts, Whole
<1>3. c # << >> <=> Len(c) > 0
  BY <1>1
<1> HIDE DEF c, t
<1>4. /\ list'[l].head = IF c = << >> THEN s ELSE list[l].head
      /\ list'[l].tail = s /\ list'[l].length = list[l].length + 1
      /\ \A k \in Names \ {l} : list'[k] = list[k]
  <2>1. t = NULL <=> c = << >>
    BY <1>0, <1>1, <1>2, <1>3
  <2>2. list' = [list EXCEPT ![l].head = IF t = NULL THEN s ELSE @,
                             ![l].tail = s, ![l].length = @ + 1]
    BY DEF LinkLast, t
  <2> QED BY <1>0, <2>1, <2>2
<1>5. /\ atom'[s] = [value |-> v, next |-> NULL]
      /\ \A x \in Slots \ {s} :
             /\ atom'[x].value = atom[x].value
             /\ atom'[x].next = IF x = t THEN s ELSE atom[x].next
             /\ x # t => atom'[x] = atom[x]
  <2> DEFINE a == [atom EXCEPT ![s] = [value |-> v, next |-> NULL]]
  <2>1. /\ a[s] = [value |-> v, next |-> NULL] /\ \A x \in Slots \ {s} : a[x] = atom[x]
        /\ DOMAIN a = Slots
    BY <1>0
  <2>2. t # s
    BY <1>0, <1>1, <1>2, <1>3
  <2>3. atom' = IF t = NULL THEN a ELSE [a EXCEPT ![t].next = s]
    BY DEF LinkLast, t
  <2> HIDE DEF a
  <2>4. CASE t = NULL
    BY <1>0, <2>1, <2>3, <2>4
  <2>5. CASE t # NULL
    <3>1. t \in Slots
      BY <1>1, <1>2, <1>3, <2>5
    <3>2. \A x \in Slots \ {t} : atom'[x] = a[x]
      BY <2>1, <2>3, <2>5
    <3>3. atom'[t] = [a[t] EXCEPT !.next = s]
      BY <2>1, <2>3, <2>5, <3>1
    <3>4. a[t] = atom[t] /\ atom[t] \in [value : Values \cup {NULL}, next : Links]
      BY <1>0, <2>1, <2>2, <3>1
    <3>5. atom'[t].value = atom[t].value /\ atom'[t].next = s
      BY <3>3, <3>4
    <3> QED BY <2>1, <2>2, <3>2, <3>5
  <2> QED BY <2>4, <2>5
<1>6. \A i \in 1 .. Len(c) : c[i] = t <=> i = Len(c)
  <2>1. \A i, j \in 1 .. Len(c) : c[i] = c[j] => i = j
    BY <1>1, RowFacts
  <2> QED BY <1>0, <1>1, <1>2, <1>3, <2>1
<1>7. /\ \A i \in 1 .. Len(c) : c[i] # s /\ c[i] \in tracked'[level] /\ c[i] \in tracked[level]
      /\ s \in tracked'[level]
  BY <1>0, <1>1, RowFacts
<1>8. Row(atom', IF c = << >> THEN s ELSE list[l].head, Append(c, s), tracked'[level])
  <2>1. \A i \in 1 .. Len(c) :
            /\ atom'[c[i]].value = atom[c[i]].value
            /\ atom'[c[i]].next = IF i = Len(c) THEN s ELSE atom[c[i]].next
    BY <1>1, <1>5, <1>6, <1>7
  <2>2. atom'[s].next = NULL /\ atom'[s].value \in Values
    BY <1>5
  <2> QED BY <1>1, <1>7, <2>1, <2>2, RowLast
<1>9. \A k \in Names \ {l} : Exists(k) => \A i \in 1 .. Len(Rest(k)) :
          Rest(k)[i] # s => atom'[Rest(k)[i]] = atom[Rest(k)[i]]
  <2> SUFFICES ASSUME NEW k \in Names \ {l}, Exists(k), NEW i \in 1 .. Len(Rest(k)),
                      Rest(k)[i] # s
               PROVE  atom'[Rest(k)[i]] = atom[Rest(k)[i]]
    OBVIOUS
  <2>1. Rest(k)[i] \in Slots
    BY Resting
  <2>2. \A j \in 1 .. Len(c) : c[j] # Rest(k)[i]
    BY DEF LInv, Rows, c
  <2>3. Rest(k)[i] # t
    BY <1>0, <1>1, <1>2, <1>3, <2>1, <2>2
  <2> QED BY <1>5, <2>1, <2>3
<1>10. \A j \in 1 .. Len(Append(c, s)) :
           Append(c, s)[j] = s \/ \E i \in 1 .. Len(c) : Append(c, s)[j] = c[i]
  BY <1>1
<1>11. PICK d : d = Append(c, s)
  OBVIOUS
<1>12. /\ Rows' /\ Rest(l)' = d
       /\ \A k \in Names \ {l} : Exists(k)' => Exists(k) /\ Rest(k)' = Rest(k)
  <2>1. Row(atom', Top(l)', d, tracked'[home'[l]]) /\ Exists(l)'
    BY <1>4, <1>8, <1>11 DEF Top, Exists
  <2>2. l \in tracked'[home'[l]] /\ home'[l] <= level'
    BY <1>0, Resting
  <2>3. ASSUME NEW k \in Names \ {l}, Exists(k)' PROVE Untouched(k, d)
    <3>1. Top(k)' = Top(k) /\ Exists(k)
      BY <1>4, <2>3 DEF Top, Exists
    <3>2. Same(k, s)
      BY <1>9, <3>1 DEF Same
    <3>3. Joins(l, s, d)
      BY <1>10, <1>11 DEF c, Joins
    <3> QED BY <2>3, <3>2, <3>3, OtherKept
  <2> QED BY <2>1, <2>2, <2>3, OneRow
<1>13. atom'[s].value = v
  BY <1>5
<1> QED BY <1>4, <1>5, <1>11, <1>12, <1>13 DEF c

\* ... and listPrependAtom: it is the first.
LEMMA FirstLinked ==
    ASSUME LInv, NEW l \in Names, Exists(l), home[l] = level, level \in Levels,
           NEW s \in Slots \ out, NEW v \in Values, LinkFirst(l, s, v),
           tracked' = [tracked EXCEPT ![level] = @ \cup {s}], UNCHANGED <<home, level>>,
           \A k \in Names : ~Cleared(k) /\ ~Cleared(k)'
    PROVE  /\ Rows' /\ Rest(l)' = <<s>> \o Rest(l)
           /\ \A k \in Names \ {l} : Exists(k)' => Exists(k) /\ Rest(k)' = Rest(k)
           /\ list'[l].tail = (IF Rest(l) = << >> THEN s ELSE list[l].tail)
           /\ list'[l].length = list[l].length + 1
           /\ \A k \in Names \ {l} : list'[k] = list[k]
           /\ atom'[s].value = v /\ \A x \in Slots \ {s} : atom'[x].value = atom[x].value
<1> DEFINE c == Rest(l)
<1>0. /\ atom \in [Slots -> [value : Values \cup {NULL}, next : Links]]
      /\ list \in [Names -> [head : Links, tail : Links, length : Nat]]
      /\ tracked \in [Levels -> SUBSET Things] /\ NULL \notin Slots
  BY Basics DEF LInv, ListsTyped
<1>1. /\ Row(atom, list[l].head, c, tracked[level]) /\ c \in Seq(Slots) /\ Len(c) \in Nat
      /\ \A i \in 1 .. Len(c) : c[i] \in Slots \cap out
  BY Resting
<1>2. list[l].tail = NULL <=> c = << >>
  <2>1. list[l].tail = IF c = << >> THEN NULL ELSE c[Len(c)]
    BY DEF LInv, Counted, Counts, Whole
  <2>2. c # << >> => Len(c) \in 1 .. Len(c)
    BY <1>1
  <2> QED BY <1>0, <1>1, <2>1, <2>2
<1> HIDE DEF c
<1>3. /\ list'[l].head = s
      /\ list'[l].tail = (IF c = << >> THEN s ELSE list[l].tail)
      /\ list'[l].length = list[l].length + 1
      /\ \A k \in Names \ {l} : list'[k] = list[k]
  BY <1>0, <1>2 DEF LinkFirst
<1>4. /\ atom'[s] = [value |-> v, next |-> list[l].head]
      /\ \A x \in Slots \ {s} : atom'[x] = atom[x]
  BY <1>0 DEF LinkFirst
<1>5. /\ \A i \in 1 .. Len(c) : c[i] # s /\ c[i] \in tracked'[level] /\ c[i] \in Slots
      /\ s \in tracked'[level]
  BY <1>0, <1>1, RowFacts
<1>6. Row(atom', s, <<s>> \o c, tracked'[level])
  <2>1. \A i \in 1 .. Len(c) : atom'[c[i]] = atom[c[i]]
    BY <1>4, <1>5
  <2>2. atom'[s].next = list[l].head /\ atom'[s].value \in Values
    BY <1>4
  <2> QED BY <1>1, <1>5, <2>1, <2>2, RowFirst
<1>7. \A k \in Names \ {l} : Exists(k) => \A i \in 1 .. Len(Rest(k)) :
          Rest(k)[i] # s => atom'[Rest(k)[i]] = atom[Rest(k)[i]]
  BY <1>4, Resting
<1>8. \A j \in 1 .. Len(<<s>> \o c) :
          (<<s>> \o c)[j] = s \/ \E i \in 1 .. Len(c) : (<<s>> \o c)[j] = c[i]
  <2> TAKE j \in 1 .. Len(<<s>> \o c)
  <2>1. CASE j = 1
    BY <1>1, <2>1
  <2>2. CASE j # 1
    <3>1. j - 1 \in 1 .. Len(c) /\ (<<s>> \o c)[j] = c[j - 1]
      BY <1>1, <2>2
    <3> QED BY <3>1
  <2> QED BY <2>1, <2>2
<1>9. PICK d : d = <<s>> \o c
  OBVIOUS
<1>10. /\ Rows' /\ Rest(l)' = d
       /\ \A k \in Names \ {l} : Exists(k)' => Exists(k) /\ Rest(k)' = Rest(k)
  <2>1. Row(atom', Top(l)', d, tracked'[home'[l]]) /\ Exists(l)'
    BY <1>3, <1>6, <1>9 DEF Top, Exists
  <2>2. l \in tracked'[home'[l]] /\ home'[l] <= level'
    BY <1>0, Resting
  <2>3. ASSUME NEW k \in Names \ {l}, Exists(k)' PROVE Untouched(k, d)
    <3>1. Top(k)' = Top(k) /\ Exists(k)
      BY <1>3, <2>3 DEF Top, Exists
    <3>2. Same(k, s)
      BY <1>7, <3>1 DEF Same
    <3>3. Joins(l, s, d)
      BY <1>8, <1>9 DEF c, Joins
    <3> QED BY <2>3, <3>2, <3>3, OtherKept
  <2> QED BY <2>1, <2>2, <2>3, OneRow
<1>11. atom'[s].value = v /\ \A x \in Slots \ {s} : atom'[x].value = atom[x].value
  BY <1>4
<1> QED BY <1>3, <1>9, <1>10, <1>11 DEF c

-----------------------------------------------------------------------------
\* What the program sees of a list is the same after the step.
Stays(k) == Contents(k)' = Contents(k)
Steady == \A k \in Names : Stays(k)

\* The step takes lists away, if it does anything.
Gone == \A k \in Names : Stays(k) \/ Contents(k)' = NULL

\* The step does to l what a program may ask, and nothing to the others.
Moves(l) ==
    /\ \A k \in Names \ {l} : Stays(k)
    /\ Stays(l) \/ Seqs!Becomes(Contents(l), Contents(l)')

\* The row of k, and the values in it, are the same after the step.
SameValues(k) ==
    /\ Rest(k)' = Rest(k)
    /\ \A i \in 1 .. Len(Rest(k)) : atom'[Rest(k)[i]].value = atom[Rest(k)[i]].value

\* What the program sees of a list: the values of its row.
LEMMA ContentsAre ==
    ASSUME LInv, NEW k \in Names, Exists(k), ~Cleared(k)
    PROVE  /\ Contents(k) = [i \in 1 .. Len(Rest(k)) |-> atom[Rest(k)[i]].value]
           /\ Contents(k) \in Seq(Values) /\ Len(Contents(k)) = Len(Rest(k))
           /\ Contents(k) # NULL
<1>1. /\ Rest(k) = Chain(list[k].head) /\ Len(Rest(k)) \in Nat
      /\ Row(atom, Top(k), Rest(k), tracked[home[k]])
  BY Resting
<1>2. Contents(k) = [i \in 1 .. Len(Rest(k)) |-> atom[Rest(k)[i]].value]
  BY <1>1 DEF Contents, ValuesFrom
<1>3. PICK n \in Nat : n = Len(Rest(k))
  BY <1>1
<1>4. Contents(k) \in [1 .. n -> Values]
  BY <1>1, <1>2, <1>3, RowFacts
<1>5. Contents(k) \in Seq(Values) /\ Len(Contents(k)) = n
  BY <1>4
<1> QED BY <1>2, <1>3, <1>5, ListsAssumption

\* And after the step.
LEMMA ContentsThen ==
    ASSUME NEW k \in Names, Exists(k)', ~Cleared(k)'
    PROVE  Contents(k)' = [i \in 1 .. Len(Rest(k)') |-> atom'[Rest(k)'[i]].value]
<1>1. Rest(k)' = Chain(list[k].head)'
  BY DEF Rest, Top
<1> QED BY <1>1 DEF Contents, ValuesFrom

\* It stays as long as the row stays ...
LEMMA ValuesStay ==
    ASSUME LInv, NEW k \in Names, Exists(k)', Exists(k), Cleared(k)' <=> Cleared(k),
           SameValues(k)
    PROVE  Stays(k)
<1>1. CASE Cleared(k)
  BY <1>1 DEF Stays, Contents
<1>2. CASE ~Cleared(k)
  BY <1>2, ContentsAre, ContentsThen DEF SameValues, Stays
<1> QED BY <1>1, <1>2

\* ... and where the list is untouched.
LEMMA UntouchedStays ==
    ASSUME LInv, NEW k \in Names, NEW c, Exists(k)', Cleared(k)' <=> Cleared(k),
           Untouched(k, c)
    PROVE  Stays(k)
<1>1. Exists(k) /\ Rest(k)' = Rest(k)
  BY SameRow
<1>2. SameValues(k)
  BY <1>1 DEF SameValues, Untouched
<1> QED BY <1>1, <1>2, ValuesStay

\* A list that there is not.
LEMMA NoneStays == ASSUME NEW k, ~Exists(k), ~Exists(k)' PROVE Stays(k)
BY DEF Stays, Contents

\* What an atom s at the end of the sequence c does to the values.
LEMMA ValuesLast ==
    ASSUME NEW c \in Seq(Slots), NEW s \in Slots, NEW f,
           NEW d, d = Append(c, s)
    PROVE  [i \in 1 .. Len(d) |-> f[d[i]]] = [i \in 1 .. Len(c) |-> f[c[i]]] \o <<f[s]>>
<1> DEFINE S == {f[x] : x \in Slots}
<1>1. /\ Len(c) \in Nat /\ Len(d) = Len(c) + 1 /\ d[Len(c) + 1] = s
      /\ \A i \in 1 .. Len(c) : d[i] = c[i] /\ c[i] \in Slots
  BY AppendProperties
<1>2. PICK u : u = [i \in 1 .. Len(c) |-> f[c[i]]]
  OBVIOUS
<1>3. u \in Seq(S) /\ Len(u) = Len(c) /\ <<f[s]>> \in Seq(S)
  BY <1>1, <1>2
<1> HIDE DEF S
<1>4. PICK w : w = u \o <<f[s]>>
  OBVIOUS
<1>5. /\ w \in Seq(S) /\ Len(w) = Len(d)
      /\ \A i \in 1 .. Len(d) : w[i] = IF i <= Len(c) THEN u[i] ELSE <<f[s]>>[i - Len(c)]
  BY <1>1, <1>3, <1>4, ConcatProperties
<1>6. ASSUME NEW i \in 1 .. Len(d) PROVE w[i] = f[d[i]]
  <2>1. CASE i <= Len(c)
    <3>1. i \in 1 .. Len(c) /\ w[i] = u[i]
      BY <1>1, <1>5, <2>1
    <3> QED BY <1>1, <1>2, <3>1
  <2>2. CASE ~(i <= Len(c))
    <3>1. i = Len(c) + 1 /\ i - Len(c) = 1
      BY <1>1, <2>2
    <3> QED BY <1>1, <1>5, <2>2, <3>1
  <2> QED BY <2>1, <2>2
<1>7. w = [i \in 1 .. Len(d) |-> w[i]]
  BY <1>5
<1> QED BY <1>2, <1>4, <1>6, <1>7

\* The same at the front.
LEMMA ValuesFirst ==
    ASSUME NEW c \in Seq(Slots), NEW s \in Slots, NEW f,
           NEW d, d = <<s>> \o c
    PROVE  [i \in 1 .. Len(d) |-> f[d[i]]] = <<f[s]>> \o [i \in 1 .. Len(c) |-> f[c[i]]]
<1> DEFINE S == {f[x] : x \in Slots}
<1>1. /\ Len(c) \in Nat /\ Len(d) = Len(c) + 1 /\ d[1] = s
      /\ \A i \in 2 .. Len(d) : i - 1 \in 1 .. Len(c) /\ d[i] = c[i - 1]
      /\ \A i \in 1 .. Len(c) : c[i] \in Slots
  OBVIOUS
<1>2. PICK u : u = [i \in 1 .. Len(c) |-> f[c[i]]]
  OBVIOUS
<1>3. u \in Seq(S) /\ Len(u) = Len(c) /\ <<f[s]>> \in Seq(S) /\ Len(<<f[s]>>) = 1
  BY <1>1, <1>2
<1> HIDE DEF S
<1>4. PICK w : w = <<f[s]>> \o u
  OBVIOUS
<1>5. /\ w \in Seq(S) /\ Len(w) = Len(d)
      /\ \A i \in 1 .. Len(d) : w[i] = IF i <= 1 THEN <<f[s]>>[i] ELSE u[i - 1]
  BY <1>1, <1>3, <1>4, ConcatProperties
<1>6. ASSUME NEW i \in 1 .. Len(d) PROVE w[i] = f[d[i]]
  <2>1. CASE i = 1
    BY <1>1, <1>5, <2>1
  <2>2. CASE i # 1
    <3>1. PICK j \in 1 .. Len(c) : j = i - 1 /\ d[i] = c[j]
      BY <1>1, <2>2
    <3>2. w[i] = u[j]
      BY <1>1, <1>5, <2>2, <3>1
    <3> QED BY <1>2, <3>1, <3>2
  <2> QED BY <2>1, <2>2
<1>7. w = [i \in 1 .. Len(d) |-> w[i]]
  BY <1>5
<1> QED BY <1>2, <1>4, <1>6, <1>7

\* A list that got a new atom has one value more, at the end where the atom is.
LEMMA OneMore ==
    ASSUME LInv, NEW l \in Names, Exists(l), home' = home, NEW s \in Slots \ out,
           \A k \in Names : ~Cleared(k) /\ ~Cleared(k)',
           \A k \in Names \ {l} : Exists(k)' => Exists(k) /\ Rest(k)' = Rest(k),
           atom'[s].value \in Values,
           \A x \in Slots \ {s} : atom'[x].value = atom[x].value,
           Rest(l)' = Append(Rest(l), s) \/ Rest(l)' = <<s>> \o Rest(l)
    PROVE  /\ Moves(l) /\ Contents(l) \in Seq(Values)
           /\ Rest(l)' = Append(Rest(l), s) => Contents(l)' = Contents(l) \o <<atom'[s].value>>
           /\ Rest(l)' = <<s>> \o Rest(l) => Contents(l)' = <<atom'[s].value>> \o Contents(l)
<1>1. ASSUME NEW k \in Names, Exists(k), NEW i \in 1 .. Len(Rest(k))
      PROVE  Rest(k)[i] \in Slots /\ atom'[Rest(k)[i]].value = atom[Rest(k)[i]].value
  <2>1. Rest(k)[i] \in Slots \cap out
    BY <1>1, Resting
  <2> QED BY <2>1
<1>2. ASSUME NEW k \in Names \ {l} PROVE Stays(k)
  <2>1. CASE Exists(k)'
    <3>1. Exists(k) /\ SameValues(k)
      BY <1>1, <2>1 DEF SameValues
    <3> QED BY <2>1, <3>1, ValuesStay
  <2>2. CASE ~Exists(k)'
    BY <2>2, NoneStays DEF Exists
  <2> QED BY <2>1, <2>2
<1>3. PICK c, d : c = Rest(l) /\ d = Rest(l)'
  OBVIOUS
<1>4. PICK f : f = [x \in Slots |-> atom'[x].value]
  OBVIOUS
<1>5. c \in Seq(Slots) /\ Len(c) \in Nat
  BY <1>3, Resting
<1>6. Contents(l) = [i \in 1 .. Len(c) |-> f[c[i]]]
  <2>1. Contents(l) = [i \in 1 .. Len(c) |-> atom[c[i]].value]
    BY <1>3, ContentsAre
  <2>2. \A i \in 1 .. Len(c) : atom[c[i]].value = f[c[i]]
    BY <1>1, <1>3, <1>4
  <2> QED BY <2>1, <2>2
<1>7. Contents(l)' = [i \in 1 .. Len(d) |-> f[d[i]]]
  <2>1. Contents(l)' = [i \in 1 .. Len(d) |-> atom'[d[i]].value]
    BY <1>3, ContentsThen DEF Exists
  <2>2. \A i \in 1 .. Len(d) : d[i] \in Slots
    <3>1. CASE d = Append(c, s)
      BY <1>5, <3>1, AppendProperties
    <3>2. CASE d = <<s>> \o c
      <4>1. <<s>> \in Seq(Slots)
        OBVIOUS
      <4>2. d \in Seq(Slots)
        BY <1>5, <3>2, <4>1, ConcatProperties
      <4> QED BY <4>2
    <3> QED BY <1>3, <3>1, <3>2
  <2> QED BY <1>4, <2>1, <2>2
<1>8. /\ d = Append(c, s) => Contents(l)' = Contents(l) \o <<f[s]>>
      /\ d = <<s>> \o c => Contents(l)' = <<f[s]>> \o Contents(l)
      /\ d = Append(c, s) \/ d = <<s>> \o c
  <2>1. ASSUME d = Append(c, s) PROVE Contents(l)' = Contents(l) \o <<f[s]>>
    <3>1. [i \in 1 .. Len(d) |-> f[d[i]]] = [i \in 1 .. Len(c) |-> f[c[i]]] \o <<f[s]>>
      BY <1>5, <2>1, ValuesLast
    <3> QED BY <1>6, <1>7, <3>1, Zenon
  <2>2. ASSUME d = <<s>> \o c PROVE Contents(l)' = <<f[s]>> \o Contents(l)
    <3>1. [i \in 1 .. Len(d) |-> f[d[i]]] = <<f[s]>> \o [i \in 1 .. Len(c) |-> f[c[i]]]
      BY <1>5, <2>2, ValuesFirst, SMTT(30)
    <3> QED BY <1>6, <1>7, <3>1, Zenon
  <2>3. d = Append(c, s) \/ d = <<s>> \o c
    BY <1>3, Zenon
  <2> QED BY <2>1, <2>2, <2>3, Zenon
<1>9. f[s] \in Values /\ f[s] = atom'[s].value
  BY <1>4
<1>10. Contents(l) # NULL /\ Contents(l)' # NULL
  <2>1. Contents(l) \in Seq(Values)
    BY ContentsAre
  <2>2. <<f[s]>> \in Seq(Values)
    BY <1>9
  <2>3. Contents(l)' \in Seq(Values)
    BY <1>8, <2>1, <2>2, ConcatProperties
  <2> QED BY <2>1, <2>3, ListsAssumption
<1>11. Seqs!Becomes(Contents(l), Contents(l)')
  BY <1>8, <1>9, <1>10 DEF Seqs!Becomes
<1>12. Contents(l) \in Seq(Values)
  BY ContentsAre
<1>13. /\ Rest(l)' = Append(Rest(l), s) => Contents(l)' = Contents(l) \o <<atom'[s].value>>
       /\ Rest(l)' = <<s>> \o Rest(l) => Contents(l)' = <<atom'[s].value>> \o Contents(l)
  BY <1>3, <1>8, <1>9, Zenon
<1> QED BY <1>2, <1>11, <1>12, <1>13 DEF Moves

-----------------------------------------------------------------------------
\* A list of which no row changes is counted as before.
LEMMA CountsKept ==
    ASSUME LInv, NEW k \in Names, k \in Whole, Rest(k)' = Rest(k), list'[k] = list[k]
    PROVE  Counts(k)'
BY DEF LInv, Counted, Counts

\* A row of which the memory and the place stay.
LEMMA UntouchedBy ==
    ASSUME LInv, NEW k \in Names, Exists(k)', home'[k] = home[k], home[k] <= level',
           Top(k)' = Top(k), atom' = atom, tracked'[home[k]] = tracked[home[k]]
    PROVE  Untouched(k, << >>)
<1>1. Exists(k)
  BY DEF Exists
<1> QED BY <1>1, Resting DEF Untouched

\* A step that leaves the rows, the headers and the program where they are.
LEMMA Quiet ==
    ASSUME LInv, UNCHANGED <<home, level, cursor, job, mode>>,
           \A k \in Names : Exists(k)' => Untouched(k, << >>),
           \A k \in Names : Exists(k) => list'[k] = list[k]
    PROVE  Rows' /\ Counted' /\ Standing' /\ Working' /\ Steady
<1>1. Rows' /\ \A k \in Names : Exists(k) => Rest(k)' = Rest(k)
  BY NoRow DEF Exists
<1>2. \A k \in Names : (Exists(k)' <=> Exists(k)) /\ (Cleared(k)' <=> Cleared(k))
  BY DEF Exists, Cleared, Busy
<1>3. Whole' = Whole
  BY <1>2 DEF Whole
<1>4. Counted'
  <2> SUFFICES ASSUME NEW k \in Whole PROVE Counts(k)'
    BY <1>3 DEF Counted
  <2>1. k \in Names /\ Exists(k)
    BY DEF Whole
  <2> QED BY <1>1, <2>1, CountsKept
<1>5. Standing'
  <2>1. cursor.at # NULL => cursor.list \in Whole /\ Rest(cursor.list)' = Rest(cursor.list)
    BY <1>1 DEF LInv, Standing, Whole
  <2> QED BY <1>3, <2>1 DEF LInv, Standing
<1>6. Working'
  <2> SUFFICES ASSUME mode = "run", job.op \in {"copy", "reverse"}
               PROVE  Copied(job.list, job.into)'
    BY <1>2 DEF LInv, Working
  <2>1. /\ job.list \in Names /\ Exists(job.list) /\ job.into \in Names /\ Exists(job.into)
        /\ Copied(job.list, job.into)
    BY DEF LInv, Working
  <2>2. Rest(job.list)' = Rest(job.list) /\ Rest(job.into)' = Rest(job.into)
    BY <1>1, <2>1
  <2>3. \A k \in Names : Exists(k) => \A i \in 1 .. Len(Rest(k)) :
            atom'[Rest(k)[i]] = atom[Rest(k)[i]]
    BY <1>2 DEF Untouched
  <2>4. Len(Rest(job.list)) \in Nat /\ Len(Rest(job.into)) \in Nat
    BY <2>1, Resting
  <2>5. ASSUME NEW i \in 1 .. Len(Rest(job.into))
        PROVE  (IF job.op = "copy" THEN i ELSE Len(Rest(job.into)) + 1 - i)
                   \in 1 .. Len(Rest(job.list))
    BY <2>1, <2>4 DEF Copied
  <2> QED BY <2>1, <2>2, <2>3, <2>5 DEF Copied
<1>7. Steady
  <2> SUFFICES ASSUME NEW k \in Names PROVE Stays(k)
    BY DEF Steady
  <2>1. CASE Exists(k)
    BY <1>2, <2>1, UntouchedStays
  <2>2. CASE ~Exists(k)
    BY <1>2, <2>2, NoneStays
  <2> QED BY <2>1, <2>2
<1> QED BY <1>1, <1>4, <1>5, <1>6, <1>7

\* cleanupBatch empties a header.
LEMMA ReleaseHeaderStep == ASSUME LInv, NEW l \in Names, ReleaseHeader(l) PROVE LInv' /\ Steady
<1> USE DEF ReleaseHeader, pool
<1>1. ListsTyped'
  BY Basics DEF LInv, ListsTyped, Empty, Links
<1>2. l \notin Slots /\ l \in batch
  BY Basics
<1>3. OnePlace'
  <2>1. \A y \in Slots : y \in out' <=> y \in out /\ y # l
    BY <1>2
  <2> QED BY <1>2, <2>1, PlaceRelease
<1>4. \A k \in Names : Exists(k) => k # l
  <2>1. \A d \in Levels : l \notin tracked[d]
    BY <1>2 DEF LInv, OnePlace, InLevel, InBatch, Things
  <2> QED BY <2>1, Resting
<1>5. ASSUME NEW k \in Names, Exists(k)' PROVE Untouched(k, << >>)
  <2>1. Exists(k) /\ k # l /\ home[k] <= level
    BY <1>4, <1>5, Resting DEF Exists
  <2>2. Top(k)' = Top(k)
    BY <2>1 DEF Top, Cleared, Busy
  <2> QED BY <1>5, <2>1, <2>2, UntouchedBy
<1>6. Rows' /\ Counted' /\ Standing' /\ Working' /\ Steady
  <2>1. \A k \in Names : Exists(k) => list'[k] = list[k]
    BY <1>4
  <2> QED BY <1>5, <2>1, Quiet
<1>7. Running'
  BY DEF LInv, Running, Exists
<1> QED BY <1>1, <1>3, <1>6, <1>7 DEF LInv

\* It gives an atom back to the pool.
LEMMA ReleaseAtomStep == ASSUME LInv, NEW a \in Slots, ReleaseAtom(a) PROVE LInv' /\ Steady
<1> USE DEF ReleaseAtom, Free
<1>1. ListsTyped'
  BY Basics DEF LInv, ListsTyped, Blank, Links
<1>2. OnePlace'
  BY PlaceRelease
<1>3. \A d \in Levels : a \notin tracked[d]
  BY DEF LInv, OnePlace, InLevel, InBatch, Things
<1>4. ASSUME NEW k \in Names, Exists(k)' PROVE Untouched(k, << >>)
  <2>1. Exists(k) /\ home[k] <= level /\ home[k] \in Levels /\ k \in tracked[home[k]]
    BY <1>4, Resting DEF Exists
  <2>2. Top(k)' = Top(k)
    BY DEF Top, Cleared, Busy
  <2>3. \A i \in 1 .. Len(Rest(k)) :
            Rest(k)[i] \in Slots /\ Rest(k)[i] \in tracked[home[k]] /\ Rest(k)[i] # a
    BY <1>3, <2>1, Resting
  <2>4. \A s \in Slots : s # a => atom'[s] = atom[s]
    BY DEF LInv, ListsTyped
  <2> QED BY <2>1, <2>2, <2>3, <2>4 DEF Untouched
<1>5. Rows' /\ Counted' /\ Standing' /\ Working' /\ Steady
  BY <1>4, Quiet
<1>6. Running'
  BY DEF LInv, Running, Exists
<1> QED BY <1>1, <1>2, <1>5, <1>6 DEF LInv

\* It takes the oldest batch.
LEMMA TakeBatchStep == ASSUME LInv, TakeBatch PROVE LInv' /\ Steady
<1> USE DEF TakeBatch, pool, memory
<1>1. ListsTyped'
  <2>1. queue \in Seq(SUBSET Things) /\ queue # << >>
    BY DEF LInv, ListsTyped
  <2>2. Head(queue) \in SUBSET Things /\ Tail(queue) \in Seq(SUBSET Things)
    BY <2>1
  <2> QED BY <2>2 DEF LInv, ListsTyped
<1>2. OnePlace'
  BY PlaceTake
<1>3. ASSUME NEW k \in Names, Exists(k)' PROVE Untouched(k, << >>)
  <2>1. Exists(k) /\ home[k] <= level
    BY <1>3, Resting DEF Exists
  <2>2. Top(k)' = Top(k)
    BY DEF Top, Cleared, Busy
  <2> QED BY <1>3, <2>1, <2>2, UntouchedBy
<1>4. Rows' /\ Counted' /\ Standing' /\ Working' /\ Steady
  BY <1>3, Quiet
<1>5. Running'
  BY DEF LInv, Running, Exists
<1> QED BY <1>1, <1>2, <1>4, <1>5 DEF LInv

\* A step that changes no row and no header, whatever else it does.
LEMMA Calm ==
    ASSUME LInv, list' = list, Whole' \subseteq Whole,
           \A k \in Names : Exists(k)' => Untouched(k, << >>)
    PROVE  Rows' /\ Counted' /\ \A k \in Names : Exists(k)' => Exists(k) /\ Rest(k)' = Rest(k)
<1>1. Rows' /\ \A k \in Names : Exists(k)' => Exists(k) /\ Rest(k)' = Rest(k)
  BY NoRow
<1>2. Counted'
  <2> SUFFICES ASSUME NEW k \in Whole' PROVE Counts(k)'
    BY DEF Counted
  <2>1. k \in Names /\ Exists(k)' /\ k \in Whole
    BY DEF Whole
  <2> QED BY <1>1, <2>1, CountsKept
<1> QED BY <1>1, <1>2

\* samm_shutdown goes on to the next scope.
LEMMA SweepScopeStep == ASSUME LInv, SweepScope PROVE LInv' /\ Steady
<1> USE DEF SweepScope, pool, memory
<1>1. /\ \A k \in Names : ~Exists(k) /\ ~Exists(k)'
      /\ cursor = NoLoop /\ level' \in -1 .. MaxDepth - 1
  BY Basics DEF LInv, Running, Exists
<1>2. ListsTyped'
  BY <1>1, Basics DEF LInv, ListsTyped
<1>3. OnePlace'
  BY PlaceSweep
<1>4. Running' /\ Rows' /\ Counted' /\ Working'
  BY <1>1 DEF LInv, Running, Rows, Counted, Whole, Working
<1>5. Standing'
  BY <1>1 DEF Standing, NoLoop
<1>6. Steady
  BY <1>1, NoneStays DEF Steady
<1> QED BY <1>6, <1>2, <1>3, <1>4, <1>5 DEF LInv

\* The program ends.
LEMMA EndStep == ASSUME LInv, End PROVE LInv' /\ Gone
<1> USE DEF End, pool, memory, samm, InProgram
<1>1. \A k \in Names : ~Exists(k)'
  BY DEF Exists
<1>2. ListsTyped'
  BY Basics DEF LInv, ListsTyped, NoLoop, Links
<1>3. OnePlace'
  BY Basics, PlaceStays DEF LInv, ListsTyped
<1>4. Running' /\ Rows' /\ Counted' /\ Working'
  BY <1>1 DEF LInv, Running, Rows, Counted, Whole, Working
<1>5. Standing'
  BY DEF Standing, NoLoop
<1>6. Gone
  BY <1>1 DEF Gone, Contents
<1> QED BY <1>6, <1>2, <1>3, <1>4, <1>5 DEF LInv

\* The pools go.
LEMMA DestroyPoolsStep == ASSUME LInv, PoolTypeOK, DestroyPools PROVE LInv' /\ out = {} /\ Steady
<1> USE DEF DestroyPools, Deinit, memory, samm
<1>1. /\ \A k \in Names : ~Exists(k) /\ ~Exists(k)'
      /\ cursor = NoLoop /\ batch = {} /\ queue = << >> /\ level = -1
  BY DEF LInv, Running, Exists
<1>2. ListsTyped'
  BY DEF LInv, ListsTyped
<1>3. \A d \in Levels : tracked[d] = {}
  BY <1>1, Basics DEF LInv, OnePlace
<1>4. \A y \in Slots : y \notin out
  BY <1>1, <1>3 DEF LInv, OnePlace, InLevel, InBatch
<1>5. OnePlace'
  <2>1. \A y \in Slots : y \in out' <=> y \in out
    BY <1>4
  <2> QED BY <1>1, <2>1 DEF LInv, OnePlace, InLevel, InBatch, InQueue
<1>6. Running' /\ Rows' /\ Counted' /\ Working'
  BY <1>1 DEF LInv, Running, Rows, Counted, Whole, Working
<1>7. Standing'
  BY <1>1 DEF Standing, NoLoop
<1>8. out = {}
  BY <1>4 DEF PoolTypeOK
<1>9. Steady
  BY <1>1, NoneStays DEF Steady
<1> QED BY <1>9, <1>2, <1>5, <1>6, <1>7, <1>8 DEF LInv

\* atomAlloc aborts the program.
LEMMA OutOfMemoryStep == ASSUME LInv, OutOfMemory PROVE LInv' /\ Steady
<1> USE DEF OutOfMemory, AllocFails, InProgram, pool, memory, samm
<1>1. \A k \in Names : ~Cleared(k) /\ ~Cleared(k)'
  BY DEF Cleared, Busy
<1>2. ListsTyped'
  BY DEF LInv, ListsTyped
<1>3. OnePlace'
  BY Basics, PlaceStays DEF LInv, ListsTyped
<1>4. ASSUME NEW k \in Names, Exists(k)' PROVE Untouched(k, << >>)
  <2>1. Exists(k) /\ home[k] <= level
    BY <1>4, Resting DEF Exists
  <2>2. Top(k)' = Top(k)
    BY <1>1 DEF Top
  <2> QED BY <1>4, <2>1, <2>2, UntouchedBy
<1>5. /\ Whole' = Whole
      /\ Rows' /\ Counted' /\ \A k \in Names : Exists(k)' => Exists(k) /\ Rest(k)' = Rest(k)
  <2>1. Whole' = Whole
    BY <1>1 DEF Whole, Exists
  <2> QED BY <1>4, <2>1, Calm
<1>6. Standing'
  <2>1. cursor.at # NULL => cursor.list \in Whole /\ Rest(cursor.list)' = Rest(cursor.list)
    BY <1>5 DEF LInv, Standing, Whole, Exists
  <2> QED BY <1>5, <2>1 DEF LInv, Standing
<1>7. Running' /\ Working'
  BY DEF LInv, Running, Working
<1>8. Steady
  <2> SUFFICES ASSUME NEW k \in Names PROVE Stays(k)
    BY DEF Steady
  <2>1. CASE Exists(k)'
    BY <1>1, <1>4, <2>1, UntouchedStays
  <2>2. CASE ~Exists(k)'
    BY <2>2, NoneStays DEF Exists
  <2> QED BY <2>1, <2>2
<1> QED BY <1>8, <1>2, <1>3, <1>5, <1>6, <1>7 DEF LInv

\* A function with a scope is called ...
LEMMA EnterScopeStep == ASSUME LInv, EnterScope PROVE LInv' /\ Steady
<1> USE DEF EnterScope, InProgram, pool, memory
<1>1. \A k \in Names : ~Cleared(k) /\ ~Cleared(k)'
  BY DEF Cleared, Busy
<1>2. level \in Levels /\ level' \in Levels /\ level' >= level
  BY Basics DEF LInv, Running
<1>3. ListsTyped'
  BY <1>2, Basics DEF LInv, ListsTyped
<1>4. OnePlace'
  BY <1>2, Basics, PlaceStays
<1>5. ASSUME NEW k \in Names, Exists(k)' PROVE Untouched(k, << >>)
  <2>1. Exists(k) /\ home[k] <= level'
    BY <1>2, <1>5, Resting, Basics DEF Exists
  <2>2. Top(k)' = Top(k)
    BY <1>1 DEF Top
  <2> QED BY <1>5, <2>1, <2>2, UntouchedBy
<1>6. /\ Whole' = Whole
      /\ Rows' /\ Counted' /\ \A k \in Names : Exists(k)' => Exists(k) /\ Rest(k)' = Rest(k)
  <2>1. Whole' = Whole
    BY <1>1 DEF Whole, Exists
  <2> QED BY <1>5, <2>1, Calm
<1>7. Standing'
  <2>1. cursor.at # NULL => cursor.list \in Whole /\ Rest(cursor.list)' = Rest(cursor.list)
    BY <1>6 DEF LInv, Standing, Whole, Exists
  <2>2. cursor.level <= level'
    BY <1>2, Basics DEF LInv, Standing, ListsTyped
  <2> QED BY <1>6, <2>1, <2>2 DEF LInv, Standing
<1>8. Running' /\ Working'
  BY <1>2 DEF LInv, Running, Working
<1>9. Steady
  <2> SUFFICES ASSUME NEW k \in Names PROVE Stays(k)
    BY DEF Steady
  <2>1. CASE Exists(k)'
    BY <1>1, <1>5, <2>1, UntouchedStays
  <2>2. CASE ~Exists(k)'
    BY <2>2, NoneStays DEF Exists
  <2> QED BY <2>1, <2>2
<1> QED BY <1>9, <1>3, <1>4, <1>6, <1>7, <1>8 DEF LInv

\* ... and returns.
LEMMA ExitScopeStep == ASSUME LInv, ExitScope PROVE LInv' /\ Gone
<1> USE DEF ExitScope, InProgram, pool, memory
<1>1. \A k \in Names : ~Cleared(k) /\ ~Cleared(k)'
  BY DEF Cleared, Busy
<1>2. level \in Levels /\ level' \in Levels /\ level' = level - 1 /\ level > 0
  BY Basics DEF LInv, Running
<1>3. ListsTyped'
  <2>1. queue' \in Seq(SUBSET Things)
    <3>1. queue \in Seq(SUBSET Things) /\ tracked[level] \in SUBSET Things
      BY <1>2 DEF LInv, ListsTyped
    <3>2. <<tracked[level]>> \in Seq(SUBSET Things)
      BY <3>1
    <3>3. queue \o <<tracked[level]>> \in Seq(SUBSET Things)
      BY <3>1, <3>2, ConcatProperties
    <3> QED BY <3>1, <3>3
  <2>2. tracked' \in [Levels -> SUBSET Things] /\ home' \in [Names -> Levels \cup {NULL}]
    BY DEF LInv, ListsTyped
  <2>3. cursor' \in [list : Names \cup {NULL}, at : Links, level : Levels]
    BY Basics DEF LInv, ListsTyped, NoLoop, Links
  <2> QED BY <1>2, <2>1, <2>2, <2>3, Basics DEF LInv, ListsTyped
<1>4. OnePlace'
  BY <1>2, PlaceExit
<1>5. ASSUME NEW k \in Names, Exists(k)'
      PROVE  Exists(k) /\ home'[k] = home[k] /\ home[k] \in Levels /\ home[k] <= level'
  <2>1. home[k] # level /\ home'[k] = home[k] /\ Exists(k)
    BY <1>5 DEF Exists
  <2> QED BY <1>2, <2>1, Resting, Basics
<1>6. ASSUME NEW k \in Names, Exists(k)' PROVE Untouched(k, << >>)
  <2>1. Top(k)' = Top(k)
    BY <1>1 DEF Top
  <2>2. tracked'[home[k]] = tracked[home[k]]
    BY <1>2, <1>5, <1>6, Basics DEF LInv, ListsTyped
  <2> QED BY <1>5, <1>6, <2>1, <2>2, UntouchedBy
<1>7. /\ Whole' \subseteq Whole
      /\ Rows' /\ Counted' /\ \A k \in Names : Exists(k)' => Exists(k) /\ Rest(k)' = Rest(k)
  <2>1. Whole' \subseteq Whole
    BY <1>1, <1>5 DEF Whole
  <2> QED BY <1>6, <2>1, Calm
<1>8. Standing'
  <2>1. CASE cursor.level = level
    BY <1>2, <2>1, Basics DEF Standing, NoLoop
  <2>2. CASE cursor.level # level
    <3>1. cursor' = cursor /\ cursor.level <= level'
      BY <1>2, <2>2, Basics DEF LInv, Standing, ListsTyped
    <3>2. PICK h, x : h = cursor.list /\ x = cursor.at
      OBVIOUS
    <3>3. ASSUME x # NULL
          PROVE  h \in Whole' /\ home'[h] <= cursor.level /\ x \in Entries(Rest(h)')
      <4>1. h \in Whole /\ home[h] <= cursor.level /\ x \in Entries(Rest(h))
        BY <3>2, <3>3 DEF LInv, Standing
      <4>2. h \in Names /\ Exists(h) /\ home[h] \in Levels
        BY <4>1, Resting DEF Whole
      <4>3. home[h] # level
        BY <1>2, <3>1, <4>1, <4>2, Basics DEF LInv, ListsTyped
      <4>4. home'[h] = home[h] /\ Exists(h)'
        BY <4>2, <4>3 DEF Exists
      <4>5. h \in Whole' /\ Rest(h)' = Rest(h)
        BY <1>1, <1>7, <4>2, <4>4 DEF Whole
      <4> QED BY <4>1, <4>4, <4>5
    <3> QED BY <3>1, <3>2, <3>3 DEF Standing
  <2> QED BY <2>1, <2>2
<1>9. Running' /\ Working'
  BY <1>2 DEF LInv, Running, Working
<1>10. Gone
  <2> SUFFICES ASSUME NEW k \in Names, Exists(k)' PROVE Stays(k)
    BY DEF Gone, Contents
  <2> QED BY <1>1, <1>6, UntouchedStays
<1> QED BY <1>10, <1>3, <1>4, <1>7, <1>8, <1>9 DEF LInv

\* A step of the program that only moves its own variables.
LEMMA ProgramMoves ==
    ASSUME LInv, UNCHANGED <<pool, memory, home, samm, mode>>,
           \A k \in Names : Top(k)' = Top(k), Whole' \subseteq Whole
    PROVE  /\ OnePlace' /\ Rows' /\ Counted'
           /\ \A k \in Names : Exists(k)' <=> Exists(k)
           /\ \A k \in Names : Exists(k) => Rest(k)' = Rest(k)
           /\ \A k \in Names : (Cleared(k)' <=> Cleared(k)) => Stays(k)
<1> USE DEF pool, memory, samm
<1>1. OnePlace'
  BY Basics, PlaceStays DEF LInv, ListsTyped
<1>2. \A k \in Names : Exists(k)' <=> Exists(k)
  BY DEF Exists
<1>3. ASSUME NEW k \in Names, Exists(k)' PROVE Untouched(k, << >>)
  <2>1. Exists(k) /\ home[k] <= level
    BY <1>3, Resting DEF Exists
  <2> QED BY <1>3, <2>1, UntouchedBy
<1>4. Rows' /\ Counted' /\ \A k \in Names : Exists(k)' => Exists(k) /\ Rest(k)' = Rest(k)
  BY <1>3, Calm
<1>5. ASSUME NEW k \in Names, Cleared(k)' <=> Cleared(k) PROVE Stays(k)
  <2>1. CASE Exists(k)'
    BY <1>3, <1>5, <2>1, UntouchedStays
  <2>2. CASE ~Exists(k)'
    BY <1>2, <2>2, NoneStays
  <2> QED BY <2>1, <2>2
<1> QED BY <1>1, <1>2, <1>4, <1>5

\* FOR EACH begins ...
LEMMA LoopBeginsStep == ASSUME LInv, NEW l \in Names, LoopBegins(l) PROVE LInv' /\ Steady
<1> USE DEF LoopBegins, InProgram
<1>0. level \in Levels /\ Exists(l) /\ ~Cleared(l) /\ UNCHANGED <<job, mode>>
  BY DEF LInv, Running, Cleared, Busy
<1>1. \A k \in Names : Top(k)' = Top(k) /\ (Cleared(k)' <=> Cleared(k))
  BY DEF Top, Cleared, Busy, memory
<1>2. Whole' = Whole
  BY <1>1 DEF Whole, Exists
<1>3. /\ OnePlace' /\ Rows' /\ Counted'
      /\ \A k \in Names : Exists(k) => Rest(k)' = Rest(k)
  BY <1>1, <1>2, ProgramMoves
<1>4. ListsTyped'
  <2>1. list[l].head \in Links
    BY DEF LInv, ListsTyped
  <2>2. cursor' \in [list : Names \cup {NULL}, at : Links, level : Levels]
    BY <1>0, <2>1
  <2> QED BY <2>2 DEF LInv, ListsTyped, pool, memory, samm
<1>5. Running' /\ Working'
  BY DEF LInv, Running, Working, Exists, samm
<1>6. Standing'
  <2>1. cursor'.list = l /\ cursor'.at = list[l].head /\ cursor'.level = level /\ level' = level
    BY DEF samm
  <2>2. l \in Whole' /\ home'[l] = home[l] /\ home[l] <= level /\ Rest(l)' = Rest(l)
    BY <1>0, <1>2, <1>3, Resting DEF Whole
  <2>3. list[l].head # NULL => list[l].head \in Entries(Rest(l))
    <3>1. Row(atom, list[l].head, Rest(l), tracked[home[l]])
      BY <1>0, Resting
    <3>2. /\ list[l].head = IF Rest(l) = << >> THEN NULL ELSE Rest(l)[1]
          /\ Rest(l) # << >> => 1 \in 1 .. Len(Rest(l))
      BY <3>1, RowFacts
    <3> QED BY <3>2 DEF Entries
  <2>4. level <= level
    BY <1>0, Basics
  <2> QED BY <2>1, <2>2, <2>3, <2>4 DEF Standing
<1>7. Steady
  BY <1>1, <1>2, ProgramMoves DEF Steady
<1> QED BY <1>7, <1>3, <1>4, <1>5, <1>6 DEF LInv

\* ... goes on to the next element ...
LEMMA LoopNextStep == ASSUME LInv, LoopNext PROVE LInv' /\ Steady
<1> USE DEF LoopNext, InProgram
<1>1. \A k \in Names : Top(k)' = Top(k) /\ (Cleared(k)' <=> Cleared(k))
  BY DEF Top, Cleared, Busy, memory
<1>2. Whole' = Whole
  BY <1>1 DEF Whole, Exists
<1>3. /\ OnePlace' /\ Rows' /\ Counted'
      /\ \A k \in Names : Exists(k) => Rest(k)' = Rest(k)
  BY <1>1, <1>2, ProgramMoves
<1>4. PICK h : h = cursor.list
  OBVIOUS
<1>5. h \in Whole /\ h \in Names /\ Exists(h) /\ home[h] <= cursor.level
      /\ cursor.at \in Entries(Rest(h))
  BY <1>4 DEF LInv, Standing, Whole
<1>6. PICK i \in 1 .. Len(Rest(h)) : cursor.at = Rest(h)[i]
  BY <1>5 DEF Entries
<1>7. /\ cursor.at \in Slots
      /\ atom[cursor.at].next = IF i = Len(Rest(h)) THEN NULL ELSE Rest(h)[i + 1]
      /\ Len(Rest(h)) \in Nat
  <2>1. Row(atom, Top(h), Rest(h), tracked[home[h]])
    BY <1>5, Resting
  <2> QED BY <1>6, <2>1, RowFacts
<1>8. /\ cursor'.list = h /\ cursor'.level = cursor.level
      /\ cursor'.at = atom[cursor.at].next
  BY <1>4 DEF LInv, ListsTyped
<1>9. ListsTyped'
  <2>1. atom[cursor.at].next \in Links
    BY <1>7 DEF LInv, ListsTyped
  <2>2. cursor' \in [list : Names \cup {NULL}, at : Links, level : Levels]
    BY <2>1 DEF LInv, ListsTyped
  <2> QED BY <2>2 DEF LInv, ListsTyped, pool, memory, samm
<1>10. Running' /\ Working'
  BY DEF LInv, Running, Working, Exists, samm
<1>11. Standing'
  <2>1. atom[cursor.at].next # NULL => atom[cursor.at].next \in Entries(Rest(h))
    BY <1>7 DEF Entries
  <2>2. Rest(h)' = Rest(h) /\ h \in Whole' /\ home' = home /\ level' = level
    BY <1>2, <1>3, <1>5 DEF samm
  <2>3. mode' = "run" => cursor.level <= level
    BY DEF LInv, Standing
  <2> QED BY <1>5, <1>8, <2>1, <2>2, <2>3 DEF Standing
<1>12. Steady
  BY <1>1, <1>2, ProgramMoves DEF Steady
<1> QED BY <1>12, <1>3, <1>9, <1>10, <1>11 DEF LInv

\* ... and ends.
LEMMA LoopEndsStep == ASSUME LInv, LoopEnds PROVE LInv' /\ Steady
<1> USE DEF LoopEnds, InProgram
<1>1. \A k \in Names : Top(k)' = Top(k) /\ (Cleared(k)' <=> Cleared(k))
  BY DEF Top, Cleared, Busy, memory
<1>2. Whole' = Whole
  BY <1>1 DEF Whole, Exists
<1>3. OnePlace' /\ Rows' /\ Counted'
  BY <1>1, <1>2, ProgramMoves
<1>4. ListsTyped'
  BY Basics DEF LInv, ListsTyped, NoLoop, Links, pool, memory, samm
<1>5. Running' /\ Working'
  BY DEF LInv, Running, Working, Exists, samm
<1>6. Standing'
  <2>1. level' \in Levels
    BY DEF LInv, Running, samm
  <2> QED BY <2>1, Basics DEF Standing, NoLoop
<1>7. Steady
  BY <1>1, <1>2, ProgramMoves DEF Steady
<1> QED BY <1>7, <1>3, <1>4, <1>5, <1>6 DEF LInv

\* A COPY or REVERSE is done.
LEMMA CopyEndsStep == ASSUME LInv, CopyEnds PROVE LInv' /\ Steady
<1> USE DEF CopyEnds, Busy, Idle
<1>1. \A k \in Names : Top(k)' = Top(k) /\ ~Cleared(k)' /\ ~Cleared(k)
  BY DEF Top, Cleared, memory
<1>2. Whole' = Whole
  BY <1>1 DEF Whole, Exists
<1>3. /\ OnePlace' /\ Rows' /\ Counted'
      /\ \A k \in Names : Exists(k) => Rest(k)' = Rest(k)
  BY <1>1, <1>2, ProgramMoves
<1>4. ListsTyped'
  <2>1. job' \in [op : {"none", "clear", "copy", "reverse"},
                  list : Names \cup {NULL}, at : Links, into : Names \cup {NULL}]
    BY DEF Links
  <2> QED BY <2>1 DEF LInv, ListsTyped, pool, memory, samm
<1>5. Running' /\ Working'
  BY DEF LInv, Running, Working, Exists, samm
<1>6. Standing'
  <2>1. cursor.at # NULL => cursor.list \in Whole /\ Rest(cursor.list)' = Rest(cursor.list)
    BY <1>3 DEF LInv, Standing, Whole
  <2> QED BY <1>2, <2>1 DEF LInv, Standing, samm
<1>7. Steady
  BY <1>1, <1>2, ProgramMoves DEF Steady
<1> QED BY <1>7, <1>3, <1>4, <1>5, <1>6 DEF LInv

\* CLEAR begins: no FOR EACH stands in the list.
LEMMA ClearBeginsStep == ASSUME LInv, NEW l \in Names, ClearBegins(l) PROVE LInv' /\ Moves(l)
<1> USE DEF ClearBegins, InProgram, Idle
<1>0. Exists(l) /\ job'.op = "clear" /\ job'.list = l /\ job'.at = list[l].head
      /\ mode' = "run" /\ \A k \in Names : ~Cleared(k)
  BY DEF Cleared, Busy
<1>1. \A k \in Names : Top(k)' = Top(k) /\ (Cleared(k)' <=> k = l)
  BY <1>0 DEF Top, Cleared, Busy, memory
<1>2. Whole' = Whole \ {l}
  BY <1>0, <1>1 DEF Whole, Exists
<1>3. /\ OnePlace' /\ Rows' /\ Counted'
      /\ \A k \in Names : Exists(k) => Rest(k)' = Rest(k)
  BY <1>1, <1>2, ProgramMoves
<1>4. ListsTyped'
  <2>1. list[l].head \in Links
    BY DEF LInv, ListsTyped
  <2>2. job' \in [op : {"none", "clear", "copy", "reverse"},
                  list : Names \cup {NULL}, at : Links, into : Names \cup {NULL}]
    BY <2>1
  <2> QED BY <2>2 DEF LInv, ListsTyped, pool, memory, samm
<1>5. Running' /\ Working'
  BY <1>0 DEF LInv, Running, Working, Exists, samm
<1>6. Standing'
  <2>1. cursor.at # NULL =>
            /\ cursor.list \in Whole /\ Rest(cursor.list)' = Rest(cursor.list)
            /\ cursor.list # l
    <3>1. Atoms(l) = Entries(Rest(l))
      BY <1>0, Resting DEF Atoms, ToSet, Entries
    <3> QED BY <1>3, <3>1 DEF LInv, Standing, Whole
  <2> QED BY <1>2, <2>1 DEF LInv, Standing, samm
<1>7. Moves(l)
  <2>1. \A k \in Names \ {l} : Stays(k)
    BY <1>0, <1>1, <1>2, ProgramMoves
  <2>2. Contents(l) # NULL
    BY <1>0, ContentsAre
  <2>3. Contents(l)' = << >>
    BY <1>0, <1>1 DEF Contents, Exists
  <2>4. << >> # NULL
    <3>1. << >> \in Seq(Values)
      OBVIOUS
    <3> QED BY <3>1, ListsAssumption
  <2> QED BY <2>1, <2>2, <2>3, <2>4 DEF Moves, Seqs!Becomes
<1> QED BY <1>7, <1>3, <1>4, <1>5, <1>6 DEF LInv

\* CLEAR ends: the list is empty.
LEMMA ClearEndsStep == ASSUME LInv, ClearEnds PROVE LInv' /\ Steady
<1> USE DEF ClearEnds, Busy, Idle
<1>0. PICK l \in Names : l = job.list
  BY DEF LInv, Working
<1>1. /\ Exists(l) /\ Cleared(l) /\ \A k \in Names \ {l} : ~Cleared(k)
      /\ \A k \in Names : ~Cleared(k)'
  BY <1>0 DEF Cleared, LInv, Working
<1>2. list' = [list EXCEPT ![l] = Empty] /\ list'[l] = Empty /\ DOMAIN list = Names
  BY <1>0 DEF LInv, ListsTyped
<1>3. \A k \in Names : Top(k)' = Top(k)
  BY <1>0, <1>1, <1>2 DEF Top, Empty
<1>4. ListsTyped'
  <2>1. Empty \in [head : Links, tail : Links, length : Nat]
    BY DEF Empty, Links
  <2>2. list' \in [Names -> [head : Links, tail : Links, length : Nat]]
    BY <1>2, <2>1 DEF LInv, ListsTyped
  <2>3. job' \in [op : {"none", "clear", "copy", "reverse"},
                  list : Names \cup {NULL}, at : Links, into : Names \cup {NULL}]
    BY DEF Links
  <2>4. UNCHANGED <<atom, home, level, tracked, queue, batch, cursor, mode>>
    BY DEF samm
  <2> QED BY <2>2, <2>3, <2>4 DEF LInv, ListsTyped
<1>5. OnePlace'
  BY Basics, PlaceStays DEF LInv, ListsTyped, samm, pool
<1>6. ASSUME NEW k \in Names, Exists(k)' PROVE Untouched(k, << >>)
  <2>1. Exists(k) /\ home[k] <= level
    BY <1>6, Resting DEF Exists
  <2> QED BY <1>3, <1>6, <2>1, UntouchedBy DEF samm
<1>7. Rows' /\ \A k \in Names : Exists(k)' => Exists(k) /\ Rest(k)' = Rest(k)
  BY <1>6, NoRow
<1>11. Rest(l) = << >>
  <2>1. Row(atom, Top(l), Rest(l), tracked[home[l]]) /\ Top(l) = NULL
    BY <1>0, <1>1, Resting DEF Top
  <2>2. \A i \in 1 .. Len(Rest(l)) : Rest(l)[i] \in Slots
    BY <1>1, Resting
  <2> QED BY <2>1, <2>2, RowFacts, Basics
<1>8. Counted'
  <2> SUFFICES ASSUME NEW k \in Whole' PROVE Counts(k)'
    BY DEF Counted
  <2>1. k \in Names /\ Exists(k)' /\ Exists(k) /\ Rest(k)' = Rest(k)
    BY <1>7 DEF Whole
  <2>2. CASE k # l
    BY <1>1, <1>2, <2>1, <2>2, CountsKept DEF Whole
  <2>3. CASE k = l
    BY <1>2, <1>11, <2>1, <2>3 DEF Counts, Empty
  <2> QED BY <2>2, <2>3
<1>9. Running' /\ Working'
  BY DEF LInv, Running, Working, Exists, samm
<1>10. Standing'
  <2>1. cursor.at # NULL =>
            /\ cursor.list \in Names /\ Exists(cursor.list) /\ cursor.list \in Whole'
            /\ Rest(cursor.list)' = Rest(cursor.list)
    BY <1>1, <1>7 DEF LInv, Standing, Whole, Exists
  <2> QED BY <2>1 DEF LInv, Standing, samm
<1>12. Steady
  <2> SUFFICES ASSUME NEW k \in Names PROVE Stays(k)
    BY DEF Steady
  <2>1. CASE ~Exists(k)'
    BY <2>1, NoneStays DEF Exists
  <2>2. CASE Exists(k)' /\ k # l
    BY <1>1, <1>6, <2>2, UntouchedStays
  <2>3. CASE Exists(k)' /\ k = l
    <3>1. Contents(l) = << >>
      BY <1>1 DEF Contents
    <3>2. Rest(l)' = << >>
      BY <1>7, <1>11, <2>3
    <3>3. Contents(l)' = << >>
      BY <1>1, <2>3, <3>2, ContentsThen
    <3> QED BY <2>3, <3>1, <3>3 DEF Stays
  <2> QED BY <2>1, <2>2, <2>3
<1> QED BY <1>12, <1>4, <1>5, <1>7, <1>8, <1>9, <1>10 DEF LInv

-----------------------------------------------------------------------------
\* What samm_track of a new atom of the innermost level leaves for the others.
LEMMA TrackNew ==
    ASSUME LInv, Shape, NEW s \in Slots, Alloc(s), level \in Levels, Track(s),
           UNCHANGED <<queue, batch, level>>
    PROVE  /\ s \notin out /\ OnePlace' /\ tracked' \in [Levels -> SUBSET Things]
           /\ tracked' = [tracked EXCEPT ![level] = @ \cup {s}]
<1>1. s \notin out /\ out' = out \cup {s} /\ s \in Things
  BY AllocFacts DEF Things
<1>2. tracked' = [tracked EXCEPT ![level] = @ \cup {s}]
  BY DEF Track
<1>3. /\ \A d \in Levels : s \notin tracked[d]
      /\ s \notin batch /\ \A i \in DOMAIN queue : s \notin queue[i]
  BY <1>1 DEF LInv, OnePlace, InLevel, InBatch, InQueue
<1>4. OnePlace'
  BY <1>1, <1>2, <1>3, PlaceTrack
<1>5. tracked' \in [Levels -> SUBSET Things]
  BY <1>1, <1>2 DEF LInv, ListsTyped
<1> QED BY <1>1, <1>2, <1>4, <1>5

\* What LinkLast and LinkFirst keep of the types.
LEMMA LinkTyped ==
    ASSUME LInv, NEW l \in Names, NEW s \in Slots, NEW v \in Values,
           LinkLast(l, s, v) \/ LinkFirst(l, s, v)
    PROVE  /\ atom' \in [Slots -> [value : Values \cup {NULL}, next : Links]]
           /\ list' \in [Names -> [head : Links, tail : Links, length : Nat]]
<1>0. /\ atom \in [Slots -> [value : Values \cup {NULL}, next : Links]]
      /\ list \in [Names -> [head : Links, tail : Links, length : Nat]]
      /\ list[l].head \in Links /\ list[l].tail \in Links /\ list[l].length \in Nat
      /\ s \in Links /\ NULL \in Links
  BY DEF LInv, ListsTyped, Links
<1>1. CASE LinkLast(l, s, v)
  <2>1. [value |-> v, next |-> NULL] \in [value : Values \cup {NULL}, next : Links]
    BY <1>0
  <2>2. [atom EXCEPT ![s] = [value |-> v, next |-> NULL]]
            \in [Slots -> [value : Values \cup {NULL}, next : Links]]
    BY <1>0, <2>1
  <2>3. list[l].tail # NULL => list[l].tail \in Slots
    BY <1>0 DEF Links
  <2> DEFINE a == [atom EXCEPT ![s] = [value |-> v, next |-> NULL]]
  <2>4. atom' = IF list[l].tail = NULL THEN a ELSE [a EXCEPT ![list[l].tail].next = s]
    BY <1>1 DEF LinkLast
  <2> HIDE DEF a
  <2>5. a \in [Slots -> [value : Values \cup {NULL}, next : Links]]
    BY <2>2 DEF a
  <2>6. atom' \in [Slots -> [value : Values \cup {NULL}, next : Links]]
    BY <1>0, <2>3, <2>4, <2>5
  <2>7. list' \in [Names -> [head : Links, tail : Links, length : Nat]]
    BY <1>0, <1>1 DEF LinkLast
  <2> QED BY <2>6, <2>7
<1>2. CASE LinkFirst(l, s, v)
  BY <1>0, <1>2 DEF LinkFirst
<1> QED BY <1>1, <1>2

\* APPEND and PREPEND, or one turn of a COPY or a REVERSE: what was counted is.
LEMMA LinkCounted ==
    ASSUME LInv, NEW l \in Names, Exists(l), home' = home, NEW s \in Slots,
           \A k \in Names : ~Cleared(k) /\ ~Cleared(k)',
           \A k \in Names \ {l} : Exists(k)' => Exists(k) /\ Rest(k)' = Rest(k),
           \A k \in Names \ {l} : list'[k] = list[k],
           list'[l].length = list[l].length + 1,
           \/ Rest(l)' = Append(Rest(l), s) /\ list'[l].tail = s
           \/ /\ Rest(l)' = <<s>> \o Rest(l)
              /\ list'[l].tail = (IF Rest(l) = << >> THEN s ELSE list[l].tail)
    PROVE  Counted' /\ Whole' = Whole /\ Entries(Rest(l)) \subseteq Entries(Rest(l)')
<1>1. Whole' = Whole /\ l \in Whole
  BY DEF Whole, Exists
<1>2. /\ Rest(l) \in Seq(Slots) /\ Len(Rest(l)) \in Nat /\ list[l].length = Len(Rest(l))
      /\ list[l].tail = IF Rest(l) = << >> THEN NULL ELSE Rest(l)[Len(Rest(l))]
      /\ Rest(l) # << >> <=> Len(Rest(l)) > 0
  <2>1. Rest(l) \in Seq(Slots)
    BY Resting
  <2> QED BY <1>1, <2>1 DEF LInv, Counted, Counts
<1>3. PICK c : c = Rest(l)
  OBVIOUS
<1>4. Counts(l)' /\ Entries(c) \subseteq Entries(Rest(l)')
  <2>1. CASE Rest(l)' = Append(Rest(l), s) /\ list'[l].tail = s
    <3>1. /\ Len(Append(c, s)) = Len(c) + 1 /\ Append(c, s)[Len(c) + 1] = s
          /\ Append(c, s) # << >> /\ \A i \in 1 .. Len(c) : Append(c, s)[i] = c[i]
          /\ 1 .. Len(c) \subseteq 1 .. Len(c) + 1
      <4>1. c \in Seq(Slots) /\ Len(c) \in Nat
        BY <1>2, <1>3
      <4>2. /\ Len(Append(c, s)) = Len(c) + 1 /\ Append(c, s)[Len(c) + 1] = s
            /\ Append(c, s) # << >> /\ \A i \in 1 .. Len(c) : Append(c, s)[i] = c[i]
        BY <4>1, AppendProperties
      <4> QED BY <4>1, <4>2
    <3>2. Entries(c) \subseteq Entries(Append(c, s))
      BY <3>1 DEF Entries
    <3> QED BY <1>2, <1>3, <2>1, <3>1, <3>2 DEF Counts
  <2>2. CASE /\ Rest(l)' = <<s>> \o Rest(l)
             /\ list'[l].tail = (IF Rest(l) = << >> THEN s ELSE list[l].tail)
    <3>1. /\ Len(<<s>> \o c) = Len(c) + 1 /\ (<<s>> \o c)[1] = s /\ <<s>> \o c # << >>
          /\ \A i \in 1 .. Len(c) : (<<s>> \o c)[i + 1] = c[i] /\ i + 1 \in 1 .. Len(c) + 1
      BY <1>2, <1>3
    <3>2. Entries(c) \subseteq Entries(<<s>> \o c)
      BY <3>1 DEF Entries
    <3>3. (<<s>> \o c)[Len(c) + 1] = IF c = << >> THEN s ELSE c[Len(c)]
      BY <1>2, <1>3, <3>1
    <3>4. list'[l].tail = (<<s>> \o c)[Len(c) + 1]
      BY <1>2, <1>3, <2>2, <3>3
    <3> QED BY <1>2, <1>3, <2>2, <3>1, <3>2, <3>4 DEF Counts
  <2> QED BY <2>1, <2>2
<1>5. ASSUME NEW k \in Whole, k # l PROVE Counts(k)'
  <2>1. k \in Names /\ Exists(k)'
    BY <1>5 DEF Whole, Exists
  <2> QED BY <1>5, <2>1, CountsKept
<1> QED BY <1>1, <1>3, <1>4, <1>5 DEF Counted

\* An atom at which a FOR EACH stands stays in its list.
LEMMA StandingKept ==
    ASSUME LInv, UNCHANGED <<home, level, cursor, mode>>, NEW l \in Names,
           \A k \in Whole : k \in Whole',
           \A k \in Names \ {l} : Exists(k)' => Exists(k) /\ Rest(k)' = Rest(k),
           cursor.at # NULL /\ cursor.list = l => cursor.at \in Entries(Rest(l)')
    PROVE  Standing'
<1>1. PICK h, x : h = cursor.list /\ x = cursor.at
  OBVIOUS
<1>2. ASSUME x # NULL PROVE h \in Whole' /\ home'[h] <= cursor.level /\ x \in Entries(Rest(h)')
  <2>1. h \in Whole /\ home[h] <= cursor.level /\ x \in Entries(Rest(h))
    BY <1>1, <1>2 DEF LInv, Standing
  <2>2. h \in Names /\ Exists(h)'
    BY <2>1 DEF Whole, Exists
  <2> QED BY <1>1, <1>2, <2>1, <2>2
<1> QED BY <1>1, <1>2 DEF LInv, Standing

\* APPEND.
LEMMA ListAppendStep ==
    ASSUME LInv, Shape, ~MethodAdds, NEW l \in Names, NEW v \in Values, ListAppend(l, v)
    PROVE  LInv' /\ Moves(l) /\ Contents(l)' = Append(Contents(l), v)
<1> USE DEF ListAppend, InProgram
<1>1. PICK s \in Slots : Alloc(s) /\ LinkLast(l, s, v) /\ Track(s)
  OBVIOUS
<1>2. /\ Exists(l) /\ home[l] = level /\ level \in Levels
      /\ \A k \in Names : ~Cleared(k) /\ ~Cleared(k)'
  BY DEF MayAdd, LInv, Running, Cleared, Busy
<1>3. /\ s \notin out /\ OnePlace' /\ tracked' \in [Levels -> SUBSET Things]
      /\ tracked' = [tracked EXCEPT ![level] = @ \cup {s}]
  BY <1>1, <1>2, TrackNew
<1>4. /\ Rows' /\ Rest(l)' = Append(Rest(l), s)
      /\ \A k \in Names \ {l} : Exists(k)' => Exists(k) /\ Rest(k)' = Rest(k)
      /\ list'[l].tail = s /\ list'[l].length = list[l].length + 1
      /\ \A k \in Names \ {l} : list'[k] = list[k]
      /\ atom'[s].value = v /\ \A x \in Slots \ {s} : atom'[x].value = atom[x].value
  BY <1>1, <1>2, <1>3, LastLinked
<1>5. ListsTyped'
  BY <1>1, <1>3, LinkTyped DEF LInv, ListsTyped
<1>6. Counted' /\ Whole' = Whole /\ Entries(Rest(l)) \subseteq Entries(Rest(l)')
  BY <1>1, <1>2, <1>4, LinkCounted
<1>7. Standing'
  <2>1. cursor.at # NULL /\ cursor.list = l => cursor.at \in Entries(Rest(l)')
    BY <1>6 DEF LInv, Standing
  <2> QED BY <1>4, <1>6, <2>1, StandingKept
<1>8. Running' /\ Working'
  BY DEF LInv, Running, Working, Exists
<1>9. /\ Moves(l) /\ Contents(l) \in Seq(Values)
      /\ Contents(l)' = Contents(l) \o <<atom'[s].value>>
  BY <1>1, <1>2, <1>3, <1>4, OneMore
<1>10. Contents(l)' = Append(Contents(l), v)
  <2>1. PICK u : u = Contents(l)
    OBVIOUS
  <2>2. Append(u, v) = u \o <<v>>
    BY <1>9, <2>1, AppendIsConcat
  <2> QED BY <1>4, <1>9, <2>1, <2>2, Zenon
<1> QED BY <1>9, <1>10, <1>3, <1>4, <1>5, <1>6, <1>7, <1>8 DEF LInv

\* PREPEND.
LEMMA ListPrependStep ==
    ASSUME LInv, Shape, ~MethodAdds, NEW l \in Names, NEW v \in Values, ListPrepend(l, v)
    PROVE  LInv' /\ Moves(l) /\ Contents(l)' = <<v>> \o Contents(l)
<1> USE DEF ListPrepend, InProgram
<1>1. PICK s \in Slots : Alloc(s) /\ LinkFirst(l, s, v) /\ Track(s)
  OBVIOUS
<1>2. /\ Exists(l) /\ home[l] = level /\ level \in Levels
      /\ \A k \in Names : ~Cleared(k) /\ ~Cleared(k)'
  BY DEF MayAdd, LInv, Running, Cleared, Busy
<1>3. /\ s \notin out /\ OnePlace' /\ tracked' \in [Levels -> SUBSET Things]
      /\ tracked' = [tracked EXCEPT ![level] = @ \cup {s}]
  BY <1>1, <1>2, TrackNew
<1>4. /\ Rows' /\ Rest(l)' = <<s>> \o Rest(l)
      /\ \A k \in Names \ {l} : Exists(k)' => Exists(k) /\ Rest(k)' = Rest(k)
      /\ list'[l].tail = (IF Rest(l) = << >> THEN s ELSE list[l].tail)
      /\ list'[l].length = list[l].length + 1
      /\ \A k \in Names \ {l} : list'[k] = list[k]
      /\ atom'[s].value = v /\ \A x \in Slots \ {s} : atom'[x].value = atom[x].value
  BY <1>1, <1>2, <1>3, FirstLinked
<1>5. ListsTyped'
  BY <1>1, <1>3, LinkTyped DEF LInv, ListsTyped
<1>6. Counted' /\ Whole' = Whole /\ Entries(Rest(l)) \subseteq Entries(Rest(l)')
  BY <1>1, <1>2, <1>4, LinkCounted
<1>7. Standing'
  <2>1. cursor.at # NULL /\ cursor.list = l => cursor.at \in Entries(Rest(l)')
    BY <1>6 DEF LInv, Standing
  <2> QED BY <1>4, <1>6, <2>1, StandingKept
<1>8. Running' /\ Working'
  BY DEF LInv, Running, Working, Exists
<1>9. /\ Moves(l) /\ Contents(l) \in Seq(Values)
      /\ Contents(l)' = <<atom'[s].value>> \o Contents(l)
  BY <1>1, <1>2, <1>3, <1>4, OneMore
<1>10. Contents(l)' = <<v>> \o Contents(l)
  BY <1>4, <1>9, Zenon
<1> QED BY <1>9, <1>10, <1>3, <1>4, <1>5, <1>6, <1>7, <1>8 DEF LInv

-----------------------------------------------------------------------------
\* A list without an atom.
LEMMA EmptyRow == ASSUME NEW m, NEW T PROVE Row(m, NULL, << >>, T)
<1>1. Len(<< >>) = 0 /\ 1 .. 0 = {} /\ << >> \in Seq(Slots)
  OBVIOUS
<1> QED BY <1>1 DEF Row, Linked, Once

\* DIM, or the beginning of a COPY: a list without an atom.
LEMMA NewList ==
    ASSUME LInv, NEW l \in Names, ~Exists(l), level \in Levels, l \notin Pending,
           \A d \in Levels : l \notin tracked[d],
           list' = [list EXCEPT ![l] = Empty], home' = [home EXCEPT ![l] = level], Track(l),
           UNCHANGED <<pool, atom, level, queue, batch, cursor, mode>>,
           \A k \in Names : ~Cleared(k) /\ ~Cleared(k)'
    PROVE  /\ OnePlace' /\ Rows' /\ Counted' /\ Standing' /\ Rest(l)' = << >>
           /\ home'[l] = level /\ Exists(l)'
           /\ \A k \in Names \ {l} : (Exists(k)' <=> Exists(k)) /\ (Exists(k) => Rest(k)' = Rest(k))
           /\ list' \in [Names -> [head : Links, tail : Links, length : Nat]]
           /\ home' \in [Names -> Levels \cup {NULL}]
           /\ tracked' \in [Levels -> SUBSET Things]
           /\ \A k \in Names \ {l} : list'[k] = list[k]
           /\ Moves(l)
<1>0. l \in Things /\ l \notin Slots /\ tracked' = [tracked EXCEPT ![level] = @ \cup {l}]
      /\ tracked \in [Levels -> SUBSET Things] /\ list'[l] = Empty
      /\ home'[l] = level /\ \A k \in Names \ {l} : home'[k] = home[k] /\ list'[k] = list[k]
  BY Basics DEF Things, Track, LInv, ListsTyped
<1>1. list' \in [Names -> [head : Links, tail : Links, length : Nat]]
  <2>1. Empty \in [head : Links, tail : Links, length : Nat]
    BY DEF Empty, Links
  <2> QED BY <2>1 DEF LInv, ListsTyped
<1>2. home' \in [Names -> Levels \cup {NULL}] /\ tracked' \in [Levels -> SUBSET Things]
  BY <1>0 DEF LInv, ListsTyped
<1>3. OnePlace'
  <2>1. l \notin batch /\ \A i \in DOMAIN queue : l \notin queue[i]
    BY DEF Pending, ToSet
  <2>2. \A y \in Slots : y \in out' <=> y \in out \/ y = l
    BY <1>0 DEF pool
  <2> QED BY <1>0, <2>1, <2>2, PlaceTrack
<1>4. Exists(l)' /\ \A k \in Names \ {l} : Exists(k)' <=> Exists(k)
  BY <1>0, Basics DEF Exists
<1>5. Row(atom', Top(l)', << >>, tracked'[home'[l]])
  <2>1. Top(l)' = NULL
    BY <1>0 DEF Top, Empty
  <2> QED BY <2>1, EmptyRow
<1>6. l \in tracked'[home'[l]] /\ home'[l] <= level'
  BY <1>0, Basics
<1>7. ASSUME NEW k \in Names \ {l}, Exists(k)' PROVE Untouched(k, << >>)
  <2>1. /\ Exists(k) /\ home'[k] = home[k] /\ home[k] <= level' /\ Top(k)' = Top(k)
        /\ home[k] \in Levels
    BY <1>0, <1>4, <1>7, Resting DEF Top
  <2>2. tracked[home[k]] \subseteq tracked'[home[k]]
    BY <1>0, <2>1
  <2> QED BY <2>1, <2>2, Resting DEF Untouched
<1>8. Rows' /\ Rest(l)' = << >>
      /\ \A k \in Names \ {l} : Exists(k)' => Exists(k) /\ Rest(k)' = Rest(k)
  <2>1. PICK c : c = << >>
    OBVIOUS
  <2> QED BY <1>4, <1>5, <1>6, <1>7, <2>1, OneRow
<1>9. Whole' = Whole \cup {l} /\ l \notin Whole
  BY <1>4 DEF Whole
<1>10. Counted'
  <2> SUFFICES ASSUME NEW k \in Whole' PROVE Counts(k)'
    BY DEF Counted
  <2>1. k \in Names /\ (k # l => k \in Whole)
    BY <1>9 DEF Whole
  <2>2. CASE k = l
    BY <1>0, <1>8, <2>2 DEF Counts, Empty
  <2>3. CASE k # l
    BY <1>0, <1>4, <1>8, <2>1, <2>3, CountsKept DEF Whole
  <2> QED BY <2>2, <2>3
<1>11. Standing'
  <2>1. PICK h, x : h = cursor.list /\ x = cursor.at
    OBVIOUS
  <2>2. ASSUME x # NULL
        PROVE  h \in Whole' /\ home'[h] <= cursor.level /\ x \in Entries(Rest(h)')
    <3>1. h \in Whole /\ home[h] <= cursor.level /\ x \in Entries(Rest(h))
      BY <2>1, <2>2 DEF LInv, Standing
    <3>2. h \in Names \ {l} /\ Exists(h)
      BY <1>9, <3>1 DEF Whole
    <3> QED BY <1>0, <1>4, <1>8, <1>9, <3>1, <3>2
  <2> QED BY <2>1, <2>2 DEF LInv, Standing
<1>12. Moves(l)
  <2>1. ASSUME NEW k \in Names \ {l} PROVE Stays(k)
    <3>1. CASE Exists(k)'
      BY <1>7, <3>1, UntouchedStays
    <3>2. CASE ~Exists(k)'
      BY <1>4, <3>2, NoneStays
    <3> QED BY <3>1, <3>2
  <2>2. Contents(l) = NULL
    BY DEF Contents
  <2>3. Contents(l)' = << >>
    BY <1>4, <1>8, ContentsThen
  <2> QED BY <2>1, <2>2, <2>3 DEF Moves, Seqs!Becomes
<1> QED BY <1>12, <1>0, <1>1, <1>2, <1>3, <1>4, <1>8, <1>10, <1>11

\* DIM.
LEMMA CreateStep == ASSUME LInv, NEW l \in Names, Create(l) PROVE LInv' /\ Moves(l)
<1> USE DEF Create, InProgram
<1>1. level \in Levels /\ \A k \in Names : ~Cleared(k) /\ ~Cleared(k)'
  BY DEF LInv, Running, Cleared, Busy
<1>2. /\ OnePlace' /\ Rows' /\ Counted' /\ Standing'
      /\ list' \in [Names -> [head : Links, tail : Links, length : Nat]]
      /\ home' \in [Names -> Levels \cup {NULL}]
      /\ tracked' \in [Levels -> SUBSET Things] /\ Moves(l)
  BY <1>1, NewList
<1>3. ListsTyped'
  BY <1>2 DEF LInv, ListsTyped
<1>4. Running' /\ Working'
  BY <1>1 DEF Running, Working
<1> QED BY <1>2, <1>3, <1>4 DEF LInv

\* A COPY or REVERSE begins.
LEMMA CopyBeginsStep ==
    ASSUME LInv, NEW l \in Names, NEW k \in Names, NEW op \in {"copy", "reverse"},
           CopyBegins(l, k, op)
    PROVE  LInv' /\ Moves(k)
<1> USE DEF CopyBegins, InProgram
<1>1. level \in Levels /\ \A h \in Names : ~Cleared(h) /\ ~Cleared(h)'
  BY DEF LInv, Running, Cleared, Busy
<1>2. /\ OnePlace' /\ Rows' /\ Counted' /\ Standing' /\ Rest(k)' = << >>
      /\ home'[k] = level /\ Exists(k)'
      /\ \A h \in Names \ {k} : (Exists(h)' <=> Exists(h)) /\ (Exists(h) => Rest(h)' = Rest(h))
      /\ list' \in [Names -> [head : Links, tail : Links, length : Nat]]
      /\ home' \in [Names -> Levels \cup {NULL}]
      /\ tracked' \in [Levels -> SUBSET Things] /\ Moves(k)
  BY <1>1, NewList
<1>3. ListsTyped'
  <2>1. list[l].head \in Links
    BY DEF LInv, ListsTyped
  <2>2. job' \in [op : {"none", "clear", "copy", "reverse"},
                  list : Names \cup {NULL}, at : Links, into : Names \cup {NULL}]
    BY <2>1
  <2> QED BY <1>2, <2>2 DEF LInv, ListsTyped
<1>4. Running'
  BY <1>1 DEF Running
<1>5. Working'
  <2>1. /\ job'.op = op /\ job'.list = l /\ job'.into = k /\ job'.at = list[l].head
        /\ l # k /\ Exists(l)' /\ Rest(l)' = Rest(l) /\ level' = level
    BY <1>2
  <2>2. /\ list[l].head = IF Rest(l) = << >> THEN NULL ELSE Rest(l)[1]
        /\ Len(Rest(l)) \in Nat /\ Rest(l) # << >> <=> Len(Rest(l)) > 0
    <3>1. Row(atom, list[l].head, Rest(l), tracked[home[l]])
      BY <1>1, Resting
    <3> QED BY <3>1, RowFacts
  <2>3. Len(Rest(k)') = 0
    BY <1>2
  <2>4. Copied(l, k)'
    BY <1>2, <2>1, <2>2, <2>3 DEF Copied
  <2> QED BY <1>2, <2>1, <2>4 DEF Working
<1> QED BY <1>2, <1>3, <1>4, <1>5 DEF LInv

\* The values f of the atoms of d are those of the first atoms of c, in their
\* order or in the opposite one.
Agree(f, c, d, op) ==
    \A i \in 1 .. Len(d) : f[d[i]] = f[c[IF op = "copy" THEN i ELSE Len(d) + 1 - i]]

\* The row e is d with the atom s.
Adjoins(d, e, s, op) == e = IF op = "copy" THEN Append(d, s) ELSE <<s>> \o d

\* The values g are the values f, but for the one of s, which is that of a.
Updated(f, g, s, a) == g[s] = f[a] /\ \A x \in Slots : x # s => g[x] = f[x]

\* A row with one more atom, at the end and at the front.
LEMMA Adjoined ==
    ASSUME NEW d \in Seq(Slots), NEW s \in Slots
    PROVE  /\ Len(Append(d, s)) = Len(d) + 1 /\ Append(d, s)[Len(d) + 1] = s
           /\ \A i \in 1 .. Len(d) : Append(d, s)[i] = d[i]
           /\ Len(<<s>> \o d) = Len(d) + 1 /\ (<<s>> \o d)[1] = s
           /\ \A i \in 2 .. Len(d) + 1 : i - 1 \in 1 .. Len(d) /\ (<<s>> \o d)[i] = d[i - 1]
OBVIOUS

\* What a COPY or a REVERSE has taken, after one more atom.
LEMMA CopiedMore ==
    ASSUME NEW f, NEW c \in Seq(Slots), NEW d \in Seq(Slots), NEW e, NEW s \in Slots,
           NEW op,
           Len(d) < Len(c), s \notin Entries(c), s \notin Entries(d),
           Adjoins(d, e, s, op), Agree(f, c, d, op),
           NEW g, Updated(f, g, s, c[Len(d) + 1])
    PROVE  Len(e) = Len(d) + 1 /\ Agree(g, c, e, op)
<1>0. /\ Len(c) \in Nat /\ Len(d) \in Nat
      /\ \A i \in 1 .. Len(c) : c[i] \in Slots /\ g[c[i]] = f[c[i]]
      /\ \A i \in 1 .. Len(d) : d[i] \in Slots /\ g[d[i]] = f[d[i]] /\ i \in 1 .. Len(c)
      /\ g[s] = f[c[Len(d) + 1]]
  BY DEF Entries, Agree, Updated
<1>1. CASE op = "copy"
  <2>1. e = Append(d, s)
    BY <1>1 DEF Adjoins
  <2>2. Len(e) = Len(d) + 1 /\ e[Len(d) + 1] = s /\ \A i \in 1 .. Len(d) : e[i] = d[i]
    BY <2>1, Adjoined
  <2>3. \A i \in 1 .. Len(d) : f[d[i]] = f[c[i]]
    BY <1>1 DEF Agree
  <2>4. ASSUME NEW i \in 1 .. Len(e) PROVE g[e[i]] = g[c[i]]
    <3>1. CASE i = Len(d) + 1
      BY <1>0, <2>2, <3>1
    <3>2. CASE i \in 1 .. Len(d)
      <4>1. f[d[i]] = f[c[i]]
        BY <2>3, <3>2
      <4> QED BY <1>0, <2>2, <3>2, <4>1
    <3> QED BY <1>0, <2>2, <3>1, <3>2
  <2> QED BY <1>1, <2>2, <2>4 DEF Agree
<1>2. CASE op # "copy"
  <2>1. e = <<s>> \o d
    BY <1>2 DEF Adjoins
  <2>2. Len(e) = Len(d) + 1 /\ e[1] = s /\ \A i \in 2 .. Len(d) + 1 : e[i] = d[i - 1]
    BY <2>1, Adjoined
  <2>3. \A i \in 1 .. Len(d) : f[d[i]] = f[c[Len(d) + 1 - i]]
    BY <1>2 DEF Agree
  <2>4. ASSUME NEW i \in 1 .. Len(e) PROVE g[e[i]] = g[c[Len(e) + 1 - i]]
    <3>1. CASE i = 1
      <4>1. Len(e) + 1 - i = Len(d) + 1 /\ Len(d) + 1 \in 1 .. Len(c)
        BY <1>0, <2>2, <3>1
      <4> QED BY <1>0, <2>2, <3>1, <4>1
    <3>2. CASE i # 1
      <4>0. i \in 2 .. Len(d) + 1 /\ i - 1 \in 1 .. Len(d)
        BY <1>0, <2>2, <3>2
      <4>1. /\ i - 1 \in 1 .. Len(d) /\ e[i] = d[i - 1]
            /\ Len(d) + 1 - (i - 1) = Len(e) + 1 - i
            /\ Len(e) + 1 - i \in 1 .. Len(c)
        <5>1. e[i] = d[i - 1]
          BY <2>2, <4>0
        <5>2. /\ Len(d) + 1 - (i - 1) = Len(e) + 1 - i
              /\ Len(e) + 1 - i \in 1 .. Len(c)
          BY <1>0, <2>2, <4>0
        <5> QED BY <4>0, <5>1, <5>2
      <4>2. f[d[i - 1]] = f[c[Len(d) + 1 - (i - 1)]]
        BY <2>3, <4>1
      <4> QED BY <1>0, <4>1, <4>2
    <3> QED BY <3>1, <3>2
  <2> QED BY <1>2, <2>2, <2>4 DEF Agree
<1> QED BY <1>1, <1>2

\* COPY and REVERSE take the next atom.
LEMMA CopyAddsStep == ASSUME LInv, Shape, CopyAdds PROVE LInv' /\ \E l \in Names : Moves(l)
<1> USE DEF CopyAdds, Busy
<1>0. PICK l \in Names, k \in Names : l = job.list /\ k = job.into
  BY DEF LInv, Working
<1>1. /\ Exists(l) /\ Exists(k) /\ home[k] = level /\ l # k /\ Copied(l, k)
      /\ level \in Levels /\ job.at # NULL /\ job.op \in {"copy", "reverse"} /\ mode = "run"
  BY <1>0 DEF LInv, Working, Running
<1>2. \A h \in Names : ~Cleared(h) /\ ~Cleared(h)'
  BY <1>1 DEF Cleared, LInv, ListsTyped
<1>3. PICK c, d : c = Rest(l) /\ d = Rest(k)
  OBVIOUS
<1>4. /\ c \in Seq(Slots) /\ d \in Seq(Slots) /\ Len(c) \in Nat /\ Len(d) \in Nat
      /\ \A i \in 1 .. Len(c) :
             /\ c[i] \in Slots \cap out /\ atom[c[i]].value \in Values
             /\ atom[c[i]].next = IF i = Len(c) THEN NULL ELSE c[i + 1]
      /\ \A i \in 1 .. Len(d) : d[i] \in Slots \cap out
  <2>1. Row(atom, Top(l), Rest(l), tracked[home[l]])
    BY <1>1, Resting
  <2> QED BY <1>1, <1>3, <2>1, RowFacts, Resting
<1>5. /\ Len(d) < Len(c) /\ Len(d) + 1 \in 1 .. Len(c) /\ job.at = c[Len(d) + 1]
      /\ \A i \in 1 .. Len(d) :
             atom[d[i]].value = atom[c[IF job.op = "copy" THEN i ELSE Len(d) + 1 - i]].value
  BY <1>1, <1>3, <1>4 DEF Copied
<1>6. PICK v \in Values : v = atom[job.at].value
  BY <1>4, <1>5
<1>7. PICK s \in Slots : /\ Alloc(s) /\ Track(s)
                         /\ \/ job.op = "copy" /\ LinkLast(k, s, v)
                            \/ job.op = "reverse" /\ LinkFirst(k, s, v)
  BY <1>0, <1>6
<1>8. /\ s \notin out /\ OnePlace' /\ tracked' \in [Levels -> SUBSET Things]
      /\ tracked' = [tracked EXCEPT ![level] = @ \cup {s}]
  BY <1>1, <1>7, TrackNew
<1>9. /\ Rows' /\ Rest(k)' = IF job.op = "copy" THEN Append(d, s) ELSE <<s>> \o d
      /\ \A h \in Names \ {k} : Exists(h)' => Exists(h) /\ Rest(h)' = Rest(h)
      /\ list'[k].tail = IF job.op = "copy" THEN s
                         ELSE (IF d = << >> THEN s ELSE list[k].tail)
      /\ list'[k].length = list[k].length + 1
      /\ \A h \in Names \ {k} : list'[h] = list[h]
      /\ atom'[s].value = v /\ \A x \in Slots \ {s} : atom'[x].value = atom[x].value
  <2>1. CASE job.op = "copy" /\ LinkLast(k, s, v)
    <3>1. /\ Rows' /\ Rest(k)' = Append(Rest(k), s)
          /\ \A h \in Names \ {k} : Exists(h)' => Exists(h) /\ Rest(h)' = Rest(h)
          /\ list'[k].tail = s /\ list'[k].length = list[k].length + 1
          /\ \A h \in Names \ {k} : list'[h] = list[h]
          /\ atom'[s].value = v /\ \A x \in Slots \ {s} : atom'[x].value = atom[x].value
      BY <1>1, <1>2, <1>8, <2>1, LastLinked
    <3> QED BY <1>3, <2>1, <3>1
  <2>2. CASE job.op = "reverse" /\ LinkFirst(k, s, v)
    <3>1. /\ Rows' /\ Rest(k)' = <<s>> \o Rest(k)
          /\ \A h \in Names \ {k} : Exists(h)' => Exists(h) /\ Rest(h)' = Rest(h)
          /\ list'[k].tail = (IF Rest(k) = << >> THEN s ELSE list[k].tail)
          /\ list'[k].length = list[k].length + 1
          /\ \A h \in Names \ {k} : list'[h] = list[h]
          /\ atom'[s].value = v /\ \A x \in Slots \ {s} : atom'[x].value = atom[x].value
      BY <1>1, <1>2, <1>8, <2>2, FirstLinked
    <3> QED BY <1>3, <2>2, <3>1
  <2> QED BY <1>7, <2>1, <2>2
<1>10. ListsTyped'
  <2>1. atom' \in [Slots -> [value : Values \cup {NULL}, next : Links]]
        /\ list' \in [Names -> [head : Links, tail : Links, length : Nat]]
    BY <1>7, LinkTyped
  <2>2. atom[job.at].next \in Links
    BY <1>4, <1>5 DEF LInv, ListsTyped
  <2>3. job' \in [op : {"none", "clear", "copy", "reverse"},
                  list : Names \cup {NULL}, at : Links, into : Names \cup {NULL}]
    BY <2>2 DEF LInv, ListsTyped
  <2> QED BY <1>8, <2>1, <2>3 DEF LInv, ListsTyped
<1>11. Counted' /\ Whole' = Whole /\ Entries(Rest(k)) \subseteq Entries(Rest(k)')
  <2>1. \/ Rest(k)' = Append(Rest(k), s) /\ list'[k].tail = s
        \/ /\ Rest(k)' = <<s>> \o Rest(k)
           /\ list'[k].tail = (IF Rest(k) = << >> THEN s ELSE list[k].tail)
    BY <1>1, <1>3, <1>9
  <2> QED BY <1>1, <1>2, <1>9, <2>1, LinkCounted
<1>12. Standing'
  <2>1. cursor.at # NULL /\ cursor.list = k => cursor.at \in Entries(Rest(k)')
    BY <1>11 DEF LInv, Standing
  <2> QED BY <1>9, <1>11, <2>1, StandingKept
<1>13. Running'
  BY <1>1 DEF Running
<1>14. Working'
  <2>1. /\ job'.op = job.op /\ job'.list = l /\ job'.into = k
        /\ job'.at = atom[c[Len(d) + 1]].next
    BY <1>0, <1>5 DEF LInv, ListsTyped
  <2>2. Rest(l)' = c /\ Exists(l)' /\ Exists(k)' /\ home'[k] = level'
    BY <1>1, <1>3, <1>9 DEF Exists
  <2>3. PICK e : e = Rest(k)'
    OBVIOUS
  <2>4. PICK f, g : /\ f = [x \in Slots |-> atom[x].value]
                    /\ g = [x \in Slots |-> atom'[x].value]
    OBVIOUS
  <2>5. PICK op : op = job.op
    OBVIOUS
  <2>6. Len(e) = Len(d) + 1 /\ Agree(g, c, e, op)
    <3>1. s \notin Entries(c) /\ s \notin Entries(d)
      BY <1>4, <1>8 DEF Entries
    <3>2. Adjoins(d, e, s, op)
      BY <1>9, <2>3, <2>5 DEF Adjoins
    <3>3. Updated(f, g, s, c[Len(d) + 1])
      <4>1. f[c[Len(d) + 1]] = v
        BY <1>4, <1>5, <1>6, <2>4
      <4> QED BY <1>9, <2>4, <4>1 DEF Updated
    <3>4. Agree(f, c, d, op)
      <4> SUFFICES ASSUME NEW i \in 1 .. Len(d)
                   PROVE  f[d[i]] = f[c[IF op = "copy" THEN i ELSE Len(d) + 1 - i]]
        BY DEF Agree
      <4>1. /\ d[i] \in Slots /\ i \in 1 .. Len(c) /\ Len(d) + 1 - i \in 1 .. Len(c)
            /\ c[i] \in Slots /\ c[Len(d) + 1 - i] \in Slots
        BY <1>4, <1>5
      <4> QED BY <1>5, <2>4, <2>5, <4>1
    <3> QED BY <1>4, <1>5, <3>1, <3>2, <3>3, <3>4, CopiedMore
  <2>7. \A i \in 1 .. Len(e) : e[i] \in Slots
    <3>1. Row(atom', Top(k)', Rest(k)', tracked'[home'[k]])
      BY <1>9, <2>2 DEF Rows
    <3> QED BY <2>3, <3>1, RowFacts
  <2>8. \A i \in 1 .. Len(e) :
            atom'[e[i]].value = atom'[c[IF job.op = "copy" THEN i ELSE Len(e) + 1 - i]].value
    <3> TAKE i \in 1 .. Len(e)
    <3>1. /\ e[i] \in Slots /\ i \in 1 .. Len(c) /\ Len(e) + 1 - i \in 1 .. Len(c)
          /\ c[i] \in Slots /\ c[Len(e) + 1 - i] \in Slots
      BY <1>4, <1>5, <2>6, <2>7
    <3> QED BY <2>4, <2>5, <2>6, <3>1 DEF Agree
  <2>9. job'.at = IF Len(e) = Len(c) THEN NULL ELSE c[Len(e) + 1]
    BY <1>4, <1>5, <2>1, <2>6
  <2>10. Len(e) <= Len(c)
    BY <1>4, <1>5, <2>6
  <2>11. Copied(l, k)'
    BY <2>1, <2>2, <2>3, <2>8, <2>9, <2>10 DEF Copied
  <2> QED BY <1>1, <2>1, <2>2, <2>11 DEF Working
<1>15. Moves(k)
  <2>1. Rest(k)' = Append(Rest(k), s) \/ Rest(k)' = <<s>> \o Rest(k)
    BY <1>3, <1>9
  <2>2. UNCHANGED home
    OBVIOUS
  <2> QED BY <1>1, <1>2, <1>8, <1>9, <2>1, <2>2, OneMore
<1> QED BY <1>15, <1>8, <1>9, <1>10, <1>11, <1>12, <1>13, <1>14 DEF LInv

-----------------------------------------------------------------------------
\* The memory and the place of every atom stay, but for a and the atom p.
Taken(a, p) ==
    /\ \A x \in Slots \ {a} :
           /\ x # p => atom'[x] = atom[x]
           /\ \A d \in Levels : x \in tracked[d] => x \in tracked'[d]
    /\ \A k \in Names, d \in Levels : k \in tracked[d] => k \in tracked'[d]

\* An atom is taken out of the row of l: what a REMOVE has done to it so far.
TakenFrom(l, i, a, p, d) ==
    /\ Exists(l) /\ home' = home /\ level' = level
    /\ a = Rest(l)[i] /\ d = RemoveAt(Rest(l), i)
    /\ p # NULL => i # 1 /\ p = Rest(l)[i - 1]
    /\ Taken(a, p) /\ \A k \in Names \ {l} : Top(k)' = Top(k)
    /\ Row(atom', Top(l)', d, tracked'[home[l]])

\* An atom that is taken out of the row of l, as the i-th, is in no other row.
LEMMA RowTaken ==
    ASSUME LInv, NEW l \in Names, NEW i \in 1 .. Len(Rest(l)), NEW a, NEW p, NEW d,
           TakenFrom(l, i, a, p, d)
    PROVE  /\ Rows' /\ Rest(l)' = d
           /\ \A k \in Names \ {l} : Exists(k)' => Exists(k) /\ Rest(k)' = Rest(k)
           /\ \A k \in Names \ {l} : Exists(k)' => Untouched(k, d)
<1> USE DEF TakenFrom
<1>1. /\ Rest(l) \in Seq(Slots) /\ Len(Rest(l)) \in Nat /\ Len(d) = Len(Rest(l)) - 1
      /\ \A j \in 1 .. Len(d) : \E h \in 1 .. Len(Rest(l)) : d[j] = Rest(l)[h]
  <2>1. Rest(l) \in Seq(Slots) /\ Len(Rest(l)) \in Nat
    BY Resting
  <2>2. /\ Len(d) = Len(Rest(l)) - 1
        /\ \A j \in 1 .. Len(Rest(l)) - 1 : d[j] = IF j < i THEN Rest(l)[j] ELSE Rest(l)[j + 1]
    BY <2>1, RemoveAtFacts
  <2>3. ASSUME NEW j \in 1 .. Len(d) PROVE \E h \in 1 .. Len(Rest(l)) : d[j] = Rest(l)[h]
    <3>1. j \in 1 .. Len(Rest(l)) /\ j + 1 \in 1 .. Len(Rest(l)) /\ j \in 1 .. Len(Rest(l)) - 1
      BY <2>1, <2>2
    <3> QED BY <2>2, <3>1
  <2> QED BY <2>1, <2>2, <2>3
<1>2. /\ home[l] \in Levels /\ home[l] <= level /\ l \in tracked'[home[l]]
      /\ home'[l] = home[l] /\ level' = level /\ Exists(l)'
  BY Resting DEF Taken, Exists
<1>3. ASSUME NEW k \in Names \ {l}, Exists(k)' PROVE Untouched(k, d)
  <2>1. /\ Exists(k) /\ home'[k] = home[k] /\ home[k] <= level' /\ Top(k)' = Top(k)
        /\ home[k] \in Levels /\ k \in tracked'[home[k]]
    BY <1>2, <1>3, Resting DEF Exists, Taken
  <2>2. \A j \in 1 .. Len(Rest(k)), h \in 1 .. Len(Rest(l)) : Rest(l)[h] # Rest(k)[j]
    BY <2>1 DEF LInv, Rows
  <2>3. ASSUME NEW j \in 1 .. Len(Rest(k))
        PROVE  /\ atom'[Rest(k)[j]] = atom[Rest(k)[j]] /\ Rest(k)[j] \in tracked'[home[k]]
               /\ \A h \in 1 .. Len(d) : d[h] # Rest(k)[j]
    <3>1. Rest(k)[j] \in Slots /\ Rest(k)[j] \in tracked[home[k]]
      BY <2>1, Resting
    <3>2. Rest(k)[j] # a /\ Rest(k)[j] # p
      <4>1. p # NULL => i - 1 \in 1 .. Len(Rest(l))
        BY <1>1
      <4> QED BY <2>2, <3>1, <4>1, Basics
    <3>3. \A h \in 1 .. Len(d) : d[h] # Rest(k)[j]
      BY <1>1, <2>2
    <3> QED BY <2>1, <3>1, <3>2, <3>3 DEF Taken
  <2> QED BY <2>1, <2>3 DEF Untouched
<1>4. Row(atom', Top(l)', d, tracked'[home'[l]]) /\ l \in tracked'[home'[l]] /\ home'[l] <= level'
  BY <1>2
<1> QED BY <1>2, <1>3, <1>4, OneRow

\* CLEAR frees the next atom.
LEMMA ClearFreesStep == ASSUME LInv, ClearFrees PROVE LInv' /\ job.at \in out /\ Steady
<1> USE DEF ClearFrees, Busy
<1>0. PICK l \in Names : l = job.list /\ Exists(l)
  BY DEF LInv, Working
<1>20. PICK a : a = job.at
  OBVIOUS
<1>1. /\ Cleared(l) /\ Top(l) = a /\ a # NULL /\ \A k \in Names \ {l} : ~Cleared(k)
  BY <1>0, <1>20 DEF Cleared, Top
<1>2. PICK c : c = Rest(l)
  OBVIOUS
<1>3. /\ Row(atom, a, c, tracked[home[l]]) /\ home[l] \in Levels /\ c \in Seq(Slots)
      /\ Len(c) \in Nat /\ 1 \in 1 .. Len(c) /\ a = c[1] /\ a \in Slots /\ a \in out
      /\ a \in tracked[home[l]]
      /\ \A i \in 1 .. Len(c) : c[i] \in Slots /\ c[i] \in tracked[home[l]]
      /\ \A i, j \in 1 .. Len(c) : c[i] = c[j] => i = j
  <2>1. Row(atom, a, c, tracked[home[l]]) /\ home[l] \in Levels
    BY <1>0, <1>20, <1>1, <1>2, Resting
  <2>2. /\ c \in Seq(Slots) /\ Len(c) \in Nat /\ a = c[1] /\ 1 \in 1 .. Len(c)
        /\ \A i \in 1 .. Len(c) : c[i] \in Slots /\ c[i] \in tracked[home[l]]
        /\ \A i, j \in 1 .. Len(c) : c[i] = c[j] => i = j
    BY <1>1, <2>1, RowFacts
  <2> QED BY <1>0, <1>20, <1>2, <2>1, <2>2, Resting
<1>4. OnePlace' /\ tracked' = [tracked EXCEPT ![home[l]] = @ \ {a}]
  <2>1. \A y \in Slots : y \in out' <=> y \in out /\ y # a
    BY <1>0, <1>20 DEF Free
  <2>2. Untrack(a) /\ a \in Things
    BY <1>0, <1>20, <1>3 DEF Things
  <2> QED BY <1>3, <2>1, <2>2, PlaceUntrack
<1>5. /\ atom' = [atom EXCEPT ![a] = Blank] /\ list' = list
      /\ job'.op = "clear" /\ job'.list = l /\ job'.at = atom[a].next
      /\ atom \in [Slots -> [value : Values \cup {NULL}, next : Links]]
      /\ tracked \in [Levels -> SUBSET Things]
  BY <1>0, <1>20 DEF LInv, ListsTyped
<1>6. /\ \A k \in Names : Cleared(k)' <=> Cleared(k)
      /\ \A k \in Names \ {l} : Top(k)' = Top(k)
      /\ Top(l)' = atom[a].next
  BY <1>0, <1>20, <1>1, <1>5 DEF Cleared, Top
<1>7. Taken(a, NULL)
  <2>1. \A x : x # a => \A d \in Levels : x \in tracked[d] => x \in tracked'[d]
    BY <1>3, <1>4, <1>5
  <2>2. \A k \in Names : k # a
    BY <1>3, Basics
  <2> QED BY <1>5, <2>1, <2>2 DEF Taken
<1>8. PICK d : d = RemoveAt(c, 1)
  OBVIOUS
<1>9. Row(atom', Top(l)', d, tracked'[home[l]])
  <2>1. ASSUME NEW j \in 1 .. Len(c), j # 1
        PROVE  /\ c[j] \in tracked'[home[l]] /\ atom'[c[j]].value = atom[c[j]].value
               /\ atom'[c[j]].next = IF j = 1 - 1 THEN atom[c[1]].next ELSE atom[c[j]].next
    <3>1. c[j] # a /\ c[j] \in Slots /\ c[j] \in tracked[home[l]] /\ j # 1 - 1
      BY <1>3, <2>1
    <3> QED BY <1>3, <1>5, <1>7, <3>1 DEF Taken
  <2>2. Row(atom', IF 1 = 1 THEN atom[a].next ELSE a, RemoveAt(c, 1), tracked'[home[l]])
    BY <1>3, <2>1, RowWithout
  <2> QED BY <1>6, <1>8, <2>2
<1>10. /\ Rows' /\ \A k \in Names \ {l} : Exists(k)' => Exists(k) /\ Rest(k)' = Rest(k)
       /\ \A k \in Names \ {l} : Exists(k)' => Untouched(k, d)
  <2>1. TakenFrom(l, 1, a, NULL, d)
    BY <1>0, <1>20, <1>2, <1>3, <1>6, <1>7, <1>8, <1>9 DEF TakenFrom
  <2>2. LInv /\ 1 \in 1 .. Len(Rest(l))
    BY <1>0, <1>20, <1>2, <1>3
  <2> QED BY <2>1, <2>2, RowTaken
<1>11. Whole' = Whole /\ l \notin Whole
  BY <1>1, <1>6 DEF Whole, Exists
<1>12. Counted'
  <2> SUFFICES ASSUME NEW k \in Whole PROVE Counts(k)'
    BY <1>11 DEF Counted
  <2>1. k \in Names \ {l} /\ Exists(k)'
    BY <1>11 DEF Whole, Exists
  <2> QED BY <1>5, <1>10, <2>1, CountsKept
<1>13. Standing'
  <2>1. \A k \in Whole : k \in Whole'
    BY <1>11
  <2>2. cursor.at # NULL => cursor.list # l
    BY <1>11 DEF LInv, Standing
  <2> QED BY <1>10, <2>1, <2>2, StandingKept
<1>14. ListsTyped'
  <2>1. Blank \in [value : Values \cup {NULL}, next : Links]
    BY DEF Blank, Links
  <2>2. atom' \in [Slots -> [value : Values \cup {NULL}, next : Links]]
    BY <1>5, <2>1
  <2>3. atom[job.at].next \in Links
    BY <1>0, <1>20, <1>3, <1>5
  <2>4. job' \in [op : {"none", "clear", "copy", "reverse"},
                  list : Names \cup {NULL}, at : Links, into : Names \cup {NULL}]
    BY <2>3 DEF LInv, ListsTyped
  <2>5. tracked' \in [Levels -> SUBSET Things]
    BY <1>4, <1>5
  <2> QED BY <2>2, <2>4, <2>5 DEF LInv, ListsTyped
<1>15. Running' /\ Working'
  BY <1>0, <1>20, <1>5 DEF LInv, Running, Working, Exists
<1>16. Steady
  <2> SUFFICES ASSUME NEW k \in Names PROVE Stays(k)
    BY DEF Steady
  <2>1. CASE ~Exists(k)'
    BY <2>1, NoneStays DEF Exists
  <2>2. CASE Exists(k)' /\ k # l
    BY <1>6, <1>10, <2>2, UntouchedStays
  <2>3. CASE Exists(k)' /\ k = l
    BY <1>0, <1>20, <1>1, <1>6, <2>3 DEF Stays, Contents
  <2> QED BY <2>1, <2>2, <2>3
<1> QED BY <1>16, <1>0, <1>20, <1>3, <1>4, <1>10, <1>12, <1>13, <1>14, <1>15 DEF LInv

\* SHIFT, POP and REMOVE.
LEMMA ListRemoveStep ==
    ASSUME LInv, NEW l \in Names, NEW i \in Nat, ListRemove(l, i)
    PROVE  /\ LInv' /\ (\E a \in out : Free(a)) /\ Moves(l)
           /\ Contents(l)' = RemoveAt(Contents(l), i)
<1> USE DEF InProgram
<1>0. /\ mode = "run" /\ job.op = "none" /\ Exists(l) /\ i \in 1 .. Len(Chain(list[l].head))
      /\ UNCHANGED <<home, level, queue, batch, cursor, job, mode>>
      /\ \A k \in Names : ~Cleared(k) /\ ~Cleared(k)'
  BY DEF ListRemove, Cleared, Busy
<1>1. PICK c : c = Rest(l)
  OBVIOUS
<1>2. c = Chain(list[l].head) /\ i \in 1 .. Len(c) /\ Top(l) = list[l].head
  BY <1>0, <1>1, Resting
<1>3. PICK a, prev : a = c[i] /\ prev = IF i = 1 THEN NULL ELSE c[i - 1]
  OBVIOUS
<1>4. /\ a # cursor.at
      /\ list' = [list EXCEPT ![l].head = IF i = 1 THEN atom[a].next ELSE @,
                              ![l].tail = IF a = @ THEN prev ELSE @,
                              ![l].length = @ - 1]
      /\ atom' = [s \in Slots |->
                    IF s = a THEN Blank
                    ELSE IF s = prev THEN [atom[s] EXCEPT !.next = atom[a].next]
                    ELSE atom[s]]
      /\ Untrack(a) /\ Free(a)
  BY <1>2, <1>3 DEF ListRemove
<1>5. /\ Row(atom, list[l].head, c, tracked[home[l]]) /\ home[l] \in Levels
      /\ c \in Seq(Slots) /\ Len(c) \in Nat /\ c[i] \in out
  BY <1>0, <1>1, <1>2, Resting
<1>6. i \in 1 .. Len(c) /\ 1 <= i /\ i <= Len(c) /\ c # << >> /\ Len(c) \in Nat
  BY <1>2, <1>5
<1>7. \A j \in 1 .. Len(c) : c[j] \in Slots /\ c[j] \in tracked[home[l]]
  BY <1>5, RowFacts
<1>8. \A j, k \in 1 .. Len(c) : c[j] = c[k] => j = k
  BY <1>5, RowFacts
<1>9. a \in Slots /\ a \in out /\ a \in tracked[home[l]] /\ list[l].head = c[1]
  <2>1. list[l].head = c[1]
    BY <1>5, <1>6, RowFacts
  <2> QED BY <1>5, <1>6, <1>7, <1>3, <2>1
<1>10. /\ atom \in [Slots -> [value : Values \cup {NULL}, next : Links]]
       /\ list \in [Names -> [head : Links, tail : Links, length : Nat]]
       /\ tracked \in [Levels -> SUBSET Things]
       /\ list[l].length = Len(c) /\ list[l].tail = c[Len(c)]
  <2>1. l \in Whole /\ Len(Rest(l)) = Len(c) /\ Rest(l) # << >>
    BY <1>0, <1>1, <1>6 DEF Whole
  <2> QED BY <1>1, <2>1 DEF LInv, ListsTyped, Counted, Counts
<1>11. /\ i # 1 => i - 1 \in 1 .. Len(c) /\ prev = c[i - 1] /\ prev \in Slots /\ prev # a
       /\ i = 1 => prev = NULL
       /\ prev \in Links /\ NULL \notin Slots
  <2>1. i # 1 => i - 1 \in 1 .. Len(c) /\ i - 1 # i
    BY <1>6
  <2> QED BY <1>3, <1>6, <1>7, <1>8, <2>1, Basics DEF Links
<1>12. OnePlace' /\ tracked' = [tracked EXCEPT ![home[l]] = @ \ {a}]
  <2>1. \A y \in Slots : y \in out' <=> y \in out /\ y # a
    BY <1>4 DEF Free
  <2>2. a \in Things
    BY <1>9 DEF Things
  <2> QED BY <1>0, <1>4, <1>9, <1>5, <2>1, <2>2, PlaceUntrack
<1>13. /\ list'[l].head = (IF i = 1 THEN atom[a].next ELSE list[l].head)
       /\ list'[l].tail = (IF a = list[l].tail THEN prev ELSE list[l].tail)
       /\ list'[l].length = Len(c) - 1
       /\ \A k \in Names \ {l} : list'[k] = list[k]
  BY <1>4, <1>10
<1>14. /\ atom'[a] = Blank
       /\ \A s \in Slots \ {a} : /\ atom'[s].value = atom[s].value
                                 /\ atom'[s].next = IF s = prev THEN atom[a].next ELSE atom[s].next
                                 /\ s # prev => atom'[s] = atom[s]
  BY <1>4, <1>9, <1>10
<1>15. Taken(a, prev)
  <2>1. \A x : x # a => \A d \in Levels : x \in tracked[d] => x \in tracked'[d]
    BY <1>10, <1>12, <1>5
  <2>2. \A k \in Names : k # a
    BY <1>9, Basics
  <2> QED BY <1>14, <2>1, <2>2 DEF Taken
<1>16. PICK d : d = RemoveAt(c, i)
  OBVIOUS
<1>17. /\ \A k \in Names \ {l} : Top(k)' = Top(k)
       /\ Top(l)' = IF i = 1 THEN atom[list[l].head].next ELSE list[l].head
  <2>1. i = 1 => a = list[l].head
    BY <1>3, <1>9
  <2> QED BY <1>0, <1>13, <2>1 DEF Top
<1>18. Row(atom', Top(l)', d, tracked'[home[l]])
  <2>1. ASSUME NEW j \in 1 .. Len(c), j # i
        PROVE  /\ c[j] \in tracked'[home[l]] /\ atom'[c[j]].value = atom[c[j]].value
               /\ atom'[c[j]].next = IF j = i - 1 THEN atom[c[i]].next ELSE atom[c[j]].next
    <3>1. c[j] # a /\ c[j] \in Slots /\ c[j] \in tracked[home[l]]
      BY <1>3, <1>6, <1>7, <1>8, <2>1
    <3>2. c[j] \in tracked'[home[l]]
      BY <1>15, <1>5, <3>1 DEF Taken
    <3>3. c[j] = prev <=> j = i - 1
      <4>1. CASE i = 1
        BY <1>11, <1>5, <2>1, <3>1, <4>1
      <4>2. CASE i # 1
        BY <1>11, <1>8, <2>1, <4>2
      <4> QED BY <4>1, <4>2
    <3> QED BY <1>3, <1>14, <3>1, <3>2, <3>3
  <2>2. Row(atom', IF i = 1 THEN atom[list[l].head].next ELSE list[l].head,
            RemoveAt(c, i), tracked'[home[l]])
    BY <1>5, <1>6, <2>1, RowWithout
  <2> QED BY <1>16, <1>17, <2>2
<1>19. /\ Rows' /\ Rest(l)' = d
       /\ \A k \in Names \ {l} : Exists(k)' => Exists(k) /\ Rest(k)' = Rest(k)
       /\ \A k \in Names \ {l} : Exists(k)' => Untouched(k, d)
  <2>1. prev # NULL => i # 1 /\ prev = Rest(l)[i - 1]
    BY <1>1, <1>11
  <2>2. Exists(l) /\ home' = home /\ level' = level /\ i \in 1 .. Len(Rest(l)) /\ a = Rest(l)[i]
    BY <1>0, <1>1, <1>3, <1>6
  <2>3. Taken(a, prev) /\ d = RemoveAt(Rest(l), i) /\ Row(atom', Top(l)', d, tracked'[home[l]])
    BY <1>1, <1>15, <1>16, <1>18
  <2>4. \A k \in Names \ {l} : Top(k)' = Top(k)
    BY <1>17
  <2>5. TakenFrom(l, i, a, prev, d)
    BY <2>1, <2>2, <2>3, <2>4 DEF TakenFrom
  <2>6. i \in 1 .. Len(Rest(l)) /\ LInv
    BY <1>0, <1>1, <2>2
  <2> QED BY <2>5, <2>6, RowTaken
<1>20. /\ d \in Seq(Slots) /\ Len(d) = Len(c) - 1
       /\ \A j \in 1 .. Len(c) - 1 : d[j] = IF j < i THEN c[j] ELSE c[j + 1]
  BY <1>16, <1>5, <1>6, RemoveAtFacts
<1>21. Whole' = Whole /\ l \in Whole
  BY <1>0 DEF Whole, Exists
<1>22. Counts(l)'
  <2>1. list'[l].length = Len(d)
    BY <1>13, <1>20
  <2>2. list'[l].tail = IF d = << >> THEN NULL ELSE d[Len(d)]
    <3>1. a = list[l].tail <=> i = Len(c)
      BY <1>3, <1>10, <1>6, <1>8
    <3>2. CASE Len(c) = 1
      <4>1. i = 1 /\ d = << >>
        BY <1>20, <1>6, <3>2
      <4> QED BY <1>11, <1>13, <3>1, <3>2, <4>1
    <3>3. CASE Len(c) # 1 /\ i = Len(c)
      <4>1. /\ d # << >> /\ Len(d) = i - 1 /\ i # 1
            /\ i - 1 \in 1 .. Len(c) - 1 /\ i - 1 < i
        BY <1>20, <1>6, <3>3
      <4> QED BY <1>11, <1>13, <1>20, <3>1, <3>3, <4>1
    <3>4. CASE Len(c) # 1 /\ i # Len(c)
      <4>1. /\ d # << >> /\ Len(d) = Len(c) - 1 /\ Len(c) - 1 \in 1 .. Len(c) - 1
            /\ ~(Len(c) - 1 < i) /\ (Len(c) - 1) + 1 = Len(c)
        BY <1>20, <1>6, <3>4
      <4>2. d[Len(c) - 1] = c[(Len(c) - 1) + 1]
        BY <1>20, <4>1
      <4>3. d[Len(d)] = c[Len(c)]
        BY <4>1, <4>2
      <4> QED BY <1>10, <1>13, <3>1, <3>4, <4>1, <4>3
    <3> QED BY <3>2, <3>3, <3>4
  <2> QED BY <1>19, <2>1, <2>2 DEF Counts
<1>23. Counted'
  <2> SUFFICES ASSUME NEW k \in Whole PROVE Counts(k)'
    BY <1>21 DEF Counted
  <2>1. CASE k = l
    BY <1>22, <2>1
  <2>2. CASE k # l
    <3>1. k \in Names \ {l} /\ Exists(k)'
      BY <1>21, <2>2 DEF Whole, Exists
    <3> QED BY <1>13, <1>19, <3>1, CountsKept
  <2> QED BY <2>1, <2>2
<1>24. Standing'
  <2>1. cursor.at # NULL /\ cursor.list = l => cursor.at \in Entries(Rest(l)')
    <3> SUFFICES ASSUME cursor.at # NULL, cursor.list = l PROVE cursor.at \in Entries(d)
      BY <1>19
    <3>1. PICK j \in 1 .. Len(c) : cursor.at = c[j]
      BY <1>1 DEF LInv, Standing, Entries
    <3>2. j # i
      BY <1>3, <1>4, <3>1
    <3>3. CASE j < i
      <4>1. j \in 1 .. Len(c) - 1 /\ d[j] = c[j]
        BY <1>20, <1>6, <3>3
      <4> QED BY <1>20, <3>1, <4>1 DEF Entries
    <3>4. CASE j > i
      <4>1. j - 1 \in 1 .. Len(c) - 1 /\ ~(j - 1 < i) /\ (j - 1) + 1 = j
        BY <1>6, <3>4
      <4>2. d[j - 1] = c[j]
        BY <1>20, <4>1
      <4> QED BY <1>20, <3>1, <4>1, <4>2 DEF Entries
    <3> QED BY <1>6, <3>2, <3>3, <3>4
  <2>2. \A k \in Whole : k \in Whole'
    BY <1>21
  <2> QED BY <1>0, <1>19, <2>1, <2>2, StandingKept
<1>25. ListsTyped'
  <2>1. atom' \in [Slots -> [value : Values \cup {NULL}, next : Links]]
    <3>1. Blank \in [value : Values \cup {NULL}, next : Links]
      BY DEF Blank, Links
    <3>2. \A s \in Slots : [atom[s] EXCEPT !.next = atom[a].next]
                               \in [value : Values \cup {NULL}, next : Links]
      <4>1. atom[a].next \in Links
        BY <1>9, <1>10
      <4> QED BY <1>10, <4>1
    <3> QED BY <1>4, <1>10, <3>1, <3>2
  <2>2. list' \in [Names -> [head : Links, tail : Links, length : Nat]]
    <3>1. list[l].length - 1 \in Nat /\ atom[a].next \in Links
      BY <1>9, <1>10, <1>6
    <3> QED BY <1>4, <1>10, <1>11, <3>1
  <2>3. tracked' \in [Levels -> SUBSET Things]
    BY <1>10, <1>12
  <2> QED BY <1>0, <2>1, <2>2, <2>3 DEF LInv, ListsTyped
<1>26. Running' /\ Working'
  BY <1>0 DEF LInv, Running, Working, Exists
<1>27. Moves(l) /\ Contents(l)' = RemoveAt(Contents(l), i)
  <2>1. ASSUME NEW k \in Names \ {l} PROVE Stays(k)
    <3>1. CASE Exists(k)'
      BY <1>0, <1>19, <3>1, UntouchedStays
    <3>2. CASE ~Exists(k)'
      BY <1>0, <3>2, NoneStays DEF Exists
    <3> QED BY <3>1, <3>2
  <2>2. PICK old, new : old = Contents(l) /\ new = Contents(l)'
    OBVIOUS
  <2>3. /\ old = [j \in 1 .. Len(c) |-> atom[c[j]].value] /\ old # NULL
        /\ old \in Seq(Values) /\ Len(old) = Len(c)
    BY <1>0, <1>1, <2>2, ContentsAre
  <2>4. new = [j \in 1 .. Len(d) |-> atom'[d[j]].value]
    <3>1. Exists(l)' /\ ~Cleared(l)'
      BY <1>0 DEF Exists
    <3> QED BY <1>19, <2>2, <3>1, ContentsThen
  <2>5. /\ RemoveAt(old, i) \in Seq(Values) /\ Len(RemoveAt(old, i)) = Len(c) - 1
        /\ \A j \in 1 .. Len(c) - 1 :
               RemoveAt(old, i)[j] = IF j < i THEN old[j] ELSE old[j + 1]
    <3>1. old \in Seq(Values) /\ i \in 1 .. Len(old) /\ Len(old) = Len(c)
      BY <1>6, <2>3
    <3>2. /\ RemoveAt(old, i) \in Seq(Values) /\ Len(RemoveAt(old, i)) = Len(old) - 1
          /\ \A j \in 1 .. Len(old) - 1 :
                 RemoveAt(old, i)[j] = IF j < i THEN old[j] ELSE old[j + 1]
      BY <3>1, RemoveAtFacts
    <3> QED BY <3>1, <3>2
  <2>6. ASSUME NEW j \in 1 .. Len(d) PROVE atom'[d[j]].value = RemoveAt(old, i)[j]
    <3>1. PICK h \in 1 .. Len(c) : h # i /\ d[j] = c[h] /\ RemoveAt(old, i)[j] = old[h]
      <4>0. j \in 1 .. Len(c) - 1 /\ j \in 1 .. Len(c) /\ j + 1 \in 1 .. Len(c)
        BY <1>6, <1>20
      <4>1. CASE j < i
        <5>1. d[j] = c[j]
          BY <1>20, <4>0, <4>1
        <5>2. RemoveAt(old, i)[j] = old[j]
          BY <2>5, <4>0, <4>1
        <5>3. j # i
          BY <4>0, <4>1
        <5> QED BY <4>0, <5>1, <5>2, <5>3
      <4>2. CASE ~(j < i)
        <5>1. d[j] = c[j + 1] /\ RemoveAt(old, i)[j] = old[j + 1]
          BY <1>20, <2>5, <4>0, <4>2
        <5>2. j + 1 # i
          BY <4>0, <4>2
        <5> QED BY <4>0, <5>1, <5>2
      <4> QED BY <4>1, <4>2
    <3>2. c[h] \in Slots /\ c[h] # a
      BY <1>3, <1>6, <1>7, <1>8, <3>1
    <3>3. atom'[c[h]].value = old[h]
      BY <1>14, <2>3, <3>2
    <3> QED BY <3>1, <3>3
  <2>7. new = RemoveAt(old, i)
    <3>1. RemoveAt(old, i) = [j \in 1 .. Len(d) |-> RemoveAt(old, i)[j]]
      BY <1>20, <2>5
    <3> QED BY <2>4, <2>6, <3>1
  <2>8. new # NULL /\ i \in DOMAIN old
    BY <1>6, <2>3, <2>5, <2>7, ListsAssumption
  <2>9. Seqs!Becomes(old, new)
    BY <2>3, <2>7, <2>8 DEF Seqs!Becomes, RemoveAt
  <2> QED BY <2>1, <2>2, <2>7, <2>9 DEF Moves
<1> QED BY <1>27, <1>4, <1>9, <1>12, <1>19, <1>23, <1>24, <1>25, <1>26 DEF LInv

-----------------------------------------------------------------------------
\* The pool of the atoms before the first step.
LEMMA InitPool == Init => PInv
<1> SUFFICES ASSUME Init PROVE PInv
  OBVIOUS
<1>1. CASE free = << >> /\ slabs = 0 /\ capacity = 0
  BY <1>1, InitSound DEF Init, PoolInit, PInv
<1>2. CASE free = SlabSlots(1) /\ slabs = 1 /\ capacity = SlotsPerSlab
  <2>0. 1 \in 1 .. MaxSlabs /\ MaxSlabs \in Nat /\ SlotsPerSlab \in Nat
        /\ in_use = 0 /\ foreign = {} /\ out = {}
    BY PoolAssumption DEF Init
  <2>1. /\ free \in Seq(Slots) /\ Len(free) = SlotsPerSlab /\ Once(free)
        /\ Entries(free) = {s \in SlabSlot : s[1] = 1}
    BY <1>2, <2>0, SlabEntries
  <2>2. Present = {s \in SlabSlot : s[1] = 1}
    <3>1. \A s \in SlabSlot : s[1] <= 1 <=> s[1] = 1
      BY <2>0 DEF SlabSlot
    <3> QED BY <1>2, <3>1 DEF Present
  <2>3. PoolTypeOK
    BY <1>2, <2>0, <2>1 DEF PoolTypeOK
  <2>4. EverySlotOnce
    <3>1. FreeSlots = Entries(free)
      BY DEF FreeSlots, Entries
    <3> QED BY <2>0, <2>1, <2>2, <3>1 DEF EverySlotOnce, Once
  <2>5. Tally
    BY <1>2, <2>0, <2>1, FS_EmptySet DEF Tally, CountersTrue
  <2> QED BY <2>3, <2>4, <2>5 DEF PInv, Shape
<1> QED BY <1>1, <1>2 DEF Init

\* The lists before the first step: there are none.
LEMMA InitLists == Init => LInv
<1> SUFFICES ASSUME Init PROVE LInv
  OBVIOUS
<1> USE DEF Init
<1>1. \A l \in Names : ~Exists(l)
  BY DEF Exists
<1>2. Blank \in [value : Values \cup {NULL}, next : Links]
      /\ Empty \in [head : Links, tail : Links, length : Nat]
      /\ NoLoop \in [list : Names \cup {NULL}, at : Links, level : Levels]
      /\ Idle \in [op : {"none", "clear", "copy", "reverse"},
                   list : Names \cup {NULL}, at : Links, into : Names \cup {NULL}]
  BY Basics DEF Blank, Empty, NoLoop, Idle, Links
<1>3. ListsTyped
  BY <1>2, Basics DEF ListsTyped
<1>4. OnePlace
  BY DEF OnePlace, InLevel, InBatch, InQueue
<1>5. Rows /\ Counted /\ Running
  BY <1>1, Basics DEF Rows, Counted, Whole, Running
<1>6. Standing /\ Working
  BY DEF Standing, Working, NoLoop, Idle
<1> QED BY <1>3, <1>4, <1>5, <1>6 DEF LInv

\* A step of the program or of the background thread uses the pool as its
\* contract asks, or not at all.
LEMMA PoolUsed ==
    ASSUME LInv, Shape, [Next]_vars
    PROVE  PoolNext \/ UNCHANGED pool
<1>1. \A s \in Slots : Alloc(s) => PoolNext
  BY DEF PoolNext
<1>2. \A s \in out : Free(s) => PoolNext
  BY DEF PoolNext, Shape, PoolTypeOK
<1>3. ASSUME NEW l \in Names, NEW v \in Values, ListAppend(l, v) \/ ListPrepend(l, v)
      PROVE  PoolNext
  BY <1>1, <1>3 DEF ListAppend, ListPrepend
<1>4. ASSUME NEW l \in Names, NEW i \in 1 .. list[l].length, ListRemove(l, i) PROVE PoolNext
  <2>1. i \in Nat
    BY DEF LInv, ListsTyped
  <2> QED BY <1>2, <1>4, <2>1, ListRemoveStep
<1>5. CASE ClearFrees
  BY <1>2, <1>5, ClearFreesStep DEF ClearFrees
<1>6. CASE CopyAdds
  BY <1>1, <1>6 DEF CopyAdds
<1>7. ASSUME NEW a \in Slots, ReleaseAtom(a) PROVE PoolNext
  <2>1. a \in out
    BY <1>7 DEF ReleaseAtom, LInv, OnePlace, InBatch
  <2> QED BY <1>2, <1>7, <2>1 DEF ReleaseAtom
<1>8. CASE DestroyPools \/ OutOfMemory
  BY <1>8 DEF DestroyPools, OutOfMemory, PoolNext
<1>9. CASE \/ \E l \in Names :
               \/ Create(l) \/ ClearBegins(l) \/ LoopBegins(l) \/ ReleaseHeader(l)
               \/ \E k \in Names, op \in {"copy", "reverse"} : CopyBegins(l, k, op)
           \/ ClearEnds \/ CopyEnds \/ LoopNext \/ LoopEnds
           \/ EnterScope \/ ExitScope \/ End \/ SweepScope \/ TakeBatch
           \/ Over \/ UNCHANGED vars
  BY <1>9 DEF Create, ClearBegins, LoopBegins, ReleaseHeader, CopyBegins, ClearEnds,
              CopyEnds, LoopNext, LoopEnds, EnterScope, ExitScope, End, SweepScope,
              TakeBatch, Over, vars
<1> QED BY <1>3, <1>4, <1>5, <1>6, <1>7, <1>8, <1>9 DEF Next

\* Every step keeps the pool sound ...
LEMMA PoolKept ==
    ASSUME LInv, PInv, [Next]_vars
    PROVE  PInv'
<1>1. Shape /\ Tally
  BY DEF PInv
<1>2. CASE PoolNext
  BY <1>1, <1>2, ShapeStep, TallyStep DEF PInv
<1>3. CASE UNCHANGED pool
  BY <1>1, <1>3 DEF pool, PInv, Shape, PoolTypeOK, EverySlotOnce, FreeSlots, Present, Tally,
                    CountersTrue
<1> QED BY <1>1, <1>2, <1>3, PoolUsed

\* ... and the lists.
LEMMA ListsKept ==
    ASSUME LInv, Shape, ~MethodAdds, [Next]_vars
    PROVE  LInv' /\ (Gone \/ \E l \in Names : Moves(l))
<1> DEFINE Done == LInv' /\ (Gone \/ \E l \in Names : Moves(l))
<1>0. Steady => Gone
  BY DEF Steady, Gone
<1>1. ASSUME NEW l \in Names,
             Create(l) \/ ClearBegins(l) \/ LoopBegins(l) \/ ReleaseHeader(l)
      PROVE  Done
  BY <1>0, <1>1, CreateStep, ClearBeginsStep, LoopBeginsStep, ReleaseHeaderStep
<1>2. ASSUME NEW l \in Names, NEW v \in Values, ListAppend(l, v) \/ ListPrepend(l, v)
      PROVE  Done
  BY <1>2, ListAppendStep, ListPrependStep
<1>3. ASSUME NEW l \in Names, NEW i \in 1 .. list[l].length, ListRemove(l, i) PROVE Done
  <2>1. i \in Nat
    BY DEF LInv, ListsTyped
  <2> QED BY <1>3, <2>1, ListRemoveStep
<1>4. ASSUME NEW l \in Names, NEW k \in Names, NEW op \in {"copy", "reverse"},
             CopyBegins(l, k, op)
      PROVE  Done
  BY <1>4, CopyBeginsStep
<1>5. ASSUME NEW a \in Slots, ReleaseAtom(a) PROVE Done
  BY <1>0, <1>5, ReleaseAtomStep
<1>6. CASE ClearFrees \/ ClearEnds \/ CopyAdds \/ CopyEnds
  BY <1>0, <1>6, ClearFreesStep, ClearEndsStep, CopyAddsStep, CopyEndsStep
<1>7. CASE LoopNext \/ LoopEnds \/ EnterScope \/ ExitScope \/ End
  BY <1>0, <1>7, LoopNextStep, LoopEndsStep, EnterScopeStep, ExitScopeStep, EndStep
<1>8. CASE SweepScope \/ TakeBatch \/ DestroyPools \/ OutOfMemory
  BY <1>0, <1>8, SweepScopeStep, TakeBatchStep, DestroyPoolsStep, OutOfMemoryStep DEF Shape
<1>9. CASE Over \/ UNCHANGED vars
  <2>1. UNCHANGED vars
    BY <1>9 DEF Over
  <2>2. \A k \in Names : Rest(k)' = Rest(k) /\ Top(k)' = Top(k)
        /\ (Exists(k)' <=> Exists(k)) /\ (Cleared(k)' <=> Cleared(k))
    BY <2>1 DEF vars, memory, Rest, Chain, Top, Exists, Cleared, Busy
  <2>3. ASSUME NEW k \in Names, Exists(k)' PROVE Untouched(k, << >>)
    <3>1. Exists(k) /\ home[k] <= level
      BY <2>2, <2>3, Resting
    <3> QED BY <2>1, <2>2, <2>3, <3>1, UntouchedBy DEF vars, memory, samm
  <2>4. Rows' /\ Counted' /\ Standing' /\ Working' /\ Steady
    BY <2>1, <2>3, Quiet DEF vars, memory, samm
  <2>5. OnePlace'
    BY <2>1, Basics, PlaceStays DEF LInv, ListsTyped, vars, samm, pool
  <2>6. ListsTyped' /\ Running'
    BY <2>1 DEF LInv, ListsTyped, Running, Exists, vars, memory, samm
  <2> QED BY <1>0, <2>4, <2>5, <2>6 DEF LInv
<1> QED BY <1>1, <1>2, <1>3, <1>4, <1>5, <1>6, <1>7, <1>8, <1>9 DEF Next

\* list_ops.zig, samm_core.zig: what the lists, the scopes and the queue say
\* of each atom agrees with the pool, whatever the program and the background
\* thread do, as long as a function adds only to lists that it has created.
THEOREM ListsInvariant == ASSUME ~MethodAdds PROVE Spec => [](PInv /\ LInv)
<1>1. Init => PInv /\ LInv
  BY InitPool, InitLists
<1>2. PInv /\ LInv /\ [Next]_vars => (PInv /\ LInv)'
  BY PoolKept, ListsKept DEF PInv
<1> QED BY <1>1, <1>2, PTL DEF Spec

\* samm_pool.zig under the program and the background thread: no slot is lost
\* or handed out twice, and the counters are true.
THEOREM ListsPoolSound == ASSUME ~MethodAdds PROVE Spec => []PoolSound
<1>1. PInv => PoolSound
  BY DEF PInv, Shape, Tally, PoolSound
<1> QED BY <1>1, ListsInvariant, PTL

\* samm_shutdown: every atom is back in the pool when the pool goes.
THEOREM NoLeak == ASSUME ~MethodAdds PROVE Spec => NothingLeaks
<1>1. PInv /\ LInv /\ [Next]_vars => [mode' = "done" => out = {}]_vars
  <2> SUFFICES ASSUME PInv, LInv, Next, mode' = "done" PROVE out = {} \/ UNCHANGED vars
    BY Zenon
  <2>1. CASE DestroyPools
    BY <2>1, DestroyPoolsStep DEF PInv, Shape
  <2>2. CASE Over
    BY <2>2 DEF Over
  <2>3. CASE OutOfMemory \/ End
    BY <2>3 DEF OutOfMemory, End
  <2>4. CASE \E l \in Names :
                 \/ Create(l) \/ ClearBegins(l) \/ LoopBegins(l) \/ ReleaseHeader(l)
                 \/ \E v \in Values : ListAppend(l, v) \/ ListPrepend(l, v)
                 \/ \E i \in 1 .. list[l].length : ListRemove(l, i)
                 \/ \E k \in Names, op \in {"copy", "reverse"} : CopyBegins(l, k, op)
    <3>1. mode \in {"run", "ending"} /\ mode' = mode
      <4>1. PICK l \in Names :
                \/ Create(l) \/ ClearBegins(l) \/ LoopBegins(l) \/ ReleaseHeader(l)
                \/ \E v \in Values : ListAppend(l, v) \/ ListPrepend(l, v)
                \/ \E i \in 1 .. list[l].length : ListRemove(l, i)
                \/ \E k \in Names, op \in {"copy", "reverse"} : CopyBegins(l, k, op)
        BY <2>4
      <4>2. CASE Create(l) \/ ClearBegins(l) \/ LoopBegins(l)
        BY <4>2 DEF Create, ClearBegins, LoopBegins, InProgram
      <4>3. CASE ReleaseHeader(l)
        BY <4>3 DEF ReleaseHeader
      <4>4. CASE \E v \in Values : ListAppend(l, v) \/ ListPrepend(l, v)
        <5>1. PICK v \in Values : ListAppend(l, v) \/ ListPrepend(l, v)
          BY <4>4
        <5> QED BY <5>1 DEF ListAppend, ListPrepend, InProgram
      <4>5. CASE \E i \in 1 .. list[l].length : ListRemove(l, i)
        BY <4>5 DEF ListRemove, InProgram
      <4>6. CASE \E k \in Names, op \in {"copy", "reverse"} : CopyBegins(l, k, op)
        <5>1. PICK k \in Names, op \in {"copy", "reverse"} : CopyBegins(l, k, op)
          BY <4>6
        <5> QED BY <5>1 DEF CopyBegins, InProgram
      <4> QED BY <4>1, <4>2, <4>3, <4>4, <4>5, <4>6
    <3> QED BY <3>1
  <2>5. CASE \E a \in Slots : ReleaseAtom(a)
    BY <2>5 DEF ReleaseAtom, InProgram
  <2>6. CASE ClearFrees \/ ClearEnds \/ CopyAdds \/ CopyEnds \/ LoopNext \/ LoopEnds
    <3>1. mode = "run" /\ mode' = mode
      <4>1. CASE ClearFrees
        BY <4>1 DEF ClearFrees, Busy
      <4>2. CASE ClearEnds
        BY <4>2 DEF ClearEnds, Busy
      <4>3. CASE CopyAdds
        BY <4>3 DEF CopyAdds, Busy
      <4>4. CASE CopyEnds
        BY <4>4 DEF CopyEnds, Busy
      <4>5. CASE LoopNext \/ LoopEnds
        BY <4>5 DEF LoopNext, LoopEnds, InProgram
      <4> QED BY <2>6, <4>1, <4>2, <4>3, <4>4, <4>5
    <3> QED BY <3>1
  <2>7. CASE EnterScope \/ ExitScope \/ SweepScope \/ TakeBatch
    BY <2>7 DEF EnterScope, ExitScope, SweepScope, TakeBatch, InProgram
  <2> QED BY <2>1, <2>2, <2>3, <2>4, <2>5, <2>6, <2>7 DEF Next
<1> QED BY <1>1, ListsInvariant, PTL DEF Spec, NothingLeaks

-----------------------------------------------------------------------------
\* What is left of a row behind its first n atoms.
LEMMA RowTail ==
    ASSUME NEW m, NEW a, NEW c, NEW T, Row(m, a, c, T), NEW n \in 0 .. Len(c)
    PROVE  ChainIn(m, IF n = Len(c) THEN NULL ELSE c[n + 1]) = SubSeq(c, n + 1, Len(c))
<1>1. /\ c \in Seq(Slots) /\ Len(c) \in Nat
      /\ \A i \in 1 .. Len(c) :
             /\ c[i] \in Slots /\ c[i] \in T /\ m[c[i]].value \in Values
             /\ m[c[i]].next = IF i = Len(c) THEN NULL ELSE c[i + 1]
      /\ \A i, j \in 1 .. Len(c) : c[i] = c[j] => i = j
  BY RowFacts
<1>2. PICK d : d = SubSeq(c, n + 1, Len(c))
  OBVIOUS
<1>3. /\ d \in Seq(Slots) /\ Len(d) = Len(c) - n
      /\ \A i \in 1 .. Len(d) : i + n \in 1 .. Len(c) /\ d[i] = c[i + n]
  BY <1>1, <1>2, SMTT(30)
<1>0. Len(d) \in Nat /\ n \in Nat
  BY <1>1, <1>3
<1>4. PICK b : b = IF n = Len(c) THEN NULL ELSE c[n + 1]
  OBVIOUS
<1>5. b = IF d = << >> THEN NULL ELSE d[1]
  <2>1. d = << >> <=> n = Len(c)
    BY <1>1, <1>3
  <2>2. n # Len(c) => 1 \in 1 .. Len(d) /\ 1 + n = n + 1
    BY <1>1, <1>3
  <2> QED BY <1>3, <1>4, <2>1, <2>2
<1>6. ASSUME NEW i \in 1 .. Len(d), NEW j \in 1 .. Len(d), d[i] = d[j] PROVE i = j
  <2>1. i + n = j + n
    BY <1>1, <1>3, <1>6
  <2> QED BY <1>0, <2>1
<1>7. ASSUME NEW i \in 1 .. Len(d)
      PROVE  /\ d[i] \in T /\ m[d[i]].value \in Values
             /\ m[d[i]].next = IF i = Len(d) THEN NULL ELSE d[i + 1]
  <2>1. i + n \in 1 .. Len(c) /\ d[i] = c[i + n] /\ (i = Len(d) <=> i + n = Len(c))
    BY <1>1, <1>3
  <2>2. i # Len(d) => d[i + 1] = c[(i + n) + 1]
    <3> HAVE i # Len(d)
    <3>1. i + 1 \in 1 .. Len(d) /\ (i + 1) + n = (i + n) + 1
      BY <1>0
    <3> QED BY <1>3, <3>1
  <2> QED BY <1>1, <2>1, <2>2
<1>8. Row(m, b, d, T)
  BY <1>3, <1>5, <1>6, <1>7, RowBy
<1>9. ChainIn(m, b) = d
  BY <1>8, RowFacts
<1> QED BY <1>2, <1>4, <1>9

\* A row without an atom twice has as many atoms as it is long.
LEMMA OnceCounted ==
    ASSUME NEW c \in Seq(Slots), Once(c)
    PROVE  Cardinality(Entries(c)) = Len(c)
<1>1. Len(c) \in Nat /\ c \in [1 .. Len(c) -> Entries(c)]
  BY DEF Entries
<1>2. c \in Bijection(1 .. Len(c), Entries(c))
  BY <1>1 DEF Once, Entries, Bijection, Injection, Surjection, IsInjective
<1>3. IsFiniteSet(1 .. Len(c)) /\ Cardinality(1 .. Len(c)) = Len(c)
  BY <1>1, FS_Interval, SMTT(30)
<1>4. Cardinality(1 .. Len(c)) = Cardinality(Entries(c))
  BY <1>2, <1>3, FS_Bijection DEF ExistsBijection
<1> QED BY <1>3, <1>4

\* The values of a list are those of its row.
LEMMA ValuesOf ==
    ASSUME LInv, NEW l \in Names, Exists(l), ~Cleared(l)
    PROVE  ValuesFrom(list[l].head) = [i \in 1 .. Len(Rest(l)) |-> atom[Rest(l)[i]].value]
<1>1. Chain(list[l].head) = Rest(l)
  BY Resting
<1> QED BY <1>1 DEF ValuesFrom

\* A function on 1 .. n is a sequence.
LEMMA SeqIsFunction ==
    ASSUME NEW S, NEW n \in Nat, NEW g \in [1 .. n -> S]
    PROVE  g \in Seq(S) /\ Len(g) = n
OBVIOUS

\* A sequence cut in two behind its first n elements.
LEMMA CutAt ==
    ASSUME NEW f, NEW N \in Nat, NEW n \in 0 .. N,
           NEW u, u = [i \in 1 .. n |-> f[i]],
           NEW k, k = N - n, NEW v, v = [i \in 1 .. k |-> f[i + n]]
    PROVE  u \o v = [i \in 1 .. N |-> f[i]]
<1>0. PICK S : S = {f[i] : i \in 1 .. N}
  OBVIOUS
<1>1. u \in Seq(S) /\ Len(u) = n
  <2>1. u \in [1 .. n -> S] /\ n \in Nat
    BY <1>0
  <2> QED BY <2>1, SeqIsFunction
<1>2. v \in Seq(S) /\ Len(v) = k /\ k \in Nat
  <2>1. k \in Nat /\ \A i \in 1 .. k : i + n \in 1 .. N
    OBVIOUS
  <2>2. v \in [1 .. k -> S]
    BY <1>0, <2>1
  <2> QED BY <2>1, <2>2, SeqIsFunction
<1>3. PICK w : w = u \o v
  OBVIOUS
<1>4. /\ w \in Seq(S) /\ Len(w) = N
      /\ \A i \in 1 .. N : w[i] = IF i <= n THEN u[i] ELSE v[i - n]
  BY <1>1, <1>2, <1>3, ConcatProperties
<1>5. ASSUME NEW i \in 1 .. N PROVE w[i] = f[i]
  <2>1. CASE i <= n
    <3>1. w[i] = u[i] /\ i \in 1 .. n
      BY <1>4, <2>1, SMTT(30)
    <3> QED BY <3>1
  <2>2. CASE ~(i <= n)
    <3>1. PICK j \in 1 .. k : j = i - n /\ j + n = i
      BY <2>2
    <3>2. w[i] = v[j]
      BY <1>4, <2>2, <3>1
    <3>3. v[j] = f[j + n]
      OBVIOUS
    <3> QED BY <3>1, <3>2, <3>3
  <2> QED BY <2>1, <2>2
<1>6. w = [i \in 1 .. N |-> w[i]]
  BY <1>4
<1> QED BY <1>3, <1>5, <1>6

\* A COPY or a REVERSE under way is exact.
LEMMA CopyIsExact == LInv => CopyExact
<1> SUFFICES ASSUME LInv, Busy, job.op \in {"copy", "reverse"}
             PROVE  LET got == ValuesFrom(list[job.into].head)
                        left == ValuesFrom(job.at)
                        all == ValuesFrom(list[job.list].head)
                    IN  /\ job.op = "copy" => got \o left = all
                        /\ job.op = "reverse" => Reverse(got) \o left = all
  BY DEF CopyExact
<1>0. PICK l \in Names, k \in Names : l = job.list /\ k = job.into
  BY DEF LInv, Working, Busy
<1>1. Exists(l) /\ Exists(k) /\ Copied(l, k) /\ ~Cleared(l) /\ ~Cleared(k)
  BY <1>0 DEF LInv, Working, Busy, Cleared
<1>2. PICK c, d : c = Rest(l) /\ d = Rest(k)
  OBVIOUS
<1>3. PICK f : f = [i \in 1 .. Len(c) |-> atom[c[i]].value]
  OBVIOUS
<1>4. PICK got, left, all : /\ got = ValuesFrom(list[k].head) /\ left = ValuesFrom(job.at)
                            /\ all = ValuesFrom(list[l].head)
  OBVIOUS
<1>5. /\ Row(atom, Top(l), c, tracked[home[l]]) /\ Len(c) \in Nat /\ Len(d) \in Nat
      /\ c \in Seq(Slots)
  BY <1>1, <1>2, Resting
<1>6. /\ Len(d) <= Len(c)
      /\ job.at = IF Len(d) = Len(c) THEN NULL ELSE c[Len(d) + 1]
      /\ \A i \in 1 .. Len(d) :
             atom[d[i]].value = atom[c[IF job.op = "copy" THEN i ELSE Len(d) + 1 - i]].value
  BY <1>1, <1>2 DEF Copied
<1>7. all = [i \in 1 .. Len(c) |-> f[i]]
  BY <1>1, <1>2, <1>3, <1>4, ValuesOf
<1>8. left = [i \in 1 .. Len(c) - Len(d) |-> f[i + Len(d)]]
  <2>1. PICK e : e = SubSeq(c, Len(d) + 1, Len(c))
    OBVIOUS
  <2>2. /\ Len(e) = Len(c) - Len(d)
        /\ \A i \in 1 .. Len(e) : i + Len(d) \in 1 .. Len(c) /\ e[i] = c[i + Len(d)]
    BY <1>5, <1>6, <2>1
  <2>3. Chain(job.at) = e
    BY <1>5, <1>6, <2>1, RowTail DEF Chain
  <2>4. left = [i \in 1 .. Len(e) |-> atom[e[i]].value]
    BY <1>4, <2>3 DEF ValuesFrom
  <2>5. \A i \in 1 .. Len(e) : atom[e[i]].value = f[i + Len(d)]
    BY <1>3, <2>2
  <2> QED BY <2>2, <2>4, <2>5
<1>9. got = [i \in 1 .. Len(d) |-> atom[d[i]].value]
  BY <1>1, <1>2, <1>4, ValuesOf
<1>10. CASE job.op = "copy"
  <2>1. \A i \in 1 .. Len(d) : atom[d[i]].value = f[i]
    BY <1>3, <1>5, <1>6, <1>10
  <2>2. got = [i \in 1 .. Len(d) |-> f[i]]
    BY <1>9, <2>1
  <2>3. got \o left = all
    BY <1>5, <1>6, <1>7, <1>8, <2>2, CutAt
  <2> QED BY <1>0, <1>4, <1>10, <2>3
<1>11. CASE job.op = "reverse"
  <2>1. Len(got) = Len(d)
    BY <1>5, <1>9
  <2>2. Reverse(got) = [i \in 1 .. Len(d) |-> got[(Len(d) - i) + 1]]
    BY <2>1 DEF Reverse
  <2>3. ASSUME NEW i \in 1 .. Len(d) PROVE got[(Len(d) - i) + 1] = f[i]
    <3>1. PICK j \in 1 .. Len(d) : j = (Len(d) - i) + 1
      BY <1>5
    <3>2. Len(d) + 1 - j = i /\ i \in 1 .. Len(c)
      BY <1>5, <1>6, <3>1
    <3>3. atom[d[j]].value = atom[c[i]].value
      BY <1>6, <1>11, <3>2
    <3> QED BY <1>3, <1>9, <3>1, <3>2, <3>3
  <2>4. Reverse(got) = [i \in 1 .. Len(d) |-> f[i]]
    BY <2>2, <2>3
  <2>5. Reverse(got) \o left = all
    BY <1>5, <1>6, <1>7, <1>8, <2>4, CutAt
  <2> QED BY <1>0, <1>4, <1>11, <2>5
<1> QED BY <1>10, <1>11

\* list_ops.zig: the head, the tail and the length of a list agree at every
\* step of the program and of the background thread; every atom is in one list
\* at most and is tracked where its list was created, so that it goes back to
\* the pool with it; FOR EACH stands in its list; COPY and REVERSE are exact.
THEOREM Soundness == ASSUME ~MethodAdds PROVE Spec => []ListsSound
<1>1. LInv => ListsSound
  <2> SUFFICES ASSUME LInv PROVE ListsSound
    OBVIOUS
  <2>1. ASSUME NEW l \in Whole
        PROVE  LET c == Chain(list[l].head)
               IN  /\ list[l].length = Len(c)
                   /\ list[l].tail = IF c = << >> THEN NULL ELSE Last(c)
                   /\ ToSet(c) \subseteq out \cap tracked[home[l]]
                   /\ Cardinality(ToSet(c)) = Len(c)
                   /\ \A k \in Whole \ {l} : ToSet(c) \cap Atoms(k) = {}
    <3>0. l \in Names /\ Exists(l) /\ ~Cleared(l)
      BY DEF Whole
    <3>1. PICK c : c = Rest(l)
      OBVIOUS
    <3>2. /\ c = Chain(list[l].head) /\ Len(c) \in Nat /\ c \in Seq(Slots)
          /\ \A i \in 1 .. Len(c) : c[i] \in out \cap tracked[home[l]]
      BY <3>0, <3>1, Resting
    <3>3. list[l].length = Len(c) /\ list[l].tail = IF c = << >> THEN NULL ELSE c[Len(c)]
      BY <3>1 DEF LInv, Counted, Counts
    <3>4. \A i, j \in 1 .. Len(c) : c[i] = c[j] => i = j
      <4>1. Row(atom, Top(l), c, tracked[home[l]])
        BY <3>0, <3>1, Resting
      <4> QED BY <4>1, RowFacts
    <3>5. ToSet(c) = {c[i] : i \in 1 .. Len(c)}
      BY <3>2 DEF ToSet
    <3>6. Cardinality(ToSet(c)) = Len(c)
      <4>1. Once(c)
        BY <3>4 DEF Once
      <4> QED BY <3>2, <3>5, <4>1, OnceCounted DEF Entries
    <3>7. \A k \in Whole \ {l} : ToSet(c) \cap Atoms(k) = {}
      <4> SUFFICES ASSUME NEW k \in Whole \ {l} PROVE ToSet(c) \cap Atoms(k) = {}
        OBVIOUS
      <4>1. k \in Names /\ Exists(k) /\ ~Cleared(k)
        BY DEF Whole
      <4>2. Chain(list[k].head) = Rest(k) /\ Rest(k) \in Seq(Slots)
        BY <4>1, Resting
      <4>3. Atoms(k) = {Rest(k)[i] : i \in 1 .. Len(Rest(k))}
        BY <4>2 DEF Atoms, ToSet
      <4>4. \A i \in 1 .. Len(c), j \in 1 .. Len(Rest(k)) : c[i] # Rest(k)[j]
        BY <3>0, <3>1, <4>1 DEF LInv, Rows
      <4> QED BY <3>5, <4>3, <4>4
    <3>8. Last(c) = c[Len(c)]
      BY DEF Last
    <3> QED BY <3>2, <3>3, <3>5, <3>6, <3>7, <3>8
  <2>2. \A l \in Names : Exists(l) => l \in tracked[home[l]]
    BY DEF LInv, Rows
  <2>3. cursor.at # NULL => cursor.list \in Whole /\ cursor.at \in Atoms(cursor.list)
    <3> SUFFICES ASSUME cursor.at # NULL
                 PROVE  cursor.list \in Whole /\ cursor.at \in Atoms(cursor.list)
      OBVIOUS
    <3>1. PICK h : h = cursor.list
      OBVIOUS
    <3>2. h \in Whole /\ cursor.at \in Entries(Rest(h))
      BY <3>1 DEF LInv, Standing
    <3>3. Chain(list[h].head) = Rest(h) /\ Rest(h) \in Seq(Slots)
      BY <3>2, Resting DEF Whole
    <3> QED BY <3>1, <3>2, <3>3 DEF Atoms, ToSet, Entries
  <2> QED BY <2>1, <2>2, <2>3, CopyIsExact DEF ListsSound
<1> QED BY <1>1, ListsInvariant, PTL

-----------------------------------------------------------------------------
\* A COPY or a REVERSE that is over has taken every value.
LEMMA CopyIsWhole ==
    ASSUME LInv, CopyEnds, NEW k \in Names, k = job.into
    PROVE  Contents(k)' = IF job.op = "copy" THEN Contents(job.list)
                          ELSE Reverse(Contents(job.list))
<1> USE DEF CopyEnds, Busy
<1>1. PICK l \in Names : l = job.list
  BY DEF LInv, Working
<1>2. Exists(l) /\ Exists(k) /\ ~Cleared(l) /\ ~Cleared(k)
  BY <1>1 DEF LInv, Working, Cleared
<1>3. PICK got, all : got = Contents(k) /\ all = Contents(l)
  OBVIOUS
<1>4. got \in Seq(Values) /\ all \in Seq(Values)
  BY <1>2, <1>3, ContentsAre
<1>5. ValuesFrom(NULL) = << >>
  <2>1. Row(atom, NULL, << >>, {})
    BY EmptyRow
  <2>2. Chain(NULL) = << >>
    BY <2>1, RowFacts DEF Chain
  <2> QED BY <2>2 DEF ValuesFrom
<1>6. /\ job.op = "copy" => got \o << >> = all
      /\ job.op = "reverse" => Reverse(got) \o << >> = all
  BY <1>1, <1>2, <1>3, <1>5, CopyIsExact DEF CopyExact, Contents
<1>7. Contents(k)' = got
  BY <1>3, CopyEndsStep DEF Steady, Stays
<1>8. CASE job.op = "copy"
  <2>1. got \o << >> = got
    BY <1>4, ConcatEmptySeq
  <2> QED BY <1>1, <1>3, <1>6, <1>7, <1>8, <2>1, Zenon
<1>9. CASE job.op = "reverse"
  <2>1. /\ Reverse(got) \in Seq(Values) /\ Len(Reverse(got)) = Len(got)
        /\ \A i \in 1 .. Len(got) : Reverse(got)[i] = got[(Len(got) - i) + 1]
    BY <1>4 DEF Reverse
  <2>2. Reverse(got) = all
    BY <1>6, <1>9, <2>1, ConcatEmptySeq
  <2>3. /\ Len(all) = Len(got) /\ Len(got) \in Nat
        /\ \A i \in 1 .. Len(got) : all[i] = got[(Len(got) - i) + 1]
    BY <1>4, <2>1, <2>2
  <2>4. ASSUME NEW i \in 1 .. Len(got) PROVE all[(Len(all) - i) + 1] = got[i]
    <3>1. PICK j \in 1 .. Len(got) : j = (Len(all) - i) + 1 /\ (Len(got) - j) + 1 = i
      BY <2>3
    <3> QED BY <2>3, <3>1
  <2>5. Reverse(all) = got
    <3>1. Reverse(all) = [i \in 1 .. Len(got) |-> all[(Len(all) - i) + 1]]
      BY <2>3 DEF Reverse
    <3>2. got = [i \in 1 .. Len(got) |-> got[i]]
      BY <1>4
    <3> QED BY <2>4, <3>1, <3>2
  <2> QED BY <1>1, <1>3, <1>7, <1>9, <2>5
<1> QED BY <1>8, <1>9

\* list_ops.zig: APPEND, PREPEND, SHIFT, POP, REMOVE, CLEAR, COPY and REVERSE
\* leave in the chain exactly what the program asked for, at any moment of the
\* background thread, in a program whose functions add to their own lists only.
THEOREM DoesAsAsked == ASSUME ~MethodAdds PROVE Spec => AsAsked
<1> DEFINE Asked ==
      \A l \in Names :
        /\ \A v \in Values :
            /\ ListAppend(l, v) => Contents(l)' = Append(Contents(l), v)
            /\ ListPrepend(l, v) => Contents(l)' = <<v>> \o Contents(l)
        /\ \A i \in 1 .. list[l].length :
            ListRemove(l, i) => Contents(l)' = RemoveAt(Contents(l), i)
        /\ ClearEnds /\ l = job.list => Contents(l)' = << >>
        /\ CopyEnds /\ l = job.into =>
            Contents(l)' = IF job.op = "copy" THEN Contents(job.list)
                           ELSE Reverse(Contents(job.list))
<1>1. PInv /\ LInv => Asked
  <2> SUFFICES ASSUME PInv, LInv, NEW l \in Names
               PROVE  /\ \A v \in Values :
                          /\ ListAppend(l, v) => Contents(l)' = Append(Contents(l), v)
                          /\ ListPrepend(l, v) => Contents(l)' = <<v>> \o Contents(l)
                      /\ \A i \in 1 .. list[l].length :
                          ListRemove(l, i) => Contents(l)' = RemoveAt(Contents(l), i)
                      /\ ClearEnds /\ l = job.list => Contents(l)' = << >>
                      /\ CopyEnds /\ l = job.into =>
                          Contents(l)' = IF job.op = "copy" THEN Contents(job.list)
                                         ELSE Reverse(Contents(job.list))
    OBVIOUS
  <2>1. \A v \in Values :
            /\ ListAppend(l, v) => Contents(l)' = Append(Contents(l), v)
            /\ ListPrepend(l, v) => Contents(l)' = <<v>> \o Contents(l)
    BY ListAppendStep, ListPrependStep DEF PInv
  <2>2. ASSUME NEW i \in 1 .. list[l].length, ListRemove(l, i)
        PROVE  Contents(l)' = RemoveAt(Contents(l), i)
    <3>1. i \in Nat
      BY DEF LInv, ListsTyped
    <3> QED BY <2>2, <3>1, ListRemoveStep
  <2>3. ASSUME ClearEnds, l = job.list PROVE Contents(l)' = << >>
    <3>1. Exists(l) /\ Cleared(l)
      BY <2>3 DEF ClearEnds, Busy, Cleared, LInv, Working
    <3>2. Contents(l)' = Contents(l)
      BY <2>3, ClearEndsStep DEF Steady, Stays
    <3> QED BY <3>1, <3>2 DEF Contents
  <2>4. CopyEnds /\ l = job.into =>
            Contents(l)' = IF job.op = "copy" THEN Contents(job.list)
                           ELSE Reverse(Contents(job.list))
    BY CopyIsWhole
  <2> QED BY <2>1, <2>2, <2>3, <2>4
<1> QED BY <1>1, ListsInvariant, PTL DEF AsAsked

-----------------------------------------------------------------------------
\* What a step does to the lists is a step of the abstract specification, or
\* changes nothing there.
LEMMA StepMeans ==
    ASSUME Gone \/ \E l \in Names : Moves(l)
    PROVE  [Seqs!Next]_([l \in Names |-> Contents(l)])
<1> DEFINE value == [l \in Names |-> Contents(l)]
           changed == {l \in Names : value'[l] # value[l]}
<1>1. \A l \in Names : value[l] = Contents(l) /\ value'[l] = Contents(l)'
  OBVIOUS
<1>2. \A l \in Names : Stays(l) <=> l \notin changed
  BY <1>1 DEF Stays
<1> HIDE DEF value
<1>3. Seqs!Next <=> \/ \E l \in changed : changed = {l} /\ Seqs!Becomes(value[l], value'[l])
                    \/ \A l \in changed : value'[l] = NULL
  BY DEF Seqs!Next, value
<1>4. CASE Gone
  <2>1. \A l \in changed : value'[l] = NULL
    BY <1>1, <1>2, <1>4 DEF Gone
  <2> QED BY <1>3, <2>1 DEF value
<1>5. ASSUME NEW l \in Names, Moves(l) PROVE [Seqs!Next]_value
  <2>1. changed \subseteq {l}
    BY <1>2, <1>5 DEF Moves
  <2>2. CASE l \in changed
    <3>1. changed = {l} /\ Seqs!Becomes(value[l], value'[l])
      BY <1>1, <1>2, <1>5, <2>1, <2>2 DEF Moves
    <3> QED BY <1>3, <2>2, <3>1
  <2>3. CASE l \notin changed
    <3>1. \A k \in changed : value'[k] = NULL
      BY <2>1, <2>3
    <3> QED BY <1>3, <3>1
  <2> QED BY <2>2, <2>3
<1> QED BY <1>4, <1>5 DEF value

\* LIST_DESIGN.md, 4 and 5: behind each variable there is a sequence of values,
\* and a step of list_ops.zig changes one of them in the way of a list operation
\* (in the way of the one asked for: AsAsked); the pointers, the pool, the scopes
\* and the background thread do not show.
THEOREM Implements == ASSUME ~MethodAdds PROVE Spec => IsLists
<1>1. Init => Seqs!Init
  BY DEF Init, Seqs!Init, Contents, Exists
<1>2. PInv /\ LInv /\ [Next]_vars => [Seqs!Next]_([l \in Names |-> Contents(l)])
  BY ListsKept, StepMeans DEF PInv
<1> QED BY <1>1, <1>2, ListsInvariant, PTL DEF Spec, IsLists, Seqs!Spec
=============================================================================
