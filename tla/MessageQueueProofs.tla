------------------------ MODULE MessageQueueProofs ------------------------
(***************************************************************************)
(* Proofs about MessageQueue, for every set of threads and blobs and every *)
(* capacity.  First the operators of RingQueue: they keep the record well  *)
(* formed, and seen through Contents they are Append and Tail.  Then the   *)
(* steps: the inductive invariant is type correctness, the shape of the    *)
(* ring and the single owner of every blob, proved together: that a slot   *)
(* is free to be overwritten follows from the shape, that a push does not  *)
(* duplicate a blob from the single owner.                                 *)
(***************************************************************************)
EXTENDS MessageQueue, SequenceTheorems, FiniteSetTheorems, TLAPS

\* An index that runs past the end of the array once wraps to its front.
LEMMA Wrap ==
    \A a \in 0 .. (2 * Capacity - 1) :
        a % Capacity = IF a < Capacity THEN a ELSE a - Capacity
BY CapacityAssumption, SMTT(30)

\* The distance of a slot from head decides whether it is in the window.
Distance(u, s) == IF s >= u.head THEN s - u.head ELSE s - u.head + Capacity

\* The window is the set of slots nearer to head than count.
LEMMA WindowByDistance ==
    ASSUME NEW u \in QueueRecord, NEW s \in Slots
    PROVE  s \in Window(u) <=> Distance(u, s) < u.count
<1> USE CapacityAssumption DEF Slots
<1> /\ u.head \in 0 .. Capacity - 1 /\ u.count \in 0 .. Capacity
    BY DEF QueueRecord
<1>1. ASSUME s \in Window(u) PROVE Distance(u, s) < u.count
  <2>1. PICK i \in 1 .. u.count : s = (u.head + i - 1) % Capacity
    BY <1>1 DEF Window
  <2>2. CASE u.head + i - 1 < Capacity
    <3>1. s = u.head + i - 1
      BY <2>1, <2>2, Wrap
    <3> QED  BY <3>1 DEF Distance
  <2>3. CASE u.head + i - 1 >= Capacity
    <3>1. s = u.head + i - 1 - Capacity
      BY <2>1, <2>3, Wrap
    <3> QED  BY <3>1 DEF Distance
  <2> QED  BY <2>2, <2>3
<1>2. ASSUME Distance(u, s) < u.count PROVE s \in Window(u)
  <2> DEFINE i == Distance(u, s) + 1
  <2>1. i \in 1 .. u.count
    BY <1>2 DEF Distance
  <2>2. CASE s >= u.head
    <3>1. u.head + i - 1 = s
      BY <2>2 DEF Distance
    <3>2. (u.head + i - 1) % Capacity = s
      BY <3>1, Wrap
    <3> QED  BY <2>1, <3>2 DEF Window
  <2>3. CASE s < u.head
    <3>1. u.head + i - 1 = s + Capacity
      BY <2>3 DEF Distance
    <3>2. (u.head + i - 1) % Capacity = s
      BY <3>1, Wrap
    <3> QED  BY <2>1, <3>2 DEF Window
  <2> QED  BY <2>2, <2>3
<1> QED  BY <1>1, <1>2

-----------------------------------------------------------------------------
\* msg_queue_create returns a well-formed, empty queue.
LEMMA NewQueueFacts ==
    /\ NewQueue \in QueueRecord
    /\ RingShape(NewQueue)
    /\ NoDuplicate(NewQueue)
    /\ Held(NewQueue) = {}
    /\ Contents(NewQueue) = << >>
<1> USE CapacityAssumption DEF Slots, NewQueue
<1>1. NewQueue \in QueueRecord
  BY DEF QueueRecord
<1>2. Window(NewQueue) = {}
  BY DEF Window
<1>3. RingShape(NewQueue)
  <2>1. (0 + 0) % Capacity = 0
    BY Wrap
  <2>2. \A s \in Slots : NewQueue.slots[s] = NULL
    OBVIOUS
  <2>3. NewQueue.tail = (NewQueue.head + NewQueue.count) % Capacity
    BY <2>1
  <2> QED  BY <1>2, <2>2, <2>3 DEF RingShape
<1>4. Contents(NewQueue) = << >>
  BY DEF Contents
<1> QED  BY <1>1, <1>3, <1>4 DEF NoDuplicate, Held

\* The enqueue keeps the record well formed, adds its blob to those held and
\* does not disturb the others.
LEMMA EnqueueFacts ==
    ASSUME NEW u \in QueueRecord, NEW b \in Blobs, RingShape(u), ~IsFull(u),
           NEW r, r = Enqueue(u, b)
    PROVE  /\ r \in QueueRecord
           /\ RingShape(r)
           /\ Held(r) = Held(u) \cup {b}
           /\ NoDuplicate(u) /\ b \notin Held(u) => NoDuplicate(r)
<1> USE CapacityAssumption, NullAssumption
<1>1. /\ u.head \in 0 .. Capacity - 1 /\ u.tail \in 0 .. Capacity - 1
      /\ u.count \in 0 .. Capacity - 1
      /\ u.slots \in [Slots -> Blobs \cup {NULL}] /\ u.closed \in BOOLEAN
  BY DEF QueueRecord, IsFull, Slots
<1>2. /\ r.slots = [u.slots EXCEPT ![u.tail] = b]
      /\ r.tail = (u.tail + 1) % Capacity
      /\ r.head = u.head /\ r.count = u.count + 1 /\ r.closed = u.closed
  BY DEF Enqueue
<1>3. r.tail = IF u.tail + 1 < Capacity THEN u.tail + 1 ELSE 0
  <2>1. u.tail + 1 \in 0 .. (2 * Capacity - 1)
    BY <1>1
  <2> QED  BY <2>1, <1>1, <1>2, Wrap
<1>4. r \in QueueRecord
  <2>1. r.tail \in Slots /\ r.count \in 0 .. Capacity
    BY <1>1, <1>2, <1>3, SMTT(60) DEF Slots
  <2>2. r.slots \in [Slots -> Blobs \cup {NULL}]
    BY <1>1, <1>2 DEF Slots
  <2> QED  BY <1>1, <1>2, <2>1, <2>2 DEF QueueRecord, Enqueue, Slots
<1>5. u.tail = IF u.head + u.count < Capacity THEN u.head + u.count
               ELSE u.head + u.count - Capacity
  <2>1. u.head + u.count \in 0 .. (2 * Capacity - 1)
    BY <1>1
  <2>2. u.tail = (u.head + u.count) % Capacity
    BY DEF RingShape
  <2> QED  BY <2>1, <2>2, <1>1, Wrap
<1>6. u.slots[u.tail] = NULL
  <2>1. ~(Distance(u, u.tail) < u.count)
    BY <1>1, <1>5 DEF Distance
  <2> QED  BY <2>1, <1>1, WindowByDistance DEF RingShape, Slots
<1>7. RingShape(r)
  <2>1. r.tail = (r.head + r.count) % Capacity
    <3> DEFINE n == u.head + (u.count + 1)
    <3>1. n \in 0 .. (2 * Capacity - 1)
      BY <1>1
    <3>2. n % Capacity = IF n < Capacity THEN n ELSE n - Capacity
      <4> HIDE DEF n
      <4> QED  BY <3>1, Wrap
    <3>3. r.tail = n % Capacity
      BY <3>2, <1>1, <1>3, <1>5
    <3> QED  BY <3>3, <1>2
  <2>2. ASSUME NEW s \in Slots PROVE r.slots[s] # NULL <=> s \in Window(r)
    <3>1. s \in Window(r) <=> Distance(u, s) < u.count + 1
      BY <1>2, <1>4, WindowByDistance DEF Distance
    <3>2. s \in Window(u) <=> Distance(u, s) < u.count
      BY WindowByDistance
    <3>3. Distance(u, s) = u.count <=> s = u.tail
      BY <1>1, <1>5, SMTT(60) DEF Distance, Slots
    <3>4. Distance(u, s) \in Int
      BY <1>1 DEF Distance, Slots
    <3>5. CASE s = u.tail
      BY <3>5, <3>1, <3>3, <1>1, <1>2 DEF Slots
    <3>6. CASE s # u.tail
      <4>1. r.slots[s] = u.slots[s]
        BY <3>6, <1>1, <1>2
      <4>2. Distance(u, s) < u.count + 1 <=> Distance(u, s) < u.count
        BY <3>6, <3>3, <3>4, <1>1
      <4> QED  BY <4>1, <4>2, <3>1, <3>2 DEF RingShape
    <3> QED  BY <3>5, <3>6
  <2> QED  BY <2>1, <2>2 DEF RingShape
<1>8. Held(r) = Held(u) \cup {b}
  <2>1. u.tail \in Slots
    BY <1>1 DEF Slots
  <2> QED  BY <2>1, <1>1, <1>2, <1>6 DEF Held
<1>9. NoDuplicate(u) /\ b \notin Held(u) => NoDuplicate(r)
  BY <1>1, <1>2 DEF NoDuplicate, Held
<1> QED  BY <1>4, <1>7, <1>8, <1>9

\* msg_queue_pop and the drain loop find a blob at head.  The dequeue keeps
\* the record well formed and removes that blob only.
LEMMA DequeueFacts ==
    ASSUME NEW u \in QueueRecord, RingShape(u), ~IsEmpty(u),
           NEW r, r = Dequeue(u)
    PROVE  /\ Front(u) \in Blobs
           /\ r \in QueueRecord
           /\ RingShape(r)
           /\ Front(u) \in Held(u)
           /\ NoDuplicate(u) => Held(r) = Held(u) \ {Front(u)}
           /\ NoDuplicate(u) => NoDuplicate(r)
<1> USE CapacityAssumption, NullAssumption
<1>1. /\ u.head \in 0 .. Capacity - 1 /\ u.tail \in 0 .. Capacity - 1
      /\ u.count \in 1 .. Capacity
      /\ u.slots \in [Slots -> Blobs \cup {NULL}] /\ u.closed \in BOOLEAN
  BY DEF QueueRecord, IsEmpty, Slots
<1>2. /\ r.slots = [u.slots EXCEPT ![u.head] = NULL]
      /\ r.head = (u.head + 1) % Capacity
      /\ r.tail = u.tail /\ r.count = u.count - 1 /\ r.closed = u.closed
  BY DEF Dequeue
<1>3. r.head = IF u.head + 1 < Capacity THEN u.head + 1 ELSE 0
  <2>1. u.head + 1 \in 0 .. (2 * Capacity - 1)
    BY <1>1
  <2> QED  BY <2>1, <1>1, <1>2, Wrap
<1>4. r \in QueueRecord
  <2>1. r.head \in Slots /\ r.count \in 0 .. Capacity
    BY <1>1, <1>2, <1>3 DEF Slots
  <2>2. r.slots \in [Slots -> Blobs \cup {NULL}]
    BY <1>1, <1>2 DEF Slots
  <2> QED  BY <1>1, <1>2, <2>1, <2>2 DEF QueueRecord, Dequeue, Slots
<1>5. u.head \in Slots /\ Front(u) # NULL
  <2>1. Distance(u, u.head) < u.count
    BY <1>1 DEF Distance
  <2>2. u.head \in Slots
    BY <1>1 DEF Slots
  <2> QED  BY <2>1, <2>2, WindowByDistance DEF RingShape, Front
<1>6. RingShape(r)
  <2>1. r.tail = (r.head + r.count) % Capacity
    <3> DEFINE n == u.head + u.count
               k == r.head + r.count
    <3>1. n \in 0 .. (2 * Capacity - 1) /\ k \in 0 .. (2 * Capacity - 1)
      BY <1>1, <1>2, <1>3
    <3>2. /\ n % Capacity = IF n < Capacity THEN n ELSE n - Capacity
          /\ k % Capacity = IF k < Capacity THEN k ELSE k - Capacity
      <4> HIDE DEF n, k
      <4> QED  BY <3>1, Wrap
    <3>3. u.tail = n % Capacity
      BY DEF RingShape
    <3>4. k = IF u.head + 1 < Capacity THEN n ELSE n - Capacity
      BY <1>1, <1>2, <1>3
    <3>5. n % Capacity = k % Capacity
      BY <3>1, <3>2, <3>4, <1>1
    <3> QED  BY <3>3, <3>5, <1>2
  <2>2. ASSUME NEW s \in Slots PROVE r.slots[s] # NULL <=> s \in Window(r)
    <3>1. s \in Window(r) <=> Distance(r, s) < u.count - 1
      BY <1>2, <1>4, WindowByDistance
    <3>2. s \in Window(u) <=> Distance(u, s) < u.count
      BY WindowByDistance
    <3>3. Distance(r, s) = IF s = u.head THEN Capacity - 1
                           ELSE Distance(u, s) - 1
      BY <1>1, <1>3, SMTT(60) DEF Distance, Slots
    <3>4. Distance(u, s) \in Int
      BY <1>1 DEF Distance, Slots
    <3>5. CASE s = u.head
      BY <3>5, <3>1, <3>3, <1>1, <1>2, <1>5
    <3>6. CASE s # u.head
      <4>1. r.slots[s] = u.slots[s]
        BY <3>6, <1>1, <1>2
      <4>2. Distance(r, s) < u.count - 1 <=> Distance(u, s) < u.count
        BY <3>6, <3>3, <3>4, <1>1
      <4> QED  BY <4>1, <4>2, <3>1, <3>2 DEF RingShape
    <3> QED  BY <3>5, <3>6
  <2> QED  BY <2>1, <2>2 DEF RingShape
<1>7. Front(u) \in Blobs /\ Front(u) \in Held(u)
  BY <1>1, <1>5 DEF Front, Held
<1>8. NoDuplicate(u) => Held(r) = Held(u) \ {Front(u)}
  BY <1>1, <1>2, <1>5 DEF Front, Held, NoDuplicate
<1>9. NoDuplicate(u) => NoDuplicate(r)
  BY <1>1, <1>2, <1>5 DEF NoDuplicate
<1> QED  BY <1>4, <1>6, <1>7, <1>8, <1>9

\* msg_queue_close touches the flag alone.
LEMMA ClosedFacts ==
    ASSUME NEW u \in QueueRecord, NEW r, r = Closed(u)
    PROVE  /\ r \in QueueRecord
           /\ r.closed = TRUE /\ r.count = u.count
           /\ RingShape(u) => RingShape(r)
           /\ NoDuplicate(u) => NoDuplicate(r)
           /\ Held(r) = Held(u)
           /\ Contents(r) = Contents(u)
<1>1. /\ r \in QueueRecord /\ r.closed = TRUE
      /\ r.slots = u.slots /\ r.head = u.head
      /\ r.tail = u.tail /\ r.count = u.count
  BY DEF Closed, QueueRecord
<1> QED  BY <1>1 DEF RingShape, Window, NoDuplicate, Held, Contents, At

-----------------------------------------------------------------------------
\* The place of the i-th message, counted from head.
LEMMA Place ==
    ASSUME NEW u \in QueueRecord, NEW i \in 1 .. Capacity
    PROVE  (u.head + i - 1) % Capacity =
              IF u.head + i - 1 < Capacity THEN u.head + i - 1
              ELSE u.head + i - 1 - Capacity
<1> USE CapacityAssumption
<1>1. u.head \in 0 .. Capacity - 1
  BY DEF QueueRecord, Slots
<1>2. PICK a : a = u.head + i - 1
  OBVIOUS
<1>3. a \in 0 .. (2 * Capacity - 1)
  BY <1>1, <1>2
<1>4. a % Capacity = IF a < Capacity THEN a ELSE a - Capacity
  BY <1>3, Wrap
<1> QED  BY <1>1, <1>2, <1>4

\* What a queue holds, oldest first, is a sequence of blobs.
LEMMA ContentsType ==
    ASSUME NEW u \in QueueRecord, RingShape(u)
    PROVE  /\ Contents(u) \in Seq(Blobs)
           /\ Len(Contents(u)) = u.count
           /\ \A i \in 1 .. u.count : Contents(u)[i] = At(u, i)
<1> USE CapacityAssumption
<1>1. /\ u.count \in 0 .. Capacity /\ u.count \in Nat
      /\ u.slots \in [Slots -> Blobs \cup {NULL}]
  BY DEF QueueRecord
<1>2. ASSUME NEW i \in 1 .. u.count PROVE At(u, i) \in Blobs
  <2>1. (u.head + i - 1) % Capacity \in Window(u)
    BY DEF Window
  <2>2. (u.head + i - 1) % Capacity \in Slots
    <3>1. i \in 1 .. Capacity /\ u.head \in 0 .. Capacity - 1
      BY <1>1 DEF QueueRecord, Slots
    <3> QED  BY <3>1, Place DEF Slots
  <2> QED  BY <1>1, <2>1, <2>2 DEF RingShape, At
<1>3. Contents(u) \in [1 .. u.count -> Blobs]
  BY <1>2 DEF Contents
<1>4. Contents(u) \in Seq(Blobs)
  BY <1>1, <1>3, SeqDef
<1>5. Len(Contents(u)) = u.count
  BY <1>1, <1>3, <1>4, LenProperties
<1> QED  BY <1>4, <1>5 DEF Contents

\* Two messages of a ring are in different places.
LEMMA PlacesApart ==
    ASSUME NEW C \in Nat, NEW h \in 0 .. C - 1,
           NEW i \in 1 .. C, NEW j \in 1 .. C, i # j,
           NEW a, a = IF h + i - 1 < C THEN h + i - 1 ELSE h + i - 1 - C,
           NEW z, z = IF h + j - 1 < C THEN h + j - 1 ELSE h + j - 1 - C
    PROVE  a \in 0 .. C - 1 /\ z \in 0 .. C - 1 /\ a # z
<1>1. CASE h + i - 1 < C /\ h + j - 1 < C
  BY <1>1
<1>2. CASE h + i - 1 < C /\ ~(h + j - 1 < C)
  BY <1>2
<1>3. CASE ~(h + i - 1 < C) /\ h + j - 1 < C
  BY <1>3
<1>4. CASE ~(h + i - 1 < C) /\ ~(h + j - 1 < C)
  BY <1>4
<1> QED BY <1>1, <1>2, <1>3, <1>4

\* When head moves on by one, every other message is one place nearer to it, and
\* stays where it is.
LEMMA PlaceStays ==
    ASSUME NEW C \in Nat, NEW h \in 0 .. C - 1, NEW i \in 1 .. C - 1,
           NEW g, g = IF h + 1 < C THEN h + 1 ELSE 0,
           NEW a, a = IF g + i - 1 < C THEN g + i - 1 ELSE g + i - 1 - C,
           NEW z, z = IF h + (i + 1) - 1 < C THEN h + (i + 1) - 1
                                             ELSE h + (i + 1) - 1 - C
    PROVE  a = z /\ z \in 0 .. C - 1 /\ z # h
<1>1. CASE h + 1 < C
  BY <1>1
<1>2. CASE ~(h + 1 < C)
  BY <1>2
<1> QED BY <1>1, <1>2

\* An enqueue appends.
LEMMA EnqueueAppends ==
    ASSUME NEW u \in QueueRecord, NEW b \in Blobs, RingShape(u), ~IsFull(u),
           NEW r, r = Enqueue(u, b)
    PROVE  Contents(r) = Append(Contents(u), b)
<1> USE CapacityAssumption
<1>1. /\ u.head \in 0 .. Capacity - 1 /\ u.count \in 0 .. Capacity - 1
      /\ u.tail \in Slots /\ u.slots \in [Slots -> Blobs \cup {NULL}]
  BY DEF QueueRecord, IsFull, Slots
<1>2. r \in QueueRecord /\ RingShape(r)
  BY EnqueueFacts
<1>3. /\ r.slots = [u.slots EXCEPT ![u.tail] = b]
      /\ r.head = u.head /\ r.count = u.count + 1
  BY DEF Enqueue
<1>4. /\ Contents(u) \in Seq(Blobs) /\ Len(Contents(u)) = u.count
      /\ \A i \in 1 .. u.count : Contents(u)[i] = At(u, i)
  BY ContentsType
<1>5. /\ Contents(r) \in Seq(Blobs) /\ Len(Contents(r)) = u.count + 1
      /\ \A i \in 1 .. u.count + 1 : Contents(r)[i] = At(r, i)
  BY <1>2, <1>3, ContentsType
<1> DEFINE s == Append(Contents(u), b)
<1>6. /\ s \in Seq(Blobs) /\ Len(s) = u.count + 1
      /\ \A i \in 1 .. u.count : s[i] = Contents(u)[i]
      /\ s[u.count + 1] = b
  BY <1>4, AppendProperties
<1>7. u.tail = (u.head + (u.count + 1) - 1) % Capacity
  <2>1. u.tail = (u.head + u.count) % Capacity
    BY DEF RingShape
  <2>2. u.head + u.count = u.head + (u.count + 1) - 1
    BY <1>1
  <2> QED  BY <2>1, <2>2
<1>8. At(r, u.count + 1) = b
  BY <1>1, <1>3, <1>7 DEF At
<1>9. ASSUME NEW i \in 1 .. u.count PROVE At(r, i) = At(u, i)
  <2> DEFINE a == (u.head + i - 1) % Capacity
             z == (u.head + (u.count + 1) - 1) % Capacity
  <2>1. i \in 1 .. Capacity /\ u.count + 1 \in 1 .. Capacity
    BY <1>1
  <2>2. /\ a = IF u.head + i - 1 < Capacity THEN u.head + i - 1
                ELSE u.head + i - 1 - Capacity
        /\ z = IF u.head + (u.count + 1) - 1 < Capacity
                THEN u.head + (u.count + 1) - 1
                ELSE u.head + (u.count + 1) - 1 - Capacity
    <3> HIDE DEF a, z
    <3> QED  BY <2>1, Place DEF a, z
  <2> HIDE DEF a, z
  <2>3. a \in Slots /\ a # z
    <3>1. /\ Capacity \in Nat /\ u.head \in 0 .. Capacity - 1
          /\ i \in 1 .. Capacity /\ u.count + 1 \in 1 .. Capacity /\ i # u.count + 1
      BY <1>1
    <3> QED  BY <3>1, <2>2, PlacesApart DEF Slots
  <2>4. a # u.tail
    BY <2>3, <1>7 DEF z
  <2>5. r.slots[a] = u.slots[a]
    BY <2>3, <2>4, <1>1, <1>3
  <2> QED  BY <2>5, <1>3 DEF At, a
<1>10. ASSUME NEW i \in 1 .. u.count + 1 PROVE Contents(r)[i] = s[i]
  <2> HIDE DEF s
  <2>1. CASE i = u.count + 1
    BY <2>1, <1>5, <1>6, <1>8
  <2>2. CASE i # u.count + 1
    <3>1. i \in 1 .. u.count
      BY <2>2, <1>1
    <3> QED  BY <3>1, <1>4, <1>5, <1>6, <1>9
  <2> QED  BY <2>1, <2>2
<1> QED
  <2> HIDE DEF s
  <2>1. Contents(r) = s
    BY <1>5, <1>6, <1>10, SeqEqual
  <2> QED  BY <2>1 DEF s

\* A dequeue takes the first element away, and hands it out.
LEMMA DequeueTakesHead ==
    ASSUME NEW u \in QueueRecord, RingShape(u), ~IsEmpty(u),
           NEW r, r = Dequeue(u)
    PROVE  /\ Contents(u) # << >>
           /\ Contents(r) = Tail(Contents(u))
           /\ Front(u) = Contents(u)[1]
<1> USE CapacityAssumption
<1>1. /\ u.head \in 0 .. Capacity - 1 /\ u.count \in 1 .. Capacity
      /\ u.slots \in [Slots -> Blobs \cup {NULL}]
  BY DEF QueueRecord, IsEmpty, Slots
<1>2. r \in QueueRecord /\ RingShape(r)
  BY DequeueFacts
<1>3. /\ r.slots = [u.slots EXCEPT ![u.head] = NULL]
      /\ r.head = (u.head + 1) % Capacity /\ r.count = u.count - 1
  BY DEF Dequeue
<1>4. /\ Contents(u) \in Seq(Blobs) /\ Len(Contents(u)) = u.count
      /\ \A i \in 1 .. u.count : Contents(u)[i] = At(u, i)
  BY ContentsType
<1>5. /\ Contents(r) \in Seq(Blobs) /\ Len(Contents(r)) = u.count - 1
      /\ \A i \in 1 .. u.count - 1 : Contents(r)[i] = At(r, i)
  BY <1>2, <1>3, ContentsType
<1>6. Contents(u) # << >>
  BY <1>1, <1>4, EmptySeq
<1> DEFINE s == Tail(Contents(u))
<1>7. /\ s \in Seq(Blobs) /\ Len(s) = u.count - 1
      /\ \A i \in 1 .. u.count - 1 : s[i] = Contents(u)[i + 1]
  BY <1>4, <1>6, HeadTailProperties
<1>8. ASSUME NEW i \in 1 .. u.count - 1 PROVE At(r, i) = At(u, i + 1)
  <2> DEFINE j == i + 1
             a == (r.head + i - 1) % Capacity
             z == (u.head + j - 1) % Capacity
  <2>1. i \in 1 .. Capacity /\ j \in 1 .. Capacity /\ j = i + 1
    BY <1>1
  <2>2. r.head = IF u.head + 1 < Capacity THEN u.head + 1 ELSE 0
    <3>1. u.head + 1 \in 0 .. (2 * Capacity - 1)
      BY <1>1
    <3> QED  BY <3>1, <1>1, <1>3, Wrap
  <2> HIDE DEF j
  <2>3. /\ a = IF r.head + i - 1 < Capacity THEN r.head + i - 1
                ELSE r.head + i - 1 - Capacity
        /\ z = IF u.head + j - 1 < Capacity THEN u.head + j - 1
                ELSE u.head + j - 1 - Capacity
    <3> HIDE DEF a, z
    <3> QED  BY <1>2, <2>1, Place DEF a, z
  <2> HIDE DEF a, z
  <2>4. a = z /\ z \in Slots /\ z # u.head
    <3>1. /\ Capacity \in Nat /\ u.head \in 0 .. Capacity - 1
          /\ i \in 1 .. Capacity - 1
      BY <1>1
    <3> QED  BY <3>1, <2>1, <2>2, <2>3, PlaceStays DEF Slots
  <2>5. r.slots[a] = u.slots[z]
    BY <2>4, <1>1, <1>3
  <2> QED  BY <2>5 DEF At, a, z, j
<1>9. ASSUME NEW i \in 1 .. u.count - 1 PROVE Contents(r)[i] = s[i]
  <2>1. i + 1 \in 1 .. u.count
    BY <1>1
  <2> HIDE DEF s
  <2> QED  BY <2>1, <1>4, <1>5, <1>7, <1>8
<1>10. Contents(r) = s
  <2> HIDE DEF s
  <2> QED  BY <1>5, <1>7, <1>9, SeqEqual
<1>11. Front(u) = Contents(u)[1]
  <2>1. 1 \in 1 .. Capacity /\ 1 \in 1 .. u.count
    BY <1>1
  <2>2. (u.head + 1 - 1) % Capacity = u.head
    BY <2>1, <1>1, Place
  <2> QED  BY <2>1, <2>2, <1>4 DEF Front, At
<1> QED  BY <1>6, <1>10, <1>11

-----------------------------------------------------------------------------
IInv == TypeOK /\ RingOK /\ SingleOwner

\* signal() wakes at most one thread, and only one that waits for it.
LEMMA SignalFacts ==
    ASSUME NEW p \in [Threads -> Places],
           NEW wait \in Places, NEW retry \in Places,
           NEW p2 \in SignalOne(p, wait, retry)
    PROVE  /\ p2 \in [Threads -> Places]
           /\ \A u \in Threads :
                p2[u] = p[u] \/ (p[u] = wait /\ p2[u] = retry)
BY DEF SignalOne

\* broadcast() sends every waiting thread back to its test.
LEMMA BroadcastFacts ==
    ASSUME NEW p \in [Threads -> Places]
    PROVE  /\ Broadcast(p) \in [Threads -> Places]
           /\ \A u \in Threads :
                Broadcast(p)[u] = IF p[u] = "pushWait" THEN "push"
                                  ELSE IF p[u] = "popWait" THEN "pop"
                                  ELSE p[u]
BY DEF Broadcast, Places

-----------------------------------------------------------------------------
\* A blob that was never allocated enters a local variable.
LEMMA OwnNew ==
    ASSUME TypeOK, SingleOwner, NEW t \in Threads, NEW b \in Blobs \ made,
           reg[t] = NULL, reg' = [reg EXCEPT ![t] = b],
           made' = made \cup {b}, UNCHANGED <<q, freed>>
    PROVE  SingleOwner'
<1> USE NullAssumption DEF TypeOK, SingleOwner
<1>1. InLocals' = InLocals \cup {b}
  BY DEF InLocals
<1>2. Held(q)' = Held(q) /\ NoDuplicate(q)'
  BY DEF Held, NoDuplicate
<1>3. b \notin InLocals /\ b \notin Held(q) /\ b \notin freed
  OBVIOUS
<1>4. \A u, v \in Threads : reg'[u] = reg'[v] /\ reg'[u] # NULL => u = v
  BY <1>3 DEF InLocals
<1> QED  BY <1>1, <1>2, <1>3, <1>4

\* A local variable is freed.
LEMMA OwnFree ==
    ASSUME TypeOK, SingleOwner, NEW t \in Threads,
           reg[t] # NULL, reg' = [reg EXCEPT ![t] = NULL],
           freed' = freed \cup {reg[t]}, UNCHANGED <<q, made>>
    PROVE  SingleOwner' /\ freed' \subseteq Blobs
<1> USE NullAssumption DEF TypeOK, SingleOwner
<1>1. InLocals' = InLocals \ {reg[t]}
  BY DEF InLocals
<1>2. Held(q)' = Held(q) /\ NoDuplicate(q)'
  BY DEF Held, NoDuplicate
<1>3. reg[t] \in InLocals
  BY DEF InLocals
<1>4. \A u, v \in Threads : reg'[u] = reg'[v] /\ reg'[u] # NULL => u = v
  OBVIOUS
<1> QED  BY <1>1, <1>2, <1>3, <1>4

\* A blob goes from a local variable into the ring.
LEMMA OwnEnqueue ==
    ASSUME TypeOK, RingOK, SingleOwner, NEW t \in Threads,
           reg[t] # NULL, ~IsFull(q), q' = Enqueue(q, reg[t]),
           reg' = [reg EXCEPT ![t] = NULL], UNCHANGED <<made, freed>>
    PROVE  q' \in QueueRecord /\ RingOK' /\ SingleOwner'
<1> USE NullAssumption
<1>1. q \in QueueRecord /\ reg[t] \in Blobs /\ RingShape(q) /\ NoDuplicate(q)
  BY DEF TypeOK, RingOK, SingleOwner
<1>2. reg[t] \in InLocals
  BY DEF InLocals
<1>3. reg[t] \notin Held(q)
  BY <1>2 DEF SingleOwner
<1>4. /\ q' \in QueueRecord /\ RingShape(q')
      /\ Held(q') = Held(q) \cup {reg[t]} /\ NoDuplicate(q')
  BY <1>1, <1>3, EnqueueFacts
<1>5. InLocals' = InLocals \ {reg[t]}
  BY DEF InLocals, TypeOK, SingleOwner
<1>6. \A u, v \in Threads : reg'[u] = reg'[v] /\ reg'[u] # NULL => u = v
  BY DEF TypeOK, SingleOwner
<1> QED  BY <1>2, <1>4, <1>5, <1>6 DEF SingleOwner, RingOK

\* A blob goes from the ring into a local variable.
LEMMA OwnDequeue ==
    ASSUME TypeOK, RingOK, SingleOwner, NEW t \in Threads,
           reg[t] = NULL, ~IsEmpty(q), q' = Dequeue(q),
           reg' = [reg EXCEPT ![t] = Front(q)], UNCHANGED <<made, freed>>
    PROVE  q' \in QueueRecord /\ RingOK' /\ SingleOwner' /\ Front(q) \in Blobs
<1> USE NullAssumption
<1>1. q \in QueueRecord /\ RingShape(q) /\ NoDuplicate(q)
  BY DEF TypeOK, RingOK, SingleOwner
<1>2. /\ Front(q) \in Blobs /\ Front(q) \in Held(q)
      /\ q' \in QueueRecord /\ RingShape(q')
      /\ Held(q') = Held(q) \ {Front(q)} /\ NoDuplicate(q')
  BY <1>1, DequeueFacts
<1>3. InLocals' = InLocals \cup {Front(q)}
  BY <1>2 DEF InLocals, TypeOK
<1>4. Front(q) \notin InLocals
  BY <1>2 DEF SingleOwner
<1>5. \A u, v \in Threads : reg'[u] = reg'[v] /\ reg'[u] # NULL => u = v
  BY <1>4 DEF TypeOK, SingleOwner, InLocals
<1> QED  BY <1>2, <1>3, <1>4, <1>5 DEF SingleOwner, RingOK

\* Nothing moved: the ring, the local variables and the freed set are as before.
LEMMA OwnSame ==
    ASSUME RingOK, SingleOwner, UNCHANGED <<q, reg, made, freed>>
    PROVE  RingOK' /\ SingleOwner'
<1>1. RingOK'
  BY DEF RingOK
<1>2. NoDuplicate(q)' /\ Held(q)' = Held(q) /\ InLocals' = InLocals
  BY DEF SingleOwner, NoDuplicate, Held, InLocals
<1> QED  BY <1>1, <1>2 DEF SingleOwner

-----------------------------------------------------------------------------
\* A new queue satisfies the invariant.
LEMMA InitInv == Init => IInv
<1> SUFFICES ASSUME Init PROVE IInv
  OBVIOUS
<1> USE NullAssumption DEF Init
<1>1. TypeOK
  BY NewQueueFacts DEF TypeOK, Places, Loaded
<1>2. RingOK
  BY NewQueueFacts DEF RingOK
<1>3. SingleOwner
  BY NewQueueFacts DEF SingleOwner, InLocals
<1> QED  BY <1>1, <1>2, <1>3 DEF IInv

\* The operations a thread starts.
LEMMA BeginInv ==
    ASSUME IInv, NEW t \in Threads, Begin(t)
    PROVE  IInv'
<1> USE NullAssumption, ThreadAssumption DEF IInv
<1>1. ASSUME NEW b \in Blobs, Send(t, b) PROVE IInv'
  <2> USE <1>1 DEF Send, Goto, Load
  <2>1. SingleOwner'
    <3>1. reg[t] = NULL
      BY DEF TypeOK, Loaded
    <3> QED  BY <3>1, OwnNew
  <2>2. TypeOK'
    BY DEF TypeOK, Loaded, Places, metrics
  <2> QED  BY <2>1, <2>2 DEF RingOK
<1>2. CASE Cancel(t)
  <2> USE <1>2 DEF Cancel, Goto
  <2>1. TypeOK'
    BY DEF TypeOK, Loaded, Places, metrics
  <2> QED  BY <2>1, OwnSame
<1>3. CASE Receive(t)
  <2> USE <1>3 DEF Receive, Goto
  <2>1. TypeOK'
    BY DEF TypeOK, Loaded, Places, metrics
  <2> QED  BY <2>1, OwnSame
<1>4. CASE HasMessage(t)
  <2> USE <1>4 DEF HasMessage
  <2>1. TypeOK'
    BY DEF TypeOK, IsEmpty, metrics
  <2> QED  BY <2>1, OwnSame
<1>5. CASE Close(t)
  <2> USE <1>5 DEF Close
  <2>1. /\ q' \in QueueRecord /\ RingShape(q')
        /\ NoDuplicate(q') /\ Held(q') = Held(q)
    BY ClosedFacts DEF TypeOK, RingOK, SingleOwner
  <2>2. TypeOK'
    BY <2>1, BroadcastFacts DEF TypeOK, Loaded, Places, metrics
  <2>3. SingleOwner'
    BY <2>1 DEF SingleOwner, InLocals
  <2> QED  BY <2>1, <2>2, <2>3 DEF RingOK
<1>6. CASE DestroyStarts(t)
  <2> USE <1>6 DEF DestroyStarts, Goto
  <2>1. TypeOK'
    BY DEF TypeOK, Loaded, Places, metrics
  <2> QED  BY <2>1, OwnSame
<1> QED  BY <1>1, <1>2, <1>3, <1>4, <1>5, <1>6 DEF Begin

\* The steps of msg_queue_push.
LEMMA PushInv ==
    ASSUME IInv, NEW t \in Threads, PushStep(t) \/ PushTimesOut(t)
    PROVE  IInv'
<1> USE NullAssumption DEF IInv, Goto, Load
<1>1. CASE PushBlocks(t) \/ PushTimesOut(t) \/ PushRejected(t)
  <2> USE <1>1 DEF PushBlocks, PushTimesOut, PushRejected
  <2>1. TypeOK'
    BY DEF TypeOK, Loaded, Places, metrics
  <2> QED  BY <2>1, OwnSame
<1>2. CASE RejectFrees(t)
  <2> USE <1>2 DEF RejectFrees
  <2>1. SingleOwner' /\ freed' \subseteq Blobs
    <3>1. reg[t] # NULL
      BY DEF TypeOK, Loaded
    <3> QED  BY <3>1, OwnFree
  <2>2. TypeOK'
    BY <2>1 DEF TypeOK, Loaded, Places, metrics
  <2> QED  BY <2>1, <2>2 DEF RingOK
<1>3. CASE PushEnqueues(t)
  <2> USE <1>3 DEF PushEnqueues
  <2>1. q' \in QueueRecord /\ RingOK' /\ SingleOwner'
    <3>1. reg[t] # NULL
      BY DEF TypeOK, Loaded
    <3> QED  BY <3>1, OwnEnqueue
  <2>2. TypeOK'
    <3> DEFINE p == [pc EXCEPT ![t] = "pushed"]
    <3>1. p \in [Threads -> Places]
      BY DEF TypeOK, Places
    <3> HIDE DEF p
    <3>2. /\ pc' \in [Threads -> Places]
          /\ \A u \in Threads :
               pc'[u] = p[u] \/ (p[u] = "popWait" /\ pc'[u] = "pop")
      <4>1. pc' \in SignalOne(p, "popWait", "pop")
        BY DEF p
      <4>2. "popWait" \in Places /\ "pop" \in Places
        BY DEF Places
      <4> QED  BY <3>1, <4>1, <4>2, SignalFacts
    <3>3. \A u \in Threads : reg'[u] # NULL <=> pc'[u] \in Loaded
      BY <3>2 DEF p, TypeOK, Loaded
    <3> QED  BY <2>1, <3>2, <3>3 DEF TypeOK, metrics
  <2> QED  BY <2>1, <2>2
<1>4. CASE PushCounted(t)
  <2> USE <1>4 DEF PushCounted
  <2>1. TypeOK'
    BY DEF TypeOK, Loaded, Places
  <2> QED  BY <2>1, OwnSame
<1> QED  BY <1>1, <1>2, <1>3, <1>4 DEF PushStep

\* The steps of msg_queue_pop and of the release of what it returned.
LEMMA PopInv ==
    ASSUME IInv, NEW t \in Threads, PopStep(t) \/ PopTimesOut(t)
    PROVE  IInv'
<1> USE NullAssumption DEF IInv, Goto, Load
<1>1. CASE PopBlocks(t) \/ PopTimesOut(t) \/ PopReturnsNull(t)
  <2> USE <1>1 DEF PopBlocks, PopTimesOut, PopReturnsNull
  <2>1. TypeOK'
    BY DEF TypeOK, Loaded, Places, metrics
  <2> QED  BY <2>1, OwnSame
<1>2. CASE PopDequeues(t)
  <2> USE <1>2 DEF PopDequeues
  <2>1. q' \in QueueRecord /\ RingOK' /\ SingleOwner' /\ Front(q) \in Blobs
    <3>1. reg[t] = NULL
      BY DEF TypeOK, Loaded
    <3> QED  BY <3>1, OwnDequeue
  <2>2. TypeOK'
    <3> DEFINE p == [pc EXCEPT ![t] = "popped"]
    <3>1. p \in [Threads -> Places]
      BY DEF TypeOK, Places
    <3> HIDE DEF p
    <3>2. /\ pc' \in [Threads -> Places]
          /\ \A u \in Threads :
               pc'[u] = p[u] \/ (p[u] = "pushWait" /\ pc'[u] = "push")
      <4>1. pc' \in SignalOne(p, "pushWait", "push")
        BY DEF p
      <4>2. "pushWait" \in Places /\ "push" \in Places
        BY DEF Places
      <4> QED  BY <3>1, <4>1, <4>2, SignalFacts
    <3>3. \A u \in Threads : reg'[u] # NULL <=> pc'[u] \in Loaded
      BY <2>1, <3>2 DEF p, TypeOK, Loaded
    <3> QED  BY <2>1, <3>2, <3>3 DEF TypeOK, metrics
  <2> QED  BY <2>1, <2>2
<1>3. CASE PopCounted(t)
  <2> USE <1>3 DEF PopCounted
  <2>1. TypeOK'
    BY DEF TypeOK, Loaded, Places
  <2> QED  BY <2>1, OwnSame
<1>4. CASE Unmarshall(t)
  <2> USE <1>4 DEF Unmarshall
  <2>1. SingleOwner' /\ freed' \subseteq Blobs
    <3>1. reg[t] # NULL
      BY DEF TypeOK, Loaded
    <3> QED  BY <3>1, OwnFree
  <2>2. TypeOK'
    BY <2>1 DEF TypeOK, Loaded, Places, metrics
  <2> QED  BY <2>1, <2>2 DEF RingOK
<1> QED  BY <1>1, <1>2, <1>3, <1>4 DEF PopStep

\* The second half of msg_cancel, and the loop of msg_queue_destroy.
LEMMA CancelDrainInv ==
    ASSUME IInv, NEW t \in Threads, CancelStep(t) \/ DrainStep(t)
    PROVE  IInv'
<1> USE NullAssumption DEF IInv, Goto, Load
<1>1. ASSUME NEW b \in Blobs, MarshallSignal(t, b) PROVE IInv'
  <2> USE <1>1, SignalAssumption DEF MarshallSignal
  <2>1. SingleOwner'
    <3>1. reg[t] = NULL
      BY DEF TypeOK, Loaded
    <3> QED  BY <3>1, OwnNew
  <2>2. TypeOK'
    BY DEF TypeOK, Loaded, Places, metrics
  <2> QED  BY <2>1, <2>2 DEF RingOK
<1>2. CASE DrainTakes(t)
  <2> USE <1>2 DEF DrainTakes
  <2>1. q' \in QueueRecord /\ RingOK' /\ SingleOwner' /\ Front(q) \in Blobs
    <3>1. reg[t] = NULL
      BY DEF TypeOK, Loaded
    <3> QED  BY <3>1, OwnDequeue
  <2>2. TypeOK'
    BY <2>1 DEF TypeOK, Loaded, Places, metrics
  <2> QED  BY <2>1, <2>2
<1>3. CASE DrainFrees(t)
  <2> USE <1>3 DEF DrainFrees
  <2>1. SingleOwner' /\ freed' \subseteq Blobs
    <3>1. reg[t] # NULL
      BY DEF TypeOK, Loaded
    <3> QED  BY <3>1, OwnFree
  <2>2. TypeOK'
    BY <2>1 DEF TypeOK, Loaded, Places
  <2> QED  BY <2>1, <2>2 DEF RingOK
<1>4. CASE DestroyEnds(t)
  <2> USE <1>4 DEF DestroyEnds
  <2>1. TypeOK'
    BY DEF TypeOK, Loaded, Places, metrics
  <2> QED  BY <2>1, OwnSame
<1> QED  BY <1>1, <1>2, <1>3, <1>4 DEF CancelStep, DrainStep

\* Every step of every thread keeps the invariant.
LEMMA StepInv == IInv /\ [Next]_vars => IInv'
<1> SUFFICES ASSUME IInv, [Next]_vars PROVE IInv'
  OBVIOUS
<1>1. CASE UNCHANGED vars
  <2> USE <1>1 DEF vars, metrics
  <2>1. TypeOK'
    BY DEF IInv, TypeOK
  <2> QED  BY <2>1, OwnSame DEF IInv
<1>2. ASSUME NEW t \in Threads, Begin(t) \/ Continue(t) \/ TimesOut(t)
      PROVE  IInv'
  BY <1>2, BeginInv, PushInv, PopInv, CancelDrainInv DEF Continue, TimesOut
<1> QED  BY <1>1, <1>2 DEF Next, Gone

-----------------------------------------------------------------------------
\* In every reachable state, whatever the threads, blobs and capacity, the
\* variables are well typed, head, tail, count and slots describe one window
\* and every envelope has exactly one owner.
THEOREM Invariance == Spec => []IInv
<1>1. Init => IInv
  BY InitInv
<1>2. IInv /\ [Next]_vars => IInv'
  BY StepInv
<1> QED  BY <1>1, <1>2, PTL DEF Spec

\* Type correctness of the queue and of the threads that use it.
THEOREM TypeCorrect == Spec => []TypeOK
BY Invariance, PTL DEF IInv

\* The indices of the ring never disagree with its slots.
THEOREM RingCorrect == Spec => []RingOK
BY Invariance, PTL DEF IInv

\* No envelope is lost, duplicated or freed twice by the queue.
THEOREM Ownership == Spec => []SingleOwner
BY Invariance, PTL DEF IInv

-----------------------------------------------------------------------------
\* Seen as the sequence of its messages, a new queue is an empty channel.
LEMMA ChannelInit == Init => Channel!Init
BY NewQueueFacts DEF Init, Channel!Init, NewQueue

\* Every step of a thread is a step of the channel or leaves it alone.
LEMMA ChannelStep ==
    ASSUME IInv, [Next]_vars
    PROVE  [Channel!Next]_(Channel!vars)
<1> USE NullAssumption DEF Channel!vars
<1>1. q \in QueueRecord /\ RingShape(q)
  BY DEF IInv, TypeOK, RingOK
<1>2. ASSUME UNCHANGED q PROVE UNCHANGED Channel!vars
  BY <1>2 DEF Contents, At
<1>3. ASSUME NEW t \in Threads, PushEnqueues(t)
      PROVE  Channel!Next
  <2> USE <1>3 DEF PushEnqueues
  <2>1. reg[t] \in Blobs
    BY DEF IInv, TypeOK, Loaded
  <2>2. Contents(q') = Append(Contents(q), reg[t])
    BY <1>1, <2>1, EnqueueAppends
  <2>3. ~q.closed /\ q'.closed = q.closed
    BY DEF Enqueue
  <2>4. Len(Contents(q)) < Capacity
    BY <1>1, ContentsType, CapacityAssumption DEF IsFull, QueueRecord
  <2>5. Channel!Send(reg[t])
    BY <2>2, <2>3, <2>4 DEF Channel!Send, Contents, At
  <2> QED  BY <2>1, <2>5 DEF Channel!Next
<1>4. ASSUME ~IsEmpty(q), q' = Dequeue(q)
      PROVE  Channel!Next
  <2>1. Contents(q) # << >> /\ Contents(q') = Tail(Contents(q))
    BY <1>1, <1>4, DequeueTakesHead
  <2>2. q'.closed = q.closed
    BY <1>4 DEF Dequeue
  <2>3. Channel!Take
    BY <2>1, <2>2 DEF Channel!Take, Contents, At
  <2> QED  BY <2>3 DEF Channel!Next
<1>5. ASSUME NEW t \in Threads, Close(t)
      PROVE  Channel!Next
  <2>1. q'.closed = TRUE /\ Contents(q') = Contents(q)
    BY <1>1, <1>5, ClosedFacts DEF Close
  <2>2. Channel!Close
    BY <2>1 DEF Channel!Close, Contents, At
  <2> QED  BY <2>2 DEF Channel!Next
<1>6. CASE UNCHANGED vars
  BY <1>2, <1>6 DEF vars
<1>7. ASSUME NEW t \in Threads, Begin(t) \/ Continue(t) \/ TimesOut(t)
      PROVE  [Channel!Next]_(Channel!vars)
  <2>1. CASE PushEnqueues(t)
    BY <2>1, <1>3
  <2>2. CASE PopDequeues(t) \/ DrainTakes(t)
    BY <2>2, <1>4 DEF PopDequeues, DrainTakes
  <2>3. CASE Close(t)
    BY <2>3, <1>5
  <2>4. CASE UNCHANGED q
    BY <2>4, <1>2
  <2>5. \/ PushEnqueues(t) \/ PopDequeues(t) \/ DrainTakes(t) \/ Close(t)
        \/ UNCHANGED q
    BY <1>7 DEF Begin, Continue, TimesOut, PushStep, PopStep, CancelStep,
         DrainStep, Send, Cancel, MarshallSignal, PushBlocks, PushTimesOut,
         PushRejected, RejectFrees, PushCounted, Receive, PopBlocks,
         PopTimesOut, PopReturnsNull, PopCounted, Unmarshall, HasMessage,
         DestroyStarts, DrainFrees, DestroyEnds
  <2> QED  BY <2>1, <2>2, <2>3, <2>4, <2>5
<1> QED  BY <1>6, <1>7 DEF Next, Gone

\* The queue implements a first-in first-out channel of at most Capacity
\* messages that accepts nothing after it is closed.
THEOREM QueueIsFifo == Spec => IsFifoChannel
<1>1. Init => Channel!Init
  BY ChannelInit
<1>2. IInv /\ [Next]_vars => [Channel!Next]_(Channel!vars)
  BY ChannelStep
<1> QED  BY <1>1, <1>2, Invariance, PTL DEF Spec, IsFifoChannel, Channel!Spec

-----------------------------------------------------------------------------
(***************************************************************************)
(* On top of this invariant: no wake-up is lost, the counters balance, the *)
(* cancel flag precedes the signal, a destroyed queue leaves nothing, and  *)
(* a message that was announced stays.  These proofs count threads by the  *)
(* place where they stand.                                                 *)
(***************************************************************************)
\* How many threads stand at a place.
Num(p, place) == Cardinality({t \in Threads : p[t] = place})

\* Counting is possible, and zero means nobody.
LEMMA NumType ==
    ASSUME NEW p \in [Threads -> Places], NEW place \in Places
    PROVE  /\ Num(p, place) \in Nat
           /\ Num(p, place) = 0 <=> \A t \in Threads : p[t] # place
<1> DEFINE S == {t \in Threads : p[t] = place}
<1>1. IsFiniteSet(S)
  BY ThreadAssumption, FS_Subset
<1>2. Cardinality(S) \in Nat /\ (Cardinality(S) = 0 <=> S = {})
  BY <1>1, FS_CardinalityType, FS_EmptySet
<1> QED  BY <1>2 DEF Num

\* A thread that goes somewhere else changes two counts by one.
LEMMA NumMove ==
    ASSUME NEW p \in [Threads -> Places], NEW t \in Threads,
           NEW to \in Places, p[t] # to,
           NEW p2 \in [Threads -> Places],
           p2[t] = to, \A u \in Threads \ {t} : p2[u] = p[u]
    PROVE  \A place \in Places :
              Num(p2, place) =
                 IF place = to THEN Num(p, place) + 1
                 ELSE IF place = p[t] THEN Num(p, place) - 1
                 ELSE Num(p, place)
<1> TAKE place \in Places
<1> DEFINE S == {u \in Threads : p[u] = place}
           R == {u \in Threads : p2[u] = place}
<1>1. IsFiniteSet(S)
  BY ThreadAssumption, FS_Subset
<1>2. CASE place = to
  <2>1. R = S \cup {t} /\ t \notin S
    BY <1>2
  <2> QED  BY <2>1, <1>1, <1>2, FS_AddElement DEF Num
<1>3. CASE place # to /\ place = p[t]
  <2>1. R = S \ {t} /\ t \in S
    BY <1>3
  <2> QED  BY <2>1, <1>1, <1>3, FS_RemoveElement DEF Num
<1>4. CASE place # to /\ place # p[t]
  <2>1. R = S
    BY <1>4
  <2> QED  BY <2>1, <1>4 DEF Num
<1> QED  BY <1>2, <1>3, <1>4

\* signal() moves one waiter if there is one, and nobody otherwise.
LEMMA NumSignal ==
    ASSUME NEW p \in [Threads -> Places],
           NEW wait \in Places, NEW retry \in Places, wait # retry,
           NEW p2 \in SignalOne(p, wait, retry)
    PROVE  \/ /\ Num(p, wait) = 0
              /\ \A place \in Places : Num(p2, place) = Num(p, place)
           \/ /\ Num(p, wait) # 0
              /\ \A place \in Places :
                   Num(p2, place) = IF place = retry THEN Num(p, place) + 1
                                    ELSE IF place = wait THEN Num(p, place) - 1
                                    ELSE Num(p, place)
<1>1. CASE \A t \in Threads : p[t] # wait
  <2>1. p2 = p
    BY <1>1 DEF SignalOne
  <2>2. Num(p, wait) = 0
    BY <1>1, NumType
  <2> QED  BY <2>1, <2>2
<1>2. CASE \E t \in Threads : p[t] = wait
  <2>1. PICK u \in Threads : p[u] = wait /\ p2 = [p EXCEPT ![u] = retry]
    BY <1>2 DEF SignalOne
  <2>2. Num(p, wait) # 0
    BY <1>2, NumType
  <2>3. \A place \in Places :
           Num(p2, place) = IF place = retry THEN Num(p, place) + 1
                            ELSE IF place = p[u] THEN Num(p, place) - 1
                            ELSE Num(p, place)
    <3>1. /\ p[u] # retry /\ p2 \in [Threads -> Places] /\ p2[u] = retry
          /\ \A v \in Threads \ {u} : p2[v] = p[v]
      BY <2>1
    <3> QED  BY <3>1, NumMove
  <2> QED  BY <2>1, <2>2, <2>3
<1> QED  BY <1>1, <1>2

\* broadcast() leaves nobody waiting and moves no other thread.
LEMMA NumBroadcast ==
    ASSUME NEW p \in [Threads -> Places]
    PROVE  /\ Num(Broadcast(p), "pushWait") = 0
           /\ Num(Broadcast(p), "popWait") = 0
           /\ \A place \in Places \ {"push", "pushWait", "pop", "popWait"} :
                Num(Broadcast(p), place) = Num(p, place)
<1> DEFINE b == Broadcast(p)
<1>1. b \in [Threads -> Places]
      /\ \A u \in Threads : b[u] = IF p[u] = "pushWait" THEN "push"
                                   ELSE IF p[u] = "popWait" THEN "pop"
                                   ELSE p[u]
  BY BroadcastFacts
<1> HIDE DEF b
<1>2. Num(b, "pushWait") = 0 /\ Num(b, "popWait") = 0
  BY <1>1, NumType DEF Places
<1>3. ASSUME NEW place \in Places \ {"push", "pushWait", "pop", "popWait"}
      PROVE  Num(b, place) = Num(p, place)
  <2>1. \A u \in Threads : b[u] = place <=> p[u] = place
    BY <1>1, <1>3
  <2> QED  BY <2>1 DEF Num
<1> QED  BY <1>2, <1>3 DEF b

-----------------------------------------------------------------------------
\* The counts the invariants speak of, and what one step may change of them.
Counts(p) ==
    [push   |-> Num(p, "push"),   pushWait |-> Num(p, "pushWait"),
     pop    |-> Num(p, "pop"),    popWait  |-> Num(p, "popWait"),
     pushed |-> Num(p, "pushed"), popped   |-> Num(p, "popped"),
     drop   |-> Num(p, "drop")]
Delta(place, from, to) ==
    (IF place = to THEN 1 ELSE 0) - (IF place = from THEN 1 ELSE 0)

\* The wait and traffic invariants in terms of counts.
WaitInv ==
    LET n == Counts(pc) IN
    /\ n.popWait # 0 => ~q.closed /\ q.count <= n.pop
    /\ n.pushWait # 0 => ~q.closed /\ Capacity - q.count <= n.push
TrafficInv ==
    LET n == Counts(pc) IN
    pushed + n.pushed = popped + n.popped + dropped + n.drop + q.count

\* A signal blob, or a thread about to make one, comes after the flag.
FlagInv ==
    (made \cap Signals # {} \/ \E t \in Threads : pc[t] = "cancel")
        => cancel_flag

\* Only the owner is busy once msg_queue_destroy has begun.
LifeInv ==
    /\ life = "live" => \A t \in Threads : pc[t] \notin {"drain", "drop"}
    /\ life # "live" =>
         q.closed /\ \A t \in Threads \ {Owner} : pc[t] = "idle"
    /\ life = "draining" => pc[Owner] \in {"drain", "drop"}
    /\ life = "destroyed" => pc[Owner] = "idle" /\ IsEmpty(q)

JInv == IInv /\ WaitInv /\ TrafficInv /\ FlagInv /\ LifeInv

-----------------------------------------------------------------------------
\* The invariant with the counts holds in a new queue.
LEMMA InitJ == Init => JInv
<1> SUFFICES ASSUME Init PROVE JInv
  OBVIOUS
<1>1. pc \in [Threads -> Places] /\ \A t \in Threads : pc[t] = "idle"
  BY DEF Init, Places
<1>2. \A place \in Places \ {"idle"} : Num(pc, place) = 0
  BY <1>1, NumType
<1>3. WaitInv /\ TrafficInv
  BY <1>2 DEF WaitInv, TrafficInv, Init, NewQueue, Places, Counts
<1>4. FlagInv /\ LifeInv
  BY DEF FlagInv, LifeInv, Init
<1> QED  BY <1>3, <1>4, InitInv DEF JInv

\* What the step of one thread does to the counts, when it moves nobody else.
LEMMA OneMoves ==
    ASSUME IInv, NEW t \in Threads, NEW to \in Places, pc[t] # to, Goto(t, to)
    PROVE  /\ \A place \in Places :
                /\ Num(pc, place) \in Nat
                /\ Num(pc', place) =
                      IF place = to THEN Num(pc, place) + 1
                      ELSE IF place = pc[t] THEN Num(pc, place) - 1
                      ELSE Num(pc, place)
           /\ Num(pc, pc[t]) # 0
           /\ pc[t] \in Places
<1>1. pc \in [Threads -> Places]
  BY DEF IInv, TypeOK
<1>2. \A place \in Places : Num(pc, place) \in Nat
  BY <1>1, NumType
<1>3. pc[t] \in Places /\ Num(pc, pc[t]) # 0
  BY <1>1, NumType
<1>4. /\ pc' \in [Threads -> Places] /\ pc'[t] = to
      /\ \A u \in Threads \ {t} : pc'[u] = pc[u]
  BY <1>1 DEF Goto
<1>5. \A place \in Places :
        Num(pc', place) = IF place = to THEN Num(pc, place) + 1
                          ELSE IF place = pc[t] THEN Num(pc, place) - 1
                          ELSE Num(pc, place)
  BY <1>1, <1>4, NumMove
<1> QED  BY <1>2, <1>3, <1>5

-----------------------------------------------------------------------------
\* The numbers of threads at the places of the code are natural numbers.
LEMMA CountsType ==
    ASSUME NEW p \in [Threads -> Places]
    PROVE  /\ Counts(p).push \in Nat /\ Counts(p).pushWait \in Nat
           /\ Counts(p).pop \in Nat /\ Counts(p).popWait \in Nat
           /\ Counts(p).pushed \in Nat /\ Counts(p).popped \in Nat
           /\ Counts(p).drop \in Nat
BY NumType DEF Counts, Places

\* One thread goes from one place to another.
LEMMA CountsMove ==
    ASSUME IInv, NEW t \in Threads, NEW from \in Places, NEW to \in Places,
           pc[t] = from, from # to, Goto(t, to)
    PROVE  /\ Counts(pc').push = Counts(pc).push + Delta("push", from, to)
           /\ Counts(pc').pushWait
                = Counts(pc).pushWait + Delta("pushWait", from, to)
           /\ Counts(pc').pop = Counts(pc).pop + Delta("pop", from, to)
           /\ Counts(pc').popWait
                = Counts(pc).popWait + Delta("popWait", from, to)
           /\ Counts(pc').pushed
                = Counts(pc).pushed + Delta("pushed", from, to)
           /\ Counts(pc').popped
                = Counts(pc).popped + Delta("popped", from, to)
           /\ Counts(pc').drop = Counts(pc).drop + Delta("drop", from, to)
<1>1. \A place \in Places :
        /\ Num(pc, place) \in Nat
        /\ Num(pc', place) = Num(pc, place) + Delta(place, from, to)
  <2> TAKE place \in Places
  <2>1. /\ Num(pc, place) \in Nat
        /\ Num(pc', place) = IF place = to THEN Num(pc, place) + 1
                             ELSE IF place = from THEN Num(pc, place) - 1
                             ELSE Num(pc, place)
    BY OneMoves
  <2> QED  BY <2>1 DEF Delta
<1> QED  BY <1>1 DEF Counts, Places

\* signal() on either condition variable.
LEMMA CountsSignal ==
    ASSUME NEW p \in [Threads -> Places], NEW p2, NEW wait, NEW retry,
           \/ wait = "popWait" /\ retry = "pop"
           \/ wait = "pushWait" /\ retry = "push",
           p2 \in SignalOne(p, wait, retry)
    PROVE  \E d \in {0, 1} :
             /\ d = 0 <=> Num(p, wait) = 0
             /\ \A place \in Places :
                  Num(p2, place) = Num(p, place)
                      + (IF place = retry THEN d ELSE 0)
                      - (IF place = wait THEN d ELSE 0)
<1>1. wait \in Places /\ retry \in Places /\ wait # retry
  BY DEF Places
<1>2. \A place \in Places : Num(p, place) \in Nat
  BY NumType
<1>3. CASE /\ Num(p, wait) = 0
           /\ \A place \in Places : Num(p2, place) = Num(p, place)
  <2>1. \A place \in Places : Num(p2, place) = Num(p, place)
                      + (IF place = retry THEN 0 ELSE 0)
                      - (IF place = wait THEN 0 ELSE 0)
    BY <1>2, <1>3
  <2> QED  BY <1>3, <2>1
<1>4. CASE /\ Num(p, wait) # 0
           /\ \A place \in Places :
                Num(p2, place) = IF place = retry THEN Num(p, place) + 1
                                 ELSE IF place = wait THEN Num(p, place) - 1
                                 ELSE Num(p, place)
  <2>1. \A place \in Places : Num(p2, place) = Num(p, place)
                      + (IF place = retry THEN 1 ELSE 0)
                      - (IF place = wait THEN 1 ELSE 0)
    BY <1>1, <1>2, <1>4
  <2> QED  BY <1>4, <2>1
<1> QED  BY <1>1, <1>3, <1>4, NumSignal

-----------------------------------------------------------------------------
\* A thread moves and the ring and the counters stay: the invariants of the
\* waits and of the traffic survive if it may leave and enter these places.
LEMMA QuietMove ==
    ASSUME JInv, NEW t \in Threads, NEW from \in Places, NEW to \in Places,
           pc[t] = from, from # to, Goto(t, to), UNCHANGED <<q, metrics>>,
           from \notin {"pushed", "popped", "drop"},
           to \notin {"pushed", "popped", "drop"},
           to = "pushWait" => IsFull(q) /\ ~q.closed,
           to = "popWait" => IsEmpty(q) /\ ~q.closed,
           from = "push" => q.closed \/ IsFull(q),
           from = "pop" => q.closed \/ IsEmpty(q)
    PROVE  WaitInv' /\ TrafficInv'
<1>1. IInv /\ WaitInv /\ TrafficInv
  BY DEF JInv
<1>2. /\ pc \in [Threads -> Places] /\ q.count \in 0 .. Capacity
      /\ q.closed \in BOOLEAN
  BY <1>1 DEF IInv, TypeOK, QueueRecord
<1> DEFINE n == Counts(pc)
           m == Counts(pc')
<1>3. /\ n.push \in Nat /\ n.pushWait \in Nat /\ n.pop \in Nat
      /\ n.popWait \in Nat /\ n.pushed \in Nat /\ n.popped \in Nat
      /\ n.drop \in Nat /\ m.push \in Nat /\ m.pushWait \in Nat
      /\ m.pop \in Nat /\ m.popWait \in Nat
  <2>1. pc' \in [Threads -> Places]
    BY <1>2 DEF Goto
  <2> QED  BY <2>1, <1>2, CountsType
<1>4. /\ m.push = n.push + Delta("push", from, to)
      /\ m.pushWait = n.pushWait + Delta("pushWait", from, to)
      /\ m.pop = n.pop + Delta("pop", from, to)
      /\ m.popWait = n.popWait + Delta("popWait", from, to)
      /\ m.pushed = n.pushed + Delta("pushed", from, to)
      /\ m.popped = n.popped + Delta("popped", from, to)
      /\ m.drop = n.drop + Delta("drop", from, to)
  BY <1>1, CountsMove
<1> HIDE DEF n, m
<1>5. m.pushed = n.pushed /\ m.popped = n.popped /\ m.drop = n.drop
  BY <1>3, <1>4 DEF Delta
<1>6. TrafficInv'
  BY <1>1, <1>5 DEF TrafficInv, metrics, n, m
<1>7. m.popWait # 0 => ~q.closed /\ q.count <= m.pop
  <2>1. n.popWait # 0 => ~q.closed /\ q.count <= n.pop
    BY <1>1 DEF WaitInv, n
  <2>2. CASE from = "pop"
    BY <2>1, <2>2, <1>2, <1>3, <1>4 DEF Delta, IsEmpty
  <2>3. CASE from # "pop"
    BY <2>1, <2>3, <1>2, <1>3, <1>4 DEF Delta, IsEmpty
  <2> QED  BY <2>2, <2>3
<1>8. m.pushWait # 0 => ~q.closed /\ Capacity - q.count <= m.push
  <2>1. n.pushWait # 0 => ~q.closed /\ Capacity - q.count <= n.push
    BY <1>1 DEF WaitInv, n
  <2>2. CASE from = "push"
    BY <2>1, <2>2, <1>2, <1>3, <1>4, CapacityAssumption DEF Delta, IsFull
  <2>3. CASE from # "push"
    BY <2>1, <2>3, <1>2, <1>3, <1>4, CapacityAssumption DEF Delta, IsFull
  <2> QED  BY <2>2, <2>3
<1>9. WaitInv'
  BY <1>7, <1>8 DEF WaitInv, m
<1> QED  BY <1>6, <1>9

\* An enqueue adds a message and wakes a consumer if one sleeps.
LEMMA EnqueueWakes ==
    ASSUME JInv, NEW t \in Threads, PushEnqueues(t)
    PROVE  WaitInv' /\ TrafficInv'
<1> DEFINE p == [pc EXCEPT ![t] = "pushed"]
           n == Counts(pc)
           m == Counts(pc')
<1>1. /\ pc \in [Threads -> Places] /\ p \in [Threads -> Places]
      /\ pc' \in [Threads -> Places] /\ pc[t] = "push"
      /\ pc' \in SignalOne(p, "popWait", "pop")
  <2>1. pc \in [Threads -> Places] /\ p \in [Threads -> Places]
    BY DEF JInv, IInv, TypeOK, Places
  <2>2. pc' \in SignalOne(p, "popWait", "pop") /\ pc[t] = "push"
    BY DEF PushEnqueues
  <2> HIDE DEF p
  <2> QED  BY <2>1, <2>2, SignalFacts DEF Places
<1>2. /\ q.count \in 0 .. Capacity - 1 /\ ~q.closed
      /\ q'.count = q.count + 1 /\ q'.closed = q.closed
      /\ pushed' = pushed /\ popped' = popped /\ dropped' = dropped
  BY CapacityAssumption
     DEF JInv, IInv, TypeOK, QueueRecord, PushEnqueues, IsFull, Enqueue, metrics
<1>3. /\ n.push \in Nat /\ n.pushWait \in Nat /\ n.pop \in Nat
      /\ n.popWait \in Nat /\ n.pushed \in Nat /\ n.popped \in Nat
      /\ n.drop \in Nat /\ m.push \in Nat /\ m.pushWait \in Nat
      /\ m.pop \in Nat /\ m.popWait \in Nat
  BY <1>1, CountsType
<1>4. \A place \in Places :
        Num(p, place) = IF place = "pushed" THEN Num(pc, place) + 1
                        ELSE IF place = "push" THEN Num(pc, place) - 1
                        ELSE Num(pc, place)
  <2>1. "pushed" \in Places /\ pc[t] # "pushed" /\ p[t] = "pushed"
        /\ \A u \in Threads \ {t} : p[u] = pc[u]
    BY <1>1 DEF Places
  <2> HIDE DEF p
  <2> QED  BY <1>1, <2>1, NumMove
<1>5. PICK d \in {0, 1} :
         /\ d = 0 <=> Num(p, "popWait") = 0
         /\ \A place \in Places :
              Num(pc', place) = Num(p, place)
                  + (IF place = "pop" THEN d ELSE 0)
                  - (IF place = "popWait" THEN d ELSE 0)
  <2> HIDE DEF p
  <2> QED  BY <1>1, CountsSignal
<1>6. /\ m.push = n.push - 1 /\ m.pushWait = n.pushWait
      /\ m.pop = n.pop + d /\ m.popWait = n.popWait - d
      /\ m.pushed = n.pushed + 1 /\ m.popped = n.popped /\ m.drop = n.drop
      /\ d = 0 <=> n.popWait = 0
  <2>1. \A place \in Places : Num(pc, place) \in Nat
    BY <1>1, NumType
  <2> HIDE DEF p
  <2> QED  BY <2>1, <1>4, <1>5 DEF Counts, Places
<1> HIDE DEF n, m
<1>7. TrafficInv'
  <2>1. pushed + n.pushed = popped + n.popped + dropped + n.drop + q.count
    BY DEF JInv, TrafficInv, n
  <2>2. pushed \in Nat /\ popped \in Nat /\ dropped \in Nat
    BY DEF JInv, IInv, TypeOK
  <2>3. pushed + m.pushed = popped + m.popped + dropped + m.drop + (q.count + 1)
    BY <2>1, <2>2, <1>2, <1>3, <1>6
  <2> QED  BY <2>3, <1>2 DEF TrafficInv, m
<1>8. WaitInv'
  <2>1. /\ n.popWait # 0 => q.count <= n.pop
        /\ n.pushWait # 0 => Capacity - q.count <= n.push
    BY DEF JInv, WaitInv, n
  <2>2. m.popWait # 0 => q.count + 1 <= m.pop
    BY <2>1, <1>2, <1>3, <1>6
  <2>3. m.pushWait # 0 => Capacity - (q.count + 1) <= m.push
    BY <2>1, <1>2, <1>3, <1>6, CapacityAssumption
  <2> QED  BY <2>2, <2>3, <1>2 DEF WaitInv, m
<1> QED  BY <1>7, <1>8

\* A dequeue frees a slot and wakes a producer if one sleeps.
LEMMA DequeueWakes ==
    ASSUME JInv, NEW t \in Threads, PopDequeues(t)
    PROVE  WaitInv' /\ TrafficInv'
<1> DEFINE p == [pc EXCEPT ![t] = "popped"]
           n == Counts(pc)
           m == Counts(pc')
<1>1. /\ pc \in [Threads -> Places] /\ p \in [Threads -> Places]
      /\ pc' \in [Threads -> Places] /\ pc[t] = "pop"
      /\ pc' \in SignalOne(p, "pushWait", "push")
  <2>1. pc \in [Threads -> Places] /\ p \in [Threads -> Places]
    BY DEF JInv, IInv, TypeOK, Places
  <2>2. pc' \in SignalOne(p, "pushWait", "push") /\ pc[t] = "pop"
    BY DEF PopDequeues
  <2> HIDE DEF p
  <2> QED  BY <2>1, <2>2, SignalFacts DEF Places
<1>2. /\ q.count \in 1 .. Capacity /\ q.closed \in BOOLEAN
      /\ q'.count = q.count - 1 /\ q'.closed = q.closed
      /\ pushed' = pushed /\ popped' = popped /\ dropped' = dropped
  BY CapacityAssumption
     DEF JInv, IInv, TypeOK, QueueRecord, PopDequeues, IsEmpty, Dequeue, metrics
<1>3. /\ n.push \in Nat /\ n.pushWait \in Nat /\ n.pop \in Nat
      /\ n.popWait \in Nat /\ n.pushed \in Nat /\ n.popped \in Nat
      /\ n.drop \in Nat /\ m.push \in Nat /\ m.pushWait \in Nat
      /\ m.pop \in Nat /\ m.popWait \in Nat
  BY <1>1, CountsType
<1>4. \A place \in Places :
        Num(p, place) = IF place = "popped" THEN Num(pc, place) + 1
                        ELSE IF place = "pop" THEN Num(pc, place) - 1
                        ELSE Num(pc, place)
  <2>1. "popped" \in Places /\ pc[t] # "popped" /\ p[t] = "popped"
        /\ \A u \in Threads \ {t} : p[u] = pc[u]
    BY <1>1 DEF Places
  <2> HIDE DEF p
  <2> QED  BY <1>1, <2>1, NumMove
<1>5. PICK d \in {0, 1} :
         /\ d = 0 <=> Num(p, "pushWait") = 0
         /\ \A place \in Places :
              Num(pc', place) = Num(p, place)
                  + (IF place = "push" THEN d ELSE 0)
                  - (IF place = "pushWait" THEN d ELSE 0)
  <2> HIDE DEF p
  <2> QED  BY <1>1, CountsSignal
<1>6. /\ m.push = n.push + d /\ m.pushWait = n.pushWait - d
      /\ m.pop = n.pop - 1 /\ m.popWait = n.popWait
      /\ m.pushed = n.pushed /\ m.popped = n.popped + 1 /\ m.drop = n.drop
      /\ d = 0 <=> n.pushWait = 0
  <2>1. \A place \in Places : Num(pc, place) \in Nat
    BY <1>1, NumType
  <2> HIDE DEF p
  <2> QED  BY <2>1, <1>4, <1>5 DEF Counts, Places
<1> HIDE DEF n, m
<1>7. TrafficInv'
  <2>1. pushed + n.pushed = popped + n.popped + dropped + n.drop + q.count
    BY DEF JInv, TrafficInv, n
  <2>2. pushed \in Nat /\ popped \in Nat /\ dropped \in Nat
    BY DEF JInv, IInv, TypeOK
  <2>3. pushed + m.pushed = popped + m.popped + dropped + m.drop + (q.count - 1)
    BY <2>1, <2>2, <1>2, <1>3, <1>6
  <2> QED  BY <2>3, <1>2 DEF TrafficInv, m
<1>8. WaitInv'
  <2>1. /\ n.popWait # 0 => ~q.closed /\ q.count <= n.pop
        /\ n.pushWait # 0 => ~q.closed /\ Capacity - q.count <= n.push
    BY DEF JInv, WaitInv, n
  <2>2. m.popWait # 0 => ~q.closed /\ q.count - 1 <= m.pop
    BY <2>1, <1>2, <1>3, <1>6
  <2>3. m.pushWait # 0 => ~q.closed /\ Capacity - (q.count - 1) <= m.push
    BY <2>1, <1>2, <1>3, <1>6, CapacityAssumption
  <2> QED  BY <2>2, <2>3, <1>2 DEF WaitInv, m
<1> QED  BY <1>7, <1>8

\* A counter catches up with the ring, or the drain takes a message away.
LEMMA CountersCatchUp ==
    ASSUME JInv, NEW t \in Threads,
           PushCounted(t) \/ PopCounted(t) \/ DrainTakes(t) \/ DrainFrees(t)
    PROVE  WaitInv' /\ TrafficInv'
<1> DEFINE n == Counts(pc)
           m == Counts(pc')
<1>1. pc \in [Threads -> Places] /\ pc' \in [Threads -> Places]
  BY DEF JInv, IInv, TypeOK, PushCounted, PopCounted, DrainTakes, DrainFrees,
         Goto, Places
<1>2. /\ n.push \in Nat /\ n.pushWait \in Nat /\ n.pop \in Nat
      /\ n.popWait \in Nat /\ n.pushed \in Nat /\ n.popped \in Nat
      /\ n.drop \in Nat /\ m.push \in Nat /\ m.pushWait \in Nat
      /\ m.pop \in Nat /\ m.popWait \in Nat
  BY <1>1, CountsType
<1>3. /\ pushed \in Nat /\ popped \in Nat /\ dropped \in Nat
      /\ q.count \in 0 .. Capacity
  BY DEF JInv, IInv, TypeOK, QueueRecord
<1>4. pushed + n.pushed = popped + n.popped + dropped + n.drop + q.count
  BY DEF JInv, TrafficInv, n
<1>5. /\ n.popWait # 0 => ~q.closed /\ q.count <= n.pop
      /\ n.pushWait # 0 => ~q.closed /\ Capacity - q.count <= n.push
  BY DEF JInv, WaitInv, n
<1>6. ASSUME NEW from \in Places, NEW to \in Places, pc[t] = from, from # to,
             Goto(t, to)
      PROVE  /\ m.push = n.push + Delta("push", from, to)
             /\ m.pushWait = n.pushWait + Delta("pushWait", from, to)
             /\ m.pop = n.pop + Delta("pop", from, to)
             /\ m.popWait = n.popWait + Delta("popWait", from, to)
             /\ m.pushed = n.pushed + Delta("pushed", from, to)
             /\ m.popped = n.popped + Delta("popped", from, to)
             /\ m.drop = n.drop + Delta("drop", from, to)
  BY <1>6, CountsMove DEF JInv
<1>7. CASE PushCounted(t)
  <2>1. /\ m.push = n.push /\ m.pushWait = n.pushWait
        /\ m.pop = n.pop /\ m.popWait = n.popWait
        /\ m.pushed = n.pushed - 1 /\ m.popped = n.popped /\ m.drop = n.drop
    <3>1. pc[t] = "pushed" /\ Goto(t, "idle")
      BY <1>7 DEF PushCounted
    <3> HIDE DEF n, m
    <3> QED  BY <3>1, <1>2, <1>6 DEF Delta, Places
  <2>2. q' = q /\ pushed' = pushed + 1 /\ popped' = popped /\ dropped' = dropped
    BY <1>7 DEF PushCounted
  <2> HIDE DEF n, m
  <2>3. pushed' + m.pushed = popped + m.popped + dropped + m.drop + q.count
    <3>1. pushed' + m.pushed = pushed + n.pushed
      BY <2>1, <2>2, <1>2, <1>3
    <3> QED  BY <3>1, <2>1, <1>2, <1>3, <1>4
  <2> QED  BY <2>1, <2>2, <2>3, <1>5 DEF WaitInv, TrafficInv, m
<1>8. CASE PopCounted(t)
  <2>1. /\ m.push = n.push /\ m.pushWait = n.pushWait
        /\ m.pop = n.pop /\ m.popWait = n.popWait
        /\ m.pushed = n.pushed /\ m.popped = n.popped - 1 /\ m.drop = n.drop
    <3>1. pc[t] = "popped" /\ Goto(t, "holding")
      BY <1>8 DEF PopCounted
    <3> HIDE DEF n, m
    <3> QED  BY <3>1, <1>2, <1>6 DEF Delta, Places
  <2>2. q' = q /\ pushed' = pushed /\ popped' = popped + 1 /\ dropped' = dropped
    BY <1>8 DEF PopCounted
  <2> HIDE DEF n, m
  <2>3. pushed + m.pushed = popped' + m.popped + dropped + m.drop + q.count
    <3>1. popped' + m.popped = popped + n.popped
      BY <2>1, <2>2, <1>2, <1>3
    <3> QED  BY <3>1, <2>1, <1>2, <1>3, <1>4
  <2> QED  BY <2>1, <2>2, <2>3, <1>5 DEF WaitInv, TrafficInv, m
<1>9. CASE DrainTakes(t)
  <2>1. /\ m.push = n.push /\ m.pushWait = n.pushWait
        /\ m.pop = n.pop /\ m.popWait = n.popWait
        /\ m.pushed = n.pushed /\ m.popped = n.popped /\ m.drop = n.drop + 1
    <3>1. pc[t] = "drain" /\ Goto(t, "drop")
      BY <1>9 DEF DrainTakes
    <3> HIDE DEF n, m
    <3> QED  BY <3>1, <1>2, <1>6 DEF Delta, Places
  <2>2. /\ q'.count = q.count - 1 /\ q'.closed = q.closed /\ q.count # 0
        /\ pushed' = pushed /\ popped' = popped /\ dropped' = dropped
    BY <1>9 DEF DrainTakes, Dequeue, IsEmpty, metrics
  <2>3. q.closed
    <3>1. life # "live"
      BY <1>9 DEF DrainTakes, JInv, LifeInv
    <3> QED  BY <3>1 DEF JInv, LifeInv
  <2> HIDE DEF n, m
  <2>4. /\ pushed + m.pushed = popped + m.popped + dropped + m.drop + (q.count - 1)
        /\ m.popWait = 0 /\ m.pushWait = 0
    BY <2>1, <2>2, <2>3, <1>2, <1>3, <1>4, <1>5
  <2> QED  BY <2>2, <2>4 DEF WaitInv, TrafficInv, m
<1>10. CASE DrainFrees(t)
  <2>1. /\ m.push = n.push /\ m.pushWait = n.pushWait
        /\ m.pop = n.pop /\ m.popWait = n.popWait
        /\ m.pushed = n.pushed /\ m.popped = n.popped /\ m.drop = n.drop - 1
    <3>1. pc[t] = "drop" /\ Goto(t, "drain")
      BY <1>10 DEF DrainFrees
    <3> HIDE DEF n, m
    <3> QED  BY <3>1, <1>2, <1>6 DEF Delta, Places
  <2>2. q' = q /\ pushed' = pushed /\ popped' = popped /\ dropped' = dropped + 1
    BY <1>10 DEF DrainFrees
  <2> HIDE DEF n, m
  <2>3. pushed + m.pushed = popped + m.popped + dropped' + m.drop + q.count
    BY <2>1, <2>2, <1>2, <1>3, <1>4
  <2> QED  BY <2>1, <2>2, <2>3, <1>5 DEF WaitInv, TrafficInv, m
<1> QED  BY <1>7, <1>8, <1>9, <1>10

\* A close leaves nobody waiting.
LEMMA CloseWakes ==
    ASSUME JInv, NEW t \in Threads, Close(t)
    PROVE  WaitInv' /\ TrafficInv'
<1>1. pc \in [Threads -> Places] /\ pc' = Broadcast(pc)
  BY DEF JInv, IInv, TypeOK, Close
<1>2. q'.count = q.count
  BY ClosedFacts DEF JInv, IInv, TypeOK, Close
<1>3. /\ Counts(pc').popWait = 0 /\ Counts(pc').pushWait = 0
      /\ Counts(pc').pushed = Counts(pc).pushed
      /\ Counts(pc').popped = Counts(pc).popped
      /\ Counts(pc').drop = Counts(pc).drop
  BY <1>1, NumBroadcast DEF Counts, Places
<1>4. WaitInv'
  BY <1>3 DEF WaitInv
<1>5. TrafficInv'
  BY <1>2, <1>3 DEF JInv, TrafficInv, Close, metrics
<1> QED  BY <1>4, <1>5

\* Every step keeps what is said of the numbers of waiting threads and of the
\* counters of the traffic.
LEMMA StepCounts ==
    ASSUME JInv, [Next]_vars
    PROVE  WaitInv' /\ TrafficInv'
<1>1. CASE UNCHANGED vars
  BY <1>1 DEF JInv, WaitInv, TrafficInv, vars, metrics
<1>2. ASSUME NEW t \in Threads, HasMessage(t) PROVE WaitInv' /\ TrafficInv'
  BY <1>2 DEF JInv, WaitInv, TrafficInv, HasMessage, metrics
<1>3. ASSUME NEW t \in Threads, NEW b \in Blobs, Send(t, b)
      PROVE  WaitInv' /\ TrafficInv'
  BY <1>3, QuietMove DEF Send, Places
<1>4. ASSUME NEW t \in Threads, NEW b \in Blobs, MarshallSignal(t, b)
      PROVE  WaitInv' /\ TrafficInv'
  BY <1>4, QuietMove DEF MarshallSignal, Places
<1>5. ASSUME NEW t \in Threads, Cancel(t) \/ Receive(t) \/ DestroyStarts(t)
      PROVE  WaitInv' /\ TrafficInv'
  BY <1>5, QuietMove DEF Cancel, Receive, DestroyStarts, Places
<1>6. ASSUME NEW t \in Threads,
             \/ PushBlocks(t) \/ PushTimesOut(t)
             \/ PushRejected(t) \/ RejectFrees(t)
      PROVE  WaitInv' /\ TrafficInv'
  BY <1>6, QuietMove
     DEF PushBlocks, PushTimesOut, PushRejected, RejectFrees, Places
<1>7. ASSUME NEW t \in Threads,
             \/ PopBlocks(t) \/ PopTimesOut(t) \/ PopReturnsNull(t)
             \/ Unmarshall(t) \/ DestroyEnds(t)
      PROVE  WaitInv' /\ TrafficInv'
  BY <1>7, QuietMove
     DEF PopBlocks, PopTimesOut, PopReturnsNull, Unmarshall, DestroyEnds, Places
<1>8. ASSUME NEW t \in Threads, Begin(t) \/ Continue(t) \/ TimesOut(t)
      PROVE  WaitInv' /\ TrafficInv'
  BY <1>2, <1>3, <1>4, <1>5, <1>6, <1>7, <1>8,
     EnqueueWakes, DequeueWakes, CountersCatchUp, CloseWakes
     DEF Begin, Continue, TimesOut, PushStep, PopStep, CancelStep, DrainStep
<1> QED  BY <1>1, <1>8 DEF Next, Gone

\* The flag is stored before the signal exists and is never cleared.
LEMMA StepFlag ==
    ASSUME JInv, [Next]_vars
    PROVE  FlagInv'
<1>1. CASE UNCHANGED vars
  BY <1>1 DEF JInv, FlagInv, vars
<1>2. ASSUME NEW t \in Threads, Begin(t) \/ Continue(t) \/ TimesOut(t)
      PROVE  FlagInv'
  <2> USE DEF JInv, FlagInv, IInv, TypeOK
  <2>1. CASE Cancel(t)
    BY <2>1 DEF Cancel
  <2>2. ASSUME NEW b \in Blobs, MarshallSignal(t, b) PROVE FlagInv'
    BY <2>2 DEF MarshallSignal, Goto
  <2>3. ASSUME NEW b \in Blobs, Send(t, b) PROVE FlagInv'
    BY <2>3 DEF Send, Goto
  <2>4. CASE PushEnqueues(t) \/ PopDequeues(t)
    <3>1. cancel_flag' = cancel_flag /\ made' = made
      BY <2>4 DEF PushEnqueues, PopDequeues
    <3>2. \A u \in Threads : pc'[u] = "cancel" => pc[u] = "cancel"
      BY <2>4 DEF PushEnqueues, PopDequeues, SignalOne
    <3> QED  BY <3>1, <3>2
  <2>5. CASE Close(t)
    <3>1. \A u \in Threads : pc'[u] = "cancel" => pc[u] = "cancel"
      BY <2>5 DEF Close, Broadcast
    <3> QED  BY <2>5, <3>1 DEF Close
  <2>6. CASE \/ Receive(t) \/ HasMessage(t) \/ DestroyStarts(t)
             \/ PushBlocks(t) \/ PushTimesOut(t) \/ PushRejected(t)
             \/ RejectFrees(t) \/ PushCounted(t)
             \/ PopBlocks(t) \/ PopTimesOut(t) \/ PopReturnsNull(t)
             \/ PopCounted(t) \/ Unmarshall(t)
             \/ DrainTakes(t) \/ DrainFrees(t) \/ DestroyEnds(t)
    <3>1. cancel_flag' = cancel_flag /\ made' = made
      BY <2>6 DEF Receive, HasMessage, DestroyStarts, PushBlocks, PushTimesOut,
         PushRejected, RejectFrees, PushCounted, PopBlocks, PopTimesOut,
         PopReturnsNull, PopCounted, Unmarshall, DrainTakes, DrainFrees,
         DestroyEnds
    <3>2. \A u \in Threads : pc'[u] = "cancel" => pc[u] = "cancel"
      BY <2>6 DEF Receive, HasMessage, DestroyStarts, PushBlocks, PushTimesOut,
         PushRejected, RejectFrees, PushCounted, PopBlocks, PopTimesOut,
         PopReturnsNull, PopCounted, Unmarshall, DrainTakes, DrainFrees,
         DestroyEnds, Goto
    <3> QED  BY <3>1, <3>2
  <2> QED  BY <1>2, <2>1, <2>2, <2>3, <2>4, <2>5, <2>6
           DEF Begin, Continue, TimesOut, PushStep, PopStep, CancelStep, DrainStep
<1> QED  BY <1>1, <1>2 DEF Next, Gone

\* Once the destruction has begun only the owner moves.
LEMMA StepLife ==
    ASSUME JInv, [Next]_vars
    PROVE  LifeInv'
<1> USE ThreadAssumption DEF JInv, IInv, TypeOK
<1>1. CASE UNCHANGED vars
  BY <1>1 DEF LifeInv, vars, IsEmpty
<1>2. ASSUME NEW t \in Threads, Begin(t) PROVE LifeInv'
  <2>1. life = "live"
    BY <1>2 DEF Begin, Send, Cancel, Receive, HasMessage, Close, DestroyStarts
  <2>2. CASE DestroyStarts(t)
    BY <2>2 DEF DestroyStarts, Goto, LifeInv
  <2>3. CASE Close(t)
    BY <2>1, <2>3 DEF Close, Broadcast, LifeInv
  <2>4. CASE Receive(t) \/ HasMessage(t) \/ Cancel(t) \/ \E b \in Blobs : Send(t, b)
    BY <2>1, <2>4 DEF Receive, HasMessage, Cancel, Send, Goto, LifeInv
  <2> QED  BY <1>2, <2>2, <2>3, <2>4 DEF Begin
<1>3. ASSUME NEW t \in Threads, Continue(t) \/ TimesOut(t), life = "live"
      PROVE  LifeInv'
  <2>1. life' = "live" /\ \A u \in Threads : pc'[u] \notin {"drain", "drop"}
    <3>1. CASE PushEnqueues(t) \/ PopDequeues(t)
      BY <1>3, <3>1 DEF PushEnqueues, PopDequeues, SignalOne, LifeInv
    <3>2. CASE ~(PushEnqueues(t) \/ PopDequeues(t))
      BY <1>3, <3>2
         DEF Continue, TimesOut, PushStep, PopStep, CancelStep, DrainStep,
         PushBlocks, PushTimesOut, PushRejected, RejectFrees, PushCounted,
         PopBlocks, PopTimesOut, PopReturnsNull, PopCounted, Unmarshall,
         MarshallSignal, DrainTakes, DrainFrees, DestroyEnds, Goto, LifeInv
    <3> QED  BY <3>1, <3>2
  <2> QED  BY <2>1 DEF LifeInv
<1>4. ASSUME NEW t \in Threads, Continue(t) \/ TimesOut(t), life # "live"
      PROVE  LifeInv'
  <2>1. t = Owner /\ pc[t] \in {"drain", "drop"} /\ life = "draining" /\ q.closed
    BY <1>4
       DEF Continue, TimesOut, PushStep, PopStep, CancelStep, DrainStep,
       PushBlocks, PushTimesOut, PushRejected, RejectFrees, PushCounted,
       PushEnqueues, PopBlocks, PopTimesOut, PopReturnsNull, PopDequeues,
       PopCounted, Unmarshall, MarshallSignal, DrainTakes, DrainFrees,
       DestroyEnds, LifeInv
  <2>2. DrainStep(t)
    BY <1>4, <2>1
       DEF Continue, TimesOut, PushStep, PopStep, CancelStep,
       PushBlocks, PushTimesOut, PushRejected, RejectFrees, PushCounted,
       PushEnqueues, PopBlocks, PopTimesOut, PopReturnsNull, PopDequeues,
       PopCounted, Unmarshall, MarshallSignal
  <2>3. \A u \in Threads \ {Owner} : pc[u] = "idle"
    BY <1>4 DEF LifeInv
  <2>4. CASE DrainTakes(t)
    BY <2>1, <2>3, <2>4 DEF DrainTakes, Dequeue, Goto, LifeInv
  <2>5. CASE DrainFrees(t)
    BY <2>1, <2>3, <2>5 DEF DrainFrees, Goto, LifeInv
  <2>6. CASE DestroyEnds(t)
    BY <2>1, <2>3, <2>6 DEF DestroyEnds, Goto, LifeInv
  <2> QED  BY <2>2, <2>4, <2>5, <2>6 DEF DrainStep
<1> QED  BY <1>1, <1>2, <1>3, <1>4 DEF Next, Gone

-----------------------------------------------------------------------------
\* The conjunction is inductive.
THEOREM CountInvariance == Spec => []JInv
<1>1. Init => JInv
  BY InitJ
<1>2. JInv /\ [Next]_vars => JInv'
  BY StepInv, StepCounts, StepFlag, StepLife DEF JInv
<1> QED  BY <1>1, <1>2, PTL DEF Spec

\* Two ways to count the threads at a place.
LEMMA StandingCounts ==
    \A place : Cardinality(Standing(place)) = Num(pc, place)
BY DEF Standing, Num

\* No thread sleeps next to work it could do, with one signal() per push and
\* per pop and without the timeouts of the waits.
THEOREM WakeUps == Spec => []NoLostWakeup
<1>1. JInv => NoLostWakeup
  <2> SUFFICES ASSUME JInv PROVE NoLostWakeup
    OBVIOUS
  <2>1. /\ Standing("popWait") # {} => Num(pc, "popWait") # 0
        /\ Standing("pushWait") # {} => Num(pc, "pushWait") # 0
    BY NumType DEF Standing, JInv, IInv, TypeOK, Places
  <2> QED  BY <2>1, StandingCounts DEF NoLostWakeup, JInv, WaitInv, Counts
<1> QED  BY <1>1, CountInvariance, PTL

\* The traffic counters balance at every moment.
THEOREM Traffic == Spec => []Accounted
<1>1. JInv => Accounted
  BY StandingCounts DEF Accounted, JInv, TrafficInv, Counts
<1> QED  BY <1>1, CountInvariance, PTL

\* A receiver that pops a CANCEL signal finds the flag set.
THEOREM FlagFirst == Spec => []FlagBeforeSignal
<1>1. JInv => FlagBeforeSignal
  BY DEF JInv, FlagInv, FlagBeforeSignal
<1> QED  BY <1>1, CountInvariance, PTL

\* A destroyed queue leaves no envelope behind and the report balances.
THEOREM CleanDestruction == Spec => []CleanWhenDestroyed
<1>1. JInv => CleanWhenDestroyed
  <2> SUFFICES ASSUME JInv, life = "destroyed"
               PROVE  made = freed /\ pushed = popped + dropped
    BY DEF CleanWhenDestroyed
  <2>1. /\ \A t \in Threads : pc[t] = "idle"
        /\ q.count = 0 /\ q \in QueueRecord
    BY ThreadAssumption DEF JInv, LifeInv, IsEmpty, IInv, TypeOK
  <2>2. Held(q) = {}
    <3>1. Window(q) = {}
      BY <2>1 DEF Window
    <3> QED  BY <3>1 DEF JInv, IInv, RingOK, RingShape, Held
  <2>3. InLocals = {}
    BY <2>1 DEF JInv, IInv, TypeOK, Loaded, InLocals
  <2>4. made = freed
    BY <2>2, <2>3 DEF JInv, IInv, SingleOwner
  <2>5. Num(pc, "pushed") = 0 /\ Num(pc, "popped") = 0 /\ Num(pc, "drop") = 0
    BY <2>1, NumType DEF JInv, IInv, TypeOK, Places
  <2>6. pushed = popped + dropped
    BY <2>1, <2>5 DEF JInv, TrafficInv, Counts, IInv, TypeOK
  <2> QED  BY <2>4, <2>6
<1> QED  BY <1>1, CountInvariance, PTL

-----------------------------------------------------------------------------
\* One thread consumes, as the runtime wires its two queues per worker.
SoleReceiver == \A t, u \in Receivers : t = u

\* Nobody else is in msg_queue_pop, and what was announced is still there.
KeptInv ==
    /\ \A t \in Threads : pc[t] \in {"pop", "popWait"} => t \in Receivers
    /\ HasMessageKept

\* HasMessageKept follows its single consumer: it alone empties the queue, and
\* then forgets the answer; a close leaves the messages, and msg_queue_destroy
\* begins when nobody may use the answer any more.
LEMMA StepKept ==
    ASSUME SoleReceiver, JInv, KeptInv, [Next]_vars
    PROVE  KeptInv'
<1> USE ThreadAssumption
<1>0. /\ pc \in [Threads -> Places] /\ has \in [Threads -> BOOLEAN]
      /\ q \in QueueRecord /\ q.count \in Nat
  BY CapacityAssumption DEF JInv, IInv, TypeOK, QueueRecord
<1>1. CASE UNCHANGED vars
  BY <1>1 DEF KeptInv, HasMessageKept, vars, IsEmpty
<1>2. ASSUME NEW t \in Threads, PushEnqueues(t) PROVE KeptInv'
  <2>1. \A u \in Threads : pc'[u] \in {"pop", "popWait"} =>
            pc[u] \in {"pop", "popWait"} /\ (pc'[u] = "popWait" => pc[u] = "popWait")
    BY <1>0, <1>2 DEF PushEnqueues, SignalOne
  <2>2. ~IsEmpty(q)' /\ has' = has /\ life' = life
    BY <1>0, <1>2 DEF PushEnqueues, Enqueue, IsEmpty
  <2> QED BY <2>1, <2>2 DEF KeptInv, HasMessageKept
<1>3. ASSUME NEW t \in Threads, PopDequeues(t) PROVE KeptInv'
  <2>1. \A u \in Threads : pc'[u] \in {"pop", "popWait"} => pc[u] \in {"pop", "popWait"}
    BY <1>0, <1>3 DEF PopDequeues, SignalOne
  <2>2. t \in Receivers /\ has'[t] = FALSE
    BY <1>0, <1>3 DEF PopDequeues, KeptInv
  <2>3. \A u \in Receivers : has'[u] = FALSE
    BY <2>2 DEF SoleReceiver
  <2> QED BY <2>1, <2>3 DEF KeptInv, HasMessageKept
<1>4. ASSUME NEW t \in Threads, Close(t) PROVE KeptInv'
  BY <1>0, <1>4 DEF Close, Closed, Broadcast, IsEmpty, KeptInv, HasMessageKept
<1>5. ASSUME NEW t \in Threads,
             \/ \E b \in Blobs : Send(t, b) \/ MarshallSignal(t, b)
             \/ Cancel(t) \/ PushBlocks(t) \/ PushTimesOut(t) \/ PushRejected(t)
             \/ RejectFrees(t) \/ PushCounted(t) \/ PopCounted(t) \/ Unmarshall(t)
      PROVE  KeptInv'
  <2>1. /\ q' = q /\ has' = has /\ life' = life
        /\ \A u \in Threads : pc'[u] \in {"pop", "popWait"} => pc'[u] = pc[u]
    BY <1>0, <1>5 DEF Send, MarshallSignal, Cancel, PushBlocks, PushTimesOut, PushRejected,
                      RejectFrees, PushCounted, PopCounted, Unmarshall, Goto
  <2> QED BY <2>1 DEF KeptInv, HasMessageKept, IsEmpty
<1>6. ASSUME NEW t \in Threads,
             Receive(t) \/ HasMessage(t) \/ PopBlocks(t) \/ PopTimesOut(t) \/ PopReturnsNull(t)
      PROVE  KeptInv'
  <2>1. q' = q /\ life' = life /\ \A u \in Threads \ {t} : pc'[u] = pc[u] /\ has'[u] = has[u]
    BY <1>0, <1>6 DEF Receive, HasMessage, PopBlocks, PopTimesOut, PopReturnsNull, Goto
  <2>2. pc'[t] \in {"pop", "popWait"} => t \in Receivers
    BY <1>0, <1>6 DEF Receive, HasMessage, PopBlocks, PopTimesOut, PopReturnsNull, Goto, KeptInv
  <2>3. has'[t] /\ life = "live" /\ t \in Receivers => ~IsEmpty(q) /\ pc'[t] # "popWait"
    BY <1>0, <1>6 DEF Receive, HasMessage, PopBlocks, PopTimesOut, PopReturnsNull, Goto,
                      KeptInv, HasMessageKept
  <2> QED BY <2>1, <2>2, <2>3 DEF KeptInv, HasMessageKept, IsEmpty
<1>7. ASSUME NEW t \in Threads,
             DestroyStarts(t) \/ DrainTakes(t) \/ DrainFrees(t) \/ DestroyEnds(t)
      PROVE  KeptInv'
  <2>1. life' # "live"
    BY <1>7 DEF DestroyStarts, DrainTakes, DrainFrees, DestroyEnds, JInv, LifeInv
  <2>2. \A u \in Threads : pc'[u] \in {"pop", "popWait"} => pc'[u] = pc[u]
    BY <1>0, <1>7 DEF DestroyStarts, DrainTakes, DrainFrees, DestroyEnds, Goto
  <2> QED BY <2>1, <2>2 DEF KeptInv, HasMessageKept
<1> QED BY <1>1, <1>2, <1>3, <1>4, <1>5, <1>6, <1>7
        DEF Next, Gone, Begin, Continue, TimesOut, PushStep, PopStep, CancelStep, DrainStep

\* RECEIVE after HASMESSAGE does not block, with one consumer, whatever the
\* other threads do in between.
THEOREM AnnouncedStays == ASSUME SoleReceiver PROVE Spec => []HasMessageKept
<1>1. Init => KeptInv
  BY ThreadAssumption DEF Init, KeptInv, HasMessageKept
<1>2. JInv /\ KeptInv /\ [Next]_vars => KeptInv'
  BY StepKept
<1>3. KeptInv => HasMessageKept
  BY DEF KeptInv
<1> QED BY <1>1, <1>2, <1>3, CountInvariance, PTL DEF Spec
=============================================================================
