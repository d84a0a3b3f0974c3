---------------------------- MODULE TimersProofs ----------------------------
(***************************************************************************)
(* Proofs about Timers, for any number of timers, slots and queues.  What  *)
(* the variables may hold, what becomes of the blobs and that slots come   *)
(* back is proved for any number of callers; that TIMER STOP reaches the   *)
(* right threads, for a program in which one thread executes AFTER, EVERY, *)
(* TIMER STOP and AWAIT: with two callers OwnSlot and StopLeavesNone do    *)
(* not hold of the code.                                                   *)
(***************************************************************************)
EXTENDS Timers, TLAPS

\* What the steps of a timer and of a start rely on, and what they leave.
Placed ==
    /\ \A t \in Timers : tpc[t] \in {"ready", "sleep", "push", "mark"} =>
           tslot[t] \in Slots /\ tqueue[t] \in Queues
    /\ \A c \in Callers : cpc[c] = "start" =>
           /\ ctimer[c] \in Timers /\ tpc[ctimer[c]] = "ready"
           /\ tslot[ctimer[c]] = cslot[c]
    /\ \A c, d \in Callers :
           cpc[c] = "start" /\ cpc[d] = "start" /\ ctimer[c] = ctimer[d] => c = d
    /\ \A t \in Timers : tpc[t] \in {"mark", "gone"} => blob[t] \in {"queued", "freed"}

TInv == TypeOK /\ Placed

-----------------------------------------------------------------------------
\* An empty slot table is well typed.
LEMMA TypeInit == Init => TInv
<1> SUFFICES ASSUME Init PROVE TInv
  OBVIOUS
<1>1. 0 \in Slots /\ 0 \in 0 .. Capacity
  BY TimersAssumption DEF Slots
<1>2. TypeOK
  BY <1>1, TimersAssumption DEF Init, TypeOK, TimerPlaces, CallerPlaces
<1>3. Placed
  BY DEF Init, Placed
<1> QED BY <1>2, <1>3 DEF TInv

\* AFTER and EVERY.
LEMMA TypeStart ==
    ASSUME TInv, NEW c \in Callers, Start(c) PROVE TInv'
<1> USE TimersAssumption DEF TInv, TimerPlaces, CallerPlaces
<1>1. ASSUME NEW t \in Timers, NEW k \in Queues, NoSlot(c, t, k) PROVE TInv'
  <2>1. TypeOK'
    BY <1>1 DEF NoSlot, Timer, TypeOK, table, callers, joins, queues
  <2>2. Placed'
    BY <1>1 DEF NoSlot, Timer, TypeOK, Placed, callers
  <2> QED BY <2>1, <2>2
<1>2. ASSUME NEW t \in Timers, NEW k \in Queues, Acquire(c, t, k) PROVE TInv'
  <2>1. PICK i \in Slots :
          /\ active' = [active EXCEPT ![i] = TRUE]
          /\ cancel' = [cancel EXCEPT ![i] = FALSE]
          /\ thread' = [thread EXCEPT ![i] = NULL]
          /\ cslot' = [cslot EXCEPT ![c] = i]
          /\ tslot' = [tslot EXCEPT ![t] = i]
    BY <1>2 DEF Acquire
  <2>2. /\ tpc[t] = "none"
        /\ tqueue' = [tqueue EXCEPT ![t] = k]
        /\ blob' = [blob EXCEPT ![t] = "held"]
        /\ ctimer' = [ctimer EXCEPT ![c] = t]
        /\ tpc' = [tpc EXCEPT ![t] = "ready"]
        /\ cpc' = [cpc EXCEPT ![c] = "start"]
        /\ UNCHANGED <<doomed, joins, queues>>
    BY <1>2 DEF Acquire, Timer, Step
  <2>3. TypeOK'
    BY <2>1, <2>2 DEF TypeOK, joins, queues
  <2>4. Placed'
    BY <2>1, <2>2 DEF TypeOK, Placed
  <2> QED BY <2>3, <2>4
<1> QED BY <1>1, <1>2 DEF Start

\* The second half of AFTER and EVERY.
LEMMA TypeCreate ==
    ASSUME TInv, NEW c \in Callers, CreateFails(c) \/ Create(c) \/ Store(c) PROVE TInv'
<1> USE TimersAssumption DEF TInv, TimerPlaces, CallerPlaces
<1>1. cpc[c] = "start" => ctimer[c] \in Timers /\ tpc[ctimer[c]] = "ready"
  BY DEF Placed
<1>2. CASE CreateFails(c)
  <2>1. TypeOK'
    BY <1>1, <1>2 DEF CreateFails, Timer, Step, TypeOK, joins, queues
  <2>2. Placed'
    BY <1>1, <1>2 DEF CreateFails, Timer, Step, TypeOK, Placed
  <2> QED BY <2>1, <2>2
<1>3. CASE Create(c)
  <2>1. TypeOK'
    BY <1>1, <1>3 DEF Create, Timer, Step, TypeOK, table, joins, queues
  <2>2. Placed'
    BY <1>1, <1>3 DEF Create, Timer, Step, TypeOK, Placed
  <2> QED BY <2>1, <2>2
<1>4. CASE Store(c)
  <2>1. TypeOK'
    BY <1>4 DEF Store, Step, TypeOK, threads, joins, queues
  <2>2. Placed'
    BY <1>4 DEF Store, Step, TypeOK, Placed, threads
  <2> QED BY <2>1, <2>2
<1> QED BY <1>2, <1>3, <1>4

\* What follows a push.
LEMMA AfterPushFacts ==
    ASSUME TInv, NEW t \in Timers, tpc[t] = "push", NEW accepted \in BOOLEAN,
           AfterPush(t, accepted)
    PROVE  \E place \in {"sleep", "mark"}, b \in {"none", "held", "queued", "freed"} :
               /\ tpc' = [tpc EXCEPT ![t] = place] /\ blob' = [blob EXCEPT ![t] = b]
               /\ place = "mark" => b \in {"queued", "freed"}
<1>1. blob[t] \in {"none", "held", "queued", "freed"} /\ blob = [blob EXCEPT ![t] = blob[t]]
  BY DEF TInv, TypeOK
<1>2. CASE t \in Repeating
  BY <1>1, <1>2 DEF AfterPush, Timer
<1>3. CASE t \notin Repeating
  BY <1>1, <1>3 DEF AfterPush, Timer
<1> QED BY <1>2, <1>3

\* The steps of a timer.
LEMMA TypeTimer ==
    ASSUME TInv, NEW t \in Timers, TimerStep(t) \/ CloneFails(t) PROVE TInv'
<1> USE TimersAssumption DEF TInv, TimerPlaces, CallerPlaces
<1>1. ASSUME NEW place \in {"sleep", "push", "mark"},
             NEW b \in {"none", "held", "queued", "freed"},
             Running(t), tpc' = [tpc EXCEPT ![t] = place], blob' = [blob EXCEPT ![t] = b],
             place = "mark" => b \in {"queued", "freed"},
             UNCHANGED <<table, tslot, tqueue, callers, joins, life>>,
             length' \in [Queues -> 0 .. Capacity]
      PROVE  TInv'
  <2>1. TypeOK'
    BY <1>1 DEF TypeOK, table, callers, joins
  <2>2. Placed'
    BY <1>1 DEF TypeOK, Placed, callers, Running
  <2> QED BY <2>1, <2>2
<1>2. length \in [Queues -> 0 .. Capacity] /\ blob = [blob EXCEPT ![t] = blob[t]]
      /\ blob[t] \in {"none", "held", "queued", "freed"}
  BY DEF TypeOK
<1>3. CASE SeesCancel(t) \/ CloneFails(t)
  BY <1>1, <1>2, <1>3 DEF SeesCancel, CloneFails, Timer, Running, queues
<1>4. CASE Fires(t)
  BY <1>1, <1>2, <1>4 DEF Fires, Timer, Running, queues
<1>5. ASSUME tpc[t] = "push", NEW accepted \in BOOLEAN, AfterPush(t, accepted),
             UNCHANGED <<table, tslot, tqueue, callers, joins, life>>,
             length' \in [Queues -> 0 .. Capacity]
      PROVE  TInv'
  <2>1. PICK place \in {"sleep", "mark"}, b \in {"none", "held", "queued", "freed"} :
               /\ tpc' = [tpc EXCEPT ![t] = place] /\ blob' = [blob EXCEPT ![t] = b]
               /\ place = "mark" => b \in {"queued", "freed"}
    BY <1>5, AfterPushFacts
  <2> QED BY <1>1, <1>5, <2>1 DEF Running
<1>6. CASE PushAccepted(t)
  <2>1. tqueue[t] \in Queues
    BY <1>6 DEF PushAccepted, Placed
  <2>2. length[tqueue[t]] + 1 \in 0 .. Capacity
    BY <1>2, <1>6, <2>1 DEF PushAccepted
  <2>3. length' \in [Queues -> 0 .. Capacity]
    BY <1>2, <1>6, <2>2 DEF PushAccepted
  <2> QED BY <1>5, <1>6, <2>3 DEF PushAccepted
<1>7. CASE PushRejected(t)
  BY <1>2, <1>5, <1>7 DEF PushRejected, queues
<1>8. CASE PushOnFreed(t)
  BY <1>2, <1>5, <1>8 DEF PushOnFreed, queues
<1>9. CASE Mark(t)
  <2>1. TypeOK'
    BY <1>9 DEF Mark, Timer, TypeOK, callers, joins, queues
  <2>2. Placed'
    BY <1>9 DEF Mark, Timer, TypeOK, Placed, callers
  <2> QED BY <2>1, <2>2
<1> QED BY <1>3, <1>4, <1>6, <1>7, <1>8, <1>9 DEF TimerStep

\* TIMER STOP and TIMER STOP ALL.
LEMMA TypeStop ==
    ASSUME TInv, NEW c \in Callers,
           \/ StopJoins(c) \/ StopClears(c) \/ Look(c) \/ JoinNext(c) \/ ClearNext(c)
           \/ StopAll(c) \/ \E i \in Slots : Stop(c, i)
    PROVE  TInv'
<1> USE TimersAssumption DEF TInv, TimerPlaces, CallerPlaces
<1>1. ASSUME NEW p \in CallerPlaces \ {"start"}, cpc' = [cpc EXCEPT ![c] = p],
             \A d \in Callers \ {c} : ctimer'[d] = ctimer[d] /\ cslot'[d] = cslot[d],
             threads' = threads
      PROVE  Placed'
  BY <1>1 DEF TypeOK, Placed, threads
<1>2. ASSUME NEW i \in Slots, Stop(c, i) PROVE TInv'
  <2>1. {t \in Alive : tslot[t] = i} \subseteq Timers /\ thread[i] \in Timers \cup {NULL}
    BY DEF Alive, TypeOK
  <2>2. TypeOK'
    BY <1>2, <2>1 DEF Stop, Step, TypeOK, threads, joins, queues
  <2>3. \A d \in Callers \ {c} : ctimer'[d] = ctimer[d] /\ cslot'[d] = cslot[d]
    BY <1>2 DEF Stop, TypeOK
  <2> QED BY <1>1, <1>2, <2>2, <2>3 DEF Stop, Step
<1>3. CASE StopAll(c)
  <2>1. Alive \subseteq Timers /\ 0 \in Slots
    BY DEF Alive, Slots
  <2>2. TypeOK'
    BY <1>3, <2>1 DEF StopAll, Step, TypeOK, threads, joins, queues
  <2>3. \A d \in Callers \ {c} : ctimer'[d] = ctimer[d] /\ cslot'[d] = cslot[d]
    BY <1>3 DEF StopAll, TypeOK
  <2> QED BY <1>1, <1>3, <2>2, <2>3 DEF StopAll, Step
<1>4. ASSUME NEW place \in {"clear", "clearAll"}, JoinThen(c, place) PROVE TInv'
  <2>1. TypeOK'
    BY <1>4 DEF JoinThen, Step, TypeOK, table, threads, queues
  <2>2. \A d \in Callers \ {c} : ctimer'[d] = ctimer[d] /\ cslot'[d] = cslot[d]
    BY <1>4 DEF JoinThen, TypeOK
  <2> QED BY <1>1, <1>4, <2>1, <2>2 DEF JoinThen, Step
<1>5. CASE StopClears(c)
  <2>1. TypeOK'
    BY <1>5 DEF StopClears, Step, TypeOK, threads, joins, queues
  <2> QED BY <1>1, <1>5, <2>1 DEF StopClears, Step
<1>6. CASE Look(c)
  <2>1. TypeOK'
    BY <1>6 DEF Look, Step, TypeOK, table, threads, joins, queues
  <2>2. \A d \in Callers \ {c} : ctimer'[d] = ctimer[d] /\ cslot'[d] = cslot[d]
    BY <1>6 DEF Look, TypeOK
  <2> QED BY <1>1, <1>6, <2>1, <2>2 DEF Look, Step
<1>7. CASE ClearNext(c)
  <2>1. \E p \in {"look", "run"} : cpc' = [cpc EXCEPT ![c] = p]
    BY <1>7 DEF ClearNext, Step
  <2>2. cslot' \in [Callers -> Slots]
    BY <1>7 DEF ClearNext, TypeOK, Slots
  <2>3. TypeOK'
    <3>1. cpc' \in [Callers -> CallerPlaces]
      BY <2>1 DEF TypeOK
    <3>2. doomed' \in [Callers -> SUBSET Timers]
      BY <1>7 DEF ClearNext, TypeOK
    <3> QED BY <1>7, <2>2, <3>1, <3>2 DEF ClearNext, TypeOK, threads, joins, queues
  <2>4. \A d \in Callers \ {c} : ctimer'[d] = ctimer[d] /\ cslot'[d] = cslot[d]
    BY <1>7 DEF ClearNext, TypeOK
  <2> QED BY <1>1, <1>7, <2>1, <2>3, <2>4 DEF ClearNext
<1> QED BY <1>2, <1>3, <1>4, <1>5, <1>6, <1>7 DEF StopJoins, JoinNext

\* The readers of the queues, and AWAIT.
LEMMA TypeQueue ==
    ASSUME TInv, NEW k \in Queues, Take(k) \/ Close(k) \/ Release(k) PROVE TInv'
<1> USE TimersAssumption DEF TInv, TimerPlaces, CallerPlaces, Callers
<1>1. CASE Take(k)
  <2>1. length[k] - 1 \in 0 .. Capacity
    BY <1>1 DEF Take, TypeOK
  <2>2. TypeOK'
    BY <1>1, <2>1 DEF Take, TypeOK, table, threads, callers, joins
  <2>3. Placed'
    BY <1>1 DEF Take, Placed, threads, callers
  <2> QED BY <2>2, <2>3
<1>2. CASE Close(k) \/ Release(k)
  <2>1. TypeOK'
    <3>1. 0 \in 0 .. Capacity
      OBVIOUS
    <3>2. CASE Close(k)
      BY <3>2 DEF Close, Step, TypeOK, table, threads, joins
    <3>3. CASE Release(k)
      BY <3>1, <3>3 DEF Release, Step, TypeOK, table, threads, joins
    <3> QED BY <1>2, <3>2, <3>3
  <2>2. Placed'
    BY <1>2 DEF Close, Release, Step, TypeOK, Placed, threads
  <2> QED BY <2>1, <2>2
<1> QED BY <1>1, <1>2

\* Every step of a timer, a caller or the reader keeps the types.
LEMMA TypeStep == TInv /\ [Next]_vars => TInv'
<1> SUFFICES ASSUME TInv, [Next]_vars PROVE TInv'
  OBVIOUS
<1>1. CASE UNCHANGED vars
  BY <1>1 DEF vars, table, threads, callers, joins, queues, TInv, TypeOK, Placed
<1>2. ASSUME NEW c \in Callers,
             CallerStep(c) \/ Start(c) \/ StopAll(c) \/ \E i \in Slots : Stop(c, i)
      PROVE  TInv'
  BY <1>2, TypeStart, TypeCreate, TypeStop DEF CallerStep
<1> QED BY <1>1, <1>2, TypeTimer, TypeQueue DEF Next

\* Every variable stays in its range, whatever the callers do.
THEOREM TypeCorrect == Spec => []TypeOK
<1>1. TInv => TypeOK
  BY DEF TInv
<1> QED BY <1>1, TypeInit, TypeStep, PTL DEF Spec

\* BlobSettled: a timer leaves no blob behind, however many threads start and
\* stop timers and whenever the queues close.
THEOREM Settled == Spec => []BlobSettled
<1>1. TInv => BlobSettled
  BY DEF TInv, Placed, BlobSettled
<1> QED BY <1>1, TypeInit, TypeStep, PTL DEF Spec

\* Whatever a step does, a slot without a timer is inactive: the timer gives it
\* back before it ends, or a stop does after the join.
LEMMA BackStep == TInv /\ SlotsComeBack /\ [Next]_vars => SlotsComeBack'
<1> SUFFICES ASSUME TInv, SlotsComeBack, [Next]_vars PROVE SlotsComeBack'
  OBVIOUS
<1> USE DEF TInv, TypeOK, SlotsComeBack, Alive, Running
<1>1. CASE UNCHANGED vars
  BY <1>1 DEF vars, table, threads
<1>2. ASSUME NEW t \in Timers, TimerStep(t) \/ CloneFails(t) PROVE SlotsComeBack'
  <2>1. CASE Mark(t)
    BY <2>1 DEF Mark, Timer, Placed
  <2>2. CASE ~Mark(t)
    <3>1. UNCHANGED <<table, tslot>>
      BY <1>2, <2>2 DEF TimerStep, CloneFails, SeesCancel, Fires, PushAccepted, PushRejected,
                        PushOnFreed
    <3>2. Running(t) /\ \E p \in {"sleep", "push", "mark"} : tpc' = [tpc EXCEPT ![t] = p]
      BY <1>2, <2>2 DEF TimerStep, CloneFails, SeesCancel, Fires, PushAccepted, PushRejected,
                        PushOnFreed, AfterPush, Timer
    <3> QED BY <3>1, <3>2 DEF table
  <2> QED BY <2>1, <2>2
<1>3. ASSUME NEW c \in Callers, CreateFails(c) \/ Create(c) PROVE SlotsComeBack'
  BY <1>3 DEF CreateFails, Create, Timer, Placed, table
<1>4. ASSUME NEW c \in Callers, NEW t \in Timers, NEW k \in Queues, Acquire(c, t, k)
      PROVE  SlotsComeBack'
  <2>1. PICK i \in Slots : active' = [active EXCEPT ![i] = TRUE]
                         /\ tslot' = [tslot EXCEPT ![t] = i]
    BY <1>4 DEF Acquire
  <2> QED BY <1>4, <2>1 DEF Acquire, Timer
<1>5. ASSUME NEW c \in Callers, NEW t \in Timers, NEW k \in Queues, NoSlot(c, t, k)
      PROVE  SlotsComeBack'
  BY <1>5 DEF NoSlot, Timer, table
<1>6. ASSUME NEW c \in Callers,
             \/ Store(c) \/ StopJoins(c) \/ StopClears(c) \/ Look(c) \/ JoinNext(c)
             \/ ClearNext(c) \/ StopAll(c) \/ \E i \in Slots : Stop(c, i)
      PROVE  SlotsComeBack'
  <2>1. UNCHANGED threads /\ \A i \in Slots : active'[i] => active[i]
    BY <1>6 DEF Store, StopJoins, StopClears, Look, JoinNext, ClearNext, StopAll, Stop, JoinThen,
                table
  <2> QED BY <2>1 DEF threads
<1>7. ASSUME NEW k \in Queues, Take(k) \/ Close(k) \/ Release(k) PROVE SlotsComeBack'
  BY <1>7 DEF Take, Close, Release, table, threads
<1> QED BY <1>1, <1>2, <1>3, <1>4, <1>5, <1>6, <1>7 DEF Next, CallerStep, Start

\* SlotsComeBack, of any number of callers: a slot that is taken has a timer in
\* it, or one about to be created, so that the table never fills up for good.
THEOREM ComeBack == Spec => []SlotsComeBack
<1>1. Init => SlotsComeBack
  BY DEF Init, SlotsComeBack
<1> QED BY <1>1, TypeInit, TypeStep, BackStep, PTL DEF Spec

-----------------------------------------------------------------------------
\* One thread starts and stops timers.
OneCaller == Callers = {Main}

Here(t) == Running(t) /\ tslot[t] = cslot[Main]

\* A running timer has its slot, and the slot its thread once Store is done.
OwnsSlot(t) ==
    /\ active[tslot[t]]
    /\ \/ thread[tslot[t]] = t
       \/ thread[tslot[t]] = NULL /\ cpc[Main] = "store" /\ ctimer[Main] = t
    /\ \A u \in Timers : Running(u) /\ tslot[u] = tslot[t] => u = t

\* A stored thread has run in that slot, and is joined at most once: it stays
\* in the slot after its join only until the caller clears the slot.
StoredRight(i) ==
    LET u == thread[i]
    IN  u # NULL => /\ tslot[u] = i /\ tpc[u] \notin {"none", "ready"}
                    /\ u \in joined =>
                         cpc[Main] \in {"clear", "clearAll"} /\ cslot[Main] = i

\* The slot the caller works on.
CallerRight ==
    /\ \A t \in Timers : tpc[t] = "ready" <=> cpc[Main] = "start" /\ ctimer[Main] = t
    /\ cpc[Main] = "start" =>
         /\ active[cslot[Main]]
         /\ thread[cslot[Main]] = NULL
    /\ cpc[Main] \in {"start", "clear", "clearAll"} => \A t \in Timers : ~Here(t)
    /\ cpc[Main] = "store" => ctimer[Main] # NULL
    /\ cpc[Main] \in {"store", "join", "joinAll"} =>
         /\ \A t \in Timers : Here(t) => t = ctimer[Main]
         /\ ctimer[Main] # NULL =>
              /\ tslot[ctimer[Main]] = cslot[Main] /\ ctimer[Main] \notin joined
              /\ tpc[ctimer[Main]] \notin {"none", "ready"}

\* The running timers that a TIMER STOP has still to join.
DoomedAhead ==
    \A t \in doomed[Main] : Running(t) =>
        /\ cpc[Main] \in {"join", "clear"} => tslot[t] = cslot[Main]
        /\ cpc[Main] \in {"look", "joinAll", "clearAll"} => tslot[t] >= cslot[Main]

TableInv ==
    /\ \A t \in Timers : Running(t) => OwnsSlot(t)
    /\ \A i \in Slots : StoredRight(i)
    /\ CallerRight /\ DoomedAhead
    /\ \A t \in joined : tpc[t] = "gone"
    /\ rejoined = {}

\* Before the first AFTER nothing is in the table.
LEMMA TableInit == Init => TableInv
<1> SUFFICES ASSUME Init PROVE TableInv
  OBVIOUS
<1>1. Main \in Callers
  BY TimersAssumption DEF Callers
<1> QED BY <1>1 DEF Init, TableInv, Running, StoredRight, CallerRight, Here, DoomedAhead

\* AFTER and EVERY take a slot that no running timer has.
LEMMA TableAcquire ==
    ASSUME OneCaller, TInv, TableInv, NEW t \in Timers, NEW k \in Queues, Acquire(Main, t, k)
    PROVE  TableInv'
<1> USE TimersAssumption DEF TInv, TypeOK, OneCaller, Running
<1>1. PICK i \in Slots :
        /\ ~active[i]
        /\ active' = [active EXCEPT ![i] = TRUE]
        /\ thread' = [thread EXCEPT ![i] = NULL]
        /\ cslot' = [cslot EXCEPT ![Main] = i]
        /\ tslot' = [tslot EXCEPT ![t] = i]
  BY DEF Acquire
<1>2. /\ cpc[Main] = "run" /\ tpc[t] = "none"
      /\ ctimer' = [ctimer EXCEPT ![Main] = t]
      /\ tpc' = [tpc EXCEPT ![t] = "ready"]
      /\ cpc' = [cpc EXCEPT ![Main] = "start"]
      /\ UNCHANGED <<doomed, joins>>
  BY DEF Acquire, Timer, Step
<1>3. \A u \in Timers : Running(u)' => Running(u) /\ tslot'[u] = tslot[u] /\ tslot[u] # i /\ u # t
  BY <1>1, <1>2 DEF TableInv, OwnsSlot
<1>4. ASSUME NEW u \in Timers, Running(u)' PROVE OwnsSlot(u)'
  BY <1>1, <1>2, <1>3, <1>4 DEF TableInv, OwnsSlot, Placed
<1>5. ASSUME NEW j \in Slots PROVE StoredRight(j)'
  BY <1>1, <1>2 DEF TableInv, StoredRight, joins
<1>6. CallerRight'
  <2>1. \A u \in Timers : ~Here(u)'
    BY <1>1, <1>2, <1>3 DEF Here
  <2> QED BY <1>1, <1>2, <2>1 DEF TableInv, CallerRight
<1>7. DoomedAhead'
  BY <1>2 DEF DoomedAhead
<1>8. \A u \in joined' : tpc'[u] = "gone"
  BY <1>2 DEF TableInv, joins
<1> QED BY <1>2, <1>4, <1>5, <1>6, <1>7, <1>8 DEF TableInv, joins

\* The thread is created, or not, and stored.
LEMMA TableCreate ==
    ASSUME OneCaller, TInv, TableInv, CreateFails(Main) \/ Create(Main) \/ Store(Main)
    PROVE  TableInv'
<1> USE TimersAssumption DEF TInv, TypeOK, OneCaller, Running
<1> DEFINE t == ctimer[Main]
           i == cslot[Main]
<1>1. cpc[Main] = "start" =>
        /\ t \in Timers /\ tpc[t] = "ready" /\ tslot[t] = i /\ active[i] /\ thread[i] = NULL
        /\ \A u \in Timers : ~Here(u)
  BY DEF Placed, TableInv, CallerRight
<1>2. i \in Slots /\ t \in Timers \cup {NULL}
  OBVIOUS
<1>3. CASE CreateFails(Main)
  <2>1. /\ tpc' = [tpc EXCEPT ![t] = "gone"] /\ active' = [active EXCEPT ![i] = FALSE]
        /\ cpc' = [cpc EXCEPT ![Main] = "run"] /\ cpc[Main] = "start"
        /\ UNCHANGED <<thread, tslot, cslot, doomed, joined, rejoined>>
    BY <1>3 DEF CreateFails, Timer, Step, joins
  <2> HIDE DEF t, i
  <2>2. \A u \in Timers : Running(u)' => Running(u) /\ tslot[u] # i /\ u # t
    BY <1>1, <2>1 DEF Here, i
  <2>3. ASSUME NEW u \in Timers, Running(u)' PROVE OwnsSlot(u)'
    BY <1>1, <1>2, <2>1, <2>2, <2>3 DEF TableInv, OwnsSlot
  <2>4. ASSUME NEW j \in Slots PROVE StoredRight(j)'
    BY <1>1, <2>1 DEF TableInv, StoredRight
  <2>5. CallerRight'
    BY <1>1, <2>1 DEF TableInv, CallerRight, t
  <2>6. DoomedAhead' /\ \A u \in joined' : tpc'[u] = "gone"
    BY <1>1, <2>1 DEF TableInv, DoomedAhead
  <2> QED BY <2>1, <2>3, <2>4, <2>5, <2>6 DEF TableInv
<1>4. CASE Create(Main)
  <2>1. /\ tpc' = [tpc EXCEPT ![t] = "sleep"] /\ cpc' = [cpc EXCEPT ![Main] = "store"]
        /\ cpc[Main] = "start"
        /\ UNCHANGED <<active, thread, tslot, cslot, ctimer, doomed, joined, rejoined>>
    BY <1>4 DEF Create, Timer, Step, joins, table
  <2>2. \A u \in Timers : Running(u)' => u = t \/ (Running(u) /\ tslot[u] # i)
    BY <1>1, <2>1 DEF Here
  <2>3. ASSUME NEW u \in Timers, Running(u)' PROVE OwnsSlot(u)'
    BY <1>1, <1>2, <2>1, <2>2, <2>3 DEF TableInv, OwnsSlot
  <2>4. ASSUME NEW j \in Slots PROVE StoredRight(j)'
    BY <1>1, <2>1 DEF TableInv, StoredRight
  <2>5. t \notin joined
    BY <1>1, <2>1 DEF TableInv
  <2>6. CallerRight'
    BY <1>1, <2>1, <2>2, <2>5 DEF TableInv, CallerRight, Here
  <2>7. DoomedAhead' /\ \A u \in joined' : tpc'[u] = "gone"
    BY <1>1, <2>1, <2>5 DEF TableInv, DoomedAhead
  <2> QED BY <2>1, <2>3, <2>4, <2>6, <2>7 DEF TableInv
<1>5. CASE Store(Main)
  <2>1. /\ thread' = [thread EXCEPT ![i] = t] /\ cpc' = [cpc EXCEPT ![Main] = "run"]
        /\ cpc[Main] = "store"
        /\ UNCHANGED <<active, tpc, tslot, cslot, doomed, joined, rejoined>>
    BY <1>5 DEF Store, Step, joins, threads
  <2>2. /\ t # NULL /\ tslot[t] = i /\ t \notin joined /\ tpc[t] \notin {"none", "ready"}
        /\ \A u \in Timers : Here(u) => u = t
    BY <2>1 DEF TableInv, CallerRight
  <2>3. ASSUME NEW u \in Timers, Running(u)' PROVE OwnsSlot(u)'
    <3>1. Running(u) /\ OwnsSlot(u)
      BY <2>1, <2>3 DEF TableInv
    <3>2. CASE tslot[u] = i
      BY <1>2, <2>1, <2>2, <3>1, <3>2 DEF OwnsSlot, Here
    <3>3. CASE tslot[u] # i
      BY <1>2, <2>1, <2>2, <3>1, <3>3 DEF OwnsSlot
    <3> QED BY <3>2, <3>3
  <2>4. ASSUME NEW j \in Slots PROVE StoredRight(j)'
    BY <2>1, <2>2 DEF TableInv, StoredRight
  <2>5. CallerRight'
    BY <2>1 DEF TableInv, CallerRight
  <2>6. DoomedAhead' /\ \A u \in joined' : tpc'[u] = "gone"
    BY <2>1 DEF TableInv, DoomedAhead
  <2> QED BY <2>1, <2>3, <2>4, <2>5, <2>6 DEF TableInv
<1> QED BY <1>3, <1>4, <1>5

\* A timer goes on, or marks its slot and ends.
LEMMA TableTimer ==
    ASSUME OneCaller, TInv, TableInv, NEW t \in Timers, TimerStep(t) \/ CloneFails(t)
    PROVE  TableInv'
<1> USE TimersAssumption DEF TInv, TypeOK, OneCaller
<1>1. CASE Mark(t)
  <2> DEFINE i == tslot[t]
  <2>1. /\ tpc[t] = "mark" /\ tpc' = [tpc EXCEPT ![t] = "gone"] /\ i \in Slots
        /\ active' = [active EXCEPT ![i] = FALSE] /\ thread' = [thread EXCEPT ![i] = NULL]
        /\ UNCHANGED <<tslot, cpc, cslot, ctimer, doomed, joined, rejoined>>
    BY <1>1 DEF Mark, Timer, Placed, callers, joins
  <2>2. \A u \in Timers : Running(u)' => Running(u) /\ u # t /\ tslot[u] # i
    BY <2>1 DEF TableInv, OwnsSlot, Running
  <2> HIDE DEF i
  <2>3. ASSUME NEW u \in Timers, Running(u)' PROVE OwnsSlot(u)'
    BY <2>1, <2>2, <2>3 DEF TableInv, OwnsSlot
  <2>4. ASSUME NEW j \in Slots PROVE StoredRight(j)'
    BY <2>1 DEF TableInv, StoredRight
  <2>5. CallerRight'
    <3>1. cpc[Main] = "start" => tpc[ctimer[Main]] = "ready" /\ active[cslot[Main]]
                                 /\ thread[cslot[Main]] = NULL /\ ~Here(t)
      BY DEF TableInv, CallerRight, Placed
    <3>2. cpc[Main] = "start" => cslot[Main] # i
      BY <2>1, <3>1 DEF Here, Running, i
    <3> QED BY <2>1, <2>2, <3>1, <3>2 DEF TableInv, CallerRight, Here, Running
  <2>6. DoomedAhead' /\ \A u \in joined' : tpc'[u] = "gone"
    BY <2>1, <2>2 DEF TableInv, DoomedAhead
  <2> QED BY <2>1, <2>3, <2>4, <2>5, <2>6 DEF TableInv
<1>2. CASE ~Mark(t)
  <2>1. /\ UNCHANGED <<active, thread, tslot, cpc, cslot, ctimer, doomed, joined, rejoined>>
        /\ \A u \in Timers : Running(u)' = Running(u)
        /\ \A u \in Timers : (tpc'[u] = "ready") = (tpc[u] = "ready")
        /\ \A u \in Timers : (tpc'[u] = "none") = (tpc[u] = "none")
        /\ \A u \in Timers : (tpc'[u] = "gone") = (tpc[u] = "gone")
    <3>1. /\ UNCHANGED <<table, tslot, callers, joins>> /\ Running(t)
          /\ \E p \in {"sleep", "push", "mark"} : tpc' = [tpc EXCEPT ![t] = p]
      BY <1>2 DEF TimerStep, CloneFails, SeesCancel, Fires, PushAccepted, PushRejected,
                        PushOnFreed, AfterPush, Timer, Running
    <3> QED BY <3>1 DEF table, callers, joins, Running
  <2>2. ASSUME NEW u \in Timers, Running(u)' PROVE OwnsSlot(u)'
    BY <2>1, <2>2 DEF TableInv, OwnsSlot
  <2>3. ASSUME NEW j \in Slots PROVE StoredRight(j)'
    BY <2>1 DEF TableInv, StoredRight
  <2>4. CallerRight'
    BY <2>1 DEF TableInv, CallerRight, Here
  <2>5. DoomedAhead' /\ \A u \in joined' : tpc'[u] = "gone"
    BY <2>1 DEF TableInv, DoomedAhead
  <2> QED BY <2>1, <2>2, <2>3, <2>4, <2>5 DEF TableInv
<1> QED BY <1>1, <1>2

\* AFTER and EVERY without a slot: the timer never runs.
LEMMA TableNoSlot ==
    ASSUME OneCaller, TInv, TableInv, NEW t \in Timers, NEW k \in Queues, NoSlot(Main, t, k)
    PROVE  TableInv'
<1> USE TimersAssumption DEF TInv, TypeOK, OneCaller
<1>1. /\ UNCHANGED <<active, thread, tslot, cpc, cslot, ctimer, doomed, joined, rejoined>>
      /\ tpc[t] = "none" /\ tpc' = [tpc EXCEPT ![t] = "gone"]
  BY DEF NoSlot, Timer, table, callers, joins
<1>2. \A u \in Timers : Running(u)' = Running(u)
  BY <1>1 DEF Running
<1>3. ASSUME NEW u \in Timers, Running(u)' PROVE OwnsSlot(u)'
  BY <1>1, <1>2, <1>3 DEF TableInv, OwnsSlot
<1>4. ASSUME NEW j \in Slots PROVE StoredRight(j)'
  BY <1>1 DEF TableInv, StoredRight
<1>5. CallerRight'
  BY <1>1, <1>2 DEF TableInv, CallerRight, Here
<1>6. DoomedAhead' /\ \A u \in joined' : tpc'[u] = "gone"
  BY <1>1, <1>2 DEF TableInv, DoomedAhead
<1> QED BY <1>1, <1>3, <1>4, <1>5, <1>6 DEF TableInv

\* TIMER STOP <id> reads the thread of the one timer that runs in the slot.
LEMMA TableStop ==
    ASSUME OneCaller, TInv, TableInv, SlotsComeBack, NEW i \in Slots, Stop(Main, i)
    PROVE  TableInv'
<1> USE TimersAssumption DEF TInv, TypeOK, OneCaller
<1>1. /\ UNCHANGED <<active, thread, tpc, tslot, joined, rejoined>>
      /\ cpc[Main] = "run" /\ active[i] /\ cpc' = [cpc EXCEPT ![Main] = "join"]
      /\ cslot' = [cslot EXCEPT ![Main] = i]
      /\ ctimer' = [ctimer EXCEPT ![Main] = thread[i]]
      /\ doomed' = [doomed EXCEPT ![Main] = {t \in Alive : tslot[t] = i}]
  BY DEF Stop, Step, threads, joins
<1>2. PICK t \in Timers : Running(t) /\ tslot[t] = i
  BY <1>1 DEF SlotsComeBack, TableInv, CallerRight, Alive
<1>3. thread[i] = t /\ \A u \in Timers : Running(u) /\ tslot[u] = i => u = t
  BY <1>1, <1>2 DEF TableInv, OwnsSlot
<1>4. t \notin joined /\ tpc[t] \notin {"none", "ready"}
  BY <1>2 DEF TableInv, Running
<1>5. ASSUME NEW u \in Timers, Running(u)' PROVE OwnsSlot(u)'
  BY <1>1, <1>5 DEF TableInv, OwnsSlot, Running
<1>6. ASSUME NEW j \in Slots PROVE StoredRight(j)'
  BY <1>1 DEF TableInv, StoredRight
<1>7. CallerRight'
  BY <1>1, <1>2, <1>3, <1>4 DEF TableInv, CallerRight, Here, Running
<1>8. DoomedAhead'
  BY <1>1 DEF DoomedAhead
<1>9. \A u \in joined' : tpc'[u] = "gone"
  BY <1>1 DEF TableInv
<1> QED BY <1>1, <1>5, <1>6, <1>7, <1>8, <1>9 DEF TableInv

\* TIMER STOP ALL starts with every timer that runs ahead of it.
LEMMA TableStopAll ==
    ASSUME OneCaller, TInv, TableInv, StopAll(Main) PROVE TableInv'
<1> USE TimersAssumption DEF TInv, TypeOK, OneCaller
<1>1. /\ UNCHANGED <<active, thread, tpc, tslot, ctimer, joined, rejoined>>
      /\ cpc[Main] = "run" /\ cpc' = [cpc EXCEPT ![Main] = "look"]
      /\ cslot' = [cslot EXCEPT ![Main] = 0]
      /\ doomed' = [doomed EXCEPT ![Main] = Alive]
  BY DEF StopAll, Step, threads, joins
<1>2. ASSUME NEW u \in Timers, Running(u)' PROVE OwnsSlot(u)'
  BY <1>1, <1>2 DEF TableInv, OwnsSlot, Running
<1>3. ASSUME NEW j \in Slots PROVE StoredRight(j)'
  BY <1>1 DEF TableInv, StoredRight
<1>4. CallerRight'
  BY <1>1 DEF TableInv, CallerRight
<1>5. DoomedAhead'
  BY <1>1 DEF DoomedAhead, Alive, Running, Placed, Slots
<1>6. \A u \in joined' : tpc'[u] = "gone"
  BY <1>1 DEF TableInv
<1> QED BY <1>1, <1>2, <1>3, <1>4, <1>5, <1>6 DEF TableInv

\* The join waits for the one timer that may still run in the slot.
LEMMA TableJoin ==
    ASSUME OneCaller, TInv, TableInv, StopJoins(Main) \/ JoinNext(Main)
    PROVE  TableInv'
<1> USE TimersAssumption DEF TInv, TypeOK, OneCaller
<1> DEFINE t == ctimer[Main]
<1>1. PICK p : \/ cpc[Main] = "join" /\ p = "clear" /\ JoinThen(Main, p)
               \/ cpc[Main] = "joinAll" /\ p = "clearAll" /\ JoinThen(Main, p)
  BY DEF StopJoins, JoinNext
<1>2. /\ UNCHANGED <<active, thread, tpc, tslot, cslot, doomed>>
      /\ t # NULL => tpc[t] = "gone"
      /\ joined' = joined \cup ({t} \ {NULL})
      /\ rejoined' = rejoined \cup ({t} \cap joined)
      /\ cpc' = [cpc EXCEPT ![Main] = p]
  BY <1>1 DEF JoinThen, Step, table, threads
<1>3. /\ \A u \in Timers : Here(u) => u = t
      /\ t # NULL => tslot[t] = cslot[Main] /\ t \notin joined
  BY <1>1 DEF TableInv, CallerRight
<1>4. \A u \in Timers : ~Here(u)
  BY <1>2, <1>3, TimersAssumption DEF Here, Running
<1>5. NULL \notin joined /\ rejoined' = {}
  BY <1>2, <1>3 DEF TableInv
<1>6. ASSUME NEW u \in Timers, Running(u)' PROVE OwnsSlot(u)'
  BY <1>1, <1>2, <1>6 DEF TableInv, OwnsSlot, Running
<1>7. ASSUME NEW j \in Slots PROVE StoredRight(j)'
  BY <1>1, <1>2, <1>3 DEF TableInv, StoredRight
<1>8. CallerRight'
  BY <1>1, <1>2, <1>4 DEF TableInv, CallerRight, Here, Running
<1>9. DoomedAhead'
  BY <1>1, <1>2 DEF TableInv, DoomedAhead, Running
<1>10. \A u \in joined' : tpc'[u] = "gone"
  BY <1>2 DEF TableInv
<1> QED BY <1>5, <1>6, <1>7, <1>8, <1>9, <1>10 DEF TableInv

\* The caller clears a slot in which no timer runs, and goes on or returns.
LEMMA TableClear ==
    ASSUME OneCaller, TInv, TableInv, StopClears(Main) \/ ClearNext(Main)
    PROVE  TableInv'
<1> USE TimersAssumption DEF TInv, TypeOK, OneCaller
<1> DEFINE i == cslot[Main]
<1>1. /\ active' = [active EXCEPT ![i] = FALSE] /\ thread' = [thread EXCEPT ![i] = NULL]
      /\ UNCHANGED <<tpc, tslot, ctimer, joined, rejoined>>
      /\ cpc[Main] \in {"clear", "clearAll"}
  BY DEF StopClears, ClearNext, threads, joins
<1>2. \/ doomed' = [doomed EXCEPT ![Main] = {}] /\ cpc' = [cpc EXCEPT ![Main] = "run"]
      \/ /\ cpc[Main] = "clearAll" /\ cpc' = [cpc EXCEPT ![Main] = "look"]
         /\ doomed' = doomed /\ cslot' = [cslot EXCEPT ![Main] = i + 1]
  BY DEF StopClears, ClearNext, Step
<1>3. i \in Slots /\ \A u \in Timers : Running(u) => tslot[u] # i
  BY <1>1 DEF TableInv, CallerRight, Here
<1>4. cpc'[Main] \in {"run", "look"}
  BY <1>2
<1>5. ASSUME NEW u \in Timers, Running(u)' PROVE OwnsSlot(u)'
  <2>1. Running(u) /\ OwnsSlot(u) /\ tslot[u] # i
    BY <1>1, <1>3, <1>5 DEF TableInv, Running
  <2> QED BY <1>1, <1>3, <2>1 DEF OwnsSlot, Running, Placed
<1>6. ASSUME NEW j \in Slots PROVE StoredRight(j)'
  <2>1. CASE j = i
    BY <1>1, <1>3, <2>1 DEF StoredRight
  <2>2. CASE j # i
    BY <1>1, <1>3, <2>2 DEF TableInv, StoredRight
  <2> QED BY <2>1, <2>2
<1>7. CallerRight'
  BY <1>1, <1>4 DEF TableInv, CallerRight
<1>8. DoomedAhead'
  BY <1>1, <1>2, <1>3 DEF TableInv, DoomedAhead, Running, Placed, Slots
<1>9. \A u \in joined' : tpc'[u] = "gone"
  BY <1>1 DEF TableInv
<1> QED BY <1>1, <1>5, <1>6, <1>7, <1>8, <1>9 DEF TableInv

\* TIMER STOP ALL reads the thread of the one timer that runs in the slot.
LEMMA TableLook ==
    ASSUME OneCaller, TInv, TableInv, Look(Main) PROVE TableInv'
<1> USE TimersAssumption DEF TInv, TypeOK, OneCaller
<1> DEFINE i == cslot[Main]
<1>1. /\ UNCHANGED <<active, thread, tpc, tslot, cslot, doomed, joined, rejoined>>
      /\ cpc[Main] = "look" /\ cpc' = [cpc EXCEPT ![Main] = "joinAll"]
      /\ ctimer' = [ctimer EXCEPT ![Main] = thread[i]]
  BY DEF Look, Step, table, threads, joins
<1>2. \A u \in Timers : Here(u) => u = thread[i]
  BY <1>1 DEF TableInv, OwnsSlot, Here
<1>3. thread[i] # NULL => /\ tslot[thread[i]] = i /\ thread[i] \notin joined
                          /\ tpc[thread[i]] \notin {"none", "ready"}
  BY <1>1 DEF TableInv, StoredRight
<1>4. ASSUME NEW u \in Timers, Running(u)' PROVE OwnsSlot(u)'
  BY <1>1, <1>4 DEF TableInv, OwnsSlot, Running
<1>5. ASSUME NEW j \in Slots PROVE StoredRight(j)'
  BY <1>1 DEF TableInv, StoredRight
<1>6. CallerRight'
  BY <1>1, <1>2, <1>3 DEF TableInv, CallerRight, Here, Running
<1>7. DoomedAhead'
  BY <1>1 DEF TableInv, DoomedAhead, Running
<1>8. \A u \in joined' : tpc'[u] = "gone"
  BY <1>1 DEF TableInv
<1> QED BY <1>1, <1>4, <1>5, <1>6, <1>7, <1>8 DEF TableInv

\* The readers of the queues, and AWAIT.
LEMMA TableQueue ==
    ASSUME OneCaller, TInv, TableInv, NEW k \in Queues, Take(k) \/ Close(k) \/ Release(k)
    PROVE  TableInv'
<1> USE TimersAssumption DEF TInv, TypeOK, OneCaller
<1>1. /\ UNCHANGED <<active, thread, tpc, tslot, cslot, ctimer, doomed, joined, rejoined>>
      /\ \/ cpc' = cpc
         \/ cpc[Main] = "run" /\ cpc'[Main] = "await"
         \/ cpc[Main] = "await" /\ cpc'[Main] = "run"
  BY DEF Take, Close, Release, Step, table, threads, callers, joins
<1>2. ASSUME NEW u \in Timers, Running(u)' PROVE OwnsSlot(u)'
  BY <1>1, <1>2 DEF TableInv, OwnsSlot, Running
<1>3. ASSUME NEW j \in Slots PROVE StoredRight(j)'
  BY <1>1 DEF TableInv, StoredRight
<1>4. CallerRight'
  BY <1>1 DEF TableInv, CallerRight, Here, Running
<1>5. DoomedAhead'
  BY <1>1 DEF TableInv, DoomedAhead, Running
<1>6. \A u \in joined' : tpc'[u] = "gone"
  BY <1>1 DEF TableInv
<1> QED BY <1>1, <1>2, <1>3, <1>4, <1>5, <1>6 DEF TableInv

\* The table stays right, whatever the one caller and the timers do.
LEMMA TableStep ==
    ASSUME OneCaller, TInv, TableInv, SlotsComeBack, [Next]_vars PROVE TableInv'
<1>1. CASE UNCHANGED vars
  BY <1>1 DEF vars, table, threads, callers, joins, TableInv, OwnsSlot, StoredRight,
              CallerRight, DoomedAhead, Here, Running
<1>2. ASSUME NEW c \in Callers,
             \/ CallerStep(c) \/ Start(c) \/ StopAll(c) \/ \E i \in Slots : Stop(c, i)
      PROVE  TableInv'
  <2>1. c = Main
    BY DEF OneCaller
  <2> QED BY <1>2, <2>1, TableNoSlot, TableAcquire, TableCreate, TableStop, TableStopAll,
             TableJoin, TableClear, TableLook DEF CallerStep, Start
<1> QED BY <1>1, <1>2, TableTimer, TableQueue DEF Next

\* OwnSlot: with one caller, whatever TIMER STOPs follow each other, a running
\* timer has an active slot to itself, and no thread is joined twice.
THEOREM OwnSlots == ASSUME OneCaller PROVE Spec => []OwnSlot
<1>1. TInv /\ TableInv => OwnSlot
  BY DEF TableInv, OwnsSlot, OwnSlot, Alive
<1>2. TInv /\ SlotsComeBack /\ TableInv /\ [Next]_vars => TableInv'
  BY TableStep
<1>3. Init => SlotsComeBack
  BY DEF Init, SlotsComeBack
<1> QED BY <1>1, <1>2, <1>3, TypeInit, TypeStep, BackStep, TableInit, PTL DEF Spec

\* StopLeavesNone: with one caller, a TIMER STOP, or TIMER STOP ALL, that is
\* about to return leaves no thread of those that ran when it was called.
THEOREM StopJoinsAll == ASSUME OneCaller PROVE Spec => []StopLeavesNone
<1>1. TInv /\ TableInv => StopLeavesNone
  <2> SUFFICES ASSUME TInv, TableInv, Returning(Main), NEW t \in doomed[Main], t \in Alive
               PROVE  FALSE
    BY DEF StopLeavesNone, OneCaller
  <2>1. t \in Timers /\ Running(t) /\ tslot[t] \in Slots /\ cslot[Main] \in Slots
    BY TimersAssumption DEF Alive, Running, TInv, TypeOK, Placed, Callers
  <2>2. ~Here(t)
    BY <2>1 DEF TableInv, CallerRight, Returning
  <2>3. tslot[t] = cslot[Main]
    BY <2>1, TimersAssumption DEF TableInv, DoomedAhead, Returning, Slots
  <2> QED BY <2>1, <2>2, <2>3 DEF Here
<1>2. TInv /\ SlotsComeBack /\ TableInv /\ [Next]_vars => TableInv'
  BY TableStep
<1>3. Init => SlotsComeBack
  BY DEF Init, SlotsComeBack
<1> QED BY <1>1, <1>2, <1>3, TypeInit, TypeStep, BackStep, TableInit, PTL DEF Spec
=============================================================================
