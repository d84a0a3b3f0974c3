---------------------------- MODULE SammProofs ----------------------------
(* Theorems about the scope aware memory manager, for any number of objects *)
(* and any limits of the scope stack and the cleanup queue.                 *)
EXTENDS Samm, FiniteSetTheorems, WellFoundedInduction, TLAPS

\* There is no batch, and no thread is asleep, in the beginning.
LEMMA SignalInit == Init => NoLostSignal
  BY DEF Init, NoLostSignal

\* A step of a thread that cleans up, for either thread.
LEMMA SignalClean ==
  ASSUME NoLostSignal, NEW t \in Actors, Clean(t)
  PROVE  NoLostSignal'
<1>1. CASE HandOver(t)
  <2>1. cleaner' = cleaner \/ cleaner' = "awake"  BY <1>1 DEF HandOver, Wake
  <2>2. shutdown' = shutdown  BY <1>1 DEF HandOver
  <2>3. queue' = queue \/ cleaner' # "asleep"  BY <1>1 DEF HandOver, Wake
  <2> QED  BY <2>1, <2>2, <2>3 DEF NoLostSignal
<1>2. CASE ExitDestructor(t) \/ FreeDead(t)
  BY <1>2 DEF ExitDestructor, FreeDead, threads, NoLostSignal
<1>3. ASSUME NEW o \in Objects, CleanPlain(t, o) \/ EnterDestructor(t, o)
      PROVE  NoLostSignal'
  BY <1>3 DEF CleanPlain, EnterDestructor, threads, NoLostSignal
<1>4. CASE DestructorTooDeep(t)
  BY <1>4 DEF DestructorTooDeep, Abort, NoLostSignal
<1> QED  BY <1>1, <1>2, <1>3, <1>4 DEF Clean

\* A step of the program.  End sets the flag and wakes the background thread.
LEMMA SignalProgram ==
  ASSUME NoLostSignal, Program
  PROVE  NoLostSignal'
<1>1. CASE Call \/ ReturnEarly
  BY <1>1 DEF Call, ReturnEarly, threads, NoLostSignal
<1>2. CASE Leave
  BY <1>2 DEF Leave, NoLostSignal
<1>3. CASE CallTooDeep
  BY <1>3 DEF CallTooDeep, Abort, NoLostSignal
<1>4. CASE End
  BY <1>4 DEF End, Wake, NoLostSignal
<1>5. ASSUME NEW o \in Objects, Retain(o) \/ Drop(o)
      PROVE  NoLostSignal'
  BY <1>5 DEF Retain, Drop, threads, NoLostSignal
<1> QED  BY <1>1, <1>2, <1>3, <1>4, <1>5 DEF Program

\* Who queues a batch or sets the flag wakes the background thread in the same
\* critical section; the thread tests both under the lock before it sleeps.
LEMMA SignalStep == NoLostSignal /\ [Next]_vars => NoLostSignal'
<1> SUFFICES ASSUME NoLostSignal, [Next]_vars PROVE NoLostSignal'
  OBVIOUS
<1>1. CASE Program
  BY <1>1, SignalProgram
<1>2. CASE Cleaner
  <2>1. CASE CleanerSleeps
    BY <2>1 DEF CleanerSleeps, NoLostSignal
  <2>2. CASE CleanerTakes
    BY <2>2 DEF CleanerTakes, TakeBatch, threads, NoLostSignal
  <2>3. CASE CleanerStops
    BY <2>3 DEF CleanerStops, NoLostSignal
  <2> QED  BY <1>2, <2>1, <2>2, <2>3 DEF Cleaner
<1>3. CASE CleanerWakes
  BY <1>3 DEF CleanerWakes, NoLostSignal
<1>4. CASE ShuttingDown
  <2>1. CASE Join
    BY <2>1 DEF Join, NoLostSignal
  <2>2. CASE Drain
    BY <2>2 DEF Drain, TakeBatch, threads, NoLostSignal
  <2>3. CASE SweepScope
    BY <2>3 DEF SweepScope, NoLostSignal
  <2> QED  BY <1>4, <2>1, <2>2, <2>3 DEF ShuttingDown
<1>5. ASSUME NEW t \in Actors, Clean(t)
      PROVE  NoLostSignal'
  BY <1>5, SignalClean
<1>6. ASSUME NEW t \in Actors, NEW o \in Objects, Alloc(t, o)
      PROVE  NoLostSignal'
  BY <1>6 DEF Alloc, threads, NoLostSignal
<1>7. CASE UNCHANGED vars
  BY <1>7 DEF vars, threads, NoLostSignal
<1> QED  BY <1>1, <1>2, <1>3, <1>4, <1>5, <1>6, <1>7 DEF Next

\* The background thread never sleeps on a batch, nor through the shutdown:
\* enqueueForCleanup and samm_shutdown signal queue_cv, under the mutex under
\* which the thread tests the queue and the flag, and one signal is enough.
THEOREM CleanerWoken == Spec => []NoLostSignal
<1>1. Init => NoLostSignal  BY SignalInit
<1>2. NoLostSignal /\ [Next]_vars => NoLostSignal'  BY SignalStep
<1> QED  BY <1>1, <1>2, PTL DEF Spec

-----------------------------------------------------------------------------
\* A cleanup has an object in hand exactly from the call of its destructor to
\* its release; one below another waits to release its object.
Sound(c) == IF c.at \in {"dtor", "free"} THEN c.dying \in Objects ELSE c.dying = NULL
Stacked(w) == \A i \in DOMAIN w : Sound(w[i]) /\ (i > 1 => w[i].at = "free")

\* The ranges of the variables, and what keeps them.
StackTyped == /\ depth \in Levels /\ scope \in [Levels -> SUBSET Objects]
              /\ owner \in [Levels -> Actors \cup {NULL}] /\ mixed \in BOOLEAN
QueueTyped == queue \in Seq(SUBSET Objects) /\ Len(queue) <= QueueDepth
ThreadsTyped ==
    /\ shutdown \in BOOLEAN /\ cleaner \in {"none", "awake", "asleep", "gone"}
    /\ main \in {"run", "leave", "join", "drain", "sweep", "done", "aborted"}
    /\ sweep \in -1 .. MaxDepth - 1
    /\ main = "aborted" => cleaner = "gone" /\ \A t \in Actors : work[t] = << >>
WorkTyped ==
    /\ work \in [Actors -> Seq(Cleanups)] /\ nest \in [Actors -> Nat]
    /\ \A t \in Actors : Stacked(work[t]) /\ (InDestructor(t) => nest[t] > 0)
FrameTyped == frame \in [Objects -> (Actors \X Nat) \cup {NULL}]
HeapTyped == made \subseteq Objects /\ freed \subseteq Objects /\ twice \subseteq freed

Typed == StackTyped /\ QueueTyped /\ ThreadsTyped /\ WorkTyped /\ FrameTyped /\ HeapTyped


-----------------------------------------------------------------------------
\* What the steps do to a stack of cleanups: the top one goes, is replaced, or
\* gets another one on top of it.
LEMMA TopFacts ==
    ASSUME NEW w \in Seq(Cleanups), w # << >>
    PROVE  /\ Head(w) = w[1] /\ Head(w) \in Cleanups /\ 1 \in DOMAIN w
           /\ Tail(w) \in Seq(Cleanups)
           /\ DOMAIN w = 1 .. Len(w) /\ DOMAIN Tail(w) = 1 .. Len(w) - 1
           /\ \A i \in DOMAIN Tail(w) : Tail(w)[i] = w[i + 1]
           /\ Len(w) \in Nat /\ Len(w) > 0
  OBVIOUS

\* The call at the head of a stack of cleanups moves on.
LEMMA ReplaceFacts ==
    ASSUME NEW w \in Seq(Cleanups), w # << >>, NEW c \in Cleanups
    PROVE  LET v == <<c>> \o Tail(w)
           IN  /\ v \in Seq(Cleanups) /\ v # << >> /\ DOMAIN v = DOMAIN w /\ Len(v) = Len(w)
               /\ v[1] = c /\ Head(v) = c
               /\ \A i \in DOMAIN w : i # 1 => v[i] = w[i]
<1> DEFINE v == <<c>> \o Tail(w)
<1>1. /\ Len(w) \in Nat /\ Len(w) > 0 /\ DOMAIN w = 1 .. Len(w)
      /\ Tail(w) \in Seq(Cleanups) /\ Len(Tail(w)) = Len(w) - 1
      /\ \A i \in 1 .. Len(w) - 1 : Tail(w)[i] = w[i + 1]
  OBVIOUS
<1>2. v \in Seq(Cleanups) /\ Len(v) = 1 + Len(Tail(w)) /\ v[1] = c
      /\ \A i \in 1 .. Len(Tail(w)) : v[1 + i] = Tail(w)[i]
  BY <1>1
<1>3. \A i \in DOMAIN w : i # 1 =>
          i - 1 \in 1 .. Len(Tail(w)) /\ v[1 + (i - 1)] = w[(i - 1) + 1]
  BY <1>1, <1>2
<1>4. \A i \in DOMAIN w : 1 + (i - 1) = i /\ (i - 1) + 1 = i
  BY <1>1
<1> QED BY <1>1, <1>2, <1>3, <1>4

\* The call at the head moves on, and a destructor it runs begins a call of its own.
LEMMA OntoFacts ==
    ASSUME NEW w \in Seq(Cleanups), w # << >>, NEW c \in Cleanups, NEW d \in Cleanups
    PROVE  LET v == <<d>> \o (<<c>> \o Tail(w))
           IN  /\ v \in Seq(Cleanups) /\ v # << >> /\ DOMAIN v = 1 .. Len(w) + 1
               /\ v[1] = d /\ Head(v) = d /\ v[2] = c
               /\ \A i \in DOMAIN w : i # 1 => v[i + 1] = w[i]
<1> DEFINE v == <<c>> \o Tail(w)
           u == <<d>> \o v
<1>1. /\ v \in Seq(Cleanups) /\ Len(v) = Len(w) /\ v # << >> /\ DOMAIN v = DOMAIN w
      /\ v[1] = c /\ \A i \in DOMAIN w : i # 1 => v[i] = w[i]
      /\ Len(w) \in Nat /\ Len(w) > 0 /\ DOMAIN w = 1 .. Len(w)
  BY ReplaceFacts, TopFacts
<1> HIDE DEF v
<1>2. /\ u \in Seq(Cleanups) /\ u # << >> /\ DOMAIN u = 1 .. Len(w) + 1
      /\ u[1] = d /\ Head(u) = d /\ \A i \in 1 .. Len(v) : u[1 + i] = v[i]
  BY <1>1
<1>3. u[2] = c /\ \A i \in DOMAIN w : i # 1 => u[i + 1] = w[i]
  BY <1>1, <1>2
<1> QED BY <1>2, <1>3 DEF v

\* Such a stack stays in order.
LEMMA TailStacked ==
    ASSUME NEW w \in Seq(Cleanups), w # << >>, Stacked(w)
    PROVE  /\ Sound(Head(w))
           /\ Stacked(Tail(w)) /\ (Tail(w) # << >> => Head(Tail(w)).at = "free")
<1>1. Sound(Head(w)) /\ Len(w) \in Nat /\ DOMAIN w = 1 .. Len(w)
  BY TopFacts DEF Stacked
<1>2. ASSUME NEW i \in DOMAIN Tail(w)
      PROVE  Sound(Tail(w)[i]) /\ Tail(w)[i].at = "free"
  <2>1. Tail(w)[i] = w[i + 1] /\ i + 1 \in DOMAIN w /\ i + 1 > 1
    BY <1>1, TopFacts
  <2> QED BY <2>1 DEF Stacked
<1>3. Tail(w) # << >> => Head(Tail(w)) = Tail(w)[1] /\ 1 \in DOMAIN Tail(w)
  <2>1. Tail(w) \in Seq(Cleanups)
    BY TopFacts
  <2> HIDE DEF Cleanups
  <2> QED BY <2>1
<1> QED BY <1>1, <1>2, <1>3 DEF Stacked

\* Below the head nothing changes.
LEMMA ReplaceStacked ==
    ASSUME NEW w \in Seq(Cleanups), w # << >>, Stacked(w), NEW c \in Cleanups, Sound(c)
    PROVE  Stacked(<<c>> \o Tail(w))
BY ReplaceFacts DEF Stacked

\* A call begins inside one that frees an object, which is where destructors run.
LEMMA OntoStacked ==
    ASSUME NEW w \in Seq(Cleanups), w # << >>, Stacked(w),
           NEW c \in Cleanups, Sound(c), c.at = "free", NEW d \in Cleanups, Sound(d)
    PROVE  Stacked(<<d>> \o (<<c>> \o Tail(w)))
<1> DEFINE u == <<d>> \o (<<c>> \o Tail(w))
<1>1. /\ DOMAIN u = 1 .. Len(w) + 1 /\ u[1] = d /\ u[2] = c
      /\ \A i \in DOMAIN w : i # 1 => u[i + 1] = w[i]
      /\ Len(w) \in Nat /\ DOMAIN w = 1 .. Len(w)
  BY OntoFacts, TopFacts
<1> HIDE DEF u
<1> SUFFICES ASSUME NEW i \in DOMAIN u PROVE Sound(u[i]) /\ (i > 1 => u[i].at = "free")
  BY DEF Stacked, u
<1>2. CASE i \in {1, 2}
  BY <1>1, <1>2
<1>3. CASE i \notin {1, 2}
  <2>1. i - 1 \in DOMAIN w /\ i - 1 # 1 /\ i - 1 > 1 /\ (i - 1) + 1 = i
    BY <1>1, <1>3
  <2>2. u[i] = w[i - 1]
    BY <1>1, <2>1
  <2> QED BY <2>1, <2>2 DEF Stacked
<1> QED BY <1>2, <1>3

-----------------------------------------------------------------------------
\* SAMM starts with one scope, an empty queue and no cleanup.
LEMMA TypedInit == Init => Typed
<1> SUFFICES ASSUME Init PROVE Typed
  OBVIOUS
<1>1. StackTyped
  BY SammAssumption DEF Init, StackTyped, Levels
<1>2. QueueTyped
  BY SammAssumption DEF Init, QueueTyped
<1>4. ThreadsTyped
  <2>1. 0 \in -1 .. MaxDepth - 1
    BY SammAssumption
  <2> QED BY <2>1 DEF Init, ThreadsTyped
<1>5. FrameTyped /\ HeapTyped
  BY DEF Init, FrameTyped, HeapTyped
<1>3. WorkTyped
  BY DEF Init, WorkTyped, Stacked, InDestructor, Doing
<1> QED BY <1>1, <1>2, <1>3, <1>4, <1>5 DEF Typed

\* A scope is entered: the depth stays below the limit.
LEMMA PushTyped ==
    ASSUME StackTyped, WorkTyped, NEW t \in Actors, PushScope(t)
    PROVE  /\ StackTyped'
           /\ nest' \in [Actors -> Nat] /\ nest'[t] = nest[t] + 1
           /\ \A u \in Actors : u # t => nest'[u] = nest[u]
<1>1. depth + 1 \in Levels
  BY SammAssumption DEF PushScope, StackTyped, Levels
<1> QED BY <1>1, SammAssumption DEF PushScope, StackTyped, WorkTyped

\* A scope is left.
LEMMA PopTyped ==
    ASSUME StackTyped, NEW t \in Actors, PopScope(t)
    PROVE  StackTyped' /\ Detached \subseteq Objects
<1>1. depth > 0 => depth - 1 \in Levels
  BY SammAssumption DEF StackTyped, Levels
<1> QED BY <1>1, SammAssumption DEF PopScope, StackTyped, stack, Detached, Foreign

\* A function ends.
LEMMA EndTyped ==
    ASSUME WorkTyped, FrameTyped, NEW t \in Actors, nest[t] > 0, EndFrame(t)
    PROVE  /\ nest' \in [Actors -> Nat] /\ FrameTyped' /\ nest'[t] = nest[t] - 1
           /\ \A u \in Actors : u # t => nest'[u] = nest[u]
BY SammAssumption DEF EndFrame, WorkTyped, FrameTyped

\* The stack of cleanups of one thread changes.
LEMMA WorkChange ==
    ASSUME WorkTyped, NEW t \in Actors, NEW w \in Seq(Cleanups), Stacked(w),
           work' = [work EXCEPT ![t] = w], nest' \in [Actors -> Nat],
           \A u \in Actors : u # t => nest'[u] = nest[u],
           w # << >> /\ Head(w).at = "dtor" => nest'[t] > 0
    PROVE  WorkTyped'
<1>1. work' \in [Actors -> Seq(Cleanups)] /\ work'[t] = w
      /\ \A u \in Actors : u # t => work'[u] = work[u]
  BY DEF WorkTyped
<1>2. ASSUME NEW u \in Actors PROVE Stacked(work[u])' /\ (InDestructor(u)' => nest'[u] > 0)
  <2>1. CASE u = t
    BY <1>1, <2>1 DEF Stacked, Sound, InDestructor, Doing
  <2>2. CASE u # t
    BY <1>1, <2>2 DEF WorkTyped, Stacked, Sound, InDestructor, Doing
  <2> QED BY <2>1, <2>2
<1> QED BY <1>1, <1>2 DEF WorkTyped

\* A new cleanup on an empty stack, and what remains after a release.
LEMMA OneCleanup ==
    ASSUME NEW c \in Cleanups, Sound(c)
    PROVE  <<c>> \in Seq(Cleanups) /\ Stacked(<<c>>) /\ Head(<<c>>) = c /\ <<c>> # << >>
BY DEF Stacked

\* What is left of a stack of cleanups when the one on top is done with its object.
LEMMA AfterTyped ==
    ASSUME WorkTyped, NEW t \in Actors, work[t] # << >>, NEW left \in SUBSET Objects
    PROVE  /\ After(t, left) \in Seq(Cleanups) /\ Stacked(After(t, left))
           /\ After(t, left) # << >> => Head(After(t, left)).at \in {"next", "free"}
<1>1. work[t] \in Seq(Cleanups) /\ Stacked(work[t])
  BY DEF WorkTyped
<1> DEFINE c == Cleanup(left, NULL, "next")
<1>2. c \in Cleanups /\ Sound(c) /\ c.at = "next"
  BY DEF Cleanup, Cleanups, Sound
<1> HIDE DEF c
<1>3. CASE left = {}
  BY <1>1, <1>3, TopFacts, TailStacked DEF After
<1>4. CASE left # {}
  BY <1>1, <1>2, <1>4, ReplaceFacts, ReplaceStacked DEF After, Resume, c
<1> QED BY <1>3, <1>4

-----------------------------------------------------------------------------
\* The steps of a thread that cleans up.
LEMMA TypedClean ==
    ASSUME Typed, NEW t \in Actors, Clean(t) PROVE Typed'
<1> USE DEF Typed
<1>0. /\ StackTyped /\ QueueTyped /\ ThreadsTyped /\ WorkTyped /\ FrameTyped /\ HeapTyped
  OBVIOUS
<1>a. work[t] # << >> => /\ work[t] \in Seq(Cleanups) /\ Stacked(work[t])
                         /\ Head(work[t]) \in Cleanups /\ Sound(Head(work[t]))
                         /\ main # "aborted"
  BY <1>0, TopFacts, TailStacked DEF WorkTyped, ThreadsTyped
<1>b. nest \in [Actors -> Nat] /\ (InDestructor(t) => nest[t] > 0)
  BY <1>0 DEF WorkTyped
<1>1. CASE HandOver(t)
  <2> DEFINE batch == Head(work[t]).left
             c == Cleanup(batch, NULL, "next")
  <2>1. work[t] # << >> /\ batch \in SUBSET Objects /\ c \in Cleanups /\ Sound(c)
    BY <1>1, <1>a DEF HandOver, Doing, Cleanups, Cleanup, Sound
  <2>2. UNCHANGED <<stack, shutdown, main, sweep, nest, frame, heap>>
    BY <1>1 DEF HandOver, calls
  <2>3. CASE WorkerRunning /\ Len(queue) < QueueDepth
    <3>1. queue' = Append(queue, batch) /\ cleaner' = Wake
          /\ work' = [work EXCEPT ![t] = Tail(work[t])]
      BY <1>1, <2>3, <1>0 DEF HandOver, WorkTyped
    <3> HIDE DEF c, batch
    <3> DEFINE w == Tail(work[t])
    <3>5. w \in Seq(Cleanups) /\ Stacked(w) /\ (w # << >> => Head(w).at = "free")
      BY <2>1, <1>a, TopFacts, TailStacked
    <3>2. WorkTyped'
      <4> HIDE DEF w
      <4> QED BY <2>2, <3>1, <3>5, <1>0, <1>b, WorkChange DEF w
    <3>3. QueueTyped'
      <4>1. Append(queue, batch) \in Seq(SUBSET Objects)
            /\ Len(Append(queue, batch)) = Len(queue) + 1 /\ Len(queue) \in Nat
        BY <2>1, <1>0 DEF QueueTyped
      <4> QED BY <4>1, <2>3, <3>1, SammAssumption DEF QueueTyped
    <3>4. ThreadsTyped'
      BY <2>1, <2>2, <3>1, <1>0, <1>a DEF ThreadsTyped, Wake
    <3> QED BY <2>2, <3>2, <3>3, <3>4, <1>0
            DEF stack, heap, StackTyped, FrameTyped, HeapTyped
  <2>4. CASE ~(WorkerRunning /\ Len(queue) < QueueDepth)
    <3>1. queue' = queue /\ cleaner' = cleaner
          /\ work' = [work EXCEPT ![t] = <<c>> \o Tail(work[t])]
      BY <1>1, <2>4 DEF HandOver, Resume
    <3>2. c.at = "next"
      BY DEF Cleanup
    <3> HIDE DEF c
    <3> DEFINE w == <<c>> \o Tail(work[t])
    <3>5. w \in Seq(Cleanups) /\ Stacked(w) /\ Head(w) = c
      BY <2>1, <1>a, ReplaceFacts, ReplaceStacked
    <3>3. WorkTyped'
      <4> HIDE DEF w
      <4> QED BY <2>2, <3>1, <3>2, <3>5, <1>0, <1>b, WorkChange DEF w
    <3>4. ThreadsTyped'
      BY <2>1, <2>2, <3>1, <1>0, <1>a DEF ThreadsTyped
    <3> QED BY <2>2, <3>1, <3>3, <3>4, <1>0
            DEF stack, heap, StackTyped, QueueTyped, FrameTyped, HeapTyped
  <2> QED BY <2>3, <2>4
<1>2. ASSUME NEW o \in Objects, CleanPlain(t, o) PROVE Typed'
  <2> DEFINE left == Head(work[t]).left \ {o}
  <2>1. work[t] # << >> /\ left \in SUBSET Objects
    BY <1>2, <1>a DEF CleanPlain, Doing, Cleanups
  <2>2. work' = [work EXCEPT ![t] = After(t, left)] /\ Release(o)
        /\ UNCHANGED <<stack, queue, threads, calls>>
    BY <1>2 DEF CleanPlain
  <2>3. WorkTyped'
    <3> DEFINE w == After(t, left)
    <3>1. w \in Seq(Cleanups) /\ Stacked(w) /\ (w # << >> => Head(w).at # "dtor")
      BY <2>1, <1>0, AfterTyped
    <3> HIDE DEF w
    <3>2. work' = [work EXCEPT ![t] = w] /\ nest' = nest
      BY <2>2 DEF w, calls
    <3> QED BY <3>1, <3>2, <1>0, <1>b, WorkChange
  <2>4. HeapTyped'
    BY <2>2, <1>0 DEF Release, HeapTyped
  <2>5. ThreadsTyped'
    BY <2>1, <2>2, <1>0, <1>a DEF ThreadsTyped, threads
  <2> QED BY <2>2, <2>3, <2>4, <2>5, <1>0 DEF stack, calls, StackTyped, QueueTyped, FrameTyped
<1>3. CASE FreeDead(t)
  <2> DEFINE left == Head(work[t]).left
             o == Head(work[t]).dying
  <2>1. work[t] # << >> /\ left \in SUBSET Objects /\ o \in Objects
    BY <1>3, <1>a DEF FreeDead, Doing, Cleanups, Sound
  <2>2. work' = [work EXCEPT ![t] = After(t, left)] /\ Release(o)
        /\ UNCHANGED <<stack, queue, threads, calls>>
    BY <1>3 DEF FreeDead
  <2>3. WorkTyped'
    <3> DEFINE w == After(t, left)
    <3>1. w \in Seq(Cleanups) /\ Stacked(w) /\ (w # << >> => Head(w).at # "dtor")
      BY <2>1, <1>0, AfterTyped
    <3> HIDE DEF w
    <3>2. work' = [work EXCEPT ![t] = w] /\ nest' = nest
      BY <2>2 DEF w, calls
    <3> QED BY <3>1, <3>2, <1>0, <1>b, WorkChange
  <2>4. HeapTyped'
    BY <2>1, <2>2, <1>0 DEF Release, HeapTyped
  <2>5. ThreadsTyped'
    BY <2>1, <2>2, <1>0, <1>a DEF ThreadsTyped, threads
  <2> QED BY <2>2, <2>3, <2>4, <2>5, <1>0 DEF stack, calls, StackTyped, QueueTyped, FrameTyped
<1>4. ASSUME NEW o \in Objects, EnterDestructor(t, o) PROVE Typed'
  <2> DEFINE c == Cleanup(Head(work[t]).left \ {o}, o, "dtor")
  <2>1. work[t] # << >> /\ c \in Cleanups /\ Sound(c) /\ PushScope(t)
        /\ work' = [work EXCEPT ![t] = <<c>> \o Tail(work[t])]
        /\ UNCHANGED <<queue, threads, frame, heap>>
    BY <1>4, <1>a DEF EnterDestructor, Doing, Cleanups, Cleanup, Sound, Resume
  <2> HIDE DEF c
  <2>2. StackTyped' /\ nest' \in [Actors -> Nat] /\ nest'[t] = nest[t] + 1
        /\ \A u \in Actors : u # t => nest'[u] = nest[u]
    BY <2>1, <1>0, PushTyped
  <2>3. WorkTyped'
    <3> DEFINE w == <<c>> \o Tail(work[t])
    <3>1. w \in Seq(Cleanups) /\ Stacked(w)
      BY <2>1, <1>a, ReplaceFacts, ReplaceStacked
    <3> HIDE DEF w
    <3>2. work' = [work EXCEPT ![t] = w] /\ nest'[t] > 0
      BY <2>1, <2>2, <1>b DEF w
    <3> QED BY <3>1, <3>2, <2>2, <1>0, WorkChange
  <2>4. ThreadsTyped'
    BY <2>1, <1>0, <1>a DEF ThreadsTyped, threads
  <2> QED BY <2>1, <2>2, <2>3, <2>4, <1>0 DEF heap, QueueTyped, FrameTyped, HeapTyped
<1>5. CASE ExitDestructor(t)
  <2> DEFINE c == [Head(work[t]) EXCEPT !.at = "free"]
             d == Cleanup(Detached, NULL, "hand")
  <2>1. work[t] # << >> /\ c \in Cleanups /\ Sound(c) /\ c.at = "free" /\ nest[t] > 0
        /\ PopScope(t) /\ EndFrame(t) /\ UNCHANGED <<queue, threads, heap>>
    <3>1. work[t] # << >> /\ Head(work[t]).at = "dtor" /\ nest[t] > 0
      BY <1>5, <1>b DEF ExitDestructor, InDestructor, Doing
    <3>2. Head(work[t]) \in Cleanups /\ Head(work[t]).dying \in Objects
      BY <3>1, <1>a DEF Sound
    <3>3. c \in Cleanups /\ c.at = "free" /\ c.dying = Head(work[t]).dying
      BY <3>2 DEF Cleanups
    <3> QED BY <1>5, <3>1, <3>2, <3>3 DEF ExitDestructor, Sound
  <2>2. d \in Cleanups /\ Sound(d) /\ d.at = "hand"
    BY <2>1, <1>0, PopTyped DEF Cleanups, Cleanup, Sound
  <2>3. \/ work' = [work EXCEPT ![t] = <<c>> \o Tail(work[t])]
        \/ work' = [work EXCEPT ![t] = <<d>> \o (<<c>> \o Tail(work[t]))]
    BY <1>5 DEF ExitDestructor, Resume
  <2> HIDE DEF c, d
  <2>4. StackTyped' /\ nest' \in [Actors -> Nat] /\ FrameTyped'
        /\ \A u \in Actors : u # t => nest'[u] = nest[u]
    BY <2>1, <1>0, PopTyped, EndTyped
  <2>5. WorkTyped'
    <3>1. CASE work' = [work EXCEPT ![t] = <<c>> \o Tail(work[t])]
      <4> DEFINE w == <<c>> \o Tail(work[t])
      <4>1. w \in Seq(Cleanups) /\ Stacked(w) /\ Head(w).at # "dtor"
        BY <2>1, <1>a, ReplaceFacts, ReplaceStacked
      <4> HIDE DEF w
      <4> QED BY <3>1, <4>1, <2>4, <1>0, WorkChange DEF w
    <3>2. CASE work' = [work EXCEPT ![t] = <<d>> \o (<<c>> \o Tail(work[t]))]
      <4> DEFINE w == <<d>> \o (<<c>> \o Tail(work[t]))
      <4>1. w \in Seq(Cleanups) /\ Stacked(w) /\ Head(w).at # "dtor"
        BY <2>1, <2>2, <1>a, OntoFacts, OntoStacked
      <4> HIDE DEF w
      <4> QED BY <3>2, <4>1, <2>4, <1>0, WorkChange DEF w
    <3> QED BY <2>3, <3>1, <3>2
  <2>6. ThreadsTyped'
    BY <2>1, <1>0, <1>a DEF ThreadsTyped, threads
  <2> QED BY <2>1, <2>4, <2>5, <2>6, <1>0 DEF heap, QueueTyped, HeapTyped
<1>6. CASE Abort
  <2>1. work' = [u \in Actors |-> << >>] /\ main' = "aborted" /\ cleaner' = "gone"
        /\ UNCHANGED <<stack, queue, shutdown, sweep, calls, heap>>
    BY <1>6 DEF Abort
  <2>2. WorkTyped'
    BY <2>1, <1>0 DEF WorkTyped, calls, Stacked, InDestructor, Doing
  <2> QED BY <2>1, <2>2, <1>0
          DEF stack, calls, heap, StackTyped, QueueTyped, ThreadsTyped, FrameTyped, HeapTyped
<1> QED BY <1>1, <1>2, <1>3, <1>4, <1>5, <1>6 DEF Clean, DestructorTooDeep

-----------------------------------------------------------------------------
\* The steps of the program and of its end, and of the background thread.
LEMMA TypedOther ==
    ASSUME Typed, Program \/ Cleaner \/ CleanerWakes \/ ShuttingDown
                  \/ \E t \in Actors, o \in Objects : Alloc(t, o)
    PROVE  Typed'
<1> USE DEF Typed
<1>0. /\ StackTyped /\ QueueTyped /\ ThreadsTyped /\ WorkTyped /\ FrameTyped /\ HeapTyped
      /\ nest \in [Actors -> Nat] /\ "main" \in Actors /\ "cleaner" \in Actors
  BY DEF WorkTyped, Actors
<1>same. ASSUME work' = work, nest' = nest PROVE WorkTyped'
  BY <1>0, <1>same DEF WorkTyped, InDestructor, Doing
<1>1. CASE Call
  <2>1. StackTyped' /\ nest' \in [Actors -> Nat] /\ nest'["main"] = nest["main"] + 1
        /\ \A u \in Actors : u # "main" => nest'[u] = nest[u]
    BY <1>0, <1>1, PushTyped DEF Call
  <2>2. WorkTyped'
    BY <2>1, <1>0, <1>1 DEF Call, InProgram, WorkTyped, InDestructor, Doing
  <2> QED BY <2>1, <2>2, <1>0, <1>1
          DEF Call, threads, heap, QueueTyped, ThreadsTyped, FrameTyped, HeapTyped
<1>2. CASE CallTooDeep
  <2>1. work' = [u \in Actors |-> << >>] /\ main' = "aborted" /\ cleaner' = "gone"
        /\ UNCHANGED <<stack, queue, shutdown, sweep, calls, heap>>
    BY <1>2 DEF CallTooDeep, Abort
  <2>2. WorkTyped'
    BY <2>1, <1>0 DEF WorkTyped, calls, Stacked, InDestructor, Doing
  <2> QED BY <2>1, <2>2, <1>0
          DEF stack, calls, heap, StackTyped, QueueTyped, ThreadsTyped, FrameTyped, HeapTyped
<1>3. CASE Leave
  <2> DEFINE d == Cleanup(Detached, NULL, "hand")
  <2>1. nest["main"] > 0 /\ PopScope("main") /\ EndFrame("main") /\ main' = "run"
        /\ main \in {"run", "leave"} /\ work["main"] = << >>
        /\ UNCHANGED <<queue, shutdown, cleaner, sweep, heap>>
    BY <1>3 DEF Leave
  <2>2. d \in Cleanups /\ Sound(d) /\ d.at = "hand"
    BY <2>1, <1>0, PopTyped DEF Cleanups, Cleanup, Sound
  <2>3. \/ work' = work
        \/ work' = [work EXCEPT !["main"] = <<d>>]
    BY <1>3 DEF Leave
  <2> HIDE DEF d
  <2>4. StackTyped' /\ nest' \in [Actors -> Nat] /\ FrameTyped'
        /\ \A u \in Actors : u # "main" => nest'[u] = nest[u]
    BY <2>1, <1>0, PopTyped, EndTyped
  <2>5. WorkTyped'
    <3>1. CASE work' = work
      BY <2>1, <2>4, <3>1, <1>0 DEF WorkTyped, InDestructor, Doing
    <3>2. CASE work' = [work EXCEPT !["main"] = <<d>>]
      BY <2>2, <2>4, <3>2, <1>0, OneCleanup, WorkChange
    <3> QED BY <2>3, <3>1, <3>2
  <2>6. ThreadsTyped'
    BY <2>1, <1>0 DEF ThreadsTyped
  <2> QED BY <2>1, <2>4, <2>5, <2>6, <1>0 DEF heap, QueueTyped, HeapTyped
<1>4. CASE ReturnEarly
  <2>1. nest' \in [Actors -> Nat] /\ FrameTyped'
        /\ \A u \in Actors : u # "main" => nest'[u] = nest[u]
    BY <1>0, <1>4, EndTyped DEF ReturnEarly
  <2>2. WorkTyped'
    BY <2>1, <1>0, <1>4 DEF ReturnEarly, InProgram, WorkTyped, InDestructor, Doing
  <2> QED BY <2>1, <2>2, <1>0, <1>4 DEF ReturnEarly, stack, threads, heap,
          StackTyped, QueueTyped, ThreadsTyped, HeapTyped
<1>5. CASE End
  BY <1>0, <1>5, <1>same DEF End, Wake, InProgram, stack, calls, heap,
     StackTyped, QueueTyped, ThreadsTyped, FrameTyped, HeapTyped
<1>6. ASSUME NEW o \in Objects, Retain(o) PROVE Typed'
  <2>1. UNCHANGED <<depth, owner, queue, shutdown, cleaner, sweep, work, nest, heap>>
        /\ main' = "leave" /\ main = "run"
    BY <1>6 DEF Retain, InProgram
  <2>2. FrameTyped'
    <3>1. frame[o] \in Actors \X Nat /\ nest["main"] - 1 \in Nat
      BY <1>0, <1>6 DEF Retain, Known, FrameTyped
    <3> QED BY <1>0, <1>6, <3>1 DEF Retain, FrameTyped
  <2>3. scope' \in [Levels -> SUBSET Objects] /\ mixed' \in BOOLEAN
    <3>1. scope \in [Levels -> SUBSET Objects] /\ mixed \in BOOLEAN
      BY <1>0 DEF StackTyped
    <3>2. CASE Tracked(o)
      <4> DEFINE target == IF At(o) = 0 THEN 0 ELSE At(o) - 1
      <4>1. /\ scope' = [d \in Levels |-> IF d = target THEN scope[d] \cup {o}
                                                         ELSE scope[d] \ {o}]
            /\ mixed' = (mixed \/ Foreign(target, "main"))
        BY <1>6, <3>2 DEF Retain
      <4>2. mixed' \in BOOLEAN
        BY <4>1 DEF Foreign
      <4> HIDE DEF target
      <4> QED BY <3>1, <4>1, <4>2
    <3>3. CASE ~Tracked(o)
      BY <1>6, <3>1, <3>3 DEF Retain
    <3> QED BY <3>2, <3>3
  <2> QED BY <2>1, <2>2, <2>3, <1>0, <1>same
          DEF heap, StackTyped, QueueTyped, ThreadsTyped, HeapTyped
<1>7. ASSUME NEW o \in Objects, Drop(o) PROVE Typed'
  <2>1. UNCHANGED <<depth, owner, mixed, queue, threads, work, nest, made>>
    BY <1>7 DEF Drop
  <2>2. scope' \in [Levels -> SUBSET Objects]
    <3>1. CASE Tracked(o)
      <4>1. scope' = [scope EXCEPT ![At(o)] = scope[At(o)] \ {o}]
        BY <1>7, <3>1 DEF Drop
      <4> QED BY <4>1, <1>0 DEF StackTyped
    <3>2. CASE ~Tracked(o)
      BY <1>0, <1>7, <3>2 DEF Drop, StackTyped
    <3> QED BY <3>1, <3>2
  <2>3. FrameTyped'
    BY <1>0, <1>7 DEF Drop, FrameTyped
  <2>4. HeapTyped'
    BY <1>0, <1>7 DEF Drop, HeapTyped
  <2>5. ThreadsTyped' /\ StackTyped' /\ QueueTyped'
    BY <2>1, <2>2, <1>0 DEF threads, StackTyped, QueueTyped, ThreadsTyped
  <2> QED BY <2>1, <2>3, <2>4, <2>5, <1>same
<1>8. ASSUME NEW t \in Actors, TakeBatch(t), main # "aborted"
      PROVE  WorkTyped' /\ QueueTyped'
  <2> DEFINE c == Cleanup(Head(queue), NULL, "next")
  <2>1. queue # << >> /\ queue' = Tail(queue) /\ work' = [work EXCEPT ![t] = <<c>>]
        /\ nest' = nest
    BY <1>8 DEF TakeBatch, calls
  <2>2. Head(queue) \in SUBSET Objects /\ QueueTyped'
    <3>1. /\ Head(queue) \in SUBSET Objects /\ Tail(queue) \in Seq(SUBSET Objects)
          /\ Len(Tail(queue)) = Len(queue) - 1 /\ Len(queue) \in Nat
      BY <2>1, <1>0 DEF QueueTyped
    <3> QED BY <2>1, <3>1, <1>0, SammAssumption DEF QueueTyped
  <2>3. c \in Cleanups /\ Sound(c) /\ c.at = "next"
    BY <2>2 DEF Cleanups, Cleanup, Sound
  <2> HIDE DEF c
  <2> QED BY <2>1, <2>2, <2>3, <1>0, OneCleanup, WorkChange
<1>9. CASE Cleaner \/ CleanerWakes
  <2>1. CASE CleanerTakes
    <3>1. main # "aborted"
      BY <2>1, <1>0 DEF CleanerTakes, ThreadsTyped
    <3> QED BY <2>1, <3>1, <1>0, <1>8 DEF CleanerTakes, TakeBatch, stack, threads, calls, heap,
            StackTyped, ThreadsTyped, FrameTyped, HeapTyped
  <2>2. CASE CleanerSleeps \/ CleanerStops \/ CleanerWakes
    BY <2>2, <1>0, <1>same DEF CleanerSleeps, CleanerStops, CleanerWakes, stack, calls, heap,
       StackTyped, QueueTyped, ThreadsTyped, FrameTyped, HeapTyped
  <2> QED BY <1>9, <2>1, <2>2 DEF Cleaner
<1>10. CASE Join
  BY <1>10, <1>0, <1>same DEF Join, stack, calls, heap,
     StackTyped, QueueTyped, ThreadsTyped, FrameTyped, HeapTyped
<1>11. CASE Drain
  <2>1. CASE queue # << >>
    <3>1. TakeBatch("main") /\ main # "aborted"
      BY <1>11, <2>1 DEF Drain
    <3> QED BY <3>1, <1>0, <1>8 DEF TakeBatch, stack, threads, calls, heap,
            StackTyped, ThreadsTyped, FrameTyped, HeapTyped
  <2>2. CASE queue = << >>
    <3>1. main' = "sweep" /\ sweep' = depth
          /\ UNCHANGED <<stack, queue, shutdown, cleaner, work, calls, heap>>
      BY <1>11, <2>2 DEF Drain
    <3> QED BY <3>1, <1>0, <1>same, SammAssumption DEF stack, calls, heap, Levels,
            StackTyped, QueueTyped, ThreadsTyped, FrameTyped, HeapTyped
  <2> QED BY <2>1, <2>2
<1>12. CASE SweepScope
  <2> DEFINE c == Cleanup(scope[sweep], NULL, "next")
  <2>1. UNCHANGED <<depth, owner, mixed, queue, shutdown, cleaner, calls, heap>>
        /\ main = "sweep" /\ work["main"] = << >>
    BY <1>12 DEF SweepScope
  <2>2. CASE sweep >= 0
    <3>1. /\ scope' = [scope EXCEPT ![sweep] = {}] /\ sweep' = sweep - 1 /\ main' = main
          /\ work' = work \/ work' = [work EXCEPT !["main"] = <<c>>]
      BY <1>12, <2>2 DEF SweepScope
    <3>2. sweep \in Levels /\ sweep - 1 \in -1 .. MaxDepth - 1
      BY <1>0, <2>2, SammAssumption DEF ThreadsTyped, Levels
    <3>3. c \in Cleanups /\ Sound(c) /\ c.at = "next"
      BY <3>2, <1>0 DEF StackTyped, Cleanups, Cleanup, Sound
    <3> HIDE DEF c
    <3>4. nest' = nest
      BY <2>1 DEF calls
    <3>5. WorkTyped'
      BY <3>1, <3>3, <3>4, <1>0, <1>same, OneCleanup, WorkChange
    <3>6. StackTyped' /\ ThreadsTyped'
      BY <2>1, <3>1, <3>2, <1>0 DEF StackTyped, ThreadsTyped
    <3> QED BY <2>1, <3>5, <3>6, <1>0 DEF calls, heap, QueueTyped, FrameTyped, HeapTyped
  <2>3. CASE ~(sweep >= 0)
    BY <1>12, <2>3, <1>0, <1>same DEF SweepScope, calls, heap,
       StackTyped, QueueTyped, ThreadsTyped, FrameTyped, HeapTyped
  <2> QED BY <2>2, <2>3
<1>13. ASSUME NEW t \in Actors, NEW o \in Objects, Alloc(t, o) PROVE Typed'
  <2>1. UNCHANGED <<depth, owner, queue, threads, work, nest, freed, twice>>
        /\ scope' = [scope EXCEPT ![depth] = @ \cup {o}]
        /\ frame' = [frame EXCEPT ![o] = <<t, nest[t]>>]
        /\ mixed' = (mixed \/ Foreign(depth, t)) /\ made' = made \cup {o}
    BY <1>13 DEF Alloc
  <2>2. nest[t] \in Nat
    BY <1>0
  <2>3. StackTyped' /\ FrameTyped' /\ HeapTyped'
    BY <2>1, <2>2, <1>0 DEF StackTyped, FrameTyped, HeapTyped, Foreign
  <2>4. QueueTyped' /\ ThreadsTyped' /\ WorkTyped'
    BY <2>1, <1>0, <1>same DEF threads, QueueTyped, ThreadsTyped
  <2> QED BY <2>3, <2>4
<1> QED BY <1>1, <1>2, <1>3, <1>4, <1>5, <1>6, <1>7, <1>9, <1>10, <1>11, <1>12, <1>13
        DEF Program, ShuttingDown

\* Every step keeps the types, the bounds of the scope stack and of the queue, and
\* the form of the stacks of cleanups.
LEMMA TypedStep == Typed /\ [Next]_vars => Typed'
<1> SUFFICES ASSUME Typed, [Next]_vars PROVE Typed'
  OBVIOUS
<1>1. CASE UNCHANGED vars
  BY <1>1 DEF Typed, vars, stack, threads, calls, heap, StackTyped, QueueTyped, ThreadsTyped,
     WorkTyped, InDestructor, Doing, FrameTyped, HeapTyped
<1> QED BY <1>1, TypedClean, TypedOther DEF Next

\* Every variable stays in its range: the scope stack and the queue within
\* their limits, and no cleanup loses the object it has in hand.
THEOREM TypeCorrect == Spec => []TypeOK
<1>1. Typed => TypeOK
  BY DEF Typed, TypeOK, StackTyped, QueueTyped, ThreadsTyped, WorkTyped, FrameTyped, HeapTyped
<1> QED BY <1>1, TypedInit, TypedStep, PTL DEF Spec

-----------------------------------------------------------------------------
\* Where o is.
InScope(o, d) == o \in scope[d]
InQueue(o, i) == i \in DOMAIN queue /\ o \in queue[i]
In(c, o) == o \in c.left \/ o = c.dying
InWork(o, t, i) == i \in DOMAIN work[t] /\ In(work[t][i], o)

\* o has a place, and no second one.
Somewhere(o) ==
    \/ o \in freed
    \/ \E d \in Levels : InScope(o, d)
    \/ \E i \in DOMAIN queue : InQueue(o, i)
    \/ \E t \in Actors : \E i \in DOMAIN work[t] : InWork(o, t, i)
Once(o) ==
    /\ \A d, e \in Levels : InScope(o, d) /\ InScope(o, e) => d = e
    /\ \A i, j \in DOMAIN queue : InQueue(o, i) /\ InQueue(o, j) => i = j
    /\ \A t, u \in Actors : \A i \in DOMAIN work[t], j \in DOMAIN work[u] :
           InWork(o, t, i) /\ InWork(o, u, j) => t = u /\ i = j
    /\ \A t \in Actors : \A i \in DOMAIN work[t] :
           ~(o \in work[t][i].left /\ o = work[t][i].dying)
Apart(o) ==
    /\ \A d \in Levels : InScope(o, d) =>
           /\ o \notin freed
           /\ \A i \in DOMAIN queue : ~InQueue(o, i)
           /\ \A t \in Actors : \A i \in DOMAIN work[t] : ~InWork(o, t, i)
    /\ \A i \in DOMAIN queue : InQueue(o, i) =>
           /\ o \notin freed
           /\ \A t \in Actors : \A j \in DOMAIN work[t] : ~InWork(o, t, j)
    /\ o \in freed => \A t \in Actors : \A i \in DOMAIN work[t] : ~InWork(o, t, i)
Home(o) == Somewhere(o) /\ Once(o) /\ Apart(o)

\* Nothing is left in a scope that is not open.
Closed == \A d \in Levels : d > depth => scope[d] = {}
\* What is anywhere has been allocated.
Made == /\ freed \subseteq made
        /\ \A d \in Levels : scope[d] \subseteq made
        /\ \A i \in DOMAIN queue : queue[i] \subseteq made
        /\ \A t \in Actors : \A i \in DOMAIN work[t] :
               \A o \in Objects : In(work[t][i], o) => o \in made
Homed == main # "aborted" => \A o \in made \ twice : Home(o)
Housed == Closed /\ Made /\ Homed

\* Two indices at the same distance from one index are the same.
LEMMA SameSum ==
    ASSUME NEW i \in Int, NEW j \in Int, NEW n \in Int, i + n = j + n
    PROVE  i = j
OBVIOUS

\* An object that no step moves: at most, what is before it in the queue, or
\* above it in a stack of cleanups, has changed.
LEMMA Stays ==
    ASSUME Typed, Typed', NEW o \in Objects, Home(o),
           \A d \in Levels : InScope(o, d)' <=> InScope(o, d),
           o \in freed' <=> o \in freed,
           NEW k \in Int, \A i \in Int : InQueue(o, i)' <=> InQueue(o, i + k),
           \A t \in Actors : \E n \in Int : \A i \in Int :
               InWork(o, t, i)' <=> InWork(o, t, i + n),
           \A t \in Actors : \A i \in DOMAIN work'[t] :
               ~(o \in work'[t][i].left /\ o = work'[t][i].dying)
    PROVE  Home(o)'
<1>1. /\ DOMAIN queue \subseteq Int /\ DOMAIN queue' \subseteq Int
      /\ \A t \in Actors : DOMAIN work[t] \subseteq Int /\ DOMAIN work'[t] \subseteq Int
  <2>1. queue \in Seq(SUBSET Objects) /\ queue' \in Seq(SUBSET Objects)
        /\ \A t \in Actors : work[t] \in Seq(Cleanups) /\ work'[t] \in Seq(Cleanups)
    BY DEF Typed, QueueTyped, WorkTyped
  <2>2. \A S : \A w \in Seq(S) : DOMAIN w \subseteq Int
    OBVIOUS
  <2> QED BY <2>1, <2>2
<1>2. PICK m \in [Actors -> Int] : \A t \in Actors : \A i \in Int :
          InWork(o, t, i)' <=> InWork(o, t, i + m[t])
  <2> DEFINE m == [t \in Actors |-> CHOOSE n \in Int : \A i \in Int :
                        InWork(o, t, i)' <=> InWork(o, t, i + n)]
  <2>1. m \in [Actors -> Int] /\ \A t \in Actors : \A i \in Int :
          InWork(o, t, i)' <=> InWork(o, t, i + m[t])
    OBVIOUS
  <2> QED BY <2>1
<1>3. /\ \A i : InQueue(o, i) => i \in DOMAIN queue
      /\ \A i : InQueue(o, i)' => i \in DOMAIN queue'
      /\ \A t, i : InWork(o, t, i) => i \in DOMAIN work[t]
      /\ \A t, i : InWork(o, t, i)' => i \in DOMAIN work'[t]
  BY DEF InQueue, InWork
<1>4. Somewhere(o)'
  <2>1. ASSUME NEW i \in DOMAIN queue, InQueue(o, i) PROVE Somewhere(o)'
    <3>1. i - k \in Int /\ (i - k) + k = i
      BY <1>1
    <3> QED BY <2>1, <3>1, <1>3 DEF Somewhere
  <2>2. ASSUME NEW t \in Actors, NEW i \in DOMAIN work[t], InWork(o, t, i)
        PROVE  Somewhere(o)'
    <3>1. i - m[t] \in Int /\ (i - m[t]) + m[t] = i
      BY <1>1, <1>2
    <3> QED BY <2>2, <3>1, <1>2, <1>3 DEF Somewhere
  <2> QED BY <2>1, <2>2 DEF Home, Somewhere
<1>5. Once(o)'
  <2>1. ASSUME NEW i \in DOMAIN queue', NEW j \in DOMAIN queue',
               InQueue(o, i)', InQueue(o, j)'
        PROVE  i = j
    <3>1. i + k = j + k
      BY <1>1, <1>3, <2>1 DEF Home, Once
    <3> QED BY <1>1, <3>1
  <2>2. ASSUME NEW t \in Actors, NEW u \in Actors,
               NEW i \in DOMAIN work'[t], NEW j \in DOMAIN work'[u],
               InWork(o, t, i)', InWork(o, u, j)'
        PROVE  t = u /\ i = j
    <3>1. t = u /\ i + m[t] = j + m[u]
      BY <1>1, <1>2, <1>3, <2>2 DEF Home, Once
    <3>2. i \in Int /\ j \in Int /\ m[t] \in Int
      BY <1>1, <1>2
    <3>3. i + m[t] = j + m[t]
      BY <3>1
    <3>4. i = j
      BY <3>2, <3>3, SameSum, Zenon
    <3> QED BY <3>1, <3>4
  <2> QED BY <2>1, <2>2 DEF Home, Once
<1>6. Apart(o)'
  BY <1>1, <1>2, <1>3 DEF Home, Apart
<1> QED BY <1>4, <1>5, <1>6 DEF Home

\* An object that a step moves, or allocates: its one new place.
LEMMA OnlyScope ==
    ASSUME NEW o, NEW d \in Levels, \A e \in Levels : InScope(o, e)' <=> e = d,
           o \notin freed', \A i : ~InQueue(o, i)', \A t \in Actors : \A i : ~InWork(o, t, i)'
    PROVE  Home(o)'
<1>1. \A t \in Actors : \A i \in DOMAIN work'[t] :
          ~(o \in work'[t][i].left /\ o = work'[t][i].dying)
  BY DEF InWork, In
<1> QED BY <1>1 DEF Home, Somewhere, Once, Apart

\* An object that is in one batch of the queue and nowhere else has one home.
LEMMA OnlyQueue ==
    ASSUME NEW o, NEW i \in DOMAIN queue', \A j : InQueue(o, j)' <=> j = i,
           \A e \in Levels : ~InScope(o, e)', o \notin freed', \A t \in Actors : \A j : ~InWork(o, t, j)'
    PROVE  Home(o)'
<1>1. \A t \in Actors : \A j \in DOMAIN work'[t] :
          ~(o \in work'[t][j].left /\ o = work'[t][j].dying)
  BY DEF InWork, In
<1> QED BY <1>1 DEF Home, Somewhere, Once, Apart

\* An object that is in one cleanup and nowhere else has one home.
LEMMA OnlyWork ==
    ASSUME NEW o, NEW t \in Actors, NEW i \in DOMAIN work'[t],
           \A u \in Actors : \A j : InWork(o, u, j)' <=> u = t /\ j = i,
           ~(o \in work'[t][i].left /\ o = work'[t][i].dying),
           \A e \in Levels : ~InScope(o, e)', o \notin freed', \A j : ~InQueue(o, j)'
    PROVE  Home(o)'
<1>1. \A u \in Actors : \A j \in DOMAIN work'[u] :
          ~(o \in work'[u][j].left /\ o = work'[u][j].dying)
  BY DEF InWork, In
<1> QED BY <1>1 DEF Home, Somewhere, Once, Apart

\* An object that was released and is nowhere else has one home.
LEMMA OnlyFreed ==
    ASSUME NEW o, o \in freed', \A e \in Levels : ~InScope(o, e)', \A j : ~InQueue(o, j)',
           \A u \in Actors : \A j : ~InWork(o, u, j)'
    PROVE  Home(o)'
<1>1. \A u \in Actors : \A j \in DOMAIN work'[u] :
          ~(o \in work'[u][j].left /\ o = work'[u][j].dying)
  BY DEF InWork, In
<1> QED BY <1>1 DEF Home, Somewhere, Once, Apart

\* An object that has a home is nowhere else.
LEMMA Elsewhere ==
    ASSUME NEW o, Home(o)
    PROVE  /\ \A d \in Levels : InScope(o, d) =>
                /\ \A e \in Levels : InScope(o, e) => e = d
                /\ o \notin freed /\ \A i : ~InQueue(o, i)
                /\ \A u \in Actors : \A j : ~InWork(o, u, j)
           /\ \A i : InQueue(o, i) =>
                /\ \A j : InQueue(o, j) => i = j
                /\ o \notin freed /\ \A d \in Levels : ~InScope(o, d)
                /\ \A u \in Actors : \A j : ~InWork(o, u, j)
           /\ \A t \in Actors : \A i : InWork(o, t, i) =>
                /\ \A u \in Actors : \A j : InWork(o, u, j) => u = t /\ j = i
                /\ ~(o \in work[t][i].left /\ o = work[t][i].dying)
                /\ o \notin freed /\ \A d \in Levels : ~InScope(o, d)
                /\ \A j : ~InQueue(o, j)
<1>1. /\ \A i : InQueue(o, i) => i \in DOMAIN queue
      /\ \A t, i : InWork(o, t, i) => i \in DOMAIN work[t]
  BY DEF InQueue, InWork
<1> QED BY <1>1 DEF Home, Once, Apart

-----------------------------------------------------------------------------
\* There is no object in the beginning.
LEMMA HousedInit == Init => Housed
<1> SUFFICES ASSUME Init PROVE Housed
  OBVIOUS
<1> QED BY DEF Init, Housed, Closed, Made, Homed

\* The level at which samm_retain and samm_untrack find an object.
LEMMA AtFacts ==
    ASSUME Typed, NEW o, Tracked(o)
    PROVE  /\ At(o) \in 0 .. depth /\ At(o) \in Levels /\ o \in scope[At(o)]
           /\ \A e \in At(o) + 1 .. depth : o \notin scope[e]
<1>1. depth \in Nat /\ 0 .. depth \subseteq Levels
  BY SammAssumption DEF Typed, StackTyped, Levels
<1> DEFINE P(n) == n \in 0 .. depth /\ o \in scope[depth - n]
<1>2. \E n \in Nat : P(n)
  <2>1. PICK d \in 0 .. depth : o \in scope[d]
    BY DEF Tracked
  <2>2. depth - d \in Nat /\ depth - d \in 0 .. depth /\ depth - (depth - d) = d
    BY <1>1
  <2> QED BY <2>1, <2>2
<1>3. PICK n \in Nat : P(n) /\ \A m \in 0 .. n - 1 : ~P(m)
  <2> HIDE DEF P
  <2> DEFINE S == {n \in Nat : P(n)}
  <2>1. S # {} /\ S \subseteq Nat
    BY <1>2
  <2>2. PICK n \in S : \A m \in S : <<m, n>> \notin OpToRel(<, Nat)
    BY <2>1, NatLessThanWellFounded, WFMin
  <2>3. ASSUME NEW m \in 0 .. n - 1, P(m) PROVE FALSE
    <3>1. m \in S /\ m \in Nat /\ n \in Nat /\ m < n
      BY <2>3
    <3> QED BY <2>2, <3>1 DEF OpToRel
  <2> QED BY <2>2, <2>3
<1> DEFINE d == depth - n
<1>4. d \in 0 .. depth /\ o \in scope[d]
  BY <1>1, <1>3
<1>5. ASSUME NEW e \in d + 1 .. depth, o \in scope[e] PROVE FALSE
  <2>1. depth - e \in 0 .. n - 1 /\ depth - e \in 0 .. depth /\ depth - (depth - e) = e
    BY <1>1, <1>3
  <2> QED BY <1>3, <1>5, <2>1
<1>6. \E l \in 0 .. depth : o \in scope[l] /\ \A e \in l + 1 .. depth : o \notin scope[e]
  BY <1>4, <1>5
<1> QED BY <1>1, <1>6 DEF At

\* samm_enter_scope resets a scope that is empty; samm_exit_scope empties the
\* scope it takes.
LEMMA PushHoused ==
    ASSUME Typed, Closed, NEW t \in Actors, PushScope(t)
    PROVE  scope' = scope /\ Closed'
<1>1. depth + 1 \in Levels /\ depth \in Nat /\ scope \in [Levels -> SUBSET Objects]
  BY SammAssumption DEF PushScope, Typed, StackTyped, Levels
<1>2. scope[depth + 1] = {}
  BY <1>1 DEF Closed
<1>3. scope' = scope
  BY <1>1, <1>2 DEF PushScope
<1> QED BY <1>1, <1>3 DEF Closed, PushScope, Levels

\* A scope that is popped gives up all it tracked, and no other scope does.
LEMMA PopHoused ==
    ASSUME Typed, Closed, NEW t \in Actors, PopScope(t)
    PROVE  /\ Closed'
           /\ \A o : \A d \in Levels :
                  InScope(o, d)' <=> InScope(o, d) /\ ~(depth > 0 /\ d = depth)
           /\ \A o : o \in Detached <=> depth > 0 /\ InScope(o, depth)
           /\ depth \in Levels
<1>1. depth \in Levels /\ depth \in Nat /\ scope \in [Levels -> SUBSET Objects]
  BY SammAssumption DEF Typed, StackTyped, Levels
<1>2. CASE depth > 0
  <2>1. scope' = [scope EXCEPT ![depth] = {}] /\ depth' = depth - 1
    BY <1>2 DEF PopScope
  <2>2. Closed'
    BY <1>1, <2>1 DEF Closed, Levels
  <2> QED BY <1>1, <1>2, <2>1, <2>2 DEF InScope, Detached
<1>3. CASE ~(depth > 0)
  BY <1>1, <1>3 DEF PopScope, stack, Closed, InScope, Detached
<1> QED BY <1>2, <1>3

\* Steps that move nothing.
LEMMA HousedSame ==
    ASSUME Housed, Closed', UNCHANGED <<scope, queue, work, heap>>,
           main' # "aborted" => main # "aborted"
    PROVE  Housed'
<1>1. Made'
  BY DEF Housed, Made, heap
<1>2. ASSUME NEW o, Home(o) PROVE Home(o)'
  BY <1>2 DEF Home, Somewhere, Once, Apart, InScope, InQueue, InWork, heap
<1> QED BY <1>1, <1>2 DEF Housed, Homed, heap

\* What is nowhere, because it has not been allocated.
LEMMA Nowhere ==
    ASSUME Typed, Made, NEW o \in Objects, o \notin made
    PROVE  /\ o \notin freed /\ \A d \in Levels : ~InScope(o, d)
           /\ \A i : ~InQueue(o, i)
           /\ \A t \in Actors : \A i : ~InWork(o, t, i)
BY DEF Made, InScope, InQueue, InWork

\* The objects of a scope become the one cleanup of a thread that has none.
LEMMA ScopeToWork ==
    ASSUME Typed, Typed', Housed, Closed', NEW t \in Actors, work[t] = << >>,
           NEW l \in Levels, NEW S, S = scope[l] \/ S = {},
           NEW c, c.left = S, c.dying = NULL,
           work' = IF S = {} THEN work ELSE [work EXCEPT ![t] = <<c>>],
           \A o : \A d \in Levels : InScope(o, d)' <=> InScope(o, d) /\ ~(o \in S /\ d = l),
           UNCHANGED <<queue, heap>>, main # "aborted"
    PROVE  Housed'
<1>0. /\ work \in [Actors -> Seq(Cleanups)] /\ S \subseteq Objects /\ NULL \notin Objects
      /\ made \subseteq Objects
  BY SammAssumption DEF Typed, WorkTyped, StackTyped, HeapTyped
<1>1. \A o \in Objects : In(c, o) <=> o \in S
  BY <1>0 DEF In
<1>2. /\ \A u \in Actors : u # t => work'[u] = work[u]
      /\ S # {} => DOMAIN work'[t] = {1} /\ work'[t][1] = c
      /\ S = {} => work'[t] = work[t]
  BY <1>0
<1>3. \A o \in Objects : \A u \in Actors : \A i :
          InWork(o, u, i)' <=> InWork(o, u, i) \/ (o \in S /\ u = t /\ i = 1)
  <2> SUFFICES ASSUME NEW o \in Objects, NEW u \in Actors, NEW i
               PROVE  InWork(o, u, i)' <=> InWork(o, u, i) \/ (o \in S /\ u = t /\ i = 1)
    OBVIOUS
  <2>1. CASE u # t
    BY <1>2, <2>1 DEF InWork
  <2>2. CASE u = t /\ S = {}
    BY <1>2, <2>2 DEF InWork
  <2>3. CASE u = t /\ S # {}
    <3>1. ~InWork(o, u, i)
      BY <2>3 DEF InWork
    <3>2. InWork(o, u, i)' <=> i \in DOMAIN work'[u] /\ In(work'[u][i], o)
      BY DEF InWork, In
    <3> QED BY <1>1, <1>2, <2>3, <3>1, <3>2
  <2> QED BY <2>1, <2>2, <2>3
<1>4. \A o : (\A i : InQueue(o, i)' <=> InQueue(o, i)) /\ (o \in freed' <=> o \in freed)
  BY DEF InQueue, heap
<1>5. Made'
  <2>1. S \subseteq made
    BY DEF Housed, Made
  <2>2. ASSUME NEW u \in Actors, NEW i \in DOMAIN work'[u], NEW o \in Objects, In(work'[u][i], o)
        PROVE  o \in made
    <3>1. InWork(o, u, i)'
      BY <2>2 DEF InWork, In
    <3>2. InWork(o, u, i) \/ o \in S
      BY <1>3, <3>1
    <3> QED BY <2>1, <3>2 DEF Housed, Made, InWork
  <2>3. \A d \in Levels : scope'[d] \subseteq made
    <3> SUFFICES ASSUME NEW d \in Levels, NEW o, o \in scope'[d] PROVE o \in made
      OBVIOUS
    <3>1. InScope(o, d)'
      BY DEF InScope
    <3>2. InScope(o, d)
      BY <3>1
    <3> QED BY <3>2 DEF InScope, Housed, Made
  <2> QED BY <2>2, <2>3 DEF Housed, Made, heap, In
<1>6. ASSUME NEW o \in made \ twice PROVE Home(o)'
  <2>0. Home(o) /\ o \in Objects
    BY <1>0 DEF Housed, Homed
  <2>1. CASE o \in S
    <3>1. InScope(o, l)
      BY <2>1 DEF InScope
    <3>2. \A d \in Levels : ~InScope(o, d)'
      BY <2>0, <2>1, <3>1, Elsewhere
    <3>3. \A u \in Actors : \A i : InWork(o, u, i)' <=> u = t /\ i = 1
      BY <1>3, <2>0, <2>1, <3>1, Elsewhere
    <3>4. o \notin freed' /\ \A i : ~InQueue(o, i)'
      BY <1>4, <2>0, <3>1, Elsewhere
    <3>5. 1 \in DOMAIN work'[t] /\ ~(o \in work'[t][1].left /\ o = work'[t][1].dying)
      BY <1>0, <1>2, <2>0, <2>1
    <3> QED BY <3>2, <3>3, <3>4, <3>5, OnlyWork
  <2>2. CASE o \notin S
    <3>1. \A d \in Levels : InScope(o, d)' <=> InScope(o, d)
      BY <2>2
    <3>2. \A u \in Actors : \A i : InWork(o, u, i)' <=> InWork(o, u, i)
      BY <1>3, <2>0, <2>2
    <3>3. \A u \in Actors : \A i \in DOMAIN work'[u] :
             ~(o \in work'[u][i].left /\ o = work'[u][i].dying)
      <4> SUFFICES ASSUME NEW u \in Actors, NEW i \in DOMAIN work'[u],
                          o \in work'[u][i].left, o = work'[u][i].dying
                   PROVE  FALSE
        OBVIOUS
      <4>1. InWork(o, u, i)'
        BY DEF InWork, In
      <4>2. InWork(o, u, i)
        BY <3>2, <4>1
      <4>3. u # t
        BY <4>2 DEF InWork
      <4> QED BY <1>2, <4>2, <4>3, <2>0, Elsewhere
    <3>7. \A i \in Int : i + 0 = i
      OBVIOUS
    <3>4. \A i \in Int : InQueue(o, i)' <=> InQueue(o, i + 0)
      BY <1>4, <3>7, Zenon
    <3>5. \A u \in Actors : \A i \in Int : InWork(o, u, i)' <=> InWork(o, u, i + 0)
      BY <3>2, <3>7, Zenon
    <3>6. \A u \in Actors : \E n \in Int : \A i \in Int :
             InWork(o, u, i)' <=> InWork(o, u, i + n)
      <4>1. 0 \in Int
        OBVIOUS
      <4> QED BY <3>5, <4>1, Zenon
    <3> QED BY <1>4, <2>0, <3>1, <3>3, <3>4, <3>6, Stays, 0 \in Int
  <2> QED BY <2>1, <2>2
<1>7. made' = made /\ twice' = twice
  BY DEF heap
<1> QED BY <1>5, <1>6, <1>7 DEF Housed, Homed

-----------------------------------------------------------------------------
\* What a change of the top of a stack of cleanups does to the places in it.
Both(o, t, i) == i \in DOMAIN work[t] /\ o \in work[t][i].left /\ o = work[t][i].dying

\* What the type says of the cleanups of a thread.
LEMMA WorkFacts ==
    ASSUME Typed, NEW t \in Actors
    PROVE  /\ work[t] \in Seq(Cleanups)
           /\ work[t] # << >> => /\ Head(work[t]) \in Cleanups /\ Sound(Head(work[t]))
                                 /\ 1 \in DOMAIN work[t] /\ Head(work[t]) = work[t][1]
                                 /\ main # "aborted"
           /\ \A o, i : InWork(o, t, i) => i \in Int
<1>1. work[t] \in Seq(Cleanups) /\ Stacked(work[t])
  BY DEF Typed, WorkTyped
<1>2. \A i : i \in DOMAIN work[t] => i \in Int
  <2> HIDE DEF Cleanups
  <2> QED BY <1>1
<1>3. work[t] # << >> => main # "aborted"
  BY DEF Typed, ThreadsTyped
<1> QED BY <1>1, <1>2, <1>3, TopFacts, TailStacked DEF InWork

\* A cleanup that is done leaves the stack: the others move up by one.
LEMMA GoneWork ==
    ASSUME Typed, NEW t \in Actors, work[t] # << >>, work'[t] = Tail(work[t])
    PROVE  \A o : /\ \A i \in Int : InWork(o, t, i)' <=> InWork(o, t, i + 1) /\ i # 0
                  /\ \A i \in Int : Both(o, t, i)' => Both(o, t, i + 1)
<1> DEFINE w == work[t]
           v == work'[t]
<1>1. w \in Seq(Cleanups)
  BY WorkFacts
<1>2. DOMAIN w = 1 .. Len(w) /\ DOMAIN v = 1 .. Len(w) - 1 /\ Len(w) \in Nat
      /\ \A i \in DOMAIN v : v[i] = w[i + 1]
  BY <1>1, TopFacts
<1>3. \A i \in Int : i \in DOMAIN v <=> i + 1 \in DOMAIN w /\ i # 0
  BY <1>2
<1> QED BY <1>2, <1>3 DEF InWork, Both, In

\* The cleanup on top is replaced: the others stay where they are.
LEMMA ReplacedWork ==
    ASSUME Typed, NEW t \in Actors, work[t] # << >>, NEW c \in Cleanups,
           work'[t] = <<c>> \o Tail(work[t])
    PROVE  \A o : \A i \in Int :
               /\ InWork(o, t, i)' <=> IF i = 1 THEN In(c, o) ELSE InWork(o, t, i)
               /\ Both(o, t, i)' => IF i = 1 THEN o \in c.left /\ o = c.dying ELSE Both(o, t, i)
<1> DEFINE w == work[t]
           v == work'[t]
<1>1. w \in Seq(Cleanups)
  BY WorkFacts
<1>2. 1 \in DOMAIN w /\ DOMAIN v = DOMAIN w /\ v[1] = c
      /\ \A i \in DOMAIN w : i # 1 => v[i] = w[i]
  BY <1>1, TopFacts, ReplaceFacts, SMTT(60)
<1> QED BY <1>2 DEF InWork, Both, In

\* A cleanup is begun inside the one on top: the others move down by one.
LEMMA OntoWork ==
    ASSUME Typed, NEW t \in Actors, work[t] # << >>, NEW c \in Cleanups, NEW d \in Cleanups,
           work'[t] = <<d>> \o (<<c>> \o Tail(work[t]))
    PROVE  \A o : \A i \in Int :
               /\ InWork(o, t, i)' <=> IF i = 1 THEN In(d, o) ELSE IF i = 2 THEN In(c, o)
                                       ELSE InWork(o, t, i - 1)
               /\ Both(o, t, i)' => IF i = 1 THEN o \in d.left /\ o = d.dying
                                    ELSE IF i = 2 THEN o \in c.left /\ o = c.dying
                                    ELSE Both(o, t, i - 1)
<1> DEFINE w == work[t]
           v == work'[t]
<1>1. w \in Seq(Cleanups)
  BY WorkFacts
<1>2. /\ DOMAIN w = 1 .. Len(w) /\ DOMAIN v = 1 .. Len(w) + 1 /\ v[1] = d /\ v[2] = c
      /\ Len(w) \in Nat /\ Len(w) > 0 /\ \A i \in DOMAIN w : i # 1 => v[i + 1] = w[i]
  <2>1. DOMAIN w = 1 .. Len(w) /\ Len(w) \in Nat /\ Len(w) > 0
    BY <1>1, TopFacts
  <2>2. /\ DOMAIN v = 1 .. Len(w) + 1 /\ v[1] = d /\ v[2] = c
        /\ \A i \in DOMAIN w : i # 1 => v[i + 1] = w[i]
    <3> HIDE DEF w
    <3> DEFINE u == <<d>> \o (<<c>> \o Tail(w))
    <3>1. u \in Seq(Cleanups) /\ u # << >> /\ DOMAIN u = 1 .. Len(w) + 1
          /\ u[1] = d /\ Head(u) = d /\ u[2] = c
          /\ \A i \in DOMAIN w : i # 1 => u[i + 1] = w[i]
      BY <1>1, OntoFacts, SMTT(60) DEF w
    <3>2. v = u
      BY DEF w
    <3> QED BY <3>1, <3>2
  <2> QED BY <2>1, <2>2
<1>3. \A i \in Int : i \notin {1, 2} =>
          /\ i \in DOMAIN v <=> i - 1 \in DOMAIN w
          /\ i - 1 \in DOMAIN w => v[i] = w[i - 1]
  <2> TAKE i \in Int
  <2> HAVE i \notin {1, 2}
  <2>1. i \in DOMAIN v <=> i - 1 \in DOMAIN w
    BY <1>2
  <2>2. (i - 1) + 1 = i /\ i - 1 # 1
    OBVIOUS
  <2> QED BY <1>2, <2>1, <2>2
<1>4. 1 \in DOMAIN v /\ 2 \in DOMAIN v
  BY <1>2
<1> QED BY <1>2, <1>3, <1>4 DEF InWork, Both, In

\* One thread changes its stack, and o stays where it is, at most shifted.
QueueShifted(o) == \E k \in Int : \A i \in Int : InQueue(o, i)' <=> InQueue(o, i + k)
WorkShifted(o, t) == \E n \in Int : \A i \in Int : InWork(o, t, i)' <=> InWork(o, t, i + n)

\* Queue and cleanups as they were are a shift by nothing.
LEMMA SameShifted ==
    ASSUME NEW o
    PROVE  /\ (\A i : InQueue(o, i)' <=> InQueue(o, i)) => QueueShifted(o)
           /\ \A t : (\A i \in Int : InWork(o, t, i)' <=> InWork(o, t, i)) => WorkShifted(o, t)
<1>1. \A i \in Int : i + 0 = i
  OBVIOUS
<1>2. 0 \in Int
  OBVIOUS
<1> QED BY <1>1, <1>2, Zenon DEF QueueShifted, WorkShifted

\* A head that left is a shift by one.
LEMMA NextShifted ==
    ASSUME NEW o
    PROVE  /\ (\A i \in Int : InQueue(o, i)' <=> InQueue(o, i + 1)) => QueueShifted(o)
           /\ \A t : (\A i \in Int : InWork(o, t, i)' <=> InWork(o, t, i + 1)) => WorkShifted(o, t)
<1>1. 1 \in Int
  OBVIOUS
<1> QED BY <1>1, Zenon DEF QueueShifted, WorkShifted

\* A step that shifts the queue and the cleanups of one thread, and changes nothing
\* else, leaves an object its one home.
LEMMA StaysTop ==
    ASSUME Typed, Typed', NEW o \in Objects, Home(o), NEW t \in Actors,
           \A u \in Actors : u # t => work'[u] = work[u],
           \A d \in Levels : InScope(o, d)' <=> InScope(o, d),
           o \in freed' <=> o \in freed,
           QueueShifted(o), WorkShifted(o, t), \A i \in Int : ~Both(o, t, i)'
    PROVE  Home(o)'
<1>0. PICK k \in Int : \A i \in Int : InQueue(o, i)' <=> InQueue(o, i + k)
  BY DEF QueueShifted
<1>1. ASSUME NEW u \in Actors, u # t
      PROVE  \A i \in Int : InWork(o, u, i)' <=> InWork(o, u, i + 0)
  <2>1. \A i \in Int : i + 0 = i
    OBVIOUS
  <2>2. \A i : InWork(o, u, i)' <=> InWork(o, u, i)
    BY <1>1 DEF InWork, In
  <2> QED BY <2>1, <2>2, Zenon
<1>2. \A u \in Actors : \E m \in Int : \A i \in Int : InWork(o, u, i)' <=> InWork(o, u, i + m)
  <2> TAKE u \in Actors
  <2>1. CASE u = t
    BY <2>1 DEF WorkShifted
  <2>2. CASE u # t
    <3>1. 0 \in Int
      OBVIOUS
    <3> QED BY <1>1, <2>2, <3>1
  <2> QED BY <2>1, <2>2
<1>3. \A u \in Actors : \A i \in DOMAIN work'[u] :
         ~(o \in work'[u][i].left /\ o = work'[u][i].dying)
  <2> SUFFICES ASSUME NEW u \in Actors, NEW i \in DOMAIN work'[u],
                      o \in work'[u][i].left, o = work'[u][i].dying
               PROVE  FALSE
    OBVIOUS
  <2>1. CASE u = t
    <3>1. Both(o, t, i)' /\ InWork(o, t, i)'
      BY <2>1 DEF Both, InWork, In
    <3>2. i \in Int
      <4>1. work'[u] \in Seq(Cleanups)
        BY DEF Typed, WorkTyped
      <4>2. \A S : \A w \in Seq(S) : DOMAIN w \subseteq Int
        OBVIOUS
      <4> QED BY <4>1, <4>2
    <3> QED BY <3>1, <3>2
  <2>2. CASE u # t
    <3>1. InWork(o, u, i) /\ work'[u] = work[u]
      BY <2>2 DEF InWork, In
    <3> QED BY <3>1, Elsewhere
  <2> QED BY <2>1, <2>2
<1> QED BY <1>0, <1>2, <1>3, Stays

\* What is anywhere was there, or has been allocated, before the step.
LEMMA MadeStays ==
    ASSUME Typed, Typed', Made, made \subseteq made',
           \A o \in Objects : o \in freed' => o \in made',
           \A o \in Objects : \A d \in Levels : InScope(o, d)' => o \in made',
           \A o \in Objects : \A i \in Int : InQueue(o, i)' => o \in made',
           \A o \in Objects : \A t \in Actors : \A i \in Int : InWork(o, t, i)' => o \in made'
    PROVE  Made'
<1>1. /\ freed' \subseteq Objects /\ \A d \in Levels : scope'[d] \subseteq Objects
      /\ queue' \in Seq(SUBSET Objects) /\ \A t \in Actors : work'[t] \in Seq(Cleanups)
  BY DEF Typed, HeapTyped, StackTyped, QueueTyped, WorkTyped
<1>2. \A S : \A w \in Seq(S) : DOMAIN w \subseteq Int /\ \A i \in DOMAIN w : w[i] \in S
  OBVIOUS
<1>3. \A i \in DOMAIN queue' : i \in Int /\ queue'[i] \subseteq Objects
  BY <1>1, <1>2
<1>4. \A t \in Actors : \A i \in DOMAIN work'[t] : i \in Int
  BY <1>1, <1>2
<1> QED BY <1>1, <1>3, <1>4 DEF Made, InScope, InQueue, InWork, In

\* Whatever is in a scope, the queue or a cleanup, or was released, was allocated.
LEMMA MadeFacts ==
    ASSUME Made, NEW o \in Objects
    PROVE  /\ o \in freed => o \in made
           /\ \A d \in Levels : InScope(o, d) => o \in made
           /\ \A i : InQueue(o, i) => o \in made
           /\ \A t \in Actors : \A i : InWork(o, t, i) => o \in made
BY DEF Made, InScope, InQueue, InWork

\* Places in the queue and in the cleanups are integers.
LEMMA PlacesInt ==
    ASSUME Typed'
    PROVE  /\ \A o, i : InQueue(o, i)' => i \in Int
           /\ \A o : \A t \in Actors : \A i : InWork(o, t, i)' => i \in Int
<1>1. queue' \in Seq(SUBSET Objects) /\ \A t \in Actors : work'[t] \in Seq(Cleanups)
  BY DEF Typed, QueueTyped, WorkTyped
<1>2. \A S : \A w \in Seq(S) : DOMAIN w \subseteq Int
  OBVIOUS
<1> QED BY <1>1, <1>2 DEF InQueue, InWork

\* An object is released, and its cleanup goes on.
LEMMA HousedRelease ==
    ASSUME Typed, Typed', Housed, NEW t \in Actors, work[t] # << >>,
           NEW x \in Objects, NEW left \in SUBSET Objects,
           \A o \in Objects : In(Head(work[t]), o) <=> o \in left \/ o = x,
           Home(x) => x \notin left,
           work' = [work EXCEPT ![t] = After(t, left)], Release(x),
           UNCHANGED <<stack, queue>>
    PROVE  Housed'
<1> DEFINE c == Cleanup(left, NULL, "next")
<1>1. /\ work[t] \in Seq(Cleanups) /\ c \in Cleanups /\ NULL \notin Objects
      /\ c.left = left /\ c.dying = NULL /\ main # "aborted" /\ Head(work[t]) = work[t][1]
      /\ 1 \in DOMAIN work[t] /\ made \subseteq Objects
  BY WorkFacts, SammAssumption DEF Cleanups, Cleanup, Typed, HeapTyped
<1>2. \A u \in Actors : u # t => work'[u] = work[u]
  BY DEF Typed, WorkTyped
<1>3. /\ left = {} => work'[t] = Tail(work[t])
      /\ left # {} => work'[t] = <<c>> \o Tail(work[t])
  BY DEF Typed, WorkTyped, After, Resume
<1> HIDE DEF c
<1>4. \A o \in Objects : In(c, o) <=> o \in left
  BY <1>1 DEF In
<1>5. \A o \in Objects : InWork(o, t, 1) <=> o \in left \/ o = x
  BY <1>1 DEF InWork
<1>6. \A o \in Objects : \A i \in Int :
        /\ left = {} => (InWork(o, t, i)' <=> InWork(o, t, i + 1) /\ i # 0)
        /\ left = {} => (Both(o, t, i)' => Both(o, t, i + 1))
        /\ left # {} => (InWork(o, t, i)' <=> IF i = 1 THEN o \in left ELSE InWork(o, t, i))
        /\ left # {} => (Both(o, t, i)' => Both(o, t, i))
  BY <1>1, <1>3, <1>4, GoneWork, ReplacedWork
<1>7. /\ \A o : \A d \in Levels : InScope(o, d)' <=> InScope(o, d)
      /\ \A o, i : InQueue(o, i)' <=> InQueue(o, i)
      /\ freed' = freed \cup {x} /\ made' = made /\ twice' = twice \cup ({x} \cap freed)
      /\ \A o : \A u \in Actors : u # t => \A i : InWork(o, u, i)' <=> InWork(o, u, i)
  BY <1>2 DEF InScope, InQueue, InWork, In, stack, Release
<1>8. Made'
  <2>1. x \in made
    BY <1>5, MadeFacts DEF Housed
  <2>2. ASSUME NEW o \in Objects, NEW u \in Actors, NEW i \in Int, InWork(o, u, i)'
        PROVE  o \in made
    <3>1. \E j : InWork(o, u, j)
      BY <1>5, <1>6, <1>7, <2>2
    <3> QED BY <3>1, MadeFacts DEF Housed
  <2> QED BY <2>1, <2>2, <1>7, MadeFacts, MadeStays DEF Housed
<1>9. ASSUME NEW o \in made \ twice' PROVE Home(o)'
  <2>1. Home(o) /\ o \in Objects
    BY <1>1, <1>7 DEF Housed, Homed
  <2>2. \A i : ~Both(o, t, i)
    BY <2>1, Elsewhere DEF Both, InWork, In
  <2>3. CASE o = x
    <3>1. InWork(x, t, 1) /\ x \notin left
      BY <1>5, <2>1, <2>3
    <3>2. \A i \in Int : ~InWork(x, t, i)'
      <4> TAKE i \in Int
      <4>1. \A j : InWork(x, t, j) => j = 1
        BY <2>1, <2>3, <3>1, Elsewhere
      <4>2. i # 0 => i + 1 # 1
        OBVIOUS
      <4> QED BY <3>1, <1>6, <4>1, <4>2
    <3>3. \A u \in Actors : u # t => \A i : ~InWork(x, u, i)'
      BY <1>7, <2>1, <2>3, <3>1, Elsewhere
    <3>4. \A u \in Actors : \A i : ~InWork(x, u, i)'
      <4>1. \A u \in Actors : \A i : InWork(x, u, i)' => i \in Int
        BY PlacesInt
      <4> QED BY <3>2, <3>3, <4>1
    <3>5. (\A d \in Levels : ~InScope(x, d)') /\ \A i : ~InQueue(x, i)'
      BY <1>7, <2>1, <2>3, <3>1, Elsewhere
    <3> QED BY <1>7, <2>3, <3>4, <3>5, OnlyFreed
  <2>4. CASE o # x
    <3>1. \A i \in Int : ~Both(o, t, i)'
      BY <1>6, <2>1, <2>2
    <3>3. QueueShifted(o)
      BY <1>7, SameShifted
    <3>4. WorkShifted(o, t)
      <4>1. CASE left = {}
        <5>1. ~InWork(o, t, 1)
          BY <1>5, <2>1, <2>4, <4>1
        <5>2. \A i \in Int : InWork(o, t, i)' <=> InWork(o, t, i + 1)
          BY <1>6, <2>1, <4>1, <5>1
        <5> QED BY <5>2, NextShifted
      <4>2. CASE left # {}
        <5>1. \A i \in Int : InWork(o, t, i)' <=> InWork(o, t, i)
          BY <1>5, <1>6, <2>1, <2>4, <4>2
        <5> QED BY <5>1, SameShifted
      <4> QED BY <4>1, <4>2
    <3>5. o \in freed' <=> o \in freed
      BY <1>7, <2>4
    <3> QED BY <1>2, <1>7, <2>1, <3>1, <3>3, <3>4, <3>5, StaysTop
  <2> QED BY <2>3, <2>4
<1>10. Closed'
  BY DEF Housed, Closed, stack
<1> QED BY <1>7, <1>8, <1>9, <1>10 DEF Housed, Homed

\* The top cleanup is replaced by one with the same objects.
LEMMA HousedReplace ==
    ASSUME Typed, Typed', Housed, NEW t \in Actors, work[t] # << >>, NEW c \in Cleanups,
           \A o \in Objects : In(c, o) <=> In(Head(work[t]), o),
           \A o \in Objects : Home(o) => ~(o \in c.left /\ o = c.dying),
           work' = [work EXCEPT ![t] = <<c>> \o Tail(work[t])],
           Closed', UNCHANGED <<scope, queue, heap>>
    PROVE  Housed'
<1>1. /\ main # "aborted" /\ Head(work[t]) = work[t][1] /\ 1 \in DOMAIN work[t]
      /\ made \subseteq Objects
  BY WorkFacts DEF Typed, HeapTyped
<1>2. \A u \in Actors : u # t => work'[u] = work[u]
  BY DEF Typed, WorkTyped
<1>3. work'[t] = <<c>> \o Tail(work[t])
  BY DEF Typed, WorkTyped
<1>4. \A o \in Objects : \A i \in Int :
        /\ InWork(o, t, i)' <=> InWork(o, t, i)
        /\ Both(o, t, i)' => Both(o, t, i) \/ (o \in c.left /\ o = c.dying)
  <2>1. \A o \in Objects : InWork(o, t, 1) <=> In(c, o)
    BY <1>1 DEF InWork
  <2> QED BY <1>3, <2>1, ReplacedWork
<1>5. /\ \A o : \A d \in Levels : InScope(o, d)' <=> InScope(o, d)
      /\ \A o, i : InQueue(o, i)' <=> InQueue(o, i)
      /\ freed' = freed /\ made' = made /\ twice' = twice
      /\ \A o : \A u \in Actors : u # t => \A i : InWork(o, u, i)' <=> InWork(o, u, i)
  BY <1>2 DEF InScope, InQueue, InWork, In, heap
<1>6. Made'
  <2>1. ASSUME NEW o \in Objects, NEW u \in Actors, NEW i \in Int, InWork(o, u, i)'
        PROVE  o \in made
    <3>1. InWork(o, u, i)
      BY <1>4, <1>5, <2>1
    <3> QED BY <3>1, MadeFacts DEF Housed
  <2> QED BY <2>1, <1>5, MadeFacts, MadeStays DEF Housed
<1>7. ASSUME NEW o \in made \ twice PROVE Home(o)'
  <2>1. Home(o) /\ o \in Objects
    BY <1>1 DEF Housed, Homed
  <2>2. \A i \in Int : ~Both(o, t, i)'
    <3>1. \A i : ~Both(o, t, i)
      BY <2>1, Elsewhere DEF Both, InWork, In
    <3> QED BY <1>4, <2>1, <3>1
  <2>3. QueueShifted(o) /\ WorkShifted(o, t)
    BY <1>4, <1>5, <2>1, SameShifted
  <2> QED BY <1>2, <1>5, <2>1, <2>2, <2>3, StaysTop
<1> QED BY <1>5, <1>6, <1>7 DEF Housed, Homed

\* A destructor is called: its object stays in the cleanup.
LEMMA HousedEnter ==
    ASSUME Typed, Typed', Housed, NEW t \in Actors, NEW o \in Objects, EnterDestructor(t, o)
    PROVE  Housed'
<1> DEFINE c == Cleanup(Head(work[t]).left \ {o}, o, "dtor")
<1>1. /\ work[t] # << >> /\ Head(work[t]).at = "next" /\ o \in Head(work[t]).left
      /\ PushScope(t) /\ work' = [work EXCEPT ![t] = <<c>> \o Tail(work[t])]
      /\ UNCHANGED <<queue, heap>>
  BY DEF EnterDestructor, Doing, Resume
<1>2. Head(work[t]) \in Cleanups /\ Head(work[t]).dying = NULL /\ NULL \notin Objects
  BY <1>1, WorkFacts, SammAssumption DEF Sound
<1>3. c \in Cleanups
  BY <1>2 DEF Cleanups, Cleanup
<1>4. \A x \in Objects : In(c, x) <=> In(Head(work[t]), x)
  BY <1>1, <1>2 DEF In, Cleanup
<1>5. \A x \in Objects : ~(x \in c.left /\ x = c.dying)
  BY DEF Cleanup
<1> HIDE DEF c
<1> QED BY <1>1, <1>3, <1>4, <1>5, PushHoused, HousedReplace DEF Housed

\* A batch goes to the background thread, or is cleaned up at once.
LEMMA HousedHandOver ==
    ASSUME Typed, Typed', Housed, NEW t \in Actors, HandOver(t)
    PROVE  Housed'
<1> DEFINE batch == Head(work[t]).left
           c == Cleanup(batch, NULL, "next")
<1>1. /\ work[t] # << >> /\ Head(work[t]).at = "hand"
      /\ UNCHANGED <<stack, heap>>
  BY DEF HandOver, Doing
<1>2. /\ Head(work[t]) \in Cleanups /\ Head(work[t]).dying = NULL /\ NULL \notin Objects
      /\ main # "aborted" /\ Head(work[t]) = work[t][1] /\ 1 \in DOMAIN work[t]
      /\ made \subseteq Objects
  BY <1>1, WorkFacts, SammAssumption DEF Sound, Typed, HeapTyped
<1>3. \A o \in Objects : In(Head(work[t]), o) <=> o \in batch
  BY <1>2 DEF In
<1>4. Closed'
  BY <1>1 DEF Housed, Closed, stack
<1>5. CASE ~(WorkerRunning /\ Len(queue) < QueueDepth)
  <2>1. c \in Cleanups
    BY <1>2 DEF Cleanups, Cleanup
  <2>2. \A o \in Objects : (In(c, o) <=> In(Head(work[t]), o)) /\ ~(o \in c.left /\ o = c.dying)
    BY <1>2 DEF In, Cleanup
  <2>3. queue' = queue /\ work' = [work EXCEPT ![t] = <<c>> \o Tail(work[t])]
    BY <1>5 DEF HandOver, Resume
  <2> HIDE DEF c
  <2> QED BY <1>1, <1>4, <2>1, <2>2, <2>3, HousedReplace DEF stack
<1>6. CASE WorkerRunning /\ Len(queue) < QueueDepth
  <2>1. queue' = Append(queue, batch) /\ work' = [work EXCEPT ![t] = Tail(work[t])]
    BY <1>6 DEF HandOver, Typed, WorkTyped
  <2>2. work'[t] = Tail(work[t]) /\ \A u \in Actors : u # t => work'[u] = work[u]
    BY <2>1 DEF Typed, WorkTyped
  <2>3. \A o \in Objects : \A i \in Int :
          /\ InWork(o, t, i)' <=> InWork(o, t, i + 1) /\ i # 0
          /\ Both(o, t, i)' => Both(o, t, i + 1)
    BY <1>1, <2>2, GoneWork
  <2>4. \A o \in Objects : InWork(o, t, 1) <=> o \in batch
    BY <1>2, <1>3 DEF InWork
  <2> DEFINE l == Len(queue) + 1
  <2>5. /\ DOMAIN queue = 1 .. l - 1 /\ DOMAIN queue' = 1 .. l /\ queue'[l] = batch /\ l \in Nat
        /\ l \in DOMAIN queue' /\ \A i \in DOMAIN queue : queue'[i] = queue[i]
    <3>1. queue \in Seq(SUBSET Objects) /\ batch \in SUBSET Objects
      BY <1>2 DEF Typed, QueueTyped, Cleanups
    <3> HIDE DEF batch
    <3> QED BY <2>1, <3>1
  <2> HIDE DEF l, batch
  <2>6. \A o : \A i : InQueue(o, i)' <=> InQueue(o, i) \/ (i = l /\ o \in batch)
    BY <2>5 DEF InQueue
  <2>7. /\ \A o : \A d \in Levels : InScope(o, d)' <=> InScope(o, d)
        /\ freed' = freed /\ made' = made /\ twice' = twice
        /\ \A o : \A u \in Actors : u # t => \A i : InWork(o, u, i)' <=> InWork(o, u, i)
    BY <1>1, <2>2 DEF InScope, InWork, In, stack, heap
  <2>8. Made'
    <3>1. ASSUME NEW o \in Objects, NEW u \in Actors, NEW i \in Int, InWork(o, u, i)'
          PROVE  o \in made
      <4>1. \E j : InWork(o, u, j)
        BY <2>3, <2>7, <3>1
      <4> QED BY <4>1, MadeFacts DEF Housed
    <3>2. ASSUME NEW o \in Objects, NEW i \in Int, InQueue(o, i)' PROVE o \in made
      <4>1. InQueue(o, i) \/ InWork(o, t, 1)
        BY <2>4, <2>6, <3>2
      <4> QED BY <4>1, MadeFacts DEF Housed
    <3> QED BY <2>7, <3>1, <3>2, MadeFacts, MadeStays DEF Housed
  <2>9. ASSUME NEW o \in made \ twice PROVE Home(o)'
    <3>1. Home(o) /\ o \in Objects
      BY <1>2 DEF Housed, Homed
    <3>2. CASE o \in batch
      <4>1. InWork(o, t, 1)
        BY <2>4, <3>1, <3>2
      <4>2. \A u \in Actors : \A i : ~InWork(o, u, i)'
        <5>1. \A u \in Actors : \A i : InWork(o, u, i) => u = t /\ i = 1
          BY <3>1, <4>1, Elsewhere
        <5>2. \A i \in Int : ~InWork(o, t, i)'
          <6>1. \A i \in Int : i # 0 => i + 1 # 1
            OBVIOUS
          <6> QED BY <2>3, <3>1, <5>1, <6>1
        <5> QED BY <2>7, <5>1, <5>2, PlacesInt
      <4>3. (\A d \in Levels : ~InScope(o, d)') /\ o \notin freed'
            /\ \A i : InQueue(o, i)' <=> i = l
        BY <2>6, <2>7, <3>1, <3>2, <4>1, Elsewhere
      <4> QED BY <2>5, <4>2, <4>3, OnlyQueue
    <3>3. CASE o \notin batch
      <4>1. \A i \in Int : InWork(o, t, i)' <=> InWork(o, t, i + 1)
        <5>1. \A i \in Int : i = 0 => i + 1 = 1
          OBVIOUS
        <5> QED BY <2>3, <2>4, <3>1, <3>3, <5>1
      <4>2. \A i \in Int : ~Both(o, t, i)'
        <5>1. \A i : ~Both(o, t, i)
          BY <3>1, Elsewhere DEF Both, InWork, In
        <5> QED BY <2>3, <3>1, <5>1
      <4>3. QueueShifted(o)
        BY <2>6, <3>3, SameShifted
      <4>4. WorkShifted(o, t)
        BY <4>1, NextShifted
      <4>5. (o \in freed' <=> o \in freed) /\ \A d \in Levels : InScope(o, d)' <=> InScope(o, d)
        BY <2>7
      <4> QED BY <2>2, <3>1, <4>2, <4>3, <4>4, <4>5, StaysTop
    <3> QED BY <3>2, <3>3
  <2> QED BY <1>4, <2>7, <2>8, <2>9 DEF Housed, Homed
<1> QED BY <1>5, <1>6

\* A cleanup that began is a shift by one the other way.
LEMMA PrevShifted ==
    ASSUME NEW o, NEW t, \A i \in Int : InWork(o, t, i)' <=> InWork(o, t, i - 1)
    PROVE  WorkShifted(o, t)
<1>1. -1 \in Int /\ \A i \in Int : i - 1 = i + -1
  OBVIOUS
<1>2. \A i \in Int : InWork(o, t, i)' <=> InWork(o, t, i + -1)
  BY <1>1, Zenon
<1> QED BY <1>1, <1>2, Zenon DEF WorkShifted

\* A destructor returns: what it left in its scope becomes a batch on top of
\* the cleanup it was called from.
LEMMA HousedExit ==
    ASSUME Typed, Typed', Housed, NEW t \in Actors, ExitDestructor(t)
    PROVE  Housed'
<1> DEFINE c == [Head(work[t]) EXCEPT !.at = "free"]
           d == Cleanup(Detached, NULL, "hand")
<1>1. work[t] # << >> /\ PopScope(t) /\ UNCHANGED <<queue, threads, heap>>
  BY DEF ExitDestructor, InDestructor, Doing
<1>2. /\ Head(work[t]) \in Cleanups /\ Head(work[t]) = work[t][1] /\ 1 \in DOMAIN work[t]
      /\ main # "aborted" /\ made \subseteq Objects /\ NULL \notin Objects
  BY <1>1, WorkFacts, SammAssumption DEF Typed, HeapTyped
<1>3. /\ c \in Cleanups /\ c.left = Head(work[t]).left /\ c.dying = Head(work[t]).dying
  BY <1>2 DEF Cleanups
<1>4. /\ Closed' /\ depth \in Levels
      /\ \A o : \A e \in Levels : InScope(o, e)' <=> InScope(o, e) /\ ~(depth > 0 /\ e = depth)
      /\ \A o : o \in Detached <=> depth > 0 /\ InScope(o, depth)
  BY <1>1, PopHoused DEF Housed
<1>5. Detached \subseteq Objects
  BY <1>4 DEF Detached, Typed, StackTyped
<1>6. \A o \in Objects : Home(o) => ~Both(o, t, 1)
  BY Elsewhere DEF Both, InWork, In
<1>7. CASE Detached = {}
  <2>1. work' = [work EXCEPT ![t] = <<c>> \o Tail(work[t])]
    BY <1>7 DEF ExitDestructor, Resume
  <2>2. scope' = scope
    <3>1. scope \in [Levels -> SUBSET Objects]
      BY DEF Typed, StackTyped
    <3> QED BY <1>1, <1>4, <1>7, <3>1 DEF PopScope, Detached, stack
  <2>3. \A o \in Objects : In(c, o) <=> In(Head(work[t]), o)
    BY <1>3 DEF In
  <2>4. \A o \in Objects : Home(o) => ~(o \in c.left /\ o = c.dying)
    BY <1>2, <1>3, <1>6 DEF Both
  <2> HIDE DEF c
  <2> QED BY <1>1, <1>3, <1>4, <2>1, <2>2, <2>3, <2>4, HousedReplace
<1>8. CASE Detached # {}
  <2>1. work' = [work EXCEPT ![t] = <<d>> \o (<<c>> \o Tail(work[t]))]
    BY <1>8 DEF ExitDestructor, Resume
  <2>2. /\ work'[t] = <<d>> \o (<<c>> \o Tail(work[t]))
        /\ \A u \in Actors : u # t => work'[u] = work[u]
    BY <2>1 DEF Typed, WorkTyped
  <2>3. d \in Cleanups /\ \A o \in Objects : /\ In(d, o) <=> o \in Detached
                                             /\ ~(o \in d.left /\ o = d.dying)
    BY <1>2, <1>5 DEF Cleanups, Cleanup, In
  <2>4. \A o \in Objects : /\ In(c, o) <=> InWork(o, t, 1)
                           /\ o \in c.left /\ o = c.dying <=> Both(o, t, 1)
    BY <1>2, <1>3 DEF In, InWork, Both
  <2> HIDE DEF c, d
  <2>5. \A o \in Objects : \A i \in Int :
          /\ InWork(o, t, i)' <=> IF i = 1 THEN In(d, o) ELSE IF i = 2 THEN In(c, o)
                                  ELSE InWork(o, t, i - 1)
          /\ Both(o, t, i)' => IF i = 1 THEN o \in d.left /\ o = d.dying
                               ELSE IF i = 2 THEN o \in c.left /\ o = c.dying
                               ELSE Both(o, t, i - 1)
    BY <1>1, <1>3, <2>2, <2>3, OntoWork
  <2>6. /\ \A o, i : InQueue(o, i)' <=> InQueue(o, i)
        /\ freed' = freed /\ made' = made /\ twice' = twice
        /\ \A o : \A u \in Actors : u # t => \A i : InWork(o, u, i)' <=> InWork(o, u, i)
    BY <1>1, <2>2 DEF InQueue, InWork, In, heap
  <2>7. Made'
    <3>1. ASSUME NEW o \in Objects, NEW u \in Actors, NEW i \in Int, InWork(o, u, i)'
          PROVE  o \in made
      <4>1. (\E j : InWork(o, u, j)) \/ o \in Detached
        BY <2>3, <2>4, <2>5, <2>6, <3>1
      <4> QED BY <1>4, <4>1, MadeFacts DEF Housed
    <3> QED BY <1>4, <2>6, <3>1, MadeFacts, MadeStays DEF Housed
  <2>8. ASSUME NEW o \in made \ twice PROVE Home(o)'
    <3>1. Home(o) /\ o \in Objects
      BY <1>2 DEF Housed, Homed
    <3>2. CASE o \in Detached
      <4>1. depth > 0 /\ InScope(o, depth)
        BY <1>4, <3>2
      <4>2. (\A e \in Levels : ~InScope(o, e)') /\ o \notin freed' /\ \A i : ~InQueue(o, i)'
        BY <1>4, <2>6, <3>1, <4>1, Elsewhere
      <4>3. \A u \in Actors : \A i : ~InWork(o, u, i)
        BY <1>4, <3>1, <4>1, Elsewhere
      <4>4. \A i \in Int : InWork(o, t, i)' <=> i = 1
        BY <2>3, <2>4, <2>5, <3>1, <3>2, <4>3
      <4>5. \A u \in Actors : \A i : InWork(o, u, i)' <=> u = t /\ i = 1
        BY <2>6, <4>3, <4>4, PlacesInt, 1 \in Int
      <4>6. 1 \in DOMAIN work'[t] /\ ~(o \in work'[t][1].left /\ o = work'[t][1].dying)
        <5>1. InWork(o, t, 1)' /\ ~Both(o, t, 1)'
          BY <2>3, <2>5, <3>1, <4>4, 1 \in Int
        <5> QED BY <5>1 DEF InWork, Both
      <4> QED BY <4>2, <4>5, <4>6, OnlyWork
    <3>3. CASE o \notin Detached
      <4>1. \A i \in Int : InWork(o, t, i)' <=> InWork(o, t, i - 1)
        <5>1. ~InWork(o, t, 0)
          <6>1. DOMAIN work[t] = 1 .. Len(work[t])
            BY <1>1, WorkFacts, TopFacts
          <6> QED BY <6>1 DEF InWork
        <5>2. \A i \in Int : (i = 1 => i - 1 = 0) /\ (i = 2 => i - 1 = 1)
          OBVIOUS
        <5> QED BY <2>3, <2>4, <2>5, <3>1, <3>3, <5>1, <5>2
      <4>2. \A i \in Int : ~Both(o, t, i)'
        <5>1. \A i : ~Both(o, t, i)
          BY <3>1, Elsewhere DEF Both, InWork, In
        <5> QED BY <2>3, <2>4, <2>5, <3>1, <5>1
      <4>3. QueueShifted(o) /\ WorkShifted(o, t)
        BY <2>6, <4>1, SameShifted, PrevShifted
      <4>4. (o \in freed' <=> o \in freed) /\ \A e \in Levels : InScope(o, e)' <=> InScope(o, e)
        BY <1>4, <2>6, <3>3
      <4> QED BY <2>2, <3>1, <4>2, <4>3, <4>4, StaysTop
    <3> QED BY <3>2, <3>3
  <2> QED BY <1>4, <2>6, <2>7, <2>8 DEF Housed, Homed
<1> QED BY <1>7, <1>8

\* A thread takes the oldest batch of the queue.
LEMMA HousedTake ==
    ASSUME Typed, Typed', Housed, NEW t \in Actors, TakeBatch(t), main # "aborted"
    PROVE  Housed'
<1> DEFINE S == Head(queue)
           c == Cleanup(S, NULL, "next")
<1>1. /\ work[t] = << >> /\ queue # << >> /\ queue' = Tail(queue)
      /\ work' = [work EXCEPT ![t] = <<c>>] /\ UNCHANGED <<stack, heap>>
  BY DEF TakeBatch
<1>2. /\ queue \in Seq(SUBSET Objects) /\ made \subseteq Objects /\ NULL \notin Objects
      /\ work \in [Actors -> Seq(Cleanups)]
  BY SammAssumption DEF Typed, QueueTyped, HeapTyped, WorkTyped
<1>3. /\ S \subseteq Objects /\ S = queue[1] /\ 1 \in DOMAIN queue
      /\ DOMAIN queue = 1 .. Len(queue) /\ DOMAIN queue' = 1 .. Len(queue) - 1
      /\ Len(queue) \in Nat /\ \A i \in DOMAIN queue' : queue'[i] = queue[i + 1]
  BY <1>1, <1>2
<1>4. \A o \in Objects : (In(c, o) <=> o \in S) /\ ~(o \in c.left /\ o = c.dying)
  BY <1>2 DEF In, Cleanup
<1> HIDE DEF S, c
<1>5. /\ \A u \in Actors : u # t => work'[u] = work[u]
      /\ DOMAIN work'[t] = {1} /\ work'[t][1] = c /\ DOMAIN work[t] = {}
  BY <1>1, <1>2
<1>6. \A o \in Objects : \A u \in Actors : \A i :
        InWork(o, u, i)' <=> InWork(o, u, i) \/ (o \in S /\ u = t /\ i = 1)
  <2> SUFFICES ASSUME NEW o \in Objects, NEW u \in Actors, NEW i
               PROVE  InWork(o, u, i)' <=> InWork(o, u, i) \/ (o \in S /\ u = t /\ i = 1)
    OBVIOUS
  <2>1. CASE u # t
    BY <1>5, <2>1 DEF InWork
  <2>2. CASE u = t
    <3>1. ~InWork(o, u, i)
      BY <1>5, <2>2 DEF InWork
    <3>2. InWork(o, u, i)' <=> i \in DOMAIN work'[u] /\ In(work'[u][i], o)
      BY DEF InWork, In
    <3> QED BY <1>4, <1>5, <2>2, <3>1, <3>2
  <2> QED BY <2>1, <2>2
<1>7. \A o : \A i \in Int : InQueue(o, i)' <=> InQueue(o, i + 1) /\ i # 0
  BY <1>3 DEF InQueue
<1>8. \A o : o \in S <=> InQueue(o, 1)
  BY <1>3 DEF InQueue
<1>9. /\ \A o : \A d \in Levels : InScope(o, d)' <=> InScope(o, d)
      /\ freed' = freed /\ made' = made /\ twice' = twice
  BY <1>1 DEF InScope, stack, heap
<1>10. Made'
  <2>1. ASSUME NEW o \in Objects, NEW u \in Actors, NEW i \in Int, InWork(o, u, i)'
        PROVE  o \in made
    <3>1. InWork(o, u, i) \/ InQueue(o, 1)
      BY <1>6, <1>8, <2>1
    <3> QED BY <3>1, MadeFacts DEF Housed
  <2>2. ASSUME NEW o \in Objects, NEW i \in Int, InQueue(o, i)' PROVE o \in made
    BY <1>7, <2>2, MadeFacts DEF Housed
  <2> QED BY <1>9, <2>1, <2>2, MadeFacts, MadeStays DEF Housed
<1>11. ASSUME NEW o \in made \ twice PROVE Home(o)'
  <2>1. Home(o) /\ o \in Objects
    BY <1>2 DEF Housed, Homed
  <2>2. CASE o \in S
    <3>1. InQueue(o, 1)
      BY <1>8, <2>2
    <3>2. (\A d \in Levels : ~InScope(o, d)') /\ o \notin freed'
      BY <1>9, <2>1, <3>1, Elsewhere
    <3>3. \A i : ~InQueue(o, i)'
      <4>1. \A i \in Int : i # 0 => i + 1 # 1
        OBVIOUS
      <4>2. \A i \in Int : ~InQueue(o, i)'
        BY <1>7, <2>1, <3>1, <4>1, Elsewhere
      <4> QED BY <4>2, PlacesInt
    <3>4. \A u \in Actors : \A i : InWork(o, u, i)' <=> u = t /\ i = 1
      BY <1>6, <2>1, <2>2, <3>1, Elsewhere
    <3>5. 1 \in DOMAIN work'[t] /\ ~(o \in work'[t][1].left /\ o = work'[t][1].dying)
      BY <1>4, <1>5, <2>1
    <3> QED BY <3>2, <3>3, <3>4, <3>5, OnlyWork
  <2>3. CASE o \notin S
    <3>1. \A u \in Actors : \A i : InWork(o, u, i)' <=> InWork(o, u, i)
      BY <1>6, <2>1, <2>3
    <3>2. WorkShifted(o, t)
      BY <3>1, SameShifted
    <3>3. \A i \in Int : InQueue(o, i)' <=> InQueue(o, i + 1)
      <4>1. \A i \in Int : i = 0 => i + 1 = 1
        OBVIOUS
      <4> QED BY <1>7, <1>8, <2>3, <4>1
    <3>4. QueueShifted(o)
      BY <3>3, NextShifted
    <3>5. \A i \in Int : ~Both(o, t, i)'
      <4>1. ~(o \in c.left /\ o = c.dying)
        BY <1>4, <2>1
      <4> QED BY <1>5, <4>1 DEF Both
    <3> QED BY <1>5, <1>9, <2>1, <3>2, <3>4, <3>5, StaysTop
  <2> QED BY <2>2, <2>3
<1>12. Closed'
  BY <1>1 DEF Housed, Closed, stack
<1> QED BY <1>9, <1>10, <1>11, <1>12 DEF Housed, Homed

-----------------------------------------------------------------------------
\* A step that moves one object at most, in or out of a scope.
LEMMA HousedOne ==
    ASSUME Typed, Typed', Housed, NEW o \in Objects, Closed', UNCHANGED <<queue, work>>,
           main' # "aborted" => main # "aborted",
           \A x : x # o => /\ \A d \in Levels : InScope(x, d)' <=> InScope(x, d)
                           /\ (x \in freed' <=> x \in freed) /\ (x \in made' <=> x \in made)
                           /\ x \in twice' <=> x \in twice,
           o \in made', (Home(o) \/ o \notin made) /\ o \notin twice' => Home(o)',
           o \in twice => o \in twice'
    PROVE  Housed'
<1>1. \A x : /\ \A i : InQueue(x, i)' <=> InQueue(x, i)
             /\ \A t, i : InWork(x, t, i)' <=> InWork(x, t, i)
  BY DEF InQueue, InWork, In
<1>2. made \subseteq made' /\ made \subseteq Objects
  BY DEF Typed, HeapTyped
<1>3. Made'
  <2>1. \A x \in Objects : x \in freed' => x \in made'
    BY MadeFacts DEF Housed
  <2>2. \A x \in Objects : \A d \in Levels : InScope(x, d)' => x \in made'
    BY MadeFacts DEF Housed
  <2>3. \A x \in Objects : \A i \in Int : InQueue(x, i)' => x \in made'
    BY <1>1, <1>2, MadeFacts DEF Housed
  <2>4. \A x \in Objects : \A t \in Actors : \A i \in Int : InWork(x, t, i)' => x \in made'
    BY <1>1, <1>2, MadeFacts DEF Housed
  <2> QED BY <1>2, <2>1, <2>2, <2>3, <2>4, MadeStays DEF Housed
<1>4. ASSUME main' # "aborted", NEW x \in made' \ twice' PROVE Home(x)'
  <2>1. CASE x = o
    BY <1>4, <2>1 DEF Housed, Homed
  <2>2. CASE x # o
    <3>1. Home(x) /\ x \in Objects
      BY <1>2, <1>4, <2>2 DEF Housed, Homed
    <3>2. (x \in freed' <=> x \in freed) /\ \A d \in Levels : InScope(x, d)' <=> InScope(x, d)
      BY <2>2
    <3>3. QueueShifted(x) /\ WorkShifted(x, "main")
      BY <1>1, SameShifted
    <3>4. \A i \in Int : ~Both(x, "main", i)'
      <4>1. \A i : ~Both(x, "main", i)
        BY <3>1, Elsewhere DEF Both, InWork, In, Actors
      <4> QED BY <4>1 DEF Both
    <3>5. "main" \in Actors
      BY DEF Actors
    <3> QED BY <3>1, <3>2, <3>3, <3>4, <3>5, StaysTop
  <2> QED BY <2>1, <2>2
<1> QED BY <1>3, <1>4 DEF Housed, Homed

\* A new object is tracked in the current scope.
LEMMA HousedAlloc ==
    ASSUME Typed, Typed', Housed, NEW t \in Actors, NEW o \in Objects, Alloc(t, o)
    PROVE  Housed'
<1>1. /\ o \notin made /\ made' = made \cup {o} /\ scope' = [scope EXCEPT ![depth] = @ \cup {o}]
      /\ UNCHANGED <<depth, queue, threads, work, freed, twice>>
  BY DEF Alloc
<1>2. depth \in Levels /\ depth \in Nat /\ scope \in [Levels -> SUBSET Objects]
      /\ \A d \in Levels : d > depth => d # depth
  BY SammAssumption DEF Typed, StackTyped, Levels
<1>3. \A x : \A d \in Levels : InScope(x, d)' <=> InScope(x, d) \/ (x = o /\ d = depth)
  BY <1>1, <1>2 DEF InScope
<1>4. Closed'
  BY <1>1, <1>2 DEF Housed, Closed
<1>5. Home(o)'
  <2>1. (\A d \in Levels : InScope(o, d)' <=> d = depth) /\ o \notin freed'
    BY <1>1, <1>3, Nowhere DEF Housed
  <2>2. (\A i : ~InQueue(o, i)') /\ \A u \in Actors : \A i : ~InWork(o, u, i)'
    <3>1. (\A i : ~InQueue(o, i)) /\ \A u \in Actors : \A i : ~InWork(o, u, i)
      BY <1>1, Nowhere DEF Housed
    <3> QED BY <1>1, <3>1 DEF InQueue, InWork, In
  <2> QED BY <1>2, <2>1, <2>2, OnlyScope
<1>6. \A x : x # o => (x \in made' <=> x \in made)
  BY <1>1
<1> QED BY <1>1, <1>3, <1>4, <1>5, <1>6, HousedOne DEF threads

\* samm_retain moves an object from the current scope to its parent.
LEMMA HousedRetain ==
    ASSUME Typed, Typed', Housed, NEW o \in Objects, Retain(o)
    PROVE  Housed'
<1>1. main # "aborted" /\ UNCHANGED <<depth, queue, work, heap>>
  BY DEF Retain, InProgram
<1>2. depth \in Levels /\ scope \in [Levels -> SUBSET Objects] /\ depth \in Nat
  BY SammAssumption DEF Typed, StackTyped, Levels
<1>3. CASE ~Tracked(o)
  <2>1. scope' = scope
    BY <1>3 DEF Retain
  <2> QED BY <1>1, <2>1, HousedSame DEF Housed, Closed
<1>4. CASE Tracked(o)
  <2> DEFINE target == IF At(o) = 0 THEN 0 ELSE At(o) - 1
  <2>1. At(o) \in 0 .. depth /\ At(o) \in Levels /\ InScope(o, At(o))
    BY <1>4, AtFacts DEF InScope
  <2>2. target \in Levels /\ target <= depth
    <3> HIDE DEF At
    <3> QED BY <1>2, <2>1, SammAssumption DEF Levels
  <2>3. scope' = [d \in Levels |-> IF d = target THEN scope[d] \cup {o} ELSE scope[d] \ {o}]
    BY <1>4 DEF Retain
  <2> HIDE DEF target
  <2>4. \A x : \A d \in Levels : InScope(x, d)' <=> IF x = o THEN d = target ELSE InScope(x, d)
    BY <2>3 DEF InScope
  <2>5. Closed'
    <3>1. \A d \in Levels : d > depth => d # target
      BY <1>2, <2>2 DEF Levels
    <3> QED BY <1>1, <2>3, <3>1 DEF Housed, Closed
  <2>6. o \in made
    BY <2>1, MadeFacts DEF Housed
  <2>7. ASSUME Home(o) PROVE Home(o)'
    <3>1. o \notin freed' /\ \A d \in Levels : InScope(o, d)' <=> d = target
      BY <1>1, <2>1, <2>4, <2>7, Elsewhere DEF heap
    <3>2. (\A i : ~InQueue(o, i)') /\ \A u \in Actors : \A i : ~InWork(o, u, i)'
      <4>1. (\A i : ~InQueue(o, i)) /\ \A u \in Actors : \A i : ~InWork(o, u, i)
        BY <2>1, <2>7, Elsewhere
      <4> QED BY <1>1, <4>1 DEF InQueue, InWork, In
    <3> QED BY <2>2, <3>1, <3>2, OnlyScope
  <2>8. /\ \A x : x # o => \A d \in Levels : InScope(x, d)' <=> InScope(x, d)
        /\ freed' = freed /\ made' = made /\ twice' = twice
    BY <1>1, <2>4 DEF heap
  <2> QED BY <1>1, <2>5, <2>6, <2>7, <2>8, HousedOne
<1> QED BY <1>3, <1>4

\* Every object that the program knows has been allocated.
Born == \A o \in Objects : frame[o] # NULL => o \in made

\* An early release takes the object out of its scope.
LEMMA HousedDrop ==
    ASSUME Typed, Typed', Housed, Born, NEW o \in Objects, Drop(o)
    PROVE  Housed'
<1>1. /\ UNCHANGED <<depth, queue, threads, work, made>> /\ freed' = freed \cup {o}
      /\ o \in made
  BY DEF Drop, Born, Known
<1>2. depth \in Levels /\ scope \in [Levels -> SUBSET Objects]
  BY DEF Typed, StackTyped
<1>3. CASE ~Tracked(o)
  <2>1. scope' = scope /\ twice' = twice \cup {o}
    BY <1>3 DEF Drop
  <2>2. Closed'
    BY <1>1, <2>1 DEF Housed, Closed
  <2>3. \A x : /\ x # o => (x \in freed' <=> x \in freed) /\ (x \in twice' <=> x \in twice)
               /\ \A d \in Levels : InScope(x, d)' <=> InScope(x, d)
    BY <1>1, <2>1 DEF InScope
  <2> QED BY <1>1, <2>1, <2>2, <2>3, HousedOne DEF threads
<1>4. CASE Tracked(o)
  <2>1. At(o) \in Levels /\ InScope(o, At(o))
    BY <1>4, AtFacts DEF InScope
  <2>2. scope' = [scope EXCEPT ![At(o)] = @ \ {o}] /\ twice' = twice
    BY <1>4 DEF Drop
  <2>3. \A x : \A d \in Levels : InScope(x, d)' <=> InScope(x, d) /\ ~(x = o /\ d = At(o))
    BY <1>2, <2>1, <2>2 DEF InScope
  <2>4. Closed'
    BY <1>1, <1>2, <2>2 DEF Housed, Closed
  <2>5. ASSUME Home(o) PROVE Home(o)'
    <3>1. o \in freed' /\ \A d \in Levels : ~InScope(o, d)'
      BY <1>1, <2>1, <2>3, <2>5, Elsewhere
    <3>2. (\A i : ~InQueue(o, i)') /\ \A u \in Actors : \A i : ~InWork(o, u, i)'
      <4>1. (\A i : ~InQueue(o, i)) /\ \A u \in Actors : \A i : ~InWork(o, u, i)
        BY <2>1, <2>5, Elsewhere
      <4> QED BY <1>1, <4>1 DEF InQueue, InWork, In
    <3> QED BY <3>1, <3>2, OnlyFreed
  <2>6. \A x : x # o => x \in freed' <=> x \in freed
    BY <1>1
  <2> QED BY <1>1, <2>2, <2>3, <2>4, <2>5, <2>6, HousedOne DEF threads
<1> QED BY <1>3, <1>4

\* A step that puts an object in a frame is its allocation, or finds it in one.
LEMMA BornStep == Typed /\ Born /\ [Next]_vars => Born'
<1> SUFFICES ASSUME Typed, Born, [Next]_vars PROVE Born'
  OBVIOUS
<1>1. CASE UNCHANGED <<frame, made>>
  BY <1>1 DEF Born
<1>2. ASSUME NEW t \in Actors, EndFrame(t), made' = made PROVE Born'
  BY <1>2 DEF Born, EndFrame
<1>3. CASE Call \/ CallTooDeep \/ End \/ Cleaner \/ CleanerWakes \/ ShuttingDown
  <2>1. UNCHANGED <<frame, made>>
    BY <1>3 DEF Call, CallTooDeep, End, Cleaner, CleanerWakes, ShuttingDown, Abort, Join,
       Drain, SweepScope, TakeBatch, CleanerTakes, CleanerSleeps, CleanerStops, calls, heap
  <2> QED BY <1>1, <2>1
<1>4. CASE Leave \/ ReturnEarly
  BY <1>2, <1>4 DEF Leave, ReturnEarly, heap, Actors
<1>5. ASSUME NEW o \in Objects, Retain(o) \/ Drop(o) PROVE Born'
  <2>1. frame \in [Objects -> (Actors \X Nat) \cup {NULL}] /\ made' = made /\ Known(o)
    BY <1>5 DEF Typed, FrameTyped, Retain, Drop, heap
  <2>2. \A x \in Objects : x # o => frame'[x] = frame[x]
    BY <1>5, <2>1 DEF Retain, Drop
  <2> QED BY <2>1, <2>2 DEF Born, Known
<1>6. ASSUME NEW t \in Actors, Clean(t) PROVE Born'
  <2>1. CASE ExitDestructor(t)
    BY <1>2, <2>1 DEF ExitDestructor, heap
  <2>2. CASE HandOver(t) \/ FreeDead(t) \/ DestructorTooDeep(t)
    <3>1. UNCHANGED <<frame, made>>
      BY <2>2 DEF HandOver, FreeDead, DestructorTooDeep, Abort, Release, calls, heap
    <3> QED BY <1>1, <3>1
  <2>3. ASSUME NEW o \in Objects, CleanPlain(t, o) \/ EnterDestructor(t, o) PROVE Born'
    <3>1. UNCHANGED <<frame, made>>
      BY <2>3 DEF CleanPlain, EnterDestructor, Release, calls, heap
    <3> QED BY <1>1, <3>1
  <2> QED BY <1>6, <2>1, <2>2, <2>3 DEF Clean
<1>7. ASSUME NEW t \in Actors, NEW o \in Objects, Alloc(t, o) PROVE Born'
  BY <1>7 DEF Alloc, Born
<1>8. CASE UNCHANGED vars
  BY <1>1, <1>8 DEF vars, calls, heap
<1> QED BY <1>3, <1>4, <1>5, <1>6, <1>7, <1>8 DEF Next, Program

\* Every step leaves every object exactly one home.
LEMMA HousedStep == Typed /\ Typed' /\ Born /\ Housed /\ [Next]_vars => Housed'
<1> SUFFICES ASSUME Typed, Typed', Born, Housed, [Next]_vars PROVE Housed'
  OBVIOUS
<1>1. Closed /\ NULL \notin Objects /\ "main" \in Actors /\ "cleaner" \in Actors
  BY SammAssumption DEF Housed, Actors
<1>2. ASSUME UNCHANGED <<depth, scope, queue, work, heap>>,
             main' # "aborted" => main # "aborted"
      PROVE  Housed'
  <2>1. Closed'
    BY <1>1, <1>2 DEF Closed
  <2> QED BY <1>2, <2>1, HousedSame
<1>3. CASE Call
  BY <1>1, <1>3, PushHoused, HousedSame DEF Call, threads
<1>4. ASSUME Abort PROVE Housed'
  <2>1. main' = "aborted" /\ \A t \in Actors : work'[t] = << >>
    BY <1>4 DEF Abort
  <2>2. \A o : \A t \in Actors : \A i : ~InWork(o, t, i)'
    BY <2>1 DEF InWork
  <2>3. UNCHANGED <<depth, scope, queue, heap>>
    BY <1>4 DEF Abort, stack
  <2>4. Made'
    <3>1. /\ \A o : \A d \in Levels : InScope(o, d)' <=> InScope(o, d)
          /\ \A o, i : InQueue(o, i)' <=> InQueue(o, i)
          /\ freed' = freed /\ made' = made
      BY <2>3 DEF InScope, InQueue, heap
    <3> QED BY <2>2, <3>1, MadeFacts, MadeStays DEF Housed
  <2>5. Closed'
    BY <1>1, <2>3 DEF Closed
  <2> QED BY <2>1, <2>4, <2>5 DEF Housed, Homed
<1>5. CASE CallTooDeep
  BY <1>4, <1>5 DEF CallTooDeep
<1>6. CASE Leave
  <2>1. PopScope("main") /\ main # "aborted" /\ work["main"] = << >> /\ UNCHANGED <<queue, heap>>
    BY <1>6 DEF Leave
  <2>2. /\ Closed' /\ depth \in Levels
        /\ \A o : \A d \in Levels : InScope(o, d)' <=> InScope(o, d) /\ ~(depth > 0 /\ d = depth)
        /\ \A o : o \in Detached <=> depth > 0 /\ InScope(o, depth)
    BY <1>1, <2>1, PopHoused
  <2>3. work' = IF Detached = {} THEN work
                ELSE [work EXCEPT !["main"] = <<Cleanup(Detached, NULL, "hand")>>]
    BY <1>6 DEF Leave
  <2> DEFINE S == Detached
             c == Cleanup(S, NULL, "hand")
  <2>4. S = scope[depth] \/ S = {}
    BY DEF Detached
  <2>5. \A o : \A d \in Levels : InScope(o, d)' <=> InScope(o, d) /\ ~(o \in S /\ d = depth)
    BY <2>2
  <2>6. work' = IF S = {} THEN work ELSE [work EXCEPT !["main"] = <<c>>]
    BY <2>3
  <2>7. c.left = S /\ c.dying = NULL
    BY DEF Cleanup
  <2> HIDE DEF S, c
  <2>8. Typed /\ Typed' /\ Housed /\ "main" \in Actors
    BY <1>1 DEF Actors
  <2>9. S = scope[depth] \/ S = {}
    BY <2>4
  <2>10. Closed' /\ depth \in Levels /\ UNCHANGED <<queue, heap>>
         /\ work["main"] = << >> /\ main # "aborted"
    BY <2>1, <2>2
  <2> QED BY <2>5, <2>6, <2>7, <2>8, <2>9, <2>10, ScopeToWork
<1>7. CASE ReturnEarly
  BY <1>2, <1>7 DEF ReturnEarly, stack, threads
<1>8. CASE End
  BY <1>2, <1>8 DEF End, InProgram, stack
<1>9. ASSUME NEW o \in Objects, Retain(o) \/ Drop(o) PROVE Housed'
  BY <1>9, HousedRetain, HousedDrop
<1>10. CASE CleanerSleeps \/ CleanerStops \/ CleanerWakes \/ Join
  BY <1>2, <1>10 DEF CleanerSleeps, CleanerStops, CleanerWakes, Join, stack
<1>11. CASE CleanerTakes
  <2>1. main # "aborted"
    BY <1>11 DEF CleanerTakes, Typed, ThreadsTyped
  <2> QED BY <1>1, <1>11, <2>1, HousedTake DEF CleanerTakes
<1>12. CASE Drain
  <2>1. CASE queue # << >>
    BY <1>1, <1>12, <2>1, HousedTake DEF Drain
  <2>2. CASE queue = << >>
    BY <1>2, <1>12, <2>2 DEF Drain, stack
  <2> QED BY <2>1, <2>2
<1>13. CASE SweepScope
  <2>1. main # "aborted" /\ work["main"] = << >> /\ UNCHANGED <<depth, queue, heap>>
    BY <1>13 DEF SweepScope
  <2>2. CASE ~(sweep >= 0)
    BY <1>2, <1>13, <2>1, <2>2 DEF SweepScope
  <2>3. CASE sweep >= 0
    <3>1. /\ sweep \in Levels /\ scope \in [Levels -> SUBSET Objects]
          /\ work \in [Actors -> Seq(Cleanups)]
      BY <2>3, SammAssumption DEF Typed, ThreadsTyped, StackTyped, WorkTyped, Levels
    <3>2. scope' = [scope EXCEPT ![sweep] = {}]
      BY <1>13, <2>3 DEF SweepScope
    <3> DEFINE S == scope[sweep]
               c == Cleanup(S, NULL, "next")
    <3>3. work' = IF S = {} THEN work ELSE [work EXCEPT !["main"] = <<c>>]
      BY <1>13, <2>3 DEF SweepScope
    <3>4. Closed'
      BY <1>1, <2>1, <3>1, <3>2 DEF Closed
    <3>5. \A o : \A d \in Levels : InScope(o, d)' <=> InScope(o, d) /\ ~(o \in S /\ d = sweep)
      BY <3>1, <3>2 DEF InScope
    <3>6. c.left = S /\ c.dying = NULL /\ (S = scope[sweep] \/ S = {})
      BY DEF Cleanup
    <3> HIDE DEF S, c
    <3> QED BY <1>1, <2>1, <3>1, <3>3, <3>4, <3>5, <3>6, ScopeToWork
  <2> QED BY <2>2, <2>3
<1>14. ASSUME NEW t \in Actors, DestructorTooDeep(t) PROVE Housed'
  BY <1>4, <1>14 DEF DestructorTooDeep
<1>15. ASSUME NEW t \in Actors, FreeDead(t) PROVE Housed'
  <2>1. /\ work[t] # << >> /\ Head(work[t]).at = "free"
        /\ work' = [work EXCEPT ![t] = After(t, Head(work[t]).left)]
        /\ Release(Head(work[t]).dying) /\ UNCHANGED <<stack, queue>>
    BY <1>15 DEF FreeDead, Doing
  <2> DEFINE x == Head(work[t]).dying
             left == Head(work[t]).left
  <2>2. /\ Head(work[t]) \in Cleanups /\ x \in Objects /\ left \in SUBSET Objects
        /\ Head(work[t]) = work[t][1] /\ 1 \in DOMAIN work[t]
    BY <2>1, WorkFacts DEF Sound, Cleanups
  <2>3. \A o \in Objects : In(Head(work[t]), o) <=> o \in left \/ o = x
    BY DEF In
  <2>4. Home(x) => x \notin left
    <3>1. InWork(x, t, 1)
      BY <2>2 DEF InWork, In
    <3> QED BY <2>2, <3>1, Elsewhere
  <2>5. work' = [work EXCEPT ![t] = After(t, left)] /\ Release(x)
    BY <2>1
  <2> HIDE DEF x, left
  <2> QED BY <2>1, <2>2, <2>3, <2>4, <2>5, HousedRelease
<1>16. ASSUME NEW t \in Actors, NEW o \in Objects, CleanPlain(t, o) PROVE Housed'
  <2> DEFINE left == Head(work[t]).left \ {o}
  <2>1. /\ work[t] # << >> /\ Head(work[t]).at = "next" /\ o \in Head(work[t]).left
        /\ work' = [work EXCEPT ![t] = After(t, left)]
        /\ Release(o) /\ UNCHANGED <<stack, queue>>
    BY <1>16 DEF CleanPlain, Doing
  <2>2. /\ Head(work[t]) \in Cleanups /\ Head(work[t]).dying = NULL /\ left \in SUBSET Objects
    BY <2>1, WorkFacts DEF Sound, Cleanups
  <2>3. \A x \in Objects : In(Head(work[t]), x) <=> x \in left \/ x = o
    BY <1>1, <2>1, <2>2 DEF In
  <2>4. Home(o) => o \notin left
    OBVIOUS
  <2> HIDE DEF left
  <2> QED BY <2>1, <2>2, <2>3, <2>4, HousedRelease
<1>17. ASSUME NEW t \in Actors, Clean(t) PROVE Housed'
  BY <1>14, <1>15, <1>16, <1>17, HousedHandOver, HousedExit, HousedEnter DEF Clean
<1>18. ASSUME NEW t \in Actors, NEW o \in Objects, Alloc(t, o) PROVE Housed'
  BY <1>18, HousedAlloc
<1>19. CASE UNCHANGED vars
  BY <1>2, <1>19 DEF vars, stack, threads, heap
<1> QED BY <1>3, <1>5, <1>6, <1>7, <1>8, <1>9, <1>10, <1>11, <1>12, <1>13, <1>17, <1>18, <1>19
        DEF Next, Program, Cleaner, ShuttingDown

-----------------------------------------------------------------------------
\* The scopes above level d that t has entered, and their number.
Above(t, d) == {e \in d + 1 .. depth : owner[e] = t}
Count(t, d) == Cardinality(Above(t, d))

\* An object of function n of thread t is in a scope of t, with at least as
\* many scopes of t above it as t has called functions since.
InFrame(o, t, n) ==
    /\ n <= nest[t]
    /\ \E d \in 0 .. depth :
          /\ o \in scope[d]
          /\ d = 0 \/ owner[d] = t
          /\ nest[t] - n <= Count(t, d)

\* A thread has a scope for every function it is inside of, and every object
\* is in the scope of its function or in one below.  An early return leaves a
\* scope too many, never one too few.
Frames ==
    /\ \A t \in Actors : nest[t] <= Count(t, 0)
    /\ \A o \in Objects : \A t \in Actors : \A n \in Nat :
          frame[o] = <<t, n>> => InFrame(o, t, n)

\* As long as no thread has used a scope of the other one.
Framed == ~mixed => twice = {} /\ (main \in {"run", "leave"} => Frames)

\* The scopes of a thread above a depth are finitely many.
LEMMA CountFacts ==
    ASSUME Typed, NEW t \in Actors, NEW d \in 0 .. depth
    PROVE  /\ IsFiniteSet(Above(t, d)) /\ Count(t, d) \in Nat
           /\ depth \in Nat /\ depth \in Levels /\ \A e \in 0 .. depth : e \in Levels
<1>1. depth \in Nat /\ depth \in Levels /\ \A e \in 0 .. depth : e \in Levels
  BY SammAssumption DEF Typed, StackTyped, Levels
<1>2. IsFiniteSet(d + 1 .. depth)
  BY <1>1, FS_Interval
<1>3. Above(t, d) \in SUBSET (d + 1 .. depth)
  BY DEF Above
<1>4. IsFiniteSet(Above(t, d))
  BY <1>2, <1>3, FS_Subset
<1> QED BY <1>1, <1>4, FS_CardinalityType DEF Count

\* Entering and leaving a scope, and one scope further out.
LEMMA CountPush ==
    ASSUME Typed, NEW t \in Actors, PushScope(t), NEW u \in Actors, NEW d \in 0 .. depth
    PROVE  Count(u, d)' = IF u = t THEN Count(u, d) + 1 ELSE Count(u, d)
<1>1. /\ depth \in Nat /\ depth + 1 \in Levels /\ owner \in [Levels -> Actors \cup {NULL}]
      /\ \A e \in 0 .. depth : e \in Levels
  BY SammAssumption DEF PushScope, Typed, StackTyped, Levels
<1>2. depth' = depth + 1 /\ owner' = [owner EXCEPT ![depth + 1] = t]
  BY DEF PushScope
<1>3. d + 1 .. depth + 1 = (d + 1 .. depth) \cup {depth + 1} /\ \A e \in d + 1 .. depth : e # depth + 1
  BY <1>1
<1>4. owner'[depth + 1] = t /\ \A e \in d + 1 .. depth : owner'[e] = owner[e]
  BY <1>1, <1>2, <1>3
<1>5. Above(u, d)' = IF u = t THEN Above(u, d) \cup {depth + 1} ELSE Above(u, d)
  BY <1>2, <1>3, <1>4 DEF Above
<1>6. depth + 1 \notin Above(u, d)
  BY <1>3 DEF Above
<1> QED BY <1>5, <1>6, CountFacts, FS_AddElement DEF Count

\* A thread that pops its own scope has one less above every depth below.
LEMMA CountPop ==
    ASSUME Typed, NEW t \in Actors, PopScope(t), depth > 0, owner[depth] = t,
           NEW u \in Actors, NEW d \in 0 .. depth - 1
    PROVE  Count(u, d)' = IF u = t THEN Count(u, d) - 1 ELSE Count(u, d)
<1>1. /\ depth \in Nat /\ depth \in Levels /\ owner \in [Levels -> Actors \cup {NULL}]
      /\ \A e \in 0 .. depth : e \in Levels
  BY SammAssumption DEF Typed, StackTyped, Levels
<1>2. depth' = depth - 1 /\ owner' = [owner EXCEPT ![depth] = NULL]
  BY DEF PopScope
<1>3. d + 1 .. depth - 1 = (d + 1 .. depth) \ {depth} /\ depth \in d + 1 .. depth /\ d \in 0 .. depth
  BY <1>1
<1>4. \A e \in d + 1 .. depth - 1 : owner'[e] = owner[e]
  BY <1>1, <1>2, <1>3
<1>5. /\ Above(u, d)' = IF u = t THEN Above(u, d) \ {depth} ELSE Above(u, d)
      /\ u = t => depth \in Above(u, d)
  BY <1>2, <1>3, <1>4 DEF Above
<1> QED BY <1>3, <1>5, CountFacts, FS_RemoveElement DEF Count

\* A scope of a thread counts in the scopes above the depth before it.
LEMMA CountOut ==
    ASSUME Typed, NEW t \in Actors, NEW d \in 1 .. depth, owner[d] = t
    PROVE  Count(t, d - 1) = Count(t, d) + 1
<1>1. depth \in Nat
  BY SammAssumption DEF Typed, StackTyped, Levels
<1>2. (d - 1) + 1 .. depth = {d} \cup (d + 1 .. depth) /\ d \notin d + 1 .. depth /\ d \in 0 .. depth
  BY <1>1
<1>3. Above(t, d - 1) = Above(t, d) \cup {d} /\ d \notin Above(t, d)
  BY <1>2 DEF Above
<1> QED BY <1>2, <1>3, CountFacts, FS_AddElement DEF Count

-----------------------------------------------------------------------------
\* What each kind of step does to the frames.
LEMMA FramesSame ==
    ASSUME Frames, UNCHANGED <<stack, calls>>
    PROVE  Frames'
<1>1. \A t, d : Count(t, d)' = Count(t, d)
  BY DEF Count, Above, stack
<1>2. \A o, t, n : InFrame(o, t, n) => InFrame(o, t, n)'
  BY <1>1 DEF InFrame, stack, calls
<1> QED BY <1>1, <1>2 DEF Frames, calls

\* A new scope is the innermost frame of the thread that enters it.
LEMMA FramesPush ==
    ASSUME Typed, Frames, NEW t \in Actors, PushScope(t), scope' = scope, frame' = frame
    PROVE  Frames'
<1>1. /\ depth \in Nat /\ depth' = depth + 1 /\ 0 .. depth \subseteq 0 .. depth' /\ 0 \in 0 .. depth
      /\ \A d \in 0 .. depth : d \in Levels /\ d # depth + 1
  BY SammAssumption DEF PushScope, Typed, StackTyped, Levels
<1>2. /\ nest \in [Actors -> Nat] /\ nest' = [nest EXCEPT ![t] = @ + 1]
      /\ owner' = [owner EXCEPT ![depth + 1] = t] /\ owner \in [Levels -> Actors \cup {NULL}]
  BY DEF PushScope, Typed, WorkTyped, StackTyped
<1>3. \A u \in Actors : nest'[u] = IF u = t THEN nest[u] + 1 ELSE nest[u]
  BY <1>2
<1>4. \A u \in Actors : \A d \in 0 .. depth :
          /\ Count(u, d)' = IF u = t THEN Count(u, d) + 1 ELSE Count(u, d)
          /\ Count(u, d) \in Nat
  BY CountPush, CountFacts
<1>5. ASSUME NEW u \in Actors PROVE nest'[u] <= Count(u, 0)'
  BY <1>1, <1>2, <1>3, <1>4 DEF Frames
<1>6. ASSUME NEW o \in Objects, NEW u \in Actors, NEW n \in Nat, InFrame(o, u, n)
      PROVE  InFrame(o, u, n)'
  <2>1. PICK d \in 0 .. depth : /\ o \in scope[d] /\ (d = 0 \/ owner[d] = u)
                                /\ nest[u] - n <= Count(u, d)
    BY <1>6 DEF InFrame
  <2>2. o \in scope'[d] /\ (d = 0 \/ owner'[d] = u) /\ d \in 0 .. depth'
    BY <1>1, <1>2, <2>1
  <2>3. n <= nest'[u] /\ nest'[u] - n <= Count(u, d)'
    <3>1. n <= nest[u] /\ nest[u] \in Nat /\ Count(u, d) \in Nat
      BY <1>2, <1>4, <1>6 DEF InFrame
    <3> QED BY <1>3, <1>4, <2>1, <3>1
  <2> QED BY <2>2, <2>3 DEF InFrame
<1> QED BY <1>5, <1>6 DEF Frames

\* (history) The end of the innermost function of t.
LEMMA EndFacts ==
    ASSUME Typed, NEW t \in Actors, EndFrame(t), nest[t] > 0
    PROVE  /\ \A u \in Actors : /\ nest'[u] = IF u = t THEN nest[u] - 1 ELSE nest[u]
                                /\ nest[u] \in Nat
           /\ \A o \in Objects : \A u \in Actors : \A n \in Nat :
                  frame'[o] = <<u, n>> => frame[o] = <<u, n>> /\ ~(u = t /\ n = nest[t])
<1>1. /\ nest \in [Actors -> Nat] /\ nest' = [nest EXCEPT ![t] = @ - 1]
      /\ frame' = [o \in Objects |-> IF frame[o] = <<t, nest[t]>> THEN NULL ELSE frame[o]]
  BY DEF EndFrame, Typed, WorkTyped
<1>3. ASSUME NEW o \in Objects, NEW u \in Actors, NEW n \in Nat, frame'[o] = <<u, n>>
      PROVE  frame[o] = <<u, n>> /\ ~(u = t /\ n = nest[t])
  <2>1. frame'[o] # NULL
    BY <1>3, SammAssumption
  <2>2. frame[o] # <<t, nest[t]>> /\ frame'[o] = frame[o]
    BY <1>1, <2>1
  <2> QED BY <1>3, <2>2
<1> QED BY <1>1, <1>3

\* While scopes are not mixed a thread pops the scope it entered last, and frames
\* of live objects stay those of scopes below.
LEMMA FramesPop ==
    ASSUME Typed, Frames, NEW t \in Actors, nest[t] > 0, PopScope(t), EndFrame(t), ~mixed'
    PROVE  Frames'
<1>1. /\ depth \in Nat /\ 0 \in 0 .. depth /\ nest[t] \in Nat
      /\ \A u \in Actors : \A d \in 0 .. depth : Count(u, d) \in Nat
  BY CountFacts, SammAssumption DEF Typed, StackTyped, Levels, WorkTyped
<1>2. nest[t] <= Count(t, 0)
  BY DEF Frames
<1>3. depth > 0
  <2>1. depth = 0 => Above(t, 0) = {}
    BY DEF Above
  <2> QED BY <1>1, <1>2, <2>1, FS_EmptySet DEF Count
<1>4. owner[depth] = t
  BY <1>3 DEF PopScope, Foreign
<1>5. /\ depth' = depth - 1 /\ scope' = [scope EXCEPT ![depth] = {}]
      /\ owner' = [owner EXCEPT ![depth] = NULL]
  BY <1>3 DEF PopScope
<1>6. \A d \in 0 .. depth - 1 : /\ scope'[d] = scope[d] /\ owner'[d] = owner[d]
                                /\ d \in 0 .. depth' /\ d \in 0 .. depth
  <2>1. scope \in [Levels -> SUBSET Objects] /\ owner \in [Levels -> Actors \cup {NULL}]
        /\ \A d \in 0 .. depth : d \in Levels
    BY CountFacts, <1>1 DEF Typed, StackTyped
  <2> QED BY <1>1, <1>5, <2>1
<1>7. \A u \in Actors : \A d \in 0 .. depth - 1 :
          Count(u, d)' = IF u = t THEN Count(u, d) - 1 ELSE Count(u, d)
  BY <1>3, <1>4, CountPop
<1>8. /\ \A u \in Actors : /\ nest'[u] = IF u = t THEN nest[u] - 1 ELSE nest[u]
                           /\ nest[u] \in Nat
      /\ \A o \in Objects : \A u \in Actors : \A n \in Nat :
             frame'[o] = <<u, n>> => frame[o] = <<u, n>> /\ ~(u = t /\ n = nest[t])
  BY EndFacts
<1>9. ASSUME NEW u \in Actors PROVE nest'[u] <= Count(u, 0)'
  <2>1. 0 \in 0 .. depth - 1 /\ nest[u] <= Count(u, 0)
    BY <1>1, <1>3 DEF Frames
  <2> QED BY <1>1, <1>7, <1>8, <2>1
<1>10. ASSUME NEW o \in Objects, NEW u \in Actors, NEW n \in Nat, frame'[o] = <<u, n>>
       PROVE  InFrame(o, u, n)'
  <2>1. InFrame(o, u, n) /\ ~(u = t /\ n = nest[t])
    BY <1>8, <1>10 DEF Frames
  <2>2. PICK d \in 0 .. depth : /\ o \in scope[d] /\ (d = 0 \/ owner[d] = u)
                                /\ nest[u] - n <= Count(u, d)
    BY <2>1 DEF InFrame
  <2>3. n <= nest[u] /\ nest[u] \in Nat /\ Count(u, d) \in Nat
    BY <1>1, <1>8, <2>1 DEF InFrame
  <2>4. d # depth
    <3>1. CASE u # t
      BY <1>3, <1>4, <2>2, <3>1
    <3>2. CASE u = t
      <4>1. Count(u, d) > 0
        BY <2>1, <2>2, <2>3, <3>2
      <4>2. d = depth => Above(u, d) = {}
        <5>1. depth + 1 .. depth = {}
          BY <1>1
        <5> QED BY <5>1 DEF Above
      <4> QED BY <4>1, <4>2, FS_EmptySet DEF Count
    <3> QED BY <3>1, <3>2
  <2>5. d \in 0 .. depth - 1
    BY <1>1, <2>4
  <2>6. n <= nest'[u] /\ nest'[u] - n <= Count(u, d)'
    BY <1>7, <1>8, <2>1, <2>2, <2>3, <2>5
  <2> QED BY <1>6, <2>2, <2>5, <2>6 DEF InFrame
<1> QED BY <1>9, <1>10 DEF Frames

\* A plain ret leaves a frame and keeps its scope, which only makes lives longer.
LEMMA FramesReturn ==
    ASSUME Typed, Frames, ReturnEarly
    PROVE  Frames'
<1>1. "main" \in Actors /\ EndFrame("main") /\ nest["main"] > 0 /\ UNCHANGED stack
  BY DEF ReturnEarly, Actors
<1>2. /\ \A u \in Actors : /\ nest'[u] = IF u = "main" THEN nest[u] - 1 ELSE nest[u]
                           /\ nest[u] \in Nat
      /\ \A o \in Objects : \A u \in Actors : \A n \in Nat :
             frame'[o] = <<u, n>> => frame[o] = <<u, n>> /\ ~(u = "main" /\ n = nest["main"])
  BY <1>1, EndFacts
<1>3. /\ \A u, d : Count(u, d)' = Count(u, d)
      /\ 0 \in 0 .. depth /\ \A u \in Actors : \A d \in 0 .. depth : Count(u, d) \in Nat
  <2>1. \A u, d : Count(u, d)' = Count(u, d)
    BY <1>1 DEF Count, Above, stack
  <2>2. 0 \in 0 .. depth
    BY SammAssumption DEF Typed, StackTyped, Levels
  <2> QED BY <2>1, <2>2, CountFacts
<1>4. ASSUME NEW u \in Actors PROVE nest'[u] <= Count(u, 0)'
  <2>1. nest[u] <= Count(u, 0) /\ Count(u, 0) \in Nat
    BY <1>3 DEF Frames
  <2> QED BY <1>2, <1>3, <2>1
<1>5. ASSUME NEW o \in Objects, NEW u \in Actors, NEW n \in Nat, frame'[o] = <<u, n>>
      PROVE  InFrame(o, u, n)'
  <2>1. InFrame(o, u, n) /\ ~(u = "main" /\ n = nest["main"])
    BY <1>2, <1>5 DEF Frames
  <2>2. PICK d \in 0 .. depth : /\ o \in scope[d] /\ (d = 0 \/ owner[d] = u)
                                /\ nest[u] - n <= Count(u, d)
    BY <2>1 DEF InFrame
  <2>3. n <= nest[u] /\ nest[u] \in Nat /\ Count(u, d) \in Nat
    BY <1>2, <1>3, <2>1 DEF InFrame
  <2>4. n <= nest'[u] /\ nest'[u] - n <= Count(u, d)
    BY <1>2, <2>1, <2>2, <2>3
  <2>5. d \in 0 .. depth' /\ o \in scope'[d] /\ (d = 0 \/ owner'[d] = u)
    BY <1>1, <2>2 DEF stack
  <2> QED BY <1>3, <2>4, <2>5 DEF InFrame
<1> QED BY <1>4, <1>5 DEF Frames

\* The objects that a step leaves in their scope stay in their frame, when it
\* neither opens nor closes a scope.
LEMMA FrameKept ==
    ASSUME UNCHANGED <<depth, owner, nest>>,
           NEW o \in Objects, NEW t \in Actors, NEW n \in Nat, InFrame(o, t, n),
           \A d \in 0 .. depth : o \in scope[d] => o \in scope'[d]
    PROVE  InFrame(o, t, n)'
<1>1. Above(t, 0)' = Above(t, 0) /\ \A d : Count(t, d)' = Count(t, d)
  BY DEF Count, Above
<1> QED BY <1>1 DEF InFrame

\* A step that leaves the scopes and the nesting alone.
LEMMA NestKept ==
    ASSUME Frames, UNCHANGED <<depth, owner, nest>>
    PROVE  \A t \in Actors : nest'[t] <= Count(t, 0)'
BY DEF Frames, Count, Above

\* An object gets the frame of the scope that tracks it.
LEMMA FramesAlloc ==
    ASSUME Typed, Frames, NEW t \in Actors, NEW o \in Objects, Alloc(t, o), ~mixed'
    PROVE  Frames'
<1>1. /\ scope' = [scope EXCEPT ![depth] = @ \cup {o}] /\ frame' = [frame EXCEPT ![o] = <<t, nest[t]>>]
      /\ UNCHANGED <<depth, owner, nest>> /\ (depth > 0 => owner[depth] = t)
  BY DEF Alloc, Foreign
<1>2. /\ scope \in [Levels -> SUBSET Objects] /\ depth \in Nat /\ depth \in Levels
      /\ frame \in [Objects -> (Actors \X Nat) \cup {NULL}] /\ nest[t] \in Nat
      /\ \A d \in 0 .. depth : d \in Levels
  BY SammAssumption DEF Typed, StackTyped, FrameTyped, WorkTyped, Levels
<1>3. ASSUME NEW x \in Objects, NEW u \in Actors, NEW n \in Nat, frame'[x] = <<u, n>>
      PROVE  InFrame(x, u, n)'
  <2>1. CASE x # o
    <3>1. InFrame(x, u, n)
      BY <1>1, <1>2, <1>3, <2>1 DEF Frames
    <3>2. \A d \in 0 .. depth : x \in scope[d] => x \in scope'[d]
      BY <1>1, <1>2
    <3> QED BY <1>1, <3>1, <3>2, FrameKept
  <2>2. CASE x = o
    <3>1. u = t /\ n = nest[t]
      BY <1>1, <1>2, <1>3, <2>2
    <3>2. PICK d \in 0 .. depth : d = depth
      BY <1>2
    <3>3. d \in 0 .. depth' /\ o \in scope'[d] /\ (d = 0 \/ owner'[d] = t)
      BY <1>1, <1>2, <3>2
    <3>4. Count(t, d)' \in Nat
      <4>1. Count(t, d)' = Count(t, d)
        BY <1>1 DEF Count, Above
      <4> QED BY <4>1, CountFacts
    <3>5. nest'[t] - nest[t] <= Count(t, d)' /\ nest[t] <= nest'[t]
      BY <1>1, <1>2, <3>4
    <3> QED BY <2>2, <3>1, <3>3, <3>5 DEF InFrame
  <2> QED BY <2>1, <2>2
<1> QED BY <1>1, <1>3, NestKept DEF Frames

\* An object that is released early is tracked, and loses its frame with its scope.
LEMMA FramesDrop ==
    ASSUME Typed, Frames, NEW o \in Objects, Drop(o)
    PROVE  Frames' /\ Tracked(o)
<1>1. /\ frame' = [frame EXCEPT ![o] = NULL] /\ UNCHANGED <<depth, owner, nest>> /\ Known(o)
      /\ frame \in [Objects -> (Actors \X Nat) \cup {NULL}]
  BY DEF Drop, Typed, FrameTyped
<1>2. Tracked(o)
  <2>1. PICK n \in Nat : frame[o] = <<"main", n>>
    BY <1>1 DEF Known
  <2>2. InFrame(o, "main", n)
    BY <2>1 DEF Frames, Actors
  <2> QED BY <2>2 DEF InFrame, Tracked
<1>3. /\ scope' = [scope EXCEPT ![At(o)] = @ \ {o}] /\ scope \in [Levels -> SUBSET Objects]
      /\ \A d \in 0 .. depth : d \in Levels
  BY <1>2, SammAssumption DEF Drop, Typed, StackTyped, Levels
<1>4. ASSUME NEW x \in Objects, NEW u \in Actors, NEW n \in Nat, frame'[x] = <<u, n>>
      PROVE  InFrame(x, u, n)'
  <2>1. x # o /\ frame[x] = <<u, n>>
    BY <1>1, <1>4, SammAssumption
  <2>2. \A d \in 0 .. depth : x \in scope[d] => x \in scope'[d]
    <3> HIDE DEF At
    <3> QED BY <1>3, <2>1
  <2> QED BY <1>1, <2>1, <2>2, FrameKept DEF Frames
<1> QED BY <1>1, <1>2, <1>4, NestKept DEF Frames

\* The retained object leaves its scope for one of the same thread, and its
\* function for the calling one, if it is of the innermost.
LEMMA FramesRetain ==
    ASSUME Typed, Born, Housed, Frames, twice = {}, NEW o \in Objects, Retain(o), ~mixed'
    PROVE  Frames'
<1>1. /\ "main" \in Actors /\ main # "aborted" /\ nest["main"] > 0 /\ Known(o)
      /\ UNCHANGED <<depth, owner, nest>>
      /\ frame' = IF frame[o][2] = nest["main"]
                  THEN [frame EXCEPT ![o] = <<"main", nest["main"] - 1>>] ELSE frame
  BY DEF Retain, InProgram, Actors
<1>2. /\ scope \in [Levels -> SUBSET Objects] /\ depth \in Nat /\ nest["main"] \in Nat
      /\ frame \in [Objects -> (Actors \X Nat) \cup {NULL}] /\ \A d \in 0 .. depth : d \in Levels
  BY <1>1, SammAssumption DEF Typed, StackTyped, FrameTyped, WorkTyped, Levels
<1>3. PICK m \in Nat : frame[o] = <<"main", m>>
  BY <1>1, <1>2 DEF Known
<1>4. PICK d \in 0 .. depth : /\ o \in scope[d] /\ (d = 0 \/ owner[d] = "main")
                              /\ nest["main"] - m <= Count("main", d)
  BY <1>1, <1>3 DEF Frames, InFrame
<1>5. Tracked(o) /\ At(o) = d
  <2>1. Tracked(o)
    BY <1>4 DEF Tracked
  <2>2. Home(o)
    BY <1>1, <1>3, SammAssumption DEF Housed, Homed, Born, Known
  <2>3. InScope(o, d) /\ InScope(o, At(o)) /\ At(o) \in Levels /\ d \in Levels
    BY <1>2, <1>4, <2>1, AtFacts DEF InScope
  <2> QED BY <2>1, <2>2, <2>3, Elsewhere
<1> DEFINE target == IF d = 0 THEN 0 ELSE d - 1
<1>6. /\ scope' = [e \in Levels |-> IF e = target THEN scope[e] \cup {o} ELSE scope[e] \ {o}]
      /\ target > 0 => owner[target] = "main"
  BY <1>5 DEF Retain, Foreign
<1>7. target \in 0 .. depth /\ target \in Levels
  BY <1>2
<1>8. /\ \A e \in 0 .. depth : Count("main", e)' = Count("main", e) /\ Count("main", e) \in Nat
      /\ d > 0 => Count("main", target) = Count("main", d) + 1
      /\ m <= nest["main"] /\ nest["main"] <= Count("main", 0)
  <2>1. \A e : Count("main", e)' = Count("main", e)
    BY <1>1 DEF Count, Above
  <2>2. d > 0 => d \in 1 .. depth /\ owner[d] = "main" /\ target = d - 1
    BY <1>4
  <2>3. m <= nest["main"] /\ nest["main"] <= Count("main", 0)
    BY <1>1, <1>3 DEF Frames, InFrame
  <2> QED BY <1>1, <2>1, <2>2, <2>3, CountOut, CountFacts
<1>9. ASSUME NEW x \in Objects, NEW u \in Actors, NEW n \in Nat, frame'[x] = <<u, n>>
      PROVE  InFrame(x, u, n)'
  <2>1. CASE x # o
    <3>1. InFrame(x, u, n)
      BY <1>1, <1>2, <1>9, <2>1 DEF Frames
    <3>2. \A e \in 0 .. depth : x \in scope[e] => x \in scope'[e]
      BY <1>2, <1>6, <2>1
    <3> QED BY <1>1, <3>1, <3>2, FrameKept
  <2>2. CASE x = o
    <3>1. u = "main" /\ n = IF m = nest["main"] THEN nest["main"] - 1 ELSE m
      BY <1>1, <1>2, <1>3, <1>9, <2>2
    <3>2. o \in scope'[target] /\ (target = 0 \/ owner'[target] = "main")
      BY <1>1, <1>6, <1>7
    <3>3. n <= nest'["main"] /\ nest'["main"] - n <= Count("main", target)'
      <4>1. n <= nest["main"] /\ nest["main"] - n <= Count("main", target)
        <5>1. CASE d = 0
          BY <1>1, <1>2, <1>4, <1>7, <1>8, <3>1, <5>1
        <5>2. CASE d > 0
          BY <1>1, <1>2, <1>4, <1>7, <1>8, <3>1, <5>2
        <5> QED BY <5>1, <5>2
      <4> QED BY <1>1, <1>7, <1>8, <4>1
    <3> QED BY <1>1, <1>7, <2>2, <3>1, <3>2, <3>3 DEF InFrame
  <2> QED BY <2>1, <2>2
<1> QED BY <1>1, <1>9, NestKept DEF Frames

-----------------------------------------------------------------------------
\* An object is released, and not for the second time.
LEMMA ReleasedOnce ==
    ASSUME Typed, Housed, twice = {}, NEW t \in Actors, work[t] # << >>,
           NEW o \in Objects, In(Head(work[t]), o), Release(o)
    PROVE  twice' = {}
<1>1. InWork(o, t, 1) /\ main # "aborted"
  BY WorkFacts DEF InWork
<1>2. Home(o)
  BY <1>1, MadeFacts DEF Housed, Homed
<1>3. o \notin freed
  BY <1>1, <1>2, Elsewhere
<1> QED BY <1>3 DEF Release

\* There is no frame in the beginning but that of the program.
LEMMA FramedInit == Init => Framed
<1> SUFFICES ASSUME Init PROVE Frames
  BY DEF Init, Framed
<1>1. \A t \in Actors : nest[t] <= Count(t, 0)
  <2> SUFFICES ASSUME NEW t \in Actors PROVE nest[t] <= Count(t, 0)
    OBVIOUS
  <2>1. depth = 0 /\ 0 + 1 .. 0 = {} /\ nest[t] = 0
    BY DEF Init
  <2>2. Above(t, 0) = {}
    BY <2>1 DEF Above
  <2> QED BY <2>1, <2>2, FS_EmptySet DEF Count
<1>2. \A o \in Objects : \A t \in Actors : \A n \in Nat : frame[o] # <<t, n>>
  BY SammAssumption DEF Init
<1> QED BY <1>1, <1>2 DEF Frames

\* A step that leaves the stack and the functions alone, or shuts down.
LEMMA FramedSame ==
    ASSUME Framed, UNCHANGED twice, mixed => mixed',
           main' \in {"run", "leave"} => main \in {"run", "leave"} /\ UNCHANGED <<stack, calls>>
    PROVE  Framed'
BY FramesSame DEF Framed

\* A cleanup releases what no scope tracks; the destructors it runs enter and leave
\* scopes of their own.
LEMMA FramedClean ==
    ASSUME Typed, Housed, Framed, NEW t \in Actors, Clean(t)
    PROVE  Framed'
<1>1. ASSUME Abort PROVE Framed'
  BY <1>1, FramedSame DEF Abort, stack, heap
<1>2. CASE HandOver(t) \/ DestructorTooDeep(t)
  BY <1>1, <1>2, FramedSame DEF HandOver, DestructorTooDeep, heap, stack
<1>3. CASE ExitDestructor(t)
  <2>1. /\ InDestructor(t) /\ PopScope(t) /\ EndFrame(t) /\ nest[t] > 0
        /\ main' = main /\ twice' = twice
    BY <1>3 DEF ExitDestructor, Typed, WorkTyped, threads, heap
  <2>2. mixed => mixed'
    BY <2>1 DEF PopScope, stack
  <2> QED BY <2>1, <2>2, FramesPop DEF Framed
<1>4. ASSUME NEW o \in Objects, EnterDestructor(t, o) PROVE Framed'
  <2>1. PushScope(t) /\ frame' = frame /\ main' = main /\ twice' = twice /\ mixed' = mixed
    BY <1>4 DEF EnterDestructor, PushScope, threads, heap
  <2>2. scope' = scope
    BY <2>1, PushHoused DEF Housed
  <2> QED BY <2>1, <2>2, FramesPush DEF Framed
<1>5. ASSUME work[t] # << >>, UNCHANGED <<stack, threads, calls>>,
             NEW o \in Objects, In(Head(work[t]), o), Release(o)
      PROVE  Framed'
  <2>1. mixed' = mixed /\ main' = main /\ (Frames => Frames')
    BY <1>5, FramesSame DEF stack, threads
  <2> QED BY <1>5, <2>1, ReleasedOnce DEF Framed
<1>6. CASE FreeDead(t)
  <2>1. /\ work[t] # << >> /\ Head(work[t]).at = "free"
        /\ Release(Head(work[t]).dying) /\ UNCHANGED <<stack, threads, calls>>
    BY <1>6 DEF FreeDead, Doing
  <2>2. Head(work[t]).dying \in Objects /\ In(Head(work[t]), Head(work[t]).dying)
    BY <2>1, WorkFacts DEF Sound, In
  <2> QED BY <1>5, <2>1, <2>2
<1>7. ASSUME NEW o \in Objects, CleanPlain(t, o) PROVE Framed'
  <2>1. /\ work[t] # << >> /\ In(Head(work[t]), o)
        /\ Release(o) /\ UNCHANGED <<stack, threads, calls>>
    BY <1>7 DEF CleanPlain, Doing, In
  <2> QED BY <1>5, <2>1
<1> QED BY <1>2, <1>3, <1>4, <1>6, <1>7 DEF Clean

\* Every step keeps objects in the frames they were allocated in, until scopes
\* get mixed.
LEMMA FramedStep == Typed /\ Born /\ Housed /\ Framed /\ [Next]_vars => Framed'
<1> SUFFICES ASSUME Typed, Born, Housed, Framed, [Next]_vars PROVE Framed'
  OBVIOUS
<1>0. "main" \in Actors /\ Closed
  BY DEF Actors, Housed
<1>1. CASE Call
  <2>1. PushScope("main") /\ frame' = frame /\ main' = main /\ twice' = twice /\ mixed' = mixed
    BY <1>1 DEF Call, PushScope, threads, heap
  <2>2. scope' = scope
    BY <1>0, <2>1, PushHoused
  <2> QED BY <1>0, <2>1, <2>2, FramesPush DEF Framed
<1>2. CASE CallTooDeep
  BY <1>2, FramedSame DEF CallTooDeep, Abort, stack, heap
<1>3. CASE Leave
  <2>1. /\ PopScope("main") /\ EndFrame("main") /\ nest["main"] > 0
        /\ main \in {"run", "leave"} /\ twice' = twice
    BY <1>3 DEF Leave, heap
  <2>2. mixed => mixed'
    BY <2>1 DEF PopScope, stack
  <2> QED BY <1>0, <2>1, <2>2, FramesPop DEF Framed
<1>4. CASE ReturnEarly
  <2>1. main' = main /\ twice' = twice /\ mixed' = mixed
    BY <1>4 DEF ReturnEarly, threads, heap, stack
  <2> QED BY <1>4, <2>1, FramesReturn DEF Framed
<1>5. CASE End \/ CleanerSleeps \/ CleanerStops \/ CleanerWakes \/ Join
  BY <1>5, FramedSame DEF End, CleanerSleeps, CleanerStops, CleanerWakes, Join, heap, stack
<1>6. CASE CleanerTakes
  BY <1>6, FramedSame DEF CleanerTakes, TakeBatch, heap, stack, threads
<1>7. CASE Drain \/ SweepScope
  <2>1. main' \notin {"run", "leave"} /\ twice' = twice /\ mixed' = mixed
    BY <1>7 DEF Drain, SweepScope, TakeBatch, heap, stack, threads
  <2> QED BY <2>1 DEF Framed
<1>8. ASSUME NEW o \in Objects, Retain(o) PROVE Framed'
  <2>1. main = "run" /\ twice' = twice /\ (mixed => mixed')
    BY <1>8 DEF Retain, InProgram, heap
  <2> QED BY <1>8, <2>1, FramesRetain DEF Framed
<1>9. ASSUME NEW o \in Objects, Drop(o) PROVE Framed'
  <2>1. main = "run" /\ main' = main /\ mixed' = mixed
        /\ twice' = IF Tracked(o) THEN twice ELSE twice \cup {o}
    BY <1>9 DEF Drop, InProgram, threads
  <2> QED BY <1>9, <2>1, FramesDrop DEF Framed
<1>10. ASSUME NEW t \in Actors, NEW o \in Objects, Alloc(t, o) PROVE Framed'
  <2>1. main' = main /\ twice' = twice /\ (mixed => mixed')
    BY <1>10 DEF Alloc, threads
  <2> QED BY <1>10, <2>1, FramesAlloc DEF Framed
<1>11. CASE UNCHANGED vars
  BY <1>11, FramedSame DEF vars, stack, threads, heap
<1> QED BY <1>1, <1>2, <1>3, <1>4, <1>5, <1>6, <1>7, <1>8, <1>9, <1>10, <1>11, FramedClean
        DEF Next, Program, Cleaner, ShuttingDown

-----------------------------------------------------------------------------
\* The four invariants together.
LEMMA Invariant == Spec => [](Typed /\ Born /\ Housed /\ Framed)
<1>1. Init => Born
  BY DEF Init, Born
<1> QED BY <1>1, TypedInit, HousedInit, FramedInit, TypedStep, BornStep, HousedStep, FramedStep,
           PTL DEF Spec

\* A home is one place.
LEMMA HomeFacts ==
    ASSUME Typed, Closed, NEW o \in Objects, Home(o)
    PROVE  Cardinality(Homes(o)) = 1
<1>1. /\ depth \in Nat /\ \A d \in 0 .. depth : d \in Levels
      /\ \A d \in Levels : InScope(o, d) => d \in 0 .. depth
  BY SammAssumption DEF Typed, StackTyped, Levels, Closed, InScope
<1>2. \A x : x \in Homes(o) <=>
          \/ \E d \in Levels : InScope(o, d) /\ x = <<"scope", d>>
          \/ \E i \in DOMAIN queue : InQueue(o, i) /\ x = <<"queue", i>>
          \/ \E t \in Actors : \E i \in DOMAIN work[t] : InWork(o, t, i) /\ x = <<t, i>>
          \/ o \in freed /\ x = <<"freed">>
  <2> DEFINE A == {e \in 0 .. depth : o \in scope[e]}
             B == {j \in DOMAIN queue : o \in queue[j]}
             C(t) == {j \in DOMAIN work[t] : o \in work[t][j].left \cup {work[t][j].dying}}
             D == {o} \cap freed
  <2>1. \A d : d \in A <=> d \in Levels /\ InScope(o, d)
    BY <1>1 DEF InScope
  <2>2. \A i : i \in B <=> i \in DOMAIN queue /\ InQueue(o, i)
    BY DEF InQueue
  <2>3. \A t, i : i \in C(t) <=> i \in DOMAIN work[t] /\ InWork(o, t, i)
    BY DEF InWork, In
  <2>4. D = IF o \in freed THEN {o} ELSE {}
    OBVIOUS
  <2>5. \A z : z \in Homes(o) <=> \/ z \in {<<"scope", d>> : d \in A}
                                  \/ z \in {<<"queue", i>> : i \in B}
                                  \/ z \in UNION {{<<t, i>> : i \in C(t)} : t \in Actors}
                                  \/ z \in {<<"freed">> : x \in D}
    BY Zenon DEF Homes
  <2> HIDE DEF A, B, C, D
  <2>6. \A x : x \in UNION {{<<t, i>> : i \in C(t)} : t \in Actors} <=>
                 \E t \in Actors : \E i \in C(t) : x = <<t, i>>
    <3>1. \A x, t : x \in {<<t, i>> : i \in C(t)} <=> \E i \in C(t) : x = <<t, i>>
      BY Zenon
    <3> DEFINE E(t) == {<<t, i>> : i \in C(t)}
    <3> HIDE DEF E
    <3>2. \A x : x \in UNION {E(t) : t \in Actors} <=> \E t \in Actors : x \in E(t)
      BY SMT
    <3> QED BY <3>1, <3>2 DEF E
  <2>7. \A z : z \in {<<"freed">> : x \in D} <=> o \in freed /\ z = <<"freed">>
    BY <2>4
  <2>8. \A x : /\ x \in {<<"scope", d>> : d \in A} <=> \E d \in A : x = <<"scope", d>>
               /\ x \in {<<"queue", i>> : i \in B} <=> \E i \in B : x = <<"queue", i>>
    BY Zenon
  <2>9. \A z : z \in Homes(o) <=> \/ \E d \in A : z = <<"scope", d>>
                                  \/ \E i \in B : z = <<"queue", i>>
                                  \/ \E t \in Actors : \E i \in C(t) : z = <<t, i>>
                                  \/ o \in freed /\ z = <<"freed">>
    BY <2>5, <2>6, <2>7, <2>8, Zenon
  <2> QED BY <2>1, <2>2, <2>3, <2>9, Zenon
<1>3. \E x : Homes(o) = {x}
  <2>1. \E x : x \in Homes(o)
    BY <1>2 DEF Home, Somewhere
  <2>2. \A x, y : x \in Homes(o) /\ y \in Homes(o) => x = y
    BY <1>2, Elsewhere
  <2> QED BY <2>1, <2>2
<1> QED BY <1>3, FS_Singleton

\* Through every hand-over between the program, the queue and the background
\* thread, and every destructor that allocates on the way, an object has one
\* place; and none is released twice unless a thread used a scope of the other.
THEOREM Conservation == Spec => []OneHome
<1>1. Typed /\ Housed /\ Framed => OneHome
  <2> SUFFICES ASSUME Typed, Housed, Framed PROVE OneHome
    OBVIOUS
  <2>1. ASSUME main # "aborted", NEW o \in made \ twice PROVE Cardinality(Homes(o)) = 1
    <3>1. Home(o) /\ o \in Objects
      BY <2>1 DEF Housed, Homed, Typed, HeapTyped
    <3> QED BY <3>1, HomeFacts DEF Housed
  <2> QED BY <2>1 DEF OneHome, Framed
<1> QED BY <1>1, Invariant, PTL

\* The objects of a function that is still running, and those retained for it,
\* stay in a scope (samm_exit_scope takes the right ones), unless a thread
\* used a scope of the other.
THEOREM LexicalLifetimes == Spec => []LexicalUntilMixed
<1>1. Typed /\ Framed => LexicalUntilMixed
  <2> SUFFICES ASSUME Typed, Framed, ~mixed, main \in {"run", "leave"},
                      NEW o \in Objects, frame[o] # NULL
               PROVE  Tracked(o)
    BY DEF LexicalUntilMixed, Lexical
  <2>1. PICK t \in Actors, n \in Nat : frame[o] = <<t, n>>
    BY DEF Typed, FrameTyped
  <2>2. InFrame(o, t, n)
    BY <2>1 DEF Framed, Frames
  <2> QED BY <2>2 DEF InFrame, Tracked
<1> QED BY <1>1, Invariant, PTL
=============================================================================
