------------------------------- MODULE Timers -------------------------------
(***************************************************************************)
(* The timers of the FasterBASIC runtime (zig_compiler/runtime/            *)
(* messaging.zig): AFTER ... SEND and EVERY ... SEND start a thread that   *)
(* pushes messages into the queue of a worker, TIMER STOP cancels and      *)
(* joins it.  g_timers is a table of slots under g_timer_mutex; an action  *)
(* is one critical section of that mutex or one step outside of it.        *)
(* A queue is its length and the state of its memory: see MessageQueue.    *)
(***************************************************************************)
EXTENDS Integers, FiniteSets

CONSTANTS Timers,     \* one per AFTER or EVERY statement executed
          Repeating,  \* those that are EVERY
          Starters,   \* threads of the program that execute AFTER and EVERY
          Stoppers,   \* those that execute TIMER STOP
          Main,       \* the main thread, which executes AWAIT
          Queues,     \* the queues that messages go to
          Read,       \* those whose reader keeps receiving
          MaxTimers,  \* MAX_TIMERS (64 in the code)
          Capacity,   \* MSG_QUEUE_CAPACITY
          NULL

ASSUME TimersAssumption ==
    /\ Repeating \subseteq Timers /\ Read \subseteq Queues
    /\ MaxTimers \in Nat \ {0} /\ Capacity \in Nat \ {0}
    /\ NULL \notin Timers \cup Queues
    /\ Main \in Starters \cup Stoppers

Slots == 0 .. MaxTimers - 1
Callers == Starters \cup Stoppers

VARIABLES
    active, cancel, thread,  \* the fields of g_timers
    tpc,      \* where each timer thread stands
    tslot,    \* TimerContext.slot_index
    tqueue,   \* TimerContext.queue
    blob,     \* what became of the blob the statement marshalled
    cpc,      \* where each caller stands
    cslot,    \* the slot a caller works on
    ctimer,   \* the thread a caller started, or read from a slot to join it
    doomed,   \* the threads that ran when a TIMER STOP of a caller began
    joined,   \* threads that were joined
    rejoined, \* threads that were joined a second time
    life,     \* the memory of each queue: "open", "closed", "freed"
    length    \* its number of messages

table == <<active, cancel, thread>>
threads == <<tpc, tslot, tqueue, blob>>
callers == <<cpc, cslot, ctimer, doomed>>
joins == <<joined, rejoined>>
queues == <<life, length>>
vars == <<table, threads, callers, joins, queues>>

(***************************************************************************)
(* A timer:                                                                *)
(*  none    not started                                                    *)
(*  ready   its slot is taken, its thread not yet created                  *)
(*  sleep   asleep, between two chunks of its delay                        *)
(*  push    in msg_queue_push                                              *)
(*  mark    about to mark its slot inactive                                *)
(*  gone    its thread has ended (or was never created)                    *)
(* A caller:                                                               *)
(*  run     outside                                                        *)
(*  start   has a slot, about to create the thread                         *)
(*  store   has created the thread, about to store it in the slot          *)
(*  join, clear        in timer_stop                                       *)
(*  look, joinAll, clearAll   in the loop of timer_stop_all                *)
(*  await   in msg_drain_and_destroy, between the close and the release    *)
(***************************************************************************)
TimerPlaces == {"none", "ready", "sleep", "push", "mark", "gone"}
CallerPlaces == {"run", "start", "store", "join", "clear",
                 "look", "joinAll", "clearAll", "await"}

Running(t) == tpc[t] \in {"sleep", "push", "mark"}
Alive == {t \in Timers : Running(t)}

Init ==
    /\ active = [i \in Slots |-> FALSE]
    /\ cancel = [i \in Slots |-> FALSE]
    /\ thread = [i \in Slots |-> NULL]
    /\ tpc = [t \in Timers |-> "none"]
    /\ tslot = [t \in Timers |-> NULL]
    /\ tqueue = [t \in Timers |-> NULL]
    /\ blob = [t \in Timers |-> "none"]
    /\ cpc = [c \in Callers |-> "run"]
    /\ cslot = [c \in Callers |-> 0]
    /\ ctimer = [c \in Callers |-> NULL]
    /\ doomed = [c \in Callers |-> {}]
    /\ joined = {} /\ rejoined = {}
    /\ life = [k \in Queues |-> "open"]
    /\ length = [k \in Queues |-> 0]

Step(c, place) == cpc' = [cpc EXCEPT ![c] = place]
Timer(t, place) == tpc' = [tpc EXCEPT ![t] = place]

-----------------------------------------------------------------------------
\* AFTER or EVERY, with every slot occupied: the blob is freed.
NoSlot(c, t, k) ==
    /\ c \in Starters /\ cpc[c] = "run" /\ tpc[t] = "none"
    /\ \A i \in Slots : active[i]
    /\ Timer(t, "gone")
    /\ blob' = [blob EXCEPT ![t] = "freed"]
    /\ UNCHANGED <<table, tslot, tqueue, callers, joins, queues>>

\* A faulty variant: any slot will do.
AcquireAny(c, t, k) ==
    /\ c \in Starters /\ cpc[c] = "run" /\ tpc[t] = "none" /\ life[k] = "open"
    /\ \E i \in Slots :
        /\ active' = [active EXCEPT ![i] = TRUE]
        /\ cancel' = [cancel EXCEPT ![i] = FALSE]
        /\ thread' = [thread EXCEPT ![i] = NULL]
        /\ cslot' = [cslot EXCEPT ![c] = i]
        /\ tslot' = [tslot EXCEPT ![t] = i]
    /\ tqueue' = [tqueue EXCEPT ![t] = k]
    /\ blob' = [blob EXCEPT ![t] = "held"]
    /\ ctimer' = [ctimer EXCEPT ![c] = t]
    /\ Timer(t, "ready")
    /\ Step(c, "start")
    /\ UNCHANGED <<doomed, joins, queues>>

\* acquireTimerSlot takes the first inactive slot; the statement fills in the
\* context of the thread.  The queue comes from a handle that is not awaited.
Acquire(c, t, k) ==
    /\ c \in Starters /\ cpc[c] = "run" /\ tpc[t] = "none" /\ life[k] = "open"
    /\ \E i \in Slots :
        /\ ~active[i] /\ \A j \in 0 .. i - 1 : active[j]
        /\ active' = [active EXCEPT ![i] = TRUE]
        /\ cancel' = [cancel EXCEPT ![i] = FALSE]
        /\ thread' = [thread EXCEPT ![i] = NULL]
        /\ cslot' = [cslot EXCEPT ![c] = i]
        /\ tslot' = [tslot EXCEPT ![t] = i]
    /\ tqueue' = [tqueue EXCEPT ![t] = k]
    /\ blob' = [blob EXCEPT ![t] = "held"]
    /\ ctimer' = [ctimer EXCEPT ![c] = t]
    /\ Timer(t, "ready")
    /\ Step(c, "start")
    /\ UNCHANGED <<doomed, joins, queues>>

\* The thread (or its context) cannot be created: the slot is given back.
CreateFails(c) ==
    /\ cpc[c] = "start"
    /\ Timer(ctimer[c], "gone")
    /\ blob' = [blob EXCEPT ![ctimer[c]] = "freed"]
    /\ active' = [active EXCEPT ![cslot[c]] = FALSE]
    /\ ctimer' = [ctimer EXCEPT ![c] = NULL]
    /\ Step(c, "run")
    /\ UNCHANGED <<cancel, thread, tslot, tqueue, cslot, doomed, joins, queues>>

\* The thread runs from here on, before the caller has stored it.
Create(c) ==
    /\ cpc[c] = "start"
    /\ Timer(ctimer[c], "sleep")
    /\ Step(c, "store")
    /\ UNCHANGED <<table, tslot, tqueue, blob, cslot, ctimer, doomed, joins, queues>>

\* A faulty variant: the handle of the thread is dropped.
StoreForgets(c) ==
    /\ cpc[c] = "store"
    /\ ctimer' = [ctimer EXCEPT ![c] = NULL]
    /\ Step(c, "run")
    /\ UNCHANGED <<table, threads, cslot, doomed, joins, queues>>

\* The caller stores the thread in the slot, whoever has the slot by then.
Store(c) ==
    /\ cpc[c] = "store"
    /\ thread' = [thread EXCEPT ![cslot[c]] = ctimer[c]]
    /\ ctimer' = [ctimer EXCEPT ![c] = NULL]
    /\ Step(c, "run")
    /\ UNCHANGED <<active, cancel, threads, cslot, doomed, joins, queues>>

-----------------------------------------------------------------------------
\* sleepWithCancel sees the flag; EVERY leaves its loop and frees the blob.
SeesCancel(t) ==
    /\ tpc[t] = "sleep" /\ t \in Repeating /\ cancel[tslot[t]]
    /\ Timer(t, "mark")
    /\ blob' = [blob EXCEPT ![t] = "freed"]
    /\ UNCHANGED <<table, tslot, tqueue, callers, joins, queues>>

\* EVERY could not clone the blob.
CloneFails(t) ==
    /\ tpc[t] = "sleep" /\ t \in Repeating /\ ~cancel[tslot[t]]
    /\ Timer(t, "mark")
    /\ blob' = [blob EXCEPT ![t] = "freed"]
    /\ UNCHANGED <<table, tslot, tqueue, callers, joins, queues>>

\* The delay is over.  EVERY looks at the flag once more and clones the blob;
\* AFTER never looks at the flag.
Fires(t) ==
    /\ tpc[t] = "sleep" /\ (t \in Repeating => ~cancel[tslot[t]])
    /\ Timer(t, "push")
    /\ UNCHANGED <<table, tslot, tqueue, blob, callers, joins, queues>>

\* A faulty variant: a rejected EVERY forgets the blob it made its clones of.
AfterPushForgets(t, accepted) ==
    IF t \in Repeating
    THEN /\ Timer(t, IF accepted THEN "sleep" ELSE "mark")
         /\ UNCHANGED blob
    ELSE /\ Timer(t, "mark")
         /\ blob' = [blob EXCEPT ![t] = IF accepted THEN "queued" ELSE "freed"]

\* What follows the push: EVERY goes on, unless it was rejected; AFTER ends.
\* The blob of an AFTER is in the queue, or freed by a push that was rejected.
AfterPush(t, accepted) ==
    IF t \in Repeating
    THEN /\ Timer(t, IF accepted THEN "sleep" ELSE "mark")
         /\ blob' = [blob EXCEPT ![t] = IF accepted THEN @ ELSE "freed"]
    ELSE /\ Timer(t, "mark")
         /\ blob' = [blob EXCEPT ![t] = IF accepted THEN "queued" ELSE "freed"]

\* msg_queue_push waits while the queue is full and open.
PushAccepted(t) ==
    LET k == tqueue[t]
    IN  /\ tpc[t] = "push" /\ life[k] = "open" /\ length[k] < Capacity
        /\ length' = [length EXCEPT ![k] = @ + 1]
        /\ AfterPush(t, TRUE)
        /\ UNCHANGED <<table, tslot, tqueue, callers, joins, life>>

PushRejected(t) ==
    /\ tpc[t] = "push" /\ life[tqueue[t]] = "closed"
    /\ AfterPush(t, FALSE)
    /\ UNCHANGED <<table, tslot, tqueue, callers, joins, queues>>

\* The memory of the queue is gone; what the push finds there may look like an
\* open or a closed queue.
PushOnFreed(t) ==
    /\ tpc[t] = "push" /\ life[tqueue[t]] = "freed"
    /\ \E accepted \in BOOLEAN : AfterPush(t, accepted)
    /\ UNCHANGED <<table, tslot, tqueue, callers, joins, queues>>

\* A faulty variant: a thread ends without a mark.
EndUnmarked(t) ==
    /\ tpc[t] = "mark"
    /\ Timer(t, "gone")
    /\ UNCHANGED <<table, tslot, tqueue, blob, callers, joins, queues>>

\* The last thing a timer does: it marks its slot inactive.
Mark(t) ==
    /\ tpc[t] = "mark"
    /\ active' = [active EXCEPT ![tslot[t]] = FALSE]
    /\ thread' = [thread EXCEPT ![tslot[t]] = NULL]
    /\ Timer(t, "gone")
    /\ UNCHANGED <<cancel, tslot, tqueue, blob, callers, joins, queues>>

-----------------------------------------------------------------------------
\* A faulty variant: timer_stop joins without setting the flag.
StopNoFlag(c, i) ==
    /\ c \in Stoppers /\ cpc[c] = "run" /\ active[i]
    /\ cslot' = [cslot EXCEPT ![c] = i]
    /\ ctimer' = [ctimer EXCEPT ![c] = thread[i]]
    /\ doomed' = [doomed EXCEPT ![c] = {t \in Alive : tslot[t] = i}]
    /\ Step(c, "join")
    /\ UNCHANGED <<active, cancel, thread, threads, joins, queues>>

\* TIMER STOP <id>: timer_stop sets the flag and reads the thread ...
Stop(c, i) ==
    /\ c \in Stoppers /\ cpc[c] = "run" /\ active[i]
    /\ cancel' = [cancel EXCEPT ![i] = TRUE]
    /\ cslot' = [cslot EXCEPT ![c] = i]
    /\ ctimer' = [ctimer EXCEPT ![c] = thread[i]]
    /\ doomed' = [doomed EXCEPT ![c] = {t \in Alive : tslot[t] = i}]
    /\ Step(c, "join")
    /\ UNCHANGED <<active, thread, threads, joins, queues>>

\* thread.join(), when a thread was read.
JoinThen(c, place) ==
    LET t == ctimer[c]
    IN  /\ t # NULL => tpc[t] = "gone"
        /\ joined' = joined \cup ({t} \ {NULL})
        /\ rejoined' = rejoined \cup ({t} \cap joined)
        /\ ctimer' = [ctimer EXCEPT ![c] = NULL]
        /\ Step(c, place)
        /\ UNCHANGED <<table, threads, cslot, doomed, queues>>

\* ... joins it outside the mutex ...
StopJoins(c) == cpc[c] = "join" /\ JoinThen(c, "clear")

\* ... and marks the slot inactive.
StopClears(c) ==
    /\ cpc[c] = "clear"
    /\ active' = [active EXCEPT ![cslot[c]] = FALSE]
    /\ thread' = [thread EXCEPT ![cslot[c]] = NULL]
    /\ doomed' = [doomed EXCEPT ![c] = {}]
    /\ Step(c, "run")
    /\ UNCHANGED <<cancel, threads, cslot, ctimer, joins, queues>>

\* TIMER STOP ALL, and the end of the program: timer_stop_all flags every
\* active slot in one critical section ...
StopAll(c) ==
    /\ c \in Stoppers /\ cpc[c] = "run"
    /\ cancel' = [i \in Slots |-> cancel[i] \/ active[i]]
    /\ cslot' = [cslot EXCEPT ![c] = 0]
    /\ doomed' = [doomed EXCEPT ![c] = Alive]
    /\ Step(c, "look")
    /\ UNCHANGED <<active, thread, threads, ctimer, joins, queues>>

\* ... then for each slot reads the thread ...
Look(c) ==
    /\ cpc[c] = "look"
    /\ ctimer' = [ctimer EXCEPT ![c] = thread[cslot[c]]]
    /\ Step(c, "joinAll")
    /\ UNCHANGED <<table, threads, cslot, doomed, joins, queues>>

\* ... joins it ...
JoinNext(c) == cpc[c] = "joinAll" /\ JoinThen(c, "clearAll")

\* A faulty variant: the loop runs past the table.
ClearNextPastEnd(c) ==
    /\ cpc[c] = "clearAll"
    /\ active' = [active EXCEPT ![cslot[c]] = FALSE]
    /\ thread' = [thread EXCEPT ![cslot[c]] = NULL]
    /\ IF cslot[c] <= MaxTimers - 1
       THEN cslot' = [cslot EXCEPT ![c] = @ + 1] /\ Step(c, "look") /\ UNCHANGED doomed
       ELSE /\ doomed' = [doomed EXCEPT ![c] = {}]
            /\ Step(c, "run") /\ UNCHANGED cslot
    /\ UNCHANGED <<cancel, threads, ctimer, joins, queues>>

\* ... and marks the slot inactive, whoever has it by then.
ClearNext(c) ==
    /\ cpc[c] = "clearAll"
    /\ active' = [active EXCEPT ![cslot[c]] = FALSE]
    /\ thread' = [thread EXCEPT ![cslot[c]] = NULL]
    /\ IF cslot[c] < MaxTimers - 1
       THEN cslot' = [cslot EXCEPT ![c] = @ + 1] /\ Step(c, "look") /\ UNCHANGED doomed
       ELSE /\ doomed' = [doomed EXCEPT ![c] = {}]
            /\ Step(c, "run") /\ UNCHANGED cslot
    /\ UNCHANGED <<cancel, threads, ctimer, joins, queues>>

-----------------------------------------------------------------------------
\* The reader of a queue takes a message.
Take(k) ==
    /\ k \in Read /\ life[k] = "open" /\ length[k] > 0
    /\ length' = [length EXCEPT ![k] = @ - 1]
    /\ UNCHANGED <<table, threads, callers, joins, life>>

\* AWAIT, by the main thread, of the worker that has the queue:
\* msg_drain_and_destroy closes it, sleeps a millisecond and releases it,
\* whatever timers still target it.
Close(k) ==
    /\ cpc[Main] = "run" /\ life[k] = "open"
    /\ life' = [life EXCEPT ![k] = "closed"]
    /\ Step(Main, "await")
    /\ UNCHANGED <<table, threads, cslot, ctimer, doomed, joins, length>>
Release(k) ==
    /\ cpc[Main] = "await" /\ life[k] = "closed"
    /\ life' = [life EXCEPT ![k] = "freed"]
    /\ length' = [length EXCEPT ![k] = 0]
    /\ Step(Main, "run")
    /\ UNCHANGED <<table, threads, cslot, ctimer, doomed, joins>>

TimerStep(t) == \/ SeesCancel(t) \/ Fires(t) \/ Mark(t)
                \/ PushAccepted(t) \/ PushRejected(t) \/ PushOnFreed(t)
CallerStep(c) == \/ CreateFails(c) \/ Create(c) \/ Store(c)
                 \/ StopJoins(c) \/ StopClears(c)
                 \/ Look(c) \/ JoinNext(c) \/ ClearNext(c)
Start(c) == \E t \in Timers, k \in Queues : Acquire(c, t, k) \/ NoSlot(c, t, k)

Next == \/ \E t \in Timers : TimerStep(t) \/ CloneFails(t)
        \/ \E c \in Callers : \/ CallerStep(c) \/ Start(c) \/ StopAll(c)
                              \/ \E i \in Slots : Stop(c, i)
        \/ \E k \in Queues : Take(k) \/ Close(k) \/ Release(k)

Spec == Init /\ [][Next]_vars

\* Threads that can run do run, a sleep ends, a sleeping EVERY looks at its
\* flag at least every 100 ms, and the reader of a queue in Read keeps
\* receiving.  A producer that waits for room gets it in the end: the pop
\* signals it, and the other timers sleep for a millisecond or more.
FairSpec ==
    /\ Spec
    /\ \A t \in Timers : /\ WF_vars(TimerStep(t))
                          /\ SF_vars(SeesCancel(t)) /\ SF_vars(PushAccepted(t))
    /\ \A c \in Callers : WF_vars(CallerStep(c))
    /\ \A k \in Queues : WF_vars(Take(k))

-----------------------------------------------------------------------------
\* Every variable stays in its range.
TypeOK ==
    /\ active \in [Slots -> BOOLEAN] /\ cancel \in [Slots -> BOOLEAN]
    /\ thread \in [Slots -> Timers \cup {NULL}]
    /\ tpc \in [Timers -> TimerPlaces]
    /\ tslot \in [Timers -> Slots \cup {NULL}]
    /\ tqueue \in [Timers -> Queues \cup {NULL}]
    /\ blob \in [Timers -> {"none", "held", "queued", "freed"}]
    /\ cpc \in [Callers -> CallerPlaces]
    /\ cslot \in [Callers -> Slots]
    /\ ctimer \in [Callers -> Timers \cup {NULL}]
    /\ doomed \in [Callers -> SUBSET Timers]
    /\ joined \subseteq Timers /\ rejoined \subseteq Timers
    /\ life \in [Queues -> {"open", "closed", "freed"}]
    /\ length \in [Queues -> 0 .. Capacity]

\* A running timer has an active slot to itself, whose stored thread, once it
\* is stored, is its own: TIMER STOP cancels and joins the right thread, and no
\* thread is joined twice, whatever TIMER STOPs follow each other.
OwnSlot ==
    /\ rejoined = {}
    /\ \A t \in Alive :
         /\ active[tslot[t]]
         /\ thread[tslot[t]] \in {t, NULL}
         /\ \A u \in Alive : tslot[u] = tslot[t] => u = t

\* A slot that is active has a timer in it, or one about to be created: the
\* table does not run out of slots by and by.
SlotsComeBack ==
    \A i \in Slots : active[i] =>
        \/ \E t \in Alive : tslot[t] = i
        \/ \E t \in Timers : tpc[t] = "ready" /\ tslot[t] = i

\* "Stop all active timers ... joins all threads": when timer_stop_all (or
\* timer_stop) is about to return, the threads that ran when it was called
\* are gone.
Returning(c) == \/ cpc[c] = "clear"
                \/ cpc[c] = "clearAll" /\ cslot[c] = MaxTimers - 1
StopLeavesNone ==
    \A c \in Callers : Returning(c) => doomed[c] \cap Alive = {}

\* The blob of a timer that ended, or never ran, is in a queue or freed.
BlobSettled == \A t \in Timers : tpc[t] = "gone" => blob[t] \in {"queued", "freed"}

\* "If the target queue is closed (e.g. AWAIT already ran), msg_queue_push
\* returns 0 and frees the blob.  No leak, no crash."
PushesOnLiveQueue == \A t \in Timers : tpc[t] = "push" => life[tqueue[t]] # "freed"

\* "... so timer_stop() returns promptly": a TIMER STOP returns, when the queue
\* of the timer has a reader or is closed.
StopReturns == \A c \in Callers : cpc[c] \in {"join", "joinAll"} ~> cpc[c] = "run"
=============================================================================
