-------------------------- MODULE WorkerMessaging --------------------------
(***************************************************************************)
(* A BASIC program with its workers: SPAWN, SEND, RECEIVE, MATCH RECEIVE,  *)
(* HASMESSAGE, CANCEL, CANCELLED, READY, AWAIT and the end of the program, *)
(* as the compiler emits them (zig_compiler/src/codegen.zig) and the       *)
(* runtime carries them out (worker_runtime.c, messaging.zig).             *)
(*                                                                         *)
(* A queue is the first-in first-out channel that MessageQueue is shown to *)
(* implement: a push or pop that would wait is an action that is not       *)
(* enabled yet (NoLostWakeup there is why this is enough).  The program is *)
(* any sequence of statements, within the limits Style and Blobs set; but  *)
(* in an arm of MATCH RECEIVE it only forwards, reaches the end or returns.*)
(***************************************************************************)
EXTENDS Integers, Sequences, FiniteSets

CONSTANTS Workers,    \* one per SPAWN: the future handle and its thread
          Messaging,  \* those spawned by worker_spawn_messaging
          Blobs,      \* message envelopes; bounds what a program can send
          Signals,    \* the blobs that msg_cancel makes
          Capacity,   \* MSG_QUEUE_CAPACITY
          Main,       \* the main thread
          NULL,
          Style       \* what the BASIC program does, out of Habits

\* bareReceive    asks for a message that HASMESSAGE has not announced
\* sendTwice      sends the variable of a MATCH RECEIVE arm more than once
\* sendElsewhere  sends it to another worker than the one it came from
\* returnInArm    returns from a worker inside a MATCH RECEIVE arm
\* untilCancelled workers run until CANCELLED(PARENT) is true, and look at it
\*                before every RECEIVE
Habits == {"bareReceive", "sendTwice", "sendElsewhere", "returnInArm",
           "untilCancelled"}

ASSUME ProgramAssumption ==
    /\ Messaging \subseteq Workers /\ Main \notin Workers /\ NULL \notin Workers
    /\ Signals \subseteq Blobs /\ NULL \notin Blobs \cup BOOLEAN
    /\ Capacity \in Nat \ {0}
    /\ Style \subseteq Habits

Threads == Workers \cup {Main}
Queues == Workers \X {"outbox", "inbox"}

VARIABLES
    handle,     \* the memory of each FutureHandle
    life,       \* the memory of each queue
    chan,       \* the messages in each queue
    closed,     \* the closed flag of each queue
    cancelled,  \* the cancel flag of each outbox
    done,       \* FutureHandle.done
    result,     \* FutureHandle.result has the value the worker returned
    pc,         \* where each thread stands
    at,         \* the worker a thread's statement names
    slot,       \* the blob a thread has to release or to push
    bound,      \* the blob whose payload a MATCH RECEIVE variable points into
    sentTo,     \* the queue the program last named for each blob
    announced,  \* queues of which HASMESSAGE said there is a message
    saw,        \* what a worker's last CANCELLED(PARENT) said
    ready,      \* workers of which READY said 1
    got,        \* what AWAIT returned: whether it was the worker's value
    made, freed \* blobs allocated, blobs released

future == <<handle, done, result, ready, got>>
queue == <<life, chan, closed, cancelled>>
blobs == <<slot, bound, sentTo, made, freed>>
control == <<pc, at, announced, saw>>
vars == <<future, queue, blobs, control>>

(***************************************************************************)
(*  none       a worker that is not spawned yet                            *)
(*  run        between two statements                                      *)
(*  push       in msg_queue_push with a blob marshalled by SEND            *)
(*  cancel     in msg_cancel, the flag is stored                           *)
(*  signal     in msg_cancel, pushing the signal blob                      *)
(*  pop        in msg_queue_pop for RECEIVE                                *)
(*  match      in msg_queue_pop for MATCH RECEIVE                          *)
(*  holding    RECEIVE has a blob to unmarshall                            *)
(*  arm        in the body of a CASE arm of MATCH RECEIVE                  *)
(*  forward    in msg_blob_forward, called from an arm                     *)
(*  finish     a worker that locked its handle to report completion        *)
(*  exited     the thread of a worker, or the program, is gone             *)
(*  await      in worker_await, about to test done                         *)
(*  sleep      in worker_await, waiting on the condition variable          *)
(*  join       in worker_await, joining the thread                         *)
(*  close      in msg_drain_and_destroy, about to close both queues        *)
(*  outbox, inbox  about to destroy the outbox, the inbox                  *)
(*  release    about to free the handle                                    *)
(***************************************************************************)
WorkerPlaces == {"none", "run", "push", "pop", "match", "holding", "arm",
                 "forward", "finish", "exited"}
MainPlaces == {"run", "push", "cancel", "signal", "pop", "match", "holding",
               "arm", "forward", "await", "sleep", "join", "close",
               "outbox", "inbox", "release", "exited"}

Init ==
    /\ handle = [w \in Workers |-> "none"]
    /\ life = [k \in Queues |-> "none"]
    /\ chan = [k \in Queues |-> << >>]
    /\ closed = [k \in Queues |-> FALSE]
    /\ cancelled = [w \in Workers |-> FALSE]
    /\ done = [w \in Workers |-> FALSE]
    /\ result = [w \in Workers |-> FALSE]
    /\ pc = [t \in Threads |-> IF t = Main THEN "run" ELSE "none"]
    /\ at = [t \in Threads |-> IF t = Main THEN NULL ELSE t]
    /\ slot = [t \in Threads |-> NULL]
    /\ bound = [t \in Threads |-> NULL]
    /\ sentTo = [b \in Blobs |-> NULL]
    /\ announced = {} /\ saw = [w \in Workers |-> "unknown"]
    /\ ready = {} /\ got = [w \in Workers |-> NULL]
    /\ made = {} /\ freed = {}

-----------------------------------------------------------------------------
\* The queues a thread writes and reads when its statement names worker w:
\* PARENT and a future handle resolve to opposite directions.
SendQueue(t, w) == IF t = Main THEN <<w, "outbox">> ELSE <<t, "inbox">>
ReceiveQueue(t, w) == IF t = Main THEN <<w, "inbox">> ELSE <<t, "outbox">>

\* The queue the forward of an arm goes to is resolved from the handle of the
\* MATCH RECEIVE, whatever handle the SEND names.
ForwardQueue(t, w) == SendQueue(t, w)

\* The workers a statement of thread t may name: main uses a handle from SPAWN
\* to AWAIT, a worker has PARENT.
Named(t) == IF t = Main THEN {w \in Messaging : handle[w] = "live"}
                        ELSE {t} \cap Messaging

Goto(t, place) == pc' = [pc EXCEPT ![t] = place]
Name(t, w) == at' = [at EXCEPT ![t] = w]
IsFull(k) == Len(chan[k]) >= Capacity

-----------------------------------------------------------------------------
\* worker_spawn: allocate the handle, start the thread.
SpawnPlain(w) ==
    /\ pc[Main] = "run" /\ w \notin Messaging /\ handle[w] = "none"
    /\ handle' = [handle EXCEPT ![w] = "live"]
    /\ Goto(w, "run")
    /\ UNCHANGED <<done, result, ready, got, queue, blobs, at, announced, saw>>

\* worker_spawn_messaging: allocate the handle and its two queues, pass the
\* handle as the hidden last argument, start the thread.
Spawn(w) ==
    /\ pc[Main] = "run" /\ w \in Messaging /\ handle[w] = "none"
    /\ handle' = [handle EXCEPT ![w] = "live"]
    /\ life' = [k \in Queues |-> IF k[1] = w THEN "live" ELSE life[k]]
    /\ Goto(w, "run")
    /\ UNCHANGED <<done, result, ready, got, chan, closed, cancelled, blobs,
                   at, announced, saw>>

\* SEND: marshal the value into a new blob.
Send(t, w, b) ==
    /\ pc[t] = "run" /\ w \in Named(t)
    /\ b \in Blobs \ (made \cup Signals)
    /\ made' = made \cup {b}
    /\ slot' = [slot EXCEPT ![t] = b]
    /\ sentTo' = [sentTo EXCEPT ![b] = SendQueue(t, w)]
    /\ Goto(t, "push") /\ Name(t, w)
    /\ UNCHANGED <<future, queue, bound, freed, announced, saw>>

\* A faulty variant: the wait for room is left after its first timeout.
PushAnyway(t) ==
    LET k == SendQueue(t, at[t])
    IN  /\ pc[t] \in {"push", "signal"}
        /\ chan' = [chan EXCEPT ![k] = Append(@, slot[t])]
        /\ slot' = [slot EXCEPT ![t] = NULL]
        /\ Goto(t, "run")
        /\ UNCHANGED <<future, life, closed, cancelled, bound, sentTo, made,
                       freed, at, announced, saw>>

\* msg_queue_push enqueues once there is room.
Push(t) ==
    LET k == SendQueue(t, at[t])
    IN  /\ pc[t] \in {"push", "signal"} /\ ~IsFull(k)
        /\ chan' = [chan EXCEPT ![k] = Append(@, slot[t])]
        /\ slot' = [slot EXCEPT ![t] = NULL]
        /\ Goto(t, "run")
        /\ UNCHANGED <<future, life, closed, cancelled, bound, sentTo, made,
                       freed, at, announced, saw>>

\* HASMESSAGE.
HasMessage(t, w) ==
    LET k == ReceiveQueue(t, w)
    IN  /\ pc[t] = "run" /\ w \in Named(t)
        /\ announced' = IF chan[k] = << >> THEN announced \ {k}
                                           ELSE announced \cup {k}
        /\ UNCHANGED <<future, queue, blobs, pc, at, saw>>

\* RECEIVE and MATCH RECEIVE start by popping the queue they read.
Receive(t, w) ==
    /\ pc[t] = "run" /\ w \in Named(t)
    /\ "bareReceive" \in Style \/ ReceiveQueue(t, w) \in announced
    /\ announced' = announced \ {ReceiveQueue(t, w)}
    /\ \E place \in {"pop", "match"} : Goto(t, place)
    /\ Name(t, w)
    /\ IF "untilCancelled" \in Style /\ t # Main
       THEN saw[t] = "no" /\ saw' = [saw EXCEPT ![t] = "unknown"]
       ELSE UNCHANGED saw
    /\ UNCHANGED <<future, queue, blobs>>

\* msg_queue_pop returns the first message once there is one.  MATCH RECEIVE
\* selects an arm by the tag; a forward arm binds its variable to the payload
\* inside the blob, which only the flat types of a SEND allow.
Pop(t) ==
    LET k == ReceiveQueue(t, at[t])
        b == Head(chan[k])
    IN  /\ pc[t] \in {"pop", "match"} /\ chan[k] # << >>
        /\ chan' = [chan EXCEPT ![k] = Tail(@)]
        /\ slot' = [slot EXCEPT ![t] = b]
        /\ IF pc[t] = "pop"
           THEN Goto(t, "holding") /\ UNCHANGED bound
           ELSE /\ Goto(t, "arm")
                /\ \/ UNCHANGED bound
                   \/ b \notin Signals /\ bound' = [bound EXCEPT ![t] = b]
        /\ UNCHANGED <<future, life, closed, cancelled, sentTo, made, freed,
                       at, announced, saw>>

\* msg_unmarshall_*: read the value, or report a wrong tag; free the blob.
Unmarshall(t) ==
    /\ pc[t] = "holding"
    /\ freed' = freed \cup {slot[t]}
    /\ slot' = [slot EXCEPT ![t] = NULL]
    /\ Goto(t, "run")
    /\ UNCHANGED <<future, queue, bound, sentTo, made, at, announced, saw>>

\* In a forward arm, a SEND of the bound variable whose handle has the same
\* direction as the MATCH RECEIVE's becomes a forward of the blob.  The main
\* program may name any worker's handle there.
Forward(t, w) ==
    /\ pc[t] = "arm" /\ bound[t] # NULL /\ w \in Named(t)
    /\ "sendTwice" \in Style \/ slot[t] # NULL
    /\ "sendElsewhere" \in Style \/ w = at[t]
    /\ sentTo' = [sentTo EXCEPT ![bound[t]] = SendQueue(t, w)]
    /\ Goto(t, "forward")
    /\ UNCHANGED <<future, queue, slot, bound, made, freed, at, announced, saw>>

\* A faulty variant: the slot is not cleared after the forward.
PushForwardKeepsSlot(t) ==
    LET k == ForwardQueue(t, at[t])
    IN  /\ pc[t] = "forward" /\ ~IsFull(k)
        /\ chan' = [chan EXCEPT ![k] = Append(@, bound[t])]
        /\ Goto(t, "arm")
        /\ UNCHANGED <<future, life, closed, cancelled, slot, bound, sentTo,
                       made, freed, at, announced, saw>>

\* msg_blob_forward pushes the blob and the arm clears the slot, so that the
\* end of the MATCH RECEIVE does not free it.
PushForward(t) ==
    LET k == ForwardQueue(t, at[t])
    IN  /\ pc[t] = "forward" /\ ~IsFull(k)
        /\ chan' = [chan EXCEPT ![k] = Append(@, bound[t])]
        /\ slot' = [slot EXCEPT ![t] = NULL]
        /\ Goto(t, "arm")
        /\ UNCHANGED <<future, life, closed, cancelled, bound, sentTo, made,
                       freed, at, announced, saw>>

\* END MATCH: free what is left in the slot (nothing after a forward).
EndMatch(t) ==
    /\ pc[t] = "arm"
    /\ freed' = freed \cup ({slot[t]} \ {NULL})
    /\ slot' = [slot EXCEPT ![t] = NULL]
    /\ bound' = [bound EXCEPT ![t] = NULL]
    /\ Goto(t, "run")
    /\ UNCHANGED <<future, queue, sentTo, made, at, announced, saw>>

-----------------------------------------------------------------------------
\* CANCEL: msg_cancel stores the flag of the outbox ...
Cancel(w) ==
    /\ pc[Main] = "run" /\ w \in Named(Main) /\ Signals \ made # {}
    /\ cancelled' = [cancelled EXCEPT ![w] = TRUE]
    /\ Goto(Main, "cancel") /\ Name(Main, w)
    /\ UNCHANGED <<future, life, chan, closed, blobs, announced, saw>>

\* A faulty variant: msg_cancel trusts the flag alone.
FlagOnly(b) ==
    /\ pc[Main] = "cancel" /\ b \in Signals \ made
    /\ Goto(Main, "run")
    /\ UNCHANGED <<future, queue, blobs, at, announced, saw>>

\* ... then pushes a signal blob, as any other message.
MarshallSignal(b) ==
    /\ pc[Main] = "cancel" /\ b \in Signals \ made
    /\ made' = made \cup {b}
    /\ slot' = [slot EXCEPT ![Main] = b]
    /\ sentTo' = [sentTo EXCEPT ![b] = SendQueue(Main, at[Main])]
    /\ Goto(Main, "signal")
    /\ UNCHANGED <<future, queue, bound, freed, at, announced, saw>>

\* CANCELLED(PARENT) reads the flag; the answer is kept for the programs that
\* depend on it.
IsCancelled(w) ==
    /\ pc[w] = "run" /\ w \in Messaging /\ "untilCancelled" \in Style
    /\ saw' = [saw EXCEPT ![w] = IF cancelled[w] THEN "yes" ELSE "no"]
    /\ UNCHANGED <<future, queue, blobs, pc, at, announced>>

-----------------------------------------------------------------------------
\* Where the program lets a worker function return.
MayReturn(w) ==
    /\ pc[w] = "run" \/ ("returnInArm" \in Style /\ pc[w] = "arm")
    /\ w \in Messaging /\ "untilCancelled" \in Style => saw[w] = "yes"

\* A faulty variant: completion is recorded but the waiter is not signalled.
CompleteSilently(w) ==
    /\ MayReturn(w)
    /\ done' = [done EXCEPT ![w] = TRUE]
    /\ result' = [result EXCEPT ![w] = TRUE]
    /\ pc' = [pc EXCEPT ![w] = "finish"]
    /\ UNCHANGED <<handle, ready, got, queue, blobs, at, announced, saw>>

\* The worker function returns (a RETURN does not pass by END MATCH);
\* worker_thread_entry stores the result, sets
\* done and signals, under the mutex of the handle.
Complete(w) ==
    /\ MayReturn(w)
    /\ done' = [done EXCEPT ![w] = TRUE]
    /\ result' = [result EXCEPT ![w] = TRUE]
    /\ pc' = [pc EXCEPT ![w] = "finish",
                        ![Main] = IF @ = "sleep" /\ at[Main] = w THEN "await" ELSE @]
    /\ UNCHANGED <<handle, ready, got, queue, blobs, at, announced, saw>>

\* It unlocks the mutex, which is in the handle, and the thread ends.
ThreadEnds(w) ==
    /\ pc[w] = "finish"
    /\ Goto(w, "exited")
    /\ UNCHANGED <<future, queue, blobs, at, announced, saw>>

\* READY.
Ready(w) ==
    /\ pc[Main] = "run" /\ handle[w] = "live"
    /\ ready' = IF done[w] THEN ready \cup {w} ELSE ready
    /\ UNCHANGED <<handle, done, result, got, queue, blobs, control>>

\* AWAIT: worker_await locks the handle ...
Await(w) ==
    /\ pc[Main] = "run" /\ handle[w] = "live"
    /\ Goto(Main, "await") /\ Name(Main, w)
    /\ UNCHANGED <<future, queue, blobs, announced, saw>>

\* A faulty variant: the wait is skipped.
AwaitNoWait ==
    /\ pc[Main] = "await"
    /\ got' = [got EXCEPT ![at[Main]] = result[at[Main]]]
    /\ Goto(Main, "join")
    /\ UNCHANGED <<handle, done, result, ready, queue, blobs, at, announced, saw>>

\* ... sleeps while done is not set ...
AwaitSleeps ==
    /\ pc[Main] = "await" /\ ~done[at[Main]]
    /\ Goto(Main, "sleep")
    /\ UNCHANGED <<future, queue, blobs, at, announced, saw>>

\* (a condition variable may also wake up for no reason)
AwaitWakes ==
    /\ pc[Main] = "sleep"
    /\ Goto(Main, "await")
    /\ UNCHANGED <<future, queue, blobs, at, announced, saw>>

\* ... reads the result after the unlock ...
AwaitReads ==
    /\ pc[Main] = "await" /\ done[at[Main]]
    /\ got' = [got EXCEPT ![at[Main]] = result[at[Main]]]
    /\ Goto(Main, "join")
    /\ UNCHANGED <<handle, done, result, ready, queue, blobs, at, announced, saw>>

\* A faulty variant: done is taken to mean that the thread is gone.
DontJoin ==
    /\ pc[Main] = "join"
    /\ Goto(Main, IF at[Main] \in Messaging THEN "close" ELSE "release")
    /\ UNCHANGED <<future, queue, blobs, at, announced, saw>>

\* ... joins the thread ...
Join ==
    /\ pc[Main] = "join" /\ pc[at[Main]] = "exited"
    /\ Goto(Main, IF at[Main] \in Messaging THEN "close" ELSE "release")
    /\ UNCHANGED <<future, queue, blobs, at, announced, saw>>

\* ... closes both queues (msg_drain_and_destroy) ...
CloseBoth ==
    /\ pc[Main] = "close"
    /\ closed' = [k \in Queues |-> closed[k] \/ k[1] = at[Main]]
    /\ Goto(Main, "outbox")
    /\ UNCHANGED <<future, life, chan, cancelled, blobs, at, announced, saw>>

\* A faulty variant: a queue is released with its messages.
DestroyUndrained(side, next) ==
    LET k == <<at[Main], side>>
    IN  /\ pc[Main] = side
        /\ chan' = [chan EXCEPT ![k] = << >>]
        /\ life' = [life EXCEPT ![k] = "freed"]
        /\ Goto(Main, next)
        /\ UNCHANGED <<future, closed, cancelled, blobs, at, announced, saw>>

\* ... destroys them one after the other, with the messages in them ...
Destroy(side, next) ==
    LET k == <<at[Main], side>>
    IN  /\ pc[Main] = side
        /\ freed' = freed \cup {chan[k][i] : i \in DOMAIN chan[k]}
        /\ chan' = [chan EXCEPT ![k] = << >>]
        /\ life' = [life EXCEPT ![k] = "freed"]
        /\ Goto(Main, next)
        /\ UNCHANGED <<future, closed, cancelled, slot, bound, sentTo, made,
                       at, announced, saw>>

\* ... and frees the handle.
ReleaseHandle ==
    /\ pc[Main] = "release"
    /\ handle' = [handle EXCEPT ![at[Main]] = "freed"]
    /\ Goto(Main, "run")
    /\ UNCHANGED <<done, result, ready, got, queue, blobs, at, announced, saw>>

\* The end of the program: samm_shutdown and basic_runtime_cleanup leave
\* handles and queues alone, and the process takes its threads with it.
ProgramEnds ==
    /\ pc[Main] = "run"
    /\ pc' = [t \in Threads |-> IF pc[t] = "none" THEN "none" ELSE "exited"]
    /\ UNCHANGED <<future, queue, blobs, at, announced, saw>>

-----------------------------------------------------------------------------
\* What a thread inside a statement does next.
Continue(t) == \/ Push(t) \/ Pop(t) \/ Unmarshall(t)
               \/ PushForward(t) \/ EndMatch(t)
Awaiting == \/ AwaitSleeps \/ AwaitReads \/ Join \/ CloseBoth
            \/ Destroy("outbox", "inbox") \/ Destroy("inbox", "release")
            \/ ReleaseHandle
Cancelling == \E b \in Blobs : MarshallSignal(b)

\* What a thread may start.
Begin(t) == \E w \in Workers :
    \/ \E b \in Blobs : Send(t, w, b)
    \/ HasMessage(t, w) \/ Receive(t, w) \/ Forward(t, w)
BeginMain == \E w \in Workers :
    SpawnPlain(w) \/ Spawn(w) \/ Cancel(w) \/ Ready(w) \/ Await(w)

Next == \/ \E t \in Threads : Begin(t) \/ Continue(t)
        \/ \E w \in Workers : IsCancelled(w) \/ Complete(w) \/ ThreadEnds(w)
        \/ BeginMain \/ Cancelling \/ Awaiting \/ AwaitWakes \/ ProgramEnds

Spec == Init /\ [][Next]_vars

\* The operating system keeps running a thread that can run, and a worker
\* function that is not stuck in a statement looks at CANCELLED and returns at
\* some point.  Nothing is assumed of spurious wake-ups or of what the main
\* program starts.
FairSpec ==
    /\ Spec
    /\ \A t \in Threads : WF_vars(Continue(t))
    /\ WF_vars(Awaiting) /\ WF_vars(Cancelling)
    /\ \A w \in Workers : /\ WF_vars(IsCancelled(w)) /\ WF_vars(Complete(w))
                          /\ WF_vars(ThreadEnds(w))

-----------------------------------------------------------------------------
\* Every variable stays in its range.
TypeOK ==
    /\ handle \in [Workers -> {"none", "live", "freed"}]
    /\ life \in [Queues -> {"none", "live", "freed"}]
    /\ \A k \in Queues : chan[k] \in Seq(Blobs) /\ Len(chan[k]) <= Capacity
    /\ closed \in [Queues -> BOOLEAN]
    /\ cancelled \in [Workers -> BOOLEAN]
    /\ done \in [Workers -> BOOLEAN] /\ result \in [Workers -> BOOLEAN]
    /\ \A w \in Workers : pc[w] \in WorkerPlaces
    /\ pc[Main] \in MainPlaces
    /\ at \in [Threads -> Workers \cup {NULL}]
    /\ slot \in [Threads -> Blobs \cup {NULL}]
    /\ bound \in [Threads -> Blobs \cup {NULL}]
    /\ sentTo \in [Blobs -> Queues \cup {NULL}]
    /\ announced \subseteq Queues /\ ready \subseteq Workers
    /\ saw \in [Workers -> {"unknown", "no", "yes"}]
    /\ got \in [Workers -> BOOLEAN \cup {NULL}]
    /\ made \subseteq Blobs /\ freed \subseteq Blobs

InChan(k) == {chan[k][i] : i \in DOMAIN chan[k]}
Queued == UNION {InChan(k) : k \in Queues}
InSlots == {slot[t] : t \in Threads} \ {NULL}

\* "Every message blob has exactly one owner at any given time": it is once in
\* one queue, or in the hands of one thread, or freed, across the queues of
\* all workers and through forwards.
OneOwner ==
    /\ \A k, l \in Queues : \A i \in DOMAIN chan[k], j \in DOMAIN chan[l] :
           chan[k][i] = chan[l][j] => k = l /\ i = j
    /\ \A t, u \in Threads : slot[t] = slot[u] /\ slot[t] # NULL => t = u
    /\ Queued \cap InSlots = {}
    /\ (Queued \cup InSlots) \cap freed = {}
    /\ Queued \cup InSlots \cup freed = made

\* A thread inside a statement works on a handle and on queues that are
\* allocated and open.  So the close in AWAIT never finds anyone to wake, and
\* AWAIT keeps the promise msg_queue_destroy needs: no other user is left.
Using(t) == pc[t] \notin {"none", "run", "exited"}
InQueue(t) == pc[t] \in {"push", "cancel", "signal", "pop", "match", "forward"}
UsesAreLive ==
    \A t \in Threads :
        /\ Using(t) => handle[at[t]] = "live"
        /\ InQueue(t) => \A k \in Queues :
               k[1] = at[t] => life[k] = "live" /\ ~closed[k]

\* AWAIT returns the value of the worker, not the initial zero of the handle,
\* and is not asleep for a worker that is done, whichever of the two locked the
\* handle first; in particular it never sleeps after READY said 1.
ResultDelivered ==
    /\ \A w \in Workers : got[w] # FALSE
    /\ pc[Main] = "sleep" => ~done[at[Main]] /\ at[Main] \notin ready

\* AWAIT leaves nothing behind: the thread is gone, the queues are freed with
\* every message that was in them, and when all workers are awaited and the
\* main program is between statements the blob counters balance.
AllReclaimed ==
    /\ \A w \in Workers : handle[w] = "freed" =>
           /\ pc[w] = "exited"
           /\ \A k \in Queues : k[1] = w => life[k] # "live" /\ chan[k] = << >>
    /\ (pc[Main] = "run" /\ \A w \in Workers : handle[w] # "live")
          => made = freed

\* A message travels in the queue of the handle that the program's SEND named.
SentWhereNamed == \A k \in Queues : \A b \in InChan(k) : sentTo[b] = k

Awaits(w) == pc[Main] \in {"await", "sleep"} /\ at[Main] = w
Stuck(w) == pc[w] \in {"push", "forward"} /\ IsFull(<<w, "inbox">>)

\* AWAIT returns, of a worker that runs until CANCELLED(PARENT) and is
\* cancelled, and of a worker without messages, unless the worker is stuck
\* sending to a full inbox that nobody reads any more.
AwaitReturns ==
    \A w \in Workers :
        (Awaits(w) /\ (w \in Messaging => cancelled[w])) ~> (~Awaits(w) \/ Stuck(w))

\* CANCEL stops a worker that runs until CANCELLED(PARENT), even if it sleeps
\* in RECEIVE, unless it is stuck sending or the program ends.
CancelStops ==
    \A w \in Workers : cancelled[w] ~> (done[w] \/ pc[w] = "exited" \/ Stuck(w))

\* "Close outbox (signal worker: no more messages incoming)", before the join.
AwaitUnblocksWorker ==
    \A w \in Workers :
        (Awaits(w) /\ pc[w] \in {"pop", "match"}) ~> pc[w] \notin {"pop", "match"}

\* "If the worker has exited, RECEIVE returns a default zero-value", and a SEND
\* "checks whether the worker is still alive": the main program does not stay
\* in a queue of a worker that is done.
ExitUnblocks ==
    \A w \in Workers :
        (InQueue(Main) /\ at[Main] = w /\ done[w]) ~> ~InQueue(Main)
=============================================================================
