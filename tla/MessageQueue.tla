--------------------------- MODULE MessageQueue ---------------------------
(***************************************************************************)
(* One message queue of the FasterBASIC runtime, used by several threads   *)
(* (zig_compiler/runtime/messaging.zig).  What a thread does between       *)
(* locking and unlocking the queue mutex (or between two waits on a        *)
(* condition variable) is one action; what it does before and after, which *)
(* other threads can observe half done, are actions of their own.          *)
(*                                                                         *)
(* The operations are msg_send_*, msg_queue_push, msg_queue_pop with the   *)
(* release of the popped blob, msg_queue_has_message, msg_cancel,          *)
(* msg_is_cancelled, msg_queue_close and msg_queue_destroy.  The users of  *)
(* the queue keep the two promises the code asks for: only Owner closes    *)
(* and destroys, and it destroys when no thread is inside an operation.    *)
(***************************************************************************)
EXTENDS RingQueue, FiniteSets

CONSTANTS Threads,    \* threads that hold a pointer to the queue
          Senders,    \* those that push
          Receivers,  \* those that pop
          Owner,      \* the one that cancels, closes and destroys
          Signals     \* the blobs that are MSG_SIGNAL envelopes

ASSUME ThreadAssumption ==
    /\ Senders \subseteq Threads
    /\ Receivers \subseteq Threads
    /\ Owner \in Threads
    /\ IsFiniteSet(Threads)
ASSUME SignalAssumption == Signals \subseteq Blobs

VARIABLES
    q,            \* the ring buffer and the closed flag
    cancel_flag,  \* the atomic flag of the queue
    life,         \* whether the memory of the queue is live
    pc,           \* where each thread stands
    reg,          \* the blob each thread holds in a local variable
    has,          \* the thread saw msg_queue_has_message return 1
    made,         \* blobs allocated so far (blobs_created)
    freed,        \* blobs released by msg_blob_free (blobs_freed)
    pushed,       \* messages_pushed
    popped,       \* messages_popped
    dropped       \* messages_dropped

metrics == <<pushed, popped, dropped>>
vars == <<q, cancel_flag, life, pc, reg, has, made, freed, metrics>>

(***************************************************************************)
(*  idle      outside every operation                                      *)
(*  push      in msg_queue_push, about to test the queue                   *)
(*  pushWait  waiting on not_full_cv                                       *)
(*  pushed    unlocked after the enqueue, counter not yet incremented      *)
(*  reject    unlocked because the queue is closed, blob not yet freed     *)
(*  pop       in msg_queue_pop, about to test the queue                    *)
(*  popWait   waiting on not_empty_cv                                      *)
(*  popped    unlocked after the dequeue, counter not yet incremented      *)
(*  holding   msg_queue_pop returned a blob that is not yet unmarshalled   *)
(*  cancel    in msg_cancel, flag stored, signal not yet made              *)
(*  drain     in the loop of msg_queue_destroy, mutex held                 *)
(*  drop      in the loop of msg_queue_destroy, mutex released             *)
(***************************************************************************)
Places == {"idle", "push", "pushWait", "pushed", "reject",
           "pop", "popWait", "popped", "holding", "cancel", "drain", "drop"}

Standing(place) == {t \in Threads : pc[t] = place}

Init ==
    /\ q = NewQueue
    /\ cancel_flag = FALSE
    /\ life = "live"
    /\ pc = [t \in Threads |-> "idle"]
    /\ reg = [t \in Threads |-> NULL]
    /\ has = [t \in Threads |-> FALSE]
    /\ made = {}
    /\ freed = {}
    /\ pushed = 0 /\ popped = 0 /\ dropped = 0

-----------------------------------------------------------------------------
\* Condition variables: signal wakes one waiter, whichever, if there is one;
\* broadcast wakes them all.  A woken thread tests its condition again.
SignalOne(p, wait, retry) ==
    LET waiters == {t \in Threads : p[t] = wait}
    IN  IF waiters = {} THEN {p}
        ELSE {[p EXCEPT ![t] = retry] : t \in waiters}

Broadcast(p) ==
    [t \in Threads |-> CASE p[t] = "pushWait" -> "push"
                         [] p[t] = "popWait"  -> "pop"
                         [] OTHER             -> p[t]]

Goto(t, place) == pc' = [pc EXCEPT ![t] = place]
Load(t, b) == reg' = [reg EXCEPT ![t] = b]

-----------------------------------------------------------------------------
\* msg_send_*: marshal a value into a new blob, then push it.
Send(t, b) ==
    /\ life = "live" /\ t \in Senders /\ pc[t] = "idle"
    /\ b \in Blobs \ (made \cup Signals)
    /\ made' = made \cup {b}
    /\ Load(t, b)
    /\ Goto(t, "push")
    /\ UNCHANGED <<q, cancel_flag, life, has, freed, metrics>>

\* msg_cancel stores the flag first ...
Cancel(t) ==
    /\ life = "live" /\ t = Owner /\ pc[t] = "idle"
    /\ Signals \ made # {}            \* bounds the number of cancels
    /\ cancel_flag' = TRUE
    /\ Goto(t, "cancel")
    /\ UNCHANGED <<q, life, reg, has, made, freed, metrics>>

\* A faulty variant: the signal is made and thrown away.
MarshallSignalDropped(t, b) ==
    /\ pc[t] = "cancel"
    /\ b \in Signals \ made
    /\ made' = made \cup {b}
    /\ freed' = freed \cup {b}
    /\ Goto(t, "idle")
    /\ UNCHANGED <<q, cancel_flag, life, reg, has, metrics>>

\* ... and then makes a signal blob, so that a blocked RECEIVE wakes up.
MarshallSignal(t, b) ==
    /\ pc[t] = "cancel"
    /\ b \in Signals \ made
    /\ made' = made \cup {b}
    /\ Load(t, b)
    /\ Goto(t, "push")
    /\ UNCHANGED <<q, cancel_flag, life, has, freed, metrics>>

\* msg_queue_push finds the queue full and open: it waits on not_full_cv.
PushBlocks(t) ==
    /\ pc[t] = "push" /\ IsFull(q) /\ ~q.closed
    /\ Goto(t, "pushWait")
    /\ UNCHANGED <<q, cancel_flag, life, reg, has, made, freed, metrics>>

\* The 100 ms of the timed wait run out (or the wait returns spuriously).
PushTimesOut(t) ==
    /\ pc[t] = "pushWait"
    /\ Goto(t, "push")
    /\ UNCHANGED <<q, cancel_flag, life, reg, has, made, freed, metrics>>

\* The queue is closed: the push unlocks and will free the blob.
PushRejected(t) ==
    /\ pc[t] = "push" /\ q.closed
    /\ Goto(t, "reject")
    /\ UNCHANGED <<q, cancel_flag, life, reg, has, made, freed, metrics>>

\* A faulty variant: a rejected push forgets its blob.
RejectLeaks(t) ==
    /\ pc[t] = "reject"
    /\ Load(t, NULL)
    /\ Goto(t, "idle")
    /\ UNCHANGED <<q, cancel_flag, life, has, made, freed, metrics>>

RejectFrees(t) ==
    /\ pc[t] = "reject"
    /\ freed' = freed \cup {reg[t]}
    /\ Load(t, NULL)
    /\ Goto(t, "idle")
    /\ UNCHANGED <<q, cancel_flag, life, has, made, metrics>>

\* Faulty variants: a consumer is signalled only when the queue was empty;
\* the closed flag is tested only before a wait.
PushSignalsFirstOnly(t) ==
    /\ pc[t] = "push" /\ ~IsFull(q) /\ ~q.closed
    /\ q' = Enqueue(q, reg[t])
    /\ Load(t, NULL)
    /\ IF IsEmpty(q)
       THEN pc' \in SignalOne([pc EXCEPT ![t] = "pushed"], "popWait", "pop")
       ELSE Goto(t, "pushed")
    /\ UNCHANGED <<cancel_flag, life, has, made, freed, metrics>>
PushIgnoresClose(t) ==
    /\ pc[t] = "push" /\ ~IsFull(q)
    /\ q' = Enqueue(q, reg[t])
    /\ Load(t, NULL)
    /\ pc' \in SignalOne([pc EXCEPT ![t] = "pushed"], "popWait", "pop")
    /\ UNCHANGED <<cancel_flag, life, has, made, freed, metrics>>

\* There is room: enqueue, signal one consumer, unlock.
PushEnqueues(t) ==
    /\ pc[t] = "push" /\ ~IsFull(q) /\ ~q.closed
    /\ q' = Enqueue(q, reg[t])
    /\ Load(t, NULL)
    /\ pc' \in SignalOne([pc EXCEPT ![t] = "pushed"], "popWait", "pop")
    /\ UNCHANGED <<cancel_flag, life, has, made, freed, metrics>>

PushCounted(t) ==
    /\ pc[t] = "pushed"
    /\ pushed' = pushed + 1
    /\ Goto(t, "idle")
    /\ UNCHANGED <<q, cancel_flag, life, reg, has, made, freed, popped, dropped>>

-----------------------------------------------------------------------------
Receive(t) ==
    /\ life = "live" /\ t \in Receivers /\ pc[t] = "idle"
    /\ Goto(t, "pop")
    /\ UNCHANGED <<q, cancel_flag, life, reg, has, made, freed, metrics>>

\* msg_queue_pop finds the queue empty and open: it waits on not_empty_cv.
PopBlocks(t) ==
    /\ pc[t] = "pop" /\ IsEmpty(q) /\ ~q.closed
    /\ Goto(t, "popWait")
    /\ UNCHANGED <<q, cancel_flag, life, reg, has, made, freed, metrics>>

PopTimesOut(t) ==
    /\ pc[t] = "popWait"
    /\ Goto(t, "pop")
    /\ UNCHANGED <<q, cancel_flag, life, reg, has, made, freed, metrics>>

\* Closed and empty: msg_queue_pop returns null.
PopReturnsNull(t) ==
    /\ pc[t] = "pop" /\ IsEmpty(q) /\ q.closed
    /\ has' = [has EXCEPT ![t] = FALSE]
    /\ Goto(t, "idle")
    /\ UNCHANGED <<q, cancel_flag, life, reg, made, freed, metrics>>

\* There is a message: dequeue, signal one producer, unlock.
PopDequeues(t) ==
    /\ pc[t] = "pop" /\ ~IsEmpty(q)
    /\ q' = Dequeue(q)
    /\ Load(t, Front(q))
    /\ has' = [has EXCEPT ![t] = FALSE]
    /\ pc' \in SignalOne([pc EXCEPT ![t] = "popped"], "pushWait", "push")
    /\ UNCHANGED <<cancel_flag, life, made, freed, metrics>>

PopCounted(t) ==
    /\ pc[t] = "popped"
    /\ popped' = popped + 1
    /\ Goto(t, "holding")
    /\ UNCHANGED <<q, cancel_flag, life, reg, has, made, freed, pushed, dropped>>

\* msg_unmarshall_*: the receiver reads the value and frees the blob.
Unmarshall(t) ==
    /\ pc[t] = "holding"
    /\ freed' = freed \cup {reg[t]}
    /\ Load(t, NULL)
    /\ Goto(t, "idle")
    /\ UNCHANGED <<q, cancel_flag, life, has, made, metrics>>

\* A faulty variant: a closed queue counts as one with a message.
HasMessageOrClosed(t) ==
    /\ life = "live" /\ t \in Receivers /\ pc[t] = "idle"
    /\ has' = [has EXCEPT ![t] = ~IsEmpty(q) \/ q.closed]
    /\ UNCHANGED <<q, cancel_flag, life, pc, reg, made, freed, metrics>>

\* msg_queue_has_message reads the count under the mutex; the answer is used
\* after the unlock.
HasMessage(t) ==
    /\ life = "live" /\ t \in Receivers /\ pc[t] = "idle"
    /\ has' = [has EXCEPT ![t] = ~IsEmpty(q)]
    /\ UNCHANGED <<q, cancel_flag, life, pc, reg, made, freed, metrics>>

-----------------------------------------------------------------------------
\* A faulty variant: a close wakes the consumers only.
CloseWakesConsumers(t) ==
    /\ life = "live" /\ t = Owner /\ pc[t] = "idle"
    /\ q' = Closed(q)
    /\ pc' = [u \in Threads |-> IF pc[u] = "popWait" THEN "pop" ELSE pc[u]]
    /\ UNCHANGED <<cancel_flag, life, reg, has, made, freed, metrics>>

\* msg_queue_close: set the flag and wake every waiter.
Close(t) ==
    /\ life = "live" /\ t = Owner /\ pc[t] = "idle"
    /\ q' = Closed(q)
    /\ pc' = Broadcast(pc)
    /\ UNCHANGED <<cancel_flag, life, reg, has, made, freed, metrics>>

\* msg_queue_destroy is called when the other users are gone, after a close.
DestroyStarts(t) ==
    /\ life = "live" /\ t = Owner /\ q.closed
    /\ \A u \in Threads : pc[u] = "idle"
    /\ life' = "draining"
    /\ Goto(t, "drain")
    /\ UNCHANGED <<q, cancel_flag, reg, has, made, freed, metrics>>

\* One turn of its loop: dequeue under the mutex (no signal) ...
DrainTakes(t) ==
    /\ pc[t] = "drain" /\ ~IsEmpty(q)
    /\ q' = Dequeue(q)
    /\ Load(t, Front(q))
    /\ Goto(t, "drop")
    /\ UNCHANGED <<cancel_flag, life, has, made, freed, metrics>>

\* A faulty variant: the loop stops after one message.
DrainStopsAfterOne(t) ==
    /\ pc[t] = "drop"
    /\ dropped' = dropped + 1
    /\ freed' = freed \cup {reg[t]}
    /\ Load(t, NULL)
    /\ Goto(t, "idle")
    /\ UNCHANGED <<q, cancel_flag, life, has, made, pushed, popped>>

\* ... then count and free the blob with the mutex released.
DrainFrees(t) ==
    /\ pc[t] = "drop"
    /\ dropped' = dropped + 1
    /\ freed' = freed \cup {reg[t]}
    /\ Load(t, NULL)
    /\ Goto(t, "drain")
    /\ UNCHANGED <<q, cancel_flag, life, has, made, pushed, popped>>

\* The loop is done: the memory of the queue is released.
DestroyEnds(t) ==
    /\ pc[t] = "drain" /\ IsEmpty(q)
    /\ life' = "destroyed"
    /\ Goto(t, "idle")
    /\ UNCHANGED <<q, cancel_flag, reg, has, made, freed, metrics>>

\* Nothing is left to do with a destroyed queue.
Gone == life = "destroyed" /\ UNCHANGED vars

-----------------------------------------------------------------------------
PushStep(t) == \/ PushBlocks(t) \/ PushRejected(t) \/ RejectFrees(t)
               \/ PushEnqueues(t) \/ PushCounted(t)
PopStep(t) == \/ PopBlocks(t) \/ PopReturnsNull(t) \/ PopDequeues(t)
              \/ PopCounted(t) \/ Unmarshall(t)
CancelStep(t) == \E b \in Blobs : MarshallSignal(t, b)
DrainStep(t) == DrainTakes(t) \/ DrainFrees(t) \/ DestroyEnds(t)

\* What a thread inside an operation does next, and what it may start.
Continue(t) == PushStep(t) \/ PopStep(t) \/ CancelStep(t) \/ DrainStep(t)
Begin(t) == \/ \E b \in Blobs : Send(t, b)
            \/ Cancel(t) \/ Receive(t) \/ HasMessage(t)
            \/ Close(t) \/ DestroyStarts(t)
TimesOut(t) == PushTimesOut(t) \/ PopTimesOut(t)

Next == (\E t \in Threads : Begin(t) \/ Continue(t) \/ TimesOut(t)) \/ Gone

Spec == Init /\ [][Next]_vars

\* The operating system keeps running a thread that can run.  Nothing is
\* assumed of the 100 ms timeouts, nor that a thread starts an operation.
FairSpec == Spec /\ \A t \in Threads : WF_vars(Continue(t))

-----------------------------------------------------------------------------
\* Every variable stays in its range; a thread holds a blob exactly at the
\* places where the code has one in a local variable.
Loaded == {"push", "pushWait", "reject", "popped", "holding", "drop"}
TypeOK ==
    /\ q \in QueueRecord
    /\ cancel_flag \in BOOLEAN
    /\ life \in {"live", "draining", "destroyed"}
    /\ pc \in [Threads -> Places]
    /\ reg \in [Threads -> Blobs \cup {NULL}]
    /\ \A t \in Threads : reg[t] # NULL <=> pc[t] \in Loaded
    /\ has \in [Threads -> BOOLEAN]
    /\ made \subseteq Blobs /\ freed \subseteq Blobs
    /\ pushed \in Nat /\ popped \in Nat /\ dropped \in Nat

\* head, tail, count and the slots describe one window at every unlock,
\* through every interleaving of push, pop and the drain of destroy.
RingOK == RingShape(q)

\* Every envelope ever allocated is in exactly one place: one slot, one local
\* variable of one thread, or freed.  None is lost, freed twice, or reachable
\* from two threads (msg_queue_push "takes ownership", msg_queue_pop gives it).
InLocals == {reg[t] : t \in Threads} \ {NULL}
SingleOwner ==
    /\ NoDuplicate(q)
    /\ \A t, u \in Threads : reg[t] = reg[u] /\ reg[t] # NULL => t = u
    /\ Held(q) \cap InLocals = {}
    /\ Held(q) \cap freed = {}
    /\ InLocals \cap freed = {}
    /\ Held(q) \cup InLocals \cup freed = made

\* No wake-up is lost: while a consumer sleeps on not_empty_cv the queue is
\* open and every queued message has a consumer that is awake to take it;
\* while a producer sleeps on not_full_cv the queue is open and every free
\* slot has a producer awake to fill it.  So one signal() per push and pop is
\* enough, and the 100 ms timeouts of the waits are never needed for progress.
NoLostWakeup ==
    /\ Standing("popWait") # {} =>
         ~q.closed /\ q.count <= Cardinality(Standing("pop"))
    /\ Standing("pushWait") # {} =>
         ~q.closed /\ Capacity - q.count <= Cardinality(Standing("push"))

\* The traffic counters, which are incremented after the unlock, account for
\* every message once the increments under way are added.
Accounted ==
    pushed + Cardinality(Standing("pushed"))
      = popped + Cardinality(Standing("popped"))
          + dropped + Cardinality(Standing("drop")) + q.count

\* A receiver that has a CANCEL signal in hand, or can pop one, finds
\* CANCELLED(...) true: the flag is stored before the signal is made.
FlagBeforeSignal == made \cap Signals # {} => cancel_flag

\* With one consumer, a message that HASMESSAGE saw is still there when the
\* consumer asks for it, however long that takes: RECEIVE does not block.
HasMessageKept ==
    \A t \in Receivers :
        has[t] /\ life = "live" => ~IsEmpty(q) /\ pc[t] # "popWait"

\* Once the queue is destroyed no envelope survives and the report balances.
CleanWhenDestroyed ==
    life = "destroyed" => made = freed /\ pushed = popped + dropped

\* The queue is a first-in first-out channel of at most Capacity messages
\* that accepts nothing after it is closed.
Channel == INSTANCE FifoChannel WITH
    Messages <- Blobs, chan <- Contents(q), closed <- q.closed
IsFifoChannel == Channel!Spec

\* A close gets every thread out of a blocked push or pop, without any help
\* from the timeouts.
CloseReleases ==
    \A t \in Threads :
        (q.closed /\ pc[t] \in {"push", "pushWait", "pop", "popWait"})
            ~> pc[t] = "idle"

\* "Also push a signal message so RECEIVE unblocks": the single consumer that
\* sleeps when msg_cancel is called wakes up.
CancelWakes ==
    \A r \in Receivers :
        (pc[Owner] = "cancel" /\ pc[r] = "popWait") ~> pc[r] # "popWait"

\* The drain loop of msg_queue_destroy ends and the queue is released.
DestroyCompletes == life = "draining" ~> life = "destroyed"
=============================================================================
