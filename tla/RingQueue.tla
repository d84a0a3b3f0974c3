----------------------------- MODULE RingQueue -----------------------------
(***************************************************************************)
(* The bounded ring buffer inside a MessageQueue of the FasterBASIC        *)
(* runtime (zig_compiler/runtime/messaging.zig), as a record and the       *)
(* operations its functions perform on it while they hold the queue mutex. *)
(* The mutex and the two condition variables are modelled by the modules   *)
(* that use this one: an operation here is one critical section.           *)
(***************************************************************************)
EXTENDS Integers, Sequences

CONSTANTS Blobs,     \* message envelopes (MessageBlob allocations)
          NULL,      \* the null pointer
          Capacity   \* MSG_QUEUE_CAPACITY (256 in the code)

ASSUME CapacityAssumption == Capacity \in Nat \ {0}
ASSUME NullAssumption == NULL \notin Blobs

Slots == 0 .. Capacity - 1

\* The fields of the struct that the mutex protects.
QueueRecord ==
    [slots  : [Slots -> Blobs \cup {NULL}],
     head   : Slots,           \* read index
     tail   : Slots,           \* write index
     count  : 0 .. Capacity,   \* current size
     closed : BOOLEAN]         \* no more pushes allowed

\* msg_queue_create: all slots null, indices and count zero, open.
NewQueue ==
    [slots |-> [i \in Slots |-> NULL],
     head |-> 0, tail |-> 0, count |-> 0, closed |-> FALSE]

IsFull(q) == q.count >= Capacity
IsEmpty(q) == q.count = 0

\* The enqueue block of msg_queue_push.
Enqueue(q, b) ==
    [slots  |-> [q.slots EXCEPT ![q.tail] = b],
     head   |-> q.head,
     tail   |-> (q.tail + 1) % Capacity,
     count  |-> q.count + 1,
     closed |-> q.closed]

\* The blob a dequeue returns.
Front(q) == q.slots[q.head]

\* A faulty variant of Dequeue: the read index runs past the array.
DequeueNoWrap(q) ==
    [q EXCEPT !.slots = [q.slots EXCEPT ![q.head] = NULL],
              !.head = q.head + 1, !.count = q.count - 1]

\* The dequeue block of msg_queue_pop and of the drain loop of
\* msg_queue_destroy.
Dequeue(q) ==
    [slots  |-> [q.slots EXCEPT ![q.head] = NULL],
     head   |-> (q.head + 1) % Capacity,
     tail   |-> q.tail,
     count  |-> q.count - 1,
     closed |-> q.closed]

\* msg_queue_close.
Closed(q) == [q EXCEPT !.closed = TRUE]

-----------------------------------------------------------------------------
\* The slots between head and tail, in the order they will be popped.
At(q, i) == q.slots[(q.head + i - 1) % Capacity]
Contents(q) == [i \in 1 .. q.count |-> At(q, i)]

\* head, tail and count describe the same window of the array: tail is count
\* places after head, the window holds blobs and every slot outside of it is
\* null.  The code keeps the three by separate assignments in three functions.
Window(q) == {(q.head + i - 1) % Capacity : i \in 1 .. q.count}
RingShape(q) ==
    /\ q.tail = (q.head + q.count) % Capacity
    /\ \A s \in Slots : q.slots[s] # NULL <=> s \in Window(q)

\* The blobs that sit in a queue.
Held(q) == {q.slots[s] : s \in Slots} \ {NULL}

\* No blob sits in two slots.
NoDuplicate(q) ==
    \A s1, s2 \in Slots :
        q.slots[s1] = q.slots[s2] /\ q.slots[s1] # NULL => s1 = s2
=============================================================================
