# FasterBASIC: specifications, model checking and proofs

FasterBASIC is a BASIC compiler written in Zig (`zig_compiler/src`) that emits
QBE code, or machine code in memory (JIT), and a runtime in Zig and C
(`zig_compiler/runtime`) that the compiled program is linked with.  Most of the
program transforms trees or copies data on one thread.  What is hard in it is in
the runtime: worker threads that exchange messages, timer threads, a memory
manager with a background thread, the containers that live in this memory, and a
batch mode that runs one program after the other in the same process, whatever
the last one left behind.  The specifications here are about these.

Paths below are relative to `src/`; `rt/` stands for `zig_compiler/runtime/`.

## 1. Inventory

| Part | State | Operations | Interacts with |
|---|---|---|---|
| Message queue, `rt/messaging.zig` 220-389, 860-880 | ring of 256 blob pointers, `head`, `tail`, `count`, `closed`, `cancel_flag`, a mutex, two condition variables, counters of the traffic | create, push, pop, has_message, cancel, close, destroy | every thread that sends or receives |
| Worker futures, `rt/worker_runtime.c` | handle with `done`, result, mutex, condition variable, thread, two queues | spawn, spawn_messaging, ready, await | queues (closed and destroyed by await) |
| Worker statements as compiled, `zig_compiler/src/codegen.zig` (SEND 10051 ff., MATCH RECEIVE 7432 ff., 7654 ff.), `semantic.zig` (detection of forwards) | variables bound to a blob, the slot of a MATCH RECEIVE | SPAWN, SEND, RECEIVE, MATCH RECEIVE, forward, HASMESSAGE, CANCEL, CANCELLED, READY, AWAIT, END | futures, queues |
| Timers, `rt/messaging.zig` 1202-1541 | 64 slots (`active`, `cancel`, `thread`) under one mutex; one thread and one context per timer | AFTER, EVERY, TIMER STOP, TIMER STOP ALL, the timer thread | queues, through a pointer |
| Message blobs, marshalling (`rt/messaging.zig`, `rt/marshalling.zig`) | tag, type, payload, strings inside a payload, counters per kind | marshal, unmarshal, clone, free | queues, strings, SAMM |
| SAMM, `rt/samm_core.zig`, `rt/samm_scope.zig` | one stack of 256 scopes under `scope_mutex`; one queue of 1024 batches under `queue_mutex`; `shutdown_flag`; background thread; Bloom filter; statistics | enter and exit scope, track, untrack, retain, background cleanup, shutdown, wait | every allocation; destructors of compiled classes run on its thread |
| Slab pools, `rt/samm_pool.zig` | slabs, free list, `in_use`, `capacity`, lock per pool | init, alloc, free, destroy | SAMM, lists, strings |
| Lists, `rt/list_ops.zig` | header with head, tail, length; one atom of a pool per element | DIM, APPEND, PREPEND, SHIFT, POP, REMOVE, CLEAR, COPY, REVERSE, FOR EACH and others | pools; SAMM tracks headers and atoms |
| Hash maps, `rt/hashmap_runtime.c` | open addressing with tombstones: `entries`, `size`, `tombstones`, `capacity` | store with resize, fetch, HASKEY, REMOVE, SIZE, CLEAR, key array; FOR EACH is compiled to an index over the key array | none |
| Batch mode, `zig_compiler/src/main.zig` (batch loop), `rt/basic_runtime.c` 60-330, `jit_runtime.zig`, `samm_core.zig` 770-800 | file at hand, one `jmp_buf`, alarm, verdicts; the locks and SAMM of the runtime it shares with every program | compile, run, recover from an error, abandon after a timeout, report | QBE, JIT, SAMM, timers, PRINT |
| Arrays, strings (`array_*.zig`, `string_*.zig`) | descriptors; reference counts | container and text operations | SAMM, pools |
| Runtime frame, `rt/basic_runtime.c`, `basic_data.zig`, `class_runtime.zig` | exception frames, GOSUB and DATA pointers, class tables | start, error, end | all |
| I/O and numbers | files, terminal | I/O statements, formatting | none |
| Compiler front end, CFG, code generator | trees, symbol tables, text | parse, analyse, emit | decides which runtime calls happen, in which order |
| JIT, QBE | code buffers | encode, link, run | |
| Shell, editor plugins, earlier C++ compiler | | | |

What is hard, and what makes each part correct:

* **Queue.** Several producers and consumers, `signal` rather than `broadcast`,
  timed waits, a close and a destroy at any time.  It must be a FIFO channel, lose
  no wake-up, lose, duplicate or double-free no blob, and its counters, updated
  after the unlock, must add up.
* **Futures and statements.** AWAIT joins a thread that may be anywhere in a
  queue; the handle holds the mutex the worker unlocks last.  Each blob must have
  one owner across all queues, also when an arm hands its blob on without a copy;
  nobody may use what AWAIT freed; AWAIT must return the result and leave nothing.
* **Timers.** A timer may end before its starter has stored its thread; stop
  joins outside the lock; a slot can be taken again in between.  A timer must have
  its slot to itself, slots must come back, no thread may be joined twice, and a
  stop must return and leave no timer running.
* **SAMM.** Two threads release objects; a destructor enters a scope on either.
  Every tracked object must be in exactly one place, be released once, not before
  its scope ends, and be gone after shutdown.
* **Containers and pools.** Long histories: a hash table must keep every probe
  sequence through tombstones and resizes, and a FOR EACH over it must survive
  what its body does.  A pool must neither lose a slot nor hand it out twice,
  also those that malloc lent it.  A list and the background thread give atoms
  back to the same pool; what a list links must not be among them.
* **Batch mode.** A program may end, fail or be cut off by an alarm at any step of
  it, of its shutdown or of the background thread.  The process must survive an
  error, the next file must find a runtime it can use, the report must be true, and
  the batch must end.

`PROJECT.json` lists each hazard at its line with the properties that cover it, or
the reason why none does.

## 2. Modules

```
RingQueue ── MessageQueue ──(implements)── FifoChannel
                  │                          ┊ the channel WorkerMessaging and
                  ├ MCMessageQueue           ┊ Timers build upon
                  └ MessageQueueProofs       ┊
                                WorkerMessaging ─ MCWorkerMessaging, WorkerMessagingProofs
                                Timers ────────── MCTimers, TimersProofs
                                Samm ──────────── MCSamm, SammProofs

SlabPool ──(implements)── Allocator      HashMap ──(implements)── AbstractMap
    │  └ SlabPoolProofs                      │
    Lists ──(implements)── AbstractLists     ForEachMap ─ MCForEachMap, HashMapProofs
        └ MCLists, ListsProofs
                                         BatchJit ─ MCBatchJit, BatchJitProofs
```

**RingQueue** has the state of `MessageQueue` (the Zig struct) as a record and the
pure part of push and pop: where `head` and `tail` go, which slot is written and
cleared.  `Contents` is the abstraction function, the sequence in the ring.

**MessageQueue** is one queue under any number of threads.  An action is what
happens between a lock and an unlock, or between two waits on a condition
variable; the counters and frees that follow the unlock are actions of their own,
because another thread can see the state in between.  `pc` names the place in the
code, `reg` is the local variable that holds a blob.  A wait is a place
(`pushWait`, `popWait`) that a signal, a broadcast, a timeout or a spurious wake-up
leaves; a signal chooses any one waiter.  msg_queue_destroy unlocks between the
messages it drops, and so does the model.  The callers keep two promises, which
are guards: only the owner cancels, closes and destroys, and it destroys when no
other thread is inside an operation.

**FifoChannel** is what a queue promises: a bounded sequence, append at the end,
remove from the front, nothing accepted after a close.

**WorkerMessaging** composes the futures, the statements of the program and all
queues.  A queue is a FifoChannel here: a push or pop that would wait is an action
that is not enabled yet, which is justified by `IsFifoChannel` and
`NoLostWakeup`.  The program is any sequence of statements (`Begin`, `BeginMain`,
`MayReturn`), except that inside an arm of a MATCH RECEIVE it forwards the message,
comes to the end of the arm or, by habit, returns; other statements in an arm, an AWAIT
of the worker the message came from among them, are left out.  The constant `Style` switches on habits a program may
or may not have, so that a property can be checked for the programs it is
about: `bareReceive` (RECEIVE without HASMESSAGE), `sendTwice` and
`sendElsewhere` (in a forward arm), `returnInArm`, `untilCancelled` (the loop
`WHILE NOT CANCELLED(PARENT)`).  `sentTo`, `announced`, `saw`, `ready`, `got`
are what the program asked for and was told; the code has them as values in
BASIC variables.

**Timers** is the slot table, the timer threads and their callers.  A queue is its
length and the state of its memory.  Every critical section of `g_timer_mutex` is
an action, and so is each step between them: create, store, join.

**Samm** is the scope stack and the cleanup queue with the program and the
background thread.  `work[t]` is the stack of `cleanupBatch` calls thread `t`
is inside of: a destructor's scope may hand over a batch, and with a full queue the
same thread cleans up this batch inside the other.  `owner`, `frame`, `twice`,
`mixed` are history.  A batch is a set (its order is left open), an object is one
allocation.  The program calls, returns (through the exit of its scope, or by the
plain `ret` of a RETURN in a FUNCTION with an automatic scope), retains the result
of a METHOD, releases strings and lists early, and ends anywhere, as it does on a
runtime error under the JIT.  A destructor allocates and calls nothing.

**SlabPool** is one pool: `free` is the free list, its head first; `slabs`,
`capacity` and `in_use` are the fields of the struct; `out` is what users hold and
`foreign` what of the blocks of malloc has come into the pool's hands.  The lock
is held through each operation, which is therefore one action.  Alloc pops, grows
by a slab and pops, or falls back to malloc; Free pushes, whichever of the two the
slot came from.  The user promises to give back only what it was given, once.
**Allocator** is what a pool promises: nothing is out twice.

**Lists** composes the pool of atoms (`EXTENDS SlabPool`) with list headers, the
scopes that track both, and the background thread.  The operations that walk a
chain (CLEAR, ERASE, COPY, REVERSE, FOR EACH) take a step for each atom, recorded
in `job` and `cursor`, because the background thread returns atoms to the same pool
in between; the others are one action.  `Chain` follows the pointers as those loops
do.  Where the program ends (`End`), the queue is worked off and then the scopes from
the innermost out, one `SweepScope` each.  `home` is the level of the function that
created a list and `MethodAdds` switches on programs in which a METHOD, or a SUB with a
DIM (it gets a scope too), adds to a list of its caller.  Module Samm has the scopes in detail; here a scope is the set it
tracks, and a batch is released one entry at a time.  **AbstractLists** is what the
program sees: sequences of values, of which a step changes one, in the way of some list
operation.  It does not record which one was asked for; `AsAsked` says that it is
this one.

**HashMap** is the table as the C code has it.  `FindSlot` and `SlotForInsert` are
the two uses of find_slot; `Probe(k, i)` is the slot it looks at in its i-th turn.
A store without a resize is one action; one with a resize takes a step per slot of
the old table (`Grow`, `CopySlot`, `GrowEnds`), and may fail for want of memory
(`GrowFails`).  **AbstractMap** is a set of bindings; `Bindings` maps the table to
it, with the slots not copied yet still read from the old table.  **ForEachMap**
adds the loop the compiler emits: the array of key pointers taken once, the count
taken once, and a body that works on the same map and may leave with EXIT FOR.  A pointer whose string has been
freed (`stale`) reads as an arbitrary key.

**BatchJit** is `fbc --batch`: the harness in `main.zig` (`pc`, `file`,
`verdict`), the two protected calls with their one `jmp_buf` (`depth`), the alarm,
and what the files share: QBE's global state, the mapped code, the locks of the
runtime (`holder`), SAMM with its queue and background thread.  A program takes
and gives locks, and ends or fails anywhere.  `Ring` may happen at every step: from
inside a protected call it jumps, elsewhere it kills the process.  A lock that main
held when it jumped is `"gone"`: nobody will release it.  `Habits` switches on
programs with an item of a PRINT that fails.

## 3. Runs

Every pass run has one mutant per property: a plausible fault in a definition of
the model (named "A faulty variant" next to it), for which TLC reports the
property violated.

| Run | Instance | Shows |
|---|---|---|
| `queue_many` | 2 producers, 2 consumers, one of them the owner, 4 messages and a signal, 2 slots | types; one owner per blob; no lost wake-up; refinement of FifoChannel |
| `queue_one` | 2 producers, 1 consumer, 1 slot, fair | HASMESSAGE stays true; close, cancel and destroy get through without help from the timeouts |
| `workers_safe` | main, 2 messaging workers, 2 messages and a signal, queues of 1 | ownership across queues and forwards; no use of freed handles and queues; results, and AWAIT asleep only before they are there; everything reclaimed |
| `workers_live` | a worker that runs until cancelled, a plain worker, fair | CANCEL stops the worker, AWAIT returns, unless the worker is stuck sending |
| `timers` | 1 AFTER, 2 EVERY, 2 slots, one caller, a reader, fair | own slots and one join per thread, slots come back, stop leaves none, blobs settled, stop returns |
| `samm` | one object with a destructor, two without, depth 4, queue of 1, with and without a background thread, fair | one home per object and one release, no lost signal, lexical life until scopes get mixed, queued objects are released, shutdown returns with everything released |
| `hashmap` | 3 keys that collide, 1 value, a table of 4 slots that can double once or fail to | the table's counters, room, probes and single entries; it is a map through stores, removals and a resize; a FOR EACH whose body leaves the keys to come alone is complete and reads what is bound |
| `lists` | 2 lists, 2 values, a slab of 2 slots, one block of malloc, 2 levels | the pool is sound; chains, tails, lengths and copies agree and share no atom; the lists are sequences, and each operation does to its list what was asked; nothing leaks |
| `batch` | 3 files, a queue of 2 batches, fair | an error is contained; every program starts on a runtime it can use; the report is true; the batch ends |
| `doc_scopes`, `doc_print_lock`, `doc_safety_net` | | refuted: section 6 |

**Bounds.** A queue of 256 blobs is modelled with one or two slots: the code treats
no capacity specially, one slot makes full and empty adjacent and two make the
ring wrap; the proofs hold for any capacity.  Three to five blobs fill a queue and
keep a producer and a consumer busy besides.  Two workers are the least with which
a message can go astray; two slots and three timers the least with which a slot
is used again while another is taken; depth 4 leaves room for a destructor above
two nested calls, and for the limit to be met by a call and by a destructor.  Three keys whose
probes run into each other, two from the last slot and one from the first, are the
least with which a tombstone lies between two entries of one probe and a probe wraps
round; four slots with the load limit of seven tenths fill, grow and fail within a few
stores; the code treats no larger capacity specially, and the proof holds for
all.  A slab of two and one block of malloc make the pool grow from nothing, run
out, borrow and abort; two lists are what it takes to share an atom.  Three files
are one that goes wrong, one that meets what it left, and one after both.
`Blobs`, `Timers` and `Objects` are used up and bound the length of a behaviour.
Symmetry is used in three safety runs, for messages that are not signals, for
workers or consumers with the same role, and for list names and values; never with
liveness.

**Deadlock** is checked in the two queue runs, `hashmap` and `lists` (where the
states after the end are named: `Over`).  In the others the modelled
system may really stop: the program may have ended or been aborted, block in a
RECEIVE that nobody answers, or have used up its messages, timers or objects; what
must not stop is stated as a property.

**Fairness.** A thread that is inside a runtime call and can take a step takes it in
the end (weak fairness of `Continue(t)`, `Awaiting`, `Cancelling`, `TimerStep`,
`CallerStep`, `Clean(t)`, `Cleaner`, `ShuttingDown`): the operating system schedules
runnable threads.  Nothing is assumed of what a program starts, of spurious
wake-ups, or of the timeouts in the queue.  Stated separately:

* `workers_live`: a worker looks at CANCELLED and returns once that is allowed, as
  a loop `WHILE NOT CANCELLED(PARENT)` does when its body does not hang.
* `timers`: strong fairness of `SeesCancel` (a sleeping EVERY tests its flag every
  100 ms, line 1232, which is more often than it can fire without testing) and
  `PushAccepted` (a producer is signalled by the pop, and its competitors sleep at
  least a millisecond between pushes); the reader of a queue keeps reading.
* `samm`: a destructor ends.
* `batch`: the kernel delivers an alarm that is set; the harness and the shutdown are
  code of one thread and go on; the background thread goes on until it is
  abandoned.  Nothing is assumed of the program, which may loop until its alarm.

## 4. What is proved

The proofs are checked by TLAPS for all values of the constants that satisfy the
ASSUME of the module: capacities, limits and sets that are not empty where the code has
constants, finite sets of threads, and `NULL` and the like distinct from the data.
What a theorem needs besides is a hypothesis in its statement (`ASSUME ... PROVE`):
a habit of the program or the number of its threads, never a property of the runtime.

* **MessageQueueProofs**, for any producers, consumers, blobs and capacity.  First the
  operators of RingQueue: `Wrap` is the one fact about `%` that is needed;
  `EnqueueFacts`, `DequeueFacts` say that an operation keeps the shape of the ring,
  `EnqueueAppends`, `DequeueTakesHead` that it acts on `Contents` as Append and Tail.
  Then the steps: `IInv == TypeOK /\ RingOK /\ SingleOwner` is inductive, one lemma per
  group of actions. `RingOK` needs the type of the slots; `SingleOwner` needs the ring
  to know that the slot a push writes was empty; so the three are proved together.  From
  it: `TypeCorrect`, `RingCorrect`, `Ownership`, and `QueueIsFifo`: the initial states
  are initial states of the channel, and every step is an Append, a Tail, a close or a
  stutter of it.  `JInv` adds to `IInv` how many threads stand at each place.
  `NoLostWakeup` speaks of cardinalities, which a step changes by at most one per place
  (`NumMove`, `NumSignal`, `NumBroadcast`); `WaitInv` and `TrafficInv` say the same in
  these counts.  `FlagInv` and `LifeInv` strengthen the properties on cancel and destroy
  by what holds between their steps.  From it: `WakeUps`, `Traffic`, `FlagFirst`,
  `CleanDestruction`.  `KeptInv` adds that nobody else is in a pop; from it
  `AnnouncedStays`, that a RECEIVE after HASMESSAGE does not block.  Its hypothesis
  `SoleReceiver` is how the runtime wires its queues (an inbox has the worker as its
  reader, an outbox has main); with two readers it is false.
* **WorkerMessagingProofs**, for any workers, blobs and capacity.  `TInv` ties to `pc` what
  a thread names (`at`) and holds.  `Lives` says when a handle and a queue are
  allocated, seen from where main is in AWAIT: the steps of AWAIT in their order
  (wait, join, close, two queues, handle) are what makes it inductive; `Results` ties
  `result` to `done`.  From these, for *any* program: `TypeCorrect`, `LiveUses`,
  `Delivery`.  `Hands` says what each place of a MATCH RECEIVE leaves in `slot` and
  `bound`; with it `OneOwner` is inductive (`Ownership`).  `NothingKept` is what
  `Reclamation` needs for workers that have returned.  Hypotheses: `Once` (no two SENDs of
  the variable of a forward arm) and `NoReturnInArm`.  They are the two habits with which
  the code breaks these properties (section 6): the theorems say that no other sequence of
  the modelled statements does.
* **TimersProofs**, for any timers, slots and queues.  `TInv` adds to the types what a
  timer and a start know of each other (`Placed`); from it `TypeCorrect` and `Settled`,
  and with `SlotsComeBack`, inductive beside it, `ComeBack`: for any number of callers.
  `TableInv` says who has a slot at each step of its caller: a running timer owns its
  slot and, once stored, its `thread` (`OwnsSlot`); a stored thread ran in that slot,
  and is still there after its join only until the caller clears it (`StoredRight`);
  what a stop still has to join lies ahead of its loop (`DoomedAhead`).  From it
  `OwnSlots` and `StopJoinsAll`.  Hypothesis: `OneCaller`, that one thread executes
  timer statements, which the compiler does not enforce; with two, TLC refutes both.
* **SammProofs**, for any objects, depth of scopes and length of the queue.  `NoLostSignal`
  is inductive as it stands (`CleanerWoken`): what fills the queue or sets the flag
  wakes the thread in the same critical section, and the thread tests both before it
  sleeps.  `Typed` has the form of the nested cleanups: below the top each one is in a
  destructor.  `Housed` says `OneHome` in terms of places, `InScope(o, d)`,
  `InQueue(o, i)`, `InWork(o, t, i)`: an object is somewhere (`Somewhere`), in one place
  of its kind (`Once`) and of one kind (`Apart`), so that a step on a sequence is a shift
  of places (`QueueShifted`, `WorkShifted`).  `Framed` counts, while no thread has used
  a scope of the other, the scopes of a thread above a depth: enough for every
  function it is in, and every live object below its frame.  From these: `TypeCorrect`,
  `Conservation`, `LexicalLifetimes`.  They hold of every program that the module lets
  run, early returns, retains and destructors included.
* **HashMapProofs**: `Inv` is the type and the four parts of `TableSound`, proved
  together, since none is inductive alone.  A search is right when probes reach
  their entries (`FindSlotFacts`, `SlotForInsertFacts`); a store keeps that when it
  finds room; it has room when the counters are true; and the counters stay true
  when no key has two entries.  During a resize the room is bounded by the slots
  copied so far.  From it: `TableInvariant`, `AlwaysSomeEmpty` (every probe ends,
  and the "table full" end of find_slot is never reached), and `TableIsMap`, the
  refinement of AbstractMap.  The assumption is a capacity of at least four; the
  hash is any function.  Of ForEachMap: `PlaceOrder` and `KeyArrayFacts`, that
  hashmap_keys puts every key at a place of its own; `LoopInv`, that in a loop nobody has
  disturbed the body was given the keys before the index (`Told`) and the keys to come
  are alive and bound (`Waiting`).  `disturbed` is part of the statements: a body that
  removes, or stores again, a key to come is the subject of `MCForEachDocSafe.cfg`.  From it: `LoopUsesMap` (a program with a loop is a
  program of the map, so that the results on the table hold of it), `LoopGivesAll`,
  `LoopReadsBound`.
* **BatchJitProofs**: `BInv` says what may be true at each place of main: `Phases`
  (the `jmp_buf`, the alarm, QBE, the mapped code), `Fates` (what happened to the
  file at hand), `SammPhases` (SAMM belongs to the file that runs), `LockPhases`
  (who may hold which lock).  From it, for any number of files: `FailuresContained`,
  `StartsFresh`, `ReportTrue`, and `OneCleaner`, that SAMM never starts a background
  thread beside an earlier one.  Assumed: no item of a PRINT fails; with such an item
  `FailuresContained` is false (`doc_print_lock`).
* **SlabPoolProofs**: `PInv` is the shape of the pool (which slots are where, each
  once) with the tally of its counters, over finite sets; blocks of malloc that
  came back count as the pool's.  From it: `PoolIsSound`, and
  `PoolAllocates`, the refinement of Allocator.

* **ListsProofs**, for any names, values, depth of scopes and pool.  The difficulty is
  that a list is only what the pointers lead to.  `Row(m, a, c, T)` states it with a
  witness instead: the sequence `c` is linked from `a` in the memory `m`, has no atom
  twice, and lies in `T`.  `Reached` and `ChainIs` show that `Chain` then computes `c`
  (a least index at which it did not would have a smaller one: `NatLessThanWellFounded`
  in the place of an induction), and `RowLast`, `RowFirst`, `RowWithout`, `RowTail` what
  appending, prepending, unlinking and walking on do to a row.  `LInv` is the types,
  where every header and atom is tracked (`OnePlace`: once, and exactly while the pool
  has it out), `Running` (what the end of the program has left), `Rows` (each list is a
  row of atoms its own level tracks, and shares none), `Counted` (tail and length agree
  with the row), `Standing` (a FOR EACH stands in its list), `Working` (how far a CLEAR,
  COPY or REVERSE is).  None is inductive alone: that a batch returns no atom of a list
  needs `OnePlace` and `Rows`, that an append keeps the row needs `Counted`.  One lemma
  per action keeps `LInv` and gives what the refinement needs: the lists a step leaves
  as they are, and what it does to the one it changes (`OneMore`, `StepMeans`).  The pool's
  invariant comes from SlabPoolProofs: a step of a list is one of its user (`PoolKept`).
  From these: `ListsPoolSound`, `Soundness`, `NoLeak`, `DoesAsAsked`, and `Implements`, the
  refinement of AbstractLists.  Hypothesis: a METHOD, or a SUB with a DIM, adds to no list
  of its caller; with one that does, `doc_safety_net` shows that `Rows` breaks.

Several properties are only proved and have no run of their own: `RingOK`,
`Accounted`, `FlagBeforeSignal` and `CleanWhenDestroyed` of the queue,
`NoSecondCleaner` of the batch, `IsAllocator` of the pool.  The strengthened invariants
were checked by TLC on the instances of section 3 before they were proved.

**Model-checked only**: liveness (fairness and ENABLED are beyond the prover).  Every
safety property and every refinement that a passing run checks is a theorem too.

## 5. Not modelled

* Values: what is in a message, the unmarshalling by type, the strings inside
  records, the counters per kind.  Planned as `Marshalling`.
* Of SAMM: samm_wait, samm_set_enabled and statistics, which compiled programs do
  not reach; the explicit free of an object with its Bloom filter, as the code
  generator does not emit DELETE; workers as further users of the one scope stack
  (the program has one BASIC thread, and the background thread is enough to show
  what sharing does); reference counts of strings: an early release is the release
  of the last reference.  The abandonment after a timeout is in BatchJit.
* Of lists: element types and nested lists, INSERT, EXTEND, REST, JOIN, the searches,
  and the return of a list from a FUNCTION, where samm_retain moves the header and not
  the atoms; the pool of headers.  The lock of a pool is held through each
  operation, and is a lock of its own only in BatchJit.
* Of hash maps: the values of hash_string (the proof holds for any).  strdup is assumed to
  succeed (when it fails, hashmap_insert keeps a NULL key and answers 1,
  `rt/hashmap_runtime.c:212` and 220), and so is the malloc of hashmap_keys.  One thread.
* Of the batch: workers and timers of a program, beyond the lock of the timer table;
  a worker that is alive when the program is left runs code that is unmapped, on any
  schedule.  Memory is granted.
* Arguments and results of workers other than "the value the worker returned".
* Threads and memory are granted, except in the timers, the hash table and the
  pools, where the code handles the failure, and for the background thread of SAMM.
* I/O, arithmetic, formatting, parsing, code generation in general, the JIT's
  encoder, third-party code and the older compiler: no protocol of their own.  They
  are also nearly all of the repository's lines: the generated parsers of the editor
  plugins, the older C++ compiler, QBE and the shell.

## 6. Divergences

Found while modelling, each the subject of a run that TLC refutes:

* `doc_scopes`: a destructor on the background thread and the program push and pop the
  same scope stack.  An exit pops the scope the other thread entered, and an object
  of a function that is still running is released.  `LexicalUntilMixed` and `OneHome`
  say that this sharing is the *only* cause in the modelled code.
* `doc_print_lock`: the lock of PRINT is taken before the items are evaluated, and a
  run-time error in one of them leaves it locked, against `rt/basic_runtime.c:271`,
  "The program was between operations, so mutexes are not held".  The next file of
  the batch that prints sleeps until its alarm.
* `doc_safety_net`: an atom is tracked in the scope that is current, not in that of its
  list.  What a METHOD, or a SUB with a DIM, adds to a list of its caller goes back to the
  pool when it returns, while the list still links it (`design/LIST_DESIGN.md:1361` calls
  the tracking a "secondary safety net").

Six more have a configuration beside the runs; each is refuted by
`tlc -config <file> <module>` in seconds, the module being `MCWorkerMessaging`,
`MCTimers` or `MCForEachMap`:

* `MCWorkersDocAwait.cfg` (`AwaitUnblocksWorker`): AWAIT does not close the outbox before
  it waits.  A worker asleep in RECEIVE(PARENT) and AWAIT wait for each other
  (`design/WORKER_MESSAGING.md:532`).
* `MCWorkersDocExit.cfg` (`ExitUnblocks`): RECEIVE from, and SEND to, a worker that has
  returned block for ever (same document, 999 and 501).
* `MCWorkersDocSendTwice.cfg` (`OneOwner`): two SENDs of the variable in a forward arm
  push one blob twice.
* `MCWorkersDocSendElsewhere.cfg` (`SentWhereNamed`): a forward goes to the worker the
  message came from, whatever worker the SEND names; `articles/match-receive.md:435`
  describes it for a variable that is sent back "to the same handle", codegen.zig 10060
  compares the directions only.
* `MCForEachDocSafe.cfg` (`SafeIteration`): FOR EACH over a HASHMAP keeps pointers to the
  strings of the map.  A body that stores again, or removes, a key to come frees its
  string (`rt/hashmap_runtime.c:212`), and the next turn reads it, against
  `docs/hash-map.md:148`, "Iterators over hash maps are safe against modification during
  iteration (by snapshotting keys or using versioning)".  `LoopComplete` and
  `LoopReadsMap` say that nothing else a body does disturbs a loop.
* `MCTimersDocFreed.cfg` (`PushesOnLiveQueue`): AWAIT frees a queue that a timer still
  pushes into.

Seen, and not the subject of a configuration:

* RETURN in an arm of MATCH RECEIVE skips `msg_blob_free` (codegen.zig 11776 against
  12620): with `"returnInArm"` added to the `Style` of `workers_safe`, TLC refutes
  `AllReclaimed`.
* RETURN in a FUNCTION or SUB with an automatic scope emits `ret` without
  samm_exit_scope, against `rt/samm_bridge.h:99`; `ReturnEarly` in Samm.  Scopes
  pile up until the program aborts at 256.
* The message variable of a forward arm keeps pointing into a blob that another
  thread works on, against "The sender and receiver never alias the same memory" in the
  design document, 33.
* CANCEL pushes a signal through the ordinary push (messaging.zig 865), and so the
  main program waits if the queue is full.  `CancelStops` holds all the same: a
  receiver that sleeps has an empty queue.
* AFTER never reads its cancel flag: TIMER STOP waits for its full delay.
* EVERY into a full queue without a reader never sees its flag: TIMER STOP hangs;
  hence the reader in `timers`.
* timer_stop_all does not see a thread that another caller has created and not yet
  stored; with two callers `OwnSlot` does not hold.
* samm_wait takes an empty queue for a finished cleanup.
* String reference counts are not atomic, while the background thread releases.
* `rt/basic_runtime.c:159` says that the alarm "is automatically cancelled when
  basic_jit_call returns".  It is on the path through siglongjmp only; on the normal
  path `main.zig` cancels it, and an alarm in between kills the harness
  (`Report` in BatchJit comes after `Return`).
* `rt/io_ops.zig:95` says that items of a PRINT "cannot themselves contain PRINT
  statements".  A FUNCTION in an item can, and then waits for its own caller; in
  BatchJit a program that does so is one that no longer moves.
* An alarm that rings while main holds `g_timer_mutex` leaves basic_runtime_cleanup
  waiting for it: the exception in `BatchEnds`.
* `design/LIST_DESIGN.md` has list_free walk the atoms at the end of a scope;
  `list_free_from_samm` frees the header only, and the atoms by their own tracking.
* DIM AS LIST inside a FUNCTION or SUB stores 0 and creates no list (codegen.zig 11566);
  LIST(...) does, and is what `Create` stands for there.
* `docs/hash-map.md` 131 and 159 have a missing key raise a run-time error; hashmap_lookup
  answers NULL, which reads as an empty value, as `tests/hashmap/PRACTICAL_USAGE.md:235`
  says and HashMap models.
* The code generator calls `list_set_int`, `list_set_float` and `list_set_ptr` for an
  assignment to an element (codegen.zig 10582); no runtime file defines them.

## 7. Plan

In order of importance for the system, each to be model-checked and then proved:

1. **MessageQueue**, **HashMap** with **ForEachMap**, **SlabPool**, **Lists**, **BatchJit**:
   modelled, checked and proved, the first four with the abstract specification they
   implement.
2. **WorkerMessaging**: modelled, checked, its safety proved.
3. **Timers**: modelled, checked, its safety proved.
4. **Samm**: modelled, checked, its safety proved.  An abstract specification worth
   stating: a bag of objects, each allocated, then released once.
5. **Lists**: the return of a list from a FUNCTION.
6. **Marshalling** with tags, records with strings, clones and the counters per kind.
7. Workers as users of Samm, and SEND's strings in the sender's scope (a composition
   of 2 and 4); workers of a program in BatchJit.
