-------------------------------- MODULE Samm --------------------------------
(***************************************************************************)
(* SAMM, the scope aware memory manager of the FasterBASIC runtime         *)
(* (zig_compiler/runtime/samm_core.zig, samm_scope.zig), with the program  *)
(* that the compiler makes use it (zig_compiler/src/codegen.zig) and its   *)
(* background thread.  There is one stack of scopes, under scope_mutex,    *)
(* and one queue of batches, under queue_mutex, for all threads: an action *)
(* is a critical section of one of them or a step that no lock protects.   *)
(*                                                                         *)
(* A scope is the set of the objects in its arrays: a tombstone is an      *)
(* absent object.  An object is one allocation; that its memory is used    *)
(* again later is not modelled.  The program has one BASIC thread, "main"; *)
(* a destructor allocates, but calls no function.                          *)
(***************************************************************************)
EXTENDS Integers, Sequences, FiniteSets

CONSTANTS Objects,      \* allocations: objects, strings, lists
          Destructible, \* those of a CLASS with a DESTRUCTOR
          MaxDepth,     \* SAMM_MAX_SCOPE_DEPTH (256 in the code)
          QueueDepth,   \* SAMM_MAX_QUEUE_DEPTH (1024)
          NULL

Actors == {"main", "cleaner"}

ASSUME SammAssumption ==
    /\ Destructible \subseteq Objects
    /\ NULL \notin Objects /\ NULL \notin Actors \X Nat
    /\ MaxDepth \in Nat \ {0} /\ QueueDepth \in Nat \ {0}

Levels == 0 .. MaxDepth - 1

VARIABLES
    depth,     \* scope_depth
    scope,     \* the objects tracked at each level
    queue,     \* the cleanup queue: sets of objects, oldest first
    shutdown,  \* shutdown_flag
    cleaner,   \* where the background thread stands
    main,      \* where the program stands
    sweep,     \* the level samm_shutdown cleans next
    work,      \* the cleanups each thread is inside of, innermost first
    nest,      \* the functions with a scope each thread is inside of
    made,      \* objects allocated
    freed,     \* objects released
    owner,     \* (history) the thread that entered each open scope
    frame,     \* (history) the function each object belongs to
    twice,     \* (history) objects released more than once
    mixed      \* (history) a thread used a scope another thread had entered

stack == <<depth, scope, owner, mixed>>
threads == <<shutdown, cleaner, main, sweep>>
heap == <<made, freed, twice>>
calls == <<nest, frame>>
vars == <<stack, queue, threads, work, calls, heap>>

(***************************************************************************)
(* The program:                                                            *)
(*  run    between two statements of a function                            *)
(*  leave  in a METHOD that retained its result, about to exit its scope   *)
(*  join   in samm_shutdown, joining the background thread                 *)
(*  drain, sweep   in samm_shutdown, emptying the queue, the scopes        *)
(*  done   samm_shutdown has returned                                      *)
(*  aborted        too many scopes: the process is gone                    *)
(* The background thread:                                                  *)
(*  none   could not be created, or was joined                             *)
(*  awake, asleep  about to test the queue, waiting on queue_cv            *)
(*  gone   has ended                                                       *)
(* A cleanup: the objects it still has to release and the one it is at.    *)
(*  hand   a batch detached by samm_exit_scope, not yet handed over        *)
(*  next   in cleanupBatch, about to look at the next object               *)
(*  dtor   in the destructor of dying                                      *)
(*  free   about to release dying                                          *)
(***************************************************************************)
Cleanup(left, dying, at) == [left |-> left, dying |-> dying, at |-> at]

Doing(t, at) == work[t] # << >> /\ Head(work[t]).at = at
Resume(t, c) == <<c>> \o Tail(work[t])

\* Where a thread executes BASIC statements.
InProgram == main = "run" /\ work["main"] = << >>
InDestructor(t) == Doing(t, "dtor")

Init ==
    /\ depth = 0 /\ scope = [d \in Levels |-> {}]
    /\ queue = << >> /\ shutdown = FALSE
    /\ cleaner \in {"awake", "none"}
    /\ main = "run" /\ sweep = 0
    /\ work = [t \in Actors |-> << >>]
    /\ nest = [t \in Actors |-> 0]
    /\ made = {} /\ freed = {} /\ twice = {}
    /\ owner = [d \in Levels |-> NULL]
    /\ frame = [o \in Objects |-> NULL]
    /\ mixed = FALSE

-----------------------------------------------------------------------------
\* Scope d was entered by another thread than t.
Foreign(d, t) == d > 0 /\ owner[d] # t

\* A faulty variant: the limit is not tested.
PushScopeUnbounded(t) ==
    /\ depth' = depth + 1
    /\ scope' = [scope EXCEPT ![depth + 1] = {}]
    /\ owner' = [owner EXCEPT ![depth + 1] = t]
    /\ nest' = [nest EXCEPT ![t] = @ + 1]
    /\ UNCHANGED mixed

\* samm_enter_scope, when there is room for one more scope.
PushScope(t) ==
    /\ depth + 1 < MaxDepth
    /\ depth' = depth + 1
    /\ scope' = [scope EXCEPT ![depth + 1] = {}]
    /\ owner' = [owner EXCEPT ![depth + 1] = t]
    /\ nest' = [nest EXCEPT ![t] = @ + 1]
    /\ UNCHANGED mixed

\* The locked part of samm_exit_scope takes the objects of the top scope,
\* whoever entered it; the global scope stays.
Detached == IF depth > 0 THEN scope[depth] ELSE {}
PopScope(t) ==
    IF depth > 0
    THEN /\ scope' = [scope EXCEPT ![depth] = {}]
         /\ depth' = depth - 1
         /\ owner' = [owner EXCEPT ![depth] = NULL]
         /\ mixed' = (mixed \/ Foreign(depth, t))
    ELSE UNCHANGED stack

\* (history) The innermost function of t ends.
EndFrame(t) ==
    /\ nest' = [nest EXCEPT ![t] = @ - 1]
    /\ frame' = [o \in Objects |-> IF frame[o] = <<t, nest[t]>> THEN NULL
                                                                ELSE frame[o]]

\* An object is released.
Release(o) ==
    /\ freed' = freed \cup {o}
    /\ twice' = twice \cup ({o} \cap freed)
    /\ UNCHANGED made

-----------------------------------------------------------------------------
\* An allocation is tracked in the top scope (samm_alloc_object with
\* samm_track_object, samm_alloc_string, samm_alloc_list with samm_track_list).
Alloc(t, o) ==
    /\ InDestructor(t) \/ (t = "main" /\ InProgram)
    /\ o \notin made
    /\ made' = made \cup {o}
    /\ scope' = [scope EXCEPT ![depth] = @ \cup {o}]
    /\ frame' = [frame EXCEPT ![o] = <<t, nest[t]>>]
    /\ mixed' = (mixed \/ Foreign(depth, t))
    /\ UNCHANGED <<depth, owner, queue, threads, work, nest, freed, twice>>

\* A METHOD, a constructor, or a FUNCTION or SUB with an automatic scope.
Call ==
    /\ InProgram
    /\ PushScope("main")
    /\ UNCHANGED <<queue, threads, work, frame, heap>>

\* The level at which an object is tracked, the innermost if there are several.
At(o) == CHOOSE d \in 0 .. depth :
             o \in scope[d] /\ \A e \in d + 1 .. depth : o \notin scope[e]
Tracked(o) == \E d \in 0 .. depth : o \in scope[d]

\* The program has a valid reference to o.
Known(o) == frame[o] # NULL /\ frame[o][1] = "main"

\* Faulty variants: the target is not clamped to the global scope (adding to
\* level -1 does nothing); the result is not moved.
RetainUnclamped(o) ==
    /\ InProgram /\ nest["main"] > 0 /\ Known(o)
    /\ frame' = IF frame[o][2] = nest["main"]
                THEN [frame EXCEPT ![o] = <<"main", nest["main"] - 1>>] ELSE frame
    /\ scope' = [d \in Levels |->
                    IF d = At(o) - 1 THEN scope[d] \cup {o} ELSE scope[d] \ {o}]
    /\ main' = "leave"
    /\ UNCHANGED <<depth, owner, mixed, queue, shutdown, cleaner, sweep, work, nest, heap>>
RetainNothing(o) ==
    /\ InProgram /\ nest["main"] > 0 /\ Known(o)
    /\ frame' = IF frame[o][2] = nest["main"]
                THEN [frame EXCEPT ![o] = <<"main", nest["main"] - 1>>] ELSE frame
    /\ main' = "leave"
    /\ UNCHANGED <<stack, queue, shutdown, cleaner, sweep, work, nest, heap>>

\* The RETURN of a METHOD: samm_retain moves the result one scope out of the
\* one it is found in, but not out of the global scope.
Retain(o) ==
    /\ InProgram /\ nest["main"] > 0 /\ Known(o)
    /\ frame' = IF frame[o][2] = nest["main"]
                THEN [frame EXCEPT ![o] = <<"main", nest["main"] - 1>>] ELSE frame
    /\ IF Tracked(o)
       THEN LET target == IF At(o) = 0 THEN 0 ELSE At(o) - 1
            IN  /\ scope' = [d \in Levels |-> IF d = target THEN scope[d] \cup {o}
                                                            ELSE scope[d] \ {o}]
                /\ mixed' = (mixed \/ Foreign(target, "main"))
       ELSE UNCHANGED <<scope, mixed>>
    /\ main' = "leave"
    /\ UNCHANGED <<depth, owner, queue, shutdown, cleaner, sweep, work, nest, heap>>

\* The end of a function: samm_exit_scope.  What was in the scope is handed
\* over after the unlock.
Leave ==
    /\ main \in {"run", "leave"} /\ work["main"] = << >> /\ nest["main"] > 0
    /\ PopScope("main") /\ EndFrame("main")
    /\ work' = IF Detached = {} THEN work
               ELSE [work EXCEPT !["main"] = <<Cleanup(Detached, NULL, "hand")>>]
    /\ main' = "run"
    /\ UNCHANGED <<queue, shutdown, cleaner, sweep, heap>>

\* A RETURN in a FUNCTION or SUB with an automatic scope is a plain ret: its
\* scope stays on the stack.
ReturnEarly ==
    /\ InProgram /\ nest["main"] > 0
    /\ EndFrame("main")
    /\ UNCHANGED <<stack, queue, threads, work, heap>>

\* The runtime releases a string or a list the program is done with
\* (string_release of the last reference, list_free): samm_untrack takes it
\* out of the scope it is in, then it is freed.  One that is in no scope any
\* more is freed as well.
Drop(o) ==
    /\ InProgram /\ o \notin Destructible /\ Known(o)
    /\ frame' = [frame EXCEPT ![o] = NULL]
    /\ scope' = IF Tracked(o) THEN [scope EXCEPT ![At(o)] = @ \ {o}] ELSE scope
    /\ freed' = freed \cup {o}
    /\ twice' = IF Tracked(o) THEN twice ELSE twice \cup {o}
    /\ UNCHANGED <<depth, owner, mixed, queue, threads, work, nest, made>>

-----------------------------------------------------------------------------
Wake == IF cleaner = "asleep" THEN "awake" ELSE cleaner
\* worker_running, which is read without a lock.
WorkerRunning == cleaner # "none"

\* A faulty variant: the background thread is not signalled.
HandOverSilently(t) ==
    /\ Doing(t, "hand")
    /\ LET batch == Head(work[t]).left
       IN  IF WorkerRunning /\ Len(queue) < QueueDepth
           THEN /\ queue' = Append(queue, batch)
                /\ work' = [work EXCEPT ![t] = Tail(@)]
           ELSE /\ work' = [work EXCEPT ![t] = Resume(t, Cleanup(batch, NULL, "next"))]
                /\ UNCHANGED queue
    /\ UNCHANGED <<stack, threads, calls, heap>>

\* enqueueForCleanup; without a background thread, or with a full queue, the
\* thread that left the scope cleans up itself.
HandOver(t) ==
    /\ Doing(t, "hand")
    /\ LET batch == Head(work[t]).left
       IN  IF WorkerRunning /\ Len(queue) < QueueDepth
           THEN /\ queue' = Append(queue, batch)
                /\ cleaner' = Wake
                /\ work' = [work EXCEPT ![t] = Tail(@)]
           ELSE /\ work' = [work EXCEPT ![t] = Resume(t, Cleanup(batch, NULL, "next"))]
                /\ UNCHANGED <<queue, cleaner>>
    /\ UNCHANGED <<stack, shutdown, main, sweep, calls, heap>>

\* What remains of a cleanup after an object is released.
After(t, left) == IF left = {} THEN Tail(work[t])
                               ELSE Resume(t, Cleanup(left, NULL, "next"))

\* cleanupBatch releases an object that has no destructor (the model takes
\* the objects of a batch in any order) ...
CleanPlain(t, o) ==
    /\ Doing(t, "next") /\ o \in Head(work[t]).left \ Destructible
    /\ Release(o)
    /\ work' = [work EXCEPT ![t] = After(t, Head(work[t]).left \ {o})]
    /\ UNCHANGED <<stack, queue, threads, calls>>

\* ... or calls the destructor, which enters a scope on whatever thread it
\* runs ...
EnterDestructor(t, o) ==
    /\ Doing(t, "next") /\ o \in Head(work[t]).left \cap Destructible
    /\ PushScope(t)
    /\ work' = [work EXCEPT ![t] =
                   Resume(t, Cleanup(Head(work[t]).left \ {o}, o, "dtor"))]
    /\ UNCHANGED <<queue, threads, frame, heap>>

\* ... and exits it ...
ExitDestructor(t) ==
    /\ InDestructor(t)
    /\ PopScope(t) /\ EndFrame(t)
    /\ LET rest == Resume(t, [Head(work[t]) EXCEPT !.at = "free"])
       IN  work' = [work EXCEPT ![t] =
                       IF Detached = {} THEN rest
                       ELSE <<Cleanup(Detached, NULL, "hand")>> \o rest]
    /\ UNCHANGED <<queue, threads, heap>>

\* ... and releases the object.
FreeDead(t) ==
    /\ Doing(t, "free")
    /\ Release(Head(work[t]).dying)
    /\ work' = [work EXCEPT ![t] = After(t, Head(work[t]).left)]
    /\ UNCHANGED <<stack, queue, threads, calls>>

\* One scope too many, for a call or a destructor: abort().
Abort ==
    /\ depth + 1 >= MaxDepth
    /\ main' = "aborted" /\ cleaner' = "gone"
    /\ work' = [t \in Actors |-> << >>]
    /\ UNCHANGED <<stack, queue, shutdown, sweep, calls, heap>>
CallTooDeep == InProgram /\ Abort
DestructorTooDeep(t) ==
    /\ Doing(t, "next") /\ Head(work[t]).left \cap Destructible # {}
    /\ Abort

-----------------------------------------------------------------------------
\* A faulty variant: the thread sleeps after every batch.
CleanerSleepsAtOnce ==
    /\ cleaner = "awake" /\ work["cleaner"] = << >>
    /\ ~shutdown
    /\ cleaner' = "asleep"
    /\ UNCHANGED <<stack, queue, shutdown, main, sweep, work, calls, heap>>

\* The loop of the background thread: sleep while the queue is empty ...
CleanerSleeps ==
    /\ cleaner = "awake" /\ work["cleaner"] = << >>
    /\ queue = << >> /\ ~shutdown
    /\ cleaner' = "asleep"
    /\ UNCHANGED <<stack, queue, shutdown, main, sweep, work, calls, heap>>

\* (a condition variable may also wake up for no reason)
CleanerWakes ==
    /\ cleaner = "asleep"
    /\ cleaner' = "awake"
    /\ UNCHANGED <<stack, queue, shutdown, main, sweep, work, calls, heap>>

TakeBatch(t) ==
    /\ work[t] = << >> /\ queue # << >>
    /\ queue' = Tail(queue)
    /\ work' = [work EXCEPT ![t] = <<Cleanup(Head(queue), NULL, "next")>>]
    /\ UNCHANGED <<stack, threads, calls, heap>>

\* ... take the oldest batch and clean it up ...
CleanerTakes == cleaner = "awake" /\ TakeBatch("cleaner")

\* ... and end when the queue is empty and the program shuts down.
CleanerStops ==
    /\ cleaner = "awake" /\ work["cleaner"] = << >>
    /\ queue = << >> /\ shutdown
    /\ cleaner' = "gone"
    /\ UNCHANGED <<stack, queue, shutdown, main, sweep, work, calls, heap>>

\* The program ends, or stops in the middle of a function with an error under
\* the JIT: samm_shutdown tells the background thread to stop ...
End ==
    /\ InProgram
    /\ shutdown' = TRUE /\ cleaner' = Wake /\ main' = "join"
    /\ UNCHANGED <<stack, queue, sweep, work, calls, heap>>

\* ... joins it, if there is one ...
Join ==
    /\ main = "join" /\ cleaner \in {"gone", "none"}
    /\ cleaner' = "none" /\ main' = "drain"
    /\ UNCHANGED <<stack, queue, shutdown, sweep, work, calls, heap>>

\* ... cleans up what is left in the queue ...
Drain ==
    /\ main = "drain" /\ work["main"] = << >>
    /\ IF queue # << >> THEN TakeBatch("main")
       ELSE /\ main' = "sweep" /\ sweep' = depth
            /\ UNCHANGED <<stack, queue, shutdown, cleaner, work, calls, heap>>

\* A faulty variant: the global scope is forgotten.
SweepScopeNotGlobal ==
    /\ main = "sweep" /\ work["main"] = << >>
    /\ IF sweep > 0
       THEN /\ scope' = [scope EXCEPT ![sweep] = {}]
            /\ work' = IF scope[sweep] = {} THEN work
                       ELSE [work EXCEPT !["main"] = <<Cleanup(scope[sweep], NULL, "next")>>]
            /\ sweep' = sweep - 1 /\ UNCHANGED main
       ELSE main' = "done" /\ UNCHANGED <<scope, work, sweep>>
    /\ UNCHANGED <<depth, owner, mixed, queue, shutdown, cleaner, calls, heap>>

\* ... and in every scope, the innermost first, without taking scope_mutex.
SweepScope ==
    /\ main = "sweep" /\ work["main"] = << >>
    /\ IF sweep >= 0
       THEN /\ scope' = [scope EXCEPT ![sweep] = {}]
            /\ work' = IF scope[sweep] = {} THEN work
                       ELSE [work EXCEPT !["main"] = <<Cleanup(scope[sweep], NULL, "next")>>]
            /\ sweep' = sweep - 1 /\ UNCHANGED main
       ELSE main' = "done" /\ UNCHANGED <<scope, work, sweep>>
    /\ UNCHANGED <<depth, owner, mixed, queue, shutdown, cleaner, calls, heap>>

-----------------------------------------------------------------------------
\* What a thread inside the runtime does next.
Clean(t) == \/ HandOver(t) \/ ExitDestructor(t) \/ FreeDead(t)
            \/ DestructorTooDeep(t)
            \/ \E o \in Objects : CleanPlain(t, o) \/ EnterDestructor(t, o)
Cleaner == CleanerSleeps \/ CleanerTakes \/ CleanerStops
ShuttingDown == Join \/ Drain \/ SweepScope

\* What the program may do.
Program == \/ Call \/ CallTooDeep \/ Leave \/ ReturnEarly \/ End
           \/ \E o \in Objects : Retain(o) \/ Drop(o)

Next == \/ Program \/ Cleaner \/ CleanerWakes \/ ShuttingDown
        \/ \E t \in Actors : Clean(t) \/ \E o \in Objects : Alloc(t, o)

Spec == Init /\ [][Next]_vars

\* The operating system keeps running a thread that can run, and a destructor
\* ends.  Nothing is assumed of the program's statements.
FairSpec ==
    /\ Spec
    /\ \A t \in Actors : WF_vars(Clean(t))
    /\ WF_vars(Cleaner) /\ WF_vars(ShuttingDown)

-----------------------------------------------------------------------------
\* Every variable stays in its range.
Cleanups == [left : SUBSET Objects, dying : Objects \cup {NULL},
             at : {"hand", "next", "dtor", "free"}]
TypeOK ==
    /\ depth \in Levels /\ scope \in [Levels -> SUBSET Objects]
    /\ queue \in Seq(SUBSET Objects) /\ Len(queue) <= QueueDepth
    /\ shutdown \in BOOLEAN
    /\ cleaner \in {"none", "awake", "asleep", "gone"}
    /\ main \in {"run", "leave", "join", "drain", "sweep", "done", "aborted"}
    /\ sweep \in -1 .. MaxDepth - 1
    /\ \A t \in Actors : work[t] \in Seq(Cleanups) /\ nest[t] \in Nat
    /\ made \subseteq Objects /\ freed \subseteq Objects
    /\ twice \subseteq freed /\ mixed \in BOOLEAN
    /\ owner \in [Levels -> Actors \cup {NULL}]
    /\ frame \in [Objects -> (Actors \X Nat) \cup {NULL}]

\* Where an object is: open scopes, queued batches, cleanups, or released.
Homes(o) ==
    {<<"scope", d>> : d \in {e \in 0 .. depth : o \in scope[e]}}
    \cup {<<"queue", i>> : i \in {j \in DOMAIN queue : o \in queue[j]}}
    \cup (UNION {{<<t, i>> : i \in {j \in DOMAIN work[t] :
                    o \in work[t][j].left \cup {work[t][j].dying}}} : t \in Actors})
    \cup {<<"freed">> : x \in {o} \cap freed}

\* Every object ever tracked is in exactly one place, through every hand-over
\* between the two threads: none falls out of a scope that is reset or of a
\* full queue, and none is in two batches.  (samm_enter_scope resets a scope
\* it takes to be empty, and samm_retain removes and adds.)  And as long as no
\* thread uses a scope that the other one entered, none is released twice.
OneHome ==
    /\ main # "aborted" =>
           \A o \in made \ twice : Cardinality(Homes(o)) = 1
    /\ ~mixed => twice = {}

\* The background thread is not left asleep: "signal" is enough although the
\* queue is filled by both threads.
NoLostSignal == cleaner = "asleep" => queue = << >> /\ ~shutdown

\* An object of a function that is still running, and one that a METHOD
\* retained for its caller, is not released or queued to be released.
\* "Exit the current lexical scope. Pops the scope's tracking vector".
Lexical ==
    main \in {"run", "leave"} => \A o \in Objects : frame[o] # NULL => Tracked(o)

\* Lexical lifetime holds as long as no thread uses a scope that the other one
\* entered, whatever else is interleaved: destructors on both threads, early
\* returns that leave scopes behind, a full queue.
LexicalUntilMixed == ~mixed => Lexical

\* What was detached from a scope is released.
CleanedUp ==
    \A o \in Objects :
        (\E i \in DOMAIN queue : o \in queue[i]) ~> (o \in freed \/ main = "aborted")

\* samm_shutdown returns, neither the join nor the drain waits for ever, and
\* leaves nothing behind: every object was released, on one of the two threads,
\* and what destructors allocated on the way was, too.
ShutdownCompletes ==
    main = "join" ~> \/ main = "done" /\ made = freed
                     \/ main = "aborted"
=============================================================================
