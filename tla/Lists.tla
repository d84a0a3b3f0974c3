-------------------------------- MODULE Lists --------------------------------
(***************************************************************************)
(* The lists of the runtime (zig_compiler/runtime/list_ops.zig) as the     *)
(* compiler uses them (zig_compiler/src/codegen.zig), with the pool their  *)
(* atoms come from, the scope of SAMM that tracks each atom, and the       *)
(* background thread that releases what a scope tracked (samm_core.zig).   *)
(*                                                                         *)
(* An atom is a slot of the pool; what one without a user holds is left    *)
(* out (the program below never reads it: ListsSound).  A header is the    *)
(* list itself; headers have a pool of their own, left out.  The program   *)
(* has one thread.  Elements are numbers or objects: the reference that an *)
(* atom holds on a string is left out.                                     *)
(***************************************************************************)
EXTENDS SlabPool, SequencesExt

CONSTANTS Names,     \* list headers
          Values,    \* element values
          MaxDepth,  \* levels of scopes (256)
          MethodAdds \* whether a METHOD, or a SUB with a DIM, also adds to
                     \* a list of its caller or to a global one

\* The programs: a FOR EACH does not remove the element it stands at (its next
\* is NULL by then, or the slot is another element's), and, unless MethodAdds,
\* a function adds only to lists it has created.
ASSUME ListsAssumption ==
    /\ MaxDepth \in Nat \ {0} /\ MethodAdds \in BOOLEAN
    /\ Names \cap Slots = {} /\ NULL \notin Names \cup 0 .. MaxDepth - 1
    /\ NULL \notin Seq(Values)
    /\ IsFiniteSet(Mallocs)

Levels == 0 .. MaxDepth - 1

VARIABLES
    atom,     \* value and next of every slot
    list,     \* head, tail and length of every header
    home,     \* the level whose function created the list, NULL if none has it
    level,    \* scope_depth; in samm_shutdown, the scope that is next (d)
    tracked,  \* the headers and atoms each level tracks
    queue,    \* the cleanup queue: sets of headers and atoms, oldest first
    batch,    \* what the background thread still has to release
    cursor,   \* the FOR EACH under way: its list, the atom it is at, its level
    job,      \* the runtime call under way, when it takes several steps
    mode      \* run; ending, in samm_shutdown; done; aborted, out of memory

memory == <<atom, list>>
samm == <<level, tracked, queue, batch>>
vars == <<pool, memory, home, samm, cursor, job, mode>>

Empty == [head |-> NULL, tail |-> NULL, length |-> 0]
NoLoop == [list |-> NULL, at |-> NULL, level |-> 0]
Blank == [value |-> NULL, next |-> NULL]
Idle == [op |-> "none", list |-> NULL, at |-> NULL, into |-> NULL]

Init ==
    /\ \/ free = SlabSlots(1) /\ slabs = 1 /\ capacity = SlotsPerSlab
       \/ free = << >> /\ slabs = 0 /\ capacity = 0
    /\ in_use = 0 /\ foreign = {} /\ out = {}
    /\ atom = [s \in Slots |-> Blank]
    /\ list = [l \in Names |-> Empty]
    /\ home = [l \in Names |-> NULL]
    /\ level = 0 /\ tracked = [d \in Levels |-> {}]
    /\ queue = << >> /\ batch = {}
    /\ cursor = NoLoop /\ job = Idle /\ mode = "run"

-----------------------------------------------------------------------------
SlotCount == Cardinality(Slots)

\* The atoms from a on, in order, where m is the memory.  A list that is not
\* damaged has no more atoms than there are slots.
After(m, a) == IF a = NULL THEN NULL ELSE m[a].next
ChainIn(m, a) ==
    LET nth[i \in 1 .. SlotCount] == IF i = 1 THEN a ELSE After(m, nth[i - 1])
    IN  [i \in 1 .. Cardinality({i \in 1 .. SlotCount : nth[i] # NULL}) |-> nth[i]]
Chain(a) == ChainIn(atom, a)
Atoms(l) == ToSet(Chain(list[l].head))
ValuesFrom(a) == LET c == Chain(a) IN [i \in 1 .. Len(c) |-> atom[c[i]].value]

Pending == batch \cup UNION ToSet(queue)
Busy == mode = "run" /\ job.op # "none"
InProgram == mode = "run" /\ job.op = "none"
Exists(l) == home[l] # NULL
MayAdd(l) == Exists(l) /\ (home[l] = level \/ MethodAdds)

Track(x) == tracked' = [tracked EXCEPT ![level] = @ \cup {x}]
\* samm_untrack: from the innermost level that tracks it, if any does.
Without(x) ==
    LET at == {d \in Levels : d <= level /\ x \in tracked[d]}
    IN  IF at = {} THEN tracked ELSE [tracked EXCEPT ![Max(at)] = @ \ {x}]
Untrack(x) == tracked' = Without(x)

-----------------------------------------------------------------------------
\* DIM l AS LIST, LIST(...): list_create.
Create(l) ==
    /\ InProgram /\ ~Exists(l)
    /\ \A d \in Levels : l \notin tracked[d]
    /\ l \notin Pending
    /\ list' = [list EXCEPT ![l] = Empty]
    /\ home' = [home EXCEPT ![l] = level]
    /\ Track(l)
    /\ UNCHANGED <<pool, atom, level, queue, batch, cursor, job, mode>>

\* A faulty variant: the tail stays where it was.
LinkFirstOnly(l, s, v) ==
    /\ atom' = [atom EXCEPT ![s] = [value |-> v, next |-> list[l].head]]
    /\ list' = [list EXCEPT ![l].head = s, ![l].length = @ + 1]

\* listAppendAtom and listPrependAtom of a new atom s.
LinkLast(l, s, v) ==
    /\ atom' = LET a == [atom EXCEPT ![s] = [value |-> v, next |-> NULL]]
               IN  IF list[l].tail = NULL THEN a
                   ELSE [a EXCEPT ![list[l].tail].next = s]
    /\ list' = [list EXCEPT ![l].head = IF list[l].tail = NULL THEN s ELSE @,
                            ![l].tail = s, ![l].length = @ + 1]
LinkFirst(l, s, v) ==
    /\ atom' = [atom EXCEPT ![s] = [value |-> v, next |-> list[l].head]]
    /\ list' = [list EXCEPT ![l].tail = IF @ = NULL THEN s ELSE @,
                            ![l].head = s, ![l].length = @ + 1]

\* A faulty variant: an atom of an outer list is left to nobody.
ListAppendUntracked(l, v) ==
    /\ InProgram /\ MayAdd(l)
    /\ \E s \in Slots : Alloc(s) /\ LinkLast(l, s, v)
    /\ UNCHANGED <<home, level, tracked, queue, batch, cursor, job, mode>>

\* A faulty variant: it links the atom at the wrong end.
ListAppendFront(l, v) ==
    /\ InProgram /\ MayAdd(l)
    /\ \E s \in Slots : Alloc(s) /\ LinkFirst(l, s, v) /\ Track(s)
    /\ UNCHANGED <<home, level, queue, batch, cursor, job, mode>>

ListAppend(l, v) ==
    /\ InProgram /\ MayAdd(l)
    /\ \E s \in Slots : Alloc(s) /\ LinkLast(l, s, v) /\ Track(s)
    /\ UNCHANGED <<home, level, queue, batch, cursor, job, mode>>
ListPrepend(l, v) ==
    /\ InProgram /\ MayAdd(l)
    /\ \E s \in Slots : Alloc(s) /\ LinkFirst(l, s, v) /\ Track(s)
    /\ UNCHANGED <<home, level, queue, batch, cursor, job, mode>>

\* atomAlloc got no memory: abort().
OutOfMemory ==
    /\ mode = "run"
    /\ job.op \in {"copy", "reverse"} \/ (InProgram /\ \E l \in Names : MayAdd(l))
    /\ AllocFails
    /\ mode' = "aborted"
    /\ UNCHANGED <<memory, home, samm, cursor, job>>

\* SHIFT, POP and REMOVE: take the i-th atom out, then atomFree or
\* atomFreeShell.
ListRemove(l, i) ==
    LET c == Chain(list[l].head)
        a == c[i]
        prev == IF i = 1 THEN NULL ELSE c[i - 1]
    IN  /\ InProgram /\ Exists(l) /\ i \in 1 .. Len(c)
        /\ a # cursor.at
        /\ list' = [list EXCEPT ![l].head = IF i = 1 THEN atom[a].next ELSE @,
                                ![l].tail = IF a = @ THEN prev ELSE @,
                                ![l].length = @ - 1]
        /\ atom' = [s \in Slots |->
                      IF s = a THEN Blank
                      ELSE IF s = prev THEN [atom[s] EXCEPT !.next = atom[a].next]
                      ELSE atom[s]]
        /\ Untrack(a) /\ Free(a)
        /\ UNCHANGED <<home, level, queue, batch, cursor, job, mode>>

\* CLEAR and ERASE (list_clear): atomFree for one atom after the other, then
\* the header is emptied.
ClearBegins(l) ==
    /\ InProgram /\ Exists(l) /\ cursor.at \notin Atoms(l)
    /\ job' = [Idle EXCEPT !.op = "clear", !.list = l, !.at = list[l].head]
    /\ UNCHANGED <<pool, memory, home, samm, cursor, mode>>
ClearFrees ==
    /\ Busy /\ job.op = "clear" /\ job.at # NULL
    /\ job' = [job EXCEPT !.at = atom[job.at].next]
    /\ Untrack(job.at) /\ Free(job.at)
    /\ atom' = [atom EXCEPT ![job.at] = Blank]
    /\ UNCHANGED <<list, home, level, queue, batch, cursor, mode>>
\* A faulty variant: only the length is reset.
ClearEndsKeeping ==
    /\ Busy /\ job.op = "clear" /\ job.at = NULL
    /\ list' = [list EXCEPT ![job.list].length = 0]
    /\ job' = Idle
    /\ UNCHANGED <<pool, atom, home, samm, cursor, mode>>
ClearEnds ==
    /\ Busy /\ job.op = "clear" /\ job.at = NULL
    /\ list' = [list EXCEPT ![job.list] = Empty]
    /\ job' = Idle
    /\ UNCHANGED <<pool, atom, home, samm, cursor, mode>>

\* COPY and REVERSE: a new list, then one atom for each of the original.
CopyBegins(l, k, op) ==
    /\ InProgram /\ Exists(l) /\ ~Exists(k)
    /\ \A d \in Levels : k \notin tracked[d]
    /\ k \notin Pending
    /\ list' = [list EXCEPT ![k] = Empty]
    /\ home' = [home EXCEPT ![k] = level]
    /\ Track(k)
    /\ job' = [op |-> op, list |-> l, at |-> list[l].head, into |-> k]
    /\ UNCHANGED <<pool, atom, level, queue, batch, cursor, mode>>
CopyAdds ==
    /\ Busy /\ job.op \in {"copy", "reverse"} /\ job.at # NULL
    /\ \E s \in Slots :
        /\ Alloc(s) /\ Track(s)
        /\ LET v == atom[job.at].value
           IN  \/ job.op = "copy" /\ LinkLast(job.into, s, v)
               \/ job.op = "reverse" /\ LinkFirst(job.into, s, v)
    /\ job' = [job EXCEPT !.at = atom[job.at].next]
    /\ UNCHANGED <<home, level, queue, batch, cursor, mode>>
CopyEnds ==
    /\ Busy /\ job.op \in {"copy", "reverse"} /\ job.at = NULL
    /\ job' = Idle
    /\ UNCHANGED <<pool, memory, home, samm, cursor, mode>>

\* FOR EACH x IN l: list_iter_begin before the first turn, list_iter_next
\* after each; the body does anything in between, and may leave the loop.
LoopBegins(l) ==
    /\ InProgram /\ Exists(l) /\ cursor = NoLoop
    /\ cursor' = [list |-> l, at |-> list[l].head, level |-> level]
    /\ UNCHANGED <<pool, memory, home, samm, job, mode>>
LoopNext ==
    /\ InProgram /\ cursor.at # NULL /\ cursor.level = level
    /\ cursor' = [cursor EXCEPT !.at = atom[cursor.at].next]
    /\ UNCHANGED <<pool, memory, home, samm, job, mode>>
LoopEnds ==
    /\ InProgram /\ cursor.list # NULL /\ cursor.level = level
    /\ cursor' = NoLoop
    /\ UNCHANGED <<pool, memory, home, samm, job, mode>>

-----------------------------------------------------------------------------
\* A function with a scope is called, and returns: what its level tracked
\* goes to the background thread as one batch.
EnterScope ==
    /\ InProgram /\ level + 1 \in Levels
    /\ level' = level + 1
    /\ UNCHANGED <<pool, memory, home, tracked, queue, batch, cursor, job, mode>>
ExitScope ==
    /\ InProgram /\ level > 0
    /\ queue' = IF tracked[level] = {} THEN queue ELSE queue \o <<tracked[level]>>
    /\ tracked' = [tracked EXCEPT ![level] = {}]
    /\ level' = level - 1
    /\ home' = [l \in Names |-> IF home[l] = level THEN NULL ELSE home[l]]
    /\ cursor' = IF cursor.level = level THEN NoLoop ELSE cursor
    /\ UNCHANGED <<pool, memory, batch, job, mode>>

\* samm_shutdown, where the program ends: what is in the queue, then every
\* scope from the innermost out.  Module Samm has the thread it joins.
End ==
    /\ InProgram
    /\ home' = [l \in Names |-> NULL]
    /\ cursor' = NoLoop /\ mode' = "ending"
    /\ UNCHANGED <<pool, memory, samm, job>>
SweepScope ==
    /\ mode = "ending" /\ batch = {} /\ queue = << >> /\ level \in Levels
    /\ batch' = tracked[level]
    /\ tracked' = [tracked EXCEPT ![level] = {}]
    /\ level' = level - 1
    /\ UNCHANGED <<pool, memory, home, queue, cursor, job, mode>>

\* cleanupBatch: a header is emptied, an atom goes back to the pool.
TakeBatch ==
    /\ mode \in {"run", "ending"} /\ batch = {} /\ queue # << >>
    /\ batch' = Head(queue) /\ queue' = Tail(queue)
    /\ UNCHANGED <<pool, memory, home, level, tracked, cursor, job, mode>>
ReleaseHeader(l) ==
    /\ mode \in {"run", "ending"} /\ l \in batch
    /\ list' = [list EXCEPT ![l] = Empty]
    /\ batch' = batch \ {l}
    /\ UNCHANGED <<pool, atom, home, level, tracked, queue, cursor, job, mode>>
ReleaseAtom(a) ==
    /\ mode \in {"run", "ending"} /\ a \in batch
    /\ Free(a)
    /\ atom' = [atom EXCEPT ![a] = Blank]
    /\ batch' = batch \ {a}
    /\ UNCHANGED <<list, home, level, tracked, queue, cursor, job, mode>>

\* The end of samm_shutdown: the pools go.
DestroyPools ==
    /\ mode = "ending" /\ batch = {} /\ queue = << >> /\ level = -1
    /\ Deinit /\ mode' = "done"
    /\ UNCHANGED <<memory, home, samm, cursor, job>>

\* Nothing is left to do.
Over == mode \in {"done", "aborted"} /\ UNCHANGED vars

Next ==
    \/ \E l \in Names :
        \/ Create(l) \/ ClearBegins(l) \/ LoopBegins(l) \/ ReleaseHeader(l)
        \/ \E v \in Values : ListAppend(l, v) \/ ListPrepend(l, v)
        \/ \E i \in 1 .. list[l].length : ListRemove(l, i)
        \/ \E k \in Names, op \in {"copy", "reverse"} : CopyBegins(l, k, op)
    \/ \E a \in Slots : ReleaseAtom(a)
    \/ ClearFrees \/ ClearEnds \/ CopyAdds \/ CopyEnds \/ LoopNext \/ LoopEnds
    \/ EnterScope \/ ExitScope \/ End \/ SweepScope \/ TakeBatch \/ DestroyPools
    \/ OutOfMemory \/ Over

Spec == Init /\ [][Next]_vars

-----------------------------------------------------------------------------
Cleared(l) == Busy /\ job.op = "clear" /\ job.list = l
Whole == {l \in Names : Exists(l) /\ ~Cleared(l)}

\* A COPY or REVERSE under way has taken what it passed, in the right order.
CopyExact ==
    LET got == ValuesFrom(list[job.into].head)
        left == ValuesFrom(job.at)
        all == ValuesFrom(list[job.list].head)
    IN  /\ Busy /\ job.op = "copy" => got \o left = all
        /\ Busy /\ job.op = "reverse" => Reverse(got) \o left = all

\* What the pointers and counters of a list say agrees with its chain, at
\* every step of the program and of the background thread; every atom has one
\* list, is tracked at the level of that list and belongs to it in the pool;
\* a FOR EACH stands at an atom of its list; copies are exact.
ListsSound ==
    /\ \A l \in Whole :
        LET c == Chain(list[l].head)
        IN  /\ list[l].length = Len(c)
            /\ list[l].tail = IF c = << >> THEN NULL ELSE Last(c)
            /\ ToSet(c) \subseteq out \cap tracked[home[l]]
            /\ Cardinality(ToSet(c)) = Len(c)
            /\ \A k \in Whole \ {l} : ToSet(c) \cap Atoms(k) = {}
    /\ \A l \in Names : Exists(l) => l \in tracked[home[l]]
    /\ cursor.at # NULL => cursor.list \in Whole /\ cursor.at \in Atoms(cursor.list)
    /\ CopyExact

\* "The per-atom SAMM tracking catches orphaned atoms" (LIST_DESIGN.md:1361):
\* what waits for the background thread is in no list the program has.
SafetyNet == \A l \in Whole : Atoms(l) \cap Pending = {}

\* When the pools are destroyed no atom is out: no leak to report.
NothingLeaks == [][mode' = "done" => out = {}]_vars

\* The values of a list; NULL: there is no such list.
Contents(l) == IF ~Exists(l) THEN NULL ELSE IF Cleared(l) THEN << >>
               ELSE ValuesFrom(list[l].head)

\* Every operation does to the values what the program asked of it, whatever the
\* background thread has done to the pool meanwhile: APPEND adds at the end and
\* PREPEND at the front, REMOVE takes out the i-th value (SHIFT the first, POP the
\* last) and no other; after CLEAR there is none, after COPY or REVERSE the new
\* list has all of them in the right order.
AsAsked ==
    [][\A l \in Names :
        /\ \A v \in Values :
            /\ ListAppend(l, v) => Contents(l)' = Append(Contents(l), v)
            /\ ListPrepend(l, v) => Contents(l)' = <<v>> \o Contents(l)
        /\ \A i \in 1 .. list[l].length :
            ListRemove(l, i) => Contents(l)' = RemoveAt(Contents(l), i)
        /\ ClearEnds /\ l = job.list => Contents(l)' = << >>
        /\ CopyEnds /\ l = job.into =>
            Contents(l)' = IF job.op = "copy" THEN Contents(job.list)
                           ELSE Reverse(Contents(job.list))]_vars

\* The lists are sequences of values: a step adds a value at one end of one list,
\* takes one out or empties it, and leaves the other lists alone.
Seqs == INSTANCE AbstractLists WITH
    Lists <- Names, value <- [l \in Names |-> Contents(l)]
IsLists == Seqs!Spec
=============================================================================
