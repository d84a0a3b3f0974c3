----------------------------- MODULE ForEachMap -----------------------------
(***************************************************************************)
(* FOR EACH k, v IN m over a HASHMAP, as compiled (zig_compiler/src/       *)
(* codegen.zig), with a body that works on the same map.  The loop takes   *)
(* its keys once, as an array of pointers to the strings the map owns      *)
(* (hashmap_keys); the body may free them.  What is read from a freed      *)
(* string is an arbitrary key.  One loop at a time; the array, which       *)
(* nobody frees, is not kept after the loop.  malloc gives the array.      *)
(***************************************************************************)
EXTENDS HashMap, Sequences

Seqs == INSTANCE SequencesExt

VARIABLES
    phase,     \* out of the loop, at its test, or in its body
    keyArray,  \* the array of hashmap_keys: the key each pointer was taken of
    count,     \* hashmap_size when the loop began
    index,     \* the hidden index
    stale,     \* keys of the array whose string has been freed since
    seen,      \* (history) the keys the body has been given
    started,   \* (history) the keys of the map when the loop began
    disturbed  \* (history) the body removed, or stored again, a key to come

loopVars == <<phase, keyArray, count, index, stale, seen, started, disturbed>>
vars == <<mapVars, loopVars>>

LoopInit ==
    /\ Init
    /\ phase = "out" /\ keyArray = << >> /\ count = 0 /\ index = 0
    /\ stale = {} /\ seen = << >> /\ started = {} /\ disturbed = FALSE

\* hashmap_keys: the keys in the order of their slots.  A key goes to the place
\* that is given by the number of occupied slots before its own.
KeyArray ==
    [n \in 1 .. Cardinality(Copied) |->
        entries[CHOOSE s \in Copied : Cardinality({t \in Copied : t < s}) = n - 1].key]

LoopBegins ==
    /\ phase = "out" /\ Idle
    /\ keyArray' = KeyArray /\ count' = size
    /\ index' = 0 /\ phase' = "test"
    /\ started' = {b.key : b \in Bindings} /\ seen' = << >>
    /\ UNCHANGED <<mapVars, stale, disturbed>>

\* A faulty variant: the test asks the map for its size.
MoreTurnsNow == index < size

MoreTurns == index < count

\* The string at keys[index], or anything when it is gone.
KeyRead == IF index < Len(keyArray) /\ keyArray[index + 1] \notin stale
           THEN {keyArray[index + 1]} ELSE Keys

\* The head of the body: the loop variables get the key, and what
\* hashmap_lookup returns for that same pointer.
LoopLoads ==
    /\ phase = "test" /\ MoreTurns
    /\ \E k \in KeyRead :
          seen' = (IF disturbed THEN seen ELSE Append(seen, k)) /\ Fetch(k)
    /\ phase' = "body"
    /\ UNCHANGED <<keyArray, count, index, stale, started, disturbed>>

LoopNext ==
    /\ phase = "body" /\ Idle
    /\ index' = index + 1 /\ phase' = "test"
    /\ UNCHANGED <<mapVars, keyArray, count, stale, seen, started, disturbed>>

\* What the loop knew is of no more use.
LeaveLoop ==
    /\ phase' = "out" /\ keyArray' = << >> /\ count' = 0 /\ index' = 0
    /\ stale' = {} /\ seen' = << >> /\ started' = {} /\ disturbed' = FALSE
    /\ UNCHANGED mapVars

LoopExits == phase = "test" /\ ~MoreTurns /\ LeaveLoop
ExitFor == phase = "body" /\ Idle /\ LeaveLoop

(***************************************************************************)
(* The program works on the map, in the body or out of the loop.  A query  *)
(* in the body changes nothing and is left out.                            *)
(***************************************************************************)
Present(k) == FindSlot(k) # NoSlot

\* The strings of these keys are freed by a step of the map.  The history of a
\* loop that has been disturbed is of no more use.
Frees(S) ==
    /\ stale' = stale \union (S \cap Seqs!ToSet(keyArray))
    /\ IF S \cap (started \ Seqs!ToSet(seen)) # {}
       THEN disturbed' = TRUE /\ seen' = << >> /\ started' = {}
       ELSE UNCHANGED <<disturbed, seen, started>>
    /\ UNCHANGED <<phase, keyArray, count, index>>

\* A faulty variant: a store that grows the table copies the strings.
ProgramStoresCopying ==
    \/ \E k \in Keys, v \in Values \union {NULL} :
          \/ Store(k, v) /\ Frees(IF Present(k) THEN {k} ELSE {})
          \/ Grow(k, v) /\ stale' = Seqs!ToSet(keyArray)
             /\ UNCHANGED <<phase, keyArray, count, index, seen, started,
                            disturbed>>
          \/ GrowFails(k, v) /\ Frees({})
    \/ CopySlot /\ Frees({})
    \/ GrowEnds /\ Frees(IF Present(pending.key) THEN {pending.key} ELSE {})

\* hashmap_insert frees the string of an entry it replaces; do_resize hands
\* the strings over to the new table, and frees one it has no slot for.
ProgramStores ==
    \/ \E k \in Keys, v \in Values \union {NULL} :
          \/ Store(k, v) /\ Frees(IF Present(k) THEN {k} ELSE {})
          \/ Grow(k, v) /\ Frees({})
          \/ GrowFails(k, v) /\ Frees({})
    \/ CopySlot /\ Frees(IF Occupied(old[pos])
                            /\ SlotForInsert(old[pos].key) = NoSlot
                         THEN {old[pos].key} ELSE {})
    \/ GrowEnds /\ Frees(IF Present(pending.key) THEN {pending.key} ELSE {})

ProgramRemoves ==
    \/ \E k \in Keys : Remove(k) /\ Frees(IF Present(k) THEN {k} ELSE {})
    \/ Clear /\ Frees({entries[s].key : s \in Copied})

Program ==
    /\ phase \in {"out", "body"}
    /\ \/ ProgramStores
       \/ ProgramRemoves
       \/ phase = "out" /\ Queries /\ UNCHANGED loopVars

LoopSteps ==
    LoopBegins \/ LoopLoads \/ LoopNext \/ LoopExits \/ ExitFor \/ Program

LoopSpec == LoopInit /\ [][LoopSteps]_vars

(***************************************************************************)
(* Properties                                                              *)
(***************************************************************************)

\* A loop whose body leaves the keys to come alone gives each key the map had
\* at its start to the body exactly once, although the body stores new keys,
\* removes the current one and makes the table grow.
LoopComplete ==
    phase = "test" /\ ~MoreTurns /\ ~disturbed =>
        /\ Seqs!ToSet(seen) = started
        /\ Len(seen) = Cardinality(started)

\* What such a loop hands to the body is bound in the map at that moment: the
\* pointer is read before anything can free it.
LoopReadsMap ==
    [][LoopLoads /\ ~disturbed =>
         [key |-> Seqs!Last(seen'), value |-> result'] \in Bindings]_vars

\* "Iterators over hash maps are safe against modification during iteration"
\* (docs/hash-map.md:148): whatever the body does, the next turn reads a string
\* that is still there.
SafeIteration ==
    phase = "test" /\ MoreTurns =>
        index < Len(keyArray) /\ keyArray[index + 1] \notin stale
=============================================================================
