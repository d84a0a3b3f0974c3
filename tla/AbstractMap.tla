---------------------------- MODULE AbstractMap ----------------------------
(***************************************************************************)
(* What a HASHMAP promises to a BASIC program: a finite map from strings to *)
(* values.  `bindings' holds one [key, value] record per key that has been  *)
(* stored and not removed; `result' is what the last operation answered.    *)
(* A store may fail, for want of memory, and then changes nothing.          *)
(***************************************************************************)
EXTENDS Integers, FiniteSets

CONSTANTS Keys, Values, NULL

VARIABLES bindings, result

Binding == [key : Keys, value : Values \union {NULL}]

Of(k) == {b \in bindings : b.key = k}

Init == bindings = {} /\ result = NULL

\* d(k) = v
Store(k, v) ==
    /\ result' = 1
    /\ bindings' = (bindings \ Of(k)) \union {[key |-> k, value |-> v]}

StoreFails == result' = 0 /\ UNCHANGED bindings

\* d(k): the value, or NULL
Fetch(k) ==
    /\ \/ \E b \in Of(k) : result' = b.value
       \/ Of(k) = {} /\ result' = NULL
    /\ UNCHANGED bindings

\* d.HASKEY(k): whether a value other than NULL is stored
HasKey(k) ==
    /\ result' = IF \E b \in Of(k) : b.value # NULL THEN 1 ELSE 0
    /\ UNCHANGED bindings

\* d.REMOVE(k)
Remove(k) ==
    /\ result' = IF Of(k) = {} THEN 0 ELSE 1
    /\ bindings' = bindings \ Of(k)

\* d.SIZE()
Size == result' = Cardinality(bindings) /\ UNCHANGED bindings

\* d.CLEAR()
Clear == result' = 0 /\ bindings' = {}

Next ==
    \/ \E k \in Keys :
          \/ \E v \in Values \union {NULL} : Store(k, v)
          \/ Fetch(k) \/ HasKey(k) \/ Remove(k)
    \/ StoreFails \/ Size \/ Clear

Spec == Init /\ [][Next]_<<bindings, result>>

\* No key is bound twice.
Functional == \A b, c \in bindings : b.key = c.key => b = c
=============================================================================
