---------------------------- MODULE AbstractLists ----------------------------
(***************************************************************************)
(* What a BASIC program sees of its lists (design/LIST_DESIGN.md, 4 and 5):*)
(* a sequence of values behind each variable that has one.  Which operation*)
(* the program asked for is not recorded here: Lists!AsAsked.              *)
(***************************************************************************)
EXTENDS Integers, Sequences

CONSTANTS Lists, Values, NULL

VARIABLE value  \* the values of each list; NULL: there is no such list

Init == value = [l \in Lists |-> NULL]

\* What one operation makes of the values of a list: DIM creates it; APPEND
\* and PREPEND add one; SHIFT, POP and REMOVE take one out, and the others
\* keep their order; CLEAR and ERASE empty it.
Becomes(old, new) ==
    \/ old = NULL /\ new = << >>
    \/ /\ old # NULL /\ new # NULL
       /\ \/ \E v \in Values : new = old \o <<v>> \/ new = <<v>> \o old
          \/ \E i \in DOMAIN old : new = SubSeq(old, 1, i - 1) \o SubSeq(old, i + 1, Len(old))
          \/ new = << >>

\* An operation changes one list; several go when the function that created
\* them returns, or the program ends.
Next ==
    LET old == value
        new == value'
        changed == {l \in Lists : new[l] # old[l]}
    IN  \/ \E l \in changed : changed = {l} /\ Becomes(old[l], new[l])
        \/ \A l \in changed : new[l] = NULL

Spec == Init /\ [][Next]_value
=============================================================================
