----------------------------- MODULE MCTimers -----------------------------
(* Small instances of Timers for TLC.  The *Doc*.cfg files check what        *)
(* comments and documents say of the program and are refuted.                *)
EXTENDS Timers, TLC

\* Timers of the same kind are interchangeable.
Symmetry == {f @@ g : f \in Permutations(Repeating),
                      g \in Permutations(Timers \ Repeating)}
=============================================================================
