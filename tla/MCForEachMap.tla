---------------------------- MODULE MCForEachMap ----------------------------
(* A small instance of the hash table and its loop for TLC.  In a table of   *)
(* four slots a and b share the last slot and b wraps round to the home of   *)
(* c; in eight they share a slot again and b stands in the way of c.         *)
EXTENDS ForEachMap, TLC

CONSTANTS a, b, c, v

MCKeys == {a, b, c}
MCHash == (a :> 3) @@ (b :> 11) @@ (c :> 4)
MCValues == {v}
=============================================================================
