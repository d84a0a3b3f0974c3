---------------------------- MODULE FifoChannel ----------------------------
(***************************************************************************)
(* What a MessageQueue promises its users, with no array, lock or thread:  *)
(* a first-in first-out channel of at most Capacity messages that, once    *)
(* closed, accepts nothing more but still hands out what it holds.         *)
(***************************************************************************)
EXTENDS Naturals, Sequences

CONSTANTS Messages, Capacity

VARIABLES chan,    \* the accepted messages nobody has taken yet, oldest first
          closed   \* no more sends allowed

vars == <<chan, closed>>

Init == chan = << >> /\ closed = FALSE

\* A message is accepted at the back of an open channel that has room.
Send(m) ==
    /\ ~closed
    /\ Len(chan) < Capacity
    /\ chan' = Append(chan, m)
    /\ UNCHANGED closed

\* The oldest message leaves the channel, open or closed.
Take ==
    /\ chan # << >>
    /\ chan' = Tail(chan)
    /\ UNCHANGED closed

Close == closed' = TRUE /\ UNCHANGED chan

Next == (\E m \in Messages : Send(m)) \/ Take \/ Close

Spec == Init /\ [][Next]_vars
=============================================================================
