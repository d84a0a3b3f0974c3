-------------------------- MODULE MCMessageQueue --------------------------
(* Small instances of MessageQueue for TLC: MCQueueMany.cfg checks the      *)
(* safety properties with several producers and consumers, MCQueueOne.cfg   *)
(* the ones that rest on a queue having one consumer, with fairness.        *)
EXTENDS MessageQueue, TLC

\* Blobs that are not signals are interchangeable, and so are consumers that
\* are not the owner.
Symmetry == {f @@ g : f \in Permutations(Blobs \ Signals),
                      g \in Permutations(Receivers \ {Owner})}
=============================================================================
