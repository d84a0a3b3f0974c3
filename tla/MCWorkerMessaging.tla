------------------------ MODULE MCWorkerMessaging ------------------------
(* Small instances of WorkerMessaging for TLC.  The *Doc*.cfg files check    *)
(* what the design document says of the program and are refuted.             *)
EXTENDS WorkerMessaging, TLC

\* Blobs that are not signals are interchangeable, and so are workers.
Symmetry == {f @@ g : f \in Permutations(Blobs \ Signals),
                      g \in Permutations(Messaging)}
=============================================================================
