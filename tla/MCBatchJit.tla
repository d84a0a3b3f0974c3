----------------------------- MODULE MCBatchJit -----------------------------
(* Small instances of BatchJit for TLC.  MCBatchDocLocks.cfg checks what a   *)
(* comment in basic_runtime.c says of the program and is refuted.            *)
EXTENDS BatchJit
=============================================================================
