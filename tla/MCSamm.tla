------------------------------ MODULE MCSamm ------------------------------
(* Small instances of Samm for TLC: MCSamm.cfg checks it, MCSammDocScopes.cfg *)
(* checks what the header of the runtime says of scopes and is refuted.       *)
EXTENDS Samm
=============================================================================
