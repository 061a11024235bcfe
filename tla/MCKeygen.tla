------------------------------ MODULE MCKeygen ------------------------------
(* An instance of Keygen for TLC. *)
EXTENDS Keygen

CONSTANTS r1, r2, r3
=============================================================================
