------------------------------- MODULE MCPairing -------------------------------
(* TLC instances of Pairing; without symmetry, for liveness.               *)
EXTENDS Pairing
=============================================================================
