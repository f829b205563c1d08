----------------------------- MODULE MCSessions -----------------------------
(* TLC instances of Sessions; liveness is checked, so without symmetry. *)
EXTENDS Sessions
==============================================================================
