----------------------------- MODULE MCInstance -----------------------------
(* TLC instances of Instance; liveness is checked, so without symmetry. *)
EXTENDS Instance
==============================================================================
