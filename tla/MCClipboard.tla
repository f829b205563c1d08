----------------------------- MODULE MCClipboard -----------------------------
(* TLC instances of Clipboard; liveness is checked, so without symmetry. *)
EXTENDS Clipboard
==============================================================================
