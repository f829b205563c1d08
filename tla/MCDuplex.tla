------------------------------- MODULE MCDuplex -------------------------------
(* TLC instances of Duplex.                                                *)
EXTENDS Duplex
=============================================================================
