------------------------------ MODULE MCTransfer ------------------------------
(* TLC instances of Transfer.                                              *)
EXTENDS Transfer
=============================================================================
