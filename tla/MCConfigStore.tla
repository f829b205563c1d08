---------------------------- MODULE MCConfigStore ----------------------------
(* TLC instances of ConfigStore.                                           *)
EXTENDS ConfigStore
=============================================================================
