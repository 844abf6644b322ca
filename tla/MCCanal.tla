------------------------------ MODULE MCCanal ------------------------------
(* Instances of Canal for TLC.                                             *)
EXTENDS Canal
=============================================================================
