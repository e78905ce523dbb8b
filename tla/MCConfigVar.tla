----------------------------- MODULE MCConfigVar -----------------------------
(* Model values for the TLC runs of ConfigVar.                             *)
EXTENDS ConfigVar
CONSTANTS t1, t2, t3
=============================================================================
