------------------------------ MODULE MCThread ------------------------------
(* Model values for the TLC runs of Thread.                                *)
EXTENDS Thread
CONSTANTS o1, o2, o3
=============================================================================
