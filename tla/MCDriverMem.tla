---------------------------- MODULE MCDriverMem -----------------------------
(* Model values for DriverMem. *)
EXTENDS DriverMem

MCAmounts == 1..3
=============================================================================
