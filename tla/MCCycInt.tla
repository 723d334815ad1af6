------------------------------ MODULE MCCycInt ------------------------------
(***************************************************************************)
(* CycInt on small instances: model values for the events, which the code  *)
(* only compares, and a horizon of two microseconds, short enough for      *)
(* three events without symmetry (liveness is checked too).                *)
(***************************************************************************)
EXTENDS CycInt
=============================================================================
