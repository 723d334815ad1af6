------------------------------ MODULE MCKeyPath ------------------------------
(***************************************************************************)
(* KeyPath with the key of the shortcut, the modifier, and a ring of three *)
(* slots, so that it fills with two events.                                *)
(***************************************************************************)
EXTENDS KeyPath
=============================================================================
