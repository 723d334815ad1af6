----------------------------- MODULE MCMainLoop -----------------------------
(***************************************************************************)
(* MainLoop with an emulation thread that is never slower than the wait:   *)
(* quitting while nothing else goes wrong.                                 *)
(***************************************************************************)
EXTENDS MainLoop
=============================================================================
