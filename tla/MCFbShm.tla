------------------------------ MODULE MCFbShm -------------------------------
(***************************************************************************)
(* FbShm on a screen of two by two pixels of two colours, where the guest  *)
(* draws on a diagonal: the region that holds both pixels is the whole     *)
(* screen, the region of one of them is a corner.                          *)
(***************************************************************************)
EXTENDS FbShm

Diagonal == {<<0, 1>>, <<1, 0>>}
=============================================================================
