------------------------------ MODULE MCUserSync ------------------------------
(***************************************************************************)
(* Instances of UserSync for TLC.                                          *)
(***************************************************************************)
EXTENDS UserSync
=============================================================================
