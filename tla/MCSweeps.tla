------------------------------ MODULE MCSweeps ------------------------------
(***************************************************************************)
(* An instance of Sweeps for TLC.                                          *)
(***************************************************************************)
EXTENDS Sweeps

OneRoute == {1}
=============================================================================
