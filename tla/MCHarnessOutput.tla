-------------------------- MODULE MCHarnessOutput --------------------------
(***************************************************************************)
(* Instances of HarnessOutput for TLC.                                     *)
(***************************************************************************)
EXTENDS HarnessOutput
=============================================================================
