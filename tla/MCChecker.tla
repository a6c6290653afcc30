----------------------------- MODULE MCChecker -----------------------------
(***************************************************************************)
(* Instances of Checker for TLC.                                           *)
(***************************************************************************)
EXTENDS Checker
=============================================================================
