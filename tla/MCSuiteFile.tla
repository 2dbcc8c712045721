----------------------------- MODULE MCSuiteFile -----------------------------
(***************************************************************************)
(* Instances of SuiteFile for TLC.                                         *)
(***************************************************************************)
EXTENDS SuiteFile
=============================================================================
