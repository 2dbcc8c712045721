----------------------------- MODULE MCLocalJobs -----------------------------
(***************************************************************************)
(* Instances of LocalJobs for TLC.                                         *)
(***************************************************************************)
EXTENDS LocalJobs, TLC

\* Runners that may crash are not interchangeable with the others.
Symmetry == Permutations(Calls)
=============================================================================
