----------------------------- MODULE MCOcrBatch -----------------------------
(***************************************************************************)
(* Instances of OcrBatch for TLC.  Temporal properties are checked without *)
(* symmetry, so the runs of this module state none.                        *)
(***************************************************************************)
EXTENDS OcrBatch
=============================================================================
