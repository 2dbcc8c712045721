----------------------------- MODULE MCBlobStore -----------------------------
(***************************************************************************)
(* Instances of BlobStore for TLC.                                         *)
(***************************************************************************)
EXTENDS BlobStore
=============================================================================
