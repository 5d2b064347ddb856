-------------------------- MODULE MCBlobCollector --------------------------
(***************************************************************************)
(* Instances of BlobCollector.                                             *)
(***************************************************************************)
EXTENDS BlobCollector

=============================================================================
