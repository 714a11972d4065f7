----------------------------- MODULE MCZipTree -----------------------------
(* Instances of ZipTree for TLC. *)
EXTENDS ZipTree
=============================================================================
