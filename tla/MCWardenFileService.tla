------------------------ MODULE MCWardenFileService ------------------------
(***************************************************************************)
(* WardenFileService for TLC, which takes every value from the .cfg.       *)
(* Liveness is checked in the same run, so there is no symmetry.           *)
(***************************************************************************)
EXTENDS WardenFileService
=============================================================================
