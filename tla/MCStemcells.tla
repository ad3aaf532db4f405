---------------------------- MODULE MCStemcells ----------------------------
(***************************************************************************)
(* Stemcells for TLC: two processes and two uuids besides the light id.    *)
(* Either way of unpacking, as the job's configuration may change.         *)
(***************************************************************************)
EXTENDS Stemcells
=============================================================================
