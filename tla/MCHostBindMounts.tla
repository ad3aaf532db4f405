-------------------------- MODULE MCHostBindMounts --------------------------
(***************************************************************************)
(* HostBindMounts for TLC, which takes every value from the .cfg: model    *)
(* values for processes, VMs and disks, and the calls that may overlap.    *)
(* Liveness is checked in the same run, so there is no symmetry.           *)
(***************************************************************************)
EXTENDS HostBindMounts
=============================================================================
