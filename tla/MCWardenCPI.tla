---------------------------- MODULE MCWardenCPI ----------------------------
(***************************************************************************)
(* WardenCPI for TLC.                                                      *)
(***************************************************************************)
EXTENDS WardenCPI, TLC

Symmetry == Permutations(Proc) \cup Permutations(VM) \cup Permutations(Disk)

\* The state Init leads to when create_disk has been called for each disk
\* and has succeeded, and nothing else has happened.
DisksCreated ==
  /\ op = [p \in Proc |-> IdleFrame]
  /\ container = [v \in VM |-> "none"]
  /\ env = [v \in VM |-> {}] /\ late = [v \in VM |-> {}]
  /\ garbled = {} /\ stale = {} /\ ready = {}
  /\ dir = [k \in Kind |-> [v \in VM |-> "none"]]
  /\ mounts = {}
  /\ rules = [v \in VM |-> "none"]
  /\ image = [d \in Disk |-> "disk"]
  /\ known = [x \in VM \cup Disk |-> IF x \in VM THEN "fresh" ELSE "known"]
  /\ belief = [v \in VM |-> [d \in Disk |-> "no"]]
  /\ faults = 0

\* From there on, with live processes and a director that repeats deletions.
DisksSpec == DisksCreated /\ [][Next]_vars /\ Running /\ Repeated
=============================================================================
