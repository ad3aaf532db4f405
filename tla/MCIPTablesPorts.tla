-------------------------- MODULE MCIPTablesPorts --------------------------
(***************************************************************************)
(* IPTablesPorts for TLC: every VM has the same number of mappings.        *)
(***************************************************************************)
EXTENDS IPTablesPorts

CONSTANT Each
SameMappings == [v \in VM |-> Each]
=============================================================================
