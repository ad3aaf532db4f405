--------------------------- MODULE MCPortMapping ---------------------------
(***************************************************************************)
(* PortMapping for TLC: every request there is on its own, and lists of    *)
(* two of a few requests: every verdict, with and without a container.     *)
(***************************************************************************)
EXTENDS PortMapping

One(n)      == [form |-> "one", start |-> n, end |-> n]
Two(n, m)   == [form |-> "two", start |-> n, end |-> m]
None(form)  == [form |-> form, start |-> 1, end |-> 1]

Few ==
  {p \in Port :
     /\ p.host \in {One(1), One(2), Two(1, 2), One(MaxPort + 1), None("mismatch")}
     /\ p.container \in {None("empty"), One(2), Two(2, 3)}
     /\ p.protocol \in {"", "other"}}

OneOrTwoRequests ==
  {<<>>} \cup {<<p>> : p \in Port} \cup {<<p, q>> : p \in Few, q \in Few}
=============================================================================
