---------------------------- MODULE PortMapping ----------------------------
(***************************************************************************)
(* vm/port_mapping.go and action/vm_cloud_properties.go: from the "ports"  *)
(* of the VM's cloud properties to the mappings create_vm forwards.        *)
(*                                                                         *)
(* A text is abstracted to what the regular expression makes of it:        *)
(* nothing, one positive number, or two.  Its numbers are as large as the  *)
(* manifest's author likes; Atoi gives up beyond MaxInt.                   *)
(***************************************************************************)
EXTENDS Naturals, Sequences, FiniteSets

CONSTANTS
  MaxPort,    \* 65535
  MaxInt,     \* the largest int
  MaxNumber,  \* bound: the largest number in a text
  Requests    \* the lists of ports a VM may ask for, see Port

ASSUME MaxPortAssumption == MaxPort \in Nat \ {0}
ASSUME MaxIntAssumption == MaxInt \in Nat /\ MaxPort < MaxInt
ASSUME MaxNumberAssumption == MaxNumber \in Nat

VARIABLES
  ports,     \* the cloud properties' list, from the manifest
  mappings,  \* what AsVMProps has made of a prefix of it
  answer     \* "none" while the loop runs

vars == <<ports, mappings, answer>>

\* portRangeRegexp.  Of the two ends of one number the second is the first.
Text ==
  [form : {"empty", "mismatch"}, start : {1}, end : {1}]
    \cup {t \in [form : {"one", "two"}, start : 1..MaxNumber, end : 1..MaxNumber] :
            t.form = "one" => t.end = t.start}

Protocol == {"", "tcp", "udp", "other"}
Port == [host : Text, container : Text, protocol : Protocol]

ASSUME RequestsAssumption == Requests \subseteq Seq(Port)

PortRange == [start : 1..MaxPort, end : 1..MaxPort]
RangeOf(start, end) == [start |-> start, end |-> end]

(***************************************************************************)
(* PortRange.  Outcome is "range" when there is one.                       *)
(***************************************************************************)
InRangeByEndOnly(start, end) == end <= MaxPort
InRange(start, end) == start \in 1..MaxPort /\ end \in 1..MaxPort /\ start <= end

Outcome(t) ==
  CASE t.form \in {"empty", "mismatch"}      -> "err"
    [] t.form \in {"one", "two"} /\ (t.start > MaxInt \/ t.end > MaxInt) -> "panic"
    [] OTHER -> IF InRange(t.start, t.end) THEN "range" ELSE "err"

RangeLen(r) == r.end - r.start + 1

(***************************************************************************)
(* PortMapping.                                                            *)
(***************************************************************************)
AcceptedByLength(host, container, protocol) ==
  RangeLen(host) = RangeLen(container)
Accepted(host, container, protocol) ==
  /\ RangeLen(host) = RangeLen(container)
  /\ RangeLen(host) > 1 => host = container /\ protocol \in {"tcp", "udp"}

\* An empty container text stands for the host's.
ContainerTextIgnored(p) == p.host
ContainerText(p) == IF p.container.form = "empty" THEN p.host ELSE p.container

MappingOf(p) ==
  LET c == ContainerText(p) IN
  [host      |-> RangeOf(p.host.start, p.host.end),
   container |-> RangeOf(c.start, c.end),
   protocol  |-> IF p.protocol = "" THEN "tcp" ELSE p.protocol]

Mapping == [host : PortRange, container : PortRange,
            protocol : Protocol \ {""}]

(***************************************************************************)
(* AsVMProps: a mapping per port, in order, until one is refused.          *)
(* ContainerTextIgnored, AcceptedByLength and InRangeByEndOnly are slips   *)
(* in the definitions after them, for the mutants of PROJECT.json.         *)
(***************************************************************************)
Init ==
  /\ ports \in Requests
  /\ mappings = <<>>
  /\ answer = "none"

\* The first text that is no range decides.
Verdict(p) ==
  IF Outcome(p.host) # "range" THEN Outcome(p.host)
  ELSE IF Outcome(ContainerText(p)) # "range" THEN Outcome(ContainerText(p))
  ELSE LET m == MappingOf(p) IN
       IF Accepted(m.host, m.container, m.protocol) THEN "range" ELSE "err"

ValidatePort ==
  /\ answer = "none" /\ Len(mappings) < Len(ports)
  /\ LET p == ports[Len(mappings) + 1] IN
     IF Verdict(p) = "range"
       THEN mappings' = Append(mappings, MappingOf(p)) /\ UNCHANGED answer
       ELSE answer' = Verdict(p) /\ UNCHANGED mappings
  /\ UNCHANGED ports

Finish ==
  /\ answer = "none" /\ Len(mappings) = Len(ports)
  /\ answer' = "ok"
  /\ UNCHANGED <<ports, mappings>>

Next == ValidatePort \/ Finish

Spec == Init /\ [][Next]_vars

(***************************************************************************)
(* What the kernel makes of the rule that Forward appends for a mapping:   *)
(* DNAT to a range keeps a destination port that lies in the range and     *)
(* otherwise takes any port of it.                                         *)
(***************************************************************************)
PortsOf(r) == r.start..r.end

Reached(m, port) ==
  IF port \in PortsOf(m.container) THEN {port} ELSE PortsOf(m.container)

(***************************************************************************)
(* Properties.                                                             *)
(***************************************************************************)

\* Every variable has its type; in particular every port is a port.
TypeOK ==
  /\ ports \in Seq(Port)
  /\ mappings \in Seq(Mapping)
  /\ answer \in {"none", "ok", "err", "panic"}

\* A mapping sends each of its host ports to one port of the container, the
\* one at the same place in the range: what NewPortMapping's checks are for
\* (port_mapping.go:20-35), given what a DNAT rule does.
PortsArrive ==
  \A i \in DOMAIN mappings :
    LET m == mappings[i] IN
    \A port \in PortsOf(m.host) :
      Reached(m, port) = {m.container.start + (port - m.host.start)}

\* Ports meant by a text, by definition.
Meant(t) == IF t.form \in {"one", "two"} THEN {n \in 1..MaxNumber : t.start <= n /\ n <= t.end}
            ELSE {}

\* A port request that makes sense: some ports, all of them real, as many
\* on both sides, and more than one only for the same ports on both sides
\* of a protocol that DNAT takes ranges for.
Sensible(p) ==
  LET host == Meant(p.host)
      container == IF p.container.form = "empty" THEN host ELSE Meant(p.container)
  IN /\ host # {} /\ container # {} /\ host \cup container \subseteq 1..MaxPort
     /\ Cardinality(host) = Cardinality(container)
     /\ Cardinality(host) > 1 =>
          host = container /\ p.protocol \in {"", "tcp", "udp"}

\* AsVMProps answers with mappings exactly when every request makes sense,
\* and they are the requests' ports, one by one, none dropped or merged.
AcceptsExactly ==
  /\ answer = "ok" <=> answer # "none" /\ \A i \in DOMAIN ports : Sensible(ports[i])
  /\ answer = "ok" =>
       /\ Len(mappings) = Len(ports)
       /\ \A i \in DOMAIN ports : PortsOf(mappings[i].host) = Meant(ports[i].host)

\* What the regular expression lets through is an int: the panic says
\* "Expected '%s' to be an int" (port_mapping.go:71).
MatchesAreInts == answer # "panic"

=============================================================================
