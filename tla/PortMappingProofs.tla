------------------------- MODULE PortMappingProofs -------------------------
(***************************************************************************)
(* Theorems about PortMapping, for any number of ports, any int and any    *)
(* list of requests.                                                       *)
(***************************************************************************)
EXTENDS PortMapping, FiniteSetTheorems, TLAPS

\* What the loop has let through so far.
Checked ==
  \A i \in DOMAIN mappings :
    Accepted(mappings[i].host, mappings[i].container, mappings[i].protocol)

\* A request that is not refused becomes a mapping of real ports.
LEMMA MappingTyped ==
  ASSUME NEW p \in Port, Verdict(p) = "range"
  PROVE  /\ MappingOf(p) \in Mapping
         /\ Accepted(MappingOf(p).host, MappingOf(p).container, MappingOf(p).protocol)
  <1> DEFINE c == ContainerText(p)
  <1>1. Outcome(p.host) = "range" /\ Outcome(c) = "range"
    BY DEF Verdict
  <1>2. p.host \in Text /\ c \in Text
    BY DEF Port, ContainerText
  <1>3. \A t \in Text : Outcome(t) = "range" => RangeOf(t.start, t.end) \in PortRange
    <2> SUFFICES ASSUME NEW t \in Text, Outcome(t) = "range"
                 PROVE  RangeOf(t.start, t.end) \in PortRange
      OBVIOUS
    <2>1. InRange(t.start, t.end)
      BY DEF Outcome
    <2> QED BY <2>1 DEF InRange, RangeOf, PortRange
  <1>4. p.protocol \in Protocol
    BY DEF Port
  <1>5. MappingOf(p) \in Mapping
    BY <1>1, <1>2, <1>3, <1>4 DEF MappingOf, Mapping, Protocol
  <1>6. Accepted(MappingOf(p).host, MappingOf(p).container, MappingOf(p).protocol)
    BY <1>1 DEF Verdict
  <1> QED BY <1>5, <1>6

LEMMA Invariant == Spec => [](TypeOK /\ Checked)
  <1>1. Init => TypeOK /\ Checked
    <2> SUFFICES ASSUME Init PROVE TypeOK /\ Checked
      OBVIOUS
    <2>1. ports \in Seq(Port)
      BY RequestsAssumption DEF Init
    <2> QED BY <2>1 DEF Init, TypeOK, Checked
  <1>2. TypeOK /\ Checked /\ [Next]_vars => (TypeOK /\ Checked)'
    <2> SUFFICES ASSUME TypeOK, Checked, [Next]_vars PROVE (TypeOK /\ Checked)'
      OBVIOUS
    <2>0. ports \in Seq(Port) /\ mappings \in Seq(Mapping)
      BY DEF TypeOK
    <2>1. CASE ValidatePort
      <3> DEFINE p == ports[Len(mappings) + 1]
      <3>1. p \in Port
        BY <2>0, <2>1 DEF ValidatePort
      <3>2. CASE Verdict(p) = "range"
        <4>1. /\ mappings' = Append(mappings, MappingOf(p))
              /\ UNCHANGED <<ports, answer>>
          BY <2>1, <3>2 DEF ValidatePort
        <4>2. /\ MappingOf(p) \in Mapping
              /\ Accepted(MappingOf(p).host, MappingOf(p).container,
                          MappingOf(p).protocol)
          BY <3>1, <3>2, MappingTyped
        <4>3. TypeOK'
          BY <2>0, <4>1, <4>2 DEF TypeOK
        <4> HIDE DEF p
        <4>4. \A i \in DOMAIN mappings' :
                \/ mappings'[i] = MappingOf(p)
                \/ i \in DOMAIN mappings /\ mappings'[i] = mappings[i]
          BY <2>0, <4>1, <4>2
        <4> QED BY <4>2, <4>3, <4>4 DEF Checked
      <3>3. CASE Verdict(p) # "range"
        <4>1. answer' = Verdict(p) /\ UNCHANGED <<ports, mappings>>
          BY <2>1, <3>3 DEF ValidatePort
        <4>2. Verdict(p) \in {"err", "panic"}
          <5>1. \A t : Outcome(t) \in {"range", "err", "panic"}
            BY DEF Outcome
          <5> QED BY <3>3, <5>1 DEF Verdict
        <4> QED BY <4>1, <4>2 DEF TypeOK, Checked
      <3> QED BY <3>2, <3>3
    <2>2. CASE Finish \/ UNCHANGED vars
      BY <2>2 DEF Finish, vars, TypeOK, Checked
    <2> QED BY <2>1, <2>2 DEF Next
  <1> QED BY <1>1, <1>2, PTL DEF Spec

\* The mappings of every list of requests are made of real ports.
THEOREM TypeCorrect == Spec => []TypeOK
  BY Invariant, PTL

\* Every host port of a mapping reaches the port of the container at the
\* same place in its range: the checks of NewPortMapping (port_mapping.go:
\* 20-35) leave DNAT no choice.
THEOREM Arrival == Spec => []PortsArrive
  <1>1. TypeOK /\ Checked => PortsArrive
    <2> SUFFICES ASSUME TypeOK, Checked, NEW i \in DOMAIN mappings,
                        NEW port \in PortsOf(mappings[i].host)
                 PROVE  Reached(mappings[i], port)
                          = {mappings[i].container.start + (port - mappings[i].host.start)}
      BY DEF PortsArrive
    <2> DEFINE m == mappings[i] h == m.host c == m.container
    <2>1. /\ h.start \in Nat /\ h.end \in Nat /\ c.start \in Nat /\ c.end \in Nat
          /\ RangeLen(h) = RangeLen(c)
          /\ RangeLen(h) > 1 => h = c
      <3>1. m \in Mapping /\ Accepted(h, c, m.protocol)
        BY DEF TypeOK, Checked
      <3> HIDE DEF m
      <3>2. h \in PortRange /\ c \in PortRange
        BY <3>1 DEF Mapping
      <3>3. \A n \in 1..MaxPort : n \in Nat
        BY MaxPortAssumption
      <3> QED BY <3>1, <3>2, <3>3 DEF PortRange, Accepted
    <2>2. port \in Nat /\ h.start <= port /\ port <= h.end
      BY <2>1 DEF PortsOf
    <2> HIDE DEF m
    <2>3. CASE h = c
      BY <2>1, <2>2, <2>3 DEF Reached, PortsOf, m
    <2>4. CASE h.end = h.start /\ c.end = c.start
      <3>1. port = h.start /\ PortsOf(c) = {c.start}
        BY <2>1, <2>2, <2>4 DEF PortsOf
      <3> QED BY <2>1, <3>1 DEF Reached, m
    <2> QED BY <2>1, <2>2, <2>3, <2>4 DEF RangeLen
  <1> QED BY <1>1, Invariant, PTL

(***************************************************************************)
(* The ports meant, and the checks of NewPortMapping.                      *)
(***************************************************************************)

\* A text with numbers means an interval.
LEMMA MeantInterval ==
  ASSUME NEW t \in Text
  PROVE  /\ t.start \in Nat \ {0} /\ t.end \in Nat
         /\ t.form \in {"one", "two"} => Meant(t) = t.start..t.end
  <1>1. \A n \in 1..MaxNumber : n \in Nat \ {0}
    BY MaxNumberAssumption
  <1>2. /\ t.start \in Nat \ {0} /\ t.end \in Nat
        /\ t.form \in {"one", "two"} => t.end <= MaxNumber
    BY <1>1, MaxNumberAssumption DEF Text
  <1> DEFINE a == t.start b == t.end
  <1>3. t.form \in {"one", "two"} => Meant(t) = {n \in 1..MaxNumber : a <= n /\ n <= b}
    BY DEF Meant
  <1> HIDE DEF a, b
  <1>4. ASSUME a \in Nat \ {0}, b \in Nat, b <= MaxNumber
        PROVE  {n \in 1..MaxNumber : a <= n /\ n <= b} = a..b
    BY <1>4, MaxNumberAssumption
  <1> QED BY <1>2, <1>3, <1>4 DEF a, b

\* NewPortRange makes a range of exactly the texts that mean real ports.
LEMMA RangeMeant ==
  ASSUME NEW t \in Text
  PROVE  /\ Outcome(t) = "range" <=> Meant(t) # {} /\ Meant(t) \subseteq 1..MaxPort
         /\ Outcome(t) = "range" => t.start <= t.end /\ Meant(t) = t.start..t.end
  <1>1. CASE t.form \in {"empty", "mismatch"}
    BY <1>1 DEF Outcome, Meant
  <1>2. CASE t.form \in {"one", "two"}
    <2>1. /\ t.start \in Nat \ {0} /\ t.end \in Nat
          /\ Meant(t) = t.start..t.end
      BY <1>2, MeantInterval
    <2>2. Meant(t) # {} /\ Meant(t) \subseteq 1..MaxPort
            <=> t.start <= t.end /\ t.end <= MaxPort
      <3>1. ASSUME Meant(t) # {}, Meant(t) \subseteq 1..MaxPort
            PROVE  t.start <= t.end /\ t.end <= MaxPort
        <4>1. t.start <= t.end
          BY <2>1, <3>1
        <4>2. t.end \in Meant(t)
          BY <2>1, <4>1
        <4> QED BY <3>1, <4>1, <4>2, MaxPortAssumption
      <3>2. ASSUME t.start <= t.end, t.end <= MaxPort
            PROVE  Meant(t) # {} /\ Meant(t) \subseteq 1..MaxPort
        <4>1. t.start \in Meant(t)
          BY <2>1, <3>2
        <4> QED BY <2>1, <3>2, <4>1, MaxPortAssumption
      <3> QED BY <3>1, <3>2
    <2>3. Outcome(t) = "range" <=> t.start <= t.end /\ t.end <= MaxPort
      <3>1. InRange(t.start, t.end) <=> t.start <= t.end /\ t.end <= MaxPort
        BY <2>1, MaxPortAssumption DEF InRange
      <3>2. InRange(t.start, t.end) => ~(t.start > MaxInt \/ t.end > MaxInt)
        BY <2>1, <3>1, MaxPortAssumption, MaxIntAssumption
      <3> QED BY <1>2, <3>1, <3>2 DEF Outcome
    <2> QED BY <2>1, <2>2, <2>3
  <1>3. t.form \in {"empty", "mismatch", "one", "two"}
    BY DEF Text
  <1> QED BY <1>1, <1>2, <1>3

\* Two ranges have the same ports only if they are the same.
LEMMA SameRange ==
  ASSUME NEW a \in Nat, NEW b \in Nat, NEW c \in Nat, NEW d \in Nat,
         a <= b, c <= d
  PROVE  /\ a..b = c..d <=> a = c /\ b = d
         /\ Cardinality(a..b) = b - a + 1
         /\ Cardinality(c..d) = d - c + 1
  <1>1. ASSUME a..b = c..d PROVE a = c /\ b = d
    <2>1. a \in c..d /\ b \in c..d /\ c \in a..b /\ d \in a..b
      BY <1>1
    <2> QED BY <2>1
  <1>2. /\ Cardinality(a..b) = b - a + 1
        /\ Cardinality(c..d) = d - c + 1
    <2>1. a \in Int /\ b \in Int /\ c \in Int /\ d \in Int /\ ~(a > b) /\ ~(c > d)
      OBVIOUS
    <2> QED BY <2>1, FS_Interval, Zenon
  <1> QED BY <1>1, <1>2

\* The checks of the code (port_mapping.go:20-35, vm_cloud_properties.go)
\* let through exactly the requests that make sense.
LEMMA VerdictSensible ==
  ASSUME NEW p \in Port
  PROVE  Verdict(p) = "range" <=> Sensible(p)
  <1> DEFINE h == p.host c == ContainerText(p)
             hosts == Meant(h) cons == Meant(c)
             proto == IF p.protocol = "" THEN "tcp" ELSE p.protocol
  <1>1. h \in Text /\ c \in Text /\ p.protocol \in Protocol
    BY DEF Port, ContainerText
  <1>2. (IF p.container.form = "empty" THEN Meant(p.host) ELSE Meant(p.container)) = cons
    BY DEF ContainerText
  <1>3. Sensible(p) <=>
          /\ hosts # {} /\ cons # {} /\ hosts \cup cons \subseteq 1..MaxPort
          /\ Cardinality(hosts) = Cardinality(cons)
          /\ Cardinality(hosts) > 1 =>
               hosts = cons /\ p.protocol \in {"", "tcp", "udp"}
    BY <1>2 DEF Sensible
  <1>4. Verdict(p) = "range" <=>
          /\ Outcome(h) = "range" /\ Outcome(c) = "range"
          /\ Accepted(RangeOf(h.start, h.end), RangeOf(c.start, c.end), proto)
    BY DEF Verdict, MappingOf
  <1>5. proto \in {"tcp", "udp"} <=> p.protocol \in {"", "tcp", "udp"}
    BY <1>1 DEF Protocol
  <1>6. Outcome(h) = "range" /\ Outcome(c) = "range" <=>
          hosts # {} /\ cons # {} /\ hosts \cup cons \subseteq 1..MaxPort
    BY <1>1, RangeMeant
  <1>7. ASSUME Outcome(h) = "range", Outcome(c) = "range"
        PROVE  Accepted(RangeOf(h.start, h.end), RangeOf(c.start, c.end), proto) <=>
                 /\ Cardinality(hosts) = Cardinality(cons)
                 /\ Cardinality(hosts) > 1 =>
                      hosts = cons /\ p.protocol \in {"", "tcp", "udp"}
    <2>1. /\ h.start \in Nat /\ h.end \in Nat /\ c.start \in Nat /\ c.end \in Nat
          /\ h.start <= h.end /\ hosts = h.start..h.end
          /\ c.start <= c.end /\ cons = c.start..c.end
      BY <1>1, <1>7, MeantInterval, RangeMeant
    <2>2. /\ hosts = cons <=> h.start = c.start /\ h.end = c.end
          /\ Cardinality(hosts) = h.end - h.start + 1
          /\ Cardinality(cons) = c.end - c.start + 1
      <3> DEFINE hs == h.start he == h.end cs == c.start ce == c.end
      <3> HIDE DEF hs, he, cs, ce
      <3>1. /\ hs \in Nat /\ he \in Nat /\ cs \in Nat /\ ce \in Nat
            /\ hs <= he /\ cs <= ce
        BY <2>1 DEF hs, he, cs, ce
      <3>2. /\ hs..he = cs..ce <=> hs = cs /\ he = ce
            /\ Cardinality(hs..he) = he - hs + 1
            /\ Cardinality(cs..ce) = ce - cs + 1
        BY <3>1, SameRange
      <3> QED BY <2>1, <3>2 DEF hs, he, cs, ce
    <2>3. RangeOf(h.start, h.end) = RangeOf(c.start, c.end)
            <=> h.start = c.start /\ h.end = c.end
      BY DEF RangeOf
    <2>4. /\ RangeLen(RangeOf(h.start, h.end)) = h.end - h.start + 1
          /\ RangeLen(RangeOf(c.start, c.end)) = c.end - c.start + 1
      BY DEF RangeLen, RangeOf
    <2> HIDE DEF hosts, cons, proto, h, c
    <2> QED BY <1>5, <2>2, <2>3, <2>4 DEF Accepted
  <1> HIDE DEF hosts, cons, proto, h, c
  <1> QED BY <1>3, <1>4, <1>6, <1>7

(***************************************************************************)
(* The loop: the mappings are those of the requests before the first one   *)
(* that is refused, and an answer other than "ok" means there is one.      *)
(***************************************************************************)
Told ==
  /\ Len(mappings) <= Len(ports)
  /\ \A i \in DOMAIN mappings :
       mappings[i] = MappingOf(ports[i]) /\ Verdict(ports[i]) = "range"
  /\ answer = "ok" => Len(mappings) = Len(ports)
  /\ answer \in {"err", "panic"} => \E i \in DOMAIN ports : Verdict(ports[i]) # "range"

LEMMA ToldInvariant == Spec => []Told
  <1>1. Init => Told
    <2> SUFFICES ASSUME Init PROVE Told
      OBVIOUS
    <2>1. ports \in Seq(Port) /\ mappings = <<>> /\ answer = "none"
      BY RequestsAssumption DEF Init
    <2> QED BY <2>1 DEF Told
  <1>2. TypeOK /\ Told /\ [Next]_vars => Told'
    <2> SUFFICES ASSUME TypeOK, Told, [Next]_vars PROVE Told'
      OBVIOUS
    <2>0. ports \in Seq(Port) /\ mappings \in Seq(Mapping)
      BY DEF TypeOK
    <2>1. CASE ValidatePort
      <3> DEFINE k == Len(mappings) + 1 p == ports[k]
      <3>1. k \in DOMAIN ports /\ p \in Port /\ answer = "none"
        BY <2>0, <2>1 DEF ValidatePort
      <3>2. CASE Verdict(p) = "range"
        <4>1. /\ mappings' = Append(mappings, MappingOf(p))
              /\ UNCHANGED <<ports, answer>>
          BY <2>1, <3>2 DEF ValidatePort
        <4> DEFINE m == MappingOf(p)
        <4> HIDE DEF m
        <4>2. \A i \in DOMAIN mappings' :
                \/ i = k /\ mappings'[i] = m
                \/ i \in DOMAIN mappings /\ mappings'[i] = mappings[i]
          BY <2>0, <4>1 DEF m
        <4>3. Len(mappings') = k /\ k <= Len(ports)
          BY <2>0, <3>1, <4>1
        <4> QED BY <3>1, <3>2, <4>1, <4>2, <4>3 DEF Told, m
      <3>3. CASE Verdict(p) # "range"
        <4>1. answer' = Verdict(p) /\ UNCHANGED <<ports, mappings>>
          BY <2>1, <3>3 DEF ValidatePort
        <4>2. answer' # "ok"
          <5>1. \A t : Outcome(t) # "ok"
            BY DEF Outcome
          <5> QED BY <4>1, <5>1 DEF Verdict
        <4> QED BY <3>1, <3>3, <4>1, <4>2 DEF Told
      <3> QED BY <3>2, <3>3
    <2>2. CASE Finish \/ UNCHANGED vars
      BY <2>2 DEF Finish, vars, Told
    <2> QED BY <2>1, <2>2 DEF Next
  <1> QED BY <1>1, <1>2, TypeCorrect, PTL DEF Spec

\* AsVMProps answers with mappings exactly when every request makes sense,
\* and they are the requests' ports one by one: the comparisons of ends and
\* lengths (port_mapping.go:20-56) say what the sets of ports mean.
THEOREM AcceptsSensible == Spec => []AcceptsExactly
  <1>1. TypeOK /\ Told => AcceptsExactly
    <2> SUFFICES ASSUME TypeOK, Told PROVE AcceptsExactly
      OBVIOUS
    <2>0. /\ ports \in Seq(Port) /\ mappings \in Seq(Mapping)
          /\ answer \in {"none", "ok", "err", "panic"}
      BY DEF TypeOK
    <2>1. \A i \in DOMAIN ports : Verdict(ports[i]) = "range" <=> Sensible(ports[i])
      BY <2>0, VerdictSensible
    <2>2. answer = "ok" =>
            Len(mappings) = Len(ports) /\ DOMAIN mappings = DOMAIN ports
      BY <2>0 DEF Told
    <2>3. answer = "ok" => \A i \in DOMAIN ports : Sensible(ports[i])
      BY <2>1, <2>2 DEF Told
    <2>4. answer \in {"err", "panic"} => \E i \in DOMAIN ports : ~Sensible(ports[i])
      BY <2>1 DEF Told
    <2>5. ASSUME answer = "ok", NEW i \in DOMAIN ports
          PROVE  PortsOf(mappings[i].host) = Meant(ports[i].host)
      <3>1. ports[i].host \in Text
        <4>1. ports[i] \in Port
          BY <2>0
        <4> QED BY <4>1 DEF Port
      <3>2. mappings[i] = MappingOf(ports[i]) /\ Outcome(ports[i].host) = "range"
        BY <2>2, <2>5 DEF Told, Verdict
      <3>3. \A q : PortsOf(MappingOf(q).host) = q.host.start..q.host.end
        BY DEF MappingOf, RangeOf, PortsOf
      <3> QED BY <3>1, <3>2, <3>3, RangeMeant
    <2> QED BY <2>0, <2>2, <2>3, <2>4, <2>5 DEF AcceptsExactly
  <1> QED BY <1>1, TypeCorrect, ToldInvariant, PTL
=============================================================================
