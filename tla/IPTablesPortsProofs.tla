------------------------ MODULE IPTablesPortsProofs -------------------------
(***************************************************************************)
(* Theorems about IPTablesPorts, for any number of VMs, mappings,          *)
(* processes, retries and faults.                                          *)
(***************************************************************************)
EXTENDS IPTablesPorts, TLAPS

(***************************************************************************)
(* Which call reaches which command, and with what in its frame.           *)
(***************************************************************************)
Adding(f) == f.at = "add" \/ (f.at = "sleep" /\ f.lines = {})

Shape(f) ==
  IF f.at = "idle" THEN f = IdleFrame ELSE
    /\ f.vm \in VM /\ f.call \in PortCall
    /\ f.lines \subseteq {f.vm} \X (1..Mappings[f.vm])
    /\ f.at = "del" => f.lines # {}
    /\ f.at \in {"add", "save", "ok", "err"} => f.lines = {}
    /\ f.at = "save" => ~f.failed
    /\ Adding(f) =>
         f.call = "Forward" /\ ~f.failed /\ f.next \in 1..Mappings[f.vm]

\* Only rules of mappings are in the table.
Mapped == nat \subseteq {r \in Rule : r[2] \in 1..Mappings[r[1]]}

TypeInv == TypeOK /\ Mapped /\ \A p \in Proc : Shape(op[p])

(***************************************************************************)
(* Calls and the stage of their VM: a Forward has its fresh id to itself,  *)
(* and an id nobody has begun to forward has no rules.                     *)
(***************************************************************************)
Staged(f) ==
  f.at # "idle" =>
    life[f.vm] = IF f.call = "Forward" THEN "creating" ELSE "known"

ForwardsAlone ==
  \A p, q \in Proc :
    /\ op[p].at # "idle" /\ op[p].call = "Forward"
    /\ op[q].at # "idle" /\ op[q].vm = op[p].vm
    => q = p

(***************************************************************************)
(* The rules of a VM while a call works on it.  A deletion that has met no *)
(* failure still has every rule that is left on its list.                  *)
(***************************************************************************)
Accounted(f) ==
  LET left == {r \in nat : r[1] = f.vm} IN
  f.at # "idle" =>
    /\ Adding(f) => left = {f.vm} \X (1..(f.next - 1))
    /\ f.lines # {} /\ ~f.failed => left \subseteq f.lines
    /\ f.at = "ok" => left = IF f.call = "Forward"
                               THEN {f.vm} \X (1..Mappings[f.vm]) ELSE {}
    /\ f.at = "err" /\ f.call = "Forward" /\ ~f.failed => left = {}

RulesInv ==
  /\ \A v \in VM : life[v] = "new" => {r \in nat : r[1] = v} = {}
  /\ ForwardsAlone
  /\ \A p \in Proc : Staged(op[p]) /\ Accounted(op[p])

(***************************************************************************)
(* What an action does to op: it moves one process, and a command keeps it *)
(* on its call and its VM.                                                 *)
(***************************************************************************)
OthersSame(p) == \A q \in Proc : q # p => op'[q] = op[q]
SameCall(p) == op'[p].call = op[p].call /\ op'[p].vm = op[p].vm

LEMMA MoveFrame ==
  ASSUME op \in [Proc -> Frame], NEW p \in Proc, NEW f \in Frame,
         op' = [op EXCEPT ![p] = f]
  PROVE  op' \in [Proc -> Frame] /\ OthersSame(p) /\ op'[p] = f
  BY DEF OthersSame

LEMMA IdleShape == IdleFrame \in Frame /\ Shape(IdleFrame)
  BY AttemptsAssumption DEF IdleFrame, Frame, At, Shape

LEMMA BeginFrame ==
  ASSUME TypeInv, NEW p \in Proc, NEW call \in PortCall, NEW v \in VM,
         Begin(p, call, v)
  PROVE  /\ op' \in [Proc -> Frame] /\ OthersSame(p) /\ Shape(op'[p])
         /\ op'[p] = [IdleFrame EXCEPT !.call = call, !.vm = v, !.next = 1,
                        !.at = IF call = "RemoveForwarded" THEN "save"
                               ELSE IF Mappings[v] = 0 THEN "ok" ELSE "add"]
  <1> DEFINE at == IF call = "RemoveForwarded" THEN "save"
                   ELSE IF Mappings[v] = 0 THEN "ok" ELSE "add"
             f == [IdleFrame EXCEPT !.call = call, !.vm = v, !.next = 1, !.at = at]
  <1>1. at \in At
    BY DEF At
  <1>2. f \in Frame
    BY <1>1, IdleShape DEF Frame, PortCall
  <1>3. /\ f.call = call /\ f.vm = v /\ f.at = at /\ f.next = 1
        /\ f.lines = {} /\ f.failed = FALSE
    BY DEF IdleFrame
  <1>3a. Shape(f)
    BY <1>3, MappingsAssumption DEF Shape, Adding, PortCall
  <1>4. op' = [op EXCEPT ![p] = f]
    BY DEF Begin
  <1> QED BY <1>2, <1>3a, <1>4, MoveFrame DEF TypeInv, TypeOK

\* The lines of a listing are rules of the VM's mappings.
LEMMA ListedShape ==
  ASSUME TypeInv, NEW v \in VM
  PROVE  Listed(v) \subseteq {v} \X (1..Mappings[v]) /\ Listed(v) \subseteq Rule
  BY DEF TypeInv, TypeOK, Mapped, Listed, Rule

LEMMA CommandFrame ==
  ASSUME TypeInv, NEW p \in Proc, Command(p)
  PROVE  /\ op' \in [Proc -> Frame] /\ OthersSame(p) /\ SameCall(p)
         /\ op[p].at # "idle" /\ op'[p].at # "idle" /\ Shape(op'[p])
  <1> DEFINE f == op[p]
             Goal == /\ op' \in [Proc -> Frame] /\ OthersSame(p) /\ SameCall(p)
                     /\ op[p].at # "idle" /\ op'[p].at # "idle" /\ Shape(op'[p])
  <1>0. /\ op \in [Proc -> Frame] /\ f \in Frame /\ Shape(f)
        /\ 0 \in 0..(Attempts - 1)
    BY AttemptsAssumption DEF TypeInv, TypeOK
  <1>1. ASSUME NEW g \in Frame, op' = [op EXCEPT ![p] = g],
               f.at # "idle", g.at # "idle",
               g.call = f.call, g.vm = f.vm, Shape(g)
        PROVE  Goal
    BY <1>0, <1>1, MoveFrame DEF SameCall
  <1> DEFINE Same(g) == /\ g.call = f.call /\ g.vm = f.vm
                        /\ g.at # "idle" /\ g \in Frame
  <1>2. CASE Append(p)
    <2> DEFINE at == IF f.next = Mappings[f.vm] THEN "ok" ELSE "add"
               g == [f EXCEPT !.next = @ + 1, !.tries = 0, !.at = at]
    <2>1. f.at = "add" /\ op' = [op EXCEPT ![p] = g]
      BY <1>0, <1>2 DEF Append
    <2>2. /\ at = (IF f.next = Mappings[f.vm] THEN "ok" ELSE "add")
          /\ at \in At /\ at # "idle" /\ f.next + 1 \in Nat
      BY <1>0 DEF Frame, At
    <2> HIDE DEF at
    <2>2a. /\ Same(g) /\ g.next = f.next + 1 /\ g.at = at
           /\ g.lines = f.lines /\ g.failed = f.failed
      BY <1>0, <2>2 DEF Frame
    <2>3. /\ f.vm \in VM /\ f.call = "Forward" /\ f.lines = {} /\ ~f.failed
          /\ f.next \in 1..Mappings[f.vm] /\ Mappings[f.vm] \in Nat
      BY <1>0, <2>1, MappingsAssumption DEF Shape, Adding
    <2> HIDE DEF g
    <2>4. Shape(g)
      BY <2>2, <2>2a, <2>3 DEF Shape, Adding, PortCall
    <2> QED BY <1>1, <2>1, <2>2a, <2>4
  <1>3. CASE AppendFails(p)
    <2> DEFINE g == [f EXCEPT !.at = "save", !.tries = 0]
    <2>1. f.at = "add" /\ op' = [op EXCEPT ![p] = g]
      BY <1>0, <1>3 DEF AppendFails, CleanUp
    <2>2. /\ Same(g) /\ g.at = "save" /\ g.lines = f.lines /\ g.failed = f.failed
      BY <1>0 DEF Frame, At
    <2> HIDE DEF g
    <2>4. Shape(g)
      BY <1>0, <2>1, <2>2 DEF Shape, Adding
    <2> QED BY <1>1, <2>1, <2>2, <2>4
  <1>4. CASE Save(p)
    <2> DEFINE lines == Listed(f.vm)
               at == AfterLine(f, lines)
               g == [f EXCEPT !.lines = lines, !.tries = 0, !.at = at]
    <2>1. f.at = "save" /\ op' = [op EXCEPT ![p] = g]
      BY <1>0, <1>4 DEF Save
    <2>2. /\ lines \subseteq {f.vm} \X (1..Mappings[f.vm])
          /\ lines \in SUBSET Rule
          /\ at = IF lines = {} THEN Answer(f.call, f.failed) ELSE "del"
          /\ at \in {"ok", "err", "del"}
      BY <1>0, <2>1, ListedShape DEF Shape, AfterLine, Answer
    <2> HIDE DEF lines, at
    <2>3. /\ Same(g) /\ g.at = at /\ g.lines = lines /\ g.failed = f.failed
      BY <1>0, <2>2 DEF Frame, At
    <2> HIDE DEF g
    <2>4. Shape(g)
      BY <1>0, <2>1, <2>2, <2>3 DEF Shape, Adding, Answer
    <2> QED BY <1>1, <2>1, <2>3, <2>4
  <1>5. CASE SaveFails(p)
    <2> DEFINE g == [f EXCEPT !.failed = TRUE, !.at = "err"]
    <2>1. f.at = "save" /\ op' = [op EXCEPT ![p] = g]
      BY <1>0, <1>5 DEF SaveFails
    <2>2. /\ Same(g) /\ g.at = "err" /\ g.lines = f.lines
      BY <1>0 DEF Frame, At
    <2> HIDE DEF g
    <2>4. Shape(g)
      BY <1>0, <2>1, <2>2 DEF Shape, Adding
    <2> QED BY <1>1, <2>1, <2>2, <2>4
  <1>6. CASE Delete(p)
    <2>1. PICK r \in f.lines :
            op' = [op EXCEPT ![p].lines = @ \ {r}, ![p].tries = 0,
                             ![p].at = AfterLine(f, f.lines \ {r})]
      BY <1>6 DEF Delete
    <2> DEFINE at == AfterLine(f, f.lines \ {r})
               g == [f EXCEPT !.lines = @ \ {r}, !.tries = 0, !.at = at]
    <2>2. f.at = "del" /\ op' = [op EXCEPT ![p] = g]
      BY <1>0, <1>6, <2>1 DEF Delete
    <2>3. /\ at = IF f.lines \ {r} = {} THEN Answer(f.call, f.failed) ELSE "del"
          /\ at \in {"ok", "err", "del"}
      BY DEF AfterLine, Answer
    <2> HIDE DEF at
    <2>4. /\ Same(g) /\ g.at = at /\ g.lines = f.lines \ {r}
      BY <1>0, <2>3 DEF Frame, At
    <2> HIDE DEF g
    <2>5. Shape(g)
      BY <1>0, <2>2, <2>3, <2>4 DEF Shape, Adding, Answer
    <2> QED BY <1>1, <2>2, <2>4, <2>5
  <1>7. CASE DeleteFails(p)
    <2>1. PICK r \in f.lines :
            op' = [op EXCEPT ![p] = [f EXCEPT !.lines = @ \ {r}, !.tries = 0,
                     !.failed = TRUE,
                     !.at = AfterLine([f EXCEPT !.failed = TRUE], f.lines \ {r})]]
      BY <1>7 DEF DeleteFails
    <2> DEFINE at == AfterLine([f EXCEPT !.failed = TRUE], f.lines \ {r})
               g == [f EXCEPT !.lines = @ \ {r}, !.tries = 0, !.failed = TRUE,
                              !.at = at]
    <2>2. f.at = "del" /\ op' = [op EXCEPT ![p] = g]
      BY <1>0, <1>7, <2>1 DEF DeleteFails
    <2>3. at = IF f.lines \ {r} = {} THEN "err" ELSE "del"
      BY <1>0 DEF AfterLine, Answer, Frame
    <2> HIDE DEF at
    <2>4. /\ Same(g) /\ g.at = at /\ g.lines = f.lines \ {r}
      BY <1>0, <2>3 DEF Frame, At
    <2> HIDE DEF g
    <2>5. Shape(g)
      BY <1>0, <2>2, <2>3, <2>4 DEF Shape, Adding
    <2> QED BY <1>1, <2>2, <2>4, <2>5
  <1>8. CASE TableBusy(p)
    <2> DEFINE g == [f EXCEPT !.at = "sleep", !.tries = @ + 1]
    <2>1. /\ f.at \in {"add", "del"} /\ op' = [op EXCEPT ![p] = g]
          /\ f.tries + 1 < Attempts
      BY <1>0, <1>8 DEF TableBusy, TriesLeft, Again
    <2>2. f.tries + 1 \in 0..(Attempts - 1)
      BY <1>0, <2>1, AttemptsAssumption DEF Frame
    <2>3. /\ Same(g) /\ g.at = "sleep" /\ g.lines = f.lines
          /\ g.failed = f.failed /\ g.next = f.next
      BY <1>0, <2>2 DEF Frame, At
    <2> HIDE DEF g
    <2>4. Shape(g)
      BY <1>0, <2>1, <2>3 DEF Shape, Adding
    <2> QED BY <1>1, <2>1, <2>3, <2>4
  <1>9. CASE Wake(p)
    <2> DEFINE at == IF f.lines = {} THEN "add" ELSE "del"
               g == [f EXCEPT !.at = at]
    <2>1. f.at = "sleep" /\ op' = [op EXCEPT ![p] = g]
      BY <1>0, <1>9 DEF Wake
    <2>2. /\ Same(g) /\ g.at = at /\ g.lines = f.lines
          /\ g.failed = f.failed /\ g.next = f.next
      BY <1>0 DEF Frame, At
    <2> HIDE DEF g
    <2>4. Shape(g)
      BY <1>0, <2>1, <2>2 DEF Shape, Adding
    <2> QED BY <1>1, <2>1, <2>2, <2>4
  <1> QED
    BY <1>2, <1>3, <1>4, <1>5, <1>6, <1>7, <1>8, <1>9 DEF Command
(***************************************************************************)
(* Type correctness.                                                       *)
(***************************************************************************)
LEMMA CommandTable ==
  ASSUME TypeInv, NEW p \in Proc, Command(p)
  PROVE  /\ life' = life /\ faults' \in Nat
         /\ nat' \subseteq nat \cup {<<op[p].vm, op[p].next>>}
         /\ nat' \ nat # {} => Append(p)
  <1>1. faults \in Nat
    BY DEF TypeInv, TypeOK
  <1>2. CASE Append(p)
    BY <1>1, <1>2 DEF Append
  <1>2a. ASSUME Refused(p) PROVE faults' \in Nat
    BY <1>1, <1>2a DEF Refused, Fault
  <1>3. CASE AppendFails(p) \/ DeleteFails(p)
    <2>1. /\ UNCHANGED <<nat, life>>
          /\ Refused(p) \/ UNCHANGED faults
      BY <1>3 DEF AppendFails, DeleteFails
    <2> QED BY <1>1, <1>2a, <2>1
  <1>4. CASE Save(p) \/ SaveFails(p)
    BY <1>1, <1>4 DEF Save, SaveFails, Fault
  <1>5. CASE Delete(p)
    BY <1>1, <1>5 DEF Delete
  <1>6. CASE TableBusy(p) \/ Wake(p)
    BY <1>1, <1>6 DEF TableBusy, Wake
  <1> QED BY <1>2, <1>3, <1>4, <1>5, <1>6 DEF Command

\* Return, Crash: the process is idle again.
LEMMA EndFrame ==
  ASSUME TypeInv, NEW p \in Proc, Return(p) \/ Crash(p)
  PROVE  /\ op' = [op EXCEPT ![p] = IdleFrame] /\ op' \in [Proc -> Frame]
         /\ OthersSame(p) /\ op'[p] = IdleFrame /\ Shape(op'[p])
         /\ nat' = nat /\ life' \in [VM -> Life] /\ faults' \in Nat
  BY IdleShape, MoveFrame DEF TypeInv, TypeOK, Return, Crash, Fault, Life

LEMMA TypeInvariant == Spec => []TypeInv
  <1>1. Init => TypeInv
    BY IdleShape DEF Init, TypeInv, TypeOK, Mapped, Life
  <1>2. TypeInv /\ [Next]_vars => TypeInv'
    <2> SUFFICES ASSUME TypeInv, [Next]_vars PROVE TypeInv'
      OBVIOUS
    <2>1. ASSUME NEW p \in Proc, NEW call \in PortCall, NEW v \in VM,
                 Begin(p, call, v)
          PROVE  TypeInv'
      <3>1. op' \in [Proc -> Frame] /\ \A q \in Proc : Shape(op'[q])
        BY <2>1, BeginFrame DEF TypeInv, OthersSame
      <3>2. /\ nat' = nat /\ faults' = faults
            /\ life' = [life EXCEPT ![v] = IF call = "Forward" THEN "creating" ELSE @]
        BY <2>1 DEF Begin
      <3>3. life' \in [VM -> Life]
        BY <3>2 DEF TypeInv, TypeOK, Life
      <3> QED BY <3>1, <3>2, <3>3 DEF TypeInv, TypeOK, Mapped
    <2>2. ASSUME NEW p \in Proc, Command(p) PROVE TypeInv'
      <3>1. op' \in [Proc -> Frame] /\ \A q \in Proc : Shape(op'[q])
        BY <2>2, CommandFrame DEF TypeInv, OthersSame
      <3>2. life' = life /\ faults' \in Nat
        BY <2>2, CommandTable
      <3>3. nat' \subseteq {r \in Rule : r[2] \in 1..Mappings[r[1]]}
        <4>1. CASE Append(p)
          <5>1. /\ op[p].vm \in VM /\ op[p].next \in 1..Mappings[op[p].vm]
                /\ op[p].next \in Nat
            BY <4>1 DEF Append, TypeInv, TypeOK, Shape, Adding, Frame
          <5> QED BY <4>1, <5>1 DEF Append, TypeInv, Mapped, Rule
        <4>2. CASE ~Append(p)
          BY <2>2, <4>2, CommandTable DEF TypeInv, Mapped
        <4> QED BY <4>1, <4>2
      <3> QED BY <3>1, <3>2, <3>3 DEF TypeInv, TypeOK, Mapped
    <2>3. ASSUME NEW p \in Proc, Return(p) \/ Crash(p) PROVE TypeInv'
      BY <2>3, EndFrame DEF TypeInv, TypeOK, Mapped, OthersSame
    <2>4. CASE Reboot
      BY <2>4, IdleShape DEF Reboot, Fault, TypeInv, TypeOK, Mapped
    <2>5. CASE UNCHANGED vars
      BY <2>5 DEF vars, TypeInv, TypeOK, Mapped
    <2> QED BY <2>1, <2>2, <2>3, <2>4, <2>5 DEF Next
  <1> QED BY <1>1, <1>2, PTL DEF Spec

\* Every variable keeps its type (the state iptables_ports.go works on).
THEOREM TypeCorrect == Spec => []TypeOK
  <1>1. TypeInv => TypeOK
    BY DEF TypeInv
  <1> QED BY <1>1, TypeInvariant, PTL
(***************************************************************************)
(* The rules of each VM.                                                   *)
(***************************************************************************)
\* A command leaves the calls of other processes accounted for: what it adds
\* is for a VM it has to itself, and what it removes was to be removed.
LEMMA OthersAccounted ==
  ASSUME TypeInv, RulesInv, NEW p \in Proc, op[p].at # "idle",
         OthersSame(p),
         \A r : r[1] # op[p].vm => (r \in nat <=> r \in nat'),
         op[p].call = "Forward" \/ nat' \subseteq nat
  PROVE  \A q \in Proc : q # p => Accounted(op[q])'
  <1> SUFFICES ASSUME NEW q \in Proc, q # p, op[q].at # "idle"
               PROVE  Accounted(op[q])'
    BY DEF OthersSame, Accounted
  <1> DEFINE f == op[q]
             left == {r \in nat : r[1] = f.vm}
             now == {r \in nat' : r[1] = f.vm}
  <1>1. op'[q] = f /\ Accounted(f)
    BY DEF RulesInv, OthersSame
  <1>2. CASE f.vm # op[p].vm
    <2>1. now = left
      BY <1>2
    <2> QED BY <1>1, <2>1 DEF Accounted
  <1>3. CASE f.vm = op[p].vm
    <2>1. op[p].call # "Forward" /\ f.call # "Forward"
      BY <1>3 DEF RulesInv, ForwardsAlone
    <2>2. now \subseteq left /\ ~Adding(f)
      BY <2>1 DEF TypeInv, Shape
    <2> QED BY <1>1, <2>1, <2>2 DEF Accounted
  <1> QED BY <1>2, <1>3

LEMMA CommandRules ==
  ASSUME TypeInv, RulesInv, NEW p \in Proc, Command(p)
  PROVE  RulesInv'
  <1> DEFINE f == op[p]
             g == op'[p]
             left == {r \in nat : r[1] = f.vm}
             now == {r \in nat' : r[1] = f.vm}
             Others == \A r : r[1] # f.vm => (r \in nat <=> r \in nat')
             Shrinks == f.call = "Forward" \/ nat' \subseteq nat
             Right == Accounted(op[p])'
             Goal == Others /\ Shrinks /\ Right
  <1>0. /\ op \in [Proc -> Frame] /\ f \in Frame
        /\ Shape(f) /\ Staged(f) /\ Accounted(f)
    BY DEF TypeInv, TypeOK, RulesInv
  <1>1. /\ OthersSame(p) /\ SameCall(p) /\ f.at # "idle" /\ g.at # "idle"
        /\ life' = life /\ g.call = f.call /\ g.vm = f.vm
    BY CommandFrame, CommandTable DEF SameCall
  <1>a. ASSUME nat' = nat PROVE Others /\ Shrinks /\ now = left
    BY <1>a
  <1>b. ASSUME /\ Adding(g) => now = {g.vm} \X (1..(g.next - 1))
               /\ g.lines # {} /\ ~g.failed => now \subseteq g.lines
               /\ g.at = "ok" => now = IF g.call = "Forward"
                                         THEN {g.vm} \X (1..Mappings[g.vm]) ELSE {}
               /\ g.at = "err" /\ g.call = "Forward" /\ ~g.failed => now = {}
        PROVE  Right
    BY <1>1, <1>b DEF Accounted
  <1> HIDE DEF Right
  <1>2. ASSUME Append(p) PROVE Goal
    <2>1. /\ f.at = "add" /\ nat' = nat \cup {<<f.vm, f.next>>}
          /\ g.at = (IF f.next = Mappings[f.vm] THEN "ok" ELSE "add")
          /\ g.next = f.next + 1 /\ g.lines = f.lines
      BY <1>0, <1>2 DEF Append, Frame
    <2>2. /\ f.call = "Forward" /\ f.lines = {} /\ f.vm \in VM
          /\ f.next \in 1..Mappings[f.vm] /\ Mappings[f.vm] \in Nat
          /\ left = {f.vm} \X (1..(f.next - 1))
      BY <1>0, <2>1, MappingsAssumption DEF Shape, Adding, Accounted
    <2>3. now = {f.vm} \X (1..f.next)
      BY <2>1, <2>2
    <2> QED BY <1>1, <1>b, <2>1, <2>2, <2>3
  <1>3. ASSUME AppendFails(p) PROVE Goal
    <2>1. g.at = "save" /\ nat' = nat /\ f.at = "add" /\ g.lines = f.lines
      BY <1>0, <1>3 DEF AppendFails, CleanUp, Frame
    <2> QED BY <1>0, <1>1, <1>a, <1>b, <2>1 DEF Shape, Adding
  <1>4. ASSUME Save(p) PROVE Goal
    <2>1. /\ f.at = "save" /\ nat' = nat /\ g.lines = left
          /\ g.at = AfterLine(f, left) /\ g.failed = f.failed
      BY <1>0, <1>4 DEF Save, Listed, Frame
    <2> QED BY <1>0, <1>1, <1>a, <1>b, <2>1
            DEF AfterLine, Answer, Shape, Adding, PortCall
  <1>5. ASSUME SaveFails(p) PROVE Goal
    <2>1. g.at = "err" /\ nat' = nat /\ g.failed /\ f.at = "save" /\ g.lines = f.lines
      BY <1>0, <1>5 DEF SaveFails, Frame
    <2> QED BY <1>0, <1>1, <1>a, <1>b, <2>1 DEF Shape, Adding
  <1>6. ASSUME Delete(p) PROVE Goal
    <2>0. PICK r \in f.lines :
            /\ nat' = nat \ {r}
            /\ op' = [op EXCEPT ![p].lines = @ \ {r}, ![p].tries = 0,
                                ![p].at = AfterLine(f, f.lines \ {r})]
      BY <1>6 DEF Delete
    <2>1. /\ f.at = "del" /\ nat' = nat \ {r} /\ g.lines = f.lines \ {r}
          /\ g.at = AfterLine(f, f.lines \ {r}) /\ g.failed = f.failed
      BY <1>0, <1>6, <2>0 DEF Delete, Frame
    <2>2. r[1] = f.vm /\ now = left \ {r} /\ Others /\ Shrinks
      BY <1>0, <2>1 DEF Shape
    <2> QED BY <1>0, <1>1, <1>b, <2>1, <2>2
            DEF AfterLine, Answer, Accounted, Adding, Shape, PortCall
  <1>7. ASSUME DeleteFails(p) PROVE Goal
    <2>0. PICK r \in f.lines :
            op' = [op EXCEPT ![p] = [f EXCEPT !.lines = @ \ {r}, !.tries = 0,
                     !.failed = TRUE,
                     !.at = AfterLine([f EXCEPT !.failed = TRUE], f.lines \ {r})]]
      BY <1>7 DEF DeleteFails
    <2>1. /\ f.at = "del" /\ nat' = nat /\ g.lines = f.lines \ {r}
          /\ g.at = AfterLine([f EXCEPT !.failed = TRUE], f.lines \ {r})
          /\ g.failed
      BY <1>0, <1>7, <2>0 DEF DeleteFails, Frame
    <2>2. g.at = IF f.lines \ {r} = {} THEN "err" ELSE "del"
      BY <1>0, <2>1 DEF AfterLine, Answer, Frame
    <2> QED BY <1>0, <1>1, <1>a, <1>b, <2>1, <2>2 DEF Adding
  <1>8. ASSUME TableBusy(p) \/ Wake(p) PROVE Goal
    <2>1. /\ nat' = nat /\ g.lines = f.lines /\ g.failed = f.failed
          /\ g.next = f.next
          /\ \/ f.at \in {"add", "del"} /\ g.at = "sleep"
             \/ f.at = "sleep" /\ g.at = IF f.lines = {} THEN "add" ELSE "del"
      BY <1>0, <1>8 DEF TableBusy, Again, Wake, Frame
    <2> QED BY <1>0, <1>1, <1>a, <1>b, <2>1 DEF Accounted, Adding, Shape
  <1>9. Goal
    BY <1>2, <1>3, <1>4, <1>5, <1>6, <1>7, <1>8 DEF Command
  <1>10. \A q \in Proc : Accounted(op[q])'
    BY <1>1, <1>9, OthersAccounted DEF Right
  <1>11. ForwardsAlone' /\ \A q \in Proc : Staged(op[q])'
    BY <1>1 DEF RulesInv, ForwardsAlone, Staged, OthersSame
  <1>12. \A v \in VM : life'[v] = "new" => {r \in nat' : r[1] = v} = {}
    <2> SUFFICES ASSUME NEW v \in VM, life[v] = "new"
                 PROVE  {r \in nat' : r[1] = v} = {}
      BY <1>1
    <2>1. v # f.vm /\ {r \in nat : r[1] = v} = {}
      BY <1>0, <1>1 DEF RulesInv, Staged
    <2> QED BY <1>9, <2>1
  <1> QED BY <1>10, <1>11, <1>12 DEF RulesInv

LEMMA RulesInvariant == Spec => []RulesInv
  <1>1. Init => RulesInv
    BY DEF Init, RulesInv, ForwardsAlone, Staged, Accounted, IdleFrame, Adding
  <1>2. TypeInv /\ RulesInv /\ [Next]_vars => RulesInv'
    <2> SUFFICES ASSUME TypeInv, RulesInv, [Next]_vars PROVE RulesInv'
      OBVIOUS
    <2>1. ASSUME NEW p \in Proc, NEW call \in PortCall, NEW v \in VM,
                 Begin(p, call, v)
          PROVE  RulesInv'
      <3> DEFINE g == op'[p]
      <3>1. /\ OthersSame(p) /\ nat' = nat
            /\ op[p].at = "idle" /\ g.at # "idle"
            /\ g.call = call /\ g.vm = v /\ g.next = 1 /\ g.lines = {}
            /\ g.at = IF call = "RemoveForwarded" THEN "save"
                      ELSE IF Mappings[v] = 0 THEN "ok" ELSE "add"
        BY <2>1, BeginFrame DEF Begin, Busy, IdleFrame
      <3>2. /\ life' = [life EXCEPT ![v] = IF call = "Forward" THEN "creating" ELSE @]
            /\ life[v] = IF call = "Forward" THEN "new" ELSE "known"
            /\ life \in [VM -> Life]
        BY <2>1 DEF Begin, TypeInv, TypeOK
      <3>3. \A q \in Proc : op[q].at # "idle" /\ op[q].vm = v =>
              op[q].call # "Forward" /\ life[v] = "known"
        <4> SUFFICES ASSUME NEW q \in Proc, op[q].at # "idle", op[q].vm = v
                     PROVE  op[q].call # "Forward" /\ life[v] = "known"
          OBVIOUS
        <4> QED BY <3>2 DEF RulesInv, Staged
      <3>4. ForwardsAlone'
        BY <3>1, <3>2, <3>3 DEF RulesInv, ForwardsAlone, OthersSame
      <3>5. \A q \in Proc : Staged(op[q])'
        BY <3>1, <3>2, <3>3 DEF RulesInv, Staged, OthersSame, TypeInv, Shape
      <3>6. Accounted(op[p])'
        BY <3>1, <3>2, MappingsAssumption DEF RulesInv, Accounted, Adding, PortCall
      <3>7. \A q \in Proc : Accounted(op[q])'
        BY <3>1, <3>6 DEF RulesInv, OthersSame, Accounted
      <3> QED BY <3>1, <3>2, <3>4, <3>5, <3>7 DEF RulesInv
    <2>2. ASSUME NEW p \in Proc, Command(p) PROVE RulesInv'
      BY <2>2, CommandRules
    <2>3. ASSUME NEW p \in Proc, Return(p) \/ Crash(p) PROVE RulesInv'
      <3>1. /\ OthersSame(p) /\ op'[p].at = "idle" /\ nat' = nat
            /\ op[p].at # "idle"
        BY <2>3, EndFrame DEF IdleFrame, Return, Crash, Busy
      <3>2. \/ life' = life
            \/ /\ op[p].call = "Forward"
               /\ life' = [life EXCEPT ![op[p].vm] = "known"]
        BY <2>3 DEF Return, Crash
      <3>3. /\ op[p].vm \in VM /\ life \in [VM -> Life]
            /\ \A q \in Proc : op[q].at # "idle" => op[q].vm \in VM
        BY <3>1 DEF TypeInv, TypeOK, Shape
      <3>4. \A q \in Proc : Staged(op[q])'
        BY <3>1, <3>2, <3>3 DEF RulesInv, Staged, OthersSame, ForwardsAlone
      <3>5. ForwardsAlone' /\ \A q \in Proc : Accounted(op[q])'
        BY <3>1 DEF RulesInv, ForwardsAlone, Accounted, OthersSame
      <3>6. \A v \in VM : life'[v] = "new" => life[v] = "new"
        BY <3>2, <3>3
      <3> QED BY <3>1, <3>4, <3>5, <3>6 DEF RulesInv
    <2>4. CASE Reboot
      <3>1. nat' = {} /\ \A p \in Proc : op'[p].at = "idle"
        BY <2>4 DEF Reboot, IdleFrame
      <3> QED BY <3>1 DEF RulesInv, ForwardsAlone, Staged, Accounted
    <2>5. CASE UNCHANGED vars
      BY <2>5 DEF vars, RulesInv, ForwardsAlone, Staged, Accounted
    <2> QED BY <2>1, <2>2, <2>3, <2>4, <2>5 DEF Next
  <1> QED BY <1>1, <1>2, TypeInvariant, PTL DEF Spec
\* Forward answers "ok" with every mapping in the table, and fails with none
\* unless its clean-up failed too (iptables_ports.go:36-40), however many
\* processes work on the table, whatever is refused and whoever dies.
THEOREM ForwardIsAllOrNothing == Spec => []AllOrNothing
  <1>1. TypeInv /\ RulesInv => AllOrNothing
    <2> SUFFICES ASSUME TypeInv, RulesInv, NEW p \in Proc,
                        op[p].call = "Forward", op[p].at \in {"ok", "err"}
                 PROVE  /\ op[p].at = "ok" =>
                             RulesOf(op[p].vm) = {op[p].vm} \X (1..Mappings[op[p].vm])
                        /\ op[p].at = "err" /\ ~op[p].failed => RulesOf(op[p].vm) = {}
      BY DEF AllOrNothing
    <2> QED BY DEF RulesInv, Accounted, RulesOf
  <1> QED BY <1>1, TypeInvariant, RulesInvariant, PTL

\* RemoveForwarded answers "ok" only with no rule of the VM in the table, even
\* if other deletions of the same VM listed and deleted in between: nobody
\* adds rules for a VM whose deletion is admitted.
THEOREM RemovalIsComplete == Spec => []RemovedMeansGone
  <1>1. RulesInv => RemovedMeansGone
    BY DEF RulesInv, Accounted, RulesOf, RemovedMeansGone
  <1> QED BY <1>1, RulesInvariant, PTL

(***************************************************************************)
(* What a command does in the eyes of a caller: it adds rules, it waits    *)
(* for the table to add more, it turns to the clean-up, or it only removes *)
(* rules from then on; always its own VM's.                                *)
(***************************************************************************)
OwnOnly(v) == \A r : r[1] # v => (r \in nat <=> r \in nat')

Grows(f, g)  == f.at = "add" /\ g.at \in {"add", "ok"} /\ nat \subseteq nat'
Waits(f, g)  == Adding(f) /\ Adding(g) /\ nat' = nat
Turns(f, g)  == f.at = "add" /\ g.at = "save" /\ nat' = nat
Clears(f, g) == /\ f.at \in {"save", "del", "sleep"} /\ ~Adding(f) /\ ~Adding(g)
                /\ nat' \subseteq nat
                /\ g.at = "ok" => f.call = "RemoveForwarded"

LEMMA CommandMoves ==
  ASSUME TypeInv, NEW p \in Proc, Command(p)
  PROVE  /\ OwnOnly(op[p].vm)
         /\ \/ Grows(op[p], op'[p]) \/ Waits(op[p], op'[p])
            \/ Turns(op[p], op'[p]) \/ Clears(op[p], op'[p])
  <1> DEFINE f == op[p]
             g == op'[p]
             Goal == /\ OwnOnly(f.vm)
                     /\ Grows(f, g) \/ Waits(f, g) \/ Turns(f, g) \/ Clears(f, g)
  <1>0. op \in [Proc -> Frame] /\ f \in Frame /\ Shape(f) /\ Shape(g)
    BY CommandFrame DEF TypeInv, TypeOK
  <1>a. ASSUME nat' = nat PROVE OwnOnly(f.vm) /\ nat' \subseteq nat
    BY <1>a DEF OwnOnly
  <1>1. CASE Append(p)
    <2>1. /\ f.at = "add" /\ g.at \in {"add", "ok"}
          /\ nat' = nat \cup {<<f.vm, f.next>>}
      BY <1>0, <1>1 DEF Append, Frame
    <2> QED BY <2>1 DEF OwnOnly, Grows
  <1>2. CASE AppendFails(p)
    <2>1. f.at = "add" /\ g.at = "save" /\ nat' = nat
      BY <1>0, <1>2 DEF AppendFails, CleanUp, Frame
    <2> QED BY <1>a, <2>1 DEF Turns
  <1>3. CASE Save(p)
    <2>1. f.at = "save" /\ g.at = AfterLine(f, Listed(f.vm)) /\ nat' = nat
      BY <1>0, <1>3 DEF Save, Frame
    <2> QED BY <1>0, <1>a, <2>1 DEF Clears, AfterLine, Answer, Adding
  <1>4. CASE SaveFails(p)
    <2>1. f.at = "save" /\ g.at = "err" /\ nat' = nat
      BY <1>0, <1>4 DEF SaveFails, Frame
    <2> QED BY <1>a, <2>1 DEF Clears, Adding
  <1>5. CASE Delete(p)
    <2>0. PICK r \in f.lines :
            /\ nat' = nat \ {r}
            /\ op' = [op EXCEPT ![p].lines = @ \ {r}, ![p].tries = 0,
                                ![p].at = AfterLine(f, f.lines \ {r})]
      BY <1>5 DEF Delete
    <2>1. /\ f.at = "del" /\ g.at = AfterLine(f, f.lines \ {r})
      BY <1>0, <1>5, <2>0 DEF Delete, Frame
    <2>2. OwnOnly(f.vm) /\ nat' \subseteq nat
      BY <1>0, <2>0, <2>1 DEF Shape, OwnOnly
    <2> QED BY <2>1, <2>2 DEF Clears, AfterLine, Answer, Adding
  <1>6. CASE DeleteFails(p)
    <2>0. PICK r \in f.lines :
            op' = [op EXCEPT ![p] = [f EXCEPT !.lines = @ \ {r}, !.tries = 0,
                     !.failed = TRUE,
                     !.at = AfterLine([f EXCEPT !.failed = TRUE], f.lines \ {r})]]
      BY <1>6 DEF DeleteFails
    <2>1. /\ f.at = "del" /\ nat' = nat
          /\ g.at = AfterLine([f EXCEPT !.failed = TRUE], f.lines \ {r})
      BY <1>0, <1>6, <2>0 DEF DeleteFails, Frame
    <2>2. g.at \in {"del", "err"}
      BY <1>0, <2>1 DEF AfterLine, Answer, Frame
    <2> QED BY <1>a, <2>1, <2>2 DEF Clears, Adding
  <1>7. CASE TableBusy(p) \/ Wake(p)
    <2>1. /\ nat' = nat /\ g.lines = f.lines
          /\ \/ f.at \in {"add", "del"} /\ g.at = "sleep"
             \/ f.at = "sleep" /\ g.at = IF f.lines = {} THEN "add" ELSE "del"
      BY <1>0, <1>7 DEF TableBusy, Again, Wake, Frame
    <2> QED BY <1>0, <1>a, <2>1 DEF Waits, Clears, Adding, Shape
  <1> QED
    BY <1>1, <1>2, <1>3, <1>4, <1>5, <1>6, <1>7 DEF Command

\* A command changes only rules of the VM its process works on, whatever its
\* listing was and however long ago it was taken (removeRulesWithID).
THEOREM StrangersKeepRules == Spec => OnlyOwnRules
  <1> DEFINE Kept == \A v \in VM : (\A p \in Proc : op[p].vm # v)
                        => RulesOf(v)' = RulesOf(v) \/ nat' = {}
  <1>1. TypeInv /\ [Next]_vars => [Kept]_vars
    <2> SUFFICES ASSUME TypeInv, Next, NEW v \in VM, \A p \in Proc : op[p].vm # v
                 PROVE  RulesOf(v)' = RulesOf(v) \/ nat' = {}
      BY DEF vars
    <2>1. ASSUME NEW p \in Proc, Command(p) PROVE RulesOf(v)' = RulesOf(v)
      BY <2>1, CommandMoves DEF OwnOnly, RulesOf
    <2>2. ASSUME NEW p \in Proc, Return(p) \/ Crash(p) PROVE nat' = nat
      BY <2>2 DEF Return, Crash
    <2>3. ASSUME NEW p \in Proc, NEW call, NEW w, Begin(p, call, w) PROVE nat' = nat
      BY <2>3 DEF Begin
    <2>4. CASE Reboot
      BY <2>4 DEF Reboot
    <2> QED BY <2>1, <2>2, <2>3, <2>4 DEF Next, RulesOf
  <1> QED BY <1>1, TypeInvariant, PTL DEF Spec, OnlyOwnRules

(***************************************************************************)
(* The refinement.  Calls and Rules are what the interface sees; the first *)
(* lemmas state its actions over them.                                     *)
(***************************************************************************)
Seen(f) == CallOf(IF f.vm # NoVM /\ Mappings[f.vm] = 0 THEN IdleFrame ELSE f)
Calls == [p \in Proc |-> Seen(op[p])]
Rules == [v \in VM |-> RulesAre(v)]

In(call, v, at) == [call |-> call, vm |-> v, at |-> at]
NoCall == In("none", NoVM, "idle")
Become(v, x) == Rules' = [w \in VM |-> IF w = v THEN x ELSE Rules[w]]
Up(x)   == UpFrom(x, RulesState)
Down(x) == DownFrom(x, RulesState)

LEMMA AbstractInit == Init => Interface!Init
  <1> SUFFICES ASSUME Init PROVE Interface!Init
    OBVIOUS
  <1>1. \A p \in Proc : Seen(op[p]) = Interface!Idle
    BY DEF Init, IdleFrame, Seen, CallOf, Interface!Idle
  <1>2. \A v \in VM : RulesAre(v) = "none"
    BY DEF Init, RulesAre, RulesOf
  <1>3. Calls = [p \in Proc |-> Interface!Idle] /\ Rules = [v \in VM |-> "none"]
    BY <1>1, <1>2 DEF Calls, Rules
  <1> QED BY <1>3 DEF Interface!Init, Calls, Rules, Seen

LEMMA AbstractBegin ==
  ASSUME NEW p \in Proc, NEW call \in PortCall, NEW v \in VM, Calls[p].at = "idle",
         Calls' = [Calls EXCEPT ![p] = In(call, v, "working")], Rules' = Rules
  PROVE  Interface!Next
  <1>1. Interface!Begin(p, call, v)
    BY DEF In, Interface!Begin, Calls, Rules, Seen
  <1> QED BY <1>1 DEF Interface!Next, PortCall, Interface!PortCall

LEMMA InMoves ==
  ASSUME NEW call, NEW v, NEW at, NEW then
  PROVE  [In(call, v, at) EXCEPT !.at = then] = In(call, v, then)
  BY DEF In

LEMMA AbstractUndo ==
  ASSUME NEW p \in Proc, NEW v, Calls[p] = In("Forward", v, "working"),
         Calls' = [Calls EXCEPT ![p] = In("Forward", v, "undoing")],
         Rules' = Rules
  PROVE  Interface!Next
  <1>1. Calls' = [Calls EXCEPT ![p].at = "undoing"]
    <2>1. [Calls[p] EXCEPT !.at = "undoing"] = In("Forward", v, "undoing")
      BY InMoves
    <2> QED BY <2>1
  <1>2. Calls[p].at = "working" /\ Calls[p].call = "Forward"
    BY DEF In
  <1>3. Interface!Undo(p)
    BY <1>1, <1>2 DEF Interface!Undo, Calls, Rules, Seen
  <1> QED BY <1>3 DEF Interface!Next

LEMMA AbstractEnd ==
  ASSUME NEW p \in Proc, Calls[p].at # "idle",
         Calls' = [Calls EXCEPT ![p] = NoCall], Rules' = Rules
  PROVE  Interface!Next
  <1>1. Interface!End(p)
    BY DEF Interface!End, Interface!Idle, NoCall, In, Calls, Rules, Seen
  <1> QED BY <1>1 DEF Interface!Next

LEMMA AbstractReboot ==
  ASSUME Calls' = [p \in Proc |-> NoCall], Rules' = [v \in VM |-> "none"]
  PROVE  Interface!Next
  <1>1. Interface!Reboot
    BY DEF Interface!Reboot, Interface!Idle, NoCall, In, Calls, Rules, Seen
  <1> QED BY <1>1 DEF Interface!Next

LEMMA AbstractOutcome ==
  ASSUME NEW call, NEW v \in VM, NEW x, Become(v, x),
         x \in IF call = "Forward" THEN Up(Rules[v]) ELSE Down(Rules[v])
  PROVE  Rules' \in Interface!RuleOutcomes(call, v, Rules) /\ Rules'[v] = x
  <1>1. DOMAIN Rules = VM
    BY DEF Rules
  <1>2. Rules' = Interface!RulesBecome(Rules, v, x)
    BY <1>1 DEF Become, Interface!RulesBecome, Interface!OwnRules
  <1>3. x \in IF call = "Forward"
               THEN Interface!UpFrom(Rules[v], Interface!RulesState)
               ELSE Interface!DownFrom(Rules[v], Interface!RulesState)
    BY DEF Up, Down, UpFrom, DownFrom, Rank, RulesState, Interface!UpFrom,
           Interface!DownFrom, Interface!Rank, Interface!RulesState
  <1> QED BY <1>2, <1>3 DEF Interface!RuleOutcomes, Become

LEMMA AbstractWork ==
  ASSUME NEW p \in Proc, NEW call, NEW v \in VM, NEW at \in {"working", "undoing"},
         Calls[p] = In(call, v, at), Calls' = Calls, NEW x, Become(v, x),
         x \in IF call = "Forward" /\ at = "working"
                 THEN Up(Rules[v]) ELSE Down(Rules[v])
  PROVE  Interface!Next
  <1>1. Calls[p].call = call /\ Calls[p].vm = v /\ Calls[p].at = at
    BY DEF In
  <1>2. Rules' \in Interface!RuleOutcomes(Interface!Doing(Calls[p]), Calls[p].vm, Rules)
    BY <1>1, AbstractOutcome DEF Interface!Doing
  <1>3. Interface!Work(p)
    BY <1>1, <1>2 DEF Interface!Work, Calls, Rules, Seen
  <1> QED BY <1>3 DEF Interface!Next

LEMMA AbstractSucceed ==
  ASSUME NEW p \in Proc, NEW call, NEW v \in VM, Calls[p] = In(call, v, "working"),
         Calls' = [Calls EXCEPT ![p] = In(call, v, "ok")], NEW x, Become(v, x),
         x \in IF call = "Forward" THEN Up(Rules[v]) ELSE Down(Rules[v]),
         x = IF call = "Forward" THEN "all" ELSE "none"
  PROVE  Interface!Next
  <1>1. Calls[p].call = call /\ Calls[p].vm = v /\ Calls[p].at = "working"
    BY DEF In
  <1>2. /\ Rules' \in Interface!RuleOutcomes(Calls[p].call, Calls[p].vm, Rules)
        /\ Interface!RulesDone(Calls[p].call, Calls[p].vm, Rules')
    BY <1>1, AbstractOutcome DEF Interface!RulesDone
  <1>3. Calls' = [Calls EXCEPT ![p].at = "ok"]
    <2>1. [Calls[p] EXCEPT !.at = "ok"] = In(call, v, "ok")
      BY InMoves
    <2> QED BY <2>1
  <1>4. Interface!Succeed(p)
    BY <1>1, <1>2, <1>3 DEF Interface!Succeed, Calls, Rules, Seen
  <1> QED BY <1>4 DEF Interface!Next

LEMMA AbstractGiveUp ==
  ASSUME NEW p \in Proc, NEW call, NEW v \in VM, NEW at,
         at = IF call = "Forward" THEN "undoing" ELSE "working",
         Calls[p] = In(call, v, at), NEW x, Become(v, x), x \in Down(Rules[v]),
         Calls' = [Calls EXCEPT ![p] = In(call, v, "err")]
  PROVE  Interface!Next
  <1>1. Calls[p].call = call /\ Calls[p].vm = v /\ Calls[p].at = at
    BY DEF In
  <1>2. Rules' \in Interface!RuleOutcomes("RemoveForwarded", Calls[p].vm, Rules)
    BY <1>1, AbstractOutcome
  <1>3. Calls' = [Calls EXCEPT ![p].at = "err"]
    <2>1. [Calls[p] EXCEPT !.at = "err"] = In(call, v, "err")
      BY InMoves
    <2> QED BY <2>1
  <1>4. Interface!GiveUp(p)
    BY <1>1, <1>2, <1>3 DEF Interface!GiveUp, Calls, Rules, Seen
  <1> QED BY <1>4 DEF Interface!Next

(***************************************************************************)
(* What the interface sees of a step of one process on VM v.               *)
(***************************************************************************)
LEMMA CallsMove ==
  ASSUME op \in [Proc -> Frame], op' \in [Proc -> Frame], NEW p \in Proc,
         OthersSame(p)
  PROVE  /\ Calls[p] = Seen(op[p])
         /\ Calls' = [Calls EXCEPT ![p] = Seen(op'[p])]
  <1>1. \A q \in Proc : Seen(op[q])' = Seen(op'[q])
    BY DEF Seen, CallOf
  <1>2. Calls' = [q \in Proc |-> Seen(op'[q])]
    BY <1>1 DEF Calls
  <1> QED BY <1>2 DEF Calls, OthersSame

LEMMA RulesMove ==
  ASSUME NEW v \in VM, OwnOnly(v)
  PROVE  Become(v, RulesAre(v)')
  <1>1. \A w \in VM : w # v => RulesAre(w)' = RulesAre(w)
    BY DEF OwnOnly, RulesAre, RulesOf
  <1> QED BY <1>1 DEF Become, Rules

LEMMA RulesSame == nat' = nat => Rules' = Rules
  BY DEF Rules, RulesAre, RulesOf

\* More rules are an outcome upwards, fewer one downwards, as long as the
\* table holds only rules of mappings.
LEMMA RulesDirection ==
  ASSUME Mapped, Mapped', NEW v \in VM
  PROVE  /\ nat \subseteq nat' => RulesAre(v)' \in Up(RulesAre(v))
         /\ nat' \subseteq nat => RulesAre(v)' \in Down(RulesAre(v))
  <1> DEFINE full == {v} \X (1..Mappings[v])
             old == RulesOf(v)
             new == {r \in nat' : r[1] = v}
  <1>1. old \subseteq full /\ new \subseteq full
    BY DEF Mapped, Rule, RulesOf
  <1>2. /\ RulesAre(v) = IF old = {} THEN "none" ELSE IF old = full THEN "all" ELSE "some"
        /\ RulesAre(v)' = IF new = {} THEN "none" ELSE IF new = full THEN "all" ELSE "some"
    BY DEF RulesAre, RulesOf
  <1>3. /\ nat \subseteq nat' => old \subseteq new
        /\ nat' \subseteq nat => new \subseteq old
    BY DEF RulesOf
  <1> HIDE DEF full, old, new
  <1> QED BY <1>1, <1>2, <1>3 DEF Up, Down, UpFrom, DownFrom, Rank, RulesState

\* A VM without mappings never has a rule.
LEMMA NoRules ==
  ASSUME Mapped, Mapped', NEW v \in VM, Mappings[v] = 0
  PROVE  RulesAre(v) = "none" /\ RulesAre(v)' = "none"
  BY DEF Mapped, Rule, RulesAre, RulesOf

Phase(f) == IF f.at \in {"ok", "err"} THEN f.at
            ELSE IF f.call = "Forward" /\ ~Adding(f) THEN "undoing" ELSE "working"

LEMMA SeenBusy ==
  ASSUME NEW f \in Frame, Shape(f), f.at # "idle"
  PROVE  Seen(f) = IF Mappings[f.vm] = 0 THEN NoCall ELSE In(f.call, f.vm, Phase(f))
  <1>1. IdleFrame.at = "idle" /\ IdleFrame.call = "none" /\ IdleFrame.vm = NoVM
    BY DEF IdleFrame
  <1>2. f.vm \in VM /\ f.vm # NoVM
    BY NoVMAssumption DEF Shape
  <1>3. CASE Mappings[f.vm] = 0
    BY <1>1, <1>2, <1>3 DEF Seen, CallOf, NoCall, In
  <1>4. CASE Mappings[f.vm] # 0
    <2> DEFINE at == CASE f.at \in {"idle", "ok", "err"} -> f.at
                       [] f.call = "Forward" /\ (f.at \in {"save", "del"} \/ f.lines # {})
                            -> "undoing"
                       [] OTHER -> "working"
    <2>1. Seen(f) = In(f.call, f.vm, at)
      BY <1>2, <1>4 DEF Seen, CallOf, In
    <2>2. f.at \in At
      BY DEF Frame
    <2>3. at = Phase(f)
      BY <2>2 DEF At, Shape, Adding, Phase
    <2> QED BY <1>4, <2>1, <2>3
  <1> QED BY <1>3, <1>4

LEMMA SeenIdle == Seen(IdleFrame) = NoCall
  BY DEF Seen, CallOf, NoCall, In, IdleFrame

(***************************************************************************)
(* Each command is a step of the interface, or one it does not see.        *)
(***************************************************************************)
LEMMA CommandRefines ==
  ASSUME TypeInv, RulesInv, TypeInv', RulesInv', NEW p \in Proc, Command(p)
  PROVE  Interface!Next \/ (Calls' = Calls /\ Rules' = Rules)
  <1> DEFINE f == op[p]
             g == op'[p]
  <1>0. /\ op \in [Proc -> Frame] /\ op' \in [Proc -> Frame] /\ OthersSame(p)
        /\ f \in Frame /\ g \in Frame /\ Shape(f) /\ Shape(g) /\ Mapped /\ Mapped'
        /\ g.call = f.call /\ g.vm = f.vm /\ f.at # "idle" /\ g.at # "idle"
        /\ f.vm \in VM /\ f.call \in PortCall
    BY CommandFrame DEF SameCall, TypeInv, TypeOK, Shape
  <1>1. PICK v \in VM : v = f.vm
    BY <1>0
  <1>2. /\ Calls[p] = Seen(f) /\ Calls' = [Calls EXCEPT ![p] = Seen(g)]
        /\ Become(v, RulesAre(v)') /\ Rules[v] = RulesAre(v)
    BY <1>0, <1>1, CallsMove, RulesMove, CommandMoves DEF Rules
  <1>3. Seen(g) = Seen(f) => Calls' = Calls
    BY <1>2 DEF Calls
  <1>4. CASE Mappings[v] = 0
    <2>1. Seen(f) = NoCall /\ Seen(g) = NoCall
      BY <1>0, <1>1, <1>4, SeenBusy
    <2>2. RulesAre(v) = "none" /\ RulesAre(v)' = "none"
      BY <1>0, <1>4, NoRules
    <2>3. Rules' = Rules
      BY <1>2, <2>2 DEF Become, Rules
    <2> QED BY <1>3, <2>1, <2>3
  <1>5. CASE Mappings[v] # 0
    <2>1. PICK x : x = RulesAre(v)'
      OBVIOUS
    <2>2. /\ Calls[p] = In(f.call, v, Phase(f)) /\ Seen(g) = In(f.call, v, Phase(g))
          /\ Calls' = [Calls EXCEPT ![p] = In(f.call, v, Phase(g))] /\ Become(v, x)
          /\ Phase(g) = Phase(f) => Calls' = Calls
      BY <1>0, <1>1, <1>2, <1>3, <1>5, <2>1, SeenBusy
    <2>3. /\ nat \subseteq nat' => x \in Up(Rules[v])
          /\ nat' \subseteq nat => x \in Down(Rules[v])
      BY <1>0, <1>2, <2>1, RulesDirection
    <2>4. g.at = "ok" => x = IF f.call = "Forward" THEN "all" ELSE "none"
      <3>1. Accounted(op[p])'
        BY DEF RulesInv
      <3>2. g.at = "ok" => {r \in nat' : r[1] = v} =
                             IF f.call = "Forward" THEN {v} \X (1..Mappings[v]) ELSE {}
        BY <1>0, <1>1, <3>1 DEF Accounted
      <3>3. <<v, 1>> \in {v} \X (1..Mappings[v])
        BY <1>5, MappingsAssumption
      <3> QED BY <2>1, <3>2, <3>3 DEF RulesAre, RulesOf
    <2>5. CASE Grows(f, g)
      <3>1. f.call = "Forward" /\ x \in Up(Rules[v]) /\ Phase(f) = "working"
        BY <1>0, <2>3, <2>5 DEF Grows, Shape, Adding, Phase
      <3>2. CASE g.at = "ok"
        <4>1. Phase(g) = "ok" /\ x = "all"
          BY <2>4, <3>1, <3>2 DEF Phase
        <4> QED BY <2>2, <3>1, <4>1, AbstractSucceed
      <3>3. CASE g.at = "add"
        <4>1. Phase(g) = "working"
          BY <3>3 DEF Phase, Adding
        <4> QED BY <2>2, <3>1, <4>1, AbstractWork
      <3> QED BY <2>5, <3>2, <3>3 DEF Grows
    <2>6. CASE Waits(f, g)
      <3>1. Phase(f) = Phase(g)
        BY <1>0, <2>6 DEF Waits, Adding, Phase
      <3> QED BY <2>2, <2>6, <3>1, RulesSame DEF Waits
    <2>7. CASE Turns(f, g)
      <3>1. f.call = "Forward" /\ Phase(f) = "working" /\ Phase(g) = "undoing"
        BY <1>0, <2>7 DEF Turns, Shape, Adding, Phase
      <3> QED BY <2>2, <2>7, <3>1, RulesSame, AbstractUndo DEF Turns
    <2>8. CASE Clears(f, g)
      <3>1. /\ Phase(f) = IF f.call = "Forward" THEN "undoing" ELSE "working"
            /\ Phase(g) = IF g.at \in {"ok", "err"} THEN g.at ELSE Phase(f)
            /\ Phase(f) \in {"working", "undoing"}
            /\ g.at = "ok" => f.call = "RemoveForwarded"
            /\ x \in Down(Rules[v])
        BY <1>0, <2>3, <2>8 DEF Clears, Phase
      <3>2. CASE g.at = "ok"
        <4>1. Phase(f) = "working" /\ Phase(g) = "ok" /\ f.call # "Forward" /\ x = "none"
          BY <2>4, <3>1, <3>2
        <4> QED BY <2>2, <3>1, <4>1, AbstractSucceed
      <3>3. CASE g.at = "err"
        BY <2>2, <3>1, <3>3, AbstractGiveUp
      <3>4. CASE g.at \notin {"ok", "err"}
        <4>1. Calls' = Calls /\ ~(f.call = "Forward" /\ Phase(f) = "working")
          BY <2>2, <3>1, <3>4
        <4>2. x \in IF f.call = "Forward" /\ Phase(f) = "working"
                     THEN Up(Rules[v]) ELSE Down(Rules[v])
          BY <3>1, <4>1
        <4> QED BY <2>2, <3>1, <4>1, <4>2, AbstractWork
      <3> QED BY <3>2, <3>3, <3>4
    <2> QED BY <2>5, <2>6, <2>7, <2>8, CommandMoves
  <1> QED BY <1>4, <1>5

\* Taken as a whole, every call does what the interface promises: Forward adds
\* rules and takes them out again after a failure, RemoveForwarded takes rules
\* out, and each succeeds in the command that completes its work, beside other
\* calls and through refusals, dying processes and restarts of the host.
THEOREM PortsImplemented == Spec => ImplementsPorts
  <1>1. Init => Interface!Init
    BY AbstractInit
  <1>2. /\ TypeInv /\ RulesInv /\ TypeInv' /\ RulesInv' /\ [Next]_vars
        => [Interface!Next]_(Interface!vars)
    <2> SUFFICES ASSUME TypeInv, RulesInv, TypeInv', RulesInv', [Next]_vars
                 PROVE  Interface!Next \/ (Calls' = Calls /\ Rules' = Rules)
      BY DEF Interface!vars, Calls, Rules, Seen
    <2>0. op \in [Proc -> Frame]
      BY DEF TypeInv, TypeOK
    <2>1. ASSUME NEW p \in Proc, NEW call \in PortCall, NEW v \in VM,
                 Begin(p, call, v)
          PROVE  Interface!Next \/ (Calls' = Calls /\ Rules' = Rules)
      <3> DEFINE g == op'[p]
      <3>1. /\ op' \in [Proc -> Frame] /\ OthersSame(p) /\ Shape(g) /\ g \in Frame
            /\ nat' = nat /\ op[p].at = "idle"
            /\ g.at # "idle" /\ g.at # "err" /\ g.call = call /\ g.vm = v /\ g.lines = {}
            /\ Mappings[v] # 0 => g.at \in {"add", "save"}
            /\ g.at = "save" => call = "RemoveForwarded"
        BY <2>1, BeginFrame DEF Begin, Busy, IdleFrame
      <3>2. /\ Calls[p] = NoCall /\ Calls' = [Calls EXCEPT ![p] = Seen(g)]
            /\ Rules' = Rules
        BY <2>0, <3>1, CallsMove, RulesSame, SeenIdle DEF TypeInv, Shape
      <3>3. CASE Mappings[v] = 0
        BY <3>1, <3>2, <3>3, SeenBusy DEF Calls
      <3>4. CASE Mappings[v] # 0
        <4>1. Seen(g) = In(call, v, "working")
          BY <3>1, <3>4, SeenBusy DEF Adding, Phase, PortCall
        <4>2. Calls[p].at = "idle"
          BY <3>2 DEF NoCall, In
        <4> QED BY <3>2, <4>1, <4>2, AbstractBegin
      <3> QED BY <3>3, <3>4
    <2>2. ASSUME NEW p \in Proc, Command(p)
          PROVE  Interface!Next \/ (Calls' = Calls /\ Rules' = Rules)
      BY <2>2, CommandRefines
    <2>3. ASSUME NEW p \in Proc, Return(p) \/ Crash(p)
          PROVE  Interface!Next \/ (Calls' = Calls /\ Rules' = Rules)
      <3>1. /\ OthersSame(p) /\ op'[p] = IdleFrame /\ op' \in [Proc -> Frame]
            /\ nat' = nat /\ op[p].at # "idle" /\ op[p] \in Frame /\ Shape(op[p])
        BY <2>0, <2>3, EndFrame DEF Return, Crash, Busy, TypeInv
      <3>2. /\ Calls[p] = Seen(op[p]) /\ Calls' = [Calls EXCEPT ![p] = NoCall]
            /\ Rules' = Rules
        BY <2>0, <3>1, CallsMove, RulesSame, SeenIdle
      <3>3. CASE Mappings[op[p].vm] = 0
        BY <3>1, <3>2, <3>3, SeenBusy DEF Calls
      <3>4. CASE Mappings[op[p].vm] # 0
        <4>1. Calls[p].at # "idle"
          BY <3>1, <3>2, <3>4, SeenBusy DEF In, Phase
        <4> QED BY <3>2, <4>1, AbstractEnd
      <3> QED BY <3>3, <3>4
    <2>4. CASE Reboot
      <3>1. nat' = {} /\ op' = [p \in Proc |-> IdleFrame]
        BY <2>4 DEF Reboot
      <3>2. Calls' = [p \in Proc |-> NoCall] /\ Rules' = [v \in VM |-> "none"]
        BY <3>1, SeenIdle DEF Calls, Rules, RulesAre, RulesOf
      <3> QED BY <3>2, AbstractReboot
    <2>5. CASE UNCHANGED vars
      BY <2>5, RulesSame DEF vars, Calls, Seen, CallOf
    <2> QED BY <2>1, <2>2, <2>3, <2>4, <2>5 DEF Next
  <1> QED BY <1>1, <1>2, TypeInvariant, RulesInvariant, PTL
          DEF Spec, ImplementsPorts, Interface!Spec
=============================================================================
