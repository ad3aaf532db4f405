-------------------------- MODULE StemcellsProofs --------------------------
(***************************************************************************)
(* Theorems about Stemcells, for any number of stemcells, processes and    *)
(* faults.                                                                 *)
(***************************************************************************)
EXTENDS Stemcells, TLAPS

Ids == Id \cup {Light}

\* How far each call can be, and what it has named by then.
Shape(f) ==
  /\ f.call = "none" <=> f.at = "idle"
  /\ f.call = "none" => f.id = NoId
  /\ f.call = "create_stemcell" =>
       /\ f.at \in {"parse", "light", "start", "unpack", "ok", "err"}
       /\ f.at \in {"parse", "light", "start"} => f.id = NoId
       /\ f.at = "unpack" => f.id \in Id
       /\ f.at = "ok" => f.id \in Ids
  /\ f.call = "delete_stemcell" =>
       /\ f.at \in {"find", "remove", "ok", "err"}
       /\ f.id \in Ids
       /\ f.at = "remove" => f.id \in Id
  /\ f.call = "create_vm" =>
       f.at \in {"find", "use", "ok", "err"} /\ f.id \in Ids

Tables == /\ dir \in [Id -> Contents]
          /\ known \subseteq Ids /\ doomed \subseteq known
          /\ faults \in Nat

TypeInv == /\ op \in [Proc -> Frame] /\ \A p \in Proc : Shape(op[p])
           /\ Tables

(***************************************************************************)
(* Types.                                                                  *)
(***************************************************************************)
\* The step of process p makes its frame g.
Moves(p, g) == /\ op' = [op EXCEPT ![p] = g] /\ g \in Frame /\ Shape(g)
               /\ op' \in [Proc -> Frame] /\ op'[p] = g
               /\ \A q \in Proc : q # p => op'[q] = op[q]

LEMMA IdleShape ==
  /\ IdleFrame \in Frame /\ Shape(IdleFrame)
  /\ IdleFrame.call = "none" /\ IdleFrame.at = "idle" /\ IdleFrame.id = NoId
  /\ IdleFrame.source = NoSource /\ IdleFrame.seen = "absent"
  BY DEF IdleFrame, Frame, Shape, Call, At, NoSource, Source, Contents

LEMMA MoveTo ==
  ASSUME TypeInv, NEW p \in Proc, NEW g \in Frame, Shape(g),
         op' = [op EXCEPT ![p] = g]
  PROVE  Moves(p, g)
  BY DEF TypeInv, Moves

LEMMA TypeMoves ==
  ASSUME TypeInv, NEW p \in Proc, NEW g, Moves(p, g), Tables'
  PROVE  TypeInv'
  BY DEF TypeInv, Moves, Shape

\* A frame that only goes on, or fails.
LEMMA GotoMoves ==
  ASSUME TypeInv, NEW p \in Proc, NEW at \in At, Goto(p, at),
         Shape([op[p] EXCEPT !.at = at])
  PROVE  Moves(p, [op[p] EXCEPT !.at = at])
  <1>1. op[p] \in Frame /\ op' = [op EXCEPT ![p] = [op[p] EXCEPT !.at = at]]
    BY DEF TypeInv, Goto
  <1>2. [op[p] EXCEPT !.at = at] \in Frame
    BY <1>1 DEF Frame
  <1> QED BY <1>1, <1>2, MoveTo

(***************************************************************************)
(* What the steps do, told apart by what they change.                      *)
(***************************************************************************)
\* Neither the disk nor what is known changes, and nothing is found that
\* was not there: parsing, failing, Find, and importing a light stemcell.
Looks(f, g) ==
  /\ dir' = dir /\ g.call = f.call
  /\ g.id = f.id \/ (g.id = Light /\ f.id = NoId)
  /\ g.at = "ok" => \/ f.call = "create_stemcell" /\ g.id = Light
                    \/ f.call = "delete_stemcell" /\
                         (f.id = Light \/ dir[f.id] \in {"absent", "copy"})

Starts(f, g) ==
  /\ f.call = "create_stemcell" /\ g.call = f.call
  /\ f.id = NoId /\ g.id \in Unused /\ g.at = "unpack"
  /\ dir'[g.id] \in {"partial", "copy"}
  /\ \A i \in Id : i # g.id => dir'[i] = dir[i]

Unpacks(f, g) ==
  /\ f.call = "create_stemcell" /\ g.call = f.call
  /\ f.id \in Id /\ g.id = f.id /\ g.at = "ok"
  /\ dir'[f.id] = "whole"
  /\ \A i \in Id : i # f.id => dir'[i] = dir[i]

Deletes(f, g) ==
  /\ f.call = "delete_stemcell" /\ g.call = f.call
  /\ f.id \in Id /\ g.id = f.id
  /\ dir'[f.id] \in {"absent", "partial"}
  /\ g.at = "ok" \/ dir[f.id] = "absent" => dir'[f.id] = "absent"
  /\ \A i \in Id : i # f.id => dir'[i] = dir[i]

Uses(f, g) ==
  /\ f.call = "create_vm" /\ g.call = f.call /\ g.id = f.id
  /\ dir' = dir
  /\ g.at = "ok" => g.seen = IF f.id = Light THEN "whole" ELSE dir[f.id]

Steps(p, f, g) ==
  /\ Moves(p, g)
  /\ f.at # "ok"
  /\ Looks(f, g) \/ Starts(f, g) \/ Unpacks(f, g) \/ Deletes(f, g) \/ Uses(f, g)
  /\ known' = known /\ doomed' = doomed /\ Tables'

LEMMA FaultCount ==
  ASSUME faults \in Nat, Fault \/ UNCHANGED faults
  PROVE  faults' \in Nat
  BY DEF Fault

LEMMA StepMoves ==
  ASSUME TypeInv, NEW p \in Proc, Step(p)
  PROVE  \E g \in Frame : Steps(p, op[p], g)
  <1> DEFINE f == op[p]
  <1>0. f \in Frame /\ Shape(f) /\ Tables /\ f.at \in At /\ f.id \in Ids \cup {NoId}
        /\ f.call \in Call \cup {"none"}
    BY DEF TypeInv, Frame, Ids
  <1>1. ASSUME NEW at \in At, Goto(p, at), Shape([f EXCEPT !.at = at]), f.at # "ok",
               known' = known /\ doomed' = doomed, Fault \/ UNCHANGED faults,
               dir' \in [Id -> Contents],
               LET g == [f EXCEPT !.at = at] IN
                 Looks(f, g) \/ Starts(f, g) \/ Unpacks(f, g) \/ Deletes(f, g)
                 \/ Uses(f, g)
        PROVE  \E g \in Frame : Steps(p, f, g)
    <2>1. Moves(p, [f EXCEPT !.at = at])
      BY <1>1, GotoMoves
    <2>2. [f EXCEPT !.at = at] \in Frame
      BY <1>0, <1>1 DEF Frame
    <2>3. Tables'
      BY <1>0, <1>1, FaultCount DEF Tables
    <2> QED BY <1>1, <2>1, <2>2, <2>3 DEF Steps
  <1>2. ASSUME Parse(p) PROVE \E g \in Frame : Steps(p, f, g)
    <2>1. /\ f.at = "parse" /\ f.call = "create_stemcell" /\ f.id = NoId
          /\ dir' = dir /\ known' = known /\ doomed' = doomed /\ UNCHANGED faults
      BY <1>0, <1>2 DEF Parse, Shape, Call
    <2>2. PICK at \in {"err", "light", "start"} : Goto(p, at)
      BY <1>2 DEF Parse, AfterParse
    <2>3. at \in At
      BY DEF At
    <2>4. [f EXCEPT !.at = at].at = at /\ [f EXCEPT !.at = at].id = NoId
          /\ [f EXCEPT !.at = at].call = "create_stemcell"
      BY <1>0, <2>1 DEF Frame
    <2>5. Shape([f EXCEPT !.at = at])
      BY <2>4 DEF Shape
    <2>6. Looks(f, [f EXCEPT !.at = at])
      BY <2>1, <2>4 DEF Looks
    <2> QED BY <1>0, <1>1, <2>1, <2>2, <2>3, <2>5, <2>6 DEF Tables
  <1>3. ASSUME ImportLight(p) PROVE \E g \in Frame : Steps(p, f, g)
    <2>1. /\ f.at = "light" /\ f.call = "create_stemcell" /\ f.id = NoId
          /\ dir' = dir /\ known' = known /\ doomed' = doomed /\ UNCHANGED faults
      BY <1>0, <1>3 DEF ImportLight, Shape, Call
    <2>2. CASE Goto(p, "err")
      <3>1. "err" \in At
        BY DEF At
      <3>2. [f EXCEPT !.at = "err"].at = "err" /\ [f EXCEPT !.at = "err"].id = NoId
            /\ [f EXCEPT !.at = "err"].call = "create_stemcell"
        BY <1>0, <2>1 DEF Frame
      <3>3. Shape([f EXCEPT !.at = "err"]) /\ Looks(f, [f EXCEPT !.at = "err"])
        BY <2>1, <3>2 DEF Shape, Looks
      <3> QED BY <1>0, <1>1, <2>1, <2>2, <3>1, <3>3 DEF Tables
    <2>3. CASE op' = [op EXCEPT ![p].at = "ok", ![p].id = Light]
      <3> DEFINE g == [f EXCEPT !.at = "ok", !.id = Light]
      <3>1. g \in Frame
        BY <1>0 DEF Frame, At
      <3>2. g.at = "ok" /\ g.id = Light /\ g.call = "create_stemcell"
        BY <1>0, <2>1 DEF Frame
      <3>3. op' = [op EXCEPT ![p] = g]
        BY <2>3
      <3> HIDE DEF g
      <3>4. Shape(g) /\ Looks(f, g)
        BY <2>1, <3>2 DEF Shape, Looks, Ids
      <3>5. Moves(p, g)
        BY <3>1, <3>3, <3>4, MoveTo
      <3>6. Tables'
        BY <1>0, <2>1 DEF Tables
      <3> QED BY <2>1, <3>1, <3>4, <3>5, <3>6 DEF Steps
    <2> QED BY <1>3, <2>2, <2>3 DEF ImportLight
  <1>4. ASSUME StartUnpacking(p) PROVE \E g \in Frame : Steps(p, f, g)
    <2>1. /\ f.at = "start" /\ f.call = "create_stemcell" /\ f.id = NoId
          /\ known' = known /\ doomed' = doomed /\ UNCHANGED faults
      BY <1>0, <1>4 DEF StartUnpacking, Shape, Call
    <2>2. PICK i \in Unused, c \in {"partial", "copy"} :
            /\ dir' = [dir EXCEPT ![i] = c]
            /\ op' = [op EXCEPT ![p].at = "unpack", ![p].id = i]
      BY <1>4 DEF StartUnpacking
    <2> DEFINE g == [f EXCEPT !.at = "unpack", !.id = i]
    <2>3. i \in Id
      BY DEF Unused
    <2>4. g \in Frame
      BY <1>0, <2>3 DEF Frame, At
    <2>5. g.at = "unpack" /\ g.id = i /\ g.call = "create_stemcell"
      BY <1>0, <2>1 DEF Frame
    <2>6. op' = [op EXCEPT ![p] = g]
      BY <2>2
    <2> HIDE DEF g
    <2>7. Shape(g)
      BY <2>3, <2>5 DEF Shape
    <2>8. Starts(f, g)
      BY <1>0, <2>1, <2>2, <2>3, <2>5 DEF Starts, Tables
    <2>9. Moves(p, g)
      BY <2>4, <2>6, <2>7, MoveTo
    <2>10. Tables'
      BY <1>0, <2>1, <2>2, <2>3 DEF Tables, Contents
    <2> QED BY <2>1, <2>4, <2>8, <2>9, <2>10 DEF Steps
  <1>5. ASSUME Unpack(p) PROVE \E g \in Frame : Steps(p, f, g)
    <2>1. /\ f.at = "unpack" /\ f.call = "create_stemcell" /\ f.id \in Id
          /\ known' = known /\ doomed' = doomed /\ UNCHANGED faults
          /\ Goto(p, "ok") /\ dir' = [dir EXCEPT ![f.id] = "whole"]
      BY <1>0, <1>5 DEF Unpack, Shape, Call
    <2>2. [f EXCEPT !.at = "ok"].at = "ok" /\ [f EXCEPT !.at = "ok"].id = f.id
          /\ [f EXCEPT !.at = "ok"].call = "create_stemcell"
      BY <1>0, <2>1 DEF Frame
    <2>3. Shape([f EXCEPT !.at = "ok"]) /\ "ok" \in At
      BY <2>1, <2>2 DEF Shape, At, Ids
    <2>4. Unpacks(f, [f EXCEPT !.at = "ok"])
      BY <1>0, <2>1, <2>2 DEF Unpacks, Tables
    <2>5. dir' \in [Id -> Contents]
      BY <1>0, <2>1 DEF Tables, Contents
    <2> QED BY <1>1, <2>1, <2>3, <2>4, <2>5
  <1>6. ASSUME Find(p) PROVE \E g \in Frame : Steps(p, f, g)
    <2>1. /\ f.at = "find" /\ f.call \in {"delete_stemcell", "create_vm"}
          /\ f.id \in Ids
          /\ dir' = dir /\ known' = known /\ doomed' = doomed /\ UNCHANGED faults
      BY <1>0, <1>6 DEF Find, Shape, Call
    <2>2. PICK at \in {"use", "err", "remove", "ok"} :
            /\ Goto(p, at)
            /\ f.call = "create_vm" => at \in {"use", "err"}
            /\ f.call = "delete_stemcell" =>
                 \/ at = "remove" /\ Removes(f.id)
                 \/ at = "ok" /\ ~Removes(f.id)
      BY <1>6, <2>1 DEF Find
    <2>3. at \in At
      BY DEF At
    <2>4. [f EXCEPT !.at = at].at = at /\ [f EXCEPT !.at = at].id = f.id
          /\ [f EXCEPT !.at = at].call = f.call
      BY <1>0 DEF Frame
    <2>5. Removes(f.id) => f.id \in Id
      BY <2>1 DEF Removes, Ids
    <2>6. ~Removes(f.id) => f.id = Light \/ dir[f.id] \in {"absent", "copy"}
      BY <1>0, <2>1 DEF Removes, Found, Tables, Contents, Ids
    <2>7. Shape([f EXCEPT !.at = at])
      BY <2>1, <2>2, <2>4, <2>5 DEF Shape
    <2>8. Looks(f, [f EXCEPT !.at = at])
      BY <2>1, <2>2, <2>4, <2>6 DEF Looks
    <2> QED BY <1>0, <1>1, <2>1, <2>2, <2>3, <2>7, <2>8 DEF Tables
  <1>7. ASSUME RemoveSome(p) PROVE \E g \in Frame : Steps(p, f, g)
    <2>1. /\ f.at = "remove" /\ f.call = "delete_stemcell" /\ f.id \in Id
          /\ known' = known /\ doomed' = doomed /\ UNCHANGED faults
          /\ dir' = [dir EXCEPT ![f.id] = "partial"] /\ op' = op
          /\ dir[f.id] = "whole"
      BY <1>0, <1>7 DEF RemoveSome, Shape, Call
    <2>2. Deletes(f, f)
      BY <1>0, <2>1 DEF Deletes, Tables
    <2>3. Tables'
      BY <1>0, <2>1 DEF Tables, Contents
    <2>4. Moves(p, f)
      BY <1>0, <2>1 DEF Moves, TypeInv
    <2> QED BY <1>0, <2>1, <2>2, <2>3, <2>4 DEF Steps
  <1>8. ASSUME Remove(p) PROVE \E g \in Frame : Steps(p, f, g)
    <2>1. /\ f.at = "remove" /\ f.call = "delete_stemcell" /\ f.id \in Id
          /\ known' = known /\ doomed' = doomed /\ UNCHANGED faults
          /\ dir' = [dir EXCEPT ![f.id] = "absent"] /\ Goto(p, "ok")
      BY <1>0, <1>8 DEF Remove, Shape, Call
    <2>2. [f EXCEPT !.at = "ok"].at = "ok" /\ [f EXCEPT !.at = "ok"].id = f.id
          /\ [f EXCEPT !.at = "ok"].call = "delete_stemcell"
      BY <1>0, <2>1 DEF Frame
    <2>3. Shape([f EXCEPT !.at = "ok"]) /\ "ok" \in At
      BY <2>1, <2>2 DEF Shape, At, Ids
    <2>4. Deletes(f, [f EXCEPT !.at = "ok"])
      BY <1>0, <2>1, <2>2 DEF Deletes, Tables
    <2>5. dir' \in [Id -> Contents]
      BY <1>0, <2>1 DEF Tables, Contents
    <2> QED BY <1>1, <2>1, <2>3, <2>4, <2>5
  <1>9. ASSUME Use(p) PROVE \E g \in Frame : Steps(p, f, g)
    <2>1. /\ f.at = "use" /\ f.call = "create_vm" /\ f.id \in Ids
          /\ dir' = dir /\ known' = known /\ doomed' = doomed /\ UNCHANGED faults
      BY <1>0, <1>9 DEF Use, Shape, Call
    <2>2. PICK at \in {"ok", "err"}, c \in Contents :
            /\ op' = [op EXCEPT ![p].at = at, ![p].seen = c]
            /\ c = IF f.id = Light THEN "whole" ELSE dir[f.id]
      BY <1>0, <1>9, <2>1 DEF Use, Tables, Contents, Ids
    <2> DEFINE g == [f EXCEPT !.at = at, !.seen = c]
    <2>3. g \in Frame
      BY <1>0 DEF Frame, At
    <2>4. g.at = at /\ g.id = f.id /\ g.call = "create_vm" /\ g.seen = c
      BY <1>0, <2>1 DEF Frame
    <2>5. op' = [op EXCEPT ![p] = g]
      BY <2>2
    <2> HIDE DEF g
    <2>6. Shape(g) /\ Uses(f, g)
      BY <2>1, <2>2, <2>4 DEF Shape, Uses
    <2>7. Moves(p, g)
      BY <2>3, <2>5, <2>6, MoveTo
    <2>8. Tables'
      BY <1>0, <2>1 DEF Tables
    <2> QED BY <2>1, <2>3, <2>6, <2>7, <2>8 DEF Steps
  <1>10. ASSUME Fail(p) PROVE \E g \in Frame : Steps(p, f, g)
    <2>1. /\ f.at \in {"parse", "light", "start", "unpack", "remove", "use"}
          /\ Goto(p, "err") /\ Fault
          /\ dir' = dir /\ known' = known /\ doomed' = doomed
      BY <1>10 DEF Fail, Failure
    <2>2. [f EXCEPT !.at = "err"].at = "err" /\ [f EXCEPT !.at = "err"].id = f.id
          /\ [f EXCEPT !.at = "err"].call = f.call
      BY <1>0 DEF Frame
    <2>3. Shape([f EXCEPT !.at = "err"]) /\ "err" \in At
      BY <1>0, <2>1, <2>2 DEF Shape, At
    <2>4. Looks(f, [f EXCEPT !.at = "err"])
      BY <2>1, <2>2 DEF Looks
    <2> QED BY <1>0, <1>1, <2>1, <2>3, <2>4 DEF Tables
  <1> QED BY <1>2, <1>3, <1>4, <1>5, <1>6, <1>7, <1>8, <1>9, <1>10 DEF Step

(***************************************************************************)
(* The other steps.                                                        *)
(***************************************************************************)
Begins(p, g) ==
  /\ Moves(p, g) /\ op[p].at = "idle"
  /\ dir' = dir /\ known' = known /\ Tables'
  /\ \/ g.call = "create_stemcell" /\ g.id = NoId /\ g.at = "parse" /\ doomed' = doomed
     \/ /\ g.call = "delete_stemcell" /\ g.id \in known /\ g.at = "find"
        /\ \A q \in Proc : op[q].id = g.id => op[q].call # "create_vm"
        /\ doomed' = doomed \cup {g.id}
     \/ /\ g.call = "create_vm" /\ g.id \in known /\ g.at = "find"
        /\ \A q \in Proc : op[q].id = g.id => op[q].call = "create_vm"
        /\ doomed' = doomed

LEMMA BeginMoves ==
  ASSUME TypeInv, NEW p \in Proc,
         \/ \E source \in Source : BeginCreate(p, source)
         \/ \E id \in Id \cup {Light} : BeginDelete(p, id) \/ BeginUse(p, id)
  PROVE  \E g \in Frame : Begins(p, g)
  <1>0. Tables
    BY DEF TypeInv
  <1>1. ASSUME NEW source \in Source, BeginCreate(p, source)
        PROVE  \E g \in Frame : Begins(p, g)
    <2> DEFINE g == [IdleFrame EXCEPT !.call = "create_stemcell", !.at = "parse",
                                      !.source = source]
    <2>1. /\ op' = [op EXCEPT ![p] = g] /\ op[p].at = "idle"
          /\ dir' = dir /\ known' = known /\ doomed' = doomed /\ UNCHANGED faults
      BY <1>1 DEF BeginCreate, Begin, Busy
    <2>2. g.call = "create_stemcell" /\ g.at = "parse" /\ g.id = NoId
      BY DEF IdleFrame
    <2>3. g \in Frame
      BY IdleShape DEF Frame, Call, At
    <2> HIDE DEF g
    <2>4. Shape(g)
      BY <2>2 DEF Shape
    <2>5. Moves(p, g)
      BY <2>1, <2>3, <2>4, MoveTo
    <2>6. Tables'
      BY <1>0, <2>1 DEF Tables
    <2> QED BY <2>1, <2>2, <2>3, <2>5, <2>6 DEF Begins
  <1>2. ASSUME NEW id \in Ids, NEW call \in {"delete_stemcell", "create_vm"},
               Begin(p, [IdleFrame EXCEPT !.call = call, !.at = "find", !.id = id]),
               id \in known,
               \/ /\ call = "delete_stemcell" /\ doomed' = doomed \cup {id}
                  /\ \A q \in Proc : op[q].id = id => op[q].call # "create_vm"
               \/ /\ call = "create_vm" /\ doomed' = doomed
                  /\ \A q \in Proc : op[q].id = id => op[q].call = "create_vm"
        PROVE  \E g \in Frame : Begins(p, g)
    <2> DEFINE g == [IdleFrame EXCEPT !.call = call, !.at = "find", !.id = id]
    <2>1. /\ op' = [op EXCEPT ![p] = g] /\ op[p].at = "idle"
          /\ dir' = dir /\ known' = known /\ UNCHANGED faults
      BY <1>2 DEF Begin, Busy
    <2>2. g.call = call /\ g.at = "find" /\ g.id = id
      BY DEF IdleFrame
    <2>3. g \in Frame
      BY IdleShape DEF Frame, Call, At, Ids
    <2> HIDE DEF g
    <2>4. Shape(g)
      BY <2>2 DEF Shape
    <2>5. Moves(p, g)
      BY <2>1, <2>3, <2>4, MoveTo
    <2>6. Tables'
      BY <1>0, <1>2, <2>1 DEF Tables
    <2> QED BY <1>2, <2>1, <2>2, <2>3, <2>5, <2>6 DEF Begins
  <1> QED BY <1>1, <1>2 DEF BeginDelete, BeginUse, Ids

Ends(p) ==
  /\ Moves(p, IdleFrame) /\ dir' = dir /\ Tables'
  /\ doomed' = doomed \cap known'
  /\ \/ known' = known
     \/ /\ op[p].call = "create_stemcell" /\ op[p].at = "ok"
        /\ known' = known \cup {op[p].id}
     \/ /\ op[p].call = "delete_stemcell"
        /\ known' = known \ {op[p].id}

LEMMA EndMoves ==
  ASSUME TypeInv, NEW p \in Proc, Return(p) \/ Crash(p)
  PROVE  Ends(p)
  <1>0. Tables /\ Shape(op[p]) /\ op[p] \in Frame
    BY DEF TypeInv
  <1>1. Moves(p, IdleFrame)
    BY IdleShape, MoveTo DEF Return, Crash
  <1>2. /\ dir' = dir
        /\ \/ known' = known
           \/ /\ op[p].call = "create_stemcell" /\ op[p].at = "ok"
              /\ known' = known \cup {op[p].id}
           \/ /\ op[p].call = "delete_stemcell"
              /\ known' = known \ {op[p].id}
    BY DEF Return, Crash
  <1>3. doomed' = doomed \cap known'
    BY <1>0 DEF Return, Crash, Tables
  <1>4. Tables'
    BY <1>0, <1>2, <1>3, FaultCount DEF Return, Crash, Tables, Shape
  <1> QED BY <1>1, <1>2, <1>3, <1>4 DEF Ends

Restarts ==
  /\ op' \in [Proc -> Frame] /\ \A p \in Proc : op'[p] = IdleFrame
  /\ known' = known /\ doomed' = doomed /\ Tables'
  /\ \A i \in Id : dir'[i] = dir[i] \/ (\E p \in Proc :
                     op[p].call = "create_stemcell" /\ op[p].id = i)

LEMMA RebootMoves ==
  ASSUME TypeInv, Reboot
  PROVE  Restarts
  <1>0. Tables /\ \A p \in Proc : Shape(op[p]) /\ op[p] \in Frame
    BY DEF TypeInv
  <1>1. /\ op' \in [Proc -> Frame] /\ \A p \in Proc : op'[p] = IdleFrame
        /\ known' = known /\ doomed' = doomed /\ Fault
    BY IdleShape DEF Reboot
  <1>2. PICK cut \in SUBSET {op[p].id : p \in {q \in Proc : op[q].at = "unpack"}} :
          dir' = [i \in Id |-> IF i \in cut THEN "partial" ELSE dir[i]]
    BY DEF Reboot
  <1>3. Tables'
    BY <1>0, <1>1, <1>2, FaultCount DEF Tables, Contents
  <1>4. ASSUME NEW i \in Id, dir'[i] # dir[i]
        PROVE  \E p \in Proc : op[p].call = "create_stemcell" /\ op[p].id = i
    <2>1. PICK p \in Proc : op[p].at = "unpack" /\ op[p].id = i
      BY <1>2, <1>4
    <2>2. op[p].call \in Call \cup {"none"}
      BY <1>0 DEF Frame
    <2> QED BY <1>0, <2>1, <2>2 DEF Shape, Call
  <1> QED BY <1>1, <1>3, <1>4 DEF Restarts

LEMMA NextMoves ==
  ASSUME TypeInv, [Next]_vars
  PROVE  \/ \E p \in Proc, g \in Frame : Begins(p, g)
         \/ \E p \in Proc, g \in Frame : Steps(p, op[p], g)
         \/ \E p \in Proc : Ends(p)
         \/ Restarts
         \/ UNCHANGED vars
  BY BeginMoves, StepMoves, EndMoves, RebootMoves DEF Next

LEMMA TypeInit ==
  ASSUME Init PROVE TypeInv
  BY IdleShape DEF Init, TypeInv, Tables, Contents

LEMMA TypeNext ==
  ASSUME TypeInv, [Next]_vars
  PROVE  TypeInv'
  <1>1. ASSUME NEW p \in Proc, NEW g \in Frame, Moves(p, g), Tables' PROVE TypeInv'
    BY <1>1, TypeMoves
  <1>2. ASSUME Restarts PROVE TypeInv'
    BY <1>2, IdleShape DEF Restarts, TypeInv, Shape
  <1>3. ASSUME UNCHANGED vars PROVE TypeInv'
    BY <1>3 DEF vars, TypeInv, Tables, Shape
  <1> QED BY <1>1, <1>2, <1>3, NextMoves, IdleShape DEF Begins, Steps, Ends

\* Every variable keeps its type, and only calls that name a stemcell with a
\* directory of its own unpack or remove one: the light stemcell, and calls
\* that have no id yet, never get to those steps of stemcell/*.go.
THEOREM TypeCorrect == Spec => []TypeOK
  <1>1. TypeInv => TypeOK
    <2> SUFFICES ASSUME TypeInv PROVE TypeOK
      OBVIOUS
    <2>1. ASSUME NEW p \in Proc, op[p].at \in {"unpack", "remove"}
          PROVE  op[p].id \in Id
      <3>1. Shape(op[p]) /\ op[p].call \in Call \cup {"none"}
        BY DEF TypeInv, Frame
      <3> QED BY <2>1, <3>1 DEF Shape, Call
    <2> QED BY <2>1 DEF TypeInv, TypeOK, Tables, Ids
  <1> QED BY <1>1, TypeInit, TypeNext, PTL DEF Spec

(***************************************************************************)
(* Whose stemcell it is.  A creation has its id to itself, a VM is made    *)
(* from what stays known, and what is being deleted is doomed.             *)
(***************************************************************************)
Owned ==
  \A p, q \in Proc :
    op[p].call = "create_stemcell" /\ op[p].id \in Id =>
      op[p].id \notin known /\ (op[q].id = op[p].id => q = p)

Locked ==
  \A p, q \in Proc :
    op[p].call = "create_vm" /\ op[q].call = "delete_stemcell" =>
      op[p].id # op[q].id

Named(f) ==
  /\ f.call = "create_vm" => f.id \in known
  /\ f.call = "delete_stemcell" /\ f.id \in Id =>
       f.id \in doomed \/ f.id \notin known

OwnerInv == Owned /\ Locked /\ \A p \in Proc : Named(op[p])

(***************************************************************************)
(* What is at its path.                                                    *)
(***************************************************************************)
KnownIsWhole == \A i \in Id : i \in known =>
                  dir[i] # "copy" /\ (i \in doomed \/ dir[i] = "whole")

Leaves(f) ==
  f.id \in Id =>
    /\ f.call = "create_stemcell" /\ f.at = "ok" => dir[f.id] = "whole"
    /\ f.call = "delete_stemcell" =>
         dir[f.id] # "copy" /\ (f.at = "ok" => dir[f.id] = "absent")

Seen(f) == f.call = "create_vm" /\ f.at = "ok" /\ f.id \notin doomed =>
             f.seen = "whole"

ContentsInv == KnownIsWhole /\ \A p \in Proc : Leaves(op[p]) /\ Seen(op[p])

\* A step of a call keeps its name, except that a creation finds one: Light,
\* or an id nobody uses.
LEMMA NameKept ==
  ASSUME TypeInv, NEW p \in Proc, NEW g \in Frame, Steps(p, op[p], g)
  PROVE  /\ op'[p] = g /\ \A q \in Proc : q # p => op'[q] = op[q]
         /\ g.call = op[p].call
         /\ \/ g.id = op[p].id
            \/ /\ op[p].call = "create_stemcell" /\ op[p].id = NoId
               /\ g.id = Light \/ g.id \in Unused
  <1>1. Shape(op[p]) /\ op[p] \in Frame /\ op[p].call \in Call \cup {"none"}
    BY DEF TypeInv, Frame
  <1>2. op'[p] = g /\ \A q \in Proc : q # p => op'[q] = op[q]
    BY DEF Steps, Moves
  <1>3. CASE Looks(op[p], g)
    <2>1. op[p].id = NoId /\ g.id = Light => op[p].call = "create_stemcell"
      <3>1. op[p].call = "none" /\ g.call = op[p].call => g.id = NoId
        BY DEF Steps, Moves, Shape
      <3>2. NoId \notin Ids
        BY IdAssumption DEF Ids
      <3> QED BY <1>1, <1>3, <3>1, <3>2, IdAssumption DEF Shape, Call, Looks
    <2> QED BY <1>2, <1>3, <2>1 DEF Looks
  <1>4. CASE ~Looks(op[p], g)
    BY <1>2, <1>4 DEF Steps, Starts, Unpacks, Deletes, Uses
  <1> QED BY <1>3, <1>4

LEMMA OwnerSteps ==
  ASSUME TypeInv, OwnerInv, NEW p \in Proc, NEW g \in Frame, Steps(p, op[p], g)
  PROVE  OwnerInv'
  <1>1. /\ op'[p] = g /\ \A q \in Proc : q # p => op'[q] = op[q]
        /\ g.call = op[p].call
        /\ \/ g.id = op[p].id
           \/ /\ op[p].call = "create_stemcell" /\ op[p].id = NoId
              /\ g.id = Light \/ g.id \in Unused
        /\ known' = known /\ doomed' = doomed
    BY NameKept DEF Steps
  <1>2. \A i \in Unused : i \in Id /\ i \notin known /\ \A q \in Proc : op[q].id # i
    BY DEF Unused
  <1>3. Owned'
    BY <1>1, <1>2, IdAssumption DEF OwnerInv, Owned
  <1>4. Locked'
    BY <1>1 DEF OwnerInv, Locked
  <1>5. ASSUME NEW q \in Proc PROVE Named(op[q])'
    BY <1>1 DEF OwnerInv, Named
  <1> QED BY <1>3, <1>4, <1>5 DEF OwnerInv

LEMMA OwnerBegins ==
  ASSUME TypeInv, OwnerInv, NEW p \in Proc, NEW g \in Frame, Begins(p, g)
  PROVE  OwnerInv'
  <1>1. /\ op'[p] = g /\ \A q \in Proc : q # p => op'[q] = op[q]
        /\ known' = known /\ doomed \subseteq doomed'
    BY DEF Begins, Moves
  <1>2. op[p].id = NoId /\ known \subseteq Ids
    BY DEF Begins, TypeInv, Shape, Tables
  <1>3. \/ g.call = "create_stemcell" /\ g.id = NoId
        \/ /\ g.call = "delete_stemcell" /\ g.id \in known /\ g.id \in doomed'
           /\ \A q \in Proc : op[q].id = g.id => op[q].call # "create_vm"
        \/ /\ g.call = "create_vm" /\ g.id \in known
           /\ \A q \in Proc : op[q].id = g.id => op[q].call = "create_vm"
    BY DEF Begins
  <1>4. Owned'
    BY <1>1, <1>3, IdAssumption DEF OwnerInv, Owned
  <1>5. Locked'
    BY <1>1, <1>3 DEF OwnerInv, Locked
  <1>6. ASSUME NEW q \in Proc PROVE Named(op[q])'
    BY <1>1, <1>3 DEF OwnerInv, Named
  <1> QED BY <1>4, <1>5, <1>6 DEF OwnerInv

LEMMA OwnerEnds ==
  ASSUME TypeInv, OwnerInv, NEW p \in Proc, Ends(p)
  PROVE  OwnerInv'
  <1> DEFINE f == op[p]
  <1>1. /\ op'[p] = IdleFrame /\ \A q \in Proc : q # p => op'[q] = op[q]
        /\ doomed' = doomed \cap known'
        /\ \/ known' = known
           \/ f.call = "create_stemcell" /\ f.at = "ok" /\ known' = known \cup {f.id}
           \/ f.call = "delete_stemcell" /\ known' = known \ {f.id}
    BY DEF Ends, Moves
  <1>2. Shape(f) /\ doomed \subseteq known
    BY DEF TypeInv, Tables
  <1>3. ASSUME NEW q \in Proc, q # p, op[q].call = "create_stemcell", op[q].id \in Id
        PROVE  op[q].id \notin known'
    BY <1>1, <1>3 DEF OwnerInv, Owned
  <1>4. Owned'
    BY <1>1, <1>3, IdleShape, IdAssumption DEF OwnerInv, Owned
  <1>5. Locked'
    BY <1>1, IdleShape DEF OwnerInv, Locked
  <1>6. ASSUME NEW q \in Proc PROVE Named(op[q])'
    <2>1. CASE q = p
      BY <1>1, <2>1, IdleShape DEF Named
    <2>2. CASE q # p
      <3>1. op'[q] = op[q] /\ Named(op[q])
        BY <1>1, <2>2 DEF OwnerInv
      <3>2. op[q].call = "create_vm" => op[q].id \in known'
        BY <1>1, <3>1 DEF OwnerInv, Locked, Named
      <3>3. op[q].call = "delete_stemcell" /\ op[q].id \in Id =>
              op[q].id \in doomed' \/ op[q].id \notin known'
        BY <1>1, <1>2, <2>2, <3>1 DEF OwnerInv, Owned, Named, Shape
      <3> QED BY <3>1, <3>2, <3>3 DEF Named
    <2> QED BY <2>1, <2>2
  <1> QED BY <1>4, <1>5, <1>6 DEF OwnerInv

LEMMA OwnerNext ==
  ASSUME TypeInv, OwnerInv, [Next]_vars
  PROVE  OwnerInv'
  <1>1. ASSUME Restarts PROVE OwnerInv'
    BY <1>1, IdleShape DEF Restarts, OwnerInv, Owned, Locked, Named
  <1>2. ASSUME UNCHANGED vars PROVE OwnerInv'
    BY <1>2 DEF vars, OwnerInv, Owned, Locked, Named
  <1> QED BY <1>1, <1>2, OwnerSteps, OwnerBegins, OwnerEnds, NextMoves

LEMMA ContentsSteps ==
  ASSUME TypeInv, OwnerInv, ContentsInv, NEW p \in Proc, NEW g \in Frame,
         Steps(p, op[p], g)
  PROVE  ContentsInv'
  <1> DEFINE f == op[p]
  <1>1. /\ op'[p] = g /\ \A q \in Proc : q # p => op'[q] = op[q]
        /\ g.call = f.call /\ known' = known /\ doomed' = doomed
        /\ f.at # "ok"
    BY NameKept DEF Steps
  <1>2. /\ KnownIsWhole /\ Shape(f) /\ Leaves(f) /\ Named(f)
        /\ \A q \in Proc : Leaves(op[q]) /\ Seen(op[q])
    BY DEF ContentsInv, OwnerInv, TypeInv
  <1>3. Looks(f, g) \/ Starts(f, g) \/ Unpacks(f, g) \/ Deletes(f, g) \/ Uses(f, g)
    BY DEF Steps
  <1>4. \A i \in Unused : i \in Id /\ i \notin known /\ \A q \in Proc : op[q].id # i
    BY DEF Unused
  <1>5. KnownIsWhole'
    <2> SUFFICES ASSUME NEW i \in Id, i \in known
                 PROVE  dir'[i] # "copy" /\ (i \in doomed \/ dir'[i] = "whole")
      BY <1>1 DEF KnownIsWhole
    <2>1. CASE dir'[i] = dir[i]
      BY <1>2, <2>1 DEF KnownIsWhole
    <2>2. CASE dir'[i] # dir[i] /\ (Starts(f, g) \/ Unpacks(f, g))
      BY <1>4, <2>2 DEF Starts, Unpacks, OwnerInv, Owned
    <2>3. CASE dir'[i] # dir[i] /\ Deletes(f, g)
      BY <1>2, <2>3 DEF Deletes, Named
    <2> QED BY <1>3, <2>1, <2>2, <2>3 DEF Looks, Uses
  <1>6. ASSUME NEW q \in Proc, q # p PROVE Leaves(op[q])'
    <2>1. op'[q] = op[q] /\ Leaves(op[q])
      BY <1>1, <1>2, <1>6
    <2>2. CASE op[q].id \notin Id \/ dir'[op[q].id] = dir[op[q].id]
      BY <2>1, <2>2 DEF Leaves
    <2>3. CASE op[q].id \in Id /\ dir'[op[q].id] # dir[op[q].id]
      <3>1. Deletes(f, g) /\ f.id = op[q].id
        BY <1>3, <1>4, <1>6, <2>3
           DEF Looks, Starts, Unpacks, Deletes, Uses, OwnerInv, Owned
      <3>2. op[q].call # "create_stemcell"
        BY <1>6, <2>3, <3>1 DEF OwnerInv, Owned
      <3> QED BY <2>1, <2>3, <3>1, <3>2 DEF Deletes, Leaves
    <2> QED BY <2>2, <2>3
  <1>7. Leaves(op[p])'
    <2> SUFFICES ASSUME g.id \in Id
                 PROVE  /\ g.call = "create_stemcell" /\ g.at = "ok" => dir'[g.id] = "whole"
                        /\ g.call = "delete_stemcell" =>
                             dir'[g.id] # "copy" /\ (g.at = "ok" => dir'[g.id] = "absent")
      BY <1>1 DEF Leaves
    <2>1. CASE Looks(f, g)
      BY <1>1, <1>2, <2>1, IdAssumption DEF Looks, Leaves
    <2>2. CASE ~Looks(f, g)
      BY <1>1, <1>3, <2>2 DEF Starts, Unpacks, Deletes, Uses
    <2> QED BY <2>1, <2>2
  <1>8. ASSUME NEW q \in Proc, q # p PROVE Seen(op[q])'
    BY <1>1, <1>2, <1>8 DEF Seen
  <1>9. Seen(op[p])'
    <2> SUFFICES ASSUME g.call = "create_vm", g.at = "ok", g.id \notin doomed
                 PROVE  g.seen = "whole"
      BY <1>1 DEF Seen
    <2>1. Uses(f, g)
      BY <1>1, <1>3 DEF Looks, Starts, Unpacks, Deletes
    <2>2. f.id \in known /\ f.id \in Ids
      BY <1>2, <2>1 DEF Uses, Named, Shape
    <2> QED BY <1>2, <2>1, <2>2 DEF Uses, KnownIsWhole, Ids
  <1> QED BY <1>5, <1>6, <1>7, <1>8, <1>9 DEF ContentsInv

LEMMA ContentsBegins ==
  ASSUME TypeInv, ContentsInv, NEW p \in Proc, NEW g \in Frame, Begins(p, g)
  PROVE  ContentsInv'
  <1>1. /\ op'[p] = g /\ \A q \in Proc : q # p => op'[q] = op[q]
        /\ dir' = dir /\ known' = known /\ doomed \subseteq doomed'
        /\ g.at # "ok" /\ (g.call = "delete_stemcell" => g.id \in known)
    BY DEF Begins, Moves
  <1>2. KnownIsWhole'
    BY <1>1 DEF ContentsInv, KnownIsWhole
  <1>3. ASSUME NEW q \in Proc PROVE Leaves(op[q])'
    BY <1>1 DEF ContentsInv, KnownIsWhole, Leaves
  <1>4. ASSUME NEW q \in Proc PROVE Seen(op[q])'
    BY <1>1 DEF ContentsInv, Seen
  <1> QED BY <1>2, <1>3, <1>4 DEF ContentsInv

LEMMA ContentsEnds ==
  ASSUME TypeInv, OwnerInv, ContentsInv, NEW p \in Proc, Ends(p)
  PROVE  ContentsInv'
  <1> DEFINE f == op[p]
  <1>1. /\ op'[p] = IdleFrame /\ \A q \in Proc : q # p => op'[q] = op[q]
        /\ dir' = dir /\ doomed' = doomed \cap known'
        /\ \/ known' = known
           \/ f.call = "create_stemcell" /\ f.at = "ok" /\ known' = known \cup {f.id}
           \/ f.call = "delete_stemcell" /\ known' = known \ {f.id}
    BY DEF Ends, Moves
  <1>2. KnownIsWhole'
    BY <1>1 DEF ContentsInv, KnownIsWhole, Leaves
  <1>3. ASSUME NEW q \in Proc PROVE Leaves(op[q])'
    BY <1>1, IdleShape DEF ContentsInv, Leaves
  <1>4. ASSUME NEW q \in Proc PROVE Seen(op[q])'
    <2>1. CASE q = p
      BY <1>1, <2>1, IdleShape DEF Seen
    <2>2. CASE q # p
      <3>1. op'[q] = op[q] /\ Seen(op[q])
        BY <1>1, <2>2 DEF ContentsInv
      <3>2. op[q].call = "create_vm" => op[q].id \in known'
        BY <1>1 DEF OwnerInv, Locked, Named
      <3> QED BY <1>1, <3>1, <3>2 DEF Seen
    <2> QED BY <2>1, <2>2
  <1> QED BY <1>2, <1>3, <1>4 DEF ContentsInv

LEMMA ContentsNext ==
  ASSUME TypeInv, OwnerInv, ContentsInv, [Next]_vars
  PROVE  ContentsInv'
  <1>1. ASSUME Restarts PROVE ContentsInv'
    <2>1. \A i \in Id : i \in known => dir'[i] = dir[i]
      BY <1>1 DEF Restarts, OwnerInv, Owned
    <2>2. KnownIsWhole'
      BY <1>1, <2>1 DEF Restarts, ContentsInv, KnownIsWhole
    <2> QED BY <1>1, <2>2, IdleShape DEF Restarts, ContentsInv, Leaves, Seen
  <1>2. ASSUME UNCHANGED vars PROVE ContentsInv'
    BY <1>2 DEF vars, ContentsInv, KnownIsWhole, Leaves, Seen
  <1> QED BY <1>1, <1>2, ContentsSteps, ContentsBegins, ContentsEnds, NextMoves

(***************************************************************************)
(* The theorems.                                                           *)
(***************************************************************************)
Inv == TypeInv /\ OwnerInv /\ ContentsInv

LEMMA Invariant == Spec => []Inv
  <1>1. Init => Inv
    <2> SUFFICES ASSUME Init PROVE Inv
      OBVIOUS
    <2>1. known = {} /\ \A p \in Proc : op[p] = IdleFrame
      BY DEF Init
    <2>2. OwnerInv
      BY <2>1, IdleShape DEF OwnerInv, Owned, Locked, Named
    <2>3. ContentsInv
      BY <2>1, IdleShape DEF ContentsInv, KnownIsWhole, Leaves, Seen
    <2> QED BY <2>2, <2>3, TypeInit DEF Inv
  <1>2. Inv /\ [Next]_vars => Inv'
    BY TypeNext, OwnerNext, ContentsNext DEF Inv
  <1> QED BY <1>1, <1>2, PTL DEF Spec

\* No container is made from a stemcell that is only half there, although
\* Find takes any directory for one (composite_finder.go): an import that
\* failed, died or was cut short has told nobody its id, and only a stemcell
\* whose deletion has begun may be in pieces.
THEOREM OnlyWholeStemcellsAreUsed == Spec => []UsedIsWhole
  <1>1. Inv => UsedIsWhole
    BY DEF Inv, ContentsInv, Seen, UsedIsWhole
  <1> QED BY <1>1, Invariant, PTL

\* When delete_stemcell succeeds nothing is left of the stemcell, however
\* far another deletion of it had come or has come since: Find's verdict
\* that there is nothing to remove is true, and nothing comes back.
THEOREM DeletionLeavesNothing == Spec => []DeletedIsGone
  <1>1. Inv => DeletedIsGone
    BY DEF Inv, ContentsInv, Leaves, DeletedIsGone
  <1> QED BY <1>1, Invariant, PTL
=============================================================================
