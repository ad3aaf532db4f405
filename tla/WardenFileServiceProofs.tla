---------------------- MODULE WardenFileServiceProofs ----------------------
(***************************************************************************)
(* Theorems about WardenFileService, for any number of processes, disks,   *)
(* attempts and faults.                                                    *)
(***************************************************************************)
EXTENDS WardenFileService, TLAPS

(***************************************************************************)
(* Which call reaches which step, and with what in its frame.              *)
(***************************************************************************)
DiskCall == {"attach_disk", "detach_disk"}

Shape(f) ==
  IF f.at = "idle" THEN f = IdleFrame ELSE
    /\ f.call \in Call
    /\ f.disk \in IF f.call = "create_vm" THEN {NoDisk} ELSE Disk
    /\ f.call = "create_vm" =>
         f.at \in {"streamIn", "writing", "check", "ok", "err"} /\ f.data = Whole({})
    /\ f.at \in {"fetched", "streamIn", "writing", "check", "ok"} => f.data \in Content

TypeInv == TypeOK /\ \A p \in Proc : Shape(op[p])

(***************************************************************************)
(* What a Download copies is what its own cp read: nobody else writes to a *)
(* copy of its name.                                                       *)
(***************************************************************************)
Copied(p) ==
  /\ op[p].at = "streamOut" => tmp[p] = op[p].read
  /\ op[p].at = "fetched" => op[p].data = op[p].read

CopyInv == \A p \in Proc : Copied(p)

(***************************************************************************)
(* The first upload has the container to itself: the director learns of    *)
(* the VM only when create_vm has answered, and a create_vm that died is   *)
(* never followed by another call.                                         *)
(***************************************************************************)
CreatesAlone ==
  \A p \in Proc :
    /\ op[p].at # "idle" => vm = IF op[p].call = "create_vm" THEN "creating" ELSE "known"
    /\ op[p].call = "create_vm" => \A q \in Proc : op[q].at # "idle" => q = p

Uploading(f) ==
  f.call = "create_vm" =>
    /\ f.at = "streamIn" => visible = Nothing /\ streamed = Nothing
    /\ f.at = "writing"  => streamed = Nothing
    /\ f.at = "check" => \/ visible = f.data /\ streamed = Nothing
                         \/ visible = Nothing /\ streamed = f.data
    /\ f.at = "ok"    => visible = f.data /\ streamed = Nothing

CreateInv ==
  /\ vm = "new" => visible = Nothing /\ streamed = Nothing
  /\ CreatesAlone
  /\ \A p \in Proc : Uploading(op[p])

(***************************************************************************)
(* An environment that does not contradict the director, and the           *)
(* environments that do not: what was streamed in, the file unless         *)
(* something is still to replace it, and whatever a call carries.          *)
(***************************************************************************)
Agrees(answers, env) ==
  \A d \in Disk : /\ answers[d] = "yes" => d \in env.disks
                  /\ answers[d] = "no"  => d \notin env.disks

Carries(f) ==
  /\ f.at \in {"copying", "streamOut"} /\ f.read \in Content => Agrees(told, f.read)
  /\ f.at = "fetched" => Agrees(told, f.data)
  /\ f.at \in {"streamIn", "writing", "check", "ok"} =>
       /\ Agrees(told, f.data)
       /\ f.call = "attach_disk" => f.disk \in f.data.disks
       /\ f.call = "detach_disk" => f.disk \notin f.data.disks
  /\ apart /\ f.at \in {"copying", "streamOut", "fetched", "streamIn", "writing"}
       => streamed = Nothing
  /\ apart /\ f.at \in {"check", "ok"} =>
       streamed = f.data \/ (streamed = Nothing /\ visible = f.data)
  /\ f.call \in DiskCall => told[f.disk] = "unsure"

OneAtATime == \A p, q \in Proc : op[p].at # "idle" /\ op[q].at # "idle" => p = q

EnvInv ==
  /\ apart => OneAtATime
  /\ ~apart => \A d \in Disk : told[d] = "unsure"
  /\ vm # "known" => apart /\ \A d \in Disk : told[d] = "no"
  /\ streamed # Nothing => Agrees(told, streamed)
  /\ streamed = Nothing /\ visible \in Content => Agrees(told, visible)
  /\ \A p \in Proc : Carries(op[p])

(***************************************************************************)
(* What an action does to op: it moves one process, and a command keeps it *)
(* on its call and its disk.                                               *)
(***************************************************************************)
OthersSame(p) == \A q \in Proc : q # p => op'[q] = op[q]
SameCall(p) == op'[p].call = op[p].call /\ op'[p].disk = op[p].disk

LEMMA Files ==
  /\ Nothing \in File /\ Torn \in File /\ Content \subseteq File
  /\ Nothing # Torn /\ Nothing \notin Content /\ Torn \notin Content
  /\ \A disks \in SUBSET Disk : Whole(disks) \in Content /\ Whole(disks).disks = disks
  /\ \A env \in Content : env.disks \subseteq Disk
  <1>1. Nothing.state = "absent" /\ Torn.state = "torn"
    BY DEF Nothing, Torn
  <1>2. \A disks \in SUBSET Disk :
          /\ Whole(disks) \in Content
          /\ Whole(disks).disks = disks /\ Whole(disks).state = "whole"
    BY DEF Content, Whole
  <1>3. \A env \in Content : env.disks \subseteq Disk /\ env.state = "whole"
    BY <1>2 DEF Content
  <1> QED BY <1>1, <1>2, <1>3 DEF File

LEMMA IdleShape == IdleFrame \in Frame /\ Shape(IdleFrame) /\ IdleFrame.at = "idle"
  BY RetryAttemptsAssumption, Files DEF IdleFrame, Frame, At, Shape

LEMMA MoveFrame ==
  ASSUME op \in [Proc -> Frame], NEW p \in Proc, NEW f \in Frame,
         op' = [op EXCEPT ![p] = f]
  PROVE  op' \in [Proc -> Frame] /\ OthersSame(p) /\ op'[p] = f
  BY DEF OthersSame

LEMMA GotoFrame ==
  ASSUME op \in [Proc -> Frame], NEW p \in Proc, NEW at \in At, Goto(p, at)
  PROVE  /\ op' \in [Proc -> Frame] /\ OthersSame(p) /\ SameCall(p)
         /\ op'[p].at = at /\ op'[p].data = op[p].data /\ op'[p].read = op[p].read
  BY DEF Goto, Frame, OthersSame, SameCall

LEMMA AgainFrame ==
  ASSUME op \in [Proc -> Frame], NEW p \in Proc, TriesLeft(p), Again(p)
  PROVE  /\ op' \in [Proc -> Frame] /\ OthersSame(p) /\ SameCall(p)
         /\ op'[p].at = op[p].at /\ op'[p].data = op[p].data /\ op'[p].read = op[p].read
  <1>1. op[p].tries + 1 \in 0..(RetryAttempts - 1)
    BY RetryAttemptsAssumption DEF TriesLeft, Frame
  <1> QED BY <1>1 DEF Again, Frame, OthersSame, SameCall

LEMMA CreateFrame ==
  ASSUME op \in [Proc -> Frame], NEW p \in Proc, BeginCreate(p)
  PROVE  /\ op' \in [Proc -> Frame] /\ OthersSame(p) /\ Shape(op'[p])
         /\ op'[p].call = "create_vm" /\ op'[p].disk = NoDisk
         /\ op'[p].at = "streamIn" /\ op'[p].data = Whole({})
  <1> DEFINE f == [IdleFrame EXCEPT !.call = "create_vm", !.at = "streamIn",
                                    !.data = Whole({})]
  <1>1. Whole({}) \in File /\ Whole({}) \in Content
    BY Files
  <1>2. f \in Frame
    BY <1>1, IdleShape DEF Frame, Call, At
  <1>3. /\ f.call = "create_vm" /\ f.disk = NoDisk
        /\ f.at = "streamIn" /\ f.data = Whole({})
    BY DEF IdleFrame
  <1>4. Shape(f)
    BY <1>1, <1>3 DEF Shape, Call
  <1>5. op' = [op EXCEPT ![p] = f]
    BY DEF BeginCreate
  <1> HIDE DEF f
  <1> QED BY <1>2, <1>3, <1>4, <1>5, MoveFrame

LEMMA DiskFrame ==
  ASSUME op \in [Proc -> Frame], NEW p \in Proc, NEW call \in Call \ {"create_vm"},
         NEW d \in Disk, BeginDisk(p, call, d)
  PROVE  /\ op' \in [Proc -> Frame] /\ OthersSame(p) /\ Shape(op'[p])
         /\ op'[p].call = call /\ op'[p].disk = d /\ op'[p].at = "copy"
  <1> DEFINE f == [IdleFrame EXCEPT !.call = call, !.disk = d, !.at = "copy"]
  <1>1. f \in Frame
    BY IdleShape DEF Frame, Call, At
  <1>2. f.call = call /\ f.disk = d /\ f.at = "copy"
    BY DEF IdleFrame
  <1>3. Shape(f)
    BY <1>2 DEF Shape, Call
  <1>4. op' = [op EXCEPT ![p] = f]
    BY DEF BeginDisk
  <1> HIDE DEF f
  <1> QED BY <1>1, <1>2, <1>3, <1>4, MoveFrame

\* Return, Crash: the process is idle again.
LEMMA EndFrame ==
  ASSUME op \in [Proc -> Frame], NEW p \in Proc, Return(p) \/ Crash(p)
  PROVE  /\ op' \in [Proc -> Frame] /\ OthersSame(p) /\ Shape(op'[p])
         /\ op'[p] = IdleFrame /\ op'[p].at = "idle" /\ op[p].at # "idle"
  BY IdleShape, MoveFrame DEF Return, Crash, Busy
(***************************************************************************)
(* What each command does to its frame.                                    *)
(***************************************************************************)
Moved(p) == /\ op' \in [Proc -> Frame] /\ OthersSame(p) /\ SameCall(p)
            /\ op[p].at # "idle" /\ op'[p].at # "idle"
Kept(f, g) == g.data = f.data /\ g.read = f.read

LEMMA CommandEffect ==
  ASSUME TypeInv, NEW p \in Proc
  PROVE  LET f == op[p]
             g == op'[p]
         IN
         /\ Command(p) => Moved(p)
         /\ Copy(p) => /\ f.at = "copy"
                       /\ \/ g.at = "copying" /\ g.read = visible
                          \/ g.at = "err"
         /\ CopyEnds(p)  => f.at = "copying" /\ g.at = "streamOut" /\ Kept(f, g)
         /\ StreamOut(p) => /\ f.at = "streamOut" /\ g.read = f.read
                            /\ \/ g.at = "fetched" /\ g.data = tmp[p] /\ tmp[p] \in Content
                               \/ g.at = "err"
         /\ ChangeEnv(p) => /\ f.at = "fetched" /\ g.at = "streamIn"
                            /\ g.data = NewEnv(f) /\ NewEnv(f) \in Content
         /\ StreamIn(p) => /\ f.at = "streamIn" /\ Kept(f, g)
                           /\ \/ /\ g.at = "writing"
                                 /\ visible' = Torn /\ streamed' = streamed
                              \/ /\ g.at = "check"
                                 /\ visible' = visible /\ streamed' = f.data
         /\ Written(p) => f.at = "writing" /\ g.at = "check" /\ Kept(f, g)
         /\ Check(p)   => f.at = "check" /\ g.at = "ok" /\ Kept(f, g)
         /\ CheckAgain(p) => /\ f.at = "check" /\ g.at \in {"check", "err"} /\ Kept(f, g)
         /\ Fail(p) => f.at \notin {"check", "ok", "err"} /\ g.at = "err"
  <1> DEFINE f == op[p]
             g == op'[p]
  <1>0. op \in [Proc -> Frame] /\ f \in Frame /\ Shape(f)
    BY DEF TypeInv, TypeOK
  <1> USE DEF At
  <1>1. Copy(p) => /\ Moved(p) /\ f.at = "copy"
                   /\ (g.at = "copying" /\ g.read = visible) \/ g.at = "err"
    <2> SUFFICES ASSUME Copy(p)
                 PROVE  /\ Moved(p) /\ f.at = "copy"
                        /\ (g.at = "copying" /\ g.read = visible) \/ g.at = "err"
      OBVIOUS
    <2>1. CASE Exists
      <3> DEFINE h == [f EXCEPT !.read = visible, !.at = "copying"]
      <3>1. visible \in File
        BY DEF TypeInv, TypeOK
      <3>2. /\ h \in Frame /\ h.at = "copying" /\ h.read = visible
            /\ h.call = f.call /\ h.disk = f.disk
        BY <1>0, <3>1 DEF Frame
      <3>3. op' = [op EXCEPT ![p] = h]
        BY <2>1 DEF Copy
      <3> HIDE DEF h
      <3> QED BY <1>0, <3>2, <3>3, MoveFrame DEF Copy, Moved, SameCall
    <2>2. CASE ~Exists
      BY <1>0, <2>2, GotoFrame DEF Copy, Moved
    <2> QED BY <2>1, <2>2
  <1>2. CopyEnds(p) => Moved(p) /\ f.at = "copying" /\ g.at = "streamOut" /\ Kept(f, g)
    BY <1>0, GotoFrame DEF CopyEnds, Moved, Kept
  <1>3. StreamOut(p) =>
          /\ Moved(p) /\ f.at = "streamOut" /\ g.read = f.read
          /\ \/ g.at = "fetched" /\ g.data = tmp[p] /\ tmp[p] \in Content
             \/ g.at = "err"
    <2> SUFFICES ASSUME StreamOut(p)
                 PROVE  /\ Moved(p) /\ f.at = "streamOut" /\ g.read = f.read
                        /\ \/ g.at = "fetched" /\ g.data = tmp[p] /\ tmp[p] \in Content
                           \/ g.at = "err"
      OBVIOUS
    <2>1. CASE tmp[p] \in Content
      <3> DEFINE h == [f EXCEPT !.data = tmp[p], !.at = "fetched"]
      <3>2. /\ h \in Frame /\ h.at = "fetched" /\ h.data = tmp[p] /\ h.read = f.read
            /\ h.call = f.call /\ h.disk = f.disk
        BY <1>0, <2>1, Files DEF Frame
      <3>3. op' = [op EXCEPT ![p] = h]
        BY <2>1 DEF StreamOut, TmpName
      <3> HIDE DEF h
      <3> QED BY <1>0, <2>1, <3>2, <3>3, MoveFrame DEF StreamOut, Moved, SameCall
    <2>2. CASE tmp[p] \notin Content
      BY <1>0, <2>2, GotoFrame DEF StreamOut, TmpName, Moved
    <2> QED BY <2>1, <2>2
  <1>4. ChangeEnv(p) => /\ Moved(p) /\ f.at = "fetched" /\ g.at = "streamIn"
                        /\ g.data = NewEnv(f) /\ NewEnv(f) \in Content
    <2> SUFFICES ASSUME ChangeEnv(p)
                 PROVE  /\ Moved(p) /\ f.at = "fetched" /\ g.at = "streamIn"
                        /\ g.data = NewEnv(f) /\ NewEnv(f) \in Content
      OBVIOUS
    <2> DEFINE h == [f EXCEPT !.data = NewEnv(f), !.read = Nothing, !.at = "streamIn"]
    <2>1. f.at = "fetched" /\ f.data \in Content /\ f.disk \in Disk
      BY <1>0 DEF ChangeEnv, Shape
    <2>2. NewEnv(f) \in Content
      BY <2>1, Files DEF NewEnv
    <2>3. /\ h \in Frame /\ h.at = "streamIn" /\ h.data = NewEnv(f)
          /\ h.call = f.call /\ h.disk = f.disk
      BY <1>0, <2>2, Files DEF Frame
    <2>4. op' = [op EXCEPT ![p] = h]
      BY DEF ChangeEnv
    <2> HIDE DEF h
    <2> QED BY <1>0, <2>1, <2>2, <2>3, <2>4, MoveFrame DEF Moved, SameCall
  <1>5. StreamIn(p) => /\ Moved(p) /\ f.at = "streamIn" /\ Kept(f, g)
                       /\ \/ /\ g.at = "writing"
                             /\ visible' = Torn /\ streamed' = streamed
                          \/ /\ g.at = "check"
                             /\ visible' = visible /\ streamed' = f.data
    BY <1>0, GotoFrame DEF StreamIn, Moved, Kept
  <1>6. Written(p) => Moved(p) /\ f.at = "writing" /\ g.at = "check" /\ Kept(f, g)
    BY <1>0, GotoFrame DEF Written, Moved, Kept
  <1>7. Check(p) => Moved(p) /\ f.at = "check" /\ g.at = "ok" /\ Kept(f, g)
    BY <1>0, GotoFrame DEF Check, Moved, Kept
  <1>8. CheckAgain(p) =>
          Moved(p) /\ f.at = "check" /\ g.at \in {"check", "err"} /\ Kept(f, g)
    BY <1>0, GotoFrame, AgainFrame DEF CheckAgain, Moved, Kept
  <1>9. Fail(p) => Moved(p) /\ f.at \notin {"check", "ok", "err"} /\ g.at = "err"
    BY <1>0, GotoFrame DEF Fail, Moved
  <1> QED
    BY <1>1, <1>2, <1>3, <1>4, <1>5, <1>6, <1>7, <1>8, <1>9 DEF Command

(***************************************************************************)
(* Type correctness.                                                       *)
(***************************************************************************)
LEMMA CommandType ==
  ASSUME TypeInv, NEW p \in Proc, Command(p)
  PROVE  TypeInv'
  <1> DEFINE f == op[p]
             g == op'[p]
  <1>0. Moved(p) /\ Shape(f) /\ f \in Frame
    BY CommandEffect DEF TypeInv, TypeOK
  <1>1. Shape(g)
    <2>1. g.at \in {"fetched", "streamIn", "writing", "check", "ok"} => g.data \in Content
      BY <1>0, CommandEffect DEF Command, Kept, Shape
    <2>2. f.call = "create_vm" =>
            g.at \in {"streamIn", "writing", "check", "ok", "err"} /\ g.data = Whole({})
      <3> SUFFICES ASSUME f.call = "create_vm"
                   PROVE  /\ g.at \in {"streamIn", "writing", "check", "ok", "err"}
                          /\ g.data = Whole({})
        OBVIOUS
      <3>1. /\ f.at \in {"streamIn", "writing", "check", "ok", "err"}
            /\ f.data = Whole({})
        BY <1>0 DEF Shape, Moved
      <3>2. ~(Copy(p) \/ CopyEnds(p) \/ StreamOut(p) \/ ChangeEnv(p))
        BY <3>1, CommandEffect
      <3>3. CASE Fail(p)
        BY <1>0, <3>1, <3>3, CommandEffect, GotoFrame DEF Fail, At, TypeInv, TypeOK
      <3>4. CASE StreamIn(p) \/ Written(p) \/ Check(p) \/ CheckAgain(p)
        BY <3>1, <3>4, CommandEffect DEF Kept
      <3> QED BY <3>2, <3>3, <3>4 DEF Command
    <2> QED BY <1>0, <2>1, <2>2 DEF Moved, SameCall, Shape
  <1>2. \A q \in Proc : Shape(op'[q])
    BY <1>0, <1>1 DEF TypeInv, Moved, OthersSame
  <1> DEFINE StateType == /\ visible' \in File /\ streamed' \in File
                          /\ tmp' \in [Proc -> File] /\ vm' = vm
                          /\ told' \in [Disk -> {"no", "yes", "unsure"}]
                          /\ apart' \in BOOLEAN /\ faults' \in Nat
  <1>3. StateType
    <2> USE <1>0, Files DEF TypeInv, TypeOK, file, director, Fault, TmpName, Frame
    <2>1. CASE Copy(p)
      BY <2>1 DEF Copy, Known
    <2>2. CASE CopyEnds(p)
      BY <2>2 DEF CopyEnds
    <2>3. CASE StreamOut(p)
      BY <2>3 DEF StreamOut
    <2>4. CASE ChangeEnv(p) \/ Check(p) \/ Fail(p)
      BY <2>4 DEF ChangeEnv, Check, Fail
    <2>5. CASE StreamIn(p)
      BY <2>5 DEF StreamIn
    <2>6. CASE Written(p)
      BY <2>6 DEF Written
    <2>7. CASE CheckAgain(p)
      BY <2>7 DEF CheckAgain
    <2> QED BY <2>1, <2>2, <2>3, <2>4, <2>5, <2>6, <2>7 DEF Command
  <1> QED BY <1>0, <1>2, <1>3 DEF TypeInv, TypeOK, Moved

LEMMA TypeInvariant == Spec => []TypeInv
  <1>1. Init => TypeInv
    BY IdleShape, Files DEF Init, TypeInv, TypeOK
  <1>2. TypeInv /\ [Next]_vars => TypeInv'
    <2> SUFFICES ASSUME TypeInv, [Next]_vars PROVE TypeInv'
      OBVIOUS
    <2>0. op \in [Proc -> Frame]
      BY DEF TypeInv, TypeOK
    <2>a. ASSUME NEW p \in Proc, OthersSame(p), Shape(op'[p])
          PROVE  \A q \in Proc : Shape(op'[q])
      BY <2>a DEF TypeInv, OthersSame
    <2>1. ASSUME NEW p \in Proc, BeginCreate(p) PROVE TypeInv'
      BY <2>0, <2>1, <2>a, CreateFrame DEF BeginCreate, TypeInv, TypeOK, file
    <2>2. ASSUME NEW p \in Proc, NEW call \in Call \ {"create_vm"}, NEW d \in Disk,
                 BeginDisk(p, call, d)
          PROVE  TypeInv'
      <3>1. told' \in [Disk -> {"no", "yes", "unsure"}] /\ apart' \in BOOLEAN
        BY <2>2 DEF BeginDisk, Known, TypeInv, TypeOK
      <3> QED BY <2>0, <2>2, <2>a, <3>1, DiskFrame DEF BeginDisk, TypeInv, TypeOK, file
    <2>3. ASSUME NEW p \in Proc, Command(p) PROVE TypeInv'
      BY <2>3, CommandType
    <2>4. ASSUME NEW p \in Proc, Return(p) \/ Crash(p) PROVE TypeInv'
      <3>1. op' \in [Proc -> Frame] /\ \A q \in Proc : Shape(op'[q])
        BY <2>0, <2>4, <2>a, EndFrame
      <3>2. /\ vm' \in {"new", "creating", "known"} /\ faults' \in Nat
            /\ told' \in [Disk -> {"no", "yes", "unsure"}] /\ UNCHANGED <<file, apart>>
        BY <2>4 DEF Return, Crash, Fault, director, TypeInv, TypeOK
      <3> QED BY <3>1, <3>2 DEF TypeInv, TypeOK, file
    <2>5. CASE Propagate
      BY <2>5, Files DEF Propagate, TypeInv, TypeOK, director
    <2>6. CASE UNCHANGED vars
      BY <2>6 DEF vars, TypeInv, TypeOK
    <2> QED BY <2>1, <2>2, <2>3, <2>4, <2>5, <2>6 DEF Next
  <1> QED BY <1>1, <1>2, PTL DEF Spec

\* Every variable keeps its type (the state warden_file_service.go works on).
THEOREM TypeCorrect == Spec => []TypeOK
  <1>1. TypeInv => TypeOK
    BY DEF TypeInv
  <1> QED BY <1>1, TypeInvariant, PTL
(***************************************************************************)
(* What is fetched.                                                        *)
(***************************************************************************)
LEMMA CopyInvariant == Spec => []CopyInv
  <1>1. Init => CopyInv
    BY DEF Init, CopyInv, Copied, IdleFrame
  <1>2. TypeInv /\ CopyInv /\ [Next]_vars => CopyInv'
    <2> SUFFICES ASSUME TypeInv, CopyInv, [Next]_vars PROVE CopyInv'
      OBVIOUS
    <2>0. op \in [Proc -> Frame] /\ tmp \in [Proc -> File]
      BY DEF TypeInv, TypeOK
    <2>a. ASSUME NEW p \in Proc, OthersSame(p), Copied(p)',
                 \A q \in Proc : q # p => tmp'[q] = tmp[q]
          PROVE  CopyInv'
      BY <2>a DEF CopyInv, Copied, OthersSame
    <2>1. ASSUME NEW p \in Proc, BeginCreate(p) PROVE CopyInv'
      BY <2>0, <2>1, <2>a, CreateFrame DEF BeginCreate, file, Copied
    <2>2. ASSUME NEW p \in Proc, NEW call \in Call \ {"create_vm"}, NEW d \in Disk,
                 BeginDisk(p, call, d)
          PROVE  CopyInv'
      BY <2>0, <2>2, <2>a, DiskFrame DEF BeginDisk, file, Copied
    <2>3. ASSUME NEW p \in Proc, Command(p) PROVE CopyInv'
      <3>1. \A q \in Proc : q # p => tmp'[q] = tmp[q]
        BY <2>0, <2>3 DEF Command, Copy, CopyEnds, StreamOut, ChangeEnv, StreamIn,
           Written, Check, CheckAgain, Fail, TmpName, file
      <3>2. Copied(p)'
        <4>1. CASE CopyEnds(p)
          <5>1. tmp'[p] = op[p].read
            BY <2>0, <4>1 DEF CopyEnds, TmpName
          <5> QED BY <4>1, <5>1, CommandEffect DEF Copied, Kept
        <4>2. CASE StreamOut(p)
          BY <4>2, CommandEffect DEF Copied, CopyInv
        <4>3. CASE ~CopyEnds(p) /\ ~StreamOut(p)
          <5>1. op'[p].at \notin {"streamOut", "fetched"}
            BY <2>3, <4>3, CommandEffect DEF Command
          <5> QED BY <5>1 DEF Copied
        <4> QED BY <4>1, <4>2, <4>3
      <3> QED BY <2>3, <2>a, <3>1, <3>2, CommandEffect DEF Moved
    <2>4. ASSUME NEW p \in Proc, Return(p) \/ Crash(p) PROVE CopyInv'
      BY <2>0, <2>4, <2>a, EndFrame DEF Return, Crash, file, Copied
    <2>5. CASE Propagate \/ UNCHANGED vars
      BY <2>5 DEF Propagate, vars, CopyInv, Copied
    <2> QED BY <2>1, <2>2, <2>3, <2>4, <2>5 DEF Next
  <1> QED BY <1>1, <1>2, TypeInvariant, PTL DEF Spec

\* Fetch returns a whole environment, the one its own cp read, whatever other
\* Downloads and Uploads do meanwhile and wherever an Upload died
\* (uniqueTmpFileName, and FromBytes that fails on anything else).
THEOREM FetchesAreWhole == Spec => []FetchedIsWhole
  <1>1. TypeInv /\ CopyInv => FetchedIsWhole
    <2> SUFFICES ASSUME TypeInv, CopyInv, NEW p \in Proc, op[p].at = "fetched"
                 PROVE  op[p].data = op[p].read /\ op[p].data \in Content
      BY DEF FetchedIsWhole
    <2> QED BY DEF TypeInv, Shape, CopyInv, Copied
  <1> QED BY <1>1, TypeInvariant, CopyInvariant, PTL

(***************************************************************************)
(* The first upload.                                                       *)
(***************************************************************************)
LEMMA CreateInvariant == Spec => []CreateInv
  <1>1. Init => CreateInv
    BY DEF Init, CreateInv, CreatesAlone, Uploading, IdleFrame
  <1>2. TypeInv /\ CreateInv /\ [Next]_vars => CreateInv'
    <2> SUFFICES ASSUME TypeInv, CreateInv, [Next]_vars PROVE CreateInv'
      OBVIOUS
    <2>0. /\ op \in [Proc -> Frame]
          /\ \A q \in Proc : op[q].call = "create_vm" => op[q].at # "idle"
      BY DEF TypeInv, TypeOK, Shape, IdleFrame
    <2>1. ASSUME NEW p \in Proc, BeginCreate(p) PROVE CreateInv'
      <3>1. \A q \in Proc : op[q].at = "idle"
        BY <2>1 DEF BeginCreate, CreateInv, CreatesAlone
      <3>2. /\ OthersSame(p) /\ op'[p].call = "create_vm" /\ op'[p].at = "streamIn"
            /\ vm' = "creating" /\ visible' = Nothing /\ streamed' = Nothing
        BY <2>0, <2>1, CreateFrame DEF BeginCreate, file, CreateInv
      <3>3. \A q \in Proc : q # p => op'[q].at = "idle" /\ op'[q].call # "create_vm"
        BY <2>0, <3>1, <3>2 DEF OthersSame
      <3> QED BY <3>2, <3>3 DEF CreateInv, CreatesAlone, Uploading
    <2>2. ASSUME NEW p \in Proc, NEW call \in Call \ {"create_vm"}, NEW d \in Disk,
                 BeginDisk(p, call, d)
          PROVE  CreateInv'
      <3>1. /\ OthersSame(p) /\ op'[p].call # "create_vm"
            /\ vm = "known" /\ vm' = vm /\ UNCHANGED <<visible, streamed>>
        <4>1. OthersSame(p) /\ op'[p].call = call
          BY <2>0, <2>2, DiskFrame
        <4> QED BY <2>2, <4>1 DEF BeginDisk, file
      <3>2. \A q \in Proc : op[q].call # "create_vm"
        BY <2>0, <3>1 DEF CreateInv, CreatesAlone
      <3> QED BY <3>1, <3>2 DEF CreateInv, CreatesAlone, Uploading, OthersSame
    <2>3. ASSUME NEW p \in Proc, Command(p) PROVE CreateInv'
      <3>1. Moved(p)
        BY <2>3, CommandEffect
      <3>2. vm' = vm
        BY <2>3 DEF Command, Copy, CopyEnds, StreamOut, ChangeEnv, StreamIn,
           Written, Check, CheckAgain, Fail, director
      <3>3. CreatesAlone'
        BY <3>1, <3>2 DEF CreateInv, CreatesAlone, Moved, OthersSame, SameCall
      <3>4. vm' # "new"
        BY <3>1, <3>2 DEF CreateInv, CreatesAlone, Moved
      <3>5. CASE op[p].call = "create_vm"
        <4>1. \A q \in Proc : q # p => op'[q].call # "create_vm"
          BY <2>0, <3>1, <3>5 DEF CreateInv, CreatesAlone, Moved, OthersSame
        <4>2. Shape(op[p]) /\ Uploading(op[p]) /\ Whole({}) # Nothing /\ Nothing # Torn
              /\ op'[p].call = "create_vm" /\ op[p].at # "idle"
          BY <3>1, <3>5, Files DEF TypeInv, CreateInv, Moved, SameCall
        <4>3. Uploading(op[p])'
          <5>1. CASE StreamIn(p)
            BY <3>5, <4>2, <5>1, CommandEffect DEF Uploading, Shape, Kept
          <5>2. CASE Written(p)
            BY <3>5, <4>2, <5>2, CommandEffect DEF Uploading, Shape, Kept, Written
          <5>3. CASE Check(p)
            BY <3>5, <4>2, <5>3, CommandEffect
               DEF Uploading, Shape, Kept, Check, Exists, file
          <5>4. CASE CheckAgain(p)
            BY <3>5, <4>2, <5>4, CommandEffect
               DEF Uploading, Shape, Kept, CheckAgain, file
          <5>5. CASE Fail(p)
            BY <5>5, CommandEffect DEF Uploading
          <5>6. ~(Copy(p) \/ CopyEnds(p) \/ StreamOut(p) \/ ChangeEnv(p))
            BY <3>5, <4>2, CommandEffect DEF Shape
          <5> QED BY <2>3, <5>1, <5>2, <5>3, <5>4, <5>5, <5>6 DEF Command
        <4> QED BY <3>3, <3>4, <4>1, <4>3 DEF CreateInv, Uploading
      <3>6. CASE op[p].call # "create_vm"
        <4>1. \A q \in Proc : op'[q].call # "create_vm"
          BY <2>0, <3>1, <3>6 DEF CreateInv, CreatesAlone, Moved, OthersSame, SameCall
        <4> QED BY <3>3, <3>4, <4>1 DEF CreateInv, Uploading
      <3> QED BY <3>5, <3>6
    <2>4. ASSUME NEW p \in Proc, Return(p) \/ Crash(p) PROVE CreateInv'
      <3>1. /\ OthersSame(p) /\ op'[p].at = "idle" /\ op'[p].call = "none"
            /\ UNCHANGED <<visible, streamed>> /\ op[p].at # "idle"
            /\ vm' = vm \/ vm' = "known"
        BY <2>0, <2>4, EndFrame DEF Return, Crash, file, director, IdleFrame
      <3>2. vm # "new" /\ vm' # "new"
        BY <3>1 DEF CreateInv, CreatesAlone
      <3>3. CASE op[p].call = "create_vm"
        <4>1. \A q \in Proc : op'[q].at = "idle" /\ op'[q].call # "create_vm"
          BY <2>0, <3>1, <3>3 DEF CreateInv, CreatesAlone, OthersSame
        <4> QED BY <3>2, <4>1 DEF CreateInv, CreatesAlone, Uploading
      <3>4. CASE op[p].call # "create_vm"
        <4>1. vm = "known" /\ vm' = "known"
          BY <3>1, <3>4 DEF CreateInv, CreatesAlone
        <4>2. \A q \in Proc : op'[q].call # "create_vm"
          BY <2>0, <3>1, <4>1 DEF CreateInv, CreatesAlone, OthersSame
        <4>3. CreatesAlone'
          BY <3>1, <4>1, <4>2 DEF CreateInv, CreatesAlone, OthersSame
        <4> QED BY <3>2, <4>2, <4>3 DEF CreateInv, Uploading
      <3> QED BY <3>3, <3>4
    <2>5. CASE Propagate
      <3>1. op' = op /\ vm' = vm /\ streamed # Nothing /\ visible' = streamed
            /\ streamed' = Nothing
        BY <2>5 DEF Propagate, director
      <3>2. \A p \in Proc : Uploading(op[p])'
        BY <3>1 DEF CreateInv, Uploading
      <3> QED BY <3>1, <3>2 DEF CreateInv, CreatesAlone
    <2>6. CASE UNCHANGED vars
      BY <2>6 DEF vars, CreateInv, CreatesAlone, Uploading
    <2> QED BY <2>1, <2>2, <2>3, <2>4, <2>5, <2>6 DEF Next
  <1> QED BY <1>1, <1>2, TypeInvariant, PTL DEF Spec

\* When create_vm succeeds, the processes of the container read the settings
\* it uploaded, however late they became visible: the check after the first
\* Upload does what its comment says (warden_file_service.go:127-151).
THEOREM CreatesAreReadable == Spec => []CreatedIsReadable
  <1>1. CreateInv => CreatedIsReadable
    BY DEF CreateInv, Uploading, CreatedIsReadable
  <1> QED BY <1>1, CreateInvariant, PTL
(***************************************************************************)
(* The file and the director.                                              *)
(***************************************************************************)
LEMMA AgreesOnLess ==
  ASSUME NEW then, NEW now, NEW env, Agrees(then, env),
         \A d \in Disk : now[d] \in {then[d], "unsure"}
  PROVE  Agrees(now, env)
  BY DEF Agrees

LEMMA AgreesUnsure ==
  ASSUME NEW now, NEW env, \A d \in Disk : now[d] = "unsure"
  PROVE  Agrees(now, env)
  BY DEF Agrees

\* The answers of the director matter less to a call in flight once fewer are
\* followed.
LEMMA CarriesOnLess ==
  ASSUME EnvInv, NEW q \in Proc, op'[q] = op[q],
         \A d \in Disk : told'[d] \in {told[d], "unsure"},
         op[q].call \in DiskCall => op[q].disk \in Disk,
         apart' => apart, UNCHANGED <<visible, streamed>>
  PROVE  Carries(op[q])'
  <1>1. Carries(op[q])
    BY DEF EnvInv
  <1>2. \A env : Agrees(told, env) => Agrees(told', env)
    BY AgreesOnLess
  <1> QED BY <1>1, <1>2 DEF Carries

LEMMA EnvBeginDisk ==
  ASSUME TypeInv, CreateInv, EnvInv, NEW p \in Proc, NEW call \in Call \ {"create_vm"},
         NEW d \in Disk, BeginDisk(p, call, d)
  PROVE  EnvInv'
  <1>1. /\ OthersSame(p) /\ op'[p].call = call /\ op'[p].disk = d /\ op'[p].at = "copy"
        /\ op \in [Proc -> Frame] /\ told \in [Disk -> {"no", "yes", "unsure"}]
    BY DiskFrame DEF TypeInv, TypeOK
  <1>2. /\ vm = "known" /\ vm' = vm /\ UNCHANGED <<visible, streamed>>
        /\ apart' = (apart /\ \A q \in Proc : op[q].at = "idle")
        /\ told' = Known(apart', [told EXCEPT ![d] = "unsure"])
    BY DEF BeginDisk, file, Busy
  <1>3. /\ \A c \in Disk : told'[c] \in {told[c], "unsure"}
        /\ told'[d] = "unsure"
        /\ ~apart' => \A c \in Disk : told'[c] = "unsure"
    BY <1>1, <1>2 DEF Known
  <1>4. apart' => OneAtATime'
    BY <1>1, <1>2 DEF OneAtATime, OthersSame
  <1>5. \A env : Agrees(told, env) => Agrees(told', env)
    BY <1>3, AgreesOnLess
  <1>6. \A q \in Proc : Carries(op[q])'
    <2>1. \A q \in Proc : op[q].call \in DiskCall => op[q].disk \in Disk
      BY DEF TypeInv, Shape, IdleFrame, DiskCall
    <2>2. \A q \in Proc : q # p => Carries(op[q])'
      BY <1>1, <1>2, <1>3, <2>1, CarriesOnLess DEF OthersSame
    <2>3. Carries(op[p])'
      BY <1>1, <1>3 DEF Carries
    <2> QED BY <2>2, <2>3
  <1> QED BY <1>2, <1>3, <1>4, <1>5, <1>6 DEF EnvInv

\* A call that takes a disk to the answer "ok" leaves a file, now or soon to be
\* visible, in which the disk is as the director will be told.
LEMMA EnvEnd ==
  ASSUME TypeInv, CreateInv, EnvInv, NEW p \in Proc, Return(p) \/ Crash(p)
  PROVE  EnvInv'
  <1> DEFINE f == op[p]
  <1>1. /\ OthersSame(p) /\ op'[p] = IdleFrame /\ op'[p].at = "idle" /\ f.at # "idle"
        /\ op \in [Proc -> Frame] /\ told \in [Disk -> {"no", "yes", "unsure"}]
        /\ UNCHANGED <<visible, streamed, apart>> /\ Shape(f) /\ Carries(f)
    BY EndFrame DEF TypeInv, TypeOK, Return, Crash, file, director, EnvInv
  <1>2. apart' => OneAtATime'
    BY <1>1 DEF EnvInv, OneAtATime, OthersSame
  <1>3. vm' # "known" => vm' = vm /\ told' = told
    <2>1. CASE Crash(p)
      BY <2>1 DEF Crash, director
    <2>2. CASE Return(p) /\ vm' # "known"
      <3>1. vm' = vm /\ vm # "known" /\ f.at # "ok"
        BY <2>2 DEF Return
      <3> QED BY <2>2, <3>1 DEF Return
    <2> QED BY <2>1, <2>2
  <1>4. Carries(op[p])'
    BY <1>1 DEF Carries, IdleFrame, DiskCall
  <1>5. CASE told' = told
    <2>1. \A q \in Proc : op[q].call \in DiskCall => op[q].disk \in Disk
      BY DEF TypeInv, Shape, IdleFrame, DiskCall
    <2>2. \A q \in Proc : q # p => Carries(op[q])'
      BY <1>1, <1>5, <2>1, CarriesOnLess DEF OthersSame
    <2> QED BY <1>1, <1>2, <1>3, <1>4, <1>5, <2>2 DEF EnvInv
  <1>6. CASE told' # told
    <2>1. /\ f.at = "ok" /\ f.disk # NoDisk /\ apart
          /\ told' = [told EXCEPT ![f.disk] =
                         IF f.call = "attach_disk" THEN "yes" ELSE "no"]
      BY <1>6 DEF Return, Crash, director
    <2>2. /\ f.call \in DiskCall /\ f.data \in Content /\ f.disk \in Disk
      BY <1>1, <2>1 DEF Shape, Call, DiskCall
    <2>3. Agrees(told', f.data)
      BY <1>1, <2>1, <2>2 DEF Carries, Agrees, DiskCall
    <2>4. streamed = f.data \/ (streamed = Nothing /\ visible = f.data)
      BY <1>1, <2>1 DEF Carries
    <2>5. \A q \in Proc : op'[q] = IdleFrame
      <3>1. \A q \in Proc : q # p => op[q].at = "idle"
        BY <1>1, <2>1 DEF EnvInv, OneAtATime
      <3> QED BY <1>1, <3>1 DEF OthersSame, TypeInv, Shape
    <2>6. \A q \in Proc : Carries(op[q])'
      BY <2>5 DEF Carries, IdleFrame, DiskCall
    <2>7. f.data # Nothing
      BY <2>2, Files
    <2>8. ~apart' => \A d \in Disk : told'[d] = "unsure"
      BY <1>1, <2>1
    <2>9. vm' = "known"
      BY <1>3, <1>6
    <2> QED BY <1>1, <1>2, <2>3, <2>4, <2>6, <2>7, <2>8, <2>9 DEF EnvInv
  <1> QED BY <1>5, <1>6
LEMMA EnvCommand ==
  ASSUME TypeInv, CopyInv, CreateInv, EnvInv, NEW p \in Proc, Command(p)
  PROVE  EnvInv'
  <1> DEFINE f == op[p]
             g == op'[p]
  <1>1. /\ Moved(p) /\ OthersSame(p) /\ f.at # "idle"
        /\ g.call = f.call /\ g.disk = f.disk
        /\ Shape(f) /\ Carries(f) /\ Copied(p)
        /\ told \in [Disk -> {"no", "yes", "unsure"}]
    BY CommandEffect DEF Moved, SameCall, TypeInv, TypeOK, EnvInv, CopyInv
  <1>2. vm' = vm
    BY DEF Command, Copy, CopyEnds, StreamOut, ChangeEnv, StreamIn,
           Written, Check, CheckAgain, Fail, director
  <1>3. OneAtATime => OneAtATime'
    BY <1>1 DEF OneAtATime, OthersSame
  <1>a. ASSUME apart, NEW q \in Proc, q # p PROVE op'[q].at = "idle" /\ op'[q] = IdleFrame
    BY <1>1, <1>a DEF EnvInv, OneAtATime, OthersSame, TypeInv, Shape
  <1>b. ASSUME UNCHANGED director,
               streamed' # Nothing => Agrees(told, streamed'),
               streamed' = Nothing /\ visible' \in Content => Agrees(told, visible'),
               Carries(op[p])'
        PROVE  EnvInv'
    <2>1. ASSUME NEW q \in Proc, q # p PROVE Carries(op[q])'
      <3>1. CASE apart
        BY <1>a, <2>1, <3>1 DEF Carries, IdleFrame, DiskCall
      <3>2. CASE ~apart
        BY <1>1, <1>b, <2>1, <3>2 DEF EnvInv, Carries, director, OthersSame
      <3> QED BY <3>1, <3>2
    <2>2. \A q \in Proc : Carries(op[q])'
      BY <1>b, <2>1
    <2> QED BY <1>3, <1>b, <2>2 DEF EnvInv, director
  <1>c. /\ streamed # Nothing => Agrees(told, streamed)
        /\ streamed = Nothing /\ visible \in Content => Agrees(told, visible)
    BY DEF EnvInv
  <1>4. CASE Copy(p)
    <2>1. /\ f.at = "copy" /\ UNCHANGED <<visible, streamed>>
          /\ apart' = (apart /\ streamed = Nothing) /\ told' = Known(apart', told)
          /\ (g.at = "copying" /\ g.read = visible) \/ g.at = "err"
      BY <1>4, CommandEffect DEF Copy
    <2>2. /\ \A d \in Disk : told'[d] \in {told[d], "unsure"}
          /\ ~apart' => \A d \in Disk : told'[d] = "unsure"
          /\ apart' => told' = told
      BY <2>1 DEF Known
    <2>3. vm = "known"
      BY <1>1, <2>1 DEF Shape, CreateInv, CreatesAlone
    <2>4. \A q \in Proc : op[q].call \in DiskCall => op[q].disk \in Disk
      BY DEF TypeInv, Shape, IdleFrame, DiskCall
    <2>5. \A q \in Proc : q # p => Carries(op[q])'
      BY <1>1, <2>1, <2>2, <2>4, CarriesOnLess DEF OthersSame
    <2>6. \A env : Agrees(told, env) => Agrees(told', env)
      BY <2>2, AgreesOnLess
    <2>7. visible \in Content => Agrees(told', visible)
      <3>1. CASE apart'
        BY <1>c, <2>1, <2>6, <3>1
      <3>2. CASE ~apart'
        BY <2>2, <3>2, AgreesUnsure
      <3> QED BY <3>1, <3>2
    <2>8. f.call \in DiskCall => told'[f.disk] = "unsure"
      BY <1>1, <2>2, <2>4 DEF Carries
    <2>9. Carries(op[p])'
      BY <1>1, <2>1, <2>7, <2>8 DEF Carries
    <2>10. \A q \in Proc : Carries(op[q])'
      BY <2>5, <2>9
    <2>11. apart' => OneAtATime'
      BY <1>3, <2>1 DEF EnvInv
    <2> QED BY <1>2, <1>c, <2>1, <2>2, <2>3, <2>6, <2>10, <2>11 DEF EnvInv
  <1>5. CASE CopyEnds(p)
    <2>1. /\ f.at = "copying" /\ g.at = "streamOut" /\ Kept(f, g)
          /\ UNCHANGED <<visible, streamed, director>>
      BY <1>5, CommandEffect DEF CopyEnds
    <2>2. Carries(op[p])'
      BY <1>1, <2>1 DEF Carries, Kept, director
    <2> QED BY <1>b, <1>c, <2>1, <2>2
  <1>6. CASE StreamOut(p)
    <2>1. /\ f.at = "streamOut" /\ UNCHANGED <<visible, streamed, director>>
          /\ \/ g.at = "fetched" /\ g.data = f.read /\ f.read \in Content
             \/ g.at = "err"
      BY <1>1, <1>6, CommandEffect DEF StreamOut, Copied
    <2>2. Carries(op[p])'
      BY <1>1, <2>1 DEF Carries, director
    <2> QED BY <1>b, <1>c, <2>1, <2>2
  <1>7. CASE ChangeEnv(p)
    <2>1. /\ f.at = "fetched" /\ g.at = "streamIn" /\ g.data = NewEnv(f)
          /\ UNCHANGED <<visible, streamed, director>>
      BY <1>7, CommandEffect DEF ChangeEnv, file
    <2>2. /\ f.call \in DiskCall /\ f.disk \in Disk /\ f.data.disks \subseteq Disk
          /\ told[f.disk] = "unsure" /\ Agrees(told, f.data)
      BY <1>1, <2>1, Files DEF Shape, Call, DiskCall, Carries
    <2>3. g.data.disks = IF f.call = "attach_disk" THEN f.data.disks \cup {f.disk}
                         ELSE f.data.disks \ {f.disk}
      BY <2>1, <2>2, Files DEF NewEnv
    <2>4. Agrees(told, g.data)
      BY <2>2, <2>3 DEF Agrees
    <2>5. Carries(op[p])'
      BY <1>1, <2>1, <2>2, <2>3, <2>4 DEF Carries, director
    <2> QED BY <1>b, <1>c, <2>1, <2>5
  <1>8. CASE StreamIn(p)
    <2>1. /\ f.at = "streamIn" /\ Kept(f, g) /\ UNCHANGED director
          /\ \/ /\ g.at = "writing" /\ visible' = Torn /\ streamed' = streamed
             \/ /\ g.at = "check" /\ visible' = visible /\ streamed' = f.data
      BY <1>8, CommandEffect DEF StreamIn
    <2>2. f.data \in Content /\ f.data # Nothing /\ Agrees(told, f.data) /\ Torn \notin Content
      BY <1>1, <2>1, Files DEF Shape, Carries
    <2>3. Carries(op[p])'
      BY <1>1, <2>1 DEF Carries, Kept, director
    <2> QED BY <1>b, <1>c, <2>1, <2>2, <2>3
  <1>9. CASE Written(p)
    <2>1. /\ f.at = "writing" /\ g.at = "check" /\ Kept(f, g) /\ UNCHANGED director
          /\ visible' = f.data /\ streamed' = Nothing
      BY <1>9, CommandEffect DEF Written
    <2>2. Agrees(told, f.data)
      BY <1>1, <2>1 DEF Carries
    <2>3. Carries(op[p])'
      BY <1>1, <2>1 DEF Carries, Kept, director
    <2> QED BY <1>b, <1>c, <2>1, <2>2, <2>3
  <1>10. CASE Check(p) \/ CheckAgain(p) \/ Fail(p)
    <2>1. /\ UNCHANGED <<visible, streamed, director>>
          /\ \/ f.at = "check" /\ g.at \in {"check", "ok", "err"} /\ Kept(f, g)
             \/ g.at = "err"
      BY <1>10, CommandEffect DEF Check, CheckAgain, Fail, file
    <2>2. Carries(op[p])'
      BY <1>1, <2>1 DEF Carries, Kept, director
    <2> QED BY <1>b, <1>c, <2>1, <2>2
  <1> QED BY <1>4, <1>5, <1>6, <1>7, <1>8, <1>9, <1>10 DEF Command

LEMMA EnvInvariant == Spec => []EnvInv
  <1>1. Init => EnvInv
    BY Files DEF Init, EnvInv, OneAtATime, Carries, IdleFrame, DiskCall
  <1>2. TypeInv /\ CopyInv /\ CreateInv /\ EnvInv /\ [Next]_vars => EnvInv'
    <2> SUFFICES ASSUME TypeInv, CopyInv, CreateInv, EnvInv, [Next]_vars PROVE EnvInv'
      OBVIOUS
    <2>1. ASSUME NEW p \in Proc, BeginCreate(p) PROVE EnvInv'
      <3>1. /\ OthersSame(p) /\ op'[p].call = "create_vm" /\ op'[p].at = "streamIn"
            /\ op'[p].data = Whole({}) /\ vm = "new"
            /\ UNCHANGED <<visible, streamed, told, apart>>
        BY <2>1, CreateFrame DEF BeginCreate, file, TypeInv, TypeOK
      <3>2. visible = Nothing /\ streamed = Nothing /\ apart /\ \A d \in Disk : told[d] = "no"
        BY <3>1 DEF CreateInv, EnvInv
      <3>3. \A q \in Proc : op[q] = IdleFrame /\ op[q].at = "idle"
        BY <3>1 DEF CreateInv, CreatesAlone, TypeInv, Shape
      <3>4. Agrees(told, Whole({}))
        BY <3>2, Files DEF Agrees
      <3>5. \A q \in Proc : Carries(op[q])'
        BY <3>1, <3>2, <3>3, <3>4 DEF Carries, OthersSame, IdleFrame, DiskCall
      <3>6. OneAtATime'
        BY <3>1, <3>3 DEF OneAtATime, OthersSame
      <3> QED BY <3>1, <3>2, <3>5, <3>6, Files DEF EnvInv
    <2>2. ASSUME NEW p \in Proc, NEW call \in Call \ {"create_vm"}, NEW d \in Disk,
                 BeginDisk(p, call, d)
          PROVE  EnvInv'
      BY <2>2, EnvBeginDisk
    <2>3. ASSUME NEW p \in Proc, Command(p) PROVE EnvInv'
      BY <2>3, EnvCommand
    <2>4. ASSUME NEW p \in Proc, Return(p) \/ Crash(p) PROVE EnvInv'
      BY <2>4, EnvEnd
    <2>5. CASE Propagate
      <3>1. /\ UNCHANGED <<op, vm, told, apart>> /\ streamed # Nothing
            /\ visible' = streamed /\ streamed' = Nothing
        BY <2>5 DEF Propagate, director
      <3>2. \A q \in Proc : Carries(op[q])'
        BY <3>1 DEF EnvInv, Carries
      <3> QED BY <3>1, <3>2 DEF EnvInv, OneAtATime
    <2>6. CASE UNCHANGED vars
      BY <2>6 DEF vars, EnvInv, Carries, OneAtATime
    <2> QED BY <2>1, <2>2, <2>3, <2>4, <2>5, <2>6 DEF Next
  <1> QED BY <1>1, <1>2, TypeInvariant, CopyInvariant, CreateInvariant, PTL DEF Spec

\* As long as calls come one at a time and find the file settled, the file
\* names the disks the director was told are attached and none it was told are
\* not (warden_vm.go:85-99, 112-124), through failures and deaths at any
\* command of the read, the change and the write.
THEOREM FileNamesWhatWasTold == Spec => []NamedAsTold
  <1>1. EnvInv => NamedAsTold
    BY DEF EnvInv, Agrees, NamedAsTold
  <1> QED BY <1>1, EnvInvariant, PTL
=============================================================================
