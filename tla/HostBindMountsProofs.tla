------------------------ MODULE HostBindMountsProofs ------------------------
(***************************************************************************)
(* Theorems about HostBindMounts, for any number of VMs, disks, processes, *)
(* retries and faults.                                                     *)
(***************************************************************************)
EXTENDS HostBindMounts, TLAPS

(***************************************************************************)
(* Type correctness.                                                       *)
(***************************************************************************)
\* A frame beyond its type: which calls reach a step, and the steps that
\* name a disk.
Shape(f) ==
  f.at # "idle" =>
    /\ f.vm \in VM
    /\ f.call \in BindCall
    /\ f.at \in {"mkdir", "bind", "unbindable", "shared"} => f.call \in Makes
    /\ f.at = "unbindable" => f.call = "MakePersistent"
    /\ f.at \in {"exists", "umount", "remove"} => f.call \in Deletes
    /\ f.at \in {"glob", "next"} => f.call = "DeletePersistent"
    /\ f.at \in {"check", "umountDisk"} =>
         f.call \in {"DeletePersistent", "UnmountPersistent"}
    /\ f.at \in {"mkdirDisk", "mountDisk"} => f.call = "MountPersistent"
    /\ f.call \in DiskCalls \/ f.at \in {"check", "umountDisk"} => f.disk \in Disk

TypeInv == TypeOK /\ \A p \in Proc : Shape(op[p])

(***************************************************************************)
(* What the operators that move a process do to op.                        *)
(***************************************************************************)
OthersSame(p) == \A q \in Proc : q # p => op'[q] = op[q]
SameCall(p) == op'[p].call = op[p].call /\ op'[p].vm = op[p].vm

LEMMA GotoFrame ==
  ASSUME op \in [Proc -> Frame], NEW p \in Proc, NEW at \in At, Goto(p, at)
  PROVE  /\ op' \in [Proc -> Frame] /\ OthersSame(p) /\ SameCall(p)
         /\ op'[p].at = at /\ op'[p].disk = op[p].disk
         /\ op'[p].todo = op[p].todo
  BY DEF Goto, Frame, OthersSame, SameCall

LEMMA AgainFrame ==
  ASSUME op \in [Proc -> Frame], NEW p \in Proc, NEW at \in At,
         op[p].tries + 1 < Attempts, Again(p, at)
  PROVE  /\ op' \in [Proc -> Frame] /\ OthersSame(p) /\ SameCall(p)
         /\ op'[p].at = at /\ op'[p].disk = op[p].disk
         /\ op'[p].todo = op[p].todo
  BY AttemptsAssumption DEF Again, Frame, OthersSame, SameCall

LEMMA AfreshFrame ==
  ASSUME op \in [Proc -> Frame], NEW p \in Proc, NEW at \in At, Afresh(p, at)
  PROVE  /\ op' \in [Proc -> Frame] /\ OthersSame(p) /\ SameCall(p)
         /\ op'[p].at = at /\ op'[p].disk = op[p].disk
  <1>1. 0 \in 0..(Attempts - 1)
    BY AttemptsAssumption
  <1> QED BY <1>1 DEF Afresh, Frame, OthersSame, SameCall

LEMMA GlobFrame ==
  ASSUME op \in [Proc -> Frame], NEW p \in Proc, Glob(p)
  PROVE  /\ op' \in [Proc -> Frame] /\ OthersSame(p) /\ SameCall(p)
         /\ op'[p].at = "next" /\ op'[p].disk = op[p].disk
         /\ op'[p].todo = DisksIn(diskDir, op[p].vm)
  <1>1. PICK at \in At, dirs \in SUBSET Disk :
          /\ at = "next" /\ dirs = DisksIn(diskDir, op[p].vm)
          /\ op' = [op EXCEPT ![p].at = at, ![p].todo = dirs]
    BY DEF Glob, DisksIn, At, Step
  <1>2. /\ op' \in [Proc -> Frame] /\ OthersSame(p) /\ SameCall(p)
        /\ op'[p].at = at /\ op'[p].disk = op[p].disk /\ op'[p].todo = dirs
    BY <1>1 DEF Frame, OthersSame, SameCall
  <1> QED BY <1>1, <1>2

LEMMA StartFrame ==
  ASSUME op \in [Proc -> Frame], NEW p \in Proc, NEW call \in BindCall,
         NEW v \in VM, NEW d \in Disk \cup {NoDisk}, Begin(p, call, v, d)
  PROVE  /\ op' \in [Proc -> Frame] /\ OthersSame(p)
         /\ op'[p].call = call /\ op'[p].vm = v /\ op'[p].at = First[call]
         /\ Shape(op'[p])
  <1> USE DEF BindCall, Makes, Deletes, DiskCalls
  <1> DEFINE f == [call |-> call, vm |-> v, disk |-> d, at |-> First[call],
                   todo |-> {}, tries |-> 0]
  <1>1. f \in Frame
    BY AttemptsAssumption DEF Frame, First, At, Step
  <1>2. /\ op' = [op EXCEPT ![p] = f]
        /\ call \in DiskCalls => d \in Disk
    BY DEF Begin
  <1>3. Shape(f)
    BY <1>2 DEF Shape, First
  <1> QED BY <1>1, <1>2, <1>3 DEF OthersSame

LEMMA IdleOp ==
  ASSUME op \in [Proc -> Frame], NEW p \in Proc,
         op' = [op EXCEPT ![p] = IdleFrame]
  PROVE  /\ op' \in [Proc -> Frame] /\ OthersSame(p)
         /\ op'[p] = IdleFrame /\ op'[p].at = "idle"
  BY AttemptsAssumption DEF IdleFrame, Frame, At, OthersSame

(***************************************************************************)
(* Every command keeps the process on its call and its VM, and leaves it   *)
(* with a frame of the right shape.                                        *)
(***************************************************************************)
LEMMA CommandFrame ==
  ASSUME TypeInv, NEW p \in Proc, Command(p)
  PROVE  /\ op' \in [Proc -> Frame] /\ OthersSame(p) /\ SameCall(p)
         /\ Shape(op'[p])
  <1> DEFINE Goal == /\ op' \in [Proc -> Frame] /\ OthersSame(p) /\ SameCall(p)
                     /\ Shape(op'[p])
  <1>0. op \in [Proc -> Frame] /\ Shape(op[p])
    BY DEF TypeInv, TypeOK
  <1> USE DEF At, Step, Shape, SameCall, BindCall, Makes, Deletes, DiskCalls
  <1>1. CASE Mkdir(p)
    BY <1>0, <1>1, GotoFrame DEF Mkdir
  <1>2. CASE MountFlag(p)
    BY <1>0, <1>2, GotoFrame DEF MountFlag, AfterFlag, Propagation
  <1>3. CASE Exists(p)
    BY <1>0, <1>3, GotoFrame DEF Exists, AfterExists, KindOf
  <1>4. CASE Glob(p)
    BY <1>0, <1>4, GlobFrame DEF Glob
  <1>5. CASE NextDisk(p)
    <2>0. op[p].at = "next"
      BY <1>5 DEF NextDisk
    <2>1. CASE Goto(p, "umount")
      BY <1>0, <2>0, <2>1, GotoFrame
    <2>2. ASSUME NEW d \in op[p].todo,
                 op' = [op EXCEPT ![p].disk = d, ![p].todo = @ \ {d},
                                  ![p].tries = 0, ![p].at = "check"]
          PROVE  Goal
      <3>1. 0 \in 0..(Attempts - 1) /\ d \in Disk /\ op[p].todo \ {d} \in SUBSET Disk
        BY <1>0, <2>2, AttemptsAssumption DEF Frame
      <3> QED BY <1>0, <2>0, <2>2, <3>1 DEF Frame, OthersSame
    <2> QED BY <1>5, <2>1, <2>2 DEF NextDisk
  <1>6. CASE Umount(p)
    <2>0. op[p].at = "umount" /\ (Afresh(p, "remove") \/ Goto(p, "err"))
      BY <1>6 DEF Umount
    <2>1. CASE Goto(p, "err")
      BY <1>0, <2>0, <2>1, GotoFrame
    <2>2. CASE Afresh(p, "remove")
      BY <1>0, <2>0, <2>2, AfreshFrame
    <2> QED BY <2>0, <2>1, <2>2
  <1>7. ASSUME op[p].at = "remove", Retry(p, "remove") PROVE Goal
    BY <1>0, <1>7, GotoFrame, AgainFrame DEF Retry, TriesLeft, GiveUp
  <1>8. CASE Remove(p)
    BY <1>0, <1>7, <1>8, GotoFrame DEF Remove
  <1>9. CASE RemoveFails(p)
    BY <1>7, <1>9 DEF RemoveFails
  <1>10. CASE CheckMounts(p)
    BY <1>0, <1>10, GotoFrame DEF CheckMounts, UnmountedAt
  <1>11. CASE UmountDisk(p)
    BY <1>0, <1>11, GotoFrame DEF UmountDisk, UnmountedAt
  <1>12. CASE UmountDiskFails(p)
    BY <1>0, <1>12, GotoFrame, AgainFrame DEF UmountDiskFails, Retry, TriesLeft, GiveUp
  <1>13. CASE MkdirDisk(p)
    BY <1>0, <1>13, GotoFrame DEF MkdirDisk
  <1>14. CASE MountDisk(p)
    BY <1>0, <1>14, GotoFrame DEF MountDisk
  <1>15. CASE Fail(p)
    BY <1>0, <1>15, GotoFrame DEF Fail
  <1> QED
    BY <1>1, <1>2, <1>3, <1>4, <1>5, <1>6, <1>8, <1>9, <1>10, <1>11,
       <1>12, <1>13, <1>14, <1>15 DEF Command

(***************************************************************************)
(* Type correctness.                                                       *)
(***************************************************************************)
LEMMA CommandType ==
  ASSUME TypeInv, NEW p \in Proc, Command(p)
  PROVE  TypeInv'
  <1>1. /\ op' \in [Proc -> Frame] /\ \A q \in Proc : Shape(op[q])'
    BY CommandFrame DEF OthersSame, TypeInv, Shape
  <1> DEFINE HostType == /\ root' \in [Kind -> [VM -> RootState]]
                         /\ nested' \subseteq VM
                         /\ diskDir' \subseteq VM \X Disk
                         /\ mounted' \subseteq VM \X Disk
                         /\ lost' \subseteq Disk
                         /\ life' = life
                         /\ faults' \in Nat
  <1>2. HostType
    <2> USE DEF TypeInv, TypeOK, Fault, NoFault, host
    <2>1. CASE Mkdir(p)
      BY <2>1 DEF Mkdir, RootState
    <2>2. CASE MountFlag(p)
      BY <2>2 DEF MountFlag, RootState
    <2>3. ASSUME UNCHANGED <<host, life>>, Fault \/ NoFault
          PROVE  HostType
      BY <2>3
    <2>3a. CASE Exists(p) \/ Glob(p) \/ NextDisk(p) \/ CheckMounts(p)
      BY <2>3, <2>3a DEF Exists, Glob, NextDisk, CheckMounts
    <2>3b. CASE UmountDiskFails(p) \/ Fail(p)
      BY <2>3, <2>3b DEF UmountDiskFails, Fail
    <2>4. CASE Umount(p)
      BY <2>4 DEF Umount, UnmountedTree, Tolerated, RootState
    <2>4a. ASSUME NEW v, NEW done \in SUBSET Disk, Emptied(v, done)
           PROVE  diskDir' \subseteq VM \X Disk /\ lost' \subseteq Disk
      BY <2>4a DEF Emptied
    <2>5. CASE Remove(p)
      <3>1. root' \in [Kind -> [VM -> RootState]]
        BY <2>5 DEF Remove, RootState
      <3>2. diskDir' \subseteq VM \X Disk /\ lost' \subseteq Disk
        BY <2>5, <2>4a DEF Remove
      <3> QED BY <2>5, <3>1, <3>2 DEF Remove
    <2>5a. CASE RemoveFails(p)
      BY <2>5a, <2>4a DEF RemoveFails
    <2>6. CASE UmountDisk(p) \/ MountDisk(p)
      BY <2>6 DEF UmountDisk, MountDisk
    <2>7. CASE MkdirDisk(p)
      <3>1. root' \in [Kind -> [VM -> RootState]]
        BY <2>7 DEF MkdirDisk, RootState
      <3>2. op[p].vm \in VM /\ op[p].disk \in Disk
        BY <2>7 DEF MkdirDisk, Shape, DiskCalls
      <3>3. diskDir' \subseteq VM \X Disk
        BY <2>7, <3>2 DEF MkdirDisk
      <3> QED BY <2>7, <3>1, <3>3 DEF MkdirDisk
    <2> QED BY <2>1, <2>2, <2>3a, <2>3b, <2>4, <2>5, <2>5a, <2>6, <2>7
           DEF Command
  <1> QED BY <1>1, <1>2 DEF TypeInv, TypeOK

LEMMA TypeInvariant == Spec => []TypeInv
  <1>1. Init => TypeInv
    <2> SUFFICES ASSUME Init PROVE TypeInv
      OBVIOUS
    <2>1. IdleFrame \in Frame /\ IdleFrame.at = "idle"
      BY AttemptsAssumption DEF IdleFrame, Frame, At
    <2> QED BY <2>1 DEF Init, TypeInv, TypeOK, Shape, RootState, Life
  <1>2. TypeInv /\ [Next]_vars => TypeInv'
    <2> SUFFICES ASSUME TypeInv, [Next]_vars PROVE TypeInv'
      OBVIOUS
    <2>1. ASSUME NEW p \in Proc, Start(p) PROVE TypeInv'
      <3>1. PICK call \in BindCall, v \in VM, d \in Disk \cup {NoDisk} :
              Begin(p, call, v, d)
        BY <2>1 DEF Start
      <3>2. op' \in [Proc -> Frame] /\ \A q \in Proc : Shape(op[q])'
        BY <3>1, StartFrame DEF TypeInv, TypeOK, OthersSame, Shape
      <3> QED BY <3>1, <3>2 DEF Begin, TypeInv, TypeOK, Life, host
    <2>2. ASSUME NEW p \in Proc, Command(p) PROVE TypeInv'
      BY <2>2, CommandType
    <2>3. ASSUME NEW p \in Proc, op' = [op EXCEPT ![p] = IdleFrame]
          PROVE  op' \in [Proc -> Frame] /\ \A q \in Proc : Shape(op[q])'
      BY <2>3, IdleOp DEF TypeInv, TypeOK, OthersSame, Shape
    <2>4. ASSUME NEW p \in Proc, Return(p) \/ Crash(p) PROVE TypeInv'
      BY <2>3, <2>4, MaxFaultsAssumption
         DEF Return, Crash, TypeInv, TypeOK, Life, host, Fault
    <2>5. ASSUME NEW v \in VM,
                 ContainerUp(v) \/ ContainerGone(v) \/ ContainerMounts(v)
          PROVE  TypeInv'
      BY <2>5 DEF ContainerUp, ContainerGone, ContainerMounts, host,
                  TypeInv, TypeOK, Life, Shape
    <2>6. CASE Reboot
      <3>1. op' \in [Proc -> Frame] /\ \A q \in Proc : Shape(op[q])'
        BY <2>6, AttemptsAssumption DEF Reboot, IdleFrame, Frame, At, Shape
      <3> QED BY <2>6, <3>1 DEF Reboot, TypeInv, TypeOK, Life, RootState, Fault
    <2>7. CASE UNCHANGED vars
      BY <2>7 DEF vars, TypeInv, TypeOK, Shape
    <2> QED BY <2>1, <2>2, <2>4, <2>5, <2>6, <2>7 DEF Next
  <1> QED BY <1>1, <1>2, PTL DEF Spec

\* Every variable keeps its type (the state fs_host_bind_mounts.go works on).
THEOREM TypeCorrect == Spec => []TypeOK
  <1>1. TypeInv => TypeOK
    BY DEF TypeInv
  <1> QED BY <1>1, TypeInvariant, PTL

(***************************************************************************)
(* No disk is lost.  What makes it inductive: a MountPersistent has its VM *)
(* to itself, a mounted disk is always in a directory Glob will list, and  *)
(* a DeletePersistent past Glob still has to visit every mounted disk.     *)
(***************************************************************************)
MountsAlone ==
  \A p, q \in Proc :
    /\ op[p].at # "idle" /\ op[p].call = "MountPersistent"
    /\ op[q].at # "idle" /\ op[q].vm = op[p].vm
    => q = p

Unmounting(f) ==
  f.call = "DeletePersistent" =>
    \A d \in Disk : <<f.vm, d>> \in mounted =>
      /\ f.at = "next" => d \in f.todo
      /\ f.at \in {"check", "umountDisk"} => d \in f.todo \cup {f.disk}
      /\ f.at \notin {"umount", "remove"}

DiskInv ==
  /\ MountsAlone
  /\ mounted \subseteq diskDir
  /\ \A p \in Proc : Unmounting(op[p])
  /\ lost = {}

LEMMA AloneKept ==
  ASSUME MountsAlone, NEW p \in Proc, op[p].at # "idle",
         OthersSame(p), SameCall(p)
  PROVE  MountsAlone'
  BY DEF MountsAlone, OthersSame, SameCall

\* The frames of the other processes stay right if no disk appears, and if
\* one does on a VM nobody else works on.
LEMMA OthersUnmounting ==
  ASSUME TypeInv, DiskInv, NEW p \in Proc, OthersSame(p),
         \/ mounted' \subseteq mounted
         \/ /\ op[p].at # "idle" /\ op[p].call = "MountPersistent"
            /\ mounted' \subseteq mounted \cup {<<op[p].vm, op[p].disk>>}
  PROVE  \A q \in Proc : q # p => Unmounting(op[q])'
  <1> SUFFICES ASSUME NEW q \in Proc, q # p, op[q].call = "DeletePersistent",
                      NEW d \in Disk, <<op[q].vm, d>> \in mounted'
               PROVE  /\ op[q].at = "next" => d \in op[q].todo
                      /\ op[q].at \in {"check", "umountDisk"} =>
                           d \in op[q].todo \cup {op[q].disk}
                      /\ op[q].at \notin {"umount", "remove"}
    BY DEF OthersSame, Unmounting
  <1>1. CASE <<op[q].vm, d>> \in mounted
    BY <1>1 DEF DiskInv, Unmounting
  <1>2. CASE op[q].at # "idle" /\ <<op[q].vm, d>> \notin mounted
    BY <1>2 DEF DiskInv, MountsAlone
  <1>3. CASE op[q].at = "idle"
    BY <1>3
  <1> QED BY <1>1, <1>2, <1>3

LEMMA CommandDisks ==
  ASSUME TypeInv, DiskInv, NEW p \in Proc, Command(p)
  PROVE  DiskInv'
  <1>0. /\ op \in [Proc -> Frame] /\ Shape(op[p]) /\ Unmounting(op[p])
        /\ mounted \subseteq diskDir /\ lost = {}
    BY DEF TypeInv, TypeOK, DiskInv
  <1>1. OthersSame(p) /\ SameCall(p)
    BY CommandFrame
  <1>2. op[p].at # "idle"
    BY DEF Command, Mkdir, MountFlag, Propagation, Exists, Glob, NextDisk,
           Umount, Remove, RemoveFails, CheckMounts, UmountDisk,
           UmountDiskFails, MkdirDisk, MountDisk, Fail
  <1>3. MountsAlone'
    BY <1>1, <1>2, AloneKept DEF DiskInv
  <1> DEFINE Rest == /\ mounted' \subseteq diskDir' /\ lost' = {}
                     /\ \/ mounted' \subseteq mounted
                        \/ /\ op[p].call = "MountPersistent"
                           /\ mounted' \subseteq
                                mounted \cup {<<op[p].vm, op[p].disk>>}
                     /\ Unmounting(op[p])'
  <1>4. Rest
    <2> USE <1>0 DEF At, Step, Shape, Unmounting, host
    <2>1. CASE Mkdir(p) \/ MountFlag(p)
      BY <2>1, <1>1 DEF Mkdir, MountFlag, SameCall, Propagation, Makes
    <2>2. CASE Exists(p)
      BY <2>2, <1>1, GotoFrame DEF Exists, AfterExists, SameCall, KindOf, Deletes
    <2>3. CASE Glob(p)
      <3>1. /\ op'[p].at = "next" /\ op'[p].todo = DisksIn(diskDir, op[p].vm)
            /\ UNCHANGED host /\ op'[p].vm = op[p].vm
        BY <2>3, <1>1, GlobFrame DEF Glob, SameCall
      <3>2. \A d \in Disk : <<op[p].vm, d>> \in mounted => d \in op'[p].todo
        BY <3>1 DEF DisksIn
      <3> QED BY <3>1, <3>2
    <2>4. CASE NextDisk(p)
      <3>1. CASE op[p].todo = {} /\ Goto(p, "umount")
        BY <2>4, <3>1, <1>1, GotoFrame DEF NextDisk, SameCall
      <3>2. ASSUME NEW d \in op[p].todo,
                   op' = [op EXCEPT ![p].disk = d, ![p].todo = @ \ {d},
                                    ![p].tries = 0, ![p].at = "check"]
            PROVE  Rest
        <4>1. /\ op'[p].at = "check" /\ op'[p].disk = d
              /\ op'[p].todo = op[p].todo \ {d}
          BY <3>2 DEF Frame
        <4> QED BY <2>4, <4>1, <1>1 DEF NextDisk, SameCall
      <3> QED BY <2>4, <3>1, <3>2 DEF NextDisk
    <2>5. CASE Umount(p)
      BY <2>5, <1>1, GotoFrame, AfreshFrame DEF Umount, UnmountedTree, Tolerated, SameCall
    <2>6. ASSUME op[p].at = "remove", Retry(p, "remove"), mounted' = mounted
          PROVE  Unmounting(op[p])'
      BY <2>6, <1>1 DEF SameCall
    <2>6a. ASSUME NEW done, Emptied(op[p].vm, done), mounted' = mounted,
                  \/ op[p].call = "DeletePersistent" /\ done \in SUBSET Disk
                  \/ done = {},
                  op[p].at = "remove"
           PROVE  mounted' \subseteq diskDir' /\ lost' = {}
      BY <2>6a DEF Emptied
    <2>7. CASE Remove(p)
      <3>2. mounted' = mounted /\ mounted' \subseteq diskDir' /\ lost' = {}
        BY <2>7, <2>6a DEF Remove, KindOf, Deletes
      <3>3. Unmounting(op[p])'
        BY <2>6, <2>7, <1>1, GotoFrame DEF Remove, SameCall
      <3> QED BY <3>2, <3>3
    <2>8. CASE RemoveFails(p)
      <3>1. mounted' = mounted /\ mounted' \subseteq diskDir' /\ lost' = {}
        BY <2>8, <2>6a DEF RemoveFails, KindOf, Deletes
      <3> QED BY <2>6, <2>8, <3>1 DEF RemoveFails
    <2>9. CASE CheckMounts(p)
      BY <2>9, <1>1, GotoFrame DEF CheckMounts, UnmountedAt, SameCall
    <2>10. CASE UmountDisk(p)
      BY <2>10, <1>1, GotoFrame DEF UmountDisk, UnmountedAt, SameCall
    <2>11. CASE UmountDiskFails(p)
      BY <2>11, <1>1, GotoFrame, AgainFrame
         DEF UmountDiskFails, Retry, TriesLeft, GiveUp, SameCall
    <2>12. CASE MkdirDisk(p) \/ MountDisk(p)
      BY <2>12, <1>1 DEF MkdirDisk, MountDisk, SameCall
    <2>13. CASE Fail(p)
      BY <2>13, <1>1, GotoFrame DEF Fail, SameCall
    <2> QED
      BY <2>1, <2>2, <2>3, <2>4, <2>5, <2>7, <2>8, <2>9, <2>10, <2>11,
         <2>12, <2>13 DEF Command
  <1>5. \A q \in Proc : Unmounting(op[q])'
    BY <1>1, <1>2, <1>4, OthersUnmounting
  <1> QED BY <1>3, <1>4, <1>5 DEF DiskInv

LEMMA DiskInvariant ==
  ASSUME "MountPersistent" \notin Overlap
  PROVE  Spec => []DiskInv
  <1>1. Init => DiskInv
    BY DEF Init, DiskInv, MountsAlone, Unmounting, IdleFrame
  <1>2. TypeInv /\ DiskInv /\ [Next]_vars => DiskInv'
    <2> SUFFICES ASSUME TypeInv, DiskInv, [Next]_vars PROVE DiskInv'
      OBVIOUS
    <2>0. op \in [Proc -> Frame]
      BY DEF TypeInv, TypeOK
    <2>1. ASSUME NEW p \in Proc, Start(p) PROVE DiskInv'
      <3>1. PICK call \in BindCall, v \in VM, d \in Disk \cup {NoDisk} :
              Begin(p, call, v, d)
        BY <2>1 DEF Start
      <3>2. /\ OthersSame(p) /\ op[p].at = "idle"
            /\ op'[p].call = call /\ op'[p].vm = v /\ op'[p].at = First[call]
            /\ UNCHANGED <<diskDir, mounted, lost>>
        BY <3>1, <2>0, StartFrame DEF Begin, Busy, host
      <3>3. MountsAlone'
        BY <3>1, <3>2 DEF Begin, Admitted, DiskInv, MountsAlone, OthersSame
      <3>4. Unmounting(op[p])'
        BY <3>2 DEF Unmounting, First
      <3>5. \A q \in Proc : Unmounting(op[q])'
        BY <3>2, <3>4, OthersUnmounting
      <3> QED BY <3>2, <3>3, <3>5 DEF DiskInv
    <2>2. ASSUME NEW p \in Proc, Command(p) PROVE DiskInv'
      BY <2>2, CommandDisks
    <2>3. ASSUME NEW p \in Proc, Return(p) \/ Crash(p) PROVE DiskInv'
      <3>1. /\ OthersSame(p) /\ op'[p].at = "idle"
            /\ UNCHANGED <<diskDir, mounted, lost>>
        BY <2>0, <2>3, IdleOp DEF Return, Crash, host
      <3>2. \A q \in Proc : Unmounting(op[q])'
        BY <3>1, OthersUnmounting DEF Unmounting
      <3> QED BY <3>1, <3>2 DEF DiskInv, MountsAlone, OthersSame
    <2>4. ASSUME NEW v \in VM,
                 ContainerUp(v) \/ ContainerGone(v) \/ ContainerMounts(v)
          PROVE  DiskInv'
      BY <2>4 DEF ContainerUp, ContainerGone, ContainerMounts, host,
                  DiskInv, MountsAlone, Unmounting
    <2>5. CASE Reboot
      <3>1. mounted' = {} /\ \A p \in Proc : op'[p] = IdleFrame
        BY <2>5 DEF Reboot
      <3> QED
        BY <2>5, <3>1 DEF Reboot, IdleFrame, DiskInv, MountsAlone, Unmounting
    <2>6. CASE UNCHANGED vars
      BY <2>6 DEF vars, DiskInv, MountsAlone, Unmounting
    <2> QED BY <2>1, <2>2, <2>3, <2>4, <2>5, <2>6 DEF Next
  <1> QED BY <1>1, <1>2, TypeInvariant, PTL DEF Spec

\* RemoveAll never runs through a mounted disk, as long as no MountPersistent
\* escapes the director's lock: deletions and detaches may overlap, commands
\* may fail, processes die and the host restart at any point.
THEOREM DisksKept ==
  ASSUME "MountPersistent" \notin Overlap
  PROVE  Spec => []NoDiskLost
  <1>1. DiskInv => NoDiskLost
    BY DEF DiskInv, NoDiskLost
  <1> QED BY <1>1, DiskInvariant, PTL

=============================================================================
