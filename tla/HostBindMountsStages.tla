------------------------ MODULE HostBindMountsStages -------------------------
(***************************************************************************)
(* Which call of HostBindMounts meets which stage of its VM, and what      *)
(* follows: ephemeral directories can be removed, answers are true, and    *)
(* every call, taken as a whole, does what BindMounts says.                *)
(***************************************************************************)
EXTENDS HostBindMountsProofs

(***************************************************************************)
(* Calls and the stages of their VM.  A creation has its VM to itself, a   *)
(* deletion runs when the container is gone for good, and the container's  *)
(* mounts hang on a shared mount.                                          *)
(***************************************************************************)
During(call) ==
  IF call \in Makes THEN {"creating"}
  ELSE IF call \in Deletes THEN {"gone"} ELSE {"up", "gone"}

Staged(f) == f.at # "idle" => life[f.vm] \in During(f.call)

MakesAlone ==
  \A p, q \in Proc :
    /\ op[p].at # "idle" /\ op[p].call \in Makes
    /\ op[q].at # "idle" /\ op[q].call \in Makes /\ op[q].vm = op[p].vm
    => q = p

NestedShared ==
  \A v \in nested : root["eph"][v] = "shared" /\ life[v] \in {"up", "gone"}

StageInv ==
  /\ \A p \in Proc : Staged(op[p])
  /\ MakesAlone
  /\ NestedShared
  /\ EphemeralRemovable

\* What a command changes in the tables, and who it has to be.
LEMMA CommandRoot ==
  ASSUME TypeInv, NEW p \in Proc, Command(p)
  PROVE  /\ op[p].at \notin {"idle", "ok"} /\ op[p].vm \in VM /\ op[p].call \in BindCall
         /\ life' = life /\ nested' \subseteq nested
         /\ \A k \in Kind, v \in VM : root'[k][v] # root[k][v] =>
              /\ v = op[p].vm /\ k = KindOf(op[p].call)
              /\ \/ op[p].call \in Makes
                 \/ /\ op[p].call \in Deletes /\ root[k][v] # "absent"
                    /\ k = "eph" => v \notin nested' \/ root[k][v] \notin Propagation
                 \/ op[p].call = "MountPersistent" /\ root[k][v] = "absent"
  <1>0. Shape(op[p]) /\ root \in [Kind -> [VM -> RootState]]
    BY DEF TypeInv, TypeOK
  <1>a. op[p].at \notin {"idle", "ok"}
    BY DEF Command, Mkdir, MountFlag, Propagation, Exists, Glob, NextDisk,
           Umount, Remove, RemoveFails, CheckMounts, UmountDisk,
           UmountDiskFails, MkdirDisk, MountDisk, Fail
  <1> USE <1>0 DEF Shape
  <1>1. CASE Mkdir(p)
    BY <1>1 DEF Mkdir
  <1>2. CASE MountFlag(p)
    BY <1>2 DEF MountFlag, Propagation
  <1>3. CASE Exists(p) \/ Glob(p) \/ NextDisk(p) \/ CheckMounts(p)
             \/ RemoveFails(p) \/ UmountDisk(p) \/ UmountDiskFails(p)
             \/ MountDisk(p) \/ Fail(p)
    BY <1>3 DEF Exists, Glob, NextDisk, CheckMounts, RemoveFails, UmountDisk,
                UmountDiskFails, MountDisk, Fail, host
  <1>4. CASE Umount(p)
    <2>1. CASE UNCHANGED root
      BY <1>4, <2>1 DEF Umount, UnmountedTree
    <2>2. CASE /\ root[KindOf(op[p].call)][op[p].vm] \in Propagation
               /\ root' = [root EXCEPT ![KindOf(op[p].call)][op[p].vm] = "dir"]
               /\ nested' = UnmountedTree(KindOf(op[p].call), op[p].vm)
      BY <1>4, <2>2 DEF Umount, UnmountedTree, Propagation
    <2> QED BY <1>4, <2>1, <2>2 DEF Umount
  <1>5. CASE Remove(p)
    <2>1. CASE UNCHANGED root
      BY <1>5, <2>1 DEF Remove
    <2>2. CASE /\ root[KindOf(op[p].call)][op[p].vm] \notin Propagation
               /\ root' = [root EXCEPT ![KindOf(op[p].call)][op[p].vm] = "absent"]
      BY <1>5, <2>2 DEF Remove, Propagation
    <2> QED BY <1>5, <2>1, <2>2 DEF Remove
  <1>6. CASE MkdirDisk(p)
    BY <1>6 DEF MkdirDisk, KindOf, Kind
  <1> QED BY ONLY <1>1, <1>2, <1>3, <1>4, <1>5, <1>6, Command(p) DEF Command

LEMMA CommandStage ==
  ASSUME TypeInv, StageInv, NEW p \in Proc, Command(p)
  PROVE  StageInv'
  <1>0. /\ op \in [Proc -> Frame] /\ Shape(op[p]) /\ Staged(op[p])
        /\ nested \subseteq VM
    BY DEF TypeInv, TypeOK, StageInv
  <1>1. OthersSame(p) /\ SameCall(p)
    BY CommandFrame
  <1>2. (\A q \in Proc : Staged(op[q])') /\ MakesAlone'
    BY <1>1, CommandRoot DEF StageInv, Staged, MakesAlone, OthersSame, SameCall
  <1>3. NestedShared'
    <2> SUFFICES ASSUME NEW v \in nested'
                 PROVE  root'["eph"][v] = "shared" /\ life'[v] \in {"up", "gone"}
      BY DEF NestedShared
    <2>1. v \in VM /\ root["eph"][v] = "shared" /\ life'[v] \in {"up", "gone"}
      BY <1>0, CommandRoot DEF StageInv, NestedShared
    <2>2. root'["eph"][v] = root["eph"][v]
      <3> SUFFICES ASSUME root'["eph"][v] # root["eph"][v] PROVE FALSE
        OBVIOUS
      <3>1. v = op[p].vm /\ op[p].call \in Makes
        BY <2>1, CommandRoot DEF Kind, Propagation
      <3> QED BY <1>0, <2>1, <3>1, CommandRoot DEF Staged, During
    <2> QED BY <2>1, <2>2
  <1>4. op'[p].call = "DeleteEphemeral" /\ op'[p].at = "remove"
          => op'[p].vm \notin nested'
    <2> SUFFICES ASSUME op[p].call = "DeleteEphemeral", op'[p].at = "remove"
                 PROVE  op[p].vm \notin nested'
      BY <1>1 DEF SameCall
    <2> USE <1>0 DEF At, Step, Shape, Makes, Deletes
    <2>1. CASE Umount(p)
      <3>1. op[p].call = "DeleteEphemeral" => KindOf(op[p].call) = "eph"
        BY DEF KindOf
      <3>2. CASE op[p].vm \notin UnmountedTree("eph", op[p].vm)
                 /\ nested' = UnmountedTree("eph", op[p].vm)
        BY <3>2
      <3>3. CASE root["eph"][op[p].vm] = "dir" /\ UNCHANGED nested
        BY <3>3 DEF StageInv, NestedShared
      <3>4. op'[p].at # "err"
        OBVIOUS
      <3> QED BY <2>1, <3>1, <3>2, <3>3, <3>4, GotoFrame
             DEF Umount, UnmountedTree, Tolerated
    <2>2. CASE op[p].at = "remove"
      BY <2>2, CommandRoot DEF StageInv, EphemeralRemovable
    <2>3. CASE MountFlag(p) \/ Mkdir(p)
      BY <2>3 DEF MountFlag, Mkdir, Propagation
    <2>4. CASE Exists(p)
      BY <2>4, GotoFrame DEF Exists, AfterExists
    <2>5. CASE Glob(p) \/ NextDisk(p) \/ CheckMounts(p) \/ UmountDisk(p)
               \/ UmountDiskFails(p) \/ MkdirDisk(p) \/ MountDisk(p)
      BY <2>5 DEF Glob, NextDisk, CheckMounts, UmountDisk, UmountDiskFails,
                  MkdirDisk, MountDisk
    <2>6. CASE Fail(p)
      BY <2>6, GotoFrame DEF Fail
    <2> QED BY <2>1, <2>2, <2>3, <2>4, <2>5, <2>6
           DEF Command, Remove, RemoveFails
  <1>5. EphemeralRemovable'
    BY <1>1, <1>4, CommandRoot DEF StageInv, EphemeralRemovable, OthersSame
  <1> QED BY <1>2, <1>3, <1>5 DEF StageInv

LEMMA StageInvariant == Spec => []StageInv
  <1>1. Init => StageInv
    BY DEF Init, StageInv, Staged, MakesAlone, NestedShared, EphemeralRemovable,
           IdleFrame
  <1>2. TypeInv /\ StageInv /\ [Next]_vars => StageInv'
    <2> SUFFICES ASSUME TypeInv, StageInv, [Next]_vars PROVE StageInv'
      OBVIOUS
    <2>0. op \in [Proc -> Frame] /\ life \in [VM -> Life] /\ nested \subseteq VM
          /\ \A p \in Proc : Shape(op[p])
      BY DEF TypeInv, TypeOK
    <2> DEFINE Idling(q) == op'[q].at = "idle"
    <2>1. ASSUME NEW p \in Proc, Start(p) PROVE StageInv'
      <3>1. PICK call \in BindCall, v \in VM, d \in Disk \cup {NoDisk} :
              Begin(p, call, v, d)
        BY <2>1 DEF Start
      <3>2. /\ OthersSame(p) /\ op[p].at = "idle"
            /\ op'[p].call = call /\ op'[p].vm = v /\ op'[p].at = First[call]
            /\ UNCHANGED <<root, nested>>
            /\ life[v] = StageFor[call]
            /\ life' = IF call \in Makes THEN [life EXCEPT ![v] = "creating"] ELSE life
        BY <2>0, <3>1, StartFrame DEF Begin, Busy, host
      <3>3. \A q \in Proc : op[q].at # "idle" /\ op[q].vm = v /\ call \in Makes
              => FALSE
        BY <2>0, <3>2 DEF StageInv, Staged, During, StageFor, Makes
      <3>4. Staged(op[p])'
        BY <2>0, <3>2 DEF Staged, During, StageFor, Makes, Deletes, DiskCalls, BindCall
      <3>5. \A q \in Proc : Staged(op[q])'
        BY <2>0, <3>2, <3>3, <3>4 DEF StageInv, Staged, OthersSame, Shape
      <3>6. MakesAlone'
        BY <3>2, <3>3 DEF StageInv, MakesAlone, OthersSame
      <3>7. NestedShared'
        BY <2>0, <3>2 DEF StageInv, NestedShared, StageFor, Makes
      <3>8. EphemeralRemovable'
        BY <3>2 DEF StageInv, EphemeralRemovable, OthersSame, First, BindCall, Makes,
                    Deletes, DiskCalls
      <3> QED BY <3>5, <3>6, <3>7, <3>8 DEF StageInv
    <2>2. ASSUME NEW p \in Proc, Command(p) PROVE StageInv'
      BY <2>2, CommandStage
    <2>3. ASSUME NEW p \in Proc, Return(p) \/ Crash(p) PROVE StageInv'
      <3>1. /\ OthersSame(p) /\ op'[p].at = "idle"
            /\ UNCHANGED <<root, nested>>
        BY <2>0, <2>3, IdleOp DEF Return, Crash, host
      <3>2. \/ life' = life
            \/ /\ op[p].at # "idle" /\ op[p].call \in Makes /\ op[p].vm \in VM
               /\ \E stage : life' = [life EXCEPT ![op[p].vm] = stage]
        BY <2>0, <2>3 DEF Return, Crash, Shape
      <3>3. \A q \in Proc : q # p /\ op[q].at # "idle" => life'[op[q].vm] = life[op[q].vm]
        <4> SUFFICES ASSUME NEW q \in Proc, q # p, op[q].at # "idle",
                            op[q].vm = op[p].vm, op[p].at # "idle",
                            op[p].call \in Makes
                     PROVE  FALSE
          BY <2>0, <3>2 DEF Shape
        <4>1. life[op[p].vm] = "creating" /\ life[op[q].vm] \in During(op[q].call)
          BY DEF StageInv, Staged, During
        <4>2. op[q].call \in Makes
          BY <4>1 DEF During
        <4> QED BY <4>2 DEF StageInv, MakesAlone
      <3>4. \A v \in nested : life'[v] = life[v]
        BY <2>0, <3>2 DEF StageInv, Staged, NestedShared, During
      <3>5. (\A q \in Proc : Staged(op[q])') /\ MakesAlone'
        BY <3>1, <3>3 DEF StageInv, Staged, MakesAlone, OthersSame
      <3> QED BY <3>1, <3>4, <3>5 DEF StageInv, NestedShared, EphemeralRemovable,
                                      OthersSame
    <2>4. ASSUME NEW v \in VM,
                 ContainerUp(v) \/ ContainerGone(v) \/ ContainerMounts(v)
          PROVE  StageInv'
      <3>1. op' = op /\ root' = root
        BY <2>4 DEF ContainerUp, ContainerGone, ContainerMounts, host
      <3>2. \A q \in Proc : Staged(op[q])'
        BY <2>0, <2>4, <3>1 DEF ContainerUp, ContainerGone, ContainerMounts,
                                StageInv, Staged, During, Shape
      <3>3. NestedShared'
        BY <2>0, <2>4, <3>1 DEF ContainerUp, ContainerGone, ContainerMounts, host,
                                StageInv, NestedShared
      <3>4. EphemeralRemovable'
        BY <2>0, <2>4, <3>1 DEF ContainerUp, ContainerGone, ContainerMounts, host,
             StageInv, EphemeralRemovable, Staged, During, Makes, Deletes
      <3> QED BY <3>1, <3>2, <3>3, <3>4 DEF StageInv, MakesAlone
    <2>5. CASE Reboot
      <3>1. nested' = {} /\ \A p \in Proc : op'[p] = IdleFrame
        BY <2>5 DEF Reboot
      <3> QED BY <3>1 DEF IdleFrame, StageInv, Staged, MakesAlone, NestedShared,
                          EphemeralRemovable
    <2>6. CASE UNCHANGED vars
      BY <2>6 DEF vars, StageInv, Staged, MakesAlone, NestedShared, EphemeralRemovable
    <2> QED BY <2>1, <2>2, <2>3, <2>4, <2>5, <2>6 DEF Next
  <1> QED BY <1>1, <1>2, TypeInvariant, PTL DEF Spec

\* RemoveAll of an ephemeral directory starts with no mount left under it,
\* whatever calls overlap (fs_host_bind_mounts.go:84-98).
THEOREM NothingNested == Spec => []EphemeralRemovable
  <1>1. StageInv => EphemeralRemovable
    BY DEF StageInv
  <1> QED BY <1>1, StageInvariant, PTL

(***************************************************************************)
(* Where the directories and the disks are.  A directory with disks in it  *)
(* is there, the directories of a fresh VM are not there before their      *)
(* call, and a Make finds a directory that nobody has shared yet.          *)
(***************************************************************************)
Rooted ==
  /\ mounted \subseteq diskDir
  /\ \A v \in VM, d \in Disk : <<v, d>> \in diskDir => root["per"][v] # "absent"

Unmade ==
  \A v \in VM : /\ life[v] = "new" => root["eph"][v] = "absent"
                /\ life[v] \in {"new", "eph"} => root["per"][v] = "absent"

Making(f) ==
  /\ f.at # "idle" /\ f.call = "MakeEphemeral" => root["per"][f.vm] = "absent"
  /\ f.at \in {"mkdir", "bind", "unbindable"} => root[KindOf(f.call)][f.vm] # "shared"

PlaceInv == Rooted /\ Unmade /\ \A p \in Proc : Making(op[p])

\* Nobody touches the directories of a VM that another process is making.
LEMMA MakersUndisturbed ==
  ASSUME TypeInv, StageInv, NEW p \in Proc, Command(p),
         NEW q \in Proc, q # p, op[q].at # "idle", op[q].call \in Makes, NEW k \in Kind
  PROVE  root'[k][op[q].vm] = root[k][op[q].vm]
  <1> SUFFICES ASSUME root'[k][op[q].vm] # root[k][op[q].vm] PROVE FALSE
    OBVIOUS
  <1>1. /\ op[p].at # "idle" /\ op[q].vm = op[p].vm /\ op[p].vm \in VM
    BY CommandRoot DEF TypeInv, Shape
  <1>2. life[op[p].vm] = "creating" /\ life[op[p].vm] \in During(op[p].call)
    BY <1>1 DEF StageInv, Staged, During
  <1>3. op[p].call \in Makes
    BY <1>2 DEF During
  <1> QED BY <1>1, <1>3 DEF StageInv, MakesAlone

LEMMA CommandPlace ==
  ASSUME TypeInv, StageInv, PlaceInv, NEW p \in Proc, Command(p)
  PROVE  PlaceInv'
  <1>0. /\ op \in [Proc -> Frame] /\ Shape(op[p]) /\ Staged(op[p])
        /\ root \in [Kind -> [VM -> RootState]] /\ op[p].at # "idle"
        /\ op[p].vm \in VM /\ KindOf(op[p].call) \in Kind /\ life' = life
    BY CommandRoot DEF TypeInv, TypeOK, StageInv, KindOf, Kind
  <1>1. OthersSame(p) /\ SameCall(p) /\ Shape(op'[p])
    BY CommandFrame
  <1>2. Rooted'
    <2> USE <1>0 DEF PlaceInv, Rooted
    <2>1. CASE Mkdir(p) \/ MountFlag(p)
      BY <2>1 DEF Mkdir, MountFlag, Propagation, RootState, Kind
    <2>2. CASE Exists(p) \/ Glob(p) \/ NextDisk(p) \/ CheckMounts(p)
               \/ UmountDiskFails(p) \/ Fail(p)
      BY <2>2 DEF Exists, Glob, NextDisk, CheckMounts, UmountDiskFails, Fail, host
    <2>3. CASE Umount(p)
      <3>1. UNCHANGED <<diskDir, mounted>>
        BY <2>3 DEF Umount
      <3>2. root' = root \/ root' = [root EXCEPT ![KindOf(op[p].call)][op[p].vm] = "dir"]
        BY <2>3 DEF Umount
      <3> QED BY <3>1, <3>2 DEF Kind
    <2>4. ASSUME NEW done \in SUBSET Disk, Emptied(op[p].vm, done), mounted' = mounted
          PROVE  mounted' \subseteq diskDir' /\ diskDir' \subseteq diskDir
      BY <2>4 DEF Emptied
    <2>5. CASE RemoveFails(p)
      <3>1. mounted' \subseteq diskDir' /\ diskDir' \subseteq diskDir /\ root' = root
        BY <2>4, <2>5 DEF RemoveFails
      <3> QED BY <3>1
    <2>6. CASE Remove(p)
      <3>1. mounted' \subseteq diskDir' /\ diskDir' \subseteq diskDir
        BY <2>4, <2>6 DEF Remove
      <3>2. CASE root' = root
        BY <3>1, <3>2
      <3>3. CASE op[p].call = "DeleteEphemeral" /\ root' # root
        <4>1. root'["per"] = root["per"]
          BY <2>6, <3>3 DEF Remove, KindOf, Kind
        <4> QED BY <3>1, <4>1
      <3>4. CASE op[p].call = "DeletePersistent" /\ root' # root
        <4>1. /\ root' = [root EXCEPT !["per"][op[p].vm] = "absent"]
              /\ DisksIn(mounted, op[p].vm) = {} /\ Emptied(op[p].vm, Disk)
          BY <2>6, <3>4 DEF Remove, KindOf
        <4>2. \A d \in Disk : <<op[p].vm, d>> \notin diskDir'
          BY <4>1 DEF Emptied, DisksIn
        <4> QED BY <3>1, <4>1, <4>2 DEF Kind
      <3> QED BY <2>6, <3>2, <3>3, <3>4 DEF Remove, Shape, Deletes
    <2>7. CASE UmountDisk(p) \/ MountDisk(p)
      BY <2>7 DEF UmountDisk, MountDisk
    <2>8. CASE MkdirDisk(p)
      BY <2>8 DEF MkdirDisk, Kind
    <2> QED BY ONLY <2>1, <2>2, <2>3, <2>5, <2>6, <2>7, <2>8, Command(p) DEF Command
  <1>3. Unmade'
    <2> SUFFICES ASSUME NEW v \in VM, NEW k \in Kind, life[v] \in {"new", "eph"}
                 PROVE  root'[k][v] = root[k][v]
      BY <1>0 DEF PlaceInv, Unmade, Kind
    <2>1. op[p].vm # v
      BY <1>0 DEF Staged, During
    <2> QED BY <2>1, CommandRoot
  <1>4. \A q \in Proc : q # p => Making(op[q])'
    <2> SUFFICES ASSUME NEW q \in Proc, q # p PROVE Making(op[q])'
      OBVIOUS
    <2>1. op'[q] = op[q] /\ Making(op[q]) /\ Shape(op[q])
      BY <1>1 DEF OthersSame, PlaceInv, TypeInv
    <2>2. CASE op[q].at # "idle" /\ op[q].call \in Makes
      <3>1. \A k \in Kind : root'[k][op[q].vm] = root[k][op[q].vm]
        BY <2>2, MakersUndisturbed
      <3> QED BY <2>1, <3>1 DEF Making, KindOf, Kind
    <2>3. CASE ~(op[q].at # "idle" /\ op[q].call \in Makes)
      BY <2>1, <2>3 DEF Making, Shape, Makes
    <2> QED BY <2>2, <2>3
  <1>5. Making(op[p])'
    <2>1. ASSUME op[p].call = "MakeEphemeral" PROVE root'["per"][op[p].vm] = "absent"
      <3>1. root["per"][op[p].vm] = "absent" /\ KindOf(op[p].call) # "per"
        BY <1>0, <2>1 DEF PlaceInv, Making, KindOf
      <3> QED BY <1>0, <3>1, CommandRoot DEF Kind
    <2>2. ASSUME op'[p].at \in {"mkdir", "bind", "unbindable"}
          PROVE  root'[KindOf(op[p].call)][op[p].vm] # "shared"
      <3>1. op[p].call \in Makes
        BY <1>1, <2>2 DEF SameCall, Shape
      <3>2. CASE Mkdir(p)
        BY <1>0, <3>2 DEF Mkdir, PlaceInv, Making
      <3>3. CASE MountFlag(p)
        <4>1. op'[p].at = AfterFlag(op[p].call, op[p].at)
          BY <1>0, <3>3, GotoFrame DEF MountFlag, Propagation, AfterFlag, At, Step, Makes, Shape
        <4>2. op[p].at = "bind"
          BY <1>0, <2>2, <3>1, <3>3, <4>1 DEF MountFlag, Propagation, AfterFlag, Makes
        <4> QED BY <1>0, <3>3, <4>2 DEF MountFlag
      <3>4. CASE Fail(p)
        BY <1>0, <2>2, <3>4, GotoFrame DEF Fail, At
      <3>5. op[p].at \in {"mkdir", "bind", "unbindable", "shared"}
            => Mkdir(p) \/ MountFlag(p) \/ Fail(p)
        BY DEF Command, Mkdir, MountFlag, Propagation, Exists, Glob, NextDisk,
               Umount, Remove, RemoveFails, CheckMounts, UmountDisk,
               UmountDiskFails, MkdirDisk, MountDisk
      <3>6. op[p].at \in {"mkdir", "bind", "unbindable", "shared"}
        <4>1. op[p].at \in Step
          BY DEF Command, Mkdir, MountFlag, Propagation, Exists, Glob, NextDisk,
                 Umount, Remove, RemoveFails, CheckMounts, UmountDisk,
                 UmountDiskFails, MkdirDisk, MountDisk, Fail, Step
        <4> QED BY <1>0, <3>1, <4>1 DEF Step, Shape, Makes, Deletes
      <3> QED BY <3>2, <3>3, <3>4, <3>5, <3>6
    <2> QED BY <1>1, <2>1, <2>2 DEF Making, SameCall
  <1> QED BY <1>2, <1>3, <1>4, <1>5 DEF PlaceInv

LEMMA PlaceInvariant == Spec => []PlaceInv
  <1>1. Init => PlaceInv
    BY DEF Init, PlaceInv, Rooted, Unmade, Making, IdleFrame, Kind
  <1>2. TypeInv /\ StageInv /\ PlaceInv /\ [Next]_vars => PlaceInv'
    <2> SUFFICES ASSUME TypeInv, StageInv, PlaceInv, [Next]_vars PROVE PlaceInv'
      OBVIOUS
    <2>0. /\ op \in [Proc -> Frame] /\ life \in [VM -> Life]
          /\ \A p \in Proc : Shape(op[p])
      BY DEF TypeInv, TypeOK
    <2>1. ASSUME NEW p \in Proc, Start(p) PROVE PlaceInv'
      <3>1. PICK call \in BindCall, v \in VM, d \in Disk \cup {NoDisk} :
              Begin(p, call, v, d)
        BY <2>1 DEF Start
      <3>2. /\ OthersSame(p)
            /\ op'[p].call = call /\ op'[p].vm = v /\ op'[p].at = First[call]
            /\ UNCHANGED <<root, diskDir, mounted>>
            /\ life[v] = StageFor[call]
            /\ life' = IF call \in Makes THEN [life EXCEPT ![v] = "creating"] ELSE life
        BY <2>0, <3>1, StartFrame DEF Begin, host
      <3>3. Making(op[p])'
        BY <3>2 DEF PlaceInv, Unmade, Making, First, StageFor, KindOf,
                    BindCall, Makes, Deletes, DiskCalls
      <3>4. Unmade'
        BY <2>0, <3>2 DEF PlaceInv, Unmade
      <3> QED BY <3>2, <3>3, <3>4 DEF PlaceInv, Rooted, Making, OthersSame
    <2>2. ASSUME NEW p \in Proc, Command(p) PROVE PlaceInv'
      BY <2>2, CommandPlace
    <2>3. ASSUME NEW p \in Proc, Return(p) \/ Crash(p) PROVE PlaceInv'
      <3>1. /\ OthersSame(p) /\ op'[p].at = "idle"
            /\ UNCHANGED <<root, diskDir, mounted>>
        BY <2>0, <2>3, IdleOp DEF Return, Crash, host
      <3>2. Unmade'
        BY <2>0, <2>3, <3>1 DEF Return, Crash, PlaceInv, Unmade, Making, Shape, Makes
      <3> QED BY <3>1, <3>2 DEF PlaceInv, Rooted, Making, OthersSame
    <2>4. ASSUME NEW v \in VM,
                 ContainerUp(v) \/ ContainerGone(v) \/ ContainerMounts(v)
          PROVE  PlaceInv'
      <3>1. UNCHANGED <<op, root, diskDir, mounted>>
        BY <2>4 DEF ContainerUp, ContainerGone, ContainerMounts, host
      <3>2. Unmade'
        BY <2>0, <2>4, <3>1 DEF ContainerUp, ContainerGone, ContainerMounts,
                                PlaceInv, Unmade
      <3> QED BY <3>1, <3>2 DEF PlaceInv, Rooted, Making
    <2>5. CASE Reboot
      <3>1. /\ mounted' = {} /\ diskDir' = diskDir
            /\ \A p \in Proc : op'[p] = IdleFrame
            /\ \A k \in Kind, v \in VM : root'[k][v] = "absent" <=> root[k][v] = "absent"
            /\ \A v \in VM : life'[v] \in {"new", "eph"} => life[v] = life'[v]
        BY <2>0, <2>5 DEF Reboot, Life
      <3> QED BY <3>1 DEF PlaceInv, Rooted, Unmade, Making, IdleFrame, Kind
    <2>6. CASE UNCHANGED vars
      BY <2>6 DEF vars, PlaceInv, Rooted, Unmade, Making
    <2> QED BY <2>1, <2>2, <2>3, <2>4, <2>5, <2>6 DEF Next
  <1> QED BY <1>1, <1>2, TypeInvariant, StageInvariant, PTL DEF Spec

(***************************************************************************)
(* Answers are true.                                                       *)
(***************************************************************************)
\* Which disks a command mounts and unmounts.
LEMMA CommandMounts ==
  ASSUME TypeInv, NEW p \in Proc, Command(p)
  PROVE  \A v \in VM, d \in Disk :
           /\ <<v, d>> \in mounted' \ mounted =>
                /\ op[p].call = "MountPersistent" /\ v = op[p].vm /\ d = op[p].disk
           /\ <<v, d>> \in mounted \ mounted' =>
                /\ v = op[p].vm /\ d = op[p].disk
                /\ op[p].call \in {"DeletePersistent", "UnmountPersistent"}
  <1>1. Shape(op[p])
    BY DEF TypeInv
  <1>2. CASE UNCHANGED mounted
    BY <1>2
  <1>3. CASE UmountDisk(p)
    BY <1>1, <1>3 DEF UmountDisk, Shape
  <1>4. CASE MountDisk(p)
    BY <1>1, <1>4 DEF MountDisk, Shape
  <1> QED BY <1>2, <1>3, <1>4 DEF Command, Mkdir, MountFlag, Exists, Glob, NextDisk,
             Umount, Remove, RemoveFails, CheckMounts, UmountDiskFails, MkdirDisk,
             Fail, host

\* A command makes its own answer true.
LEMMA CommandAnswers ==
  ASSUME TypeInv, StageInv, PlaceInv, NEW p \in Proc, Command(p), op'[p].at = "ok"
  PROVE  Promised(op[p])'
  <1>0. /\ op \in [Proc -> Frame] /\ Shape(op[p]) /\ op[p].vm \in VM
        /\ op[p].call \in BindCall /\ op[p].at # "idle"
        /\ root \in [Kind -> [VM -> RootState]] /\ nested \subseteq VM
    BY CommandRoot DEF TypeInv, TypeOK
  <1>1. SameCall(p) /\ op'[p].call = op[p].call /\ op'[p].vm = op[p].vm
    BY CommandFrame DEF SameCall
  <1> USE DEF At, Step
  <1>2. CASE MountFlag(p)
    <2>1. /\ op[p].call \in Makes /\ op[p].at \in Propagation
          /\ op'[p].at = AfterFlag(op[p].call, op[p].at)
          /\ root' = [root EXCEPT ![KindOf(op[p].call)][op[p].vm] = op[p].at]
      BY <1>0, <1>2, GotoFrame DEF MountFlag, Propagation, AfterFlag, Makes, Shape
    <2>2. op[p].at = "shared"
      BY <2>1 DEF AfterFlag, Makes, Propagation
    <2> QED BY <1>0, <1>1, <2>1, <2>2 DEF Promised, KindOf, Kind, Makes
  <1>3. CASE Exists(p)
    <2>1. /\ op[p].call \in Deletes /\ root[KindOf(op[p].call)][op[p].vm] = "absent"
          /\ UNCHANGED <<root, nested, mounted>>
      <3>1. op'[p].at = IF root[KindOf(op[p].call)][op[p].vm] = "absent" THEN "ok"
                        ELSE AfterExists(KindOf(op[p].call))
        BY <1>0, <1>3, GotoFrame DEF Exists, AfterExists
      <3> QED BY <1>0, <1>3, <3>1 DEF Exists, AfterExists, Shape, host
    <2>2. CASE op[p].call = "DeleteEphemeral"
      BY <1>0, <1>1, <2>1, <2>2 DEF Promised, KindOf, Makes, StageInv, NestedShared
    <2>3. CASE op[p].call = "DeletePersistent"
      <3>1. \A d \in Disk : <<op[p].vm, d>> \notin mounted
        BY <1>0, <2>1, <2>3 DEF KindOf, PlaceInv, Rooted
      <3> QED BY <1>1, <2>1, <2>3, <3>1 DEF Promised, KindOf, Makes, DisksIn
    <2> QED BY <2>1, <2>2, <2>3 DEF Deletes
  <1>4. ASSUME op[p].at = "remove", Retry(p, "remove") PROVE FALSE
    BY <1>0, <1>4, GotoFrame, AgainFrame DEF Retry, TriesLeft, GiveUp
  <1>5. CASE Remove(p)
    <2>1. /\ op[p].call \in Deletes /\ UNCHANGED <<nested, mounted>>
          /\ ~(IF KindOf(op[p].call) = "eph" THEN op[p].vm \in nested
               ELSE DisksIn(mounted, op[p].vm) # {})
          /\ root' = [root EXCEPT ![KindOf(op[p].call)][op[p].vm] = "absent"]
      BY <1>0, <1>4, <1>5 DEF Remove, Shape
    <2>2. CASE op[p].call = "DeleteEphemeral"
      BY <1>0, <1>1, <2>1, <2>2 DEF Promised, KindOf, Makes, Kind
    <2>3. CASE op[p].call = "DeletePersistent"
      BY <1>0, <1>1, <2>1, <2>3 DEF Promised, KindOf, Makes, Kind, DisksIn
    <2> QED BY <2>1, <2>2, <2>3 DEF Deletes
  <1>6. CASE CheckMounts(p) \/ UmountDisk(p)
    <2>1. /\ op'[p].at = UnmountedAt(p) /\ <<op[p].vm, op[p].disk>> \notin mounted'
          /\ op'[p].disk = op[p].disk
      BY <1>0, <1>6, GotoFrame DEF CheckMounts, UmountDisk, UnmountedAt, host
    <2>2. op[p].call = "UnmountPersistent"
      BY <1>0, <1>6, <2>1 DEF CheckMounts, UmountDisk, UnmountedAt, Shape
    <2> QED BY <1>1, <2>1, <2>2 DEF Promised, Makes
  <1>7. CASE MountDisk(p)
    <2>1. /\ op[p].call = "MountPersistent" /\ op'[p].disk = op[p].disk
          /\ <<op[p].vm, op[p].disk>> \in mounted'
      BY <1>0, <1>7, GotoFrame DEF MountDisk, Shape
    <2> QED BY <1>1, <2>1 DEF Promised, Makes
  <1>8. ASSUME Goto(p, "bind") \/ Goto(p, "umount") \/ Goto(p, "mountDisk")
                 \/ Goto(p, "err") \/ Afresh(p, "remove") \/ Glob(p)
        PROVE  FALSE
    BY <1>0, <1>8, GotoFrame, AfreshFrame, GlobFrame
  <1>9. CASE NextDisk(p)
    <2>1. PICK d \in op[p].todo :
            op' = [op EXCEPT ![p].disk = d, ![p].todo = @ \ {d},
                             ![p].tries = 0, ![p].at = "check"]
      BY <1>8, <1>9 DEF NextDisk
    <2> QED BY <1>0, <2>1 DEF Frame
  <1>10. CASE UmountDiskFails(p)
    BY <1>0, <1>10, GotoFrame, AgainFrame DEF UmountDiskFails, Retry, TriesLeft, GiveUp
  <1> QED BY <1>2, <1>3, <1>4, <1>5, <1>6, <1>7, <1>8, <1>9, <1>10
         DEF Command, Mkdir, Umount, RemoveFails, MkdirDisk, Fail

\* And leaves the answers of others true.
LEMMA OthersAnswers ==
  ASSUME TypeInv, StageInv, DiskInv, AnswersTrue, NEW p \in Proc, Command(p),
         NEW q \in Proc, q # p, op[q].at = "ok"
  PROVE  Promised(op[q])'
  <1>1. /\ op'[q] = op[q] /\ Promised(op[q]) /\ Shape(op[q]) /\ Staged(op[q])
        /\ op[q].vm \in VM /\ op[q].call \in BindCall
    BY CommandFrame DEF OthersSame, AnswersTrue, TypeInv, StageInv, Shape
  <1>2. /\ op[p].at # "idle" /\ op[p].vm \in VM /\ nested' \subseteq nested
        /\ Staged(op[p])
    BY CommandRoot DEF StageInv
  <1>3. /\ op[p].call = "MountPersistent" => op[p].vm # op[q].vm
        /\ op[q].call = "MountPersistent" => op[p].vm # op[q].vm
    BY <1>1, <1>2 DEF DiskInv, MountsAlone
  <1>4. CASE op[q].call \in Makes
    BY <1>1, <1>4, MakersUndisturbed DEF Promised, KindOf, Kind, Makes
  <1>5. ASSUME op[q].call \in Deletes, NEW k \in Kind, root[k][op[q].vm] = "absent"
        PROVE  root'[k][op[q].vm] = "absent"
    <2> SUFFICES ASSUME root'[k][op[q].vm] # root[k][op[q].vm] PROVE FALSE
      BY <1>5
    <2>1. op[q].vm = op[p].vm /\ op[p].call \in Makes
      BY <1>1, <1>3, <1>5, CommandRoot
    <2> QED BY <1>1, <1>2, <1>5, <2>1 DEF Staged, During, Makes, Deletes
  <1>6. CASE op[q].call = "DeleteEphemeral"
    BY <1>1, <1>2, <1>5, <1>6 DEF Promised, Makes, Deletes, Kind
  <1>7. CASE op[q].call = "DeletePersistent"
    <2>1. root'["per"][op[q].vm] = "absent"
      BY <1>1, <1>5, <1>7 DEF Promised, Makes, Deletes, Kind
    <2>2. \A d \in Disk : <<op[q].vm, d>> \notin mounted
      BY <1>1, <1>7 DEF Promised, Makes, DisksIn
    <2>3. \A d \in Disk : <<op[q].vm, d>> \notin mounted'
      BY <1>1, <1>3, <2>2, CommandMounts
    <2> QED BY <1>1, <1>7, <2>1, <2>3 DEF Promised, Makes, DisksIn
  <1>8. CASE op[q].call \in DiskCalls
    <2>1. op[q].disk \in Disk
      BY <1>1, <1>8 DEF Shape
    <2> QED BY <1>1, <1>3, <1>8, <2>1, CommandMounts
           DEF Promised, Makes, DiskCalls
  <1> QED BY <1>1, <1>4, <1>6, <1>7, <1>8 DEF BindCall, Deletes

\* What a call reports done is what the host's tables show, beside calls that
\* overlap with it and after any retries, as long as no MountPersistent
\* escapes the lock (every "return nil" of fs_host_bind_mounts.go).
THEOREM AnswersAreTrue ==
  ASSUME "MountPersistent" \notin Overlap
  PROVE  Spec => []AnswersTrue
  <1>1. Init => AnswersTrue
    BY DEF Init, AnswersTrue, IdleFrame
  <1>2. TypeInv /\ StageInv /\ PlaceInv /\ DiskInv /\ AnswersTrue /\ [Next]_vars
        => AnswersTrue'
    <2> SUFFICES ASSUME TypeInv, StageInv, PlaceInv, DiskInv, AnswersTrue, [Next]_vars
                 PROVE  AnswersTrue'
      OBVIOUS
    <2>0. op \in [Proc -> Frame] /\ \A q \in Proc : Shape(op[q])
      BY DEF TypeInv, TypeOK
    <2> DEFINE Same == UNCHANGED <<root, nested, mounted>>
    <2>1. ASSUME Same, NEW q \in Proc, op'[q] = op[q], op[q].at = "ok"
          PROVE  Promised(op[q])'
      BY <2>1 DEF AnswersTrue, Promised, DisksIn
    <2>2. ASSUME NEW p \in Proc, Start(p) PROVE AnswersTrue'
      <3>1. PICK call \in BindCall, v \in VM, d \in Disk \cup {NoDisk} :
              Begin(p, call, v, d)
        BY <2>2 DEF Start
      <3>2. OthersSame(p) /\ op'[p].at = First[call] /\ Same
        BY <2>0, <3>1, StartFrame DEF Begin, host
      <3>3. First[call] # "ok"
        BY DEF First, BindCall, Makes, Deletes, DiskCalls
      <3> QED BY <2>1, <3>2, <3>3 DEF AnswersTrue, OthersSame
    <2>3. ASSUME NEW p \in Proc, Command(p) PROVE AnswersTrue'
      <3>1. ASSUME NEW q \in Proc, op'[q].at = "ok" PROVE Promised(op[q])'
        <4>1. CASE q = p
          BY <2>3, <3>1, <4>1, CommandAnswers
        <4>2. CASE q # p
          <5>1. op'[q] = op[q]
            BY <2>3, <4>2, CommandFrame DEF OthersSame
          <5> QED BY <2>3, <3>1, <4>2, <5>1, OthersAnswers
        <4> QED BY <4>1, <4>2
      <3> QED BY <3>1 DEF AnswersTrue
    <2>4. ASSUME NEW p \in Proc, Return(p) \/ Crash(p) PROVE AnswersTrue'
      <3>1. OthersSame(p) /\ op'[p].at = "idle" /\ Same
        BY <2>0, <2>4, IdleOp DEF Return, Crash, host
      <3> QED BY <2>1, <3>1 DEF AnswersTrue, OthersSame
    <2>5. ASSUME NEW v \in VM,
                 ContainerUp(v) \/ ContainerGone(v) \/ ContainerMounts(v)
          PROVE  AnswersTrue'
      <3>1. op' = op /\ UNCHANGED <<root, mounted>>
        BY <2>5 DEF ContainerUp, ContainerGone, ContainerMounts, host
      <3>2. ASSUME NEW q \in Proc, op[q].call = "DeleteEphemeral", op[q].at = "ok",
                   op[q].vm \notin nested
            PROVE  op[q].vm \notin nested'
        <4>1. life[op[q].vm] = "gone"
          BY <3>2 DEF StageInv, Staged, During, Makes, Deletes
        <4> QED BY <2>5, <3>2, <4>1
               DEF ContainerUp, ContainerGone, ContainerMounts, host
      <3>3. ASSUME NEW q \in Proc, op[q].at = "ok" PROVE Promised(op[q])'
        <4>1. Promised(op[q]) /\ op[q].call \in BindCall
          BY <2>0, <3>3 DEF AnswersTrue, Shape
        <4> QED BY <3>1, <3>2, <3>3, <4>1
               DEF Promised, DisksIn, BindCall, Makes, Deletes, DiskCalls
      <3> QED BY <3>1, <3>3 DEF AnswersTrue
    <2>6. CASE Reboot
      BY <2>6 DEF Reboot, IdleFrame, AnswersTrue
    <2>7. CASE UNCHANGED vars
      BY <2>7 DEF vars, AnswersTrue, Promised, DisksIn
    <2> QED BY <2>2, <2>3, <2>4, <2>5, <2>6, <2>7 DEF Next
  <1> QED BY <1>1, <1>2, TypeInvariant, StageInvariant, PlaceInvariant, DiskInvariant,
             PTL DEF Spec

(***************************************************************************)
(* The refinement.  Calls, Dirs and mounted are what the interface sees;   *)
(* the first lemmas state its actions over them.                           *)
(***************************************************************************)
Calls == [p \in Proc |-> CallOf(op[p])]
Dirs  == [k \in Kind |-> [v \in VM |-> DirOf(root[k][v])]]
Tables == [dir |-> Dirs, mounts |-> mounted]
Unseen == Calls' = Calls /\ Dirs' = Dirs /\ mounted' = mounted

In(call, v, d, at) == [call |-> call, vm |-> v, disk |-> d, at |-> at]
NoCall == In("none", NoVM, NoDisk, "idle")

\* The tables after the step are an outcome of the call.
Reached(call, v, d) ==
  \E after \in Interface!BindOutcomes(call, v, d, Tables) :
    Dirs' = after.dir /\ mounted' = after.mounts

LEMMA AbstractInit == Init => Interface!Init
  <1> SUFFICES ASSUME Init PROVE Interface!Init
    OBVIOUS
  <1>1. \A p \in Proc : CallOf(op[p]) = Interface!Idle
    BY DEF Init, IdleFrame, CallOf, DiskCalls, Interface!Idle
  <1>2. \A k \in Kind, v \in VM : DirOf(root[k][v]) = "none"
    BY DEF Init, DirOf
  <1>3. /\ Calls = [p \in Proc |-> Interface!Idle]
        /\ Dirs = [k \in Interface!Kind |-> [v \in VM |-> "none"]]
    BY <1>1, <1>2 DEF Calls, Dirs, Kind, Interface!Kind
  <1> QED BY <1>3 DEF Init, Interface!Init, Calls, Dirs

LEMMA AbstractBegin ==
  ASSUME NEW p \in Proc, NEW call \in BindCall, NEW v \in VM,
         NEW d \in Disk \cup {NoDisk}, Calls[p].at = "idle",
         Calls' = [Calls EXCEPT ![p] = In(call, v, d, "working")],
         Dirs' = Dirs, mounted' = mounted
  PROVE  Interface!Next
  <1>1. Interface!Begin(p, call, v, d)
    BY DEF In, Interface!Begin, Calls, Dirs
  <1>2. call \in Interface!BindCall
    BY DEF BindCall, Makes, Deletes, DiskCalls, Interface!BindCall,
           Interface!Makes, Interface!Deletes, Interface!DiskCalls
  <1> QED BY <1>1, <1>2 DEF Interface!Next

LEMMA AbstractWork ==
  ASSUME NEW p \in Proc, NEW call, NEW v, NEW d,
         Calls[p] = In(call, v, d, "working"), Calls' = Calls, Reached(call, v, d)
  PROVE  Interface!Next
  <1>1. /\ Calls[p].call = call /\ Calls[p].vm = v /\ Calls[p].disk = d
        /\ Calls[p].at = "working"
    BY DEF In
  <1>2. \E after \in Interface!BindOutcomes(call, v, d, Interface!Host) :
          Interface!Leaves(after)
    BY DEF Reached, Tables, Interface!Host, Interface!Leaves, Dirs
  <1>3. Interface!Work(p)
    BY <1>1, <1>2 DEF Interface!Work, Calls
  <1> QED BY <1>3 DEF Interface!Next

LEMMA AbstractGiveUp ==
  ASSUME NEW p \in Proc, NEW call, NEW v, NEW d,
         Calls[p] = In(call, v, d, "working"),
         Calls' = [Calls EXCEPT ![p] = In(call, v, d, "err")],
         Dirs' = Dirs, mounted' = mounted
  PROVE  Interface!Next
  <1>1. [Calls[p] EXCEPT !.at = "err"] = In(call, v, d, "err")
    BY DEF In
  <1>2. Calls' = [Calls EXCEPT ![p].at = "err"]
    BY <1>1
  <1>3. Calls[p].at = "working"
    BY DEF In
  <1>4. Interface!GiveUp(p)
    BY <1>2, <1>3 DEF Interface!GiveUp, Calls, Dirs
  <1> QED BY <1>4 DEF Interface!Next

LEMMA AbstractEnd ==
  ASSUME NEW p \in Proc, Calls[p].at # "idle",
         Calls' = [Calls EXCEPT ![p] = NoCall], Dirs' = Dirs, mounted' = mounted
  PROVE  Interface!Next
  <1>1. Interface!End(p)
    BY DEF Interface!End, Interface!Idle, NoCall, In, Calls, Dirs
  <1> QED BY <1>1 DEF Interface!Next

LEMMA AbstractReboot ==
  ASSUME Calls' = [p \in Proc |-> NoCall], mounted' = {},
         Dirs' = [k \in Kind |-> [v \in VM |->
                    IF Dirs[k][v] = "none" THEN "none" ELSE "partial"]]
  PROVE  Interface!Next
  <1>1. Interface!Reboot
    BY DEF Interface!Reboot, Interface!Idle, Interface!Kind, Kind, NoCall, In, Calls, Dirs
  <1> QED BY <1>1 DEF Interface!Next

\* What success of the call means of the tables after the step.
Achieved(call, v, d) ==
  CASE call \in Makes -> Dirs'[KindOf(call)][v] = "whole"
    [] call = "DeleteEphemeral" -> Dirs'["eph"][v] = "none"
    [] call = "DeletePersistent" ->
         Dirs'["per"][v] = "none" /\ {e \in mounted' : e[1] = v} = {}
    [] call = "MountPersistent"   -> <<v, d>> \in mounted' \ mounted
    [] call = "UnmountPersistent" -> <<v, d>> \notin mounted'

LEMMA AbstractSucceed ==
  ASSUME NEW p \in Proc, NEW call \in BindCall, NEW v, NEW d,
         Calls[p] = In(call, v, d, "working"),
         Calls' = [Calls EXCEPT ![p] = In(call, v, d, "ok")],
         Reached(call, v, d), Achieved(call, v, d)
  PROVE  Interface!Next
  <1>1. /\ Calls[p].call = call /\ Calls[p].vm = v /\ Calls[p].disk = d
        /\ Calls[p].at = "working"
    BY DEF In
  <1>2. [Calls[p] EXCEPT !.at = "ok"] = In(call, v, d, "ok")
    BY DEF In
  <1>3. Calls' = [Calls EXCEPT ![p].at = "ok"]
    BY <1>2
  <1>4. PICK after \in Interface!BindOutcomes(call, v, d, Tables) :
          Dirs' = after.dir /\ mounted' = after.mounts
    BY DEF Reached
  <1>5. Interface!BindDone(call, v, d, Tables, after)
    <2> USE DEF Interface!BindDone, Interface!Makes, Interface!KindOf,
                Interface!MountsOf, Achieved, KindOf, Makes, Tables
    <2>1. CASE call \in Makes
      BY <1>4, <2>1
    <2>2. CASE call \in Deletes
      BY <1>4, <2>2 DEF Deletes
    <2>3. CASE call \in DiskCalls
      BY <1>4, <2>3 DEF DiskCalls
    <2> QED BY <2>1, <2>2, <2>3 DEF BindCall
  <1>6. Tables = Interface!Host /\ Interface!Leaves(after)
    BY <1>4 DEF Tables, Interface!Host, Interface!Leaves, Dirs
  <1>7. Interface!Succeed(p)
    BY <1>1, <1>3, <1>4, <1>5, <1>6 DEF Interface!Succeed, Calls
  <1> QED BY <1>7 DEF Interface!Next

\* The outcomes of a call by what they do to the tables.
DirReaches(k, v, x) == Dirs' = [Dirs EXCEPT ![k][v] = x]

LEMMA SetDir ==
  ASSUME NEW k, NEW v, NEW x, NEW t, t = [dir |-> t.dir, mounts |-> t.mounts]
  PROVE  /\ [t EXCEPT !.dir[k][v] = x].dir = [t.dir EXCEPT ![k][v] = x]
         /\ [t EXCEPT !.dir[k][v] = x].mounts = t.mounts
  OBVIOUS

LEMMA ReachedUp ==
  ASSUME NEW call \in Makes, NEW v \in VM, NEW d, NEW x,
         DirReaches(KindOf(call), v, x), mounted' = mounted,
         x \in UpFrom(Dirs[KindOf(call)][v], DirState)
  PROVE  Reached(call, v, d)
  <1> DEFINE k == KindOf(call)
             after == [Tables EXCEPT !.dir[k][v] = x]
  <1>1. /\ after.dir = [Dirs EXCEPT ![k][v] = x] /\ after.mounts = mounted
    BY SetDir DEF Tables
  <1>2. x \in Interface!UpFrom(Dirs[k][v], Interface!DirState) /\ k = Interface!KindOf(call)
        /\ call \in Interface!Makes
    BY DEF UpFrom, DirState, Rank, Interface!UpFrom, Interface!DirState, Interface!Rank,
           KindOf, Interface!KindOf, Makes, Interface!Makes
  <1>3. after \in Interface!DirBecomes(Tables, k, v,
                    Interface!UpFrom(Dirs[k][v], Interface!DirState))
    BY <1>2 DEF Interface!DirBecomes
  <1>4. after \in Interface!BindOutcomes(call, v, d, Tables)
    BY <1>2, <1>3 DEF Interface!BindOutcomes, Tables, Interface!Makes
  <1> QED BY <1>1, <1>4 DEF Reached, DirReaches

LEMMA ReachedDown ==
  ASSUME NEW call \in Deletes, NEW v \in VM, NEW d, NEW x,
         DirReaches(KindOf(call), v, x), mounted' = mounted,
         x \in DownFrom(Dirs[KindOf(call)][v], DirState),
         call = "DeletePersistent" => {e \in mounted : e[1] = v} = {}
  PROVE  Reached(call, v, d)
  <1> DEFINE k == KindOf(call)
             states == Interface!DownFrom(Dirs[k][v], Interface!DirState)
  <1>1. x \in states /\ k = Interface!KindOf(call)
    BY DEF DownFrom, DirState, Rank, Interface!DownFrom, Interface!DirState,
           Interface!Rank, KindOf, Interface!KindOf
  <1>2. CASE call = "DeleteEphemeral"
    <2> DEFINE after == [Tables EXCEPT !.dir[k][v] = x]
    <2>1. after.dir = [Dirs EXCEPT ![k][v] = x] /\ after.mounts = mounted
      BY SetDir DEF Tables
    <2>2. after \in Interface!DirBecomes(Tables, k, v, states)
      BY <1>1 DEF Interface!DirBecomes
    <2>3. after \in Interface!BindOutcomes(call, v, d, Tables)
      BY <1>1, <1>2, <2>2 DEF Interface!BindOutcomes, Tables, Interface!Makes
    <2> QED BY <2>1, <2>3 DEF Reached, DirReaches
  <1>3. CASE call = "DeletePersistent"
    <2> DEFINE bare == [Tables EXCEPT !.mounts = @ \ Interface!MountsOf(Tables, v)]
               after == [bare EXCEPT !.dir[k][v] = x]
    <2>1. bare.dir = Dirs /\ bare.mounts = mounted
          /\ bare = [dir |-> bare.dir, mounts |-> bare.mounts]
      BY <1>3 DEF Tables, Interface!MountsOf
    <2>2. after.dir = [Dirs EXCEPT ![k][v] = x] /\ after.mounts = mounted
      <3> HIDE DEF bare
      <3> QED BY <2>1, SetDir
    <2>3. after \in Interface!DirBecomes(bare, k, v, states)
      BY <1>1 DEF Interface!DirBecomes
    <2>4. after \in Interface!BindOutcomes(call, v, d, Tables)
      BY <1>1, <1>3, <2>3 DEF Interface!BindOutcomes, Tables, Interface!Makes
    <2> QED BY <2>2, <2>4 DEF Reached, DirReaches
  <1> QED BY <1>2, <1>3 DEF Deletes

LEMMA ReachedUnmount ==
  ASSUME NEW call \in {"DeletePersistent", "UnmountPersistent"}, NEW v, NEW d,
         NEW b, Dirs' = Dirs, mounted' = mounted \ {<<v, b>>},
         call = "UnmountPersistent" => b = d
  PROVE  Reached(call, v, d)
  <1>1. CASE call = "UnmountPersistent"
    <2> DEFINE after == [Tables EXCEPT !.mounts = @ \ {<<v, d>>}]
    <2>1. after.dir = Dirs /\ after.mounts = mounted \ {<<v, d>>}
      BY DEF Tables
    <2>2. after \in Interface!BindOutcomes(call, v, d, Tables)
      BY <1>1 DEF Interface!BindOutcomes, Interface!Makes
    <2> QED BY <1>1, <2>1, <2>2 DEF Reached
  <1>2. CASE call = "DeletePersistent"
    <2> DEFINE gone == {<<v, b>>} \cap Interface!MountsOf(Tables, v)
               after == [Tables EXCEPT !.mounts = @ \ gone]
    <2>1. after.dir = Dirs /\ after.mounts = mounted \ {<<v, b>>}
      BY DEF Tables, Interface!MountsOf
    <2>2. gone \in SUBSET Interface!MountsOf(Tables, v)
      OBVIOUS
    <2>3. after \in Interface!BindOutcomes(call, v, d, Tables)
      <3> HIDE DEF gone
      <3> QED BY <1>2, <2>2 DEF Interface!BindOutcomes, Interface!Makes
    <2> QED BY <2>1, <2>3 DEF Reached
  <1> QED BY <1>1, <1>2

LEMMA ReachedMount ==
  ASSUME NEW v \in VM, NEW d, NEW x,
         x = IF Dirs["per"][v] = "none" THEN "partial" ELSE Dirs["per"][v],
         DirReaches("per", v, x),
         mounted' = mounted \/ mounted' = mounted \cup {<<v, d>>}
  PROVE  Reached("MountPersistent", v, d)
  <1> DEFINE made == [Tables EXCEPT !.dir["per"][v] = IF @ = "none" THEN "partial" ELSE @]
             both == [made EXCEPT !.mounts = @ \cup {<<v, d>>}]
  <1>1. made.dir = [Dirs EXCEPT !["per"][v] = x] /\ made.mounts = mounted
        /\ made = [dir |-> made.dir, mounts |-> made.mounts]
    BY DEF Tables
  <1>2. both.dir = made.dir /\ both.mounts = mounted \cup {<<v, d>>}
    BY <1>1
  <1>3. {made, both} \subseteq Interface!BindOutcomes("MountPersistent", v, d, Tables)
    BY DEF Interface!BindOutcomes, Interface!Makes, Interface!KindOf, Tables
  <1> QED BY <1>1, <1>2, <1>3 DEF Reached, DirReaches

(***************************************************************************)
(* What the interface sees of a step of one process.                       *)
(***************************************************************************)
LEMMA CallsMove ==
  ASSUME op \in [Proc -> Frame], op' \in [Proc -> Frame], NEW p \in Proc,
         OthersSame(p)
  PROVE  /\ Calls[p] = CallOf(op[p])
         /\ Calls' = [Calls EXCEPT ![p] = CallOf(op'[p])]
  <1>1. \A q \in Proc : CallOf(op[q])' = CallOf(op'[q])
    BY DEF CallOf
  <1>2. Calls' = [q \in Proc |-> CallOf(op'[q])]
    BY <1>1 DEF Calls
  <1> QED BY <1>2 DEF Calls, OthersSame

LEMMA DirsMove ==
  ASSUME root \in [Kind -> [VM -> RootState]], NEW k \in Kind, NEW v \in VM, NEW r,
         root' = [root EXCEPT ![k][v] = r]
  PROVE  DirReaches(k, v, DirOf(r)) /\ Dirs[k][v] = DirOf(root[k][v])
  BY DEF DirReaches, Dirs

LEMMA DirsAre ==
  ASSUME NEW r
  PROVE  /\ DirOf(r) \in DirState
         /\ DirOf(r) = "none" <=> r = "absent"
         /\ DirOf(r) = "whole" <=> r = "shared"
  BY DEF DirOf, DirState

LEMMA DirStates ==
  ASSUME NEW x \in DirState
  PROVE  /\ x \in UpFrom(x, DirState) /\ "whole" \in UpFrom(x, DirState)
         /\ x \in DownFrom(x, DirState) /\ "none" \in DownFrom(x, DirState)
         /\ x # "whole" => "partial" \in UpFrom(x, DirState)
         /\ x # "none" => "partial" \in DownFrom(x, DirState)
  BY DEF DirState, UpFrom, DownFrom, Rank

LEMMA DirsSame == root' = root => Dirs' = Dirs
  BY DEF Dirs

Phase(f) == IF f.at \in {"idle", "ok", "err"} THEN f.at ELSE "working"
SeenDisk(f) == IF f.call \in DiskCalls THEN f.disk ELSE NoDisk

LEMMA SeenCall ==
  ASSUME NEW f
  PROVE  CallOf(f) = In(f.call, f.vm, SeenDisk(f), Phase(f))
  BY DEF CallOf, In, SeenDisk, Phase

LEMMA CommandSeen ==
  ASSUME TypeInv, NEW p \in Proc, Command(p)
  PROVE  SeenDisk(op'[p]) = SeenDisk(op[p]) /\ op'[p].at # "idle"
  <1>0. op \in [Proc -> Frame] /\ Shape(op[p]) /\ SameCall(p)
    BY CommandFrame DEF TypeInv, TypeOK
  <1> USE DEF At, Step
  <1>1. ASSUME op'[p].disk = op[p].disk PROVE SeenDisk(op'[p]) = SeenDisk(op[p])
    BY <1>0, <1>1 DEF SeenDisk, SameCall
  <1>2. CASE NextDisk(p)
    <2>1. SeenDisk(op'[p]) = SeenDisk(op[p])
      BY <1>0, <1>2 DEF NextDisk, Shape, SeenDisk, SameCall, DiskCalls
    <2>2. op'[p].at # "idle"
      <3>1. CASE Goto(p, "umount")
        BY <1>0, <3>1, GotoFrame
      <3>2. CASE \E e \in op[p].todo :
                   op' = [op EXCEPT ![p].disk = e, ![p].todo = @ \ {e},
                                    ![p].tries = 0, ![p].at = "check"]
        BY <1>0, <3>2 DEF Frame
      <3> QED BY <1>2, <3>1, <3>2 DEF NextDisk
    <2> QED BY <2>1, <2>2
  <1>3. CASE Mkdir(p) \/ Exists(p) \/ Glob(p) \/ Remove(p) \/ RemoveFails(p)
    BY <1>0, <1>1, <1>3, GotoFrame, AgainFrame, GlobFrame
       DEF Mkdir, Exists, AfterExists, Remove, RemoveFails, Retry, TriesLeft, GiveUp
  <1>4. CASE MountFlag(p)
    <2>1. AfterFlag(op[p].call, op[p].at) \in At \ {"idle"}
      BY <1>0, <1>4 DEF MountFlag, Propagation, AfterFlag, Makes, Shape
    <2> QED BY <1>0, <1>1, <1>4, <2>1, GotoFrame DEF MountFlag
  <1>5. CASE Umount(p)
    BY <1>0, <1>1, <1>5, GotoFrame, AfreshFrame DEF Umount
  <1>6. CASE CheckMounts(p) \/ UmountDisk(p) \/ UmountDiskFails(p)
    BY <1>0, <1>1, <1>6, GotoFrame, AgainFrame
       DEF CheckMounts, UmountDisk, UmountDiskFails, UnmountedAt, Retry, TriesLeft, GiveUp
  <1>7. CASE MkdirDisk(p) \/ MountDisk(p) \/ Fail(p)
    BY <1>0, <1>1, <1>7, GotoFrame DEF MkdirDisk, MountDisk, Fail
  <1> QED BY <1>2, <1>3, <1>4, <1>5, <1>6, <1>7 DEF Command

\* Each command is a step of the interface, or one it does not see.
LEMMA CommandRefines ==
  ASSUME TypeInv, StageInv, PlaceInv, NEW p \in Proc, Command(p)
  PROVE  Interface!Next \/ Unseen
  <1> DEFINE f == op[p]
             g == op'[p]
             k == KindOf(f.call)
             d == SeenDisk(f)
  <1>0. /\ op \in [Proc -> Frame] /\ op' \in [Proc -> Frame] /\ OthersSame(p)
        /\ Shape(f) /\ g.call = f.call /\ g.vm = f.vm /\ f.vm \in VM /\ k \in Kind
        /\ f.at \notin {"idle", "ok", "err"} /\ g.at # "idle" /\ f.call \in BindCall
        /\ root \in [Kind -> [VM -> RootState]] /\ mounted \subseteq VM \X Disk
        /\ f.at \in At /\ g.at \in At /\ SeenDisk(g) = d
    <2>1. f.at \in Step
      BY DEF Command, Mkdir, MountFlag, Propagation, Exists, Glob, NextDisk,
             Umount, Remove, RemoveFails, CheckMounts, UmountDisk,
             UmountDiskFails, MkdirDisk, MountDisk, Fail, Step
    <2>2. op' \in [Proc -> Frame] /\ g.at # "idle"
      BY CommandFrame, CommandSeen
    <2> QED BY <2>1, <2>2, CommandFrame, CommandRoot, CommandSeen
           DEF TypeInv, TypeOK, SameCall, KindOf, Kind, Step, Frame
  <1>1. /\ Calls[p] = In(f.call, f.vm, d, "working")
        /\ Calls' = [Calls EXCEPT ![p] = In(f.call, f.vm, d, Phase(g))]
        /\ Phase(g) = "working" => Calls' = Calls
    <2>1. /\ CallOf(f) = In(f.call, f.vm, d, "working")
          /\ CallOf(g) = In(f.call, f.vm, d, Phase(g))
      BY <1>0, SeenCall DEF Phase
    <2>2. /\ Calls[p] = CallOf(f) /\ Calls' = [Calls EXCEPT ![p] = CallOf(g)]
      BY <1>0, CallsMove
    <2>3. CallOf(f) = CallOf(g) => Calls' = Calls
      BY <2>2 DEF Calls
    <2> QED BY <2>1, <2>2, <2>3
  <1>2. ASSUME g.at \notin {"ok", "err"}, Reached(f.call, f.vm, d) PROVE Interface!Next \/ Unseen
    BY <1>0, <1>1, <1>2, AbstractWork DEF Phase
  <1>3. ASSUME g.at = "ok", Reached(f.call, f.vm, d), Achieved(f.call, f.vm, d)
        PROVE  Interface!Next \/ Unseen
    BY <1>0, <1>1, <1>3, AbstractSucceed DEF Phase
  <1>4. ASSUME g.at # "ok", Dirs' = Dirs, mounted' = mounted PROVE Interface!Next \/ Unseen
    BY <1>0, <1>1, <1>4, AbstractGiveUp DEF Phase, Unseen

  <1>5. ASSUME NEW r \in RootState, root' = [root EXCEPT ![k][f.vm] = r]
        PROVE  /\ DirReaches(k, f.vm, DirOf(r)) /\ Dirs[k][f.vm] = DirOf(root[k][f.vm])
               /\ Dirs'[k][f.vm] = DirOf(r)
    <2>1. DirReaches(k, f.vm, DirOf(r)) /\ Dirs[k][f.vm] = DirOf(root[k][f.vm])
      BY <1>0, <1>5, DirsMove
    <2> QED BY <1>0, <2>1 DEF DirReaches, Dirs
  <1> HIDE DEF k, d
  <1>6. CASE Mkdir(p)
    <2>1. PICK r \in RootState : r = IF root[k][f.vm] = "absent" THEN "dir" ELSE root[k][f.vm]
      BY <1>0 DEF RootState
    <2>2. /\ f.call \in Makes /\ g.at = "bind" /\ mounted' = mounted
          /\ root' = [root EXCEPT ![k][f.vm] = r]
      BY <1>0, <1>6, <2>1, GotoFrame DEF Mkdir, Shape, At, Step, k
    <2>3. DirOf(r) \in UpFrom(Dirs[k][f.vm], DirState)
      <3>1. DirOf(r) = IF Dirs[k][f.vm] = "none" THEN "partial" ELSE Dirs[k][f.vm]
        BY <1>5, <2>1, <2>2 DEF DirOf
      <3>2. Dirs[k][f.vm] \in DirState
        BY <1>5, <2>1, <2>2, DirsAre
      <3> QED BY <3>1, <3>2, DirStates
    <2>4. Reached(f.call, f.vm, d)
      BY <1>0, <1>5, <2>2, <2>3, ReachedUp DEF k
    <2> QED BY <1>2, <2>2, <2>4
  <1>7. CASE MountFlag(p)
    <2>1. /\ f.call \in Makes /\ f.at \in Propagation /\ mounted' = mounted
          /\ g.at = AfterFlag(f.call, f.at) /\ f.at \in RootState
          /\ root' = [root EXCEPT ![k][f.vm] = f.at]
      BY <1>0, <1>7, GotoFrame DEF MountFlag, AfterFlag, Propagation, Makes, Shape,
                                   At, Step, RootState, k
    <2>2. f.at # "shared" => root[k][f.vm] # "shared"
      BY <2>1 DEF PlaceInv, Making, Propagation, k
    <2>3. DirOf(f.at) \in UpFrom(Dirs[k][f.vm], DirState)
      <3>1. /\ Dirs[k][f.vm] \in DirState
            /\ DirOf(f.at) = IF f.at = "shared" THEN "whole" ELSE "partial"
            /\ f.at # "shared" => Dirs[k][f.vm] # "whole"
        <4>1. Dirs[k][f.vm] = DirOf(root[k][f.vm])
          BY <1>5, <2>1
        <4> QED BY <2>1, <2>2, <4>1, DirsAre DEF Propagation, DirOf
      <3> QED BY <3>1, DirStates
    <2>4. Reached(f.call, f.vm, d)
      BY <1>0, <1>5, <2>1, <2>3, ReachedUp DEF k
    <2>5. CASE f.at = "shared"
      <3>1. g.at = "ok" /\ Dirs'[k][f.vm] = "whole"
        BY <1>5, <2>1, <2>5 DEF AfterFlag, DirOf
      <3> QED BY <1>3, <2>1, <2>4, <3>1 DEF Achieved, Makes, k
    <2>6. CASE f.at # "shared"
      <3>1. g.at \notin {"ok", "err"}
        BY <2>1, <2>6 DEF AfterFlag, Propagation, Makes
      <3> QED BY <1>2, <2>4, <3>1
    <2> QED BY <2>5, <2>6
  <1>8. ASSUME f.call \in Deletes, g.at = "ok", mounted' = mounted,
               root' = [root EXCEPT ![k][f.vm] = "absent"],
               f.call = "DeletePersistent" => \A e \in Disk : <<f.vm, e>> \notin mounted
        PROVE  Interface!Next \/ Unseen
    <2>1. /\ DirReaches(k, f.vm, "none") /\ Dirs'[k][f.vm] = "none"
          /\ Dirs[k][f.vm] = DirOf(root[k][f.vm])
      BY <1>5, <1>8 DEF RootState, DirOf
    <2>2. f.call = "DeletePersistent" => {e \in mounted : e[1] = f.vm} = {}
      BY <1>0, <1>8
    <2>3. Reached(f.call, f.vm, d)
      <3>1. "none" \in DownFrom(Dirs[k][f.vm], DirState)
        BY <2>1, DirsAre, DirStates
      <3> QED BY <1>0, <1>8, <2>1, <2>2, <3>1, ReachedDown DEF k
    <2>4. Achieved(f.call, f.vm, d)
      BY <1>8, <2>1, <2>2 DEF Achieved, Deletes, Makes, KindOf, k
    <2> QED BY <1>3, <1>8, <2>3, <2>4
  <1>9. CASE Exists(p)
    <2>1. /\ f.call \in Deletes /\ root' = root /\ mounted' = mounted
          /\ g.at = IF root[k][f.vm] = "absent" THEN "ok" ELSE AfterExists(k)
      BY <1>0, <1>9, GotoFrame DEF Exists, AfterExists, Shape, At, Step, host, k
    <2>2. CASE root[k][f.vm] = "absent"
      <3>1. f.call = "DeletePersistent" => \A e \in Disk : <<f.vm, e>> \notin mounted
        BY <1>0, <2>2 DEF PlaceInv, Rooted, KindOf, k
      <3>2. root' = [root EXCEPT ![k][f.vm] = "absent"]
        BY <1>0, <2>1, <2>2
      <3> QED BY <1>8, <2>1, <2>2, <3>1, <3>2
    <2>3. CASE root[k][f.vm] # "absent"
      <3>1. g.at # "ok"
        BY <2>1, <2>3 DEF AfterExists
      <3> QED BY <1>4, <2>1, <3>1, DirsSame
    <2> QED BY <2>2, <2>3
  <1>10. ASSUME g.at # "ok", root' = root, mounted' = mounted PROVE Interface!Next \/ Unseen
    BY <1>4, <1>10, DirsSame
  <1>11. CASE Glob(p)
    BY <1>0, <1>10, <1>11, GlobFrame DEF Glob, host
  <1>12. CASE NextDisk(p)
    <2>1. g.at # "ok"
      <3>1. CASE Goto(p, "umount")
        BY <1>0, <3>1, GotoFrame DEF At, Step
      <3>2. CASE \E e \in f.todo :
                   op' = [op EXCEPT ![p].disk = e, ![p].todo = @ \ {e},
                                    ![p].tries = 0, ![p].at = "check"]
        BY <1>0, <3>2 DEF Frame
      <3> QED BY <1>12, <3>1, <3>2 DEF NextDisk
    <2> QED BY <1>10, <1>12, <2>1 DEF NextDisk, host
  <1>13. CASE Umount(p)
    <2>1. f.call \in Deletes /\ g.at \in {"remove", "err"} /\ mounted' = mounted
      BY <1>0, <1>13, GotoFrame, AfreshFrame DEF Umount, Shape, At, Step
    <2>2. CASE root' = root
      BY <1>10, <2>1, <2>2
    <2>3. CASE root' # root
      <3>1. /\ root' = [root EXCEPT ![k][f.vm] = "dir"] /\ root[k][f.vm] \in Propagation
            /\ k = "per" => DisksIn(mounted, f.vm) = {} 
            /\ Afresh(p, "remove")
        BY <1>13, <2>3 DEF Umount, k
      <3>2. DirReaches(k, f.vm, "partial") /\ "partial" \in DownFrom(Dirs[k][f.vm], DirState)
        <4>1. DirReaches(k, f.vm, "partial")
          <5>1. "dir" \in RootState /\ DirOf("dir") = "partial"
            BY DEF RootState, DirOf
          <5> QED BY <1>5, <3>1, <5>1
        <4>2. Dirs[k][f.vm] \in DirState \ {"none"}
          <5>1. Dirs[k][f.vm] = DirOf(root[k][f.vm]) /\ root[k][f.vm] # "absent"
            BY <1>0, <3>1 DEF Dirs, Propagation
          <5> QED BY <5>1, DirsAre
        <4> QED BY <4>1, <4>2, DirStates
      <3>3. f.call = "DeletePersistent" => {e \in mounted : e[1] = f.vm} = {}
        BY <1>0, <3>1 DEF DisksIn, KindOf, k
      <3>4. Reached(f.call, f.vm, d)
        BY <1>0, <2>1, <3>2, <3>3, ReachedDown DEF k
      <3>5. g.at = "remove"
        BY <1>0, <3>1, AfreshFrame DEF At, Step
      <3> QED BY <1>2, <3>4, <3>5
    <2> QED BY <2>2, <2>3
  <1>14. ASSUME f.at = "remove", Retry(p, "remove") PROVE g.at # "ok"
    BY <1>0, <1>14, GotoFrame, AgainFrame DEF Retry, TriesLeft, GiveUp, At, Step
  <1>15. CASE Remove(p)
    <2>0. f.call \in Deletes /\ mounted' = mounted
      BY <1>0, <1>15 DEF Remove, Shape
    <2>1. CASE Retry(p, "remove") /\ root' = root
      BY <1>10, <1>14, <1>15, <2>0, <2>1 DEF Remove
    <2>2. CASE /\ ~(IF k = "eph" THEN f.vm \in nested ELSE DisksIn(mounted, f.vm) # {})
               /\ root' = [root EXCEPT ![k][f.vm] = "absent"] /\ Goto(p, "ok")
      <3>1. f.call = "DeletePersistent" => \A e \in Disk : <<f.vm, e>> \notin mounted
        BY <2>2 DEF DisksIn, KindOf, k
      <3>2. g.at = "ok"
        BY <1>0, <2>2, GotoFrame DEF At
      <3> QED BY <1>8, <2>0, <2>2, <3>1, <3>2
    <2> QED BY <1>15, <2>1, <2>2 DEF Remove, k
  <1>16. CASE RemoveFails(p)
    BY <1>10, <1>14, <1>16 DEF RemoveFails
  <1>17. ASSUME f.call \in {"DeletePersistent", "UnmountPersistent"},
                g.at = UnmountedAt(p), root' = root,
                mounted' = mounted \ {<<f.vm, f.disk>>}
         PROVE  Interface!Next \/ Unseen
    <2>1. Dirs' = Dirs
      BY <1>17, DirsSame
    <2>2. f.call = "UnmountPersistent" => f.disk = d
      BY DEF d, SeenDisk, DiskCalls
    <2>3. Reached(f.call, f.vm, d)
      BY <1>17, <2>1, <2>2, ReachedUnmount
    <2>4. CASE f.call = "UnmountPersistent"
      <3>1. g.at = "ok" /\ Achieved(f.call, f.vm, d)
        BY <1>17, <2>2, <2>4 DEF UnmountedAt, Achieved, Makes
      <3> QED BY <1>3, <2>3, <3>1
    <2>5. CASE f.call = "DeletePersistent"
      <3>1. g.at \notin {"ok", "err"}
        BY <1>17, <2>5 DEF UnmountedAt
      <3> QED BY <1>2, <2>3, <3>1
    <2> QED BY <1>17, <2>4, <2>5
  <1>18. CASE CheckMounts(p)
    <2>1. f.call \in {"DeletePersistent", "UnmountPersistent"}
          /\ root' = root /\ mounted' = mounted
      BY <1>0, <1>18 DEF CheckMounts, Shape, host
    <2>2. CASE <<f.vm, f.disk>> \in mounted
      <3>1. g.at = "umountDisk"
        BY <1>0, <1>18, <2>2, GotoFrame DEF CheckMounts, At, Step
      <3> QED BY <1>10, <2>1, <3>1
    <2>3. CASE <<f.vm, f.disk>> \notin mounted
      <3>1. g.at = UnmountedAt(p)
        BY <1>0, <1>18, <2>3, GotoFrame DEF CheckMounts, UnmountedAt, At, Step
      <3> QED BY <1>17, <2>1, <2>3, <3>1
    <2> QED BY <2>2, <2>3
  <1>19. CASE UmountDisk(p)
    <2>1. /\ f.call \in {"DeletePersistent", "UnmountPersistent"} /\ root' = root
          /\ g.at = UnmountedAt(p) /\ mounted' = mounted \ {<<f.vm, f.disk>>}
      BY <1>0, <1>19, GotoFrame DEF UmountDisk, UnmountedAt, Shape, At, Step
    <2> QED BY <1>17, <2>1
  <1>20. CASE UmountDiskFails(p)
    <2>1. g.at # "ok"
      BY <1>0, <1>20, GotoFrame, AgainFrame
         DEF UmountDiskFails, Retry, TriesLeft, GiveUp, At, Step
    <2> QED BY <1>10, <1>20, <2>1 DEF UmountDiskFails, host
  <1>21. CASE MkdirDisk(p)
    <2>1. PICK r \in RootState :
            r = IF root["per"][f.vm] = "absent" THEN "dir" ELSE root["per"][f.vm]
      BY <1>0 DEF RootState, Kind
    <2>2. /\ f.call = "MountPersistent" /\ g.at = "mountDisk" /\ mounted' = mounted
          /\ root' = [root EXCEPT !["per"][f.vm] = r] /\ k = "per"
      BY <1>0, <1>21, <2>1, GotoFrame DEF MkdirDisk, Shape, At, Step, KindOf, k
    <2>3. /\ DirReaches("per", f.vm, DirOf(r))
          /\ DirOf(r) = IF Dirs["per"][f.vm] = "none" THEN "partial"
                        ELSE Dirs["per"][f.vm]
      BY <1>5, <2>1, <2>2 DEF DirOf
    <2>4. Reached(f.call, f.vm, d)
      BY <1>0, <2>2, <2>3, ReachedMount
    <2> QED BY <1>2, <2>2, <2>4
  <1>22. CASE MountDisk(p)
    <2>1. /\ f.call = "MountPersistent" /\ root' = root /\ k = "per" /\ f.disk = d
          /\ f.disk \in Disk
      BY <1>0, <1>22 DEF MountDisk, Shape, KindOf, k, d, SeenDisk, DiskCalls
    <2>2. CASE mounted' = mounted /\ Goto(p, "err")
      BY <1>0, <1>10, <2>1, <2>2, GotoFrame DEF At
    <2>3. CASE /\ <<f.vm, f.disk>> \in diskDir \ mounted /\ Goto(p, "ok")
               /\ mounted' = mounted \cup {<<f.vm, f.disk>>}
      <3>1. g.at = "ok" /\ Achieved(f.call, f.vm, d)
        BY <1>0, <2>1, <2>3, GotoFrame DEF At, Achieved, Makes
      <3>2. Dirs["per"][f.vm] # "none" /\ DirReaches("per", f.vm, Dirs["per"][f.vm])
        <4>1. root["per"][f.vm] # "absent"
          BY <1>0, <2>1, <2>3 DEF PlaceInv, Rooted
        <4>2. Dirs["per"][f.vm] = DirOf(root["per"][f.vm])
          BY <1>0 DEF Dirs, Kind
        <4>3. Dirs' = Dirs
          BY <2>1, DirsSame
        <4>4. Dirs = [Dirs EXCEPT !["per"][f.vm] = Dirs["per"][f.vm]]
          BY DEF Dirs
        <4> QED BY <4>1, <4>2, <4>3, <4>4 DEF DirReaches, DirOf
      <3>3. Reached(f.call, f.vm, d)
        BY <1>0, <2>1, <2>3, <3>2, ReachedMount
      <3> QED BY <1>3, <3>1, <3>3
    <2> QED BY <1>22, <2>2, <2>3 DEF MountDisk
  <1>23. CASE Fail(p)
    BY <1>0, <1>10, <1>23, GotoFrame DEF Fail, At, host
  <1> QED
    BY <1>6, <1>7, <1>9, <1>11, <1>12, <1>13, <1>15, <1>16, <1>18, <1>19, <1>20,
       <1>21, <1>22, <1>23 DEF Command

\* Taken as a whole, every call does what vm/interfaces.go promises of it,
\* whichever calls overlap on a VM: it works in one direction and only on its
\* own VM, takes the persistent directory down after the disks in it, and
\* succeeds in the command that completes its work, through failing commands,
\* dying processes and restarts of the host.
THEOREM BindMountsImplemented == Spec => ImplementsBindMounts
  <1>1. Init => Interface!Init
    BY AbstractInit
  <1>2. TypeInv /\ StageInv /\ PlaceInv /\ TypeInv' /\ [Next]_vars
        => [Interface!Next]_(Interface!vars)
    <2> SUFFICES ASSUME TypeInv, StageInv, PlaceInv, TypeInv', [Next]_vars
                 PROVE  Interface!Next \/ Unseen
      BY DEF Interface!vars, Unseen, Calls, Dirs
    <2>0. /\ op \in [Proc -> Frame] /\ op' \in [Proc -> Frame]
          /\ root \in [Kind -> [VM -> RootState]]
      BY DEF TypeInv, TypeOK
    <2>1. CallOf(IdleFrame) = NoCall
      BY DEF CallOf, IdleFrame, NoCall, In, DiskCalls
    <2>2. ASSUME NEW p \in Proc, Start(p) PROVE Interface!Next \/ Unseen
      <3>1. PICK call \in BindCall, v \in VM, d \in Disk \cup {NoDisk} :
              Begin(p, call, v, d)
        BY <2>2 DEF Start
      <3>2. PICK f : f = [call |-> call, vm |-> v, disk |-> d, at |-> First[call],
                          todo |-> {}, tries |-> 0]
        OBVIOUS
      <3>3. /\ op' = [op EXCEPT ![p] = f] /\ OthersSame(p)
            /\ op[p].at = "idle" /\ root' = root /\ mounted' = mounted
            /\ d = NoDisk <=> call \notin DiskCalls
        BY <2>0, <3>1, <3>2, StartFrame DEF Begin, Busy, host
      <3>4. CallOf(f) = In(call, v, d, "working")
        BY <3>2, <3>3 DEF CallOf, In, First, BindCall, Makes, Deletes, DiskCalls
      <3>5. /\ Calls[p].at = "idle"
            /\ Calls' = [Calls EXCEPT ![p] = In(call, v, d, "working")]
        <4>1. Calls[p] = CallOf(op[p]) /\ Calls' = [Calls EXCEPT ![p] = CallOf(f)]
          BY <2>0, <3>3, CallsMove
        <4>2. CallOf(op[p]).at = "idle"
          BY <3>3 DEF CallOf
        <4> QED BY <3>4, <4>1, <4>2
      <3> QED BY <3>3, <3>5, DirsSame, AbstractBegin
    <2>3. ASSUME NEW p \in Proc, Command(p) PROVE Interface!Next \/ Unseen
      BY <2>3, CommandRefines
    <2>4. ASSUME NEW p \in Proc, Return(p) \/ Crash(p)
          PROVE  Interface!Next \/ Unseen
      <3>1. /\ OthersSame(p) /\ op'[p] = IdleFrame /\ op[p].at # "idle"
            /\ root' = root /\ mounted' = mounted
        BY <2>0, <2>4, IdleOp DEF Return, Crash, Busy, host
      <3>2. /\ Calls[p] = CallOf(op[p]) /\ Calls' = [Calls EXCEPT ![p] = NoCall]
        BY <2>0, <2>1, <3>1, CallsMove
      <3>3. Calls[p].at # "idle"
        BY <3>1, <3>2 DEF CallOf
      <3> QED BY <3>1, <3>2, <3>3, DirsSame, AbstractEnd
    <2>5. ASSUME NEW v \in VM,
                 ContainerUp(v) \/ ContainerGone(v) \/ ContainerMounts(v)
          PROVE  Unseen
      BY <2>5 DEF ContainerUp, ContainerGone, ContainerMounts, host,
                  Unseen, Calls, CallOf, Dirs
    <2>6. CASE Reboot
      <3>1. /\ op' = [p \in Proc |-> IdleFrame] /\ mounted' = {}
            /\ root' = [k \in Kind |-> [v \in VM |->
                          IF root[k][v] = "absent" THEN "absent" ELSE "dir"]]
        BY <2>6 DEF Reboot
      <3>2. Calls' = [p \in Proc |-> NoCall]
        <4>1. Calls' = [p \in Proc |-> CallOf(op'[p])]
          BY DEF Calls, CallOf
        <4> QED BY <2>1, <3>1, <4>1
      <3>3. Dirs' = [k \in Kind |-> [v \in VM |->
                       IF Dirs[k][v] = "none" THEN "none" ELSE "partial"]]
        <4>1. Dirs' = [k \in Kind |-> [v \in VM |-> DirOf(root'[k][v])]]
          BY DEF Dirs
        <4>2. \A k \in Kind, v \in VM :
                DirOf(root'[k][v]) = IF Dirs[k][v] = "none" THEN "none" ELSE "partial"
          BY <3>1 DEF Dirs, DirOf
        <4> QED BY <4>1, <4>2
      <3> QED BY <3>1, <3>2, <3>3, AbstractReboot
    <2>7. CASE UNCHANGED vars
      BY <2>7 DEF vars, Unseen, Calls, CallOf, Dirs
    <2> QED BY <2>2, <2>3, <2>4, <2>5, <2>6, <2>7 DEF Next
  <1> QED BY <1>1, <1>2, TypeInvariant, StageInvariant, PlaceInvariant, PTL
          DEF Spec, ImplementsBindMounts, Interface!Spec
=============================================================================
