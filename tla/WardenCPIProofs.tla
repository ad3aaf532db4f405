-------------------------- MODULE WardenCPIProofs --------------------------
(***************************************************************************)
(* Theorems about WardenCPI, for any number of VMs, disks, processes and   *)
(* faults.                                                                 *)
(***************************************************************************)
EXTENDS WardenCPI, FiniteSetTheorems, TLAPS

(***************************************************************************)
(* The frame of a process: what it still has to do is the end of the plan  *)
(* of its call, or what CleanUp made of it.                                *)
(***************************************************************************)
Frame == [call : Call \cup {"none"}, vm : VM \cup {NoVM},
          disk : Disk \cup {NoDisk}, todo : Seq(Operations),
          found : BOOLEAN, fetched : SUBSET Disk]

OnPlan(f) ==
  LET plan == Plan[f.call] IN
  /\ Len(f.todo) <= Len(plan)
  /\ \A i \in 1..Len(f.todo) :
       f.todo[i] = plan[Len(plan) - Len(f.todo) + i]

Aborted(f) ==
  \/ f.todo = <<"fail">>
  \/ f.todo = <<"stop", "fail">> /\ f.call = "create_vm"
  \/ f.todo = <<"cleanUpFile", "fail">> /\ f.call = "create_disk"

Shape(f) == IF f.call = "none" THEN f = IdleFrame
            ELSE <<f.call, f.vm, f.disk>> \in Target /\ (OnPlan(f) \/ Aborted(f))

\* A call that has not failed has done operation s of its plan.
Did(f, s) == \A i \in 1..Len(f.todo) : f.todo[i] \notin {s, "fail"}

TypeInv ==
  /\ op \in [Proc -> Frame] /\ \A p \in Proc : Shape(op[p])
  /\ TypeOK

(***************************************************************************)
(* The director: its lock lets nothing but deletions overlap on a VM or a  *)
(* disk, so what it knew when it made a call is so until the answer.       *)
(***************************************************************************)
Apart(f, g) == /\ f.vm = g.vm => f.vm = NoVM
               /\ f.disk = g.disk => f.disk = NoDisk

Locked ==
  \A p, q \in Proc : p # q =>
    \/ Apart(op[p], op[q])
    \/ op[p].call = "delete_vm" /\ op[q].call = "delete_vm"

Nowhere(d) == \A w \in VM : belief[w][d] = "no"
Elsewhere(v, d) == \A w \in VM \ {v} : belief[w][d] = "no"

Staged(f) ==
  /\ f.call = "create_vm" => known[f.vm] = "creating"
  /\ f.call = "delete_vm" => known[f.vm] = "deleting"
  /\ f.call = "create_disk" => known[f.disk] = "creating"
  /\ f.call = "delete_disk" => known[f.disk] = "deleting" /\ Nowhere(f.disk)
  /\ f.call \in AttachCalls =>
       known[f.vm] = "known" /\ known[f.disk] = "known"
       /\ belief[f.vm][f.disk] = "unsure"
  /\ f.call = "attach_disk" => Elsewhere(f.vm, f.disk)

\* Of what has not been made the director believes nothing.
Unmade ==
  /\ \A v \in VM : known[v] \in {"fresh", "creating"} =>
       \A d \in Disk : belief[v][d] = "no"
  /\ \A d \in Disk : known[d] \in {"fresh", "creating"} => Nowhere(d)

DirectorInv == Locked /\ Unmade /\ \A p \in Proc : Staged(op[p])

(***************************************************************************)
(* Mounts: a disk is mounted only where the director takes it for attached *)
(* or does not know.                                                       *)
(***************************************************************************)
MountsBelieved ==
  \A v \in VM, d \in Disk : <<v, d>> \in mounts => belief[v][d] # "no"

MountsAlone ==
  \A v, w \in VM, d \in Disk :
    <<v, d>> \in mounts /\ <<w, d>> \in mounts => v = w

MountsInv == MountsBelieved /\ MountsAlone /\ MountedHasImage

(***************************************************************************)
(* What the operations of a call that are done have left behind.           *)
(***************************************************************************)
Created(f) ==
  f.call = "create_vm" =>
    /\ Did(f, "makeEphemeral") => dir["eph"][f.vm] = "whole"
    /\ Did(f, "makePersistent") => dir["per"][f.vm] = "whole"
    /\ Did(f, "forward") => rules[f.vm] = "all"
    /\ \A s \in SetUps : Did(f, s) => <<f.vm, s>> \in ready

Deleted(f) ==
  f.call = "delete_vm" =>
    /\ Did(f, "findVM") /\ ~f.found => container[f.vm] = "none"
    /\ Did(f, "destroy") => container[f.vm] = "none"
    /\ Did(f, "removeForwarded") => rules[f.vm] = "none"
    /\ Did(f, "deleteEphemeral") => dir["eph"][f.vm] = "none"
    /\ Did(f, "deletePersistent") =>
         dir["per"][f.vm] = "none" /\ \A d \in Disk : <<f.vm, d>> \notin mounts

Attached(f) ==
  /\ f.call \in AttachCalls /\ Did(f, "fetch") =>
       /\ f.vm \notin garbled
       /\ \/ Did(f, "update") \/ f.vm \in stale
          \/ f.fetched = env[f.vm] /\ late[f.vm] = {}
  /\ f.call = "attach_disk" =>
       /\ Did(f, "mount") => <<f.vm, f.disk>> \in mounts
       /\ Did(f, "update") => \A e \in Coming(f.vm) : f.disk \in e
  /\ f.call = "detach_disk" =>
       /\ Did(f, "unmount") => <<f.vm, f.disk>> \notin mounts
       /\ Did(f, "update") => \A e \in Coming(f.vm) : f.disk \notin e

\* The agent of a VM that is not made yet has been told of no disk.
Untold == \A v \in VM : known[v] \in {"fresh", "creating"} =>
            env[v] = {} /\ late[v] = {} /\ v \notin garbled

DeletionInv == \A p \in Proc : Deleted(op[p])
CreationInv == KnownIsComplete /\ \A p \in Proc : Created(op[p])
AttachmentInv == \A p \in Proc : Attached(op[p])
BeliefInv == BeliefTrue /\ Untold

(***************************************************************************)
(* Frames and plans.                                                       *)
(***************************************************************************)
LEMMA DidTail ==
  ASSUME NEW f, NEW g, NEW s, f.todo \in Seq(Operations), f.todo # <<>>,
         g.todo = Tail(f.todo)
  PROVE  /\ Did(f, s) => Did(g, s)
         /\ Did(g, s) => Did(f, s) \/ Head(f.todo) \in {s, "fail"}
  <1>1. /\ Len(f.todo) \in Nat /\ Len(f.todo) >= 1
        /\ Len(g.todo) = Len(f.todo) - 1
        /\ \A i \in 1..Len(g.todo) : g.todo[i] = f.todo[i + 1]
        /\ Head(f.todo) = f.todo[1]
    OBVIOUS
  <1>2. \A i \in 1..Len(g.todo) : i + 1 \in 1..Len(f.todo)
    BY <1>1
  <1>3. \A i \in 1..Len(f.todo) : i = 1 \/ i - 1 \in 1..Len(g.todo)
    BY <1>1
  <1>4. \A i \in 1..Len(f.todo) : i = 1 \/ f.todo[i] = g.todo[i - 1]
    BY <1>1, <1>3
  <1>5. Did(f, s) => Did(g, s)
    BY <1>1, <1>2 DEF Did
  <1>6. ASSUME Did(g, s), Head(f.todo) \notin {s, "fail"}
        PROVE  Did(f, s)
    BY <1>1, <1>3, <1>4, <1>6 DEF Did
  <1> QED BY <1>5, <1>6

LEMMA AbortedDid ==
  ASSUME NEW f, NEW s, Aborted(f)
  PROVE  ~Did(f, s)
  <1>1. f.todo = <<"fail">> => ~Did(f, s)
    <2> SUFFICES ASSUME f.todo = <<"fail">> PROVE ~Did(f, s)
      OBVIOUS
    <2>1. 1 \in 1..Len(f.todo) /\ f.todo[1] = "fail"
      OBVIOUS
    <2> QED BY <2>1 DEF Did
  <1>2. f.todo = <<"stop", "fail">> \/ f.todo = <<"cleanUpFile", "fail">> => ~Did(f, s)
    <2> SUFFICES ASSUME f.todo = <<"stop", "fail">> \/ f.todo = <<"cleanUpFile", "fail">>
                 PROVE ~Did(f, s)
      OBVIOUS
    <2>1. 2 \in 1..Len(f.todo) /\ f.todo[2] = "fail"
      OBVIOUS
    <2> QED BY <2>1 DEF Did
  <1> QED BY <1>1, <1>2 DEF Aborted

LEMMA SuccessDid ==
  ASSUME NEW f, NEW s, f.todo = <<>>
  PROVE  Did(f, s)
  BY DEF Did

LEMMA Plans ==
  /\ \A call \in Call : Plan[call] \in Seq(Operations) /\ Plan[call] # <<>>
  /\ Plan["create_vm"] = Creation /\ Plan["delete_vm"] = Deletion
  /\ Plan["attach_disk"] = Attachment /\ Plan["detach_disk"] = Detachment
  /\ Plan["create_disk"] = DiskCreation /\ Plan["delete_disk"] = DiskDeletion
  <1>1. /\ Plan["create_vm"] = Creation /\ Plan["delete_vm"] = Deletion
        /\ Plan["attach_disk"] = Attachment /\ Plan["detach_disk"] = Detachment
        /\ Plan["create_disk"] = DiskCreation /\ Plan["delete_disk"] = DiskDeletion
    BY DEF Plan
  <1>2. Creation \in Seq(Operations) /\ Len(Creation) = 10
    BY DEF Creation, Operations, SetUps
  <1>3. Deletion \in Seq(Operations) /\ Len(Deletion) = 5
    BY DEF Deletion, Operations, SetUps
  <1>4. Attachment \in Seq(Operations) /\ Len(Attachment) = 4
    BY DEF Attachment, Operations, SetUps
  <1>5. Detachment \in Seq(Operations) /\ Len(Detachment) = 4
    BY DEF Detachment, Operations, SetUps
  <1>6. DiskCreation \in Seq(Operations) /\ Len(DiskCreation) = 3
    BY DEF DiskCreation, Operations, SetUps
  <1>7. DiskDeletion \in Seq(Operations) /\ Len(DiskDeletion) = 1
    BY DEF DiskDeletion, Operations, SetUps
  <1> DEFINE Good(plan) == plan \in Seq(Operations) /\ plan # <<>>
  <1>8. ASSUME NEW plan \in Seq(Operations), Len(plan) \in {10, 5, 4, 3, 1}
        PROVE  Good(plan)
    BY <1>8
  <1>8a. \A plan \in Seq(Operations) : Len(plan) \in {10, 5, 4, 3, 1} => Good(plan)
    BY <1>8
  <1> HIDE DEF Good
  <1>8b. /\ Good(Creation) /\ Good(Deletion) /\ Good(Attachment)
         /\ Good(Detachment) /\ Good(DiskCreation) /\ Good(DiskDeletion)
    BY <1>2, <1>3, <1>4, <1>5, <1>6, <1>7, <1>8a
  <1>9. \A call \in Call : Good(Plan[call])
    BY <1>1, <1>8b DEF Call, VMCalls, AttachCalls, ImageCalls
  <1> QED BY <1>1, <1>9 DEF Good

\* The whole plan is to do when the call begins, and a step goes on along it.
LEMMA PlanBegins ==
  ASSUME NEW f, f.call \in Call, f.todo = Plan[f.call]
  PROVE  OnPlan(f)
  BY Plans DEF OnPlan

LEMMA PlanGoesOn ==
  ASSUME NEW f, NEW g, f.call \in Call, f.todo \in Seq(Operations), f.todo # <<>>,
         OnPlan(f), g.call = f.call, g.todo = Tail(f.todo)
  PROVE  OnPlan(g)
  <1> DEFINE plan == Plan[f.call]
  <1>0. plan \in Seq(Operations) /\ Len(plan) \in Nat
    BY Plans
  <1>1. /\ Len(f.todo) \in Nat /\ Len(f.todo) >= 1
        /\ Len(g.todo) = Len(f.todo) - 1
        /\ \A i \in 1..Len(g.todo) : g.todo[i] = f.todo[i + 1]
    OBVIOUS
  <1>2. /\ Len(f.todo) <= Len(plan)
        /\ \A i \in 1..Len(f.todo) : f.todo[i] = plan[Len(plan) - Len(f.todo) + i]
    BY DEF OnPlan
  <1> HIDE DEF plan
  <1>3. ASSUME NEW i \in 1..Len(g.todo)
        PROVE  g.todo[i] = plan[Len(plan) - Len(g.todo) + i]
    <2>1. i + 1 \in 1..Len(f.todo)
      BY <1>1
    <2>2. f.todo[i + 1] = plan[Len(plan) - Len(f.todo) + (i + 1)]
      BY <1>2, <2>1
    <2>3. PICK n, m, k \in Nat : n = Len(plan) /\ m = Len(f.todo) /\ k = i
      BY <1>0, <1>1
    <2>4. Len(g.todo) = m - 1 /\ m >= 1
      BY <1>1, <2>3
    <2>5. n - m + (k + 1) = n - (m - 1) + k
      BY <2>4
    <2>6. f.todo[i + 1] = plan[n - m + (k + 1)]
      BY <2>2, <2>3
    <2>7. f.todo[i + 1] = plan[Len(plan) - Len(g.todo) + i]
      BY <2>3, <2>4, <2>5, <2>6
    <2> QED BY <1>1, <2>7
  <1>4. Len(g.todo) <= Len(plan)
    BY <1>0, <1>1, <1>2
  <1> QED BY <1>3, <1>4 DEF OnPlan, plan

\* What is to do starts at some place n of the plan.
Placed(f, plan, n, size) ==
  /\ Head(f.todo) = plan[n]
  /\ \A i \in 1..Len(f.todo) : \E k \in n..size : f.todo[i] = plan[k]

LEMMA PlanPlace ==
  ASSUME NEW f \in Frame, f.todo # <<>>, OnPlan(f), NEW plan, NEW size \in Nat,
         Plan[f.call] = plan, Len(plan) = size
  PROVE  \E n \in 1..size : Placed(f, plan, n, size)
  <1>0. f.todo \in Seq(Operations)
    BY DEF Frame
  <1>1. /\ Len(f.todo) \in Nat /\ Len(f.todo) >= 1
        /\ Head(f.todo) = f.todo[1]
    BY <1>0
  <1>2. /\ Len(f.todo) <= size
        /\ \A i \in 1..Len(f.todo) : f.todo[i] = plan[size - Len(f.todo) + i]
    BY DEF OnPlan
  <1>3. PICK m \in Nat : m = Len(f.todo)
    BY <1>1
  <1>4. 1 <= m /\ m <= size
    BY <1>1, <1>2, <1>3
  <1>5. size - m + 1 \in 1..size
    BY <1>4
  <1>6. Head(f.todo) = plan[size - m + 1]
    <2>1. 1 \in 1..Len(f.todo)
      BY <1>1
    <2>2. f.todo[1] = plan[size - Len(f.todo) + 1]
      BY <1>2, <2>1
    <2> QED BY <1>1, <1>3, <2>2
  <1>7. ASSUME NEW i \in 1..Len(f.todo)
        PROVE  \E k \in (size - m + 1)..size : f.todo[i] = plan[k]
    <2>1. i \in 1..m /\ f.todo[i] = plan[size - m + i]
      BY <1>2, <1>3
    <2>2. size - m + i \in (size - m + 1)..size
      BY <1>4, <2>1
    <2> QED BY <2>1, <2>2
  <1> QED BY <1>5, <1>6, <1>7 DEF Placed

\* The operation a busy call does next, and what a deletion has done by then.
LEMMA NextOfCreation ==
  ASSUME NEW f \in Frame, Shape(f), f.call = "create_vm", f.todo # <<>>
  PROVE  Head(f.todo) \in {"findStemcell", "makeEphemeral", "makePersistent",
           "create", "info", "forward", "stop", "fail"} \cup SetUps
  <1>1. CASE OnPlan(f)
    <2>1. PICK n \in 1..10 : Placed(f, Creation, n, 10)
      <3>1. Len(Creation) = 10 /\ 10 \in Nat
        BY DEF Creation
      <3>2. Plan[f.call] = Creation
        BY Plans
      <3> QED BY <1>1, <3>1, <3>2, PlanPlace
    <2> QED BY <2>1 DEF Placed, Creation, SetUps
  <1>2. CASE Aborted(f)
    BY <1>2 DEF Aborted
  <1> QED BY <1>1, <1>2 DEF Shape

LEMMA NextOfDeletion ==
  ASSUME NEW f \in Frame, Shape(f), f.call = "delete_vm", f.todo # <<>>
  PROVE  /\ Head(f.todo) \in {"findVM", "destroy", "removeForwarded",
              "deleteEphemeral", "deletePersistent", "fail"}
         /\ Head(f.todo) = "destroy" => Did(f, "findVM")
         /\ Head(f.todo) \in {"deleteEphemeral", "deletePersistent"} =>
              Did(f, "destroy")
  <1>1. CASE OnPlan(f)
    <2>0. PICK n \in 1..5 : Placed(f, Deletion, n, 5)
      <3>1. Len(Deletion) = 5 /\ 5 \in Nat
        BY DEF Deletion
      <3>2. Plan[f.call] = Deletion
        BY Plans
      <3> QED BY <1>1, <3>1, <3>2, PlanPlace
    <2>1. /\ Head(f.todo) = Deletion[n]
          /\ \A i \in 1..Len(f.todo) : \E k \in n..5 : f.todo[i] = Deletion[k]
      BY <2>0 DEF Placed
    <2>2. /\ Deletion[1] = "findVM" /\ Deletion[2] = "destroy"
          /\ Deletion[3] = "removeForwarded" /\ Deletion[4] = "deleteEphemeral"
          /\ Deletion[5] = "deletePersistent"
      BY DEF Deletion
    <2>3. n \in {1, 2, 3, 4, 5} /\ \A k \in n..5 : k \in {1, 2, 3, 4, 5}
      OBVIOUS
    <2>4. Head(f.todo) = "destroy" => Did(f, "findVM")
      <3> SUFFICES ASSUME Head(f.todo) = "destroy" PROVE Did(f, "findVM")
        OBVIOUS
      <3>1. n = 2
        BY <2>1, <2>2, <2>3
      <3>2. \A k \in n..5 : Deletion[k] \notin {"findVM", "fail"}
        BY <2>2, <2>3, <3>1
      <3> QED BY <2>1, <3>2 DEF Did
    <2>5. Head(f.todo) \in {"deleteEphemeral", "deletePersistent"} =>
            Did(f, "destroy")
      <3> SUFFICES ASSUME Head(f.todo) \in {"deleteEphemeral", "deletePersistent"}
                   PROVE  Did(f, "destroy")
        OBVIOUS
      <3>1. n \in {4, 5}
        BY <2>1, <2>2, <2>3
      <3>2. \A k \in n..5 : Deletion[k] \notin {"destroy", "fail"}
        BY <2>2, <2>3, <3>1
      <3> QED BY <2>1, <3>2 DEF Did
    <2>6. Head(f.todo) \in {"findVM", "destroy", "removeForwarded",
            "deleteEphemeral", "deletePersistent"}
      BY <2>1, <2>2, <2>3
    <2> QED BY <2>4, <2>5, <2>6
  <1>2. CASE Aborted(f)
    BY <1>2 DEF Aborted
  <1> QED BY <1>1, <1>2 DEF Shape

LEMMA NextOfAttachCall ==
  ASSUME NEW f \in Frame, Shape(f), f.call \in AttachCalls, f.todo # <<>>
  PROVE  /\ Head(f.todo) \in {"findVM", "fetch", "update", "fail"} \cup
              IF f.call = "attach_disk" THEN {"mount"} ELSE {"unmount"}
         /\ Head(f.todo) \in {"mount", "unmount", "update"} => Did(f, "fetch")
         /\ Head(f.todo) = "update" =>
              Did(f, IF f.call = "attach_disk" THEN "mount" ELSE "unmount")
  <1> DEFINE plan == IF f.call = "attach_disk" THEN Attachment ELSE Detachment
             change == IF f.call = "attach_disk" THEN "mount" ELSE "unmount"
  <1>1. CASE OnPlan(f)
    <2>0. /\ plan[1] = "findVM" /\ plan[2] = "fetch" /\ plan[3] = change
          /\ plan[4] = "update" /\ Len(plan) = 4 /\ 4 \in Nat
      BY DEF Attachment, Detachment
    <2>0a. PICK n \in 1..4 : Placed(f, plan, n, 4)
      <3>1. Plan[f.call] = plan
        BY Plans DEF AttachCalls
      <3> HIDE DEF plan
      <3> QED BY <1>1, <2>0, <3>1, PlanPlace
    <2>1. /\ Head(f.todo) = plan[n]
          /\ \A i \in 1..Len(f.todo) : \E k \in n..4 : f.todo[i] = plan[k]
      BY <2>0a DEF Placed
    <2>2. change \in {"mount", "unmount"}
      OBVIOUS
    <2> HIDE DEF plan, change
    <2>3. n \in {1, 2, 3, 4} /\ \A k \in n..4 : k \in {1, 2, 3, 4}
      OBVIOUS
    <2>4. Head(f.todo) \in {"mount", "unmount", "update"} => Did(f, "fetch")
      <3> SUFFICES ASSUME Head(f.todo) \in {"mount", "unmount", "update"}
                   PROVE  Did(f, "fetch")
        OBVIOUS
      <3>1. n \in {3, 4}
        BY <2>0, <2>1, <2>3
      <3>2. \A k \in n..4 : plan[k] \notin {"fetch", "fail"}
        BY <2>0, <2>2, <2>3, <3>1
      <3> QED BY <2>1, <3>2 DEF Did
    <2>5. Head(f.todo) = "update" => Did(f, change)
      <3> SUFFICES ASSUME Head(f.todo) = "update" PROVE Did(f, change)
        OBVIOUS
      <3>1. n = 4
        BY <2>0, <2>1, <2>2, <2>3
      <3>2. \A k \in n..4 : plan[k] \notin {change, "fail"}
        BY <2>0, <2>2, <2>3, <3>1
      <3> QED BY <2>1, <3>2 DEF Did
    <2>6. Head(f.todo) \in {"findVM", "fetch", "update", change}
      BY <2>0, <2>1, <2>3
    <2> QED BY <2>4, <2>5, <2>6 DEF change
  <1>2. CASE Aborted(f)
    BY <1>2 DEF Aborted, AttachCalls
  <1> QED BY <1>1, <1>2 DEF Shape, AttachCalls

LEMMA NextOfImageCall ==
  ASSUME NEW f \in Frame, Shape(f), f.call \in ImageCalls, f.todo # <<>>
  PROVE  Head(f.todo) \in {"fail"} \cup
           IF f.call = "create_disk"
             THEN {"writeImage", "truncate", "mkfs", "cleanUpFile"}
             ELSE {"removeImage"}
  <1>1. CASE OnPlan(f) /\ f.call = "create_disk"
    <2>1. Len(DiskCreation) = 3 /\ 3 \in Nat
      BY DEF DiskCreation
    <2>2. Plan[f.call] = DiskCreation
      BY <1>1, Plans
    <2>3. PICK n \in 1..3 : Placed(f, DiskCreation, n, 3)
      BY <1>1, <2>1, <2>2, PlanPlace
    <2> QED BY <1>1, <2>3 DEF Placed, DiskCreation
  <1>2. CASE OnPlan(f) /\ f.call = "delete_disk"
    <2>1. Len(DiskDeletion) = 1
      BY DEF DiskDeletion
    <2>2. Plan[f.call] = DiskDeletion
      BY <1>2, Plans
    <2>3. PICK n \in 1..1 : Placed(f, DiskDeletion, n, 1)
      BY <1>2, <2>1, <2>2, PlanPlace
    <2> QED BY <1>2, <2>3 DEF Placed, DiskDeletion
  <1>3. CASE Aborted(f)
    BY <1>3 DEF Aborted, ImageCalls
  <1> QED BY <1>1, <1>2, <1>3 DEF Shape, ImageCalls

(***************************************************************************)
(* What an operation does to the frames.                                   *)
(***************************************************************************)
OthersSame(p) == \A q \in Proc : q # p => op'[q] = op[q]

Moves(p) ==
  LET f == op[p] g == op'[p] IN
  /\ op' \in [Proc -> Frame] /\ OthersSame(p) /\ Shape(g)
  /\ f.call # "none" /\ f.todo # <<>> /\ Head(f.todo) # "fail"
  /\ g.call = f.call /\ g.vm = f.vm /\ g.disk = f.disk
  /\ g.todo = Tail(f.todo) \/ Aborted(g)

\* The frame learns nothing; a step that fails cleans up or just fails.
Plainly(p) ==
  \/ Done(p)
  \/ Abort(p, <<"fail">>)
  \/ Abort(p, CleanUp(op[p].call, Head(op[p].todo)))

LEMMA MoveFrame ==
  ASSUME op \in [Proc -> Frame], NEW p \in Proc, NEW f \in Frame,
         op' = [op EXCEPT ![p] = f]
  PROVE  op' \in [Proc -> Frame] /\ OthersSame(p) /\ op'[p] = f
  BY DEF OthersSame

LEMMA IdleShape ==
  IdleFrame \in Frame /\ Shape(IdleFrame) /\ IdleFrame.call = "none"
  /\ IdleFrame.vm = NoVM /\ IdleFrame.disk = NoDisk /\ IdleFrame.todo = <<>>
  /\ IdleFrame.found = FALSE
  BY DEF IdleFrame, Frame, Shape

LEMMA BusyCall ==
  ASSUME NEW f \in Frame, Shape(f), f.todo # <<>>
  PROVE  f.call \in Call /\ (OnPlan(f) \/ Aborted(f))
  BY IdleShape DEF Frame, Shape

\* A step along the plan, or along the clean-up.
LEMMA TailShape ==
  ASSUME NEW f \in Frame, Shape(f), f.todo # <<>>, Head(f.todo) # "fail",
         NEW g \in Frame, g.call = f.call, g.vm = f.vm, g.disk = f.disk,
         g.todo = Tail(f.todo)
  PROVE  Shape(g)
  <1>1. /\ f.call \in Call /\ f.call # "none" /\ f.todo \in Seq(Operations)
        /\ <<f.call, f.vm, f.disk>> \in Target
    BY BusyCall, IdleShape DEF Frame, Shape, Call, VMCalls, AttachCalls, ImageCalls
  <1>2. CASE OnPlan(f)
    <2>1. OnPlan(g)
      BY <1>1, <1>2, PlanGoesOn
    <2> QED BY <1>1, <2>1 DEF Shape
  <1>3. CASE Aborted(f)
    <2>1. f.todo # <<"fail">>
      OBVIOUS
    <2>2. /\ Tail(<<"stop", "fail">>) = <<"fail">>
          /\ Tail(<<"cleanUpFile", "fail">>) = <<"fail">>
      OBVIOUS
    <2>3. f.todo = <<"stop", "fail">> \/ f.todo = <<"cleanUpFile", "fail">>
      BY <1>3, <2>1, Zenon DEF Aborted
    <2>4. g.todo = <<"fail">>
      BY <2>2, <2>3, Zenon
    <2> QED BY <1>1, <2>4 DEF Shape, Aborted
  <1> QED BY <1>2, <1>3, BusyCall

LEMMA AbortShape ==
  ASSUME NEW f \in Frame, Shape(f), f.todo # <<>>, NEW g \in Frame,
         g.call = f.call, g.vm = f.vm, g.disk = f.disk,
         g.todo = <<"fail">> \/ g.todo = CleanUp(f.call, Head(f.todo))
  PROVE  Shape(g) /\ Aborted(g)
  <1>1. f.call \in Call /\ f.call # "none" /\ <<f.call, f.vm, f.disk>> \in Target
    BY BusyCall, IdleShape DEF Shape, Call, VMCalls, AttachCalls, ImageCalls
  <1>2. Head(f.todo) \in {"info", "forward"} \cup SetUps => f.call = "create_vm"
    BY <1>1, NextOfDeletion, NextOfAttachCall, NextOfImageCall
       DEF Call, VMCalls, AttachCalls, ImageCalls, SetUps
  <1>3. Head(f.todo) \in {"truncate", "mkfs"} => f.call = "create_disk"
    BY <1>1, NextOfCreation, NextOfDeletion, NextOfAttachCall, NextOfImageCall
       DEF Call, VMCalls, AttachCalls, ImageCalls, SetUps
  <1>4. Aborted(g)
    BY <1>2, <1>3 DEF Aborted, CleanUp
  <1> QED BY <1>1, <1>4 DEF Shape

LEMMA PlainMoves ==
  ASSUME TypeInv, NEW p \in Proc, op[p].todo # <<>>, Head(op[p].todo) # "fail",
         Plainly(p)
  PROVE  /\ Moves(p)
         /\ op'[p].found = op[p].found /\ op'[p].fetched = op[p].fetched
  <1> DEFINE f == op[p]
             Goal == /\ Moves(p)
                     /\ op'[p].found = f.found /\ op'[p].fetched = f.fetched
  <1>0. op \in [Proc -> Frame] /\ f \in Frame /\ Shape(f) /\ f.call # "none"
    BY IdleShape DEF TypeInv, Shape
  <1>1. ASSUME NEW todo \in Seq(Operations), op' = [op EXCEPT ![p].todo = todo],
               \/ todo = Tail(f.todo) \/ todo = <<"fail">>
               \/ todo = CleanUp(f.call, Head(f.todo))
        PROVE  Goal
    <2> DEFINE g == [f EXCEPT !.todo = todo]
    <2>1. /\ g \in Frame /\ g.todo = todo /\ g.call = f.call /\ g.vm = f.vm
          /\ g.disk = f.disk /\ g.found = f.found /\ g.fetched = f.fetched
      BY <1>0 DEF Frame
    <2>2. op' = [op EXCEPT ![p] = g]
      BY <1>1
    <2> HIDE DEF g
    <2>3. op' \in [Proc -> Frame] /\ OthersSame(p) /\ op'[p] = g
      BY <1>0, <2>1, <2>2, MoveFrame
    <2>4. Shape(g) /\ (g.todo = Tail(f.todo) \/ Aborted(g))
      BY <1>0, <1>1, <2>1, TailShape, AbortShape
    <2> QED BY <1>0, <2>1, <2>3, <2>4 DEF Moves
  <1>2. /\ Tail(f.todo) \in Seq(Operations) /\ <<"fail">> \in Seq(Operations)
        /\ CleanUp(f.call, Head(f.todo)) \in Seq(Operations)
    <2>1. f.todo \in Seq(Operations)
      BY <1>0 DEF Frame
    <2>2. "fail" \in Operations /\ "stop" \in Operations /\ "cleanUpFile" \in Operations
      BY DEF Operations
    <2> QED BY <2>1, <2>2 DEF CleanUp
  <1>3. CASE Done(p)
    BY <1>1, <1>2, <1>3 DEF Done
  <1>4. CASE Abort(p, <<"fail">>)
    BY <1>1, <1>2, <1>4 DEF Abort
  <1>5. CASE Abort(p, CleanUp(f.call, Head(f.todo)))
    BY <1>1, <1>2, <1>5 DEF Abort
  <1> QED BY <1>3, <1>4, <1>5 DEF Plainly

Steady(p) == /\ Head(op[p].todo) # "findVM" => op'[p].found = op[p].found
             /\ Head(op[p].todo) # "fetch" => op'[p].fetched = op[p].fetched

LEMMA PlainOperations ==
  ASSUME NEW p \in Proc, Operation(p)
  PROVE  \/ FindVM(p) \/ Fetch(p)
         \/ op[p].todo # <<>> /\ Head(op[p].todo) # "fail" /\ Plainly(p)
  <1> DEFINE Goal == op[p].todo # <<>> /\ Head(op[p].todo) # "fail" /\ Plainly(p)
  <1>1. ASSUME Fail(p) PROVE Goal
    BY <1>1 DEF Fail, Plainly
  <1>2. ASSUME Look(p) PROVE Goal
    BY <1>2 DEF Look, At, Plainly
  <1>3. ASSUME NEW s, NEW call, s # "fail", BindStep(p, s, call) PROVE Goal
    BY <1>3 DEF BindStep, At, Plainly
  <1>4. ASSUME NEW s, NEW call, s # "fail", PortStep(p, s, call) PROVE Goal
    BY <1>4 DEF PortStep, At, Plainly
  <1>5. ASSUME MakeBindMounts(p) \/ DeleteEphemeral(p) \/ DeletePersistent(p)
        PROVE  Goal
    BY <1>3, <1>5 DEF MakeBindMounts, DeleteEphemeral, DeletePersistent
  <1>6. ASSUME Forward(p) \/ RemoveForwarded(p) PROVE Goal
    BY <1>4, <1>6 DEF Forward, RemoveForwarded
  <1>7. ASSUME CreateContainer(p) PROVE Goal
    BY <1>7 DEF CreateContainer, At, DoneOrLost, Plainly
  <1>8. ASSUME UploadEnv(p) \/ SaveMetadata(p) \/ StartAgent(p) PROVE Goal
    BY <1>8 DEF UploadEnv, SaveMetadata, StartAgent, SetUp, At, DoneOrLost, Plainly
  <1>9. ASSUME Stop(p) PROVE Goal
    BY <1>9 DEF Stop, At, Plainly
  <1>10. ASSUME Destroy(p) PROVE Goal
    BY <1>10 DEF Destroy, At, DoneOrLost, Plainly
  <1>11. ASSUME Mount(p) PROVE Goal
    BY <1>3, <1>11 DEF Mount, At, Plainly
  <1>12. ASSUME Unmount(p) PROVE Goal
    BY <1>3, <1>12 DEF Unmount, At, Plainly
  <1>13. ASSUME Update(p) PROVE Goal
    BY <1>13 DEF Update, At, DoneOrLost, Plainly
  <1>14. ASSUME BuildImage(p) PROVE Goal
    BY <1>14 DEF BuildImage, DoneOrLost, Plainly
  <1>15. ASSUME RemoveImage(p) PROVE Goal
    BY <1>15 DEF RemoveImage, At, DoneOrLost, Plainly
  <1>16. ASSUME CleanUpFile(p) PROVE Goal
    BY <1>16 DEF CleanUpFile, At, Plainly
  <1> HIDE DEF Goal
  <1>17. FindVM(p) \/ Fetch(p) \/ Goal
    BY <1>1, <1>2, <1>5, <1>6, <1>7, <1>8, <1>9, <1>10, <1>11, <1>12, <1>13,
       <1>14, <1>15, <1>16 DEF Operation
  <1> QED BY <1>17 DEF Goal

LEMMA TailIsSeq ==
  ASSUME NEW f \in Frame, f.todo # <<>>
  PROVE  Tail(f.todo) \in Seq(Operations)
  <1>1. f.todo \in Seq(Operations)
    BY DEF Frame
  <1> QED BY <1>1

LEMMA FindMoves ==
  ASSUME TypeInv, NEW p \in Proc, FindVM(p)
  PROVE  /\ Moves(p) /\ Steady(p)
         /\ Head(op[p].todo) = "findVM" /\ UNCHANGED <<world, director>>
         /\ op[p].call = "delete_vm" /\ ~op'[p].found => container[op[p].vm] = "none"
  <1> DEFINE f == op[p]
  <1>0. op \in [Proc -> Frame] /\ f \in Frame /\ Shape(f) /\ f.todo # <<>>
        /\ Head(f.todo) = "findVM"
    BY DEF TypeInv, FindVM, At
  <1>1. UNCHANGED <<world, director>>
    BY DEF FindVM
  <1>2. CASE container[f.vm] # "none"
    <2>0. PICK todo \in Seq(Operations) : todo = Tail(f.todo)
      BY <1>0, TailIsSeq
    <2> DEFINE g == [f EXCEPT !.todo = todo, !.found = TRUE]
    <2>1. /\ g \in Frame /\ g.todo = Tail(f.todo) /\ g.call = f.call /\ g.vm = f.vm
          /\ g.disk = f.disk /\ g.found = TRUE /\ g.fetched = f.fetched
      BY <1>0, <2>0 DEF Frame
    <2>2. op' = [op EXCEPT ![p] = g]
      BY <1>0, <1>2, <2>0 DEF FindVM
    <2> HIDE DEF g
    <2>3. op' \in [Proc -> Frame] /\ OthersSame(p) /\ op'[p] = g
      BY <1>0, <2>1, <2>2, MoveFrame
    <2>4. Shape(g)
      BY <1>0, <2>1, TailShape
    <2>5. f.call # "none"
      BY <1>0, IdleShape DEF Shape
    <2> QED BY <1>0, <1>1, <2>1, <2>3, <2>4, <2>5 DEF Moves, Steady
  <1>3. CASE container[f.vm] = "none"
    <2>1. Plainly(p)
      BY <1>0, <1>3 DEF FindVM, NotFound, Abort, Done, Plainly
    <2>2. Moves(p) /\ op'[p].found = f.found /\ op'[p].fetched = f.fetched
      BY <1>0, <2>1, PlainMoves
    <2> QED BY <1>0, <1>1, <1>3, <2>2 DEF Steady
  <1> QED BY <1>2, <1>3

\* What reads at most adds to the history of what was read too early.
WorldKept ==
  /\ UNCHANGED <<container, env, late, garbled, ready, dir, mounts, rules, image>>
  /\ stale \subseteq stale' /\ stale' \subseteq VM

LEMMA FetchMoves ==
  ASSUME TypeInv, NEW p \in Proc, Fetch(p)
  PROVE  /\ Moves(p) /\ Steady(p)
         /\ Head(op[p].todo) = "fetch" /\ WorldKept /\ UNCHANGED director
         /\ \/ Aborted(op'[p])
            \/ /\ op'[p].fetched = env[op[p].vm] /\ op[p].vm \notin garbled
               /\ late[op[p].vm] = {} \/ op[p].vm \in stale'
  <1> DEFINE f == op[p]
  <1>0. op \in [Proc -> Frame] /\ f \in Frame /\ Shape(f) /\ f.todo # <<>>
        /\ Head(f.todo) = "fetch"
    BY DEF TypeInv, Fetch, At
  <1>a. f.vm \in VM
    <2>1. f.call \in Call /\ f.call # "none"
      BY <1>0, BusyCall, IdleShape DEF Shape, Call, VMCalls, AttachCalls, ImageCalls
    <2>2. f.call \notin ImageCalls
      BY <1>0, NextOfImageCall
    <2> QED BY <1>0, <2>1, <2>2 DEF Shape, Target, Call, VMCalls, AttachCalls, ImageCalls
  <1>b. stale \subseteq VM
    BY DEF TypeInv, TypeOK
  <1>1. WorldKept /\ UNCHANGED director
    BY <1>a, <1>b DEF Fetch, WorldKept
  <1>2. CASE HasEnv(f.vm)
    <2>a. PICK todo \in Seq(Operations) : todo = Tail(f.todo)
      BY <1>0, TailIsSeq
    <2>0. f.vm \in VM /\ (late[f.vm] = {} \/ f.vm \in stale')
      BY <1>2, <1>a DEF Fetch
    <2>b. PICK fetched \in SUBSET Disk : fetched = env[f.vm]
      BY <2>0 DEF TypeInv, TypeOK
    <2> DEFINE g == [f EXCEPT !.todo = todo, !.fetched = fetched]
    <2>1. /\ g \in Frame /\ g.todo = Tail(f.todo) /\ g.call = f.call /\ g.vm = f.vm
          /\ g.disk = f.disk /\ g.found = f.found /\ g.fetched = env[f.vm]
      BY <1>0, <2>a, <2>b DEF Frame
    <2>2. op' = [op EXCEPT ![p] = g]
      BY <1>0, <1>2, <2>a, <2>b DEF Fetch
    <2> HIDE DEF g
    <2>3. op' \in [Proc -> Frame] /\ OthersSame(p) /\ op'[p] = g
      BY <1>0, <2>1, <2>2, MoveFrame
    <2>4. Shape(g)
      BY <1>0, <2>1, TailShape
    <2>5. f.call # "none"
      BY <1>0, IdleShape DEF Shape
    <2> QED BY <1>0, <1>1, <1>2, <2>0, <2>1, <2>3, <2>4, <2>5 DEF Moves, Steady, HasEnv
  <1>3. CASE ~HasEnv(f.vm)
    <2>1. Plainly(p)
      BY <1>0, <1>3 DEF Fetch, Plainly
    <2>2. Moves(p) /\ op'[p].found = f.found /\ op'[p].fetched = f.fetched
      BY <1>0, <2>1, PlainMoves
    <2>3. op'[p].todo = <<"fail">>
      BY <1>0, <1>3 DEF Fetch, Abort, Frame
    <2> QED BY <1>0, <1>1, <2>2, <2>3 DEF Steady, Aborted
  <1> QED BY <1>2, <1>3

LEMMA OperationMoves ==
  ASSUME TypeInv, NEW p \in Proc, Operation(p)
  PROVE  Moves(p) /\ Steady(p)
  BY PlainOperations, PlainMoves, FindMoves, FetchMoves DEF Steady

(***************************************************************************)
(* What an operation does to the world: first the calls of HostBindMounts  *)
(* and Ports, from D, M and R, then every operation.                       *)
(***************************************************************************)
LEMMA RankOrder ==
  /\ \A x \in DirState : UpFrom(x, DirState) \subseteq DirState
                         /\ DownFrom(x, DirState) \subseteq DirState
  /\ UpFrom("whole", DirState) = {"whole"} /\ DownFrom("none", DirState) = {"none"}
  /\ \A x \in RulesState : UpFrom(x, RulesState) \subseteq RulesState
                           /\ DownFrom(x, RulesState) \subseteq RulesState
  /\ DownFrom("none", RulesState) = {"none"}
  BY DEF UpFrom, DownFrom, Rank, DirState, RulesState

Hosts == [dir : [Kind -> [VM -> DirState]], mounts : SUBSET (VM \X Disk)]

LEMMA DirBecomesOne ==
  ASSUME NEW host \in Hosts, NEW k \in Kind, NEW v \in VM,
         NEW states \in SUBSET DirState, NEW h \in DirBecomes(host, k, v, states)
  PROVE  /\ h \in Hosts /\ h.mounts = host.mounts /\ h.dir[k][v] \in states
         /\ \A j \in Kind, w \in VM :
              j # k \/ w # v => h.dir[j][w] = host.dir[j][w]
  <1>1. PICK x \in states : h = [host EXCEPT !.dir[k][v] = x]
    BY DEF DirBecomes
  <1>2. h.mounts = host.mounts /\ h.dir = [host.dir EXCEPT ![k][v] = x]
    BY <1>1 DEF Hosts
  <1>3. host.dir \in [Kind -> [VM -> DirState]] /\ x \in DirState
    BY DEF Hosts
  <1>4. h \in Hosts
    BY <1>1, <1>3 DEF Hosts
  <1> QED BY <1>2, <1>3, <1>4

\* What holds between the hosts before and after any call: it keeps to its
\* VM, and to its direction.
BindMoves(call, v, d, host, h) ==
  /\ h \in Hosts
  /\ \A k \in Kind, w \in VM : w # v => h.dir[k][w] = host.dir[k][w]
  /\ \A w \in VM, e \in Disk :
       w # v => (<<w, e>> \in h.mounts <=> <<w, e>> \in host.mounts)
  /\ call \in Makes \cup DiskCalls =>
       \A k \in Kind : host.dir[k][v] = "whole" => h.dir[k][v] = "whole"
  /\ call \in Makes => h.mounts = host.mounts
  /\ call \in Deletes =>
       /\ \A k \in Kind : host.dir[k][v] = "none" => h.dir[k][v] = "none"
       /\ h.mounts \subseteq host.mounts
  /\ call \in DiskCalls =>
       \A e \in Disk :
         e # d => (<<v, e>> \in h.mounts <=> <<v, e>> \in host.mounts)

LEMMA BindEffect ==
  ASSUME NEW host \in Hosts, NEW v \in VM, NEW d, NEW call \in BindCall,
         call \in DiskCalls => d \in Disk,
         NEW h \in BindOutcomes(call, v, d, host)
  PROVE  BindMoves(call, v, d, host, h)
  <1> DEFINE k == KindOf(call) now == host.dir[k][v]
  <1>0. k \in Kind /\ now \in DirState
    BY DEF Kind, KindOf, Hosts
  <1>a. /\ UpFrom(now, DirState) \in SUBSET DirState
        /\ DownFrom(now, DirState) \in SUBSET DirState
        /\ now = "whole" => UpFrom(now, DirState) = {"whole"}
        /\ now = "none" => DownFrom(now, DirState) = {"none"}
    BY <1>0, RankOrder
  <1>1. CASE call \in Makes
    <2>1. h \in DirBecomes(host, k, v, UpFrom(now, DirState))
      BY <1>1 DEF BindOutcomes, Makes
    <2> HIDE DEF k, now
    <2>2. /\ h \in Hosts /\ h.mounts = host.mounts
          /\ h.dir[k][v] \in UpFrom(now, DirState)
          /\ \A j \in Kind, w \in VM : j # k \/ w # v => h.dir[j][w] = host.dir[j][w]
      BY <1>0, <1>a, <2>1, DirBecomesOne
    <2>3. \A j \in Kind : host.dir[j][v] = "whole" => h.dir[j][v] = "whole"
      BY <1>0, <1>a, <2>2 DEF now
    <2> QED BY <1>1, <2>2, <2>3 DEF BindMoves, Makes, Deletes, DiskCalls
  <1>2. CASE call = "DeleteEphemeral"
    <2>1. h \in DirBecomes(host, k, v, DownFrom(now, DirState))
      BY <1>2 DEF BindOutcomes, Makes
    <2> HIDE DEF k, now
    <2>2. /\ h \in Hosts /\ h.mounts = host.mounts
          /\ h.dir[k][v] \in DownFrom(now, DirState)
          /\ \A j \in Kind, w \in VM : j # k \/ w # v => h.dir[j][w] = host.dir[j][w]
      BY <1>0, <1>a, <2>1, DirBecomesOne
    <2>3. \A j \in Kind : host.dir[j][v] = "none" => h.dir[j][v] = "none"
      BY <1>0, <1>a, <2>2 DEF now
    <2> QED BY <1>2, <2>2, <2>3 DEF BindMoves, Makes, Deletes, DiskCalls
  <1>3. CASE call = "DeletePersistent"
    <2>0. MountsOf(host, v) = {e \in host.mounts : e[1] = v}
      BY DEF MountsOf
    <2> DEFINE bare == [host EXCEPT !.mounts = @ \ MountsOf(host, v)]
    <2>1. \/ \E gone \in SUBSET MountsOf(host, v) :
               h = [host EXCEPT !.mounts = @ \ gone]
          \/ h \in DirBecomes(bare, k, v, DownFrom(now, DirState))
      BY <1>3 DEF BindOutcomes, Makes
    <2>2. ASSUME NEW gone \in SUBSET MountsOf(host, v),
                 h = [host EXCEPT !.mounts = @ \ gone]
          PROVE  BindMoves(call, v, d, host, h)
      <3>1. h \in Hosts /\ h.dir = host.dir /\ h.mounts = host.mounts \ gone
        BY <2>2 DEF Hosts
      <3>2. \A w \in VM, e \in Disk : w # v => <<w, e>> \notin gone
        BY <2>0, <2>2
      <3> QED BY <1>3, <3>1, <3>2 DEF BindMoves, Makes, Deletes, DiskCalls
    <2>3. ASSUME h \in DirBecomes(bare, k, v, DownFrom(now, DirState))
          PROVE  BindMoves(call, v, d, host, h)
      <3>1. /\ bare \in Hosts /\ bare.dir = host.dir
            /\ bare.mounts = host.mounts \ MountsOf(host, v)
        BY DEF Hosts
      <3> HIDE DEF k, now, bare
      <3>3. /\ h \in Hosts /\ h.mounts = bare.mounts
            /\ h.dir[k][v] \in DownFrom(now, DirState)
            /\ \A j \in Kind, w \in VM : j # k \/ w # v => h.dir[j][w] = bare.dir[j][w]
        BY <1>0, <1>a, <2>3, <3>1, DirBecomesOne
      <3>4. \A j \in Kind : host.dir[j][v] = "none" => h.dir[j][v] = "none"
        BY <1>0, <1>a, <3>1, <3>3 DEF now
      <3>5. \A w \in VM, e \in Disk : w # v => <<w, e>> \notin MountsOf(host, v)
        BY <2>0
      <3> QED BY <1>3, <3>1, <3>3, <3>4, <3>5
              DEF BindMoves, Makes, Deletes, DiskCalls
    <2> QED BY <2>1, <2>2, <2>3
  <1>4. CASE call = "MountPersistent"
    <2>0. k = "per" /\ d \in Disk
      BY <1>4 DEF KindOf, DiskCalls, Makes
    <2> DEFINE x == IF now = "none" THEN "partial" ELSE now
               made == [host EXCEPT !.dir["per"][v] = IF @ = "none" THEN "partial" ELSE @]
               after == [made EXCEPT !.mounts = @ \cup {<<v, d>>}]
    <2>1. x \in DirState /\ (now = "whole" => x = "whole")
      BY <1>0 DEF DirState
    <2>2. h = host \/ h = made \/ h = after
      BY <1>4, <2>0 DEF BindOutcomes, Makes
    <2>3. /\ made \in Hosts /\ made.mounts = host.mounts
          /\ made.dir = [host.dir EXCEPT !["per"][v] = x]
      BY <1>0, <2>0, <2>1 DEF Hosts
    <2> HIDE DEF made
    <2>4. /\ after \in Hosts /\ after.dir = made.dir
          /\ after.mounts = host.mounts \cup {<<v, d>>}
      BY <2>0, <2>3 DEF Hosts
    <2> HIDE DEF after
    <2>5. /\ made.dir["per"][v] = x
          /\ \A j \in Kind, w \in VM :
               j # "per" \/ w # v => made.dir[j][w] = host.dir[j][w]
      BY <2>0, <2>1, <2>3 DEF Hosts, Kind
    <2> HIDE DEF x
    <2>6. BindMoves(call, v, d, host, host)
      BY <1>4 DEF BindMoves, Makes, Deletes, DiskCalls
    <2>7. \A j \in Kind : host.dir[j][v] = "whole" => made.dir[j][v] = "whole"
      BY <1>0, <2>0, <2>1, <2>5
    <2>8. BindMoves(call, v, d, host, made)
      BY <1>4, <2>3, <2>5, <2>7 DEF BindMoves, Makes, Deletes, DiskCalls
    <2>9. BindMoves(call, v, d, host, after)
      BY <1>4, <2>0, <2>4, <2>5, <2>7 DEF BindMoves, Makes, Deletes, DiskCalls
    <2> QED BY <2>2, <2>6, <2>8, <2>9
  <1>5. CASE call = "UnmountPersistent"
    <2>0. d \in Disk
      BY <1>5 DEF DiskCalls
    <2>1. h = host \/ h = [host EXCEPT !.mounts = @ \ {<<v, d>>}]
      BY <1>5 DEF BindOutcomes, Makes
    <2>2. h \in Hosts /\ h.dir = host.dir /\ h.mounts \in {host.mounts, host.mounts \ {<<v, d>>}}
      BY <2>1 DEF Hosts
    <2> QED BY <1>5, <2>0, <2>2 DEF BindMoves, Makes, Deletes, DiskCalls
  <1> QED BY <1>1, <1>2, <1>3, <1>4, <1>5 DEF BindCall, Makes, Deletes, DiskCalls

LEMMA CallOfHead ==
  ASSUME NEW f \in Frame, Shape(f), f.todo # <<>>
  PROVE  /\ f.call \in VMCalls \cup AttachCalls => f.vm \in VM
         /\ f.call \in ImageCalls => f.vm = NoVM
         /\ f.call \in ImageCalls \cup AttachCalls => f.disk \in Disk
         /\ f.call \in VMCalls => f.disk = NoDisk
         /\ Head(f.todo) \in {"findStemcell", "makeEphemeral", "makePersistent",
              "create", "info", "forward", "stop"} \cup SetUps => f.call = "create_vm"
         /\ Head(f.todo) \in {"destroy", "removeForwarded", "deleteEphemeral",
              "deletePersistent"} => f.call = "delete_vm"
         /\ Head(f.todo) = "findVM" => f.call \in {"delete_vm"} \cup AttachCalls
         /\ Head(f.todo) \in {"fetch", "update"} => f.call \in AttachCalls
         /\ Head(f.todo) = "mount" => f.call = "attach_disk"
         /\ Head(f.todo) = "unmount" => f.call = "detach_disk"
         /\ Head(f.todo) \in {"writeImage", "truncate", "mkfs", "cleanUpFile"} =>
              f.call = "create_disk"
         /\ Head(f.todo) = "removeImage" => f.call = "delete_disk"
  <1>1. f.call \in Call /\ f.call # "none" /\ <<f.call, f.vm, f.disk>> \in Target
    BY BusyCall, IdleShape DEF Shape, Call, VMCalls, AttachCalls, ImageCalls
  <1>2. /\ f.call \in VMCalls \cup AttachCalls => f.vm \in VM
        /\ f.call \in ImageCalls => f.vm = NoVM
        /\ f.call \in ImageCalls \cup AttachCalls => f.disk \in Disk
        /\ f.call \in VMCalls => f.disk = NoDisk
    BY <1>1 DEF Target, VMCalls, AttachCalls, ImageCalls
  <1> DEFINE s == Head(f.todo)
  <1>3. /\ f.call = "create_vm" =>
             s \in {"findStemcell", "makeEphemeral", "makePersistent", "create",
                    "info", "forward", "stop", "fail"} \cup SetUps
        /\ f.call = "delete_vm" =>
             s \in {"findVM", "destroy", "removeForwarded", "deleteEphemeral",
                    "deletePersistent", "fail"}
        /\ f.call = "attach_disk" => s \in {"findVM", "fetch", "update", "fail", "mount"}
        /\ f.call = "detach_disk" => s \in {"findVM", "fetch", "update", "fail", "unmount"}
        /\ f.call = "create_disk" =>
             s \in {"fail", "writeImage", "truncate", "mkfs", "cleanUpFile"}
        /\ f.call = "delete_disk" => s \in {"fail", "removeImage"}
    <2>1. f.call = "attach_disk" => s \in {"findVM", "fetch", "update", "fail", "mount"}
      BY NextOfAttachCall DEF AttachCalls
    <2>2. f.call = "detach_disk" => s \in {"findVM", "fetch", "update", "fail", "unmount"}
      BY NextOfAttachCall DEF AttachCalls
    <2>3. f.call = "create_disk" =>
             s \in {"fail", "writeImage", "truncate", "mkfs", "cleanUpFile"}
      BY NextOfImageCall DEF ImageCalls
    <2>4. f.call = "delete_disk" => s \in {"fail", "removeImage"}
      BY NextOfImageCall DEF ImageCalls
    <2> QED BY <2>1, <2>2, <2>3, <2>4, NextOfCreation, NextOfDeletion
  <1> HIDE DEF s
  <1>4. f.call \in {"create_vm", "delete_vm", "attach_disk", "detach_disk",
                    "create_disk", "delete_disk"}
    BY <1>1 DEF Call, VMCalls, AttachCalls, ImageCalls
  <1>5. /\ s \in {"findStemcell", "makeEphemeral", "makePersistent",
             "create", "info", "forward", "stop"} \cup SetUps => f.call = "create_vm"
        /\ s \in {"destroy", "removeForwarded", "deleteEphemeral",
             "deletePersistent"} => f.call = "delete_vm"
        /\ s = "findVM" => f.call \in {"delete_vm", "attach_disk", "detach_disk"}
        /\ s \in {"fetch", "update"} => f.call \in {"attach_disk", "detach_disk"}
        /\ s = "mount" => f.call = "attach_disk"
        /\ s = "unmount" => f.call = "detach_disk"
        /\ s \in {"writeImage", "truncate", "mkfs", "cleanUpFile"} =>
             f.call = "create_disk"
        /\ s = "removeImage" => f.call = "delete_disk"
    BY <1>3, <1>4 DEF SetUps
  <1>6. /\ s = "findVM" => f.call \in {"delete_vm"} \cup AttachCalls
        /\ s \in {"fetch", "update"} => f.call \in AttachCalls
    BY <1>5 DEF AttachCalls
  <1> QED BY <1>2, <1>5, <1>6, Zenon DEF s

WorldOK ==
  /\ container \in [VM -> {"none", "running", "stopped"}]
  /\ env \in [VM -> SUBSET Disk]
  /\ late \in [VM -> SUBSET (SUBSET Disk)]
  /\ stale \subseteq VM
  /\ ready \subseteq VM \X SetUps
  /\ garbled \subseteq VM
  /\ dir \in [Kind -> [VM -> DirState]]
  /\ mounts \subseteq VM \X Disk
  /\ rules \in [VM -> RulesState]
  /\ image \in [Disk -> {"none", "raw", "disk"}]
  /\ faults \in 0..MaxFaults

LEMMA HostType ==
  ASSUME WorldOK
  PROVE  Host \in Hosts /\ Host.dir = dir /\ Host.mounts = mounts
  BY DEF WorldOK, Host, Hosts

LEMMA FaultCount ==
  ASSUME WorldOK, Fault \/ NoFault
  PROVE  faults' \in 0..MaxFaults
  BY MaxFaultsAssumption DEF WorldOK, Fault, NoFault

LEMMA BindStepMoves ==
  ASSUME TypeInv, NEW p \in Proc, NEW s, NEW call \in BindCall,
         op[p].vm \in VM, call \in DiskCalls => op[p].disk \in Disk,
         BindStep(p, s, call)
  PROVE  /\ WorldOK' /\ op[p].todo # <<>> /\ Head(op[p].todo) = s
         /\ UNCHANGED <<container, env, late, garbled, stale, ready, rules, image, director>>
         /\ BindMoves(call, op[p].vm, op[p].disk, Host, Host')
         /\ \/ Abort(p, CleanUp(op[p].call, s))
            \/ BindDone(call, op[p].vm, op[p].disk, Host, Host')
  <1>0. WorldOK
    BY DEF TypeInv, TypeOK, WorldOK
  <1>1. PICK host \in BindOutcomes(call, op[p].vm, op[p].disk, Host) :
          /\ dir' = host.dir /\ mounts' = host.mounts
          /\ \/ BindDone(call, op[p].vm, op[p].disk, Host, host) /\ Done(p) /\ NoFault
             \/ Abort(p, CleanUp(op[p].call, s)) /\ Fault
    BY DEF BindStep
  <1>2. /\ op[p].todo # <<>> /\ Head(op[p].todo) = s
        /\ UNCHANGED <<container, env, late, garbled, stale, ready, rules, image, director>>
    BY DEF BindStep, At, agent
  <1>3. BindMoves(call, op[p].vm, op[p].disk, Host, host)
    BY <1>0, HostType, BindEffect
  <1>4. host \in Hosts /\ Host' = [dir |-> host.dir, mounts |-> host.mounts]
    BY <1>1, <1>3 DEF BindMoves, Host
  <1>5. host = Host'
    BY <1>4 DEF Hosts
  <1>6. WorldOK'
    BY <1>0, <1>1, <1>2, <1>4, FaultCount DEF WorldOK, Hosts
  <1> QED BY <1>1, <1>2, <1>3, <1>5, <1>6

LEMMA PortStepMoves ==
  ASSUME TypeInv, NEW p \in Proc, NEW s, NEW call \in PortCall, op[p].vm \in VM,
         PortStep(p, s, call)
  PROVE  /\ WorldOK' /\ op[p].todo # <<>> /\ Head(op[p].todo) = s
         /\ UNCHANGED <<container, env, late, garbled, stale, ready, dir, mounts, image, director>>
         /\ \A w \in VM : w # op[p].vm => rules'[w] = rules[w]
         /\ call = "RemoveForwarded" /\ rules[op[p].vm] = "none" =>
              rules'[op[p].vm] = "none"
         /\ \/ Abort(p, CleanUp(op[p].call, s))
            \/ RulesDone(call, op[p].vm, rules')
  <1> DEFINE v == op[p].vm
  <1>0. WorldOK
    BY DEF TypeInv, TypeOK, WorldOK
  <1>1. /\ op[p].todo # <<>> /\ Head(op[p].todo) = s
        /\ UNCHANGED <<container, env, late, garbled, stale, ready, dir, mounts, image, director>>
        /\ rules' \in RuleOutcomes(call, v, rules)
        /\ \/ RulesDone(call, v, rules') /\ Done(p) /\ NoFault
           \/ Abort(p, CleanUp(op[p].call, s)) /\ Fault
    BY DEF PortStep, At, agent
  <1>2. PICK x \in IF call = "Forward" THEN UpFrom(rules[v], RulesState)
                                       ELSE DownFrom(rules[v], RulesState) :
          rules' = RulesBecome(rules, v, x)
    BY <1>1 DEF RuleOutcomes
  <1>3. rules[v] \in RulesState /\ rules \in [VM -> RulesState]
    BY <1>0 DEF WorldOK
  <1>4. x \in RulesState /\ (call # "Forward" /\ rules[v] = "none" => x = "none")
    BY <1>2, <1>3, RankOrder
  <1>5. rules' = [w \in VM |-> IF w = v THEN x ELSE rules[w]]
    BY <1>2, <1>3 DEF RulesBecome, OwnRules
  <1>6. WorldOK'
    BY <1>0, <1>1, <1>4, <1>5, FaultCount DEF WorldOK
  <1> QED BY <1>1, <1>4, <1>5, <1>6

LEMMA AbortAborts ==
  ASSUME TypeInv, NEW p \in Proc, op[p].todo # <<>>,
         \/ Abort(p, <<"fail">>)
         \/ Abort(p, CleanUp(op[p].call, Head(op[p].todo)))
  PROVE  Aborted(op'[p])
  <1>1. op \in [Proc -> Frame] /\ op[p] \in Frame /\ Shape(op[p])
    BY DEF TypeInv
  <1>2. PICK todo : /\ op' = [op EXCEPT ![p].todo = todo]
                    /\ \/ todo = <<"fail">>
                       \/ todo = CleanUp(op[p].call, Head(op[p].todo))
    BY DEF Abort
  <1>3. op'[p].todo = todo /\ op'[p].call = op[p].call
    BY <1>1, <1>2 DEF Frame
  <1>4. Head(op[p].todo) \in {"info", "forward"} \cup SetUps => op[p].call = "create_vm"
    BY <1>1, CallOfHead
  <1>5. Head(op[p].todo) \in {"truncate", "mkfs"} => op[p].call = "create_disk"
    BY <1>1, CallOfHead
  <1> QED BY <1>2, <1>3, <1>4, <1>5 DEF Aborted, CleanUp

\* Each call has its operations, and all of them may fail.
LEMMA ActionsOfCall ==
  ASSUME TypeInv, NEW p \in Proc, Operation(p)
  PROVE  /\ op[p].call = "create_vm" =>
              \/ Fail(p) \/ Look(p) \/ MakeBindMounts(p) \/ CreateContainer(p)
              \/ Forward(p) \/ UploadEnv(p) \/ SaveMetadata(p) \/ StartAgent(p)
              \/ Stop(p)
         /\ op[p].call = "delete_vm" =>
              \/ Fail(p) \/ FindVM(p) \/ Destroy(p) \/ RemoveForwarded(p)
              \/ DeleteEphemeral(p) \/ DeletePersistent(p)
         /\ op[p].call = "attach_disk" =>
              Fail(p) \/ FindVM(p) \/ Fetch(p) \/ Mount(p) \/ Update(p)
         /\ op[p].call = "detach_disk" =>
              Fail(p) \/ FindVM(p) \/ Fetch(p) \/ Unmount(p) \/ Update(p)
         /\ op[p].call = "create_disk" =>
              Fail(p) \/ BuildImage(p) \/ CleanUpFile(p)
         /\ op[p].call = "delete_disk" => Fail(p) \/ RemoveImage(p)
         /\ op[p].call \in Call
  <1> DEFINE f == op[p]
  <1>0. f \in Frame /\ Shape(f) /\ f.todo # <<>> /\ f.call \in Call
    BY OperationMoves, BusyCall DEF TypeInv, Moves
  <1>1. Look(p) \/ MakeBindMounts(p) \/ CreateContainer(p) \/ Forward(p)
        \/ UploadEnv(p) \/ SaveMetadata(p) \/ StartAgent(p) \/ Stop(p)
          => f.call = "create_vm"
    BY <1>0, CallOfHead
       DEF Look, MakeBindMounts, CreateContainer, Forward, UploadEnv,
           SaveMetadata, StartAgent, Stop, BindStep, PortStep, At, SetUps
  <1>2. FindVM(p) => f.call \in {"delete_vm"} \cup AttachCalls
    BY <1>0, CallOfHead DEF FindVM, At
  <1>3. Destroy(p) \/ RemoveForwarded(p) \/ DeleteEphemeral(p) \/ DeletePersistent(p)
          => f.call = "delete_vm"
    BY <1>0, CallOfHead
       DEF Destroy, RemoveForwarded, DeleteEphemeral, DeletePersistent,
           BindStep, PortStep, At
  <1>4. Fetch(p) \/ Update(p) => f.call \in AttachCalls
    BY <1>0, CallOfHead DEF Fetch, Update, At
  <1>5. Mount(p) => f.call = "attach_disk"
    BY <1>0, CallOfHead DEF Mount, BindStep, At
  <1>6. Unmount(p) => f.call = "detach_disk"
    BY <1>0, CallOfHead DEF Unmount, BindStep, At
  <1>7. BuildImage(p) \/ CleanUpFile(p) => f.call = "create_disk"
    BY <1>0, CallOfHead DEF BuildImage, CleanUpFile, At
  <1>8. RemoveImage(p) => f.call = "delete_disk"
    BY <1>0, CallOfHead DEF RemoveImage, At
  <1> HIDE DEF f
  <1> QED BY <1>0, <1>1, <1>2, <1>3, <1>4, <1>5, <1>6, <1>7, <1>8
          DEF Operation, AttachCalls, f

SameVM(w) ==
  /\ container'[w] = container[w] /\ rules'[w] = rules[w]
  /\ env'[w] = env[w] /\ late'[w] = late[w]
  /\ w \in garbled' <=> w \in garbled
  /\ w \in stale => w \in stale'
  /\ \A s \in SetUps : <<w, s>> \in ready' <=> <<w, s>> \in ready
  /\ \A k \in Kind : dir'[k][w] = dir[k][w]
  /\ \A d \in Disk : <<w, d>> \in mounts' <=> <<w, d>> \in mounts

\* An operation keeps to the VM and the disk of its call.
Keeps(v, d) == /\ WorldOK' /\ UNCHANGED director
               /\ \A w \in VM : w # v => SameVM(w)
               /\ \A e \in Disk : e # d => image'[e] = image[e]

LEMMA IdleWorld ==
  ASSUME TypeInv, UNCHANGED world \/ WorldKept, UNCHANGED director,
         Fault \/ NoFault, NEW v, NEW d
  PROVE  Keeps(v, d) /\ \A w \in VM : SameVM(w)
  <1>1. WorldOK
    BY DEF TypeInv, TypeOK, WorldOK
  <1>2. UNCHANGED director /\ container' = container /\ env' = env /\ late' = late
        /\ garbled' = garbled /\ ready' = ready /\ dir' = dir /\ mounts' = mounts
        /\ rules' = rules /\ image' = image
        /\ stale \subseteq stale' /\ stale' \subseteq VM
    BY <1>1 DEF world, agent, WorldKept, WorldOK
  <1>3. WorldOK'
    BY <1>1, <1>2, FaultCount DEF WorldOK
  <1> QED BY <1>2, <1>3 DEF Keeps, SameVM

LEMMA FailEffect ==
  ASSUME TypeInv, NEW p \in Proc, Fail(p), NEW v, NEW d
  PROVE  Keeps(v, d) /\ Aborted(op'[p]) /\ UNCHANGED <<world, director>>
  <1>1. Fault /\ UNCHANGED <<world, director>> /\ op[p].todo # <<>>
        /\ Abort(p, CleanUp(op[p].call, Head(op[p].todo)))
    BY DEF Fail
  <1> QED BY <1>1, IdleWorld, AbortAborts

(***************************************************************************)
(* create_vm, operation by operation.                                      *)
(***************************************************************************)
Unchanged(v) == /\ image' = image /\ env'[v] = env[v] /\ late'[v] = late[v]
                /\ v \in garbled' <=> v \in garbled
                /\ \A d \in Disk : <<v, d>> \in mounts' <=> <<v, d>> \in mounts
                /\ \A k \in Kind : dir[k][v] = "whole" => dir'[k][v] = "whole"

CreationStep(p) ==
  LET f == op[p] v == f.vm s == Head(f.todo) IN
  /\ v \in VM /\ Keeps(v, f.disk) /\ Unchanged(v)
  /\ \/ Aborted(op'[p])
     \/ /\ rules[v] = "all" => rules'[v] = "all"
        /\ \A e \in SetUps : <<v, e>> \in ready => <<v, e>> \in ready'
        /\ s = "makeEphemeral" => dir'["eph"][v] = "whole"
        /\ s = "makePersistent" => dir'["per"][v] = "whole"
        /\ s = "forward" => rules'[v] = "all"
        /\ s \in SetUps => <<v, s>> \in ready'

\* Nothing but the clean-up begins with "stop".
LEMMA StopAborts ==
  ASSUME TypeInv, NEW p \in Proc, op[p].todo # <<>>, op[p].call = "create_vm",
         Head(op[p].todo) = "stop", Done(p)
  PROVE  Aborted(op'[p])
  <1> DEFINE f == op[p]
  <1>0. op \in [Proc -> Frame] /\ f \in Frame /\ Shape(f)
    BY DEF TypeInv
  <1>1. ~OnPlan(f)
    <2> SUFFICES ASSUME OnPlan(f) PROVE FALSE
      OBVIOUS
    <2>1. Len(Creation) = 10 /\ 10 \in Nat
      BY DEF Creation
    <2>2. Plan[f.call] = Creation
      BY Plans
    <2>3. PICK n \in 1..10 : Placed(f, Creation, n, 10)
      BY <1>0, <2>1, <2>2, PlanPlace
    <2> QED BY <2>3 DEF Placed, Creation
  <1>2. Aborted(f)
    BY <1>0, <1>1, BusyCall
  <1>3. f.todo # <<"fail">> /\ f.todo # <<"cleanUpFile", "fail">>
    <2>1. Head(<<"fail">>) = "fail" /\ Head(<<"cleanUpFile", "fail">>) = "cleanUpFile"
      OBVIOUS
    <2>2. "fail" # "stop" /\ "cleanUpFile" # "stop"
      OBVIOUS
    <2> QED BY <2>1, <2>2
  <1>4. f.todo = <<"stop", "fail">>
    BY <1>2, <1>3, Zenon DEF Aborted
  <1>5. op'[p].todo = Tail(f.todo)
    BY <1>0 DEF Done, Frame
  <1>6. Tail(<<"stop", "fail">>) = <<"fail">>
    OBVIOUS
  <1> QED BY <1>4, <1>5, <1>6, Zenon DEF Aborted

LEMMA CreationEffect ==
  ASSUME TypeInv, NEW p \in Proc, Operation(p), op[p].call = "create_vm"
  PROVE  CreationStep(p)
  <1> DEFINE f == op[p]
  <1>0. /\ f \in Frame /\ Shape(f) /\ f.todo # <<>> /\ f.vm \in VM /\ WorldOK
        /\ Kind = {"eph", "per"}
    BY OperationMoves, CallOfHead
       DEF TypeInv, TypeOK, Moves, VMCalls, WorldOK, Kind
  <1>1. PICK v \in VM : v = f.vm
    BY <1>0
  <1>2. ASSUME Fail(p) PROVE CreationStep(p)
    <2>1. Keeps(v, f.disk) /\ Aborted(op'[p]) /\ UNCHANGED <<world, director>>
      BY <1>2, FailEffect
    <2> QED BY <1>1, <2>1 DEF CreationStep, Unchanged, world, agent
  <1>3. ASSUME Look(p) PROVE CreationStep(p)
    <2>1. /\ UNCHANGED <<world, director>> /\ NoFault
          /\ Head(f.todo) \in {"findStemcell", "info"}
      BY <1>3 DEF Look, At
    <2>2. Keeps(v, f.disk)
      BY <2>1, IdleWorld
    <2> QED BY <1>1, <2>1, <2>2 DEF CreationStep, Unchanged, world, agent, SetUps
  <1>4. ASSUME NEW s, NEW call \in Makes, BindStep(p, s, call),
               \/ s = "makeEphemeral" /\ call = "MakeEphemeral"
               \/ s = "makePersistent" /\ call = "MakePersistent"
        PROVE  CreationStep(p)
    <2>0. call \in BindCall /\ call \notin DiskCalls
      BY <1>4 DEF BindCall, Makes, DiskCalls
    <2>1. /\ WorldOK' /\ Head(f.todo) = s
          /\ UNCHANGED <<container, env, late, garbled, stale, ready, rules, image, director>>
          /\ BindMoves(call, v, f.disk, Host, Host')
          /\ \/ Abort(p, CleanUp(f.call, s))
             \/ BindDone(call, v, f.disk, Host, Host')
      BY <1>0, <1>1, <1>4, <2>0, BindStepMoves
    <2>2. Host.dir = dir /\ Host.mounts = mounts /\ Host'.dir = dir' /\ Host'.mounts = mounts'
      BY DEF Host
    <2>3. /\ \A k \in Kind, w \in VM : w # v => dir'[k][w] = dir[k][w]
          /\ \A k \in Kind : dir[k][v] = "whole" => dir'[k][v] = "whole"
          /\ mounts' = mounts
      BY <1>4, <2>1, <2>2 DEF BindMoves
    <2>4. Keeps(v, f.disk)
      BY <2>1, <2>3 DEF Keeps, SameVM
    <2>5. Unchanged(v)
      BY <2>1, <2>3 DEF Unchanged
    <2>6. ASSUME ~Aborted(op'[p])
          PROVE  /\ s = "makeEphemeral" => dir'["eph"][v] = "whole"
                 /\ s = "makePersistent" => dir'["per"][v] = "whole"
      <3>1. ~Abort(p, CleanUp(f.call, s))
        BY <1>0, <2>1, <2>6, AbortAborts
      <3>2. BindDone(call, v, f.disk, Host, Host')
        BY <2>1, <3>1
      <3>3. dir'[KindOf(call)][v] = "whole"
        BY <1>4, <2>2, <3>2 DEF BindDone, Makes
      <3> QED BY <1>4, <3>3 DEF KindOf
    <2>7. s \in {"makeEphemeral", "makePersistent"}
      BY <1>4
    <2>8. \A e \in SetUps : <<v, e>> \in ready => <<v, e>> \in ready'
      BY <2>1
    <2>9. rules[v] = "all" => rules'[v] = "all"
      BY <2>1
    <2> QED BY <1>1, <2>1, <2>4, <2>5, <2>6, <2>7, <2>8, <2>9
            DEF CreationStep, SetUps
  <1>5. ASSUME CreateContainer(p) PROVE CreationStep(p)
    <2>1. /\ Head(f.todo) = "create" /\ (Fault \/ NoFault)
          /\ container' = [container EXCEPT ![v] = "running"]
          /\ UNCHANGED <<env, late, garbled, stale, ready, dir, mounts, rules, image, director>>
      BY <1>1, <1>5 DEF agent, CreateContainer, At, DoneOrLost
    <2>2. WorldOK'
      BY <1>0, <2>1, FaultCount DEF WorldOK
    <2>3. \A w \in VM : w # v => container'[w] = container[w]
      BY <1>0, <2>1 DEF WorldOK
    <2>4. Keeps(v, f.disk)
      BY <2>1, <2>2, <2>3 DEF Keeps, SameVM
    <2> QED BY <1>1, <2>1, <2>4 DEF CreationStep, Unchanged, SetUps
  <1>6. ASSUME Forward(p) PROVE CreationStep(p)
    <2>1. /\ WorldOK' /\ Head(f.todo) = "forward"
          /\ UNCHANGED <<container, env, late, garbled, stale, ready, dir, mounts, image, director>>
          /\ \A w \in VM : w # v => rules'[w] = rules[w]
          /\ \/ Abort(p, CleanUp(f.call, "forward"))
             \/ rules'[v] = "all"
      <3>1. "Forward" \in PortCall
        BY DEF PortCall
      <3> QED BY <1>0, <1>1, <1>6, <3>1, PortStepMoves DEF Forward, RulesDone
    <2>2. Keeps(v, f.disk)
      BY <2>1 DEF Keeps, SameVM
    <2>3. Aborted(op'[p]) \/ rules'[v] = "all"
      BY <1>0, <2>1, AbortAborts
    <2> QED BY <1>1, <2>1, <2>2, <2>3 DEF CreationStep, Unchanged, SetUps
  <1>7. ASSUME UploadEnv(p) \/ SaveMetadata(p) \/ StartAgent(p) PROVE CreationStep(p)
    <2> DEFINE s == Head(f.todo)
    <2>1. /\ s \in SetUps /\ (Fault \/ NoFault)
          /\ ready' = ready \cup {<<v, s>>}
          /\ UNCHANGED <<container, env, late, garbled, stale, dir, mounts, rules, image, director>>
      BY <1>1, <1>7 DEF agent, UploadEnv, SaveMetadata, StartAgent, SetUp, At,
                        DoneOrLost, SetUps
    <2> HIDE DEF s
    <2>2. WorldOK'
      BY <1>0, <2>1, FaultCount DEF WorldOK
    <2>3. \A w \in VM, e \in SetUps : w # v => (<<w, e>> \in ready' <=> <<w, e>> \in ready)
      BY <2>1
    <2>4. Keeps(v, f.disk)
      BY <2>1, <2>2, <2>3 DEF Keeps, SameVM
    <2>5. <<v, s>> \in ready' /\ \A e \in SetUps : <<v, e>> \in ready => <<v, e>> \in ready'
      BY <2>1
    <2>6. s \notin {"makeEphemeral", "makePersistent", "forward"}
      BY <2>1 DEF SetUps
    <2> QED BY <1>1, <2>1, <2>4, <2>5, <2>6 DEF CreationStep, Unchanged, s
  <1>8. ASSUME Stop(p) PROVE CreationStep(p)
    <2>1. /\ Head(f.todo) = "stop" /\ Done(p)
          /\ \/ /\ container' = [container EXCEPT ![v] = "stopped"]
                /\ ready' = ready \ {<<v, "start">>}
                /\ NoFault
             \/ UNCHANGED <<container, ready>> /\ Fault
          /\ UNCHANGED <<env, late, garbled, stale, dir, mounts, rules, image, director>>
      BY <1>1, <1>8 DEF agent, Stop, At
    <2>2. WorldOK'
      BY <1>0, <2>1, FaultCount DEF WorldOK
    <2>3. \A w \in VM : w # v =>
            /\ container'[w] = container[w]
            /\ \A e \in SetUps : <<w, e>> \in ready' <=> <<w, e>> \in ready
      BY <1>0, <2>1 DEF WorldOK
    <2>4. Keeps(v, f.disk)
      BY <2>1, <2>2, <2>3 DEF Keeps, SameVM
    <2>5. Aborted(op'[p])
      BY <1>0, <2>1, StopAborts
    <2> QED BY <1>1, <2>1, <2>4, <2>5 DEF CreationStep, Unchanged
  <1>9. Makes = {"MakeEphemeral", "MakePersistent"}
    BY DEF Makes
  <1>10. ASSUME MakeBindMounts(p) PROVE CreationStep(p)
    BY <1>4, <1>9, <1>10 DEF MakeBindMounts
  <1> QED BY <1>2, <1>3, <1>5, <1>6, <1>7, <1>8, <1>10, ActionsOfCall

(***************************************************************************)
(* delete_vm, operation by operation.                                      *)
(***************************************************************************)
DeletionStep(p) ==
  LET f == op[p] v == f.vm s == Head(f.todo) IN
  /\ v \in VM /\ Keeps(v, f.disk) /\ image' = image
  /\ container[v] = "none" => container'[v] = "none"
  /\ rules[v] = "none" => rules'[v] = "none"
  /\ \A k \in Kind : dir[k][v] = "none" => dir'[k][v] = "none"
  /\ \A d \in Disk : <<v, d>> \in mounts' => <<v, d>> \in mounts
  /\ \A k \in Kind : dir'[k][v] # dir[k][v] =>
       s \in {"deleteEphemeral", "deletePersistent"}
  /\ \/ Aborted(op'[p])
     \/ /\ s = "findVM" /\ ~op'[p].found => container[v] = "none"
        /\ s = "destroy" => container'[v] = "none" \/ ~f.found
        /\ s = "removeForwarded" => rules'[v] = "none"
        /\ s = "deleteEphemeral" => dir'["eph"][v] = "none"
        /\ s = "deletePersistent" =>
             dir'["per"][v] = "none" /\ \A d \in Disk : <<v, d>> \notin mounts'

LEMMA DeletionEffect ==
  ASSUME TypeInv, NEW p \in Proc, Operation(p), op[p].call = "delete_vm"
  PROVE  DeletionStep(p)
  <1> DEFINE f == op[p]
  <1>0. /\ f \in Frame /\ Shape(f) /\ f.todo # <<>> /\ f.vm \in VM /\ WorldOK
        /\ Kind = {"eph", "per"}
    BY OperationMoves, CallOfHead
       DEF TypeInv, TypeOK, Moves, VMCalls, WorldOK, Kind
  <1>1. PICK v \in VM : v = f.vm
    BY <1>0
  <1>2. ASSUME Fail(p) PROVE DeletionStep(p)
    <2>1. Keeps(v, f.disk) /\ Aborted(op'[p]) /\ UNCHANGED <<world, director>>
      BY <1>2, FailEffect
    <2> QED BY <1>1, <2>1 DEF DeletionStep, world, agent
  <1>3. ASSUME FindVM(p) PROVE DeletionStep(p)
    <2>1. /\ UNCHANGED <<world, director>> /\ NoFault /\ Head(f.todo) = "findVM"
          /\ ~op'[p].found => container[v] = "none"
      BY <1>1, <1>3, FindMoves DEF FindVM
    <2>2. Keeps(v, f.disk)
      BY <2>1, IdleWorld
    <2> QED BY <1>1, <2>1, <2>2 DEF DeletionStep, world, agent
  <1>4. ASSUME Destroy(p) PROVE DeletionStep(p)
    <2>1. /\ Head(f.todo) = "destroy" /\ (Fault \/ NoFault)
          /\ UNCHANGED <<dir, mounts, rules, image, director>>
          /\ \/ /\ UNCHANGED <<container, env, late, garbled, stale, ready>>
                /\ ~f.found \/ container[v] = "none"
             \/ /\ container' = [container EXCEPT ![v] = "none"]
                /\ env' = [env EXCEPT ![v] = {}]
                /\ late' = [late EXCEPT ![v] = {}]
                /\ garbled' = garbled \ {v} /\ stale' = stale
                /\ ready' = {e \in ready : e[1] # v}
      BY <1>1, <1>4 DEF agent, Destroy, At, DoneOrLost
    <2>2. WorldOK'
      BY <1>0, <2>1, FaultCount DEF WorldOK
    <2>3. \A w \in VM : w # v =>
            /\ container'[w] = container[w]
            /\ env'[w] = env[w] /\ late'[w] = late[w]
            /\ w \in garbled' <=> w \in garbled
            /\ w \in stale => w \in stale'
            /\ \A e \in SetUps : <<w, e>> \in ready' <=> <<w, e>> \in ready
      BY <1>0, <2>1 DEF WorldOK
    <2>4. Keeps(v, f.disk)
      BY <2>1, <2>2, <2>3 DEF Keeps, SameVM
    <2>5. /\ container[v] = "none" => container'[v] = "none"
          /\ container'[v] = "none" \/ ~f.found
      BY <1>0, <2>1 DEF WorldOK
    <2> QED BY <1>1, <2>1, <2>4, <2>5 DEF DeletionStep
  <1>5. ASSUME RemoveForwarded(p) PROVE DeletionStep(p)
    <2>1. /\ WorldOK' /\ Head(f.todo) = "removeForwarded"
          /\ UNCHANGED <<container, env, late, garbled, stale, ready, dir, mounts, image, director>>
          /\ \A w \in VM : w # v => rules'[w] = rules[w]
          /\ rules[v] = "none" => rules'[v] = "none"
          /\ \/ Abort(p, CleanUp(f.call, "removeForwarded"))
             \/ rules'[v] = "none"
      <3>1. "RemoveForwarded" \in PortCall
        BY DEF PortCall
      <3> QED BY <1>0, <1>1, <1>5, <3>1, PortStepMoves DEF RemoveForwarded, RulesDone
    <2>2. Keeps(v, f.disk)
      BY <2>1 DEF Keeps, SameVM
    <2>3. Aborted(op'[p]) \/ rules'[v] = "none"
      BY <1>0, <2>1, AbortAborts
    <2> QED BY <1>1, <2>1, <2>2, <2>3 DEF DeletionStep
  <1>6. ASSUME NEW s, NEW call \in Deletes, BindStep(p, s, call),
               \/ s = "deleteEphemeral" /\ call = "DeleteEphemeral"
               \/ s = "deletePersistent" /\ call = "DeletePersistent"
        PROVE  DeletionStep(p)
    <2>0. call \in BindCall /\ call \notin DiskCalls
      BY <1>6 DEF BindCall, Deletes, DiskCalls
    <2>1. /\ WorldOK' /\ Head(f.todo) = s
          /\ UNCHANGED <<container, env, late, garbled, stale, ready, rules, image, director>>
          /\ BindMoves(call, v, f.disk, Host, Host')
          /\ \/ Abort(p, CleanUp(f.call, s))
             \/ BindDone(call, v, f.disk, Host, Host')
      BY <1>0, <1>1, <1>6, <2>0, BindStepMoves
    <2>2. Host.dir = dir /\ Host.mounts = mounts /\ Host'.dir = dir' /\ Host'.mounts = mounts'
      BY DEF Host
    <2>3. /\ \A k \in Kind, w \in VM : w # v => dir'[k][w] = dir[k][w]
          /\ \A w \in VM, e \in Disk :
               w # v => (<<w, e>> \in mounts' <=> <<w, e>> \in mounts)
          /\ \A k \in Kind : dir[k][v] = "none" => dir'[k][v] = "none"
          /\ mounts' \subseteq mounts
      BY <1>6, <2>1, <2>2 DEF BindMoves
    <2>4. Keeps(v, f.disk)
      BY <2>1, <2>3 DEF Keeps, SameVM
    <2>5. ASSUME ~Aborted(op'[p])
          PROVE  /\ s = "deleteEphemeral" => dir'["eph"][v] = "none"
                 /\ s = "deletePersistent" =>
                      dir'["per"][v] = "none" /\ \A d \in Disk : <<v, d>> \notin mounts'
      <3>1. ~Abort(p, CleanUp(f.call, s))
        BY <1>0, <2>1, <2>5, AbortAborts
      <3>2. BindDone(call, v, f.disk, Host, Host')
        BY <2>1, <3>1
      <3>3. ASSUME call = "DeleteEphemeral" PROVE dir'["eph"][v] = "none"
        BY <2>2, <3>2, <3>3 DEF BindDone, Makes
      <3>4. ASSUME call = "DeletePersistent"
            PROVE  dir'["per"][v] = "none" /\ \A d \in Disk : <<v, d>> \notin mounts'
        <4>1. dir'["per"][v] = "none" /\ MountsOf(Host', v) = {}
          BY <2>2, <3>2, <3>4 DEF BindDone, Makes
        <4>2. \A d \in Disk : <<v, d>>[1] = v
          OBVIOUS
        <4>3. \A d \in Disk : <<v, d>> \notin mounts'
          BY <2>2, <4>1, <4>2 DEF MountsOf
        <4> QED BY <4>1, <4>3
      <3> QED BY <1>6, <3>3, <3>4
    <2>6. s \in {"deleteEphemeral", "deletePersistent"}
      BY <1>6
    <2> QED BY <1>1, <2>1, <2>3, <2>4, <2>5, <2>6 DEF DeletionStep
  <1>7. ASSUME DeleteEphemeral(p) \/ DeletePersistent(p) PROVE DeletionStep(p)
    BY <1>6, <1>7 DEF DeleteEphemeral, DeletePersistent, Deletes
  <1> QED BY <1>2, <1>3, <1>4, <1>5, <1>7, ActionsOfCall

(***************************************************************************)
(* attach_disk and detach_disk, operation by operation.                    *)
(***************************************************************************)
AttachStep(p) ==
  LET f == op[p] v == f.vm d == f.disk s == Head(f.todo) IN
  /\ v \in VM /\ d \in Disk /\ Keeps(v, d) /\ image' = image
  /\ container'[v] = container[v] /\ rules'[v] = rules[v] /\ ready' = ready
  /\ \A k \in Kind : dir[k][v] = "whole" => dir'[k][v] = "whole"
  /\ \A e \in Disk : e # d => (<<v, e>> \in mounts' <=> <<v, e>> \in mounts)
  /\ s \notin {"mount", "unmount"} => mounts' = mounts
  /\ <<v, d>> \in mounts' /\ <<v, d>> \notin mounts =>
       f.call = "attach_disk" /\ image[d] = "disk"
  /\ s # "update" => env'[v] = env[v] /\ late'[v] = late[v] /\ garbled' = garbled
  /\ s = "update" => \A w \in {v} :
       \/ Coming(w)' = {NewEnv(f)} /\ garbled' \subseteq garbled
       \/ Coming(w)' \subseteq Coming(w) /\ Aborted(op'[p])
  /\ v \in stale => v \in stale'
  /\ \/ Aborted(op'[p])
     \/ /\ s = "fetch" => /\ op'[p].fetched = env[v] /\ v \notin garbled
                          /\ late[v] = {} \/ v \in stale'
        /\ s = "mount" => <<v, d>> \in mounts'
        /\ s = "unmount" => <<v, d>> \notin mounts'

LEMMA UnmountShrinks ==
  ASSUME TypeInv, NEW p \in Proc, NEW s, BindStep(p, s, "UnmountPersistent")
  PROVE  mounts' \subseteq mounts
  <1>1. PICK host \in BindOutcomes("UnmountPersistent", op[p].vm, op[p].disk, Host) :
          mounts' = host.mounts
    BY DEF BindStep
  <1>2. \/ host = Host
        \/ host = [Host EXCEPT !.mounts = @ \ {<<op[p].vm, op[p].disk>>}]
    BY DEF BindOutcomes, Makes
  <1>3. Host \in Hosts /\ Host.mounts = mounts
    BY HostType DEF TypeInv, TypeOK, WorldOK
  <1> QED BY <1>1, <1>2, <1>3 DEF Hosts

LEMMA AttachEffect ==
  ASSUME TypeInv, NEW p \in Proc, Operation(p), op[p].call \in AttachCalls
  PROVE  AttachStep(p)
  <1> DEFINE f == op[p]
  <1>0. /\ f \in Frame /\ Shape(f) /\ f.todo # <<>> /\ f.vm \in VM /\ f.disk \in Disk
        /\ WorldOK
    BY OperationMoves, CallOfHead DEF TypeInv, TypeOK, Moves, AttachCalls, WorldOK
  <1>1. PICK v \in VM, d \in Disk : v = f.vm /\ d = f.disk
    BY <1>0
  <1>2. ASSUME UNCHANGED world \/ WorldKept, UNCHANGED director, Fault \/ NoFault,
               Head(f.todo) # "update",
               \/ Aborted(op'[p])
               \/ /\ Head(f.todo) \notin {"mount", "unmount"}
                  /\ Head(f.todo) = "fetch" =>
                       /\ op'[p].fetched = env[v] /\ v \notin garbled
                       /\ late[v] = {} \/ v \in stale'
        PROVE  AttachStep(p)
    <2>1. Keeps(v, d)
      BY <1>2, IdleWorld
    <2>2. /\ UNCHANGED <<container, env, late, garbled, ready, dir, mounts, rules, image>>
          /\ stale \subseteq stale'
      BY <1>2 DEF world, agent, WorldKept
    <2> QED BY <1>1, <1>2, <2>1, <2>2 DEF AttachStep
  <1>3. ASSUME Fail(p) PROVE AttachStep(p)
    <2>1. Keeps(v, d) /\ Aborted(op'[p]) /\ UNCHANGED <<world, director>>
      BY <1>3, FailEffect
    <2>2. UNCHANGED <<container, env, late, garbled, stale, ready, dir, mounts, rules,
                      image>>
      BY <2>1 DEF world, agent
    <2>3. \A w : Coming(w)' = Coming(w)
      BY <2>2 DEF Coming
    <2> QED BY <1>1, <2>1, <2>2, <2>3 DEF AttachStep
  <1>4. ASSUME FindVM(p) PROVE AttachStep(p)
    <2>1. UNCHANGED <<world, director>> /\ NoFault /\ Head(f.todo) = "findVM"
      BY <1>4 DEF FindVM, At
    <2> QED BY <1>2, <2>1
  <1>5. ASSUME Fetch(p) PROVE AttachStep(p)
    <2>1. WorldKept /\ UNCHANGED director /\ NoFault /\ Head(f.todo) = "fetch"
      BY <1>5, FetchMoves DEF Fetch
    <2>2. \/ Aborted(op'[p])
          \/ /\ op'[p].fetched = env[v] /\ v \notin garbled
             /\ late[v] = {} \/ v \in stale'
      BY <1>1, <1>5, FetchMoves
    <2> QED BY <1>2, <2>1, <2>2
  <1>6. ASSUME NEW s, NEW call \in DiskCalls, BindStep(p, s, call),
               \/ s = "mount" /\ call = "MountPersistent" /\ image[d] = "disk"
                  /\ f.call = "attach_disk"
               \/ s = "unmount" /\ call = "UnmountPersistent"
        PROVE  AttachStep(p)
    <2>0. call \in BindCall
      BY <1>6 DEF BindCall
    <2>1. /\ WorldOK' /\ Head(f.todo) = s
          /\ UNCHANGED <<container, env, late, garbled, stale, ready, rules, image, director>>
          /\ BindMoves(call, v, d, Host, Host')
          /\ \/ Abort(p, CleanUp(f.call, s))
             \/ BindDone(call, v, d, Host, Host')
      BY <1>0, <1>1, <1>6, <2>0, BindStepMoves
    <2>2. Host.dir = dir /\ Host.mounts = mounts /\ Host'.dir = dir' /\ Host'.mounts = mounts'
      BY DEF Host
    <2>3. /\ \A k \in Kind, w \in VM : w # v => dir'[k][w] = dir[k][w]
          /\ \A w \in VM, e \in Disk :
               w # v => (<<w, e>> \in mounts' <=> <<w, e>> \in mounts)
          /\ \A k \in Kind : dir[k][v] = "whole" => dir'[k][v] = "whole"
          /\ \A e \in Disk : e # d => (<<v, e>> \in mounts' <=> <<v, e>> \in mounts)
      BY <1>6, <2>1, <2>2 DEF BindMoves
    <2>4. Keeps(v, d)
      BY <2>1, <2>3 DEF Keeps, SameVM
    <2>5. call = "UnmountPersistent" /\ <<v, d>> \in mounts' => <<v, d>> \in mounts
      <3>1. call = "UnmountPersistent" => mounts' \subseteq mounts
        BY <1>1, <1>6, UnmountShrinks
      <3> QED BY <3>1
    <2>6. ASSUME ~Aborted(op'[p])
          PROVE  /\ s = "mount" => <<v, d>> \in mounts'
                 /\ s = "unmount" => <<v, d>> \notin mounts'
      <3>1. ~Abort(p, CleanUp(f.call, s))
        BY <1>0, <2>1, <2>6, AbortAborts
      <3>2. BindDone(call, v, d, Host, Host')
        BY <2>1, <3>1
      <3> QED BY <1>6, <2>2, <3>2 DEF BindDone, Makes
    <2> QED BY <1>1, <1>6, <2>1, <2>3, <2>4, <2>5, <2>6 DEF AttachStep
  <1>7. ASSUME Mount(p), f.call = "attach_disk" PROVE AttachStep(p)
    <2>1. CASE image[d] = "disk" /\ BindStep(p, "mount", "MountPersistent")
      BY <1>6, <1>7, <2>1 DEF DiskCalls
    <2>2. CASE /\ \E host \in BindOutcomes("MountPersistent", v, d, Host) :
                    dir' = host.dir
               /\ Abort(p, <<"fail">>) /\ NoFault
               /\ UNCHANGED <<container, env, late, garbled, stale, ready, mounts, rules,
                              image, director>>
      <3>1. PICK host \in BindOutcomes("MountPersistent", v, d, Host) : dir' = host.dir
        BY <2>2
      <3>2. "MountPersistent" \in BindCall /\ "MountPersistent" \in DiskCalls
        BY DEF BindCall, DiskCalls
      <3>3. BindMoves("MountPersistent", v, d, Host, host)
        BY <1>0, <3>2, HostType, BindEffect
      <3>4. Host.dir = dir
        BY DEF Host
      <3>5. /\ dir' \in [Kind -> [VM -> DirState]]
            /\ \A k \in Kind, w \in VM : w # v => dir'[k][w] = dir[k][w]
            /\ \A k \in Kind : dir[k][v] = "whole" => dir'[k][v] = "whole"
        BY <3>1, <3>2, <3>3, <3>4 DEF BindMoves, Hosts
      <3>6. WorldOK'
        BY <1>0, <2>2, <3>5, FaultCount DEF WorldOK
      <3>7. Keeps(v, d)
        BY <2>2, <3>5, <3>6 DEF Keeps, SameVM
      <3>8. Aborted(op'[p])
        BY <1>0, <2>2, AbortAborts
      <3>9. Head(f.todo) = "mount"
        BY <1>7 DEF Mount, At
      <3> QED BY <1>1, <2>2, <3>5, <3>7, <3>8, <3>9 DEF AttachStep
    <2> QED BY <1>1, <1>7, <2>1, <2>2 DEF Mount, agent
  <1>8. ASSUME Unmount(p) PROVE AttachStep(p)
    <2>1. CASE BindStep(p, "unmount", "UnmountPersistent")
      BY <1>6, <2>1 DEF DiskCalls
    <2>2. CASE /\ At(p, "unmount") /\ Abort(p, <<"fail">>) /\ NoFault
               /\ UNCHANGED <<world, director>>
      <3>1. Aborted(op'[p]) /\ Head(f.todo) # "update"
        BY <1>0, <2>2, AbortAborts DEF At
      <3> QED BY <1>2, <2>2, <3>1
    <2> QED BY <1>8, <2>1, <2>2 DEF Unmount
  <1>9. ASSUME Update(p) PROVE AttachStep(p)
    <2> DEFINE new == NewEnv(f)
    <2>1. /\ Head(f.todo) = "update" /\ (Fault \/ NoFault)
          /\ UNCHANGED <<stale, container, ready, dir, mounts, rules, image, director>>
          /\ \/ /\ env' = [env EXCEPT ![v] = new]
                /\ late' = [late EXCEPT ![v] = {}] /\ garbled' = garbled \ {v}
             \/ /\ late' = [late EXCEPT ![v] = {new}]
                /\ env' = env /\ garbled' = garbled
             \/ /\ garbled' \in {garbled, garbled \cup {v}}
                /\ env' = env /\ late' = late /\ Abort(p, <<"fail">>)
      BY <1>1, <1>9 DEF agent, Update, At, DoneOrLost
    <2>2. new \subseteq Disk
      BY <1>0 DEF NewEnv, Frame
    <2>a. new = NewEnv(f)
      OBVIOUS
    <2> HIDE DEF new
    <2>3. WorldOK'
      BY <1>0, <2>1, <2>2, FaultCount DEF WorldOK
    <2>4. \A w \in VM : w # v =>
            /\ env'[w] = env[w] /\ late'[w] = late[w]
            /\ w \in garbled' <=> w \in garbled
      BY <1>0, <2>1 DEF WorldOK
    <2>5. Keeps(v, d)
      BY <2>1, <2>3, <2>4 DEF Keeps, SameVM
    <2>6. \/ Coming(v)' = {new} /\ garbled' \subseteq garbled
          \/ Coming(v)' \subseteq Coming(v) /\ Aborted(op'[p])
      <3>1. CASE /\ env' = [env EXCEPT ![v] = new]
                 /\ late' = [late EXCEPT ![v] = {}] /\ garbled' = garbled \ {v}
        <4>1. late'[v] = {} /\ env'[v] = new /\ v \notin garbled'
          BY <1>0, <3>1 DEF WorldOK
        <4> QED BY <3>1, <4>1 DEF Coming
      <3>2. CASE /\ late' = [late EXCEPT ![v] = {new}] /\ garbled' = garbled
        <4>1. late'[v] = {new}
          BY <1>0, <3>2 DEF WorldOK
        <4> QED BY <3>2, <4>1 DEF Coming
      <3>3. CASE /\ garbled' \in {garbled, garbled \cup {v}}
                 /\ env' = env /\ late' = late /\ Abort(p, <<"fail">>)
        <4>1. Aborted(op'[p])
          BY <1>0, <3>3, AbortAborts
        <4> QED BY <3>3, <4>1 DEF Coming
      <3> QED BY <2>1, <3>1, <3>2, <3>3
    <2> QED BY <1>1, <2>1, <2>5, <2>6, <2>a DEF AttachStep
  <1> QED BY <1>3, <1>4, <1>5, <1>7, <1>8, <1>9, ActionsOfCall DEF AttachCalls

(***************************************************************************)
(* create_disk and delete_disk change the file of their disk only.         *)
(***************************************************************************)
ImageStep(p) ==
  /\ op[p].disk \in Disk /\ Keeps(op[p].vm, op[p].disk)
  /\ \A w \in VM : SameVM(w)
  /\ mounts' = mounts /\ rules' = rules /\ dir' = dir /\ ready' = ready

LEMMA ImageEffect ==
  ASSUME TypeInv, NEW p \in Proc, Operation(p), op[p].call \in ImageCalls
  PROVE  ImageStep(p)
  <1> DEFINE f == op[p]
  <1>0. /\ f \in Frame /\ Shape(f) /\ f.todo # <<>> /\ f.vm = NoVM /\ f.disk \in Disk
        /\ WorldOK
    BY OperationMoves, CallOfHead DEF TypeInv, TypeOK, Moves, ImageCalls, WorldOK
  <1>1. PICK d \in Disk : d = f.disk
    BY <1>0
  <1>2. ASSUME Fail(p) PROVE ImageStep(p)
    <2>1. Fault /\ UNCHANGED <<world, director>>
      BY <1>2 DEF Fail
    <2>2. Keeps(f.vm, d) /\ \A w \in VM : SameVM(w)
      BY <2>1, IdleWorld
    <2> QED BY <1>1, <2>1, <2>2 DEF ImageStep, world, agent
  <1>3. ASSUME BuildImage(p) \/ RemoveImage(p) \/ CleanUpFile(p) PROVE ImageStep(p)
    <2>1. /\ Fault \/ NoFault
          /\ \/ \E x \in {"none", "raw", "disk"} : image' = [image EXCEPT ![d] = x]
             \/ image' = image
          /\ UNCHANGED <<container, env, late, garbled, stale, ready, dir, mounts, rules, director>>
      BY <1>1, <1>3 DEF agent, BuildImage, RemoveImage, CleanUpFile, DoneOrLost
    <2>2. WorldOK'
      BY <1>0, <2>1, FaultCount DEF WorldOK
    <2>3. \A e \in Disk : e # d => image'[e] = image[e]
      BY <1>0, <2>1 DEF WorldOK
    <2>4. \A w \in VM : SameVM(w)
      BY <2>1 DEF SameVM
    <2> QED BY <1>1, <2>1, <2>2, <2>3, <2>4 DEF ImageStep, Keeps
  <1> QED BY <1>2, <1>3, ActionsOfCall DEF ImageCalls

LEMMA OperationKeeps ==
  ASSUME TypeInv, NEW p \in Proc, Operation(p)
  PROVE  Keeps(op[p].vm, op[p].disk)
  BY ActionsOfCall, CreationEffect, DeletionEffect, AttachEffect, ImageEffect
     DEF Call, VMCalls, AttachCalls, ImageCalls, CreationStep, DeletionStep,
         AttachStep, ImageStep

(***************************************************************************)
(* The other steps.                                                        *)
(***************************************************************************)
Starts(p, call, v, d) ==
  /\ op' \in [Proc -> Frame] /\ OthersSame(p) /\ Shape(op'[p])
  /\ op'[p].call = call /\ op'[p].vm = v /\ op'[p].disk = d
  /\ op'[p].todo = Plan[call] /\ op'[p].found = FALSE
  /\ op[p] = IdleFrame /\ call \in Call
  /\ UNCHANGED <<world, faults>>

LEMMA BeginMoves ==
  ASSUME TypeInv, NEW p \in Proc, NEW call, NEW v, NEW d, <<call, v, d>> \in Target,
         Begin(p, call, v, d)
  PROVE  Starts(p, call, v, d)
  <1>0. /\ call \in Call /\ call # "none" /\ v \in VM \cup {NoVM}
        /\ d \in Disk \cup {NoDisk} /\ Plan[call] \in Seq(Operations)
    BY Plans DEF Target, Call, VMCalls, AttachCalls, ImageCalls
  <1>1. PICK plan \in Seq(Operations) : plan = Plan[call]
    BY <1>0
  <1> DEFINE f == [IdleFrame EXCEPT !.call = call, !.vm = v, !.disk = d, !.todo = plan]
  <1>2. f \in Frame
    BY <1>0, IdleShape DEF Frame
  <1>3. /\ f.call = call /\ f.vm = v /\ f.disk = d /\ f.todo = plan
        /\ f.found = FALSE
    BY DEF IdleFrame
  <1>4. op' = [op EXCEPT ![p] = f] /\ UNCHANGED <<world, faults>> /\ ~Busy(p)
    BY <1>1 DEF Begin
  <1> HIDE DEF f
  <1>5. op' \in [Proc -> Frame] /\ OthersSame(p) /\ op'[p] = f
    BY <1>2, <1>4, MoveFrame DEF TypeInv
  <1>6. Shape(f)
    BY <1>0, <1>1, <1>3, PlanBegins DEF Shape
  <1>7. op[p] = IdleFrame
    BY <1>4 DEF TypeInv, Shape, Busy
  <1> QED BY <1>0, <1>1, <1>3, <1>4, <1>5, <1>6, <1>7 DEF Starts

LEMMA FinishMoves ==
  ASSUME TypeInv, NEW p \in Proc, Finish(p)
  PROVE  /\ op' \in [Proc -> Frame] /\ OthersSame(p) /\ op'[p] = IdleFrame
         /\ Shape(op'[p])
  BY IdleShape, MoveFrame DEF TypeInv, Finish

\* What was streamed in arrives: what is coming stays so.
Settles(w) ==
  /\ late[w] = {} => env'[w] = env[w] /\ late'[w] = {}
  /\ Coming(w)' \subseteq Coming(w)
  /\ w \in garbled' => w \in garbled
  /\ w \in stale => w \in stale'
  /\ \A d \in Disk : <<w, d>> \in mounts' <=> <<w, d>> \in mounts

LEMMA SameSettles ==
  ASSUME NEW w, SameVM(w)
  PROVE  Settles(w)
  BY DEF SameVM, Settles, Coming

LEMMA ArriveMoves ==
  ASSUME TypeInv, NEW v \in VM, Arrive(v)
  PROVE  /\ op' = op /\ WorldOK' /\ UNCHANGED director
         /\ UNCHANGED <<container, ready, dir, mounts, rules, image>>
         /\ \A w \in VM : Settles(w)
  <1>0. WorldOK
    BY DEF TypeInv, TypeOK, WorldOK
  <1>1. /\ op' = op /\ faults' = faults /\ UNCHANGED director /\ stale' = stale
        /\ UNCHANGED <<container, ready, dir, mounts, rules, image>>
        /\ late[v] # {} /\ garbled' = garbled \ {v}
        /\ late' = [late EXCEPT ![v] = {}]
    BY DEF Arrive
  <1>2. PICK e \in late[v] : env' = [env EXCEPT ![v] = e]
    BY DEF Arrive
  <1>3. e \in SUBSET Disk
    BY <1>0, <1>2 DEF WorldOK
  <1>4. /\ env' \in [VM -> SUBSET Disk] /\ late' \in [VM -> SUBSET (SUBSET Disk)]
        /\ env'[v] = e /\ late'[v] = {} /\ v \notin garbled'
        /\ \A w \in VM : w # v => env'[w] = env[w] /\ late'[w] = late[w]
    BY <1>0, <1>1, <1>2, <1>3 DEF WorldOK
  <1>5. WorldOK'
    BY <1>0, <1>1, <1>4 DEF WorldOK
  <1>6. Settles(v)
    BY <1>1, <1>2, <1>4 DEF Settles, Coming
  <1>7. \A w \in VM : w # v => Settles(w)
    BY <1>1, <1>4 DEF Settles, Coming
  <1> QED BY <1>1, <1>5, <1>6, <1>7

LEMMA RebootMoves ==
  ASSUME TypeInv, Reboot
  PROVE  /\ op' \in [Proc -> Frame] /\ \A q \in Proc : op'[q] = IdleFrame /\ Shape(op'[q])
         /\ WorldOK'
         /\ belief' \in [VM -> [Disk -> {"no", "yes", "unsure"}]]
  <1>1. op' = [p \in Proc |-> IdleFrame]
    BY DEF Reboot
  <1>2. PICK kept \in SUBSET VM :
       /\ container' = [v \in VM |-> IF container[v] # "none" /\ v \in kept
                                       THEN "stopped" ELSE "none"]
       /\ env' = [v \in VM |-> IF v \in kept THEN env[v] ELSE {}]
       /\ late' = [v \in VM |-> IF v \in kept THEN late[v] ELSE {}]
       /\ garbled' = garbled \cap kept
       /\ ready' = {e \in ready : e[1] \in kept /\ e[2] # "start"}
    BY DEF Reboot
  <1>3. WorldOK
    BY DEF TypeInv, TypeOK, WorldOK
  <1>4. dir' \in [Kind -> [VM -> DirState]]
    BY DEF Reboot, DirState
  <1>5. mounts' = {} /\ rules' = [v \in VM |-> "none"] /\ image' = image /\ Fault
        /\ stale' = stale
    BY DEF Reboot
  <1>6. rules' \in [VM -> RulesState]
    BY <1>5 DEF RulesState
  <1>7. env' \in [VM -> SUBSET Disk] /\ late' \in [VM -> SUBSET (SUBSET Disk)]
    BY <1>2, <1>3 DEF WorldOK
  <1>8. WorldOK'
    BY <1>2, <1>3, <1>4, <1>5, <1>6, <1>7, FaultCount DEF WorldOK
  <1>9. belief' = [v \in VM |-> [d \in Disk |->
                 IF belief[v][d] = "yes" THEN "unsure" ELSE belief[v][d]]]
    BY DEF Reboot
  <1>10. belief' \in [VM -> [Disk -> {"no", "yes", "unsure"}]]
    BY <1>9 DEF TypeInv, TypeOK
  <1> QED BY <1>1, <1>8, <1>10, IdleShape

LEMMA TypeParts ==
  TypeInv <=> /\ op \in [Proc -> Frame] /\ \A p \in Proc : Shape(op[p])
              /\ WorldOK
              /\ known \in [VM \cup Disk -> Known]
              /\ belief \in [VM -> [Disk -> {"no", "yes", "unsure"}]]
  BY DEF TypeInv, TypeOK, WorldOK, Frame

LEMMA TypeInit ==
  ASSUME Init PROVE TypeInv
  <1>1. op \in [Proc -> Frame] /\ \A p \in Proc : Shape(op[p])
    BY IdleShape DEF Init
  <1>2. WorldOK
    BY MaxFaultsAssumption DEF Init, WorldOK, DirState, RulesState
  <1>3. /\ known \in [VM \cup Disk -> Known]
        /\ belief \in [VM -> [Disk -> {"no", "yes", "unsure"}]]
    BY DEF Init, Known
  <1> QED BY <1>1, <1>2, <1>3, TypeParts

\* The director's tables stay of their types whatever is told.
LEMMA DirectorTypes ==
  ASSUME TypeInv, NEW p \in Proc,
         Return(p) \/ \E call, v, d :
                         <<call, v, d>> \in Target /\ Begin(p, call, v, d)
  PROVE  /\ known' \in [VM \cup Disk -> Known]
         /\ belief' \in [VM -> [Disk -> {"no", "yes", "unsure"}]]
  <1>0. /\ known \in [VM \cup Disk -> Known]
        /\ belief \in [VM -> [Disk -> {"no", "yes", "unsure"}]]
        /\ op[p] \in Frame
    BY DEF TypeInv, TypeOK
  <1>1. CASE Return(p)
    <2>1. known' \in [VM \cup Disk -> Known]
      BY <1>0, <1>1 DEF Return, Known
    <2>2. belief' \in [VM -> [Disk -> {"no", "yes", "unsure"}]]
      BY <1>0, <1>1 DEF Return
    <2> QED BY <2>1, <2>2
  <1>2. ASSUME NEW call, NEW v, NEW d, <<call, v, d>> \in Target, Begin(p, call, v, d)
        PROVE  /\ known' \in [VM \cup Disk -> Known]
               /\ belief' \in [VM -> [Disk -> {"no", "yes", "unsure"}]]
    <2>1. known' \in [VM \cup Disk -> Known]
      BY <1>0, <1>2 DEF Begin, Known
    <2>2. belief' \in [VM -> [Disk -> {"no", "yes", "unsure"}]]
      BY <1>0, <1>2 DEF Begin
    <2> QED BY <2>1, <2>2
  <1> QED BY <1>1, <1>2

LEMMA ReturnMoves ==
  ASSUME TypeInv, NEW p \in Proc, Return(p)
  PROVE  /\ Finish(p) /\ UNCHANGED <<world, faults>>
         /\ op[p].call # "none"
         /\ op[p].todo = <<>> \/ Aborted(op[p])
  BY DEF Return, Succeeded, Failed, Busy, Aborted

\* The steps, with the arguments of Begin named.
LEMMA Steps ==
  ASSUME [Next]_vars
  PROVE  \/ \E p \in Proc, call \in Call, v \in VM \cup {NoVM}, d \in Disk \cup {NoDisk} :
              <<call, v, d>> \in Target /\ Begin(p, call, v, d)
         \/ \E p \in Proc : Operation(p) \/ Return(p) \/ Crash(p)
         \/ \E v \in VM : Arrive(v)
         \/ Reboot
         \/ UNCHANGED vars
  <1>1. ASSUME NEW p \in Proc, NEW t \in Target, Begin(p, t[1], t[2], t[3])
        PROVE  \E call \in Call, v \in VM \cup {NoVM}, d \in Disk \cup {NoDisk} :
                 <<call, v, d>> \in Target /\ Begin(p, call, v, d)
    <2>1. /\ t[1] \in Call /\ t[2] \in VM \cup {NoVM} /\ t[3] \in Disk \cup {NoDisk}
          /\ <<t[1], t[2], t[3]>> \in Target
      BY DEF Target, Call
    <2> QED BY <1>1, <2>1, Zenon
  <1> QED BY <1>1 DEF Next

LEMMA TypeNext ==
  ASSUME TypeInv, [Next]_vars
  PROVE  TypeInv'
  <1>0. /\ WorldOK /\ known \in [VM \cup Disk -> Known]
        /\ belief \in [VM -> [Disk -> {"no", "yes", "unsure"}]]
        /\ \A q \in Proc : Shape(op[q])
    BY TypeParts
  <1>a. ASSUME op' \in [Proc -> Frame], \A q \in Proc : Shape(op'[q]), WorldOK',
               known' \in [VM \cup Disk -> Known],
               belief' \in [VM -> [Disk -> {"no", "yes", "unsure"}]]
        PROVE  TypeInv'
    BY <1>a DEF TypeInv, TypeOK, WorldOK, Frame
  <1>1. ASSUME NEW p \in Proc, NEW call, NEW v, NEW d,
               <<call, v, d>> \in Target, Begin(p, call, v, d)
        PROVE  TypeInv'
    <2>1. /\ op' \in [Proc -> Frame] /\ OthersSame(p) /\ Shape(op'[p])
          /\ UNCHANGED <<world, faults>>
      BY <1>1, BeginMoves DEF Starts
    <2>2. WorldOK'
      BY <1>0, <2>1 DEF WorldOK, world, agent
    <2>3. \A q \in Proc : Shape(op'[q])
      BY <1>0, <2>1 DEF OthersSame
    <2> QED BY <1>1, <2>1, <2>2, <2>3, DirectorTypes, <1>a
  <1>2. ASSUME NEW p \in Proc, Operation(p) PROVE TypeInv'
    <2>1. op' \in [Proc -> Frame] /\ OthersSame(p) /\ Shape(op'[p])
      BY <1>2, OperationMoves DEF Moves
    <2>2. WorldOK' /\ UNCHANGED director
      BY <1>2, OperationKeeps DEF Keeps
    <2>3. \A q \in Proc : Shape(op'[q])
      BY <1>0, <2>1 DEF OthersSame
    <2> QED BY <1>0, <2>1, <2>2, <2>3, <1>a DEF director
  <1>3. ASSUME NEW p \in Proc, Return(p) PROVE TypeInv'
    <2>1. /\ op' \in [Proc -> Frame] /\ OthersSame(p) /\ Shape(op'[p])
          /\ UNCHANGED <<world, faults>>
      BY <1>3, ReturnMoves, FinishMoves
    <2>2. WorldOK'
      BY <1>0, <2>1 DEF WorldOK, world, agent
    <2>3. \A q \in Proc : Shape(op'[q])
      BY <1>0, <2>1 DEF OthersSame
    <2> QED BY <1>3, <2>1, <2>2, <2>3, DirectorTypes, <1>a
  <1>4. ASSUME NEW p \in Proc, Crash(p) PROVE TypeInv'
    <2>1. /\ op' \in [Proc -> Frame] /\ OthersSame(p) /\ Shape(op'[p])
          /\ UNCHANGED <<world, director>> /\ Fault
      BY <1>4, FinishMoves DEF Crash
    <2>2. WorldOK' /\ UNCHANGED director
      BY <2>1, IdleWorld DEF Keeps
    <2>3. \A q \in Proc : Shape(op'[q])
      BY <1>0, <2>1 DEF OthersSame
    <2> QED BY <1>0, <2>1, <2>2, <2>3, <1>a DEF director
  <1>5. ASSUME Reboot PROVE TypeInv'
    BY <1>0, <1>5, RebootMoves, <1>a DEF Reboot
  <1>6. ASSUME UNCHANGED vars PROVE TypeInv'
    BY <1>6 DEF vars, world, agent, director, TypeInv, TypeOK, Shape, OnPlan, Aborted
  <1>7. ASSUME NEW v \in VM, Arrive(v) PROVE TypeInv'
    <2>1. op' = op /\ WorldOK' /\ UNCHANGED director
      BY <1>7, ArriveMoves
    <2>2. op' \in [Proc -> Frame] /\ \A q \in Proc : Shape(op'[q])
      BY <1>0, <2>1 DEF TypeInv
    <2> QED BY <1>0, <2>1, <2>2, <1>a DEF director
  <1> QED BY <1>1, <1>2, <1>3, <1>4, <1>5, <1>6, <1>7, Steps

\* Every variable keeps its type, in every interleaving of the director's
\* calls with failures, crashes and reboots: in particular no operation of
\* warden_creator.go, warden_vm.go or fs_factory.go runs with the VM or disk
\* of another call's plan.
THEOREM TypeCorrect == Spec => []TypeOK
  <1>1. Init => TypeInv
    BY TypeInit
  <1>2. TypeInv /\ [Next]_vars => TypeInv'
    BY TypeNext
  <1>3. TypeInv => TypeOK
    BY DEF TypeInv
  <1> QED BY <1>1, <1>2, <1>3, PTL DEF Spec

(***************************************************************************)
(* The director's lock and tables.                                         *)
(***************************************************************************)
LEMMA BusyTarget ==
  ASSUME NEW f \in Frame, Shape(f)
  PROVE  /\ f.call \in Call \cup {"none"}
         /\ f.call \in VMCalls \cup AttachCalls => f.vm \in VM
         /\ f.call \in AttachCalls \cup ImageCalls => f.disk \in Disk
         /\ f.call \in VMCalls => f.disk = NoDisk
         /\ f.call \in ImageCalls => f.vm = NoVM
         /\ f.call = "none" => f.vm = NoVM /\ f.disk = NoDisk
  BY IdleShape DEF Frame, Shape, Target, Call, VMCalls, AttachCalls, ImageCalls

LEMMA LockKept ==
  ASSUME Locked, NEW p \in Proc, OthersSame(p),
         \/ op'[p].vm = op[p].vm /\ op'[p].disk = op[p].disk /\ op'[p].call = op[p].call
         \/ op'[p].vm = NoVM /\ op'[p].disk = NoDisk
  PROVE  Locked'
  BY DEF Locked, OthersSame, Apart

\* What Staged says of a frame survives as long as the director's tables
\* stay the same where the frame looks.
LEMMA StagedKept ==
  ASSUME NEW q \in Proc, Staged(op[q]), op[q] \in Frame, Shape(op[q]),
         op'[q].call = op[q].call, op'[q].vm = op[q].vm, op'[q].disk = op[q].disk,
         op[q].call \in VMCalls \cup AttachCalls =>
           known'[op[q].vm] = known[op[q].vm],
         op[q].call \in AttachCalls \cup ImageCalls =>
           /\ known'[op[q].disk] = known[op[q].disk]
           /\ \A w \in VM : belief'[w][op[q].disk] = belief[w][op[q].disk]
  PROVE  Staged(op[q])'
  <1> DEFINE f == op[q]
  <1>1. f.call \in AttachCalls => belief'[f.vm][f.disk] = belief[f.vm][f.disk]
    BY BusyTarget
  <1> QED BY <1>1, BusyTarget
          DEF Staged, Nowhere, Elsewhere, VMCalls, AttachCalls, ImageCalls

LEMMA IdleStaged ==
  ASSUME NEW q \in Proc, op'[q] = IdleFrame
  PROVE  Staged(op[q])'
  BY IdleShape DEF Staged, AttachCalls

LEMMA DirectorInit ==
  ASSUME Init PROVE DirectorInv
  <1>1. \A p \in Proc : op[p] = IdleFrame
    BY DEF Init
  <1>2. Locked
    BY <1>1, IdleShape DEF Locked, Apart
  <1>3. \A p \in Proc : Staged(op[p])
    BY <1>1, IdleShape DEF Staged, AttachCalls
  <1>4. Unmade
    BY DEF Init, Unmade, Nowhere
  <1> QED BY <1>2, <1>3, <1>4 DEF DirectorInv

LEMMA DirectorBegin ==
  ASSUME Overlap \subseteq {"delete_vm"}, TypeInv, DirectorInv,
         NEW p \in Proc, NEW call, NEW v, NEW d, <<call, v, d>> \in Target,
         Begin(p, call, v, d)
  PROVE  DirectorInv'
  <1>0. /\ \A q \in Proc : op[q] \in Frame /\ Shape(op[q]) /\ Staged(op[q])
        /\ Locked /\ Unmade /\ known \in [VM \cup Disk -> Known]
        /\ belief \in [VM -> [Disk -> {"no", "yes", "unsure"}]]
    BY DEF TypeInv, TypeOK, DirectorInv
  <1>a. Starts(p, call, v, d)
    BY BeginMoves
  <1>1. /\ OthersSame(p) /\ op'[p].call = call /\ op'[p].vm = v /\ op'[p].disk = d
        /\ call \in Call
    BY <1>a DEF Starts
  <1>2. /\ call \in VMCalls \cup AttachCalls => v \in VM
        /\ call \in AttachCalls \cup ImageCalls => d \in Disk
        /\ call \in VMCalls => d = NoDisk
        /\ call \in ImageCalls => v = NoVM
    BY DEF Target, VMCalls, AttachCalls, ImageCalls
  <1>3. /\ Allowed(call, v, d) /\ Admitted(call, v, d)
        /\ known' = [x \in VM \cup Disk |->
                CASE call = "create_vm" /\ x = v   -> "creating"
                  [] call = "delete_vm" /\ x = v   -> "deleting"
                  [] call = "create_disk" /\ x = d -> "creating"
                  [] call = "delete_disk" /\ x = d -> "deleting"
                  [] OTHER -> known[x]]
        /\ belief' = IF call \in AttachCalls THEN [belief EXCEPT ![v][d] = "unsure"]
                     ELSE belief
    BY DEF Begin
  <1>4. ASSUME NEW q \in Proc, q # p
        PROVE  \/ Apart(op'[p], op[q])
               \/ call = "delete_vm" /\ op[q].call = "delete_vm"
    BY <1>1, <1>3, <1>4 DEF Admitted, Apart
  <1>5. Locked'
    BY <1>0, <1>1, <1>4 DEF Locked, OthersSame, Apart
  <1>6. /\ \A x \in VM : known'[x] =
             IF x = v /\ call \in VMCalls
               THEN IF call = "create_vm" THEN "creating" ELSE "deleting"
               ELSE known[x]
        /\ \A x \in Disk : known'[x] =
             IF x = d /\ call \in ImageCalls
               THEN IF call = "create_disk" THEN "creating" ELSE "deleting"
               ELSE known[x]
    BY <1>2, <1>3, DisjointAssumption, NoVMAssumption, NoDiskAssumption
       DEF VMCalls, AttachCalls, ImageCalls
  <1>7. \A w \in VM, e \in Disk : belief'[w][e] =
          IF w = v /\ e = d /\ call \in AttachCalls THEN "unsure" ELSE belief[w][e]
    BY <1>0, <1>2, <1>3
  <1>8. ASSUME NEW q \in Proc, q # p PROVE Staged(op[q])'
    <2>1. op'[q] = op[q]
      BY <1>1, <1>8 DEF OthersSame
    <2>2. CASE Apart(op'[p], op[q])
      <3>1. op[q].vm \in VM => op[q].vm # v
        BY <1>1, <2>2, NoVMAssumption DEF Apart
      <3>2. op[q].disk \in Disk => op[q].disk # d
        BY <1>1, <2>2, NoDiskAssumption DEF Apart
      <3>3. op[q].vm \in VM => known'[op[q].vm] = known[op[q].vm]
        BY <1>6, <3>1
      <3>4. op[q].disk \in Disk =>
              /\ known'[op[q].disk] = known[op[q].disk]
              /\ \A w \in VM : belief'[w][op[q].disk] = belief[w][op[q].disk]
        BY <1>6, <1>7, <3>2
      <3>5. op[q] \in Frame /\ Shape(op[q]) /\ Staged(op[q])
        BY <1>0
      <3> QED BY <2>1, <3>3, <3>4, <3>5, BusyTarget, StagedKept
    <2>3. CASE call = "delete_vm" /\ op[q].call = "delete_vm"
      <3>1. Staged(op[q]) /\ op[q].vm \in VM
        BY <1>0, <2>3, BusyTarget DEF VMCalls
      <3>2. known'[op[q].vm] = "deleting"
        BY <1>6, <2>3, <3>1 DEF Staged, VMCalls
      <3> QED BY <2>1, <2>3, <3>2 DEF Staged, AttachCalls
    <2> QED BY <1>4, <1>8, <2>2, <2>3
  <1>9. Staged(op[p])'
    <2>1. CASE call \in VMCalls
      BY <1>1, <1>2, <1>6, <2>1 DEF Staged, VMCalls, AttachCalls
    <2>2. CASE call \in ImageCalls
      <3>1. call = "delete_disk" => \A w \in VM : belief[w][d] = "no"
        BY <1>3 DEF Allowed
      <3>2. \A w \in VM : belief'[w][d] = belief[w][d]
        BY <1>2, <1>7, <2>2 DEF AttachCalls, ImageCalls
      <3> QED BY <1>1, <1>2, <1>6, <2>2, <3>1, <3>2
              DEF Staged, Nowhere, AttachCalls, ImageCalls
    <2>3. CASE call \in AttachCalls
      <3>1. known[v] = "known" /\ known[d] = "known"
        BY <1>3, <2>3 DEF Allowed, AttachCalls
      <3>2. known'[v] = "known" /\ known'[d] = "known" /\ belief'[v][d] = "unsure"
        BY <1>2, <1>6, <1>7, <2>3, <3>1 DEF VMCalls, AttachCalls, ImageCalls
      <3>3. call = "attach_disk" => \A w \in VM \ {v} : belief[w][d] = "no"
        BY <1>3 DEF Allowed
      <3>4. call = "attach_disk" => \A w \in VM \ {v} : belief'[w][d] = "no"
        BY <1>2, <1>7, <2>3, <3>3
      <3> QED BY <1>1, <2>3, <3>2, <3>4 DEF Staged, Elsewhere, AttachCalls
    <2> QED BY <1>1, <2>1, <2>2, <2>3 DEF Call
  <1>10. Unmade'
    <2>1. call \in AttachCalls => known[v] = "known" /\ known[d] = "known"
      BY <1>3 DEF Allowed, AttachCalls
    <2>2. call = "create_vm" => known[v] = "fresh"
      BY <1>3 DEF Allowed
    <2>3. call = "create_disk" => known[d] = "fresh"
      BY <1>3 DEF Allowed
    <2>4. ASSUME NEW w \in VM, known'[w] \in {"fresh", "creating"}
          PROVE  known[w] \in {"fresh", "creating"}
      BY <1>6, <2>2, <2>4 DEF VMCalls
    <2>5. ASSUME NEW e \in Disk, known'[e] \in {"fresh", "creating"}
          PROVE  known[e] \in {"fresh", "creating"}
      BY <1>6, <2>3, <2>5 DEF ImageCalls
    <2>6. ASSUME NEW w \in VM, NEW e \in Disk,
                 \/ known[w] \in {"fresh", "creating"}
                 \/ known[e] \in {"fresh", "creating"}
          PROVE  belief'[w][e] = belief[w][e]
      BY <1>7, <2>1, <2>6
    <2> QED BY <1>0, <2>4, <2>5, <2>6 DEF Unmade, Nowhere
  <1> QED BY <1>5, <1>8, <1>9, <1>10 DEF DirectorInv

LEMMA DirectorReturn ==
  ASSUME TypeInv, DirectorInv, NEW p \in Proc, Return(p)
  PROVE  DirectorInv'
  <1> DEFINE f == op[p]
  <1>0. /\ \A q \in Proc : op[q] \in Frame /\ Shape(op[q]) /\ Staged(op[q])
        /\ Locked /\ Unmade /\ known \in [VM \cup Disk -> Known]
        /\ belief \in [VM -> [Disk -> {"no", "yes", "unsure"}]]
    BY DEF TypeInv, TypeOK, DirectorInv
  <1>1. OthersSame(p) /\ op'[p] = IdleFrame
    BY ReturnMoves, FinishMoves
  <1>2. Locked'
    BY <1>0, <1>1, IdleShape, LockKept
  <1>3. /\ f.call = "create_vm" => f.vm \in VM
        /\ f.call = "create_disk" => f.disk \in Disk
        /\ f.call \in AttachCalls => f.vm \in VM /\ f.disk \in Disk
        /\ f.call = "delete_vm" => f.vm \in VM
    BY <1>0, BusyTarget DEF VMCalls, ImageCalls
  <1>4. /\ known' = IF Succeeded(p) /\ f.call \in {"create_vm", "create_disk"}
                THEN [known EXCEPT ![IF f.call = "create_vm" THEN f.vm ELSE f.disk]
                        = "known"]
                ELSE known
        /\ belief' =
             CASE Succeeded(p) /\ f.call = "attach_disk" ->
                    [belief EXCEPT ![f.vm][f.disk] = "yes"]
               [] Succeeded(p) /\ f.call = "detach_disk" ->
                    [belief EXCEPT ![f.vm][f.disk] = "no"]
               [] Succeeded(p) /\ f.call = "delete_vm" ->
                    [belief EXCEPT ![f.vm] = [d \in Disk |-> "no"]]
               [] OTHER -> belief
    BY DEF Return
  <1>5. /\ \A x \in VM : known'[x] = known[x] \/ (f.call = "create_vm" /\ x = f.vm)
        /\ \A x \in Disk : known'[x] = known[x] \/ (f.call = "create_disk" /\ x = f.disk)
        /\ \A x \in VM \cup Disk : known'[x] \in {known[x], "known"}
    BY <1>0, <1>3, <1>4, DisjointAssumption
  <1>6. \A w \in VM, e \in Disk :
          \/ belief'[w][e] = belief[w][e]
          \/ f.call \in AttachCalls /\ w = f.vm /\ e = f.disk
          \/ f.call = "delete_vm" /\ w = f.vm /\ belief'[w][e] = "no"
    BY <1>0, <1>3, <1>4 DEF AttachCalls
  <1>7. ASSUME NEW q \in Proc, q # p PROVE Staged(op[q])'
    <2> DEFINE g == op[q]
    <2>1. op'[q] = g
      BY <1>1, <1>7 DEF OthersSame
    <2>2. Apart(f, g) \/ (f.call = "delete_vm" /\ g.call = "delete_vm")
      BY <1>0, <1>7 DEF Locked
    <2>3. CASE Apart(f, g)
      <3>1. g.vm \in VM => g.vm # f.vm
        BY <2>3, NoVMAssumption DEF Apart
      <3>2. g.disk \in Disk => g.disk # f.disk
        BY <2>3, NoDiskAssumption DEF Apart
      <3>3. g.vm \in VM => known'[g.vm] = known[g.vm]
        BY <1>5, <3>1
      <3>4. g.disk \in Disk => known'[g.disk] = known[g.disk]
        BY <1>5, <3>2
      <3>5. CASE f.call = "delete_vm" /\ g.call = "delete_disk"
        BY <1>0, <1>6, <2>1, <3>4, <3>5, BusyTarget
           DEF Staged, Nowhere, AttachCalls, ImageCalls
      <3>6. CASE f.call = "delete_vm" /\ g.call \in AttachCalls
        <4>1. /\ g.vm \in VM /\ g.disk \in Disk /\ g.vm # f.vm
              /\ belief'[g.vm][g.disk] = belief[g.vm][g.disk]
          BY <1>0, <1>6, <3>1, <3>6, BusyTarget DEF AttachCalls
        <4>2. g.call = "attach_disk" => Elsewhere(g.vm, g.disk)
          BY <1>0 DEF Staged
        <4>3. g.call = "attach_disk" =>
                \A w \in VM \ {g.vm} : belief'[w][g.disk] = "no"
          BY <1>6, <3>6, <4>1, <4>2 DEF Elsewhere, AttachCalls
        <4> QED BY <1>0, <2>1, <3>3, <3>4, <3>6, <4>1, <4>3
                DEF Staged, Elsewhere, AttachCalls
      <3>7. CASE f.call # "delete_vm" \/ g.call \notin {"delete_disk"} \cup AttachCalls
        <4>1. g.call \in AttachCalls \cup {"delete_disk"} =>
                \A w \in VM : belief'[w][g.disk] = belief[w][g.disk]
          BY <1>0, <1>6, <3>2, <3>7, BusyTarget DEF ImageCalls
        <4> QED BY <1>0, <2>1, <3>3, <3>4, <4>1, BusyTarget
                DEF Staged, Nowhere, Elsewhere, VMCalls, AttachCalls, ImageCalls
      <3> QED BY <3>5, <3>6, <3>7
    <2>4. CASE f.call = "delete_vm" /\ g.call = "delete_vm"
      <3>1. g.vm \in VM /\ known[g.vm] = "deleting"
        BY <1>0, <2>4, BusyTarget DEF Staged, VMCalls
      <3>2. known'[g.vm] = "deleting"
        BY <1>5, <2>4, <3>1
      <3> QED BY <2>1, <2>4, <3>2 DEF Staged, AttachCalls
    <2> QED BY <2>2, <2>3, <2>4
  <1>8. Staged(op[p])'
    BY <1>1, IdleStaged
  <1>9. Unmade'
    <2>1. f.call \in AttachCalls => known[f.vm] = "known" /\ known[f.disk] = "known"
      BY <1>0 DEF Staged
    <2>2. \A x \in VM \cup Disk :
            known'[x] \in {"fresh", "creating"} => known[x] \in {"fresh", "creating"}
      BY <1>5
    <2>3. ASSUME NEW w \in VM, NEW e \in Disk,
                 \/ known[w] \in {"fresh", "creating"}
                 \/ known[e] \in {"fresh", "creating"}
          PROVE  belief'[w][e] = belief[w][e] \/ belief'[w][e] = "no"
      BY <1>6, <2>1, <2>3
    <2> QED BY <1>0, <2>2, <2>3 DEF Unmade, Nowhere
  <1> QED BY <1>2, <1>7, <1>8, <1>9 DEF DirectorInv

LEMMA DirectorUntouched ==
  ASSUME TypeInv, DirectorInv, NEW p \in Proc, UNCHANGED director, OthersSame(p),
         \/ op'[p].vm = op[p].vm /\ op'[p].disk = op[p].disk /\ op'[p].call = op[p].call
         \/ op'[p] = IdleFrame
  PROVE  DirectorInv'
  <1>1. known' = known /\ belief' = belief
    BY DEF director
  <1>2. Locked'
    BY IdleShape, LockKept DEF DirectorInv
  <1>3. Unmade'
    BY <1>1 DEF DirectorInv, Unmade, Nowhere
  <1>4. ASSUME NEW q \in Proc PROVE Staged(op[q])'
    <2>1. op[q] \in Frame /\ Shape(op[q]) /\ Staged(op[q])
      BY DEF TypeInv, DirectorInv
    <2>2. CASE op'[q] = IdleFrame
      BY <2>2, IdleStaged
    <2>3. CASE op'[q].vm = op[q].vm /\ op'[q].disk = op[q].disk /\ op'[q].call = op[q].call
      BY <1>1, <2>1, <2>3, StagedKept
    <2> QED BY <2>2, <2>3 DEF OthersSame
  <1> QED BY <1>2, <1>3, <1>4 DEF DirectorInv

LEMMA DirectorReboot ==
  ASSUME TypeInv, DirectorInv, Reboot
  PROVE  DirectorInv'
  <1>1. /\ \A q \in Proc : op'[q] = IdleFrame
        /\ known' = known
        /\ belief' = [v \in VM |-> [d \in Disk |->
                 IF belief[v][d] = "yes" THEN "unsure" ELSE belief[v][d]]]
    BY RebootMoves DEF Reboot
  <1>2. Locked'
    BY <1>1, IdleShape DEF Locked, Apart
  <1>3. \A q \in Proc : Staged(op[q])'
    BY <1>1, IdleStaged
  <1>4. \A v \in VM, d \in Disk : belief[v][d] = "no" => belief'[v][d] = "no"
    BY <1>1
  <1>5. Unmade'
    BY <1>1, <1>4 DEF DirectorInv, Unmade, Nowhere
  <1> QED BY <1>2, <1>3, <1>5 DEF DirectorInv

LEMMA DirectorNext ==
  ASSUME Overlap \subseteq {"delete_vm"}, TypeInv, DirectorInv, [Next]_vars
  PROVE  DirectorInv'
  <1>1. ASSUME NEW p \in Proc, NEW call, NEW v, NEW d,
               <<call, v, d>> \in Target, Begin(p, call, v, d)
        PROVE  DirectorInv'
    BY <1>1, DirectorBegin
  <1>2. ASSUME NEW p \in Proc, Operation(p) PROVE DirectorInv'
    <2>1. Moves(p)
      BY <1>2, OperationMoves
    <2>2. UNCHANGED director
      BY <1>2, OperationKeeps DEF Keeps
    <2> QED BY <2>1, <2>2, DirectorUntouched DEF Moves
  <1>3. ASSUME NEW p \in Proc, Return(p) PROVE DirectorInv'
    BY <1>3, DirectorReturn
  <1>4. ASSUME NEW p \in Proc, Crash(p) PROVE DirectorInv'
    <2>1. OthersSame(p) /\ op'[p] = IdleFrame /\ UNCHANGED director
      BY <1>4, FinishMoves DEF Crash
    <2> QED BY <2>1, DirectorUntouched
  <1>5. ASSUME Reboot PROVE DirectorInv'
    BY <1>5, DirectorReboot
  <1>6. ASSUME UNCHANGED vars PROVE DirectorInv'
    BY <1>6 DEF vars, director, DirectorInv, Locked, Unmade, Nowhere, Apart,
                Staged, Elsewhere
  <1>7. ASSUME NEW v \in VM, Arrive(v) PROVE DirectorInv'
    <2>1. op' = op /\ UNCHANGED director
      BY <1>7, ArriveMoves
    <2> QED BY <2>1 DEF director, DirectorInv, Locked, Unmade, Nowhere, Apart,
                        Staged, Elsewhere
  <1> QED BY <1>1, <1>2, <1>3, <1>4, <1>5, <1>6, <1>7, Steps

(***************************************************************************)
(* What an operation leaves alone of the VM of another call.               *)
(***************************************************************************)
StaysGone(v) ==
  /\ container[v] = "none" => container'[v] = "none"
  /\ rules[v] = "none" => rules'[v] = "none"
  /\ dir["eph"][v] = "none" => dir'["eph"][v] = "none"
  /\ dir["per"][v] = "none" => dir'["per"][v] = "none"
  /\ \A d \in Disk : <<v, d>> \in mounts' => <<v, d>> \in mounts

\* Two deletions of one VM may meet; all other calls leave each other's VM
\* as it is.
LEMMA OtherVM ==
  ASSUME TypeInv, Locked, NEW p \in Proc, Operation(p), NEW q \in Proc, q # p,
         op[q].call \in VMCalls \cup AttachCalls
  PROVE  /\ op'[q] = op[q] /\ op[q].vm \in VM
         /\ \/ SameVM(op[q].vm)
            \/ op[q].call = "delete_vm" /\ StaysGone(op[q].vm)
  <1>1. op'[q] = op[q]
    BY OperationMoves DEF Moves, OthersSame
  <1>2. op[q].vm \in VM /\ op[q].vm # NoVM
    BY BusyTarget, NoVMAssumption DEF TypeInv
  <1>3. CASE Apart(op[p], op[q])
    <2>1. op[q].vm # op[p].vm
      BY <1>2, <1>3 DEF Apart
    <2>2. SameVM(op[q].vm)
      BY <1>2, <2>1, OperationKeeps DEF Keeps
    <2> QED BY <1>1, <1>2, <2>2
  <1>4. CASE op[p].call = "delete_vm" /\ op[q].call = "delete_vm"
    <2>1. DeletionStep(p)
      BY <1>4, DeletionEffect
    <2>2. PICK v, w \in VM : v = op[q].vm /\ w = op[p].vm
      BY <1>2, <2>1 DEF DeletionStep
    <2>3. CASE v = w
      BY <1>1, <1>2, <1>4, <2>1, <2>2, <2>3 DEF DeletionStep, StaysGone, Kind
    <2>4. CASE v # w
      <3>1. SameVM(v)
        BY <2>1, <2>2, <2>4 DEF DeletionStep, Keeps
      <3> QED BY <1>1, <1>2, <2>2, <3>1
    <2> QED BY <2>3, <2>4
  <1> QED BY <1>3, <1>4 DEF Locked

LEMMA SameIsGone ==
  ASSUME NEW v \in VM, SameVM(v)
  PROVE  StaysGone(v)
  BY DEF SameVM, StaysGone, Kind

\* A call that has only begun has done nothing of its plan.
LEMMA NothingDeleted ==
  ASSUME NEW f, f.call = "delete_vm", f.todo = Plan[f.call]
  PROVE  \A s \in {"findVM", "destroy", "removeForwarded", "deleteEphemeral",
                   "deletePersistent"} : ~Did(f, s)
  <1>1. f.todo = Deletion /\ Len(Deletion) = 5 /\ 1..5 = {1, 2, 3, 4, 5}
    BY Plans DEF Deletion
  <1>2. /\ Deletion[1] = "findVM" /\ Deletion[2] = "destroy"
        /\ Deletion[3] = "removeForwarded" /\ Deletion[4] = "deleteEphemeral"
        /\ Deletion[5] = "deletePersistent"
    BY DEF Deletion
  <1> QED BY <1>1, <1>2 DEF Did

LEMMA NothingCreated ==
  ASSUME NEW f, f.call = "create_vm", f.todo = Plan[f.call]
  PROVE  \A s \in {"makeEphemeral", "makePersistent", "forward"} \cup SetUps :
           ~Did(f, s)
  <1>1. /\ f.todo = Creation /\ Len(Creation) = 10
        /\ {2, 3, 6, 7, 8, 9, 10} \subseteq 1..10
    BY Plans DEF Creation
  <1>2. /\ Creation[2] = "makeEphemeral" /\ Creation[3] = "makePersistent"
        /\ Creation[6] = "forward" /\ Creation[7] = "firstEnv"
        /\ Creation[8] = "userData" /\ Creation[9] = "metadata"
        /\ Creation[10] = "start"
    BY DEF Creation
  <1> QED BY <1>1, <1>2 DEF Did, SetUps

LEMMA NothingAttached ==
  ASSUME NEW f, f.call \in AttachCalls, f.todo = Plan[f.call]
  PROVE  /\ ~Did(f, "fetch") /\ ~Did(f, "update")
         /\ f.call = "attach_disk" => ~Did(f, "mount")
         /\ f.call = "detach_disk" => ~Did(f, "unmount")
  <1>1. CASE f.call = "attach_disk"
    <2>1. f.todo = Attachment /\ Len(Attachment) = 4 /\ 1..4 = {1, 2, 3, 4}
      BY <1>1, Plans DEF Attachment
    <2>2. /\ Attachment[2] = "fetch" /\ Attachment[3] = "mount"
          /\ Attachment[4] = "update"
      BY DEF Attachment
    <2> QED BY <1>1, <2>1, <2>2 DEF Did
  <1>2. CASE f.call = "detach_disk"
    <2>1. f.todo = Detachment /\ Len(Detachment) = 4 /\ 1..4 = {1, 2, 3, 4}
      BY <1>2, Plans DEF Detachment
    <2>2. /\ Detachment[2] = "fetch" /\ Detachment[3] = "unmount"
          /\ Detachment[4] = "update"
      BY DEF Detachment
    <2> QED BY <1>2, <2>1, <2>2 DEF Did
  <1> QED BY <1>1, <1>2 DEF AttachCalls

\* What is still to do when an agent environment is written: nothing else.
LEMMA UpdateIsLast ==
  ASSUME NEW f \in Frame, Shape(f), f.todo # <<>>, Head(f.todo) = "update"
  PROVE  Tail(f.todo) = <<>> /\ ~Did(f, "update")
  <1>1. f.call \in AttachCalls /\ (OnPlan(f) \/ Aborted(f)) /\ f.todo \in Seq(Operations)
    BY BusyCall, CallOfHead DEF Frame
  <1>2. ~Aborted(f)
    BY DEF Aborted
  <1>3. /\ Len(f.todo) \in Nat /\ Len(f.todo) >= 1 /\ Head(f.todo) = f.todo[1]
        /\ Len(Tail(f.todo)) = Len(f.todo) - 1
    BY <1>1
  <1>4. PICK plan \in {Attachment, Detachment} : Plan[f.call] = plan
    BY <1>1, Plans DEF AttachCalls
  <1>5. Len(plan) = 4 /\ plan[1] # "update" /\ plan[2] # "update" /\ plan[3] # "update"
    BY <1>4 DEF Attachment, Detachment
  <1>6. PICK n \in Nat : n = Len(f.todo) /\ n >= 1
    BY <1>3
  <1>7. n <= 4 /\ \A i \in 1..n : f.todo[i] = plan[4 - n + i]
    BY <1>1, <1>2, <1>4, <1>5, <1>6, Zenon DEF OnPlan
  <1>8. f.todo[1] = plan[4 - n + 1] /\ n \in {1, 2, 3, 4}
    <2>1. n \in {1, 2, 3, 4}
      <3>1. \A m \in Nat : m >= 1 /\ m <= 4 => m \in {1, 2, 3, 4}
        OBVIOUS
      <3> QED BY <1>6, <1>7, <3>1
    <2>2. 1 \in 1..n
      BY <1>6
    <2> QED BY <1>7, <2>1, <2>2
  <1>9. plan[4 - n + 1] = "update"
    BY <1>3, <1>8
  <1>10. n = 1
    <2>1. n = 2 => 4 - n + 1 = 3
      OBVIOUS
    <2>2. n = 3 => 4 - n + 1 = 2
      OBVIOUS
    <2>3. n = 4 => 4 - n + 1 = 1
      OBVIOUS
    <2> QED BY <1>5, <1>8, <1>9, <2>1, <2>2, <2>3
  <1>11. Tail(f.todo) \in Seq(Operations) /\ Len(Tail(f.todo)) = 0
    BY <1>3, <1>6, <1>10, TailIsSeq
  <1>12. \A t \in Seq(Operations) : Len(t) = 0 => t = <<>>
    OBVIOUS
  <1>13. ~Did(f, "update")
    <2>1. 1 \in 1..Len(f.todo)
      BY <1>6, <1>10
    <2> QED BY <1>3, <2>1 DEF Did
  <1> QED BY <1>11, <1>12, <1>13

(***************************************************************************)
(* Deletion.                                                               *)
(***************************************************************************)
LEMMA DeletedKept ==
  ASSUME NEW q \in Proc, Deleted(op[q]), op'[q] = op[q],
         op[q].call = "delete_vm" => StaysGone(op[q].vm)
  PROVE  Deleted(op[q])'
  BY DEF Deleted, StaysGone, Did

LEMMA DeletedGoesOn ==
  ASSUME TypeInv, NEW p \in Proc, Operation(p), Deleted(op[p])
  PROVE  Deleted(op[p])'
  <1> SUFFICES ASSUME op'[p].call = "delete_vm"
               PROVE  Deleted(op[p])'
    BY DEF Deleted
  <1> DEFINE f == op[p] g == op'[p]
  <1>1. /\ f \in Frame /\ Shape(f) /\ f.todo # <<>> /\ f.call = "delete_vm"
        /\ g.vm = f.vm
        /\ g.todo = Tail(f.todo) \/ Aborted(g)
        /\ Head(f.todo) # "fail" /\ Steady(p) /\ g.call = "delete_vm"
    BY OperationMoves DEF TypeInv, Moves
  <1>2. DeletionStep(p)
    BY <1>1, DeletionEffect
  <1>3. CASE Aborted(g)
    <2>1. \A s : ~Did(g, s)
      BY <1>3, AbortedDid
    <2> QED BY <2>1 DEF Deleted, Did
  <1>4. ASSUME ~Aborted(g) PROVE Deleted(op[p])'
    <2>1. f.todo \in Seq(Operations) /\ g.todo = Tail(f.todo)
      BY <1>1, <1>4 DEF Frame
    <2>2. \A s : Did(g, s) => Did(f, s) \/ Head(f.todo) = s
      BY <1>1, <2>1, DidTail
    <2>3. PICK v \in VM : v = f.vm
      BY <1>2 DEF DeletionStep
    <2>4. /\ container[v] = "none" => container'[v] = "none"
          /\ rules[v] = "none" => rules'[v] = "none"
          /\ dir["eph"][v] = "none" => dir'["eph"][v] = "none"
          /\ dir["per"][v] = "none" => dir'["per"][v] = "none"
          /\ \A d \in Disk : <<v, d>> \in mounts' => <<v, d>> \in mounts
      BY <1>2, <2>3 DEF DeletionStep, Kind
    <2>5. LET s == Head(f.todo) IN
          /\ s = "findVM" /\ ~g.found => container[v] = "none"
          /\ s = "destroy" => container'[v] = "none" \/ ~f.found
          /\ s = "removeForwarded" => rules'[v] = "none"
          /\ s = "deleteEphemeral" => dir'["eph"][v] = "none"
          /\ s = "deletePersistent" =>
               dir'["per"][v] = "none" /\ \A d \in Disk : <<v, d>> \notin mounts'
      BY <1>2, <1>4, <2>3 DEF DeletionStep
    <2>6. /\ Did(f, "findVM") /\ ~f.found => container[v] = "none"
          /\ Did(f, "destroy") => container[v] = "none"
          /\ Did(f, "removeForwarded") => rules[v] = "none"
          /\ Did(f, "deleteEphemeral") => dir["eph"][v] = "none"
          /\ Did(f, "deletePersistent") =>
               dir["per"][v] = "none" /\ \A d \in Disk : <<v, d>> \notin mounts
      BY <1>1, <2>3 DEF Deleted
    <2>7. Head(f.todo) = "destroy" => Did(f, "findVM")
      BY <1>1, NextOfDeletion
    <2>8. Did(g, "findVM") /\ ~g.found => container'[v] = "none"
      <3>1. ASSUME Did(f, "findVM"), Head(f.todo) # "findVM", ~g.found
            PROVE  container'[v] = "none"
        BY <1>1, <2>4, <2>6, <3>1 DEF Steady
      <3>2. Head(f.todo) = "findVM" => ~Did(f, "findVM")
        <4>1. 1 \in 1..Len(f.todo) /\ Head(f.todo) = f.todo[1]
          BY <1>1, <2>1
        <4> QED BY <4>1 DEF Did
      <3> QED BY <2>2, <2>4, <2>5, <3>1, <3>2
    <2>9. Did(g, "destroy") => container'[v] = "none"
      BY <2>2, <2>4, <2>5, <2>6, <2>7
    <2>10. /\ Did(g, "removeForwarded") => rules'[v] = "none"
           /\ Did(g, "deleteEphemeral") => dir'["eph"][v] = "none"
           /\ Did(g, "deletePersistent") =>
                dir'["per"][v] = "none" /\ \A d \in Disk : <<v, d>> \notin mounts'
      BY <2>2, <2>4, <2>5, <2>6
    <2>11. g.vm = v
      BY <1>1, <2>3
    <2> QED BY <2>8, <2>9, <2>10, <2>11 DEF Deleted, Did
  <1> QED BY <1>3, <1>4

LEMMA IdleDeleted ==
  ASSUME NEW q \in Proc, op'[q].call # "delete_vm"
  PROVE  Deleted(op[q])'
  BY DEF Deleted

LEMMA WorldStays ==
  ASSUME UNCHANGED world
  PROVE  \A v : StaysGone(v)
  BY DEF world, agent, StaysGone

LEMMA DeletionNext ==
  ASSUME TypeInv, DirectorInv, DeletionInv, [Next]_vars
  PROVE  DeletionInv'
  <1>0. \A q \in Proc : op[q] \in Frame /\ Shape(op[q]) /\ Deleted(op[q])
    BY DEF TypeInv, DeletionInv
  <1>1. ASSUME NEW p \in Proc, NEW call, NEW v, NEW d,
               <<call, v, d>> \in Target, Begin(p, call, v, d)
        PROVE  DeletionInv'
    <2>1. Starts(p, call, v, d)
      BY <1>1, BeginMoves
    <2>2. /\ OthersSame(p) /\ UNCHANGED world
          /\ op'[p].call = call /\ op'[p].todo = Plan[call]
      BY <2>1 DEF Starts
    <2>3. ASSUME NEW q \in Proc, q # p PROVE Deleted(op[q])'
      BY <1>0, <2>2, <2>3, WorldStays, DeletedKept DEF OthersSame
    <2>4. call = "delete_vm" => Deleted(op[p])'
      <3>1. call = "delete_vm" =>
              \A s \in {"findVM", "destroy", "removeForwarded", "deleteEphemeral",
                        "deletePersistent"} : ~Did(op'[p], s)
        BY <2>2, NothingDeleted
      <3> QED BY <3>1 DEF Deleted, Did
    <2> QED BY <2>2, <2>3, <2>4, IdleDeleted DEF DeletionInv
  <1>2. ASSUME NEW p \in Proc, Operation(p) PROVE DeletionInv'
    <2>1. ASSUME NEW q \in Proc, q # p PROVE Deleted(op[q])'
      <3>1. CASE op[q].call = "delete_vm"
        <4>1. /\ op'[q] = op[q] /\ op[q].vm \in VM
              /\ SameVM(op[q].vm) \/ StaysGone(op[q].vm)
          BY <1>2, <2>1, <3>1, OtherVM DEF DirectorInv, VMCalls
        <4> QED BY <1>0, <4>1, SameIsGone, DeletedKept
      <3>2. CASE op[q].call # "delete_vm"
        BY <1>2, <2>1, <3>2, OperationMoves, IdleDeleted DEF Moves, OthersSame
      <3> QED BY <3>1, <3>2
    <2>2. Deleted(op[p])'
      BY <1>0, <1>2, DeletedGoesOn
    <2> QED BY <2>1, <2>2 DEF DeletionInv
  <1>3. ASSUME NEW p \in Proc, OthersSame(p), op'[p] = IdleFrame, UNCHANGED world
        PROVE  DeletionInv'
    <2>1. ASSUME NEW q \in Proc, q # p PROVE Deleted(op[q])'
      BY <1>0, <1>3, <2>1, WorldStays, DeletedKept DEF OthersSame
    <2> QED BY <1>3, <2>1, IdleShape, IdleDeleted DEF DeletionInv
  <1>4. ASSUME NEW p \in Proc, Return(p) \/ Crash(p) PROVE DeletionInv'
    <2>1. Finish(p) /\ UNCHANGED world
      BY <1>4 DEF Return, Crash
    <2> QED BY <1>3, <2>1, FinishMoves
  <1>5. ASSUME Reboot PROVE DeletionInv'
    BY <1>5, RebootMoves, IdleShape, IdleDeleted DEF DeletionInv
  <1>6. ASSUME UNCHANGED vars PROVE DeletionInv'
    <2>1. UNCHANGED world /\ op' = op
      BY <1>6 DEF vars
    <2> QED BY <1>0, <2>1, WorldStays, DeletedKept DEF DeletionInv
  <1>7. ASSUME NEW v \in VM, Arrive(v) PROVE DeletionInv'
    <2>1. op' = op /\ UNCHANGED <<container, dir, mounts, rules>>
      BY <1>7, ArriveMoves
    <2> QED BY <1>0, <2>1 DEF DeletionInv, Deleted, Did
  <1> QED BY <1>1, <1>2, <1>4, <1>5, <1>6, <1>7, Steps

\* The state invariants of a successful deletion, from what it has done.
LEMMA DeletedIsGone ==
  ASSUME NEW p \in Proc, Deleted(op[p]), op[p].call = "delete_vm",
         op[p].todo = <<>>
  PROVE  LET v == op[p].vm IN
         /\ container[v] = "none" /\ rules[v] = "none"
         /\ dir["eph"][v] = "none" /\ dir["per"][v] = "none"
         /\ \A d \in Disk : <<v, d>> \notin mounts
  BY SuccessDid DEF Deleted

(***************************************************************************)
(* Attachment and detachment.                                              *)
(***************************************************************************)
LEMMA AttachedKept ==
  ASSUME NEW q \in Proc, Attached(op[q]), op'[q] = op[q],
         op[q].call \in AttachCalls =>
           /\ op[q].vm \in VM /\ op[q].disk \in Disk /\ Settles(op[q].vm)
  PROVE  Attached(op[q])'
  <1>1. CASE op[q].call \in AttachCalls
    <2>1. PICK v \in VM, d \in Disk : v = op[q].vm /\ d = op[q].disk
      BY <1>1
    <2>2. /\ late[v] = {} => env'[v] = env[v] /\ late'[v] = {}
          /\ \A e : e \in Coming(v)' => e \in Coming(v)
          /\ v \in garbled' => v \in garbled
          /\ v \in stale => v \in stale'
          /\ <<v, d>> \in mounts' <=> <<v, d>> \in mounts
      BY <1>1, <2>1 DEF Settles
    <2>3. Coming(op[q].vm)' = Coming(v)'
      BY <2>1 DEF Coming
    <2> QED BY <1>1, <2>1, <2>2, <2>3 DEF Attached, Did
  <1>2. CASE op[q].call \notin AttachCalls
    BY <1>2 DEF Attached, AttachCalls
  <1> QED BY <1>1, <1>2

\* A step of a call that goes on with what it has learnt.
LEMMA DidStep ==
  ASSUME TypeInv, NEW p \in Proc, Operation(p), ~Aborted(op'[p])
  PROVE  /\ op'[p].todo = Tail(op[p].todo) /\ op[p].todo \in Seq(Operations)
         /\ \A s : Did(op'[p], s) => Did(op[p], s) \/ Head(op[p].todo) = s
         /\ \A s : Did(op[p], s) => Head(op[p].todo) # s
  <1> DEFINE f == op[p] g == op'[p]
  <1>1. /\ f \in Frame /\ f.todo # <<>> /\ Head(f.todo) # "fail"
        /\ g.todo = Tail(f.todo)
    BY OperationMoves DEF TypeInv, Moves
  <1>2. f.todo \in Seq(Operations)
    BY <1>1 DEF Frame
  <1>3. \A s : Did(g, s) => Did(f, s) \/ Head(f.todo) = s
    BY <1>1, <1>2, DidTail
  <1>4. 1 \in 1..Len(f.todo) /\ Head(f.todo) = f.todo[1]
    BY <1>1, <1>2
  <1>5. \A s : Did(f, s) => Head(f.todo) # s
    BY <1>4 DEF Did
  <1> QED BY <1>1, <1>2, <1>3, <1>5

LEMMA AttachedGoesOn ==
  ASSUME TypeInv, NEW p \in Proc, Operation(p), Attached(op[p])
  PROVE  Attached(op[p])'
  <1> SUFFICES ASSUME op'[p].call \in AttachCalls
               PROVE  Attached(op[p])'
    BY DEF Attached, AttachCalls
  <1> DEFINE f == op[p] g == op'[p]
  <1>1. /\ f \in Frame /\ Shape(f) /\ f.todo # <<>> /\ f.call \in AttachCalls
        /\ g.vm = f.vm /\ g.disk = f.disk /\ g.call = f.call
        /\ Head(f.todo) # "fail" /\ Steady(p)
    BY OperationMoves DEF TypeInv, Moves
  <1>2. AttachStep(p)
    BY <1>1, AttachEffect
  <1>3. CASE Aborted(g)
    <2>1. \A s : ~Did(g, s)
      BY <1>3, AbortedDid
    <2> QED BY <2>1 DEF Attached, Did
  <1>4. ASSUME ~Aborted(g) PROVE Attached(op[p])'
    <2>1. /\ g.todo = Tail(f.todo)
          /\ \A s : Did(g, s) => Did(f, s) \/ Head(f.todo) = s
          /\ \A s : Did(f, s) => Head(f.todo) # s
      BY <1>4, DidStep
    <2>2. PICK v \in VM, d \in Disk : v = f.vm /\ d = f.disk
      BY <1>2 DEF AttachStep
    <2>3. LET s == Head(f.todo) IN
          /\ s \notin {"mount", "unmount"} => mounts' = mounts
          /\ s # "update" => env'[v] = env[v] /\ late'[v] = late[v] /\ garbled' = garbled
          /\ s = "update" => Coming(v)' = {NewEnv(f)} /\ garbled' \subseteq garbled
          /\ v \in stale => v \in stale'
          /\ s = "fetch" => /\ g.fetched = env[v] /\ v \notin garbled
                            /\ late[v] = {} \/ v \in stale'
          /\ s = "mount" => <<v, d>> \in mounts'
          /\ s = "unmount" => <<v, d>> \notin mounts'
      BY <1>2, <1>4, <2>2 DEF AttachStep
    <2>4. /\ Did(f, "fetch") =>
               /\ v \notin garbled
               /\ \/ Did(f, "update") \/ v \in stale
                  \/ f.fetched = env[v] /\ late[v] = {}
          /\ f.call = "attach_disk" =>
               /\ Did(f, "mount") => <<v, d>> \in mounts
               /\ Did(f, "update") => \A e \in Coming(v) : d \in e
          /\ f.call = "detach_disk" =>
               /\ Did(f, "unmount") => <<v, d>> \notin mounts
               /\ Did(f, "update") => \A e \in Coming(v) : d \notin e
      BY <1>1, <2>2 DEF Attached
    <2>a. Head(f.todo) # "update" => Coming(v)' = Coming(v)
      BY <2>3 DEF Coming
    <2>5. Head(f.todo) \in {"findVM", "fetch", "update"} \cup
            IF f.call = "attach_disk" THEN {"mount"} ELSE {"unmount"}
      BY <1>1, NextOfAttachCall
    <2>6. Head(f.todo) = "update" => Did(g, "update")
      BY <1>1, <2>1, UpdateIsLast, SuccessDid
    <2>7. Head(f.todo) # "fetch" => g.fetched = f.fetched
      BY <1>1 DEF Steady
    <2>8. /\ NewEnv(f) = IF f.call = "attach_disk" THEN f.fetched \cup {d}
                                                   ELSE f.fetched \ {d}
      BY <2>2 DEF NewEnv
    <2>9. Did(g, "fetch") =>
            /\ v \notin garbled'
            /\ \/ Did(g, "update") \/ v \in stale'
               \/ g.fetched = env'[v] /\ late'[v] = {}
      <3>1. CASE Head(f.todo) = "fetch"
        BY <2>3, <3>1
      <3>2. CASE Head(f.todo) = "update"
        BY <2>1, <2>3, <2>4, <2>6, <3>2
      <3>3. ASSUME Head(f.todo) \notin {"fetch", "update"}, Did(g, "fetch")
            PROVE  /\ v \notin garbled'
                   /\ \/ Did(g, "update") \/ v \in stale'
                      \/ g.fetched = env'[v] /\ late'[v] = {}
        <4>1. /\ Did(f, "fetch") /\ env'[v] = env[v] /\ late'[v] = late[v]
              /\ garbled' = garbled
          BY <2>1, <2>3, <3>3
        <4>2. Did(f, "update") => Did(g, "update")
          BY <1>1, <2>1, DidTail DEF Frame
        <4> QED BY <2>3, <2>4, <2>7, <3>3, <4>1, <4>2
      <3> QED BY <3>1, <3>2, <3>3
    <2>10. f.call = "attach_disk" =>
             /\ Did(g, "mount") => <<v, d>> \in mounts'
             /\ Did(g, "update") => \A e \in Coming(v)' : d \in e
      BY <2>1, <2>3, <2>4, <2>5, <2>8, <2>a
    <2>11. f.call = "detach_disk" =>
             /\ Did(g, "unmount") => <<v, d>> \notin mounts'
             /\ Did(g, "update") => \A e \in Coming(v)' : d \notin e
      BY <2>1, <2>3, <2>4, <2>5, <2>8, <2>a
    <2>b. Coming(op[p].vm)' = Coming(v)'
      BY <1>1, <2>2 DEF Coming
    <2>12. g.vm = v /\ g.disk = d
      BY <1>1, <2>2
    <2> QED BY <1>1, <2>9, <2>10, <2>11, <2>12, <2>b DEF Attached, Did
  <1> QED BY <1>3, <1>4

LEMMA NotAttaching ==
  ASSUME NEW q \in Proc, op'[q].call \notin AttachCalls
  PROVE  Attached(op[q])'
  BY DEF Attached, AttachCalls

LEMMA WorldSame ==
  ASSUME UNCHANGED world
  PROVE  \A v : SameVM(v)
  BY DEF world, agent, SameVM

LEMMA AttachmentNext ==
  ASSUME TypeInv, DirectorInv, AttachmentInv, [Next]_vars
  PROVE  AttachmentInv'
  <1>0. \A q \in Proc : op[q] \in Frame /\ Shape(op[q]) /\ Attached(op[q])
    BY DEF TypeInv, AttachmentInv
  <1>a. ASSUME NEW q \in Proc, op'[q] = op[q], UNCHANGED world
        PROVE  Attached(op[q])'
    BY <1>0, <1>a, BusyTarget, WorldSame, SameSettles, AttachedKept
  <1>1. ASSUME NEW p \in Proc, NEW call, NEW v, NEW d,
               <<call, v, d>> \in Target, Begin(p, call, v, d)
        PROVE  AttachmentInv'
    <2>1. Starts(p, call, v, d)
      BY <1>1, BeginMoves
    <2>2. /\ OthersSame(p) /\ UNCHANGED world
          /\ op'[p].call = call /\ op'[p].todo = Plan[call]
      BY <2>1 DEF Starts
    <2>3. \A q \in Proc \ {p} : Attached(op[q])'
      BY <2>2, <1>a DEF OthersSame
    <2>4. call \in AttachCalls => Attached(op[p])'
      <3>1. call \in AttachCalls =>
              /\ ~Did(op'[p], "fetch") /\ ~Did(op'[p], "update")
              /\ call = "attach_disk" => ~Did(op'[p], "mount")
              /\ call = "detach_disk" => ~Did(op'[p], "unmount")
        BY <2>2, NothingAttached
      <3> QED BY <2>2, <3>1 DEF Attached, Did
    <2> QED BY <2>2, <2>3, <2>4, NotAttaching DEF AttachmentInv
  <1>2. ASSUME NEW p \in Proc, Operation(p) PROVE AttachmentInv'
    <2>1. ASSUME NEW q \in Proc, q # p PROVE Attached(op[q])'
      <3>1. CASE op[q].call \in AttachCalls
        <4>1. op'[q] = op[q] /\ SameVM(op[q].vm)
          BY <1>2, <2>1, <3>1, OtherVM DEF DirectorInv, AttachCalls
        <4> QED BY <1>0, <3>1, <4>1, BusyTarget, SameSettles, AttachedKept
      <3>2. CASE op[q].call \notin AttachCalls
        BY <1>2, <2>1, <3>2, OperationMoves, NotAttaching DEF Moves, OthersSame
      <3> QED BY <3>1, <3>2
    <2>2. Attached(op[p])'
      BY <1>0, <1>2, AttachedGoesOn
    <2> QED BY <2>1, <2>2 DEF AttachmentInv
  <1>4. ASSUME NEW p \in Proc, Return(p) \/ Crash(p) PROVE AttachmentInv'
    <2>1. Finish(p) /\ UNCHANGED world
      BY <1>4 DEF Return, Crash
    <2>2. OthersSame(p) /\ op'[p] = IdleFrame
      BY <2>1, FinishMoves
    <2>3. \A q \in Proc \ {p} : Attached(op[q])'
      BY <2>1, <2>2, <1>a DEF OthersSame
    <2>4. Attached(op[p])'
      BY <2>2, IdleShape, NotAttaching DEF AttachCalls
    <2> QED BY <2>3, <2>4 DEF AttachmentInv
  <1>5. ASSUME Reboot PROVE AttachmentInv'
    BY <1>5, RebootMoves, IdleShape, NotAttaching DEF AttachmentInv, AttachCalls
  <1>6. ASSUME UNCHANGED vars PROVE AttachmentInv'
    <2>1. UNCHANGED world /\ op' = op
      BY <1>6 DEF vars
    <2> QED BY <1>a, <2>1 DEF AttachmentInv
  <1>7. ASSUME NEW v \in VM, Arrive(v) PROVE AttachmentInv'
    <2>1. op' = op /\ \A w \in VM : Settles(w)
      BY <1>7, ArriveMoves
    <2> QED BY <1>0, <2>1, BusyTarget, AttachedKept DEF AttachmentInv
  <1> QED BY <1>1, <1>2, <1>4, <1>5, <1>6, <1>7, Steps

(***************************************************************************)
(* Mounts.                                                                 *)
(***************************************************************************)
\* Only attach_disk adds a mount, of a disk with a file system; only the
\* calls that create or delete a disk touch its file.
Mounting(p) ==
  LET f == op[p] IN
  /\ mounts' \subseteq VM \X Disk
  /\ \A v \in VM, d \in Disk : <<v, d>> \in mounts' /\ <<v, d>> \notin mounts =>
       f.call = "attach_disk" /\ f.vm = v /\ f.disk = d /\ image[d] = "disk"
  /\ \A d \in Disk : image'[d] # image[d] => f.call \in ImageCalls /\ f.disk = d

LEMMA OperationMounts ==
  ASSUME TypeInv, NEW p \in Proc, Operation(p)
  PROVE  Mounting(p)
  <1> DEFINE f == op[p]
  <1>1. Keeps(f.vm, f.disk) /\ f.call \in Call
    BY OperationKeeps, ActionsOfCall
  <1>2. mounts' \subseteq VM \X Disk
    BY <1>1 DEF Keeps, WorldOK
  <1>3. CASE f.call = "create_vm"
    <2>1. CreationStep(p)
      BY <1>3, CreationEffect
    <2>2. /\ image' = image /\ f.vm \in VM
          /\ \A w \in VM, d \in Disk : <<w, d>> \in mounts' <=> <<w, d>> \in mounts
      BY <2>1 DEF CreationStep, Unchanged, Keeps, SameVM
    <2> QED BY <1>2, <2>2 DEF Mounting
  <1>4. CASE f.call = "delete_vm"
    <2>1. DeletionStep(p)
      BY <1>4, DeletionEffect
    <2>2. /\ image' = image /\ f.vm \in VM
          /\ \A w \in VM, d \in Disk : <<w, d>> \in mounts' => <<w, d>> \in mounts
      BY <2>1 DEF DeletionStep, Keeps, SameVM
    <2> QED BY <1>2, <2>2 DEF Mounting
  <1>5. CASE f.call \in AttachCalls
    <2>1. AttachStep(p)
      BY <1>5, AttachEffect
    <2>2. PICK v \in VM, d \in Disk : v = f.vm /\ d = f.disk
      BY <2>1 DEF AttachStep
    <2>3. /\ image' = image
          /\ \A e \in Disk : e # d => (<<v, e>> \in mounts' <=> <<v, e>> \in mounts)
          /\ <<v, d>> \in mounts' /\ <<v, d>> \notin mounts =>
               f.call = "attach_disk" /\ image[d] = "disk"
          /\ \A w \in VM, e \in Disk :
               w # v => (<<w, e>> \in mounts' <=> <<w, e>> \in mounts)
      BY <2>1, <2>2 DEF AttachStep, Keeps, SameVM
    <2> QED BY <1>2, <2>2, <2>3 DEF Mounting
  <1>6. CASE f.call \in ImageCalls
    <2>1. ImageStep(p)
      BY <1>6, ImageEffect
    <2> QED BY <1>1, <1>2, <1>6, <2>1 DEF Mounting, ImageStep, Keeps
  <1> QED BY <1>1, <1>3, <1>4, <1>5, <1>6 DEF Call, VMCalls

LEMMA MountsOperation ==
  ASSUME TypeInv, DirectorInv, MountsInv, NEW p \in Proc, Operation(p)
  PROVE  MountsInv'
  <1> DEFINE f == op[p]
  <1>0. /\ Staged(f) /\ Unmade /\ mounts \subseteq VM \X Disk
        /\ MountsBelieved /\ MountsAlone /\ MountedHasImage
        /\ f \in Frame /\ Shape(f)
    BY DEF DirectorInv, MountsInv, TypeInv, TypeOK
  <1>1. /\ mounts' \subseteq VM \X Disk
        /\ \A v \in VM, d \in Disk : <<v, d>> \in mounts' /\ <<v, d>> \notin mounts =>
             f.call = "attach_disk" /\ f.vm = v /\ f.disk = d /\ image[d] = "disk"
        /\ \A d \in Disk : image'[d] # image[d] => f.call \in ImageCalls /\ f.disk = d
    BY OperationMounts DEF Mounting
  <1>2. belief' = belief
    BY OperationKeeps DEF Keeps, director
  <1>3. f.call = "attach_disk" =>
          /\ belief[f.vm][f.disk] = "unsure"
          /\ \A w \in VM \ {f.vm} : belief[w][f.disk] = "no"
    BY <1>0 DEF Staged, Elsewhere, AttachCalls
  <1>4. f.call \in ImageCalls => Nowhere(f.disk)
    BY <1>0, BusyTarget DEF Staged, Unmade, ImageCalls
  <1>5. MountsBelieved'
    BY <1>0, <1>1, <1>2, <1>3 DEF MountsBelieved
  <1>6. MountsAlone'
    <2> SUFFICES ASSUME NEW v \in VM, NEW w \in VM, NEW d \in Disk,
                        <<v, d>> \in mounts', <<w, d>> \in mounts', v # w
                 PROVE  FALSE
      BY DEF MountsAlone
    <2>1. \A x \in VM : <<x, d>> \in mounts => belief[x][d] # "no"
      BY <1>0 DEF MountsBelieved
    <2>2. <<v, d>> \notin mounts \/ <<w, d>> \notin mounts
      BY <1>0 DEF MountsAlone
    <2>3. CASE <<v, d>> \notin mounts
      BY <1>1, <1>3, <2>1, <2>3
    <2>4. CASE <<w, d>> \notin mounts
      BY <1>1, <1>3, <2>1, <2>4
    <2> QED BY <2>2, <2>3, <2>4
  <1>7. MountedHasImage'
    <2> SUFFICES ASSUME NEW v \in VM, NEW d \in Disk, <<v, d>> \in mounts'
                 PROVE  image'[d] = "disk"
      BY <1>1 DEF MountedHasImage
    <2>1. image[d] = "disk"
      BY <1>0, <1>1 DEF MountedHasImage
    <2>2. ASSUME image'[d] # image[d] PROVE FALSE
      <3>1. f.call \in ImageCalls /\ f.disk = d
        BY <1>1, <2>2
      <3>2. <<v, d>> \in mounts
        BY <1>1, <3>1 DEF ImageCalls
      <3> QED BY <1>0, <1>4, <3>1, <3>2 DEF MountsBelieved, Nowhere
    <2> QED BY <2>1, <2>2
  <1> QED BY <1>5, <1>6, <1>7 DEF MountsInv

LEMMA MountsNext ==
  ASSUME TypeInv, DirectorInv, DeletionInv, AttachmentInv, MountsInv, [Next]_vars
  PROVE  MountsInv'
  <1>0. MountsBelieved /\ MountsAlone /\ MountedHasImage
    BY DEF MountsInv
  <1>b. ASSUME mounts' = mounts, image' = image,
               \A v \in VM, d \in Disk :
                 belief'[v][d] = "no" => belief[v][d] = "no" \/ <<v, d>> \notin mounts
        PROVE  MountsInv'
    BY <1>0, <1>b DEF MountsInv, MountsBelieved, MountsAlone, MountedHasImage
  <1>a. ASSUME UNCHANGED world,
               \A v \in VM, d \in Disk :
                 belief'[v][d] = "no" => belief[v][d] = "no" \/ <<v, d>> \notin mounts
        PROVE  MountsInv'
    BY <1>a, <1>b DEF world
  <1>1. ASSUME NEW p \in Proc, NEW call, NEW v, NEW d,
               <<call, v, d>> \in Target, Begin(p, call, v, d)
        PROVE  MountsInv'
    <2>1. /\ UNCHANGED world
          /\ belief' = IF call \in AttachCalls THEN [belief EXCEPT ![v][d] = "unsure"]
                       ELSE belief
      BY <1>1 DEF Begin
    <2>2. \A w \in VM, e \in Disk : belief'[w][e] = "no" => belief[w][e] = "no"
      BY <2>1 DEF TypeInv, TypeOK
    <2> QED BY <1>a, <2>1, <2>2
  <1>3. ASSUME NEW p \in Proc, Return(p) PROVE MountsInv'
    <2> DEFINE f == op[p]
    <2>1. /\ UNCHANGED world
          /\ belief' =
               CASE Succeeded(p) /\ f.call = "attach_disk" ->
                      [belief EXCEPT ![f.vm][f.disk] = "yes"]
                 [] Succeeded(p) /\ f.call = "detach_disk" ->
                      [belief EXCEPT ![f.vm][f.disk] = "no"]
                 [] Succeeded(p) /\ f.call = "delete_vm" ->
                      [belief EXCEPT ![f.vm] = [d \in Disk |-> "no"]]
                 [] OTHER -> belief
      BY <1>3 DEF Return
    <2>2. Succeeded(p) /\ f.call = "detach_disk" => <<f.vm, f.disk>> \notin mounts
      BY SuccessDid DEF Succeeded, AttachmentInv, Attached
    <2>3. Succeeded(p) /\ f.call = "delete_vm" => \A d \in Disk : <<f.vm, d>> \notin mounts
      BY DeletedIsGone DEF Succeeded, DeletionInv
    <2>4. belief \in [VM -> [Disk -> {"no", "yes", "unsure"}]]
      BY DEF TypeInv, TypeOK
    <2>5. \A w \in VM, e \in Disk :
            belief'[w][e] = "no" => belief[w][e] = "no" \/ <<w, e>> \notin mounts
      <3>1. CASE Succeeded(p) /\ f.call = "attach_disk"
        BY <2>1, <2>4, <3>1
      <3>2. CASE Succeeded(p) /\ f.call = "detach_disk"
        BY <2>1, <2>2, <2>4, <3>2
      <3>3. CASE Succeeded(p) /\ f.call = "delete_vm"
        BY <2>1, <2>3, <2>4, <3>3
      <3>4. CASE ~Succeeded(p) \/ f.call \notin {"attach_disk", "detach_disk", "delete_vm"}
        BY <2>1, <3>4
      <3> QED BY <3>1, <3>2, <3>3, <3>4
    <2> QED BY <1>a, <2>1, <2>5
  <1>4. ASSUME NEW p \in Proc, Crash(p) PROVE MountsInv'
    BY <1>a, <1>4 DEF Crash, director
  <1>5. ASSUME Reboot PROVE MountsInv'
    BY <1>5 DEF Reboot, MountsInv, MountsBelieved, MountsAlone, MountedHasImage
  <1>6. ASSUME UNCHANGED vars PROVE MountsInv'
    BY <1>a, <1>6 DEF vars, director
  <1>7. ASSUME NEW v \in VM, Arrive(v) PROVE MountsInv'
    <2>1. mounts' = mounts /\ image' = image /\ belief' = belief
      BY <1>7, ArriveMoves DEF director
    <2> QED BY <1>b, <2>1
  <1> QED BY <1>1, <1>3, <1>4, <1>5, <1>6, <1>7, MountsOperation, Steps

(***************************************************************************)
(* Creation: what Create has put together stays together.                  *)
(***************************************************************************)
LEMMA CreatedKept ==
  ASSUME NEW q \in Proc, Created(op[q]), op'[q] = op[q],
         op[q].call = "create_vm" => SameVM(op[q].vm)
  PROVE  Created(op[q])'
  BY DEF Created, SameVM, Did, Kind

LEMMA CreatedGoesOn ==
  ASSUME TypeInv, NEW p \in Proc, Operation(p), Created(op[p])
  PROVE  Created(op[p])'
  <1> SUFFICES ASSUME op'[p].call = "create_vm"
               PROVE  Created(op[p])'
    BY DEF Created
  <1> DEFINE f == op[p] g == op'[p]
  <1>1. f.call = "create_vm" /\ g.vm = f.vm
    BY OperationMoves DEF Moves
  <1>2. CreationStep(p)
    BY <1>1, CreationEffect
  <1>3. CASE Aborted(g)
    <2>1. \A s : ~Did(g, s)
      BY <1>3, AbortedDid
    <2> QED BY <2>1 DEF Created, Did
  <1>4. ASSUME ~Aborted(g) PROVE Created(op[p])'
    <2>1. \A s : Did(g, s) => Did(f, s) \/ Head(f.todo) = s
      BY <1>4, DidStep
    <2>2. PICK v \in VM : v = f.vm
      BY <1>2 DEF CreationStep
    <2>3. /\ dir["eph"][v] = "whole" => dir'["eph"][v] = "whole"
          /\ dir["per"][v] = "whole" => dir'["per"][v] = "whole"
      BY <1>2, <2>2 DEF CreationStep, Unchanged, Kind
    <2>4. LET s == Head(f.todo) IN
          /\ rules[v] = "all" => rules'[v] = "all"
          /\ \A e \in SetUps : <<v, e>> \in ready => <<v, e>> \in ready'
          /\ s = "makeEphemeral" => dir'["eph"][v] = "whole"
          /\ s = "makePersistent" => dir'["per"][v] = "whole"
          /\ s = "forward" => rules'[v] = "all"
          /\ s \in SetUps => <<v, s>> \in ready'
      BY <1>2, <1>4, <2>2 DEF CreationStep
    <2>5. /\ Did(f, "makeEphemeral") => dir["eph"][v] = "whole"
          /\ Did(f, "makePersistent") => dir["per"][v] = "whole"
          /\ Did(f, "forward") => rules[v] = "all"
          /\ \A s \in SetUps : Did(f, s) => <<v, s>> \in ready
      BY <1>1, <2>2 DEF Created
    <2>6. /\ Did(g, "makeEphemeral") => dir'["eph"][v] = "whole"
          /\ Did(g, "makePersistent") => dir'["per"][v] = "whole"
          /\ Did(g, "forward") => rules'[v] = "all"
          /\ \A s \in SetUps : Did(g, s) => <<v, s>> \in ready'
      BY <2>1, <2>3, <2>4, <2>5
    <2> QED BY <1>1, <2>2, <2>6 DEF Created, Did
  <1> QED BY <1>3, <1>4

LEMMA NotCreating ==
  ASSUME NEW q \in Proc, op'[q].call # "create_vm"
  PROVE  Created(op[q])'
  BY DEF Created

Complete(v) ==
  /\ {v} \X SetUps \subseteq ready
  /\ dir["eph"][v] = "whole" /\ dir["per"][v] = "whole"
  /\ rules[v] = "all"

\* The agent environment can be read, or a call that was to change it has
\* not been answered with success.
Readable(v) == HasEnv(v) \/ \E d \in Disk : belief[v][d] = "unsure"

LEMMA KnownParts ==
  KnownIsComplete <=> \A v \in VM : known[v] = "known" /\ container[v] = "running" =>
                        Complete(v) /\ Readable(v)
  BY DEF KnownIsComplete, Complete, Readable

LEMMA KnownPartsNext ==
  (\A v \in VM : known'[v] = "known" /\ container'[v] = "running" =>
     Complete(v)' /\ Readable(v)') => KnownIsComplete'
  BY DEF KnownIsComplete, Complete, Readable

LEMMA CreatedIsComplete ==
  ASSUME NEW p \in Proc, Created(op[p]), op[p].call = "create_vm", op[p].todo = <<>>
  PROVE  Complete(op[p].vm)
  BY SuccessDid DEF Created, Complete

\* Of a VM the director knows only attached and detached disks change
\* anything: the agent environment, while the director is unsure of them.
LEMMA CompleteOperation ==
  ASSUME TypeInv, DirectorInv, KnownIsComplete, NEW p \in Proc, Operation(p)
  PROVE  KnownIsComplete'
  <1> SUFFICES ASSUME NEW v \in VM, known'[v] = "known", container'[v] = "running"
               PROVE  Complete(v)' /\ Readable(v)'
    BY KnownPartsNext
  <1> DEFINE f == op[p]
  <1>1. Keeps(f.vm, f.disk) /\ Staged(f) /\ f.call \in Call
    BY OperationKeeps, ActionsOfCall DEF DirectorInv
  <1>2. known[v] = "known" /\ belief' = belief
    BY <1>1 DEF Keeps, director
  <1>3. ASSUME SameVM(v) PROVE Complete(v)' /\ Readable(v)'
    <2>1. container[v] = "running"
      BY <1>3 DEF SameVM
    <2>2. Complete(v) /\ Readable(v)
      BY <1>2, <2>1, KnownParts
    <2>3. Complete(v)'
      BY <1>3, <2>2 DEF Complete, SameVM, Kind
    <2>4. HasEnv(v) => HasEnv(v)'
      BY <1>3 DEF HasEnv, SameVM, SetUps
    <2> QED BY <1>2, <2>2, <2>3, <2>4 DEF Readable
  <1>4. CASE v # f.vm
    BY <1>1, <1>3, <1>4 DEF Keeps
  <1>5. CASE v = f.vm /\ f.call \in VMCalls
    BY <1>1, <1>2, <1>5 DEF Staged, VMCalls
  <1>6. CASE v = f.vm /\ f.call \in AttachCalls
    <2>1. AttachStep(p)
      BY <1>6, AttachEffect
    <2>2. /\ container'[v] = container[v] /\ rules'[v] = rules[v] /\ ready' = ready
          /\ dir["eph"][v] = "whole" => dir'["eph"][v] = "whole"
          /\ dir["per"][v] = "whole" => dir'["per"][v] = "whole"
          /\ f.disk \in Disk
      BY <1>6, <2>1 DEF AttachStep, Kind
    <2>3. Complete(v)
      BY <1>2, <2>2, KnownParts
    <2>4. Readable(v)'
      BY <1>1, <1>2, <1>6, <2>2 DEF Staged, Readable
    <2>5. Complete(v)'
      BY <2>2, <2>3 DEF Complete
    <2> QED BY <2>4, <2>5
  <1>7. CASE f.call \in ImageCalls
    <2>1. ImageStep(p)
      BY <1>7, ImageEffect
    <2> QED BY <1>3, <2>1 DEF ImageStep
  <1> QED BY <1>1, <1>4, <1>5, <1>6, <1>7 DEF Call

LEMMA CreationNext ==
  ASSUME TypeInv, DirectorInv, AttachmentInv, BeliefInv, CreationInv, [Next]_vars
  PROVE  CreationInv'
  <1>0. /\ \A q \in Proc : op[q] \in Frame /\ Shape(op[q]) /\ Created(op[q])
        /\ KnownIsComplete /\ known \in [VM \cup Disk -> Known]
    BY DEF TypeInv, TypeOK, CreationInv
  <1>a. ASSUME NEW q \in Proc, op'[q] = op[q], UNCHANGED world
        PROVE  Created(op[q])'
    BY <1>0, <1>a, WorldSame, CreatedKept
  <1>b. ASSUME UNCHANGED world,
               \A v \in VM : known'[v] = "known" /\ container[v] = "running" =>
                 \/ /\ known[v] = "known"
                    /\ \/ HasEnv(v)
                       \/ \A d \in Disk : belief[v][d] = "unsure" => belief'[v][d] = "unsure"
                 \/ Complete(v) /\ HasEnv(v)
        PROVE  KnownIsComplete'
    <2>0. /\ UNCHANGED <<container, ready, dir, rules, garbled>>
      BY <1>b DEF world, agent
    <2>1. ASSUME NEW v \in VM, known'[v] = "known", container'[v] = "running"
          PROVE  Complete(v)' /\ Readable(v)'
      <3>1. Complete(v) /\ (known[v] # "known" => HasEnv(v))
        BY <1>0, <1>b, <2>0, <2>1, KnownParts
      <3>2. Complete(v)'
        BY <2>0, <3>1 DEF Complete
      <3>3. HasEnv(v) => HasEnv(v)'
        BY <2>0 DEF HasEnv
      <3>4. CASE HasEnv(v)
        BY <3>2, <3>3, <3>4 DEF Readable
      <3>5. CASE ~HasEnv(v)
        <4>1. /\ known[v] = "known"
              /\ \A d \in Disk : belief[v][d] = "unsure" => belief'[v][d] = "unsure"
          BY <1>b, <2>0, <2>1, <3>5
        <4>2. Readable(v)
          BY <1>0, <2>0, <2>1, <4>1, KnownParts
        <4> QED BY <3>2, <3>5, <4>1, <4>2 DEF Readable
      <3> QED BY <3>4, <3>5
    <2> QED BY <2>1, KnownPartsNext
  <1>1. ASSUME NEW p \in Proc, NEW call, NEW v, NEW d,
               <<call, v, d>> \in Target, Begin(p, call, v, d)
        PROVE  CreationInv'
    <2>1. Starts(p, call, v, d)
      BY <1>1, BeginMoves
    <2>2. /\ OthersSame(p) /\ UNCHANGED world
          /\ op'[p].call = call /\ op'[p].todo = Plan[call]
      BY <2>1 DEF Starts
    <2>3. \A q \in Proc \ {p} : Created(op[q])'
      BY <2>2, <1>a DEF OthersSame
    <2>4. call = "create_vm" => Created(op[p])'
      <3>1. call = "create_vm" =>
              \A s \in {"makeEphemeral", "makePersistent", "forward"} \cup SetUps :
                ~Did(op'[p], s)
        BY <2>2, NothingCreated
      <3> QED BY <3>1 DEF Created, Did
    <2>5. /\ \A w \in VM : known'[w] = "known" => known[w] = "known"
          /\ belief' = IF call \in AttachCalls THEN [belief EXCEPT ![v][d] = "unsure"]
                       ELSE belief
      BY <1>1 DEF Begin
    <2>7. \A w \in VM, e \in Disk : belief'[w][e] \in {belief[w][e], "unsure"}
      BY <2>5 DEF TypeInv, TypeOK
    <2>6. KnownIsComplete'
      BY <1>b, <2>2, <2>5, <2>7
    <2> QED BY <2>2, <2>3, <2>4, <2>6, NotCreating DEF CreationInv
  <1>2. ASSUME NEW p \in Proc, Operation(p) PROVE CreationInv'
    <2>1. ASSUME NEW q \in Proc, q # p PROVE Created(op[q])'
      <3>1. CASE op[q].call = "create_vm"
        <4>1. op'[q] = op[q] /\ SameVM(op[q].vm)
          BY <1>2, <2>1, <3>1, OtherVM DEF DirectorInv, VMCalls
        <4> QED BY <1>0, <4>1, CreatedKept
      <3>2. CASE op[q].call # "create_vm"
        BY <1>2, <2>1, <3>2, OperationMoves, NotCreating DEF Moves, OthersSame
      <3> QED BY <3>1, <3>2
    <2>2. Created(op[p])'
      BY <1>0, <1>2, CreatedGoesOn
    <2>3. KnownIsComplete'
      BY <1>0, <1>2, CompleteOperation
    <2> QED BY <2>1, <2>2, <2>3 DEF CreationInv
  <1>3. ASSUME NEW p \in Proc, Finish(p), UNCHANGED world
        PROVE  \A q \in Proc : Created(op[q])'
    <2>1. OthersSame(p) /\ op'[p] = IdleFrame
      BY <1>3, FinishMoves
    <2>2. \A q \in Proc \ {p} : Created(op[q])'
      BY <1>3, <2>1, <1>a DEF OthersSame
    <2> QED BY <2>1, <2>2, IdleShape, NotCreating
  <1>4. ASSUME NEW p \in Proc, Return(p) PROVE CreationInv'
    <2> DEFINE f == op[p]
    <2>1. /\ Finish(p) /\ UNCHANGED world
          /\ known' = IF Succeeded(p) /\ f.call \in {"create_vm", "create_disk"}
                THEN [known EXCEPT ![IF f.call = "create_vm" THEN f.vm ELSE f.disk]
                        = "known"]
                ELSE known
      BY <1>4 DEF Return
    <2>2. f.call = "create_disk" => f.disk \in Disk
      BY <1>0, BusyTarget DEF ImageCalls
    <2>3. ASSUME NEW v \in VM, known'[v] = "known", known[v] # "known"
          PROVE  Complete(v) /\ HasEnv(v)
      <3>1. Succeeded(p) /\ f.call = "create_vm" /\ f.vm = v
        BY <1>0, <2>1, <2>2, <2>3, DisjointAssumption
      <3>2. Complete(v)
        BY <1>0, <3>1, CreatedIsComplete DEF Succeeded
      <3>3. known[v] = "creating"
        BY <3>1 DEF DirectorInv, Staged
      <3>4. v \notin garbled
        BY <3>3 DEF BeliefInv, Untold
      <3>5. HasEnv(v)
        BY <3>2, <3>4 DEF Complete, HasEnv, SetUps
      <3> QED BY <3>2, <3>5
    <2>5. ASSUME NEW v \in VM, known'[v] = "known", known[v] = "known", container[v] = "running"
          PROVE  \/ HasEnv(v)
                 \/ \A d \in Disk : belief[v][d] = "unsure" => belief'[v][d] = "unsure"
      <3>0. Staged(f) /\ Attached(f) /\ belief \in [VM -> [Disk -> {"no", "yes", "unsure"}]]
        BY DEF DirectorInv, AttachmentInv, TypeInv, TypeOK
      <3>1. CASE Succeeded(p) /\ f.call \in AttachCalls /\ f.vm = v
        <4>1. v \notin garbled
          BY <3>0, <3>1, SuccessDid DEF Attached, Succeeded
        <4>2. Complete(v)
          BY <1>0, <2>5, KnownParts
        <4> QED BY <4>1, <4>2 DEF HasEnv, Complete, SetUps
      <3>2. CASE f.call = "delete_vm" /\ f.vm = v
        BY <2>5, <3>0, <3>2 DEF Staged
      <3>3. CASE /\ ~(Succeeded(p) /\ f.call \in AttachCalls /\ f.vm = v)
                 /\ ~(f.call = "delete_vm" /\ f.vm = v)
        BY <1>4, <3>0, <3>3 DEF Return, AttachCalls
      <3> QED BY <3>1, <3>2, <3>3
    <2>4. KnownIsComplete'
      BY <1>b, <2>1, <2>3, <2>5
    <2> QED BY <1>3, <2>1, <2>4 DEF CreationInv
  <1>5. ASSUME NEW p \in Proc, Crash(p) PROVE CreationInv'
    <2>1. Finish(p) /\ UNCHANGED world /\ known' = known /\ belief' = belief
      BY <1>5 DEF Crash, director
    <2> QED BY <1>3, <1>b, <2>1 DEF CreationInv
  <1>6. ASSUME Reboot PROVE CreationInv'
    <2>1. \A v \in VM : container'[v] # "running"
      BY <1>6 DEF Reboot
    <2>2. KnownIsComplete'
      BY <2>1 DEF KnownIsComplete
    <2> QED BY <1>6, <2>2, RebootMoves, IdleShape, NotCreating DEF CreationInv
  <1>7. ASSUME UNCHANGED vars PROVE CreationInv'
    <2>1. UNCHANGED world /\ op' = op /\ known' = known /\ belief' = belief
      BY <1>7 DEF vars, director
    <2> QED BY <1>a, <1>b, <2>1 DEF CreationInv
  <1>8. ASSUME NEW v \in VM, Arrive(v) PROVE CreationInv'
    <2>1. /\ op' = op /\ known' = known /\ belief' = belief
          /\ UNCHANGED <<container, ready, dir, rules>>
          /\ \A w \in VM : w \in garbled' => w \in garbled
      BY <1>8, ArriveMoves DEF director, Settles
    <2>2. \A q \in Proc : Created(op[q])'
      BY <1>0, <2>1 DEF Created, Did
    <2>3. \A w \in VM : (Complete(w) => Complete(w)') /\ (Readable(w) => Readable(w)')
      BY <2>1 DEF Complete, Readable, HasEnv
    <2>4. KnownIsComplete'
      BY <1>0, <2>1, <2>3, KnownParts, KnownPartsNext
    <2> QED BY <2>2, <2>4 DEF CreationInv
  <1> QED BY <1>1, <1>2, <1>4, <1>5, <1>6, <1>7, <1>8, Steps

(***************************************************************************)
(* Belief: mounts and agent environments are what the director was told.   *)
(***************************************************************************)
Told(v, d) ==
  /\ belief[v][d] = "yes" => <<v, d>> \in mounts
  /\ belief[v][d] = "no" => <<v, d>> \notin mounts
  /\ v \notin stale => \A e \in Coming(v) : /\ belief[v][d] = "yes" => d \in e
                                            /\ belief[v][d] = "no" => d \notin e

LEMMA ToldKept ==
  ASSUME NEW v, NEW d \in Disk, Told(v, d), Settles(v), belief'[v][d] = belief[v][d]
  PROVE  Told(v, d)'
  <1>1. /\ \A e : e \in Coming(v)' => e \in Coming(v)
        /\ v \in stale => v \in stale'
        /\ <<v, d>> \in mounts' <=> <<v, d>> \in mounts
    BY DEF Settles
  <1> QED BY <1>1 DEF Told

\* An attached or detached disk changes nothing for the other disks: the
\* environment that Update writes is the one that Fetch has read, but for
\* the disk of the call, for nobody else writes it in between.  Unless the
\* one that Fetch has read was older than the last one written.
LEMMA ToldOthers ==
  ASSUME TypeInv, AttachmentInv, NEW p \in Proc, Operation(p),
         op[p].call \in AttachCalls, NEW e \in Disk, e # op[p].disk,
         Told(op[p].vm, e), belief' = belief
  PROVE  Told(op[p].vm, e)'
  <1> DEFINE f == op[p]
  <1>1. AttachStep(p) /\ f \in Frame /\ Shape(f) /\ f.todo # <<>>
    BY AttachEffect, OperationMoves DEF TypeInv, Moves
  <1>2. PICK v \in VM, d \in Disk : v = f.vm /\ d = f.disk
    BY <1>1 DEF AttachStep
  <1>3. /\ <<v, e>> \in mounts' <=> <<v, e>> \in mounts
        /\ v \in stale => v \in stale'
        /\ Head(f.todo) # "update" =>
             env'[v] = env[v] /\ late'[v] = late[v] /\ garbled' = garbled
        /\ Head(f.todo) = "update" =>
             Coming(v)' = {NewEnv(f)} \/ Coming(v)' \subseteq Coming(v)
    BY <1>1, <1>2 DEF AttachStep
  <1>4. Head(f.todo) = "update" =>
          /\ v \notin garbled
          /\ v \in stale \/ (f.fetched = env[v] /\ late[v] = {})
    <2>1. Head(f.todo) = "update" => Did(f, "fetch") /\ ~Did(f, "update")
      BY <1>1, NextOfAttachCall, UpdateIsLast
    <2> QED BY <1>2, <2>1 DEF AttachmentInv, Attached
  <1>5. Head(f.todo) = "update" /\ v \notin stale => Coming(v) = {f.fetched}
    BY <1>4 DEF Coming
  <1>6. Told(v, e)
    BY <1>2
  <1>7. e \in NewEnv(f) <=> e \in f.fetched
    BY <1>2 DEF NewEnv
  <1>8. Coming(v)' = {NewEnv(f)} \/ Coming(v)' \subseteq Coming(v)
    BY <1>3 DEF Coming
  <1>9. ASSUME v \notin stale', NEW x \in Coming(v)'
        PROVE  /\ belief[v][e] = "yes" => e \in x
               /\ belief[v][e] = "no" => e \notin x
    <2>1. CASE x \in Coming(v)
      BY <1>3, <1>6, <1>9, <2>1 DEF Told
    <2>2. CASE x \notin Coming(v)
      <3>1. Head(f.todo) = "update" /\ x = NewEnv(f) /\ f.fetched \in Coming(v)
        <4>1. Head(f.todo) # "update" => Coming(v)' = Coming(v)
          BY <1>3 DEF Coming
        <4> QED BY <1>3, <1>5, <1>8, <1>9, <2>2, <4>1
      <3> QED BY <1>3, <1>6, <1>7, <1>9, <3>1 DEF Told
    <2> QED BY <2>1, <2>2
  <1>a. Told(v, e)'
    BY <1>3, <1>6, <1>9 DEF Told
  <1>b. op'[p].vm = v
    BY <1>2, OperationMoves DEF Moves
  <1> QED BY <1>a, <1>b DEF Told, Coming

LEMMA BeliefOperation ==
  ASSUME TypeInv, DirectorInv, AttachmentInv, BeliefInv, NEW p \in Proc, Operation(p)
  PROVE  BeliefInv'
  <1> DEFINE f == op[p]
  <1>0. /\ Keeps(f.vm, f.disk) /\ Staged(f) /\ f.call \in Call
        /\ op'[p].vm = f.vm
    BY OperationKeeps, ActionsOfCall, OperationMoves DEF DirectorInv, Moves
  <1>1. known' = known /\ belief' = belief
    BY <1>0 DEF Keeps, director
  <1>2. ASSUME NEW v \in VM, known[v] = "known", NEW d \in Disk
        PROVE  Told(v, d)'
    <2>0. Told(v, d)
      BY <1>2 DEF BeliefInv, BeliefTrue, Told
    <2>1. ASSUME SameVM(v) PROVE Told(v, d)'
      BY <1>1, <2>0, <2>1, SameSettles, ToldKept
    <2>2. CASE v # f.vm
      BY <1>0, <2>1, <2>2 DEF Keeps
    <2>3. CASE v = f.vm /\ f.call \in VMCalls
      BY <1>0, <1>2, <2>3 DEF Staged, VMCalls
    <2>4. CASE v = f.vm /\ f.call \in AttachCalls
      <3>1. CASE d = f.disk
        <4>1. belief'[v][d] = "unsure"
          BY <1>0, <1>1, <2>4, <3>1 DEF Staged
        <4> QED BY <4>1 DEF Told
      <3>2. CASE d # f.disk
        <4>1. Told(op[p].vm, d)'
          BY <1>1, <2>0, <2>4, <3>2, ToldOthers
        <4> QED BY <1>0, <2>4, <4>1 DEF Told, Coming
      <3> QED BY <3>1, <3>2
    <2>5. CASE f.call \in ImageCalls
      <3>1. ImageStep(p)
        BY <2>5, ImageEffect
      <3> QED BY <2>1, <3>1 DEF ImageStep
    <2> QED BY <1>0, <2>2, <2>3, <2>4, <2>5 DEF Call
  <1>3. BeliefTrue'
    BY <1>1, <1>2 DEF BeliefTrue, Told
  <1>4. ASSUME NEW v \in VM, known[v] \in {"fresh", "creating"}
        PROVE  env'[v] = {} /\ late'[v] = {} /\ v \notin garbled'
    <2>0. env[v] = {} /\ late[v] = {} /\ v \notin garbled
      BY <1>4 DEF BeliefInv, Untold
    <2>1. ASSUME SameVM(v) PROVE env'[v] = {} /\ late'[v] = {} /\ v \notin garbled'
      BY <2>0, <2>1 DEF SameVM
    <2>2. CASE v # f.vm
      BY <1>0, <2>1, <2>2 DEF Keeps
    <2>3. CASE v = f.vm /\ f.call = "create_vm"
      <3>1. CreationStep(p)
        BY <2>3, CreationEffect
      <3> QED BY <2>0, <2>3, <3>1 DEF CreationStep, Unchanged
    <2>4. CASE v = f.vm /\ f.call \in {"delete_vm"} \cup AttachCalls
      BY <1>0, <1>4, <2>4 DEF Staged
    <2>5. CASE f.call \in ImageCalls
      <3>1. ImageStep(p)
        BY <2>5, ImageEffect
      <3> QED BY <2>1, <3>1 DEF ImageStep
    <2> QED BY <1>0, <2>2, <2>3, <2>4, <2>5 DEF Call, VMCalls
  <1>5. Untold'
    BY <1>1, <1>4 DEF Untold
  <1> QED BY <1>3, <1>5 DEF BeliefInv

LEMMA BeliefBegin ==
  ASSUME TypeInv, BeliefInv, NEW p \in Proc, NEW call, NEW v, NEW d,
         <<call, v, d>> \in Target, Begin(p, call, v, d)
  PROVE  BeliefInv'
  <1>1. /\ UNCHANGED world
        /\ known' = [x \in VM \cup Disk |->
                CASE call = "create_vm" /\ x = v   -> "creating"
                  [] call = "delete_vm" /\ x = v   -> "deleting"
                  [] call = "create_disk" /\ x = d -> "creating"
                  [] call = "delete_disk" /\ x = d -> "deleting"
                  [] OTHER -> known[x]]
        /\ belief' = IF call \in AttachCalls THEN [belief EXCEPT ![v][d] = "unsure"]
                     ELSE belief
        /\ Allowed(call, v, d)
    BY DEF Begin
  <1>2. mounts' = mounts /\ env' = env /\ late' = late /\ garbled' = garbled
        /\ stale' = stale
    BY <1>1 DEF world, agent
  <1>a. \A w : Coming(w)' = Coming(w)
    BY <1>2 DEF Coming
  <1>3. \A w \in VM : known'[w] = "known" => known[w] = "known"
    BY <1>1
  <1>4. ASSUME NEW w \in VM, known'[w] \in {"fresh", "creating"}
        PROVE  known[w] \in {"fresh", "creating"}
    <2>1. call = "create_vm" => known[v] = "fresh"
      BY <1>1 DEF Allowed
    <2>2. call = "create_disk" => d \in Disk
      BY DEF Target, VMCalls, AttachCalls, ImageCalls
    <2> QED BY <1>1, <1>4, <2>1, <2>2, DisjointAssumption
  <1>6. \A w \in VM, e \in Disk : belief'[w][e] \in {belief[w][e], "unsure"}
    BY <1>1 DEF TypeInv, TypeOK
  <1>7. BeliefTrue'
    BY <1>2, <1>3, <1>6, <1>a DEF BeliefInv, BeliefTrue
  <1>8. Untold'
    BY <1>2, <1>4 DEF BeliefInv, Untold
  <1> QED BY <1>7, <1>8 DEF BeliefInv

LEMMA BeliefReturn ==
  ASSUME TypeInv, DirectorInv, MountsInv, AttachmentInv, BeliefInv,
         NEW p \in Proc, Return(p)
  PROVE  BeliefInv'
  <1> DEFINE f == op[p]
  <1>0. /\ f \in Frame /\ Shape(f) /\ Staged(f) /\ Attached(f) /\ Unmade
        /\ known \in [VM \cup Disk -> Known]
        /\ belief \in [VM -> [Disk -> {"no", "yes", "unsure"}]]
    BY DEF TypeInv, TypeOK, DirectorInv, AttachmentInv
  <1>1. /\ UNCHANGED world
        /\ known' = IF Succeeded(p) /\ f.call \in {"create_vm", "create_disk"}
                THEN [known EXCEPT ![IF f.call = "create_vm" THEN f.vm ELSE f.disk]
                        = "known"]
                ELSE known
        /\ belief' =
             CASE Succeeded(p) /\ f.call = "attach_disk" ->
                    [belief EXCEPT ![f.vm][f.disk] = "yes"]
               [] Succeeded(p) /\ f.call = "detach_disk" ->
                    [belief EXCEPT ![f.vm][f.disk] = "no"]
               [] Succeeded(p) /\ f.call = "delete_vm" ->
                    [belief EXCEPT ![f.vm] = [d \in Disk |-> "no"]]
               [] OTHER -> belief
    BY DEF Return
  <1>2. mounts' = mounts /\ env' = env /\ late' = late /\ garbled' = garbled
        /\ stale' = stale
    BY <1>1 DEF world, agent
  <1>a. \A w : Coming(w)' = Coming(w)
    BY <1>2 DEF Coming
  <1>3. f.call = "create_disk" => f.disk \in Disk
    BY <1>0, BusyTarget DEF ImageCalls
  <1>4. \A x \in VM : known'[x] = known[x] \/
                      (known'[x] = "known" /\ known[x] = "creating")
    BY <1>0, <1>1, <1>3, DisjointAssumption DEF Staged
  <1>5. Untold'
    BY <1>2, <1>4 DEF BeliefInv, Untold
  <1>6. /\ Succeeded(p) /\ f.call = "attach_disk" =>
             <<f.vm, f.disk>> \in mounts /\ \A e \in Coming(f.vm) : f.disk \in e
        /\ Succeeded(p) /\ f.call = "detach_disk" =>
             <<f.vm, f.disk>> \notin mounts /\ \A e \in Coming(f.vm) : f.disk \notin e
    BY <1>0, SuccessDid DEF Succeeded, Attached
  <1>7. ASSUME NEW v \in VM, known[v] = "creating", NEW d \in Disk
        PROVE  Told(v, d) /\ belief[v][d] = "no"
    <2>1. belief[v][d] = "no"
      BY <1>0, <1>7 DEF Unmade
    <2>2. Coming(v) = {{}}
      BY <1>7 DEF BeliefInv, Untold, Coming
    <2>3. <<v, d>> \notin mounts
      BY <2>1 DEF MountsInv, MountsBelieved
    <2> QED BY <2>1, <2>2, <2>3 DEF Told
  <1>8. ASSUME NEW v \in VM, known'[v] = "known", NEW d \in Disk
        PROVE  Told(v, d)'
    <2>1. known[v] = "known" \/ known[v] = "creating"
      BY <1>4, <1>8
    <2>2. Told(v, d)
      BY <1>7, <2>1 DEF BeliefInv, BeliefTrue, Told
    <2>3. CASE belief'[v][d] = belief[v][d]
      BY <1>2, <1>a, <2>2, <2>3 DEF Told
    <2>4. CASE Succeeded(p) /\ f.call = "attach_disk" /\ v = f.vm /\ d = f.disk
      <3>1. belief'[v][d] = "yes"
        BY <1>0, <1>1, <1>8, <2>4
      <3>2. <<v, d>> \in mounts /\ \A e \in Coming(v) : d \in e
        BY <1>6, <2>4
      <3> QED BY <1>2, <1>a, <3>1, <3>2 DEF Told
    <2>5. CASE Succeeded(p) /\ f.call = "detach_disk" /\ v = f.vm /\ d = f.disk
      <3>1. belief'[v][d] = "no"
        BY <1>0, <1>1, <1>8, <2>5
      <3>2. <<v, d>> \notin mounts /\ \A e \in Coming(v) : d \notin e
        BY <1>6, <2>5
      <3> QED BY <1>2, <1>a, <3>1, <3>2 DEF Told
    <2>6. CASE f.call = "delete_vm" /\ v = f.vm
      BY <1>0, <2>1, <2>6 DEF Staged
    <2>7. \/ belief'[v][d] = belief[v][d]
          \/ Succeeded(p) /\ f.call = "attach_disk" /\ v = f.vm /\ d = f.disk
          \/ Succeeded(p) /\ f.call = "detach_disk" /\ v = f.vm /\ d = f.disk
          \/ f.call = "delete_vm" /\ v = f.vm
      BY <1>0, <1>1
    <2> QED BY <2>3, <2>4, <2>5, <2>6, <2>7
  <1>9. BeliefTrue'
    BY <1>8 DEF BeliefTrue, Told
  <1> QED BY <1>5, <1>9 DEF BeliefInv

LEMMA BeliefReboot ==
  ASSUME TypeInv, BeliefInv, Reboot
  PROVE  BeliefInv'
  <1>1. PICK kept \in SUBSET VM :
          /\ env' = [v \in VM |-> IF v \in kept THEN env[v] ELSE {}]
          /\ late' = [v \in VM |-> IF v \in kept THEN late[v] ELSE {}]
          /\ garbled' = garbled \cap kept
    BY DEF Reboot
  <1>2. /\ mounts' = {} /\ known' = known /\ stale' = stale
        /\ \A v \in VM, d \in Disk :
             belief'[v][d] # "yes" /\ (belief'[v][d] = "no" => belief[v][d] = "no")
    BY DEF Reboot
  <1>a. \A v \in VM : \A e : e \in Coming(v)' => e \in Coming(v) \/ e = {}
    BY <1>1 DEF Coming
  <1>3. BeliefTrue'
    BY <1>2, <1>a DEF BeliefInv, BeliefTrue
  <1>4. Untold'
    BY <1>1, <1>2 DEF BeliefInv, Untold
  <1> QED BY <1>3, <1>4 DEF BeliefInv

LEMMA BeliefNext ==
  ASSUME TypeInv, DirectorInv, MountsInv, AttachmentInv, BeliefInv, [Next]_vars
  PROVE  BeliefInv'
  <1>1. ASSUME UNCHANGED <<world, director>> PROVE BeliefInv'
    <2>1. /\ UNCHANGED <<env, late, garbled, stale, mounts, known, belief>>
          /\ \A w : Coming(w)' = Coming(w)
      BY <1>1 DEF world, agent, director, Coming
    <2> QED BY <2>1 DEF BeliefInv, BeliefTrue, Untold
  <1>2. ASSUME NEW p \in Proc, Crash(p) PROVE BeliefInv'
    BY <1>1, <1>2 DEF Crash
  <1>3. ASSUME UNCHANGED vars PROVE BeliefInv'
    BY <1>1, <1>3 DEF vars
  <1>4. ASSUME NEW v \in VM, Arrive(v) PROVE BeliefInv'
    <2>1. known' = known /\ belief' = belief /\ \A w \in VM : Settles(w)
      BY <1>4, ArriveMoves DEF director
    <2>2. ASSUME NEW w \in VM, NEW d \in Disk, known[w] = "known"
          PROVE  Told(w, d)'
      <3>1. Told(w, d)
        BY <2>2 DEF BeliefInv, BeliefTrue, Told
      <3> QED BY <2>1, <3>1, ToldKept
    <2>3. BeliefTrue'
      BY <2>1, <2>2 DEF BeliefTrue, Told
    <2>4. Untold'
      BY <2>1 DEF BeliefInv, Untold, Settles
    <2> QED BY <2>3, <2>4 DEF BeliefInv
  <1> QED BY <1>2, <1>3, <1>4, BeliefBegin, BeliefOperation, BeliefReturn,
             BeliefReboot, Steps

(***************************************************************************)
(* The theorems.                                                           *)
(***************************************************************************)
Inv == /\ TypeInv /\ DirectorInv /\ DeletionInv /\ AttachmentInv
       /\ MountsInv /\ CreationInv /\ BeliefInv

LEMMA InvInit ==
  ASSUME Init PROVE Inv
  <1>1. TypeInv /\ DirectorInv
    BY TypeInit, DirectorInit
  <1>2. \A p \in Proc : op[p].call = "none"
    BY IdleShape DEF Init
  <1>3. DeletionInv /\ AttachmentInv
    BY <1>2 DEF DeletionInv, Deleted, AttachmentInv, Attached, AttachCalls
  <1>4. MountsInv
    BY DEF Init, MountsInv, MountsBelieved, MountsAlone, MountedHasImage
  <1>5. \A v \in VM : /\ known[v] = "fresh" /\ env[v] = {} /\ late[v] = {}
                      /\ v \notin garbled
    BY DEF Init
  <1>6. CreationInv
    BY <1>2, <1>5 DEF CreationInv, KnownIsComplete, Created
  <1>7. BeliefInv
    BY <1>5 DEF BeliefInv, BeliefTrue, Untold
  <1> QED BY <1>1, <1>3, <1>4, <1>6, <1>7 DEF Inv

LEMMA InvNext ==
  ASSUME Overlap \subseteq {"delete_vm"}, Inv, [Next]_vars
  PROVE  Inv'
  BY TypeNext, DirectorNext, DeletionNext, AttachmentNext, MountsNext,
     CreationNext, BeliefNext DEF Inv

LEMMA Invariant ==
  ASSUME Overlap \subseteq {"delete_vm"}
  PROVE  Spec => []Inv
  BY InvInit, InvNext, PTL DEF Spec

\* A successful delete_vm leaves neither container nor forwarding rules nor
\* bind mounts nor mounted disks of its VM, whichever of the steps of
\* warden_vm.go Delete earlier tries had done, and when two of them overlap.
THEOREM DeletionLeavesNothing ==
  ASSUME Overlap \subseteq {"delete_vm"}
  PROVE  Spec => []DeletedMeansGone
  <1>1. Inv => DeletedMeansGone
    <2> SUFFICES ASSUME Inv, NEW p \in Proc, op[p].call = "delete_vm", Succeeded(p)
                 PROVE  LET v == op[p].vm IN
                        /\ container[v] = "none" /\ rules[v] = "none"
                        /\ dir["eph"][v] = "none" /\ dir["per"][v] = "none"
                        /\ MountsOf(Host, v) = {}
      BY DEF DeletedMeansGone
    <2>1. /\ container[op[p].vm] = "none" /\ rules[op[p].vm] = "none"
          /\ dir["eph"][op[p].vm] = "none" /\ dir["per"][op[p].vm] = "none"
          /\ \A d \in Disk : <<op[p].vm, d>> \notin mounts
      BY DeletedIsGone DEF Inv, DeletionInv, Succeeded
    <2>2. mounts \subseteq VM \X Disk /\ Host.mounts = mounts
      BY DEF Inv, TypeInv, TypeOK, Host
    <2>3. MountsOf(Host, op[p].vm) = {}
      BY <2>1, <2>2 DEF MountsOf
    <2> QED BY <2>1, <2>3
  <1> QED BY <1>1, Invariant, PTL

\* Outside a reboot a whole bind mount of a VM is taken down only when the
\* VM's container is gone: Delete destroys the container, or has seen that
\* there is none, before it touches the bind mounts.
THEOREM DestroyedBeforeUnmounted ==
  ASSUME Overlap \subseteq {"delete_vm"}
  PROVE  Spec => DestroyedFirst
  <1> DEFINE Kept == \A v \in VM, k \in Kind :
                       dir[k][v] = "whole" /\ dir'[k][v] # "whole" =>
                         container[v] = "none"
  <1>1. Inv /\ [Next]_vars => [Reboot \/ Kept]_vars
    <2> SUFFICES ASSUME Inv, [Next]_vars, ~Reboot PROVE Kept \/ UNCHANGED vars
      OBVIOUS
    <2>0. TypeInv /\ DeletionInv
      BY DEF Inv
    <2>1. ASSUME NEW p \in Proc, Operation(p) PROVE Kept
      <3> SUFFICES ASSUME NEW v \in VM, NEW k \in Kind,
                          dir[k][v] = "whole", dir'[k][v] # "whole"
                   PROVE  container[v] = "none"
        OBVIOUS
      <3>1. ~SameVM(v) /\ v = op[p].vm
        BY <2>0, <2>1, OperationKeeps DEF Keeps, SameVM
      <3>2. op[p].call = "delete_vm"
        BY <2>0, <2>1, <3>1, ActionsOfCall, CreationEffect, AttachEffect, ImageEffect
           DEF Call, VMCalls, AttachCalls, ImageCalls, CreationStep, AttachStep,
               ImageStep, Unchanged
      <3>3. Head(op[p].todo) \in {"deleteEphemeral", "deletePersistent"}
        BY <2>0, <2>1, <3>1, <3>2, DeletionEffect DEF DeletionStep
      <3>4. Did(op[p], "destroy")
        BY <2>0, <2>1, <3>2, <3>3, OperationMoves, NextOfDeletion DEF TypeInv, Moves
      <3> QED BY <2>0, <3>1, <3>2, <3>4 DEF DeletionInv, Deleted
    <2>2. ASSUME dir' = dir PROVE Kept
      BY <2>2
    <2>3. ASSUME NEW p \in Proc, NEW call, NEW v, NEW d, Begin(p, call, v, d)
          PROVE  Kept
      BY <2>2, <2>3 DEF Begin, world, agent
    <2>4. ASSUME NEW p \in Proc, Return(p) \/ Crash(p) PROVE Kept
      BY <2>2, <2>4 DEF Return, Crash, world, agent
    <2>5. ASSUME NEW v \in VM, Arrive(v) PROVE Kept
      BY <2>2, <2>5 DEF Arrive
    <2> QED BY <2>1, <2>3, <2>4, <2>5, Steps
  <1> QED BY <1>1, Invariant, PTL DEF Spec, DestroyedFirst

\* No disk is ever mounted in the directories of two VMs, across failed and
\* repeated attach_disk and detach_disk calls: what the director takes for
\* attached nowhere else is mounted nowhere else.
THEOREM DisksAreMountedOnce ==
  ASSUME Overlap \subseteq {"delete_vm"}
  PROVE  Spec => []MountedOnce
  <1>1. Inv => MountedOnce
    <2> SUFFICES ASSUME Inv, NEW d \in Disk
                 PROVE  Cardinality({v \in VM : <<v, d>> \in mounts}) <= 1
      BY DEF MountedOnce
    <2> DEFINE at == {v \in VM : <<v, d>> \in mounts}
    <2>1. \A v, w \in at : v = w
      BY DEF Inv, MountsInv, MountsAlone
    <2>2. ASSUME at = {} PROVE Cardinality(at) = 0
      BY <2>2, FS_EmptySet
    <2>3. ASSUME NEW v \in at PROVE Cardinality(at) = 1
      <3>1. at = {v}
        BY <2>1, <2>3
      <3> QED BY <3>1, FS_Singleton
    <2> HIDE DEF at
    <2>4. Cardinality(at) = 0 \/ Cardinality(at) = 1
      BY <2>2, <2>3
    <2>5. Cardinality(at) <= 1
      BY <2>4
    <2> QED BY <2>5 DEF at
  <1> QED BY <1>1, Invariant, PTL

\* The file of a mounted disk holds a file system and is never deleted or
\* cleaned up by FSFactory.Create and FSDisk.Delete (disk/fs_factory.go).
THEOREM MountedDisksKeepTheirFiles ==
  ASSUME Overlap \subseteq {"delete_vm"}
  PROVE  Spec => []MountedHasImage
  <1>1. Inv => MountedHasImage
    BY DEF Inv, MountsInv
  <1> QED BY <1>1, Invariant, PTL

\* A VM whose create_vm succeeded is whole for as long as its container
\* runs: set up in every step of WardenCreator.Create, with both bind mounts
\* and all its rules, whatever happens to other VMs and to its disks.  Its
\* agent environment can be read too, or else an attach_disk or detach_disk
\* of it is not answered yet, failed or was lost since.
THEOREM KnownVMsAreComplete ==
  ASSUME Overlap \subseteq {"delete_vm"}
  PROVE  Spec => []KnownIsComplete
  <1>1. Inv => KnownIsComplete
    BY DEF Inv, CreationInv
  <1> QED BY <1>1, Invariant, PTL

\* A disk attached successfully is mounted and named in the agent
\* environment the VM has or will have once the upload has arrived, a
\* detached one is neither, over the read-change-write of AttachDisk and
\* DetachDisk (warden_vm.go), late arrivals and all that fails between; the
\* environment up to the first Fetch that finds a newer one still late.
THEOREM DirectorIsNotDeceived ==
  ASSUME Overlap \subseteq {"delete_vm"}
  PROVE  Spec => []BeliefTrue
  <1>1. Inv => BeliefTrue
    BY DEF Inv, BeliefInv
  <1> QED BY <1>1, Invariant, PTL
=============================================================================
