------------------------------ MODULE WardenCPI ------------------------------
(***************************************************************************)
(* The calls of the CPI as the director makes them: create_vm, delete_vm,  *)
(* attach_disk, detach_disk, create_disk and delete_disk (action/*.go),    *)
(* each running the operations of the components one after the other       *)
(* (vm/warden_creator.go, vm/warden_vm.go, disk/fs_factory.go).            *)
(*                                                                         *)
(* Every process serves one call and dies; what it learns of the world it  *)
(* looks up at the start, and what it leaves unfinished nobody finishes.   *)
(* One step is one operation of a component; an operation that fails may   *)
(* have done part of its work.  What the operations on bind mounts and     *)
(* rules may do is taken from HostInterfaces: the modules HostBindMounts   *)
(* and IPTablesPorts, command by command, are shown to do that.            *)
(***************************************************************************)
EXTENDS Naturals, FiniteSets, Sequences, HostInterfaces

CONSTANTS
  VM,          \* identifiers create_vm can generate
  Disk,        \* identifiers create_disk can generate
  Proc,        \* slots for CPI processes that are alive at the same time
  NoVM, NoDisk,
  MaxFaults,   \* bound: failing operations, crashes and reboots
  Overlap      \* calls that may run beside another such call on one VM or
               \* disk: none, if the director's lock does its work

ASSUME NoVMAssumption == NoVM \notin VM
ASSUME NoDiskAssumption == NoDisk \notin Disk
ASSUME DisjointAssumption == VM \cap Disk = {}
ASSUME MaxFaultsAssumption == MaxFaults \in Nat

VARIABLES
  op,         \* what each process is doing: a frame, see Frame
  container,  \* garden's container of the VM: none, running or stopped
  env,        \* the disks the agent environment names that its processes see
  late,       \* environments streamed in that they do not see yet: at most one
  garbled,    \* VMs whose agent environment an interrupted Update tore
  stale,      \* history: VMs whose environment was fetched while a newer one
              \* was late
  ready,      \* <<v, s>>: set-up step s of the container was done
  dir,        \* dir[k][v]: the VM's bind mount, none, partial or whole
  mounts,     \* <<v, d>>: disk d is mounted in the directory of v
  rules,      \* DNAT rules of the VM: none, some or all
  image,      \* disk files: none, raw (no file system yet) or disk
  known,      \* what the director does with a VM or a disk: see Known
  belief,     \* belief[v][d]: whether the director takes d for attached
  faults      \* faults that happened so far

agent    == <<env, late, garbled, stale>>
world    == <<container, agent, ready, dir, mounts, rules, image>>
director == <<known, belief>>
vars     == <<op, world, director, faults>>

VMCalls   == {"create_vm", "delete_vm"}
AttachCalls == {"attach_disk", "detach_disk"}
ImageCalls == {"create_disk", "delete_disk"}
Call      == VMCalls \cup AttachCalls \cup ImageCalls

\* A definition such as DestroyLast, which only the mutants of
\* PROJECT.json use, is a slip in the one after it.

\* The operations of each call, in the order of the code.
Creation     == <<"findStemcell", "makeEphemeral", "makePersistent", "create",
                  "info", "forward", "firstEnv", "userData", "metadata", "start">>
DestroyLast  == <<"findVM", "removeForwarded", "deleteEphemeral",
                  "deletePersistent", "destroy">>
Deletion     == <<"findVM", "destroy", "removeForwarded", "deleteEphemeral",
                  "deletePersistent">>
Attachment   == <<"findVM", "fetch", "mount", "update">>
Detachment   == <<"findVM", "fetch", "unmount", "update">>
DiskCreation == <<"writeImage", "truncate", "mkfs">>
DiskDeletion == <<"removeImage">>
Plan ==
  [create_vm   |-> Creation,     delete_vm   |-> Deletion,
   attach_disk |-> Attachment,   detach_disk |-> Detachment,
   create_disk |-> DiskCreation, delete_disk |-> DiskDeletion]

SetUps    == {"firstEnv", "userData", "metadata", "start"}
Operations ==
  {"findStemcell", "makeEphemeral", "makePersistent", "create", "info",
   "forward", "stop", "findVM", "destroy", "removeForwarded",
   "deleteEphemeral", "deletePersistent", "fetch", "mount", "unmount",
   "update", "writeImage", "truncate", "mkfs", "removeImage", "cleanUpFile",
   "fail"} \cup SetUps
HasEnv(v) == <<v, "firstEnv">> \in ready /\ v \notin garbled

\* fresh, being created (for good, if the call fails: its id is never told),
\* known to the director, being deleted (again and again, until it works).
Known == {"fresh", "creating", "known", "deleting"}

\* todo: the operations still to run, <<>> when the call has succeeded and
\* <<"fail">> when it has failed.  found: WardenFinder saw the container.
\* fetched: the agent environment as Fetch returned it.
IdleFrame == [call |-> "none", vm |-> NoVM, disk |-> NoDisk, todo |-> <<>>,
              found |-> FALSE, fetched |-> {}]

Init ==
  /\ op = [p \in Proc |-> IdleFrame]
  /\ container = [v \in VM |-> "none"]
  /\ env = [v \in VM |-> {}]
  /\ late = [v \in VM |-> {}]
  /\ garbled = {}
  /\ stale = {}
  /\ ready = {}
  /\ dir = [k \in Kind |-> [v \in VM |-> "none"]]
  /\ mounts = {}
  /\ rules = [v \in VM |-> "none"]
  /\ image = [d \in Disk |-> "none"]
  /\ known = [x \in VM \cup Disk |-> "fresh"]
  /\ belief = [v \in VM |-> [d \in Disk |-> "no"]]
  /\ faults = 0

(***************************************************************************)
(* Frames.                                                                 *)
(***************************************************************************)
Busy(p)     == op[p].call # "none"
Succeeded(p) == Busy(p) /\ op[p].todo = <<>>
Failed(p)   == Busy(p) /\ op[p].todo = <<"fail">>
At(p, s)    == op[p].todo # <<>> /\ Head(op[p].todo) = s

Done(p) == op' = [op EXCEPT ![p].todo = Tail(@)]
Abort(p, todo) == op' = [op EXCEPT ![p].todo = todo]

Fault   == faults < MaxFaults /\ faults' = faults + 1
NoFault == UNCHANGED faults

\* Create stops the container after a failure of any operation that follows
\* its creation, create_disk deletes the file it began, the other calls just
\* return the error.
CleanUp(call, s) ==
  CASE s \in {"info", "forward"} \cup SetUps -> <<"stop", "fail">>
    [] s \in {"truncate", "mkfs"} -> <<"cleanUpFile", "fail">>
    [] OTHER -> <<"fail">>

Finish(p) == op' = [op EXCEPT ![p] = IdleFrame]

Host == [dir |-> dir, mounts |-> mounts]

(***************************************************************************)
(* The director.  It attaches a disk only to a VM it knows and while it    *)
(* takes it for attached to no other one, deletes a disk it takes for      *)
(* attached nowhere, and repeats a deletion until it succeeds.  Its lock   *)
(* keeps the calls on one VM, and those on one disk, apart.                *)
(***************************************************************************)
Admitted(call, v, d) ==
  \A q \in Proc : \/ op[q].vm = v /\ v # NoVM
                  \/ op[q].disk = d /\ d # NoDisk
                  => {call, op[q].call} \subseteq Overlap

Allowed(call, v, d) ==
  CASE call = "create_vm"   -> known[v] = "fresh"
    [] call = "delete_vm"   -> known[v] \in {"known", "deleting"}
    [] call = "attach_disk" -> /\ known[v] = "known" /\ known[d] = "known"
                               /\ \A w \in VM \ {v} : belief[w][d] = "no"
    [] call = "detach_disk" -> known[v] = "known" /\ known[d] = "known"
    [] call = "create_disk" -> known[d] = "fresh"
    [] call = "delete_disk" -> /\ known[d] \in {"known", "deleting"}
                               /\ \A w \in VM : belief[w][d] = "no"

\* The VM and the disk a call names.
Target == (VMCalls \X VM \X {NoDisk}) \cup (AttachCalls \X VM \X Disk)
            \cup (ImageCalls \X {NoVM} \X Disk)

Begin(p, call, v, d) ==
  /\ ~Busy(p)
  /\ Allowed(call, v, d)
  /\ Admitted(call, v, d)
  /\ op' = [op EXCEPT ![p] = [IdleFrame EXCEPT
                !.call = call, !.vm = v, !.disk = d, !.todo = Plan[call]]]
  /\ known' = [x \in VM \cup Disk |->
                CASE call = "create_vm" /\ x = v   -> "creating"
                  [] call = "delete_vm" /\ x = v   -> "deleting"
                  [] call = "create_disk" /\ x = d -> "creating"
                  [] call = "delete_disk" /\ x = d -> "deleting"
                  [] OTHER -> known[x]]
  /\ belief' = IF call \in AttachCalls THEN [belief EXCEPT ![v][d] = "unsure"]
               ELSE belief
  /\ UNCHANGED <<world, faults>>

\* The answer reaches the director.
Return(p) ==
  LET f == op[p] IN
  /\ Succeeded(p) \/ Failed(p)
  /\ Finish(p)
  /\ known' = IF Succeeded(p) /\ f.call \in {"create_vm", "create_disk"}
                THEN [known EXCEPT ![IF f.call = "create_vm" THEN f.vm ELSE f.disk]
                        = "known"]
                ELSE known
  /\ belief' =
       CASE Succeeded(p) /\ f.call = "attach_disk" ->
              [belief EXCEPT ![f.vm][f.disk] = "yes"]
         [] Succeeded(p) /\ f.call = "detach_disk" ->
              [belief EXCEPT ![f.vm][f.disk] = "no"]
         [] Succeeded(p) /\ f.call = "delete_vm" ->
              [belief EXCEPT ![f.vm] = [d \in Disk |-> "no"]]
         [] OTHER -> belief
  /\ UNCHANGED <<world, faults>>

\* An operation fails before it does anything.
Fail(p) ==
  LET f == op[p] IN
  /\ Busy(p) /\ f.todo # <<>>
  /\ Head(f.todo) \notin {"stop", "cleanUpFile", "fail"}
  /\ Abort(p, CleanUp(f.call, Head(f.todo)))
  /\ Fault
  /\ UNCHANGED <<world, director>>

\* An operation does its work, or fails after it.
DoneOrLost(p) ==
  \/ Done(p) /\ NoFault
  \/ Abort(p, CleanUp(op[p].call, Head(op[p].todo))) /\ Fault

\* A call of HostBindMounts or of Ports: it is done, or it fails with some
\* of its work done.
BindStep(p, step, call) ==
  LET f == op[p] IN
  /\ At(p, step)
  /\ \E host \in BindOutcomes(call, f.vm, f.disk, Host) :
       /\ dir' = host.dir /\ mounts' = host.mounts
       /\ \/ BindDone(call, f.vm, f.disk, Host, host) /\ Done(p) /\ NoFault
          \/ Abort(p, CleanUp(f.call, step)) /\ Fault
  /\ UNCHANGED <<container, agent, ready, rules, image, director>>

PortStep(p, step, call) ==
  LET f == op[p] IN
  /\ At(p, step)
  /\ rules' \in RuleOutcomes(call, f.vm, rules)
  /\ \/ RulesDone(call, f.vm, rules') /\ Done(p) /\ NoFault
     \/ Abort(p, CleanUp(f.call, step)) /\ Fault
  /\ UNCHANGED <<container, agent, ready, dir, mounts, image, director>>

(***************************************************************************)
(* create_vm: WardenCreator.Create.                                        *)
(***************************************************************************)
\* What only reads: the lookup of the stemcell with the checks of networks
\* and resolv.conf that follow it, and the container's information.
Look(p) ==
  /\ At(p, "findStemcell") \/ At(p, "info")
  /\ Done(p)
  /\ NoFault
  /\ UNCHANGED <<world, director>>

MakeBindMounts(p) == \/ BindStep(p, "makeEphemeral", "MakeEphemeral")
                     \/ BindStep(p, "makePersistent", "MakePersistent")

\* garden's answer may get lost after it has made the container.
CreateContainer(p) ==
  /\ At(p, "create")
  /\ container' = [container EXCEPT ![op[p].vm] = "running"]
  /\ DoneOrLost(p)
  /\ UNCHANGED <<agent, ready, dir, mounts, rules, image, director>>

Forward(p) == PortStep(p, "forward", "Forward")

\* The agent environment file, which names no disk yet; then the two
\* metadata files; then a script is started in the container, with runit
\* the agent itself.  Nobody waits for it.
SetUp(p) ==
  /\ ready' = ready \cup {<<op[p].vm, Head(op[p].todo)>>}
  /\ DoneOrLost(p)
  /\ UNCHANGED <<container, agent, dir, mounts, rules, image, director>>

UploadEnv(p)    == At(p, "firstEnv") /\ SetUp(p)
SaveMetadata(p) == (At(p, "userData") \/ At(p, "metadata")) /\ SetUp(p)
StartAgent(p)   == At(p, "start") /\ SetUp(p)

\* cleanUpContainer: Stop ends the processes, the container stays; its error
\* is only logged.
Stop(p) ==
  LET v == op[p].vm IN
  /\ At(p, "stop")
  /\ Done(p)
  /\ \/ /\ container' = [container EXCEPT ![v] = "stopped"]
        /\ ready' = ready \ {<<v, "start">>}
        /\ NoFault
     \/ UNCHANGED <<container, ready>> /\ Fault
  /\ UNCHANGED <<agent, dir, mounts, rules, image, director>>

(***************************************************************************)
(* delete_vm: WardenFinder.Find, whose verdict delete_vm passes on to      *)
(* WardenVM.Delete, and the disk calls give up on.                         *)
(***************************************************************************)
NotFoundIsGone(f) == IF f.call = "delete_vm" THEN <<>> ELSE <<"fail">>
NotFoundFails(f) == <<"fail">>
NotFound(f) == IF f.call = "delete_vm" THEN Tail(f.todo) ELSE <<"fail">>

FindVM(p) ==
  LET f == op[p] IN
  /\ At(p, "findVM")
  /\ IF container[f.vm] # "none"
       THEN op' = [op EXCEPT ![p].todo = Tail(@), ![p].found = TRUE]
       ELSE Abort(p, NotFound(f))
  /\ NoFault
  /\ UNCHANGED <<world, director>>

\* Destroying a container that somebody else destroyed since is an error.
Destroy(p) ==
  LET f == op[p] v == f.vm IN
  /\ At(p, "destroy")
  /\ \/ ~f.found /\ Done(p) /\ NoFault /\ UNCHANGED <<container, agent, ready>>
     \/ /\ f.found /\ container[v] = "none"
        /\ Abort(p, <<"fail">>)
        /\ NoFault /\ UNCHANGED <<container, agent, ready>>
     \/ /\ f.found /\ container[v] # "none"
        /\ container' = [container EXCEPT ![v] = "none"]
        /\ env' = [env EXCEPT ![v] = {}]
        /\ late' = [late EXCEPT ![v] = {}]
        /\ garbled' = garbled \ {v}
        /\ ready' = {e \in ready : e[1] # v}
        /\ UNCHANGED stale
        /\ DoneOrLost(p)
  /\ UNCHANGED <<dir, mounts, rules, image, director>>

RemoveForwarded(p)  == PortStep(p, "removeForwarded", "RemoveForwarded")
DeleteEphemeral(p)  == BindStep(p, "deleteEphemeral", "DeleteEphemeral")
DeletePersistent(p) == BindStep(p, "deletePersistent", "DeletePersistent")

(***************************************************************************)
(* attach_disk and detach_disk: WardenVM.AttachDisk and DetachDisk read    *)
(* the agent environment, change the mounts and write it back.  The disk   *)
(* itself is not looked up before mount needs its file.  Fetch and Update  *)
(* are Download and Upload of WardenFileService, each in one step.         *)
(***************************************************************************)
Fetch(p) ==
  LET v == op[p].vm IN
  /\ At(p, "fetch")
  /\ IF HasEnv(v)
       THEN /\ op' = [op EXCEPT ![p].todo = Tail(@), ![p].fetched = env[v]]
            /\ stale' = IF late[v] # {} THEN stale \cup {v} ELSE stale
       ELSE Abort(p, <<"fail">>) /\ UNCHANGED stale
  /\ NoFault
  /\ UNCHANGED <<container, env, late, garbled, ready, dir, mounts, rules, image,
                 director>>

\* mount -o loop needs the disk's file with a file system, and finds a disk
\* that is mounted there already busy.  The directory has been made by then.
Mount(p) ==
  LET f == op[p] IN
  /\ At(p, "mount")
  /\ \/ image[f.disk] = "disk" /\ BindStep(p, "mount", "MountPersistent")
     \/ /\ image[f.disk] # "disk" \/ <<f.vm, f.disk>> \in mounts
        /\ \E host \in BindOutcomes("MountPersistent", f.vm, f.disk, Host) :
             dir' = host.dir
        /\ Abort(p, <<"fail">>) /\ NoFault
        /\ UNCHANGED <<container, agent, ready, mounts, rules, image,
                       director>>

\* A container may keep the disk busy through all the tries.
Unmount(p) ==
  \/ BindStep(p, "unmount", "UnmountPersistent")
  \/ /\ At(p, "unmount")
     /\ <<op[p].vm, op[p].disk>> \in mounts
     /\ Abort(p, <<"fail">>) /\ NoFault
     /\ UNCHANGED <<world, director>>

EnvNamesVM(f) == f.fetched \cup {f.vm}
EnvFromScratch(f) == IF f.call = "attach_disk" THEN {f.disk} ELSE {}
NewEnv(f) == IF f.call = "attach_disk" THEN f.fetched \cup {f.disk}
                                       ELSE f.fetched \ {f.disk}

\* The file is written in place; or it is streamed in and processes see the
\* old one for a while, which the check [ -f ] finds as well; or the upload
\* is cut short and leaves a torn file, which no later Fetch can read.  An
\* upload that fails may have brought the new file all the same (see Fail
\* for one that has not), and that file may be late too.
Update(p) ==
  LET f == op[p] v == f.vm IN
  /\ At(p, "update")
  /\ \/ /\ container[v] = "none"
        /\ Abort(p, <<"fail">>) /\ NoFault /\ UNCHANGED <<env, late, garbled>>
     \/ /\ container[v] # "none"
        /\ env' = [env EXCEPT ![v] = NewEnv(f)]
        /\ late' = [late EXCEPT ![v] = {}]
        /\ garbled' = garbled \ {v}
        /\ DoneOrLost(p)
     \/ /\ container[v] # "none"
        /\ late' = [late EXCEPT ![v] = {NewEnv(f)}]
        /\ DoneOrLost(p)
        /\ UNCHANGED <<env, garbled>>
     \/ /\ container[v] # "none"
        /\ garbled' = garbled \cup {v}
        /\ Abort(p, <<"fail">>) /\ Fault
        /\ UNCHANGED <<env, late>>
  /\ UNCHANGED <<stale, container, ready, dir, mounts, rules, image, director>>

(***************************************************************************)
(* create_disk and delete_disk: FSFactory.Create and FSDisk.Delete.        *)
(***************************************************************************)
BuildImage(p) ==
  LET f == op[p] s == Head(f.todo) IN
  /\ f.todo # <<>> /\ s \in {"writeImage", "truncate", "mkfs"}
  /\ image' = [image EXCEPT ![f.disk] = IF s = "mkfs" THEN "disk" ELSE "raw"]
  /\ DoneOrLost(p)
  /\ UNCHANGED <<container, agent, ready, dir, mounts, rules, director>>

RemoveImage(p) ==
  /\ At(p, "removeImage")
  /\ image' = [image EXCEPT ![op[p].disk] = "none"]
  /\ DoneOrLost(p)
  /\ UNCHANGED <<container, agent, ready, dir, mounts, rules, director>>

\* cleanUpFile: an error is only logged.
CleanUpFile(p) ==
  /\ At(p, "cleanUpFile")
  /\ Done(p)
  /\ \/ image' = [image EXCEPT ![op[p].disk] = "none"] /\ NoFault
     \/ UNCHANGED image /\ Fault
  /\ UNCHANGED <<container, agent, ready, dir, mounts, rules, director>>

(***************************************************************************)
(* What nobody handles.                                                    *)
(***************************************************************************)
\* A CPI process dies between two operations; the director sees the call
\* fail.
Crash(p) ==
  /\ Busy(p)
  /\ Finish(p)
  /\ Fault
  /\ UNCHANGED <<world, director>>

\* The overlay file system of the container shows what was streamed in.
\* Nothing makes it do so soon, or at all.
Arrive(v) ==
  /\ late[v] # {}
  /\ env' \in {[env EXCEPT ![v] = e] : e \in late[v]}
  /\ late' = [late EXCEPT ![v] = {}]
  /\ garbled' = garbled \ {v}
  /\ UNCHANGED <<op, container, stale, ready, dir, mounts, rules, image, director,
                 faults>>

\* The host restarts: mounts, rules and processes are gone, files are not,
\* and garden may or may not bring a container back, without its processes.
\* What the director knew of attached disks is void.
Reboot ==
  /\ op' = [p \in Proc |-> IdleFrame]
  /\ \E kept \in SUBSET VM :
       /\ container' = [v \in VM |-> IF container[v] # "none" /\ v \in kept
                                       THEN "stopped" ELSE "none"]
       /\ env' = [v \in VM |-> IF v \in kept THEN env[v] ELSE {}]
       /\ late' = [v \in VM |-> IF v \in kept THEN late[v] ELSE {}]
       /\ garbled' = garbled \cap kept
       /\ ready' = {e \in ready : e[1] \in kept /\ e[2] # "start"}
  /\ dir' = [k \in Kind |-> [v \in VM |->
              IF dir[k][v] = "none" THEN "none" ELSE "partial"]]
  /\ mounts' = {}
  /\ rules' = [v \in VM |-> "none"]
  /\ belief' = [v \in VM |-> [d \in Disk |->
                 IF belief[v][d] = "yes" THEN "unsure" ELSE belief[v][d]]]
  /\ Fault
  /\ UNCHANGED <<image, known, stale>>

Operation(p) ==
  \/ Fail(p) \/ Look(p) \/ MakeBindMounts(p) \/ CreateContainer(p) \/ Forward(p)
  \/ UploadEnv(p) \/ SaveMetadata(p) \/ StartAgent(p) \/ Stop(p)
  \/ FindVM(p) \/ Destroy(p) \/ RemoveForwarded(p)
  \/ DeleteEphemeral(p) \/ DeletePersistent(p)
  \/ Fetch(p) \/ Mount(p) \/ Unmount(p) \/ Update(p)
  \/ BuildImage(p) \/ RemoveImage(p) \/ CleanUpFile(p)

Next ==
  \/ \E p \in Proc, t \in Target : Begin(p, t[1], t[2], t[3])
  \/ \E p \in Proc : Operation(p) \/ Return(p) \/ Crash(p)
  \/ \E v \in VM : Arrive(v)
  \/ Reboot

Spec == Init /\ [][Next]_vars

\* A process that is not killed runs its next operation.
Running == \A p \in Proc : WF_vars(Operation(p) \/ Return(p))

\* The director repeats a deletion that did not succeed.
Repeated ==
  \A v \in VM : SF_vars(\E p \in Proc : known[v] = "deleting"
                                        /\ Begin(p, "delete_vm", v, NoDisk))

(***************************************************************************)
(* Properties.                                                             *)
(***************************************************************************)

\* Every variable has its type.
TypeOK ==
  /\ \A p \in Proc :
       /\ op[p] \in [call : Call \cup {"none"}, vm : VM \cup {NoVM},
                    disk : Disk \cup {NoDisk}, todo : Seq(Operations),
                    found : BOOLEAN, fetched : SUBSET Disk]
  /\ container \in [VM -> {"none", "running", "stopped"}]
  /\ env \in [VM -> SUBSET Disk]
  /\ ready \subseteq VM \X SetUps
  /\ late \in [VM -> SUBSET (SUBSET Disk)]
  /\ garbled \subseteq VM /\ stale \subseteq VM
  /\ dir \in [Kind -> [VM -> DirState]]
  /\ mounts \subseteq VM \X Disk
  /\ rules \in [VM -> RulesState]
  /\ image \in [Disk -> {"none", "raw", "disk"}]
  /\ known \in [VM \cup Disk -> Known]
  /\ belief \in [VM -> [Disk -> {"no", "yes", "unsure"}]]
  /\ faults \in 0..MaxFaults

\* A VM the director knows is whole for as long as its container runs: no
\* failed call of another VM's, no attached or detached disk and no crash
\* takes away a piece of what Create put together.  The one exception is its
\* agent environment, which an upload cut short tears; then an attach_disk
\* or detach_disk of this VM failed or was lost, and the director has not
\* got a successful answer about that disk since.
KnownIsComplete ==
  \A v \in VM : known[v] = "known" /\ container[v] = "running" =>
    /\ {v} \X SetUps \subseteq ready
    /\ HasEnv(v) \/ \E d \in Disk : belief[v][d] = "unsure"
    /\ dir["eph"][v] = "whole" /\ dir["per"][v] = "whole"
    /\ rules[v] = "all"

\* The environments the agent and the next Fetch may still come to read
\* once what was streamed in has arrived; none, if the file is torn.
Coming(v) == IF late[v] # {} THEN late[v]
             ELSE IF v \in garbled THEN {} ELSE {env[v]}

\* Mount table and agent environment agree with the answers the director
\* got: a disk attached successfully is mounted and named to the agent, a
\* detached one is neither, across all failed and repeated calls between
\* (the read-change-write of warden_vm.go:85-99 and 112-124).  The agent's
\* half holds for the environment that is coming, and until some call has
\* fetched an old environment while a newer one was late: that call writes
\* back what it read, and nothing is promised from then on.  A torn
\* environment names nothing any more, and nothing false either.
BeliefTrue ==
  \A v \in VM, d \in Disk : known[v] = "known" =>
    /\ belief[v][d] = "yes" => <<v, d>> \in mounts
    /\ belief[v][d] = "no" => <<v, d>> \notin mounts
    /\ v \notin stale => \A e \in Coming(v) : /\ belief[v][d] = "yes" => d \in e
                                              /\ belief[v][d] = "no" => d \notin e

\* No disk is mounted for two VMs, which would corrupt its file system.
MountedOnce ==
  \A d \in Disk : Cardinality({v \in VM : <<v, d>> \in mounts}) <= 1

\* The file of a mounted disk is never deleted, and holds a file system.
MountedHasImage == \A e \in mounts : image[e[2]] = "disk"

\* A successful delete_vm leaves nothing of the VM on the host, whether it
\* found the container or not and however far an earlier try had come.
DeletedMeansGone ==
  \A p \in Proc : op[p].call = "delete_vm" /\ Succeeded(p) =>
    LET v == op[p].vm IN
    /\ container[v] = "none" /\ rules[v] = "none"
    /\ dir["eph"][v] = "none" /\ dir["per"][v] = "none" /\ MountsOf(Host, v) = {}

\* The bind mounts of a VM are taken down only when its container is gone,
\* so that the kernel does not find them busy (warden_vm_test.go:50).
DestroyedFirst ==
  [][Reboot \/ \A v \in VM, k \in Kind :
       dir[k][v] = "whole" /\ dir'[k][v] # "whole" => container[v] = "none"]_vars

\* A VM the director deletes disappears for good, wherever tries failed,
\* processes died or the host restarted: no try leaves a state from which
\* the next one cannot go on.
DeletionConverges ==
  \A v \in VM : known[v] = "deleting" ~>
    [](/\ container[v] = "none" /\ rules[v] = "none" /\ MountsOf(Host, v) = {}
       /\ dir["eph"][v] = "none" /\ dir["per"][v] = "none")

\* What the tests say of the clean-up after a failed create_vm, "destroys
\* created container" (warden_creator_test.go:299): once it has run without
\* an error the container is gone.
CleanUpDestroys ==
  [][\A p \in Proc : At(p, "stop") /\ At(p, "fail")' /\ faults' = faults
       => container'[op[p].vm] = "none"]_vars

=============================================================================
