--------------------------- MODULE HostBindMounts ---------------------------
(***************************************************************************)
(* vm/fs_host_bind_mounts.go, command by command: the directories and the  *)
(* mounts the CPI keeps on the host for every VM.                          *)
(*                                                                         *)
(* The CPI serves one call per operating-system process, so the processes  *)
(* below share the host's file system and mount table and nothing else.    *)
(* Each step of a process is one command it runs (mkdir, mount, umount,    *)
(* the listing printed by mount, RemoveAll) and commands of different      *)
(* processes interleave freely.  What keeps two calls off the same VM is   *)
(* the director's per-deployment lock, not this code: Overlap is the set   *)
(* of calls that escape it, the empty set when it works as intended.       *)
(***************************************************************************)
EXTENDS Naturals, FiniteSets, HostInterfaces

CONSTANTS
  VM,          \* VM identifiers: uuids, each given to one creation
  Disk,        \* identifiers of persistent disks
  Proc,        \* slots for CPI processes that are alive at the same time
  NoVM, NoDisk,
  Attempts,    \* tries of unmountPath and deletePath (60 in the code)
  MaxFaults,   \* bound: failing commands, crashes and reboots in a behaviour
  Overlap      \* calls that may run beside another such call on one VM

ASSUME NoVMAssumption == NoVM \notin VM
ASSUME NoDiskAssumption == NoDisk \notin Disk
ASSUME AttemptsAssumption == Attempts \in Nat \ {0}
ASSUME MaxFaultsAssumption == MaxFaults \in Nat

VARIABLES
  op,       \* what each process is doing: a frame, see Frame
  root,     \* root[k][v]: the VM's ephemeral or persistent mount directory
  nested,   \* VMs with container mounts propagated under the ephemeral one
  diskDir,  \* <<v, d>>: the directory of disk d under v's persistent one
  mounted,  \* <<v, d>>: disk d is loop-mounted on that directory
  lost,     \* disks whose contents RemoveAll deleted through a mount
  life,     \* how far the VM's container is: see Life
  faults    \* faults that happened so far

vars == <<op, root, nested, diskDir, mounted, lost, life, faults>>
host == <<root, nested, diskDir, mounted, lost>>

(***************************************************************************)
(* The calls of the HostBindMounts interface (vm/interfaces.go) and the    *)
(* stage of the VM at which the rest of the CPI makes them: the creator    *)
(* makes the mounts of a fresh id one after the other, disks are attached  *)
(* and detached while the container exists, and both deletions come after  *)
(* Destroy, on every delete_vm of the VM, the repeated ones included.      *)
(***************************************************************************)
Life == {"new", "creating", "eph", "ready", "up", "gone"}

StageFor ==
  [MakeEphemeral    |-> "new", MakePersistent    |-> "eph",
   DeleteEphemeral  |-> "gone", DeletePersistent |-> "gone",
   MountPersistent  |-> "up",  UnmountPersistent |-> "up"]

\* A directory as mkdir, mount --bind and the propagation flags leave it.
Propagation == {"bind", "unbindable", "shared"}
RootState == {"absent", "dir"} \cup Propagation

First == [MakeEphemeral    |-> "mkdir",  MakePersistent    |-> "mkdir",
          DeleteEphemeral  |-> "exists", DeletePersistent  |-> "exists",
          MountPersistent  |-> "mkdirDisk", UnmountPersistent |-> "check"]

Step == {"mkdir", "bind", "unbindable", "shared", "exists", "glob", "next",
         "check", "umountDisk", "umount", "remove", "mkdirDisk", "mountDisk"}
At == {"idle", "ok", "err"} \cup Step

Frame == [call : BindCall \cup {"none"}, vm : VM \cup {NoVM},
          disk : Disk \cup {NoDisk}, at : At,
          todo : SUBSET Disk, tries : 0..(Attempts - 1)]

IdleFrame == [call |-> "none", vm |-> NoVM, disk |-> NoDisk, at |-> "idle",
              todo |-> {}, tries |-> 0]

Init ==
  /\ op = [p \in Proc |-> IdleFrame]
  /\ root = [k \in Kind |-> [v \in VM |-> "absent"]]
  /\ nested = {}
  /\ diskDir = {}
  /\ mounted = {}
  /\ lost = {}
  /\ life = [v \in VM |-> "new"]
  /\ faults = 0

(***************************************************************************)
(* Frames.                                                                 *)
(***************************************************************************)
Busy(p)       == op[p].at # "idle"
Goto(p, at)   == op' = [op EXCEPT ![p].at = at]

\* A definition such as AgainForever, which only the mutants of
\* PROJECT.json use, is a slip in the one after it.

\* The loops of unmountPath and deletePath: at most Attempts rounds, then
\* the last error is returned.
AgainForever(p, at) == op' = [op EXCEPT ![p].at = at]
Again(p, at) == op' = [op EXCEPT ![p].at = at, ![p].tries = @ + 1]
TriesLeftOneMore(p) == op[p].tries < Attempts
TriesLeft(p) == op[p].tries + 1 < Attempts
GiveUpSilently == "ok"
GiveUp == "err"
Retry(p, at) == IF TriesLeft(p) THEN Again(p, at) ELSE Goto(p, GiveUp)
Afresh(p, at) == op' = [op EXCEPT ![p].at = at, ![p].tries = 0]

\* Spends one unit of the fault budget.
Fault   == faults < MaxFaults /\ faults' = faults + 1
NoFault == UNCHANGED faults

DisksIn(dirs, v) == {d \in Disk : <<v, d>> \in dirs}

\* Where unmountPath returns nil to: the loop over the globbed directories
\* of DeletePersistent, or the end of UnmountPersistent.
UnmountedAlways(p) == "ok"
UnmountedAt(p) == IF op[p].call = "DeletePersistent" THEN "next" ELSE "ok"

(***************************************************************************)
(* A call begins once the lock lets it.  An orphaned CPI process, whose    *)
(* director worker gave up or died, is what makes calls overlap.           *)
(***************************************************************************)
Admitted(call, v) ==
  \A q \in Proc : op[q].vm = v => {call, op[q].call} \subseteq Overlap

Begin(p, call, v, d) ==
  /\ ~Busy(p)
  /\ life[v] = StageFor[call]
  /\ Admitted(call, v)
  /\ d = NoDisk <=> call \notin DiskCalls
  /\ op' = [op EXCEPT ![p] = [call |-> call, vm |-> v, disk |-> d,
                              at |-> First[call], todo |-> {}, tries |-> 0]]
  /\ life' = IF call \in Makes THEN [life EXCEPT ![v] = "creating"] ELSE life
  /\ UNCHANGED <<host, faults>>

\* The caller takes the answer; a successful Make lets the creation go on.
Return(p) ==
  /\ op[p].at \in {"ok", "err"}
  /\ op' = [op EXCEPT ![p] = IdleFrame]
  /\ life' = IF op[p].at = "ok" /\ op[p].call \in Makes
               THEN [life EXCEPT ![op[p].vm] =
                       IF op[p].call = "MakeEphemeral" THEN "eph" ELSE "ready"]
               ELSE life
  /\ UNCHANGED <<host, faults>>

\* A command the code does not retry fails and ends the call with an error.
Fail(p) ==
  /\ op[p].at \in {"mkdir", "bind", "unbindable", "shared", "glob", "check",
                   "umount", "mkdirDisk", "mountDisk"}
  /\ Goto(p, "err")
  /\ Fault
  /\ UNCHANGED <<host, life>>

(***************************************************************************)
(* MakeEphemeral and MakePersistent.  A flag is set on what is already     *)
(* mounted; only MakePersistent passes through unbindable.                 *)
(***************************************************************************)
Mkdir(p) ==
  LET f == op[p] k == KindOf(f.call) IN
  /\ f.at = "mkdir"
  /\ root' = [root EXCEPT ![k][f.vm] = IF @ = "absent" THEN "dir" ELSE @]
  /\ Goto(p, "bind")
  /\ NoFault
  /\ UNCHANGED <<nested, diskDir, mounted, lost, life>>

AfterFlag(call, flag) ==
  CASE flag = "bind" /\ call = "MakePersistent" -> "unbindable"
    [] flag = "bind" /\ call = "MakeEphemeral"  -> "shared"
    [] flag = "unbindable"                      -> "shared"
    [] flag = "shared"                          -> "ok"

MountFlag(p) ==
  LET f == op[p] k == KindOf(f.call) IN
  /\ f.at \in Propagation
  /\ root' = [root EXCEPT ![k][f.vm] = f.at]
  /\ Goto(p, AfterFlag(f.call, f.at))
  /\ NoFault
  /\ UNCHANGED <<nested, diskDir, mounted, lost, life>>

(***************************************************************************)
(* DeleteEphemeral and DeletePersistent: nothing to do without the         *)
(* directory, then the mounts, then the tree.                              *)
(***************************************************************************)
AfterExistsNoDisks(k) == "umount"
AfterExists(k) == IF k = "eph" THEN "umount" ELSE "glob"

Exists(p) ==
  LET f == op[p] k == KindOf(f.call) IN
  /\ f.at = "exists"
  /\ Goto(p, IF root[k][f.vm] = "absent" THEN "ok" ELSE AfterExists(k))
  /\ NoFault
  /\ UNCHANGED <<host, life>>

\* What the directory holds now; a disk mounted later is not in the list.
Glob(p) ==
  LET f == op[p] IN
  /\ f.at = "glob"
  /\ op' = [op EXCEPT ![p].at = "next", ![p].todo = DisksIn(diskDir, f.vm)]
  /\ NoFault
  /\ UNCHANGED <<host, life>>

NextDisk(p) ==
  LET f == op[p] IN
  /\ f.at = "next"
  /\ \/ f.todo = {} /\ Goto(p, "umount")
     \/ \E d \in f.todo :
          op' = [op EXCEPT ![p].disk = d, ![p].todo = @ \ {d},
                           ![p].tries = 0, ![p].at = "check"]
  /\ NoFault
  /\ UNCHANGED <<host, life>>

\* umount leaves a plain directory.  Of what is no mount point it complains
\* with "not mounted", which both deletions tolerate, and of a directory
\* that is not there with another error.  The persistent directory is busy
\* while a disk is mounted in it; the umount of the ephemeral one is
\* --recursive and takes the container's mounts along.
ToleratedNothing == {}
Tolerated == {"dir"}
UnmountedTopOnly(k, v) == nested
UnmountedTree(k, v) == IF k = "eph" THEN nested \ {v} ELSE nested

Umount(p) ==
  LET f == op[p] k == KindOf(f.call) r == root[k][f.vm]
      busy == k = "per" /\ DisksIn(mounted, f.vm) # {} IN
  /\ f.at = "umount"
  /\ \/ /\ r \in Propagation /\ ~busy
        /\ root' = [root EXCEPT ![k][f.vm] = "dir"]
        /\ nested' = UnmountedTree(k, f.vm)
        /\ Afresh(p, "remove")
     \/ /\ r \in Tolerated
        /\ Afresh(p, "remove")
        /\ UNCHANGED <<root, nested>>
     \/ /\ r \notin Tolerated /\ (r \in Propagation => busy)
        /\ Goto(p, "err")
        /\ UNCHANGED <<root, nested>>
  /\ NoFault
  /\ UNCHANGED <<diskDir, mounted, lost, life>>

(***************************************************************************)
(* deletePath: RemoveAll works its way down the tree.  It deletes what is  *)
(* inside a mount as well, and then cannot remove the mount point: the     *)
(* error leads to another try, as does a transient busy error.             *)
(***************************************************************************)
\* done: the disk directories of v that RemoveAll has come to.
Emptied(v, done) ==
  /\ lost' = lost \cup {d \in done : <<v, d>> \in mounted}
  /\ diskDir' = {e \in diskDir : e[1] # v \/ e[2] \notin done \/ e \in mounted}

Remove(p) ==
  LET f == op[p] k == KindOf(f.call)
      held == IF k = "eph" THEN f.vm \in nested
              ELSE DisksIn(mounted, f.vm) # {} IN
  /\ f.at = "remove"
  /\ IF root[k][f.vm] \in Propagation \/ held
       THEN Retry(p, "remove") /\ UNCHANGED root
       ELSE /\ root' = [root EXCEPT ![k][f.vm] = "absent"]
            /\ Goto(p, "ok")
  /\ Emptied(f.vm, IF k = "eph" THEN {} ELSE Disk)
  /\ NoFault
  /\ UNCHANGED <<nested, mounted, life>>

\* It fails somewhere on its way.
RemoveFails(p) ==
  LET f == op[p] IN
  /\ f.at = "remove"
  /\ Retry(p, "remove")
  /\ \E done \in IF KindOf(f.call) = "eph" THEN {{}} ELSE SUBSET Disk :
       Emptied(f.vm, done)
  /\ Fault
  /\ UNCHANGED <<root, nested, mounted, life>>

(***************************************************************************)
(* unmountPath: at most Attempts rounds of listing the mounts and          *)
(* unmounting; a directory that is not listed counts as unmounted.         *)
(***************************************************************************)
CheckMounts(p) ==
  LET f == op[p] IN
  /\ f.at = "check"
  /\ Goto(p, IF <<f.vm, f.disk>> \in mounted THEN "umountDisk"
             ELSE UnmountedAt(p))
  /\ NoFault
  /\ UNCHANGED <<host, life>>

UmountDisk(p) ==
  LET f == op[p] IN
  /\ f.at = "umountDisk"
  /\ <<f.vm, f.disk>> \in mounted
  /\ mounted' = mounted \ {<<f.vm, f.disk>>}
  /\ Goto(p, UnmountedAt(p))
  /\ NoFault
  /\ UNCHANGED <<root, nested, diskDir, lost, life>>

\* Busy for as long as the container likes, already unmounted by somebody
\* else, or failing for a reason of its own.
UmountDiskFails(p) ==
  LET f == op[p] IN
  /\ f.at = "umountDisk"
  /\ Retry(p, "check")
  /\ \/ <<f.vm, f.disk>> \in mounted /\ life[f.vm] = "up" /\ NoFault
     \/ <<f.vm, f.disk>> \notin mounted /\ NoFault
     \/ Fault
  /\ UNCHANGED <<host, life>>

(***************************************************************************)
(* MountPersistent: MkdirAll makes the missing parents too; a second loop  *)
(* mount of the same disk on the same directory is refused as busy.        *)
(***************************************************************************)
MkdirDisk(p) ==
  LET f == op[p] IN
  /\ f.at = "mkdirDisk"
  /\ root' = [root EXCEPT !["per"][f.vm] = IF @ = "absent" THEN "dir" ELSE @]
  /\ diskDir' = diskDir \cup {<<f.vm, f.disk>>}
  /\ Goto(p, "mountDisk")
  /\ NoFault
  /\ UNCHANGED <<nested, mounted, lost, life>>

MountDisk(p) ==
  LET f == op[p] e == <<f.vm, f.disk>> IN
  /\ f.at = "mountDisk"
  /\ IF e \in diskDir /\ e \notin mounted
       THEN mounted' = mounted \cup {e} /\ Goto(p, "ok")
       ELSE UNCHANGED mounted /\ Goto(p, "err")
  /\ NoFault
  /\ UNCHANGED <<root, nested, diskDir, lost, life>>

(***************************************************************************)
(* The rest of the world.  Garden starts the container on the two mounts   *)
(* and Destroy ends it; what the container mounts under its ephemeral      *)
(* directory shows up on the host if the host's mount is shared.           *)
(***************************************************************************)
ContainerUp(v) ==
  /\ life[v] = "ready"
  /\ life' = [life EXCEPT ![v] = "up"]
  /\ UNCHANGED <<op, host, faults>>

ContainerGone(v) ==
  /\ life[v] = "up"
  /\ \A q \in Proc : op[q].vm = v => op[q].call \in Overlap
  /\ life' = [life EXCEPT ![v] = "gone"]
  /\ UNCHANGED <<op, host, faults>>

ContainerMounts(v) ==
  /\ life[v] = "up" /\ root["eph"][v] = "shared"
  /\ nested' = nested \cup {v}
  /\ UNCHANGED <<op, root, diskDir, mounted, lost, life, faults>>

\* The process dies between two commands; what it did stays.
Crash(p) ==
  /\ Busy(p)
  /\ op' = [op EXCEPT ![p] = IdleFrame]
  /\ Fault
  /\ UNCHANGED <<host, life>>

\* Processes and mounts are gone, directories stay.  Garden may or may not
\* know a container again; a creation under way is never resumed.
Reboot ==
  /\ op' = [p \in Proc |-> IdleFrame]
  /\ root' = [k \in Kind |-> [v \in VM |->
                IF root[k][v] = "absent" THEN "absent" ELSE "dir"]]
  /\ nested' = {} /\ mounted' = {}
  /\ \E kept \in SUBSET VM :
       life' = [v \in VM |->
                 CASE life[v] = "up" -> IF v \in kept THEN "up" ELSE "gone"
                   [] life[v] \in {"eph", "ready"} -> "creating"
                   [] OTHER -> life[v]]
  /\ Fault
  /\ UNCHANGED <<diskDir, lost>>

(***************************************************************************)
(* The specification.                                                      *)
(***************************************************************************)
Command(p) ==
  \/ Mkdir(p) \/ MountFlag(p)
  \/ Exists(p) \/ Glob(p) \/ NextDisk(p) \/ Umount(p)
  \/ Remove(p) \/ RemoveFails(p)
  \/ CheckMounts(p) \/ UmountDisk(p) \/ UmountDiskFails(p)
  \/ MkdirDisk(p) \/ MountDisk(p)
  \/ Fail(p)

Start(p) == \E call \in BindCall, v \in VM, d \in Disk \cup {NoDisk} :
              Begin(p, call, v, d)

Next ==
  \/ \E p \in Proc : Start(p) \/ Command(p) \/ Return(p) \/ Crash(p)
  \/ \E v \in VM : ContainerUp(v) \/ ContainerGone(v) \/ ContainerMounts(v)
  \/ Reboot

Spec == Init /\ [][Next]_vars

\* A process that is not killed runs its next command: the commands return,
\* Sleep returns, and nothing in a call waits for another process.
Running == \A p \in Proc : WF_vars(Command(p) \/ Return(p))

\* The director repeats delete_vm on a VM it believes deleted or failed to
\* delete, at every deploy or clean-up, so both deletions come again.
Repeated ==
  \A v \in VM, call \in Deletes :
    SF_vars(\E p \in Proc : Begin(p, call, v, NoDisk))

FairSpec == Spec /\ Running

(***************************************************************************)
(* Properties.                                                             *)
(***************************************************************************)

\* Every variable has its type.
TypeOK ==
  /\ op \in [Proc -> Frame]
  /\ root \in [Kind -> [VM -> RootState]]
  /\ nested \subseteq VM
  /\ diskDir \subseteq VM \X Disk
  /\ mounted \subseteq VM \X Disk
  /\ lost \subseteq Disk
  /\ life \in [VM -> Life]
  /\ faults \in Nat

\* RemoveAll of a persistent directory never runs through a mounted disk:
\* DeletePersistent unmounts every disk it finds first and returns when one
\* cannot be unmounted (fs_host_bind_mounts.go:144-149), whatever fails,
\* dies or restarts in between and whichever deletions overlap.
NoDiskLost == lost = {}

\* An answer is true when it is given: what a call reports done is what the
\* host's tables show, after any number of retries and beside other calls.
Promised(f) ==
  CASE f.call \in Makes -> root[KindOf(f.call)][f.vm] = "shared"
    [] f.call = "DeleteEphemeral" ->
         root["eph"][f.vm] = "absent" /\ f.vm \notin nested
    [] f.call = "DeletePersistent" ->
         root["per"][f.vm] = "absent" /\ DisksIn(mounted, f.vm) = {}
    [] f.call = "MountPersistent"   -> <<f.vm, f.disk>> \in mounted
    [] f.call = "UnmountPersistent" -> <<f.vm, f.disk>> \notin mounted

AnswersTrue == \A p \in Proc : op[p].at = "ok" => Promised(op[p])

\* When RemoveAll of the ephemeral directory starts no mount is left under
\* it, so the removal does not fail with "device or resource busy": the
\* reason given for umount --recursive (fs_host_bind_mounts.go:84-92).
EphemeralRemovable ==
  \A p \in Proc : op[p].call = "DeleteEphemeral" /\ op[p].at = "remove"
                   => op[p].vm \notin nested

\* No call hangs: the loops of unmountPath and deletePath give up, although
\* a container may keep a disk busy for ever.
EveryCallEnds == \A p \in Proc : Busy(p) ~> ~Busy(p)

\* Deletions converge: wherever commands failed, processes died or the host
\* restarted, delete_vm repeated on a VM without container removes both
\* directories for good.
DeletesConverge ==
  Repeated => \A v \in VM : life[v] = "gone" ~>
                [](root["eph"][v] = "absent" /\ root["per"][v] = "absent")

(***************************************************************************)
(* The interface these commands implement, see BindMounts: a directory is  *)
(* whole once it is mounted and shared, and every state between is partial *)
(* to it.  What the container mounts, and RemoveAll did, is no part of it. *)
(***************************************************************************)
DirOf(r) == CASE r = "absent" -> "none" [] r = "shared" -> "whole"
              [] OTHER -> "partial"

CallOf(f) ==
  [call |-> f.call, vm |-> f.vm,
   disk |-> IF f.call \in DiskCalls THEN f.disk ELSE NoDisk,
   at   |-> IF f.at \in {"idle", "ok", "err"} THEN f.at ELSE "working"]

Interface == INSTANCE BindMounts WITH
  calls <- [p \in Proc |-> CallOf(op[p])],
  dir <- [k \in Kind |-> [v \in VM |-> DirOf(root[k][v])]],
  mounts <- mounted

\* Every call, taken as a whole, does what the interface promises: it works
\* in one direction and only on its own VM, unmounts the disks before it
\* takes their directory down, and succeeds in the very step that completes
\* its work, beside overlapping calls and after crashes and restarts.
ImplementsBindMounts == Interface!Spec

=============================================================================
