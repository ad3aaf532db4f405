----------------------------- MODULE BindMounts -----------------------------
(***************************************************************************)
(* What vm/interfaces.go promises of HostBindMounts, without its commands: *)
(* a call works towards its end on the tables of its own VM, in as many    *)
(* steps as it likes, answers "ok" only in a step that achieves it, and    *)
(* may give up or die at any time.  Any number of calls run side by side.  *)
(***************************************************************************)
EXTENDS HostInterfaces

CONSTANTS VM, Disk, Proc, NoVM, NoDisk

VARIABLES
  calls,  \* the call each process is in, and its answer
  dir,    \* dir[k][v]: see HostInterfaces
  mounts

vars == <<calls, dir, mounts>>
Host == [dir |-> dir, mounts |-> mounts]
Leaves(host) == dir' = host.dir /\ mounts' = host.mounts

Idle == [call |-> "none", vm |-> NoVM, disk |-> NoDisk, at |-> "idle"]

Init ==
  /\ calls = [p \in Proc |-> Idle]
  /\ dir = [k \in Kind |-> [v \in VM |-> "none"]]
  /\ mounts = {}

Begin(p, call, v, d) ==
  /\ calls[p].at = "idle"
  /\ calls' = [calls EXCEPT ![p] =
                 [call |-> call, vm |-> v, disk |-> d, at |-> "working"]]
  /\ UNCHANGED <<dir, mounts>>

Work(p) ==
  LET c == calls[p] IN
  /\ c.at = "working"
  /\ \E host \in BindOutcomes(c.call, c.vm, c.disk, Host) : Leaves(host)
  /\ UNCHANGED calls

Succeed(p) ==
  LET c == calls[p] IN
  /\ c.at = "working"
  /\ \E host \in BindOutcomes(c.call, c.vm, c.disk, Host) :
       BindDone(c.call, c.vm, c.disk, Host, host) /\ Leaves(host)
  /\ calls' = [calls EXCEPT ![p].at = "ok"]

GiveUp(p) ==
  /\ calls[p].at = "working"
  /\ calls' = [calls EXCEPT ![p].at = "err"]
  /\ UNCHANGED <<dir, mounts>>

\* The caller takes the answer, or the process dies.
End(p) ==
  /\ calls[p].at # "idle"
  /\ calls' = [calls EXCEPT ![p] = Idle]
  /\ UNCHANGED <<dir, mounts>>

\* Processes and mounts are gone, directories stay.
Reboot ==
  /\ calls' = [p \in Proc |-> Idle]
  /\ dir' = [k \in Kind |-> [v \in VM |->
               IF dir[k][v] = "none" THEN "none" ELSE "partial"]]
  /\ mounts' = {}

Next ==
  \/ \E p \in Proc :
       \/ \E call \in BindCall, v \in VM, d \in Disk \cup {NoDisk} :
            Begin(p, call, v, d)
       \/ Work(p) \/ Succeed(p) \/ GiveUp(p) \/ End(p)
  \/ Reboot

Spec == Init /\ [][Next]_vars
=============================================================================
