------------------------- MODULE WardenFileService -------------------------
(***************************************************************************)
(* vm/warden_file_service.go for the file that                             *)
(* vm/fs_agent_env_service.go keeps in a container: the agent environment, *)
(* of which the model keeps the disks it names.  create_vm uploads it,     *)
(* attach_disk and detach_disk download, change and upload it again.       *)
(* Download copies the file to /tmp and streams the copy out; Upload       *)
(* streams a file in through garden and then looks, from a process run in  *)
(* the container, whether it exists.                                       *)
(*                                                                         *)
(* Files are not written at one stroke, so that a reader or a crash may    *)
(* meet a torn one.  And what garden streams in may become visible to the  *)
(* processes of the container late, or never: the "transient overlayfs     *)
(* propagation delay" and the /tmp regression the code describes.          *)
(***************************************************************************)
EXTENDS Naturals, FiniteSets

CONSTANTS
  Proc,           \* CPI processes, which nothing here keeps apart
  Disk,
  NoDisk,
  RetryAttempts,  \* DefaultRetryAttempts, 10 in the code
  MaxFaults       \* bound: failing garden calls and crashes

ASSUME NoDiskAssumption == NoDisk \notin Disk
ASSUME RetryAttemptsAssumption == RetryAttempts \in Nat \ {0}
ASSUME MaxFaultsAssumption == MaxFaults \in Nat

\* A file that is not there, one that is there but not all of it, and a
\* whole one with the disks it names.
Nothing      == [state |-> "absent", disks |-> {}]
Torn         == [state |-> "torn", disks |-> {}]
Whole(disks) == [state |-> "whole", disks |-> disks]
Content      == {Whole(disks) : disks \in SUBSET Disk}
File         == Content \cup {Nothing, Torn}

VARIABLES
  op,        \* what each process is doing: a frame, see Frame
  visible,   \* the file as processes in the container see it
  streamed,  \* what was streamed in and is not visible yet
  tmp,       \* tmp[n]: the copy in /tmp with the n-th name
  vm,        \* "new", "creating" during create_vm, "known" once it succeeded
  apart,     \* history: no call has begun beside another one so far, or
             \* read the file while a newer one was not visible yet
  told,      \* told[d]: whether the director was told that d is attached; no
             \* longer followed, and "unsure", once calls were not apart
  faults     \* faults that happened so far

vars == <<op, visible, streamed, tmp, vm, told, apart, faults>>

Call == {"create_vm", "attach_disk", "detach_disk"}
At   == {"idle", "ok", "err", "copy", "copying", "streamOut", "fetched",
         "streamIn", "writing", "check"}

\* data: what was fetched, or is to be uploaded.  read: what cp has read.
Frame == [call : Call \cup {"none"}, disk : Disk \cup {NoDisk}, at : At,
          data : File, read : File, tries : 0..(RetryAttempts - 1)]

IdleFrame == [call |-> "none", disk |-> NoDisk, at |-> "idle",
              data |-> Nothing, read |-> Nothing, tries |-> 0]

Init ==
  /\ op = [p \in Proc |-> IdleFrame]
  /\ visible = Nothing
  /\ streamed = Nothing
  /\ tmp = [p \in Proc |-> Nothing]
  /\ vm = "new"
  /\ told = [d \in Disk |-> "no"]
  /\ apart = TRUE
  /\ faults = 0

\* A definition such as AgainForever, which only the mutants of
\* PROJECT.json use, is a slip in the one after it.

\* AttemptRetryStrategy.Try: RetryAttempts attempts in all.
AgainForever(p) == op' = op
Again(p) == op' = [op EXCEPT ![p].tries = @ + 1]
TriesLeftOneMore(p) == op[p].tries < RetryAttempts
TriesLeft(p) == op[p].tries + 1 < RetryAttempts

\* The script run in the container finds the file: [ -f file ], or cp.
ExistsUnchecked == TRUE
Exists == visible # Nothing

\* uniqueTmpFileName: eight random bytes, so that each Download has a copy of
\* its own.  Nothing removes it, but once streamed out nothing reads it
\* either, and the model forgets it.
TmpNameOfFile(p) == CHOOSE q \in Proc : TRUE
TmpName(p) == p

Busy(p)     == op[p].at # "idle"
Goto(p, at) == op' = [op EXCEPT ![p].at = at]
Fault       == faults < MaxFaults /\ faults' = faults + 1

Known(follows, answers) ==
  IF follows THEN answers ELSE [d \in Disk |-> "unsure"]

file     == <<visible, streamed, tmp>>
director == <<vm, told, apart>>

(***************************************************************************)
(* Calls begin and are answered.                                           *)
(***************************************************************************)
BeginCreate(p) ==
  /\ ~Busy(p) /\ vm = "new"
  /\ vm' = "creating"
  /\ op' = [op EXCEPT ![p] =
              [IdleFrame EXCEPT !.call = "create_vm", !.at = "streamIn", !.data = Whole({})]]
  /\ UNCHANGED <<file, told, apart, faults>>

BeginDisk(p, call, d) ==
  /\ ~Busy(p) /\ vm = "known"
  /\ op' = [op EXCEPT ![p] =
              [IdleFrame EXCEPT !.call = call, !.disk = d, !.at = "copy"]]
  /\ apart' = (apart /\ \A q \in Proc : ~Busy(q))
  /\ told' = Known(apart', [told EXCEPT ![d] = "unsure"])
  /\ UNCHANGED <<file, vm, faults>>

Return(p) ==
  LET f == op[p] IN
  /\ f.at \in {"ok", "err"}
  /\ op' = [op EXCEPT ![p] = IdleFrame]
  /\ vm' = IF f.at = "ok" THEN "known" ELSE vm
  /\ told' = IF f.at = "ok" /\ f.disk # NoDisk /\ apart
               THEN [told EXCEPT ![f.disk] =
                       IF f.call = "attach_disk" THEN "yes" ELSE "no"]
               ELSE told
  /\ UNCHANGED <<file, apart, faults>>

(***************************************************************************)
(* Fetch: Download, in which cp opens its copy and fills it, and the       *)
(* parsing of what was streamed out.                                       *)
(***************************************************************************)
\* Without the file cp fails; a create_vm that checked it rules that out.
Copy(p) ==
  /\ op[p].at = "copy"
  /\ IF Exists
       THEN /\ tmp' = [tmp EXCEPT ![TmpName(p)] = Torn]
            /\ op' = [op EXCEPT ![p].read = visible, ![p].at = "copying"]
       ELSE Goto(p, "err") /\ UNCHANGED tmp
  /\ apart' = (apart /\ streamed = Nothing)
  /\ told' = Known(apart', told)
  /\ UNCHANGED <<visible, streamed, vm, faults>>

CopyEnds(p) ==
  /\ op[p].at = "copying"
  /\ tmp' = [tmp EXCEPT ![TmpName(p)] = op[p].read]
  /\ Goto(p, "streamOut")
  /\ UNCHANGED <<visible, streamed, director, faults>>

\* FromBytes fails on a file that is not whole.
StreamOut(p) ==
  LET copy == tmp[TmpName(p)] IN
  /\ op[p].at = "streamOut"
  /\ IF copy \in Content
       THEN op' = [op EXCEPT ![p].data = copy, ![p].at = "fetched"]
       ELSE Goto(p, "err")
  /\ tmp' = [tmp EXCEPT ![TmpName(p)] = Nothing]
  /\ UNCHANGED <<visible, streamed, director, faults>>

(***************************************************************************)
(* AttachDisk and DetachDisk mount or unmount the disk and change what     *)
(* they fetched.  Upload: the file is written in place, or arrives late.   *)
(***************************************************************************)
EnvFromScratch(f) == Whole(IF f.call = "attach_disk" THEN {f.disk} ELSE {})
NewEnv(f) == Whole(IF f.call = "attach_disk" THEN f.data.disks \cup {f.disk}
                                             ELSE f.data.disks \ {f.disk})

ChangeEnv(p) ==
  /\ op[p].at = "fetched"
  /\ op' = [op EXCEPT ![p].data = NewEnv(op[p]), ![p].read = Nothing,
                      ![p].at = "streamIn"]
  /\ UNCHANGED <<file, director, faults>>

StreamIn(p) ==
  /\ op[p].at = "streamIn"
  /\ \/ visible' = Torn /\ Goto(p, "writing") /\ UNCHANGED streamed
     \/ streamed' = op[p].data /\ Goto(p, "check") /\ UNCHANGED visible
  /\ UNCHANGED <<tmp, director, faults>>

Written(p) ==
  /\ op[p].at = "writing"
  /\ visible' = op[p].data /\ streamed' = Nothing
  /\ Goto(p, "check")
  /\ UNCHANGED <<tmp, director, faults>>

\* A failing call of garden ends the call, whatever it has done so far.
Fail(p) ==
  /\ op[p].at \in {"copy", "copying", "streamOut", "fetched", "streamIn", "writing"}
  /\ Goto(p, "err")
  /\ Fault
  /\ UNCHANGED <<file, director>>

\* One attempt: a sync whose failure is ignored, and [ -f file ].
Check(p) ==
  /\ op[p].at = "check"
  /\ Exists
  /\ Goto(p, "ok")
  /\ UNCHANGED <<file, director, faults>>

\* The file is not there yet, or the check could not be run.
CheckAgain(p) ==
  /\ op[p].at = "check"
  /\ \/ ~Exists /\ UNCHANGED faults
     \/ Fault
  /\ IF TriesLeft(p) THEN Again(p) ELSE Goto(p, "err")
  /\ UNCHANGED <<file, director>>

(***************************************************************************)
(* The container's file system, and death.                                 *)
(***************************************************************************)
Propagate ==
  /\ streamed # Nothing
  /\ visible' = streamed
  /\ streamed' = Nothing
  /\ UNCHANGED <<op, tmp, director, faults>>

Crash(p) ==
  /\ Busy(p)
  /\ op' = [op EXCEPT ![p] = IdleFrame]
  /\ Fault
  /\ UNCHANGED <<file, director>>

Command(p) ==
  \/ Copy(p) \/ CopyEnds(p) \/ StreamOut(p) \/ ChangeEnv(p)
  \/ StreamIn(p) \/ Written(p) \/ Check(p) \/ CheckAgain(p) \/ Fail(p)

Next ==
  \/ \E p \in Proc :
       \/ BeginCreate(p) \/ Command(p) \/ Return(p) \/ Crash(p)
       \/ \E call \in Call \ {"create_vm"}, d \in Disk : BeginDisk(p, call, d)
  \/ Propagate

Spec == Init /\ [][Next]_vars

\* A process that is not killed goes on; nothing is assumed of Propagate.
FairSpec == Spec /\ \A p \in Proc : WF_vars(Command(p) \/ Return(p))

(***************************************************************************)
(* Properties.                                                             *)
(***************************************************************************)

\* Every variable has its type.
TypeOK ==
  /\ op \in [Proc -> Frame]
  /\ visible \in File /\ streamed \in File
  /\ tmp \in [Proc -> File]
  /\ vm \in {"new", "creating", "known"}
  /\ told \in [Disk -> {"no", "yes", "unsure"}]
  /\ apart \in BOOLEAN
  /\ faults \in Nat

\* The Upload of a file that was not there succeeds only when processes in
\* the container read what it brought: the agent of a created VM finds its
\* settings, delay or not (warden_file_service.go:127-151).
CreatedIsReadable ==
  \A p \in Proc : op[p].call = "create_vm" /\ op[p].at = "ok"
                  => visible = op[p].data

\* What Fetch returns is a whole environment, the very one its own cp read:
\* never a copy that another Download is writing, nor a file that an Upload
\* is writing or left torn when it died, nor one that was never uploaded
\* ("Fetch will return an error if Update was not called beforehand",
\* vm/interfaces.go:37).
FetchedIsWhole ==
  \A p \in Proc : op[p].at = "fetched"
                  => op[p].data = op[p].read /\ op[p].data \in Content

\* As long as calls come one at a time and find the file settled, the file
\* names the disks the director was told are attached and none it was told
\* are not, through failures and deaths at any command of the read, change
\* and write between (warden_vm.go:85-99, 112-124).  Until an upload that
\* was cut short left it torn: then it names nothing.
NamedAsTold ==
  streamed = Nothing /\ visible \in Content =>
    \A d \in Disk : /\ told[d] = "yes" => d \in visible.disks
                    /\ told[d] = "no"  => d \notin visible.disks

\* Every call is answered, even if the file never becomes visible.
EveryCallEnds == \A p \in Proc : Busy(p) ~> ~Busy(p)

\* What the comment on the verification claims, that it guards against a
\* propagation delay (warden_file_service.go:127-129): after a successful
\* Upload the container's processes see what was uploaded.
UploadedIsVisible ==
  \A p \in Proc : op[p].at = "ok" => visible = op[p].data

=============================================================================
