----------------------------- MODULE BPMPatcher -----------------------------
(***************************************************************************)
(* cmd/bpm-patcher/main.go: the pre-start step that rewrites the process   *)
(* list of the director's bpm.yml in place, so that the director's workers *)
(* may mount and call iptables.                                            *)
(*                                                                         *)
(* The agent renders the file on a deployment and runs the patcher on      *)
(* every start of the job after that, so the patcher keeps meeting its own *)
(* output, whole or as a death in the middle of writing left it.           *)
(***************************************************************************)
EXTENDS Naturals, Sequences, FiniteSets

CONSTANTS
  Original,    \* the files the agent renders: see File
  Token,       \* words of the commands and paths of the volumes
  MaxFaults    \* bound: failed reads and writes, and deaths

\* Words the patcher itself writes or looks for.
Own == {"/usr/bin/bash", "-c", "setpriv", "/dev"}

ASSUME TokenAssumption == Own \cap Token = {}
ASSUME MaxFaultsAssumption == MaxFaults \in Nat

VARIABLES
  file,      \* bpm.yml on the disk
  rendered,  \* as the agent rendered it last
  out,       \* what the running patcher is going to write
  at,        \* what the patcher does next
  cut,       \* what a write cut short did to the list since: see Cut
  faults     \* faults that happened so far

vars == <<file, rendered, out, at, cut, faults>>

(***************************************************************************)
(* A process entry.  exe and args are sequences of words: exe is empty if  *)
(* the key is missing.  unsafe may be missing or, like the list of volumes *)
(* in it, a scalar such as null; its other fields count for a mapping.     *)
(***************************************************************************)
Word == Token \cup Own

NoVolumes(kind, privileged) ==
  [kind |-> kind, privileged |-> privileged, volsKind |-> "absent", vols |-> <<>>]

Unsafe ==
  {u \in [kind : {"absent", "scalar", "mapping"},
          privileged : {"absent", "false", "true"},
          volsKind : {"absent", "scalar", "seq"}, vols : Seq(Word)] :
     /\ u.kind # "mapping" => u = NoVolumes(u.kind, "absent")
     /\ u.volsKind # "seq" => u.vols = <<>>}

Entry == [worker : BOOLEAN, exe : Seq(Word), args : Seq(Word), unsafe : Unsafe]

\* "blank" has no YAML mapping at its root, "listless" no processes in it.
File ==
  {f \in [kind : {"missing", "blank", "listless", "list"}, list : Seq(Entry)] :
     f.kind # "list" => f.list = <<>>}

Unlisted(kind) == [kind |-> kind, list |-> <<>>]
Listing(list)  == [kind |-> "list", list |-> list]

\* No worker is started by bash itself: setWorkerCommand takes one that is
\* for its own work and leaves it alone (main.go:187-190).
ASSUME OriginalAssumption ==
  /\ Original \subseteq File
  /\ \A f \in Original : \A i \in DOMAIN f.list : f.list[i].exe # <<"/usr/bin/bash">>

(***************************************************************************)
(* The three changes made to a worker.  A definition such as Rewrapped,    *)
(* which only the mutants of PROJECT.json use, is a slip in the one after  *)
(* it.                                                                     *)
(***************************************************************************)
PrivilegedInPlace(e) == [e EXCEPT !.unsafe.privileged = "true"]
setPrivileged(e) ==
  [e EXCEPT !.unsafe = IF @.kind = "mapping" THEN [@ EXCEPT !.privileged = "true"]
                       ELSE NoVolumes("mapping", "true")]

\* The words handed to bash; shellQuote keeps each a word of its own.
ExecWithoutArgs(e) == <<"-c", "setpriv">> \o e.exe
Exec(e) == <<"-c", "setpriv">> \o e.exe \o e.args

Rewrapped(e) == [e EXCEPT !.exe = <<"/usr/bin/bash">>, !.args = Exec(e)]
setWorkerCommand(e) ==
  IF e.exe = <<"/usr/bin/bash">> THEN e
  ELSE [e EXCEPT !.exe = <<"/usr/bin/bash">>, !.args = Exec(e)]

\* Appended to a scalar, the entry is lost when the node is marshalled.
addDevVolume(e) ==
  CASE e.unsafe.kind # "mapping" -> e
    [] e.unsafe.volsKind = "absent" ->
         [e EXCEPT !.unsafe.volsKind = "seq", !.unsafe.vols = <<"/dev">>]
    [] e.unsafe.volsKind = "scalar" -> e
    [] \E i \in DOMAIN e.unsafe.vols : e.unsafe.vols[i] = "/dev" -> e
    [] OTHER -> [e EXCEPT !.unsafe.vols = Append(@, "/dev")]

PatchedVolumesFirst(e) ==
  IF e.worker THEN setWorkerCommand(setPrivileged(addDevVolume(e))) ELSE e
Patched(e) ==
  IF e.worker THEN addDevVolume(setWorkerCommand(setPrivileged(e))) ELSE e

PatchedList(list) == [i \in DOMAIN list |-> Patched(list[i])]

(***************************************************************************)
(* patchBPMYML.                                                            *)
(***************************************************************************)
Init ==
  /\ file \in Original
  /\ rendered = file
  /\ out = <<>>
  /\ at = "idle"
  /\ cut = "not"
  /\ faults = 0

Fault == faults < MaxFaults /\ faults' = faults + 1

\* A deployment writes the file anew; the job is stopped meanwhile.
Render ==
  /\ at = "idle"
  /\ file' \in Original
  /\ rendered' = file'
  /\ cut' = "not"
  /\ UNCHANGED <<out, at, faults>>

\* No file and no process list are no errors.
SkippedBlank == {"missing", "listless", "blank"}
Skipped == {"missing", "listless"}

Read ==
  /\ at = "idle"
  /\ \/ file.kind \in Skipped /\ at' = "ok" /\ UNCHANGED out
     \/ file.kind = "blank" /\ at' = "err" /\ UNCHANGED out
     \/ file.kind = "list" /\ at' = "truncate" /\ out' = PatchedList(file.list)
  /\ UNCHANGED <<file, rendered, cut, faults>>

\* Reading, or looking up the mode of what was read, fails.
ReadFails ==
  /\ at \in {"idle", "truncate"}
  /\ at' = "err"
  /\ Fault
  /\ UNCHANGED <<file, rendered, out, cut>>

\* os.WriteFile opens the file with O_TRUNC and then writes into it.
Truncate ==
  /\ at = "truncate"
  /\ file' = Unlisted("blank")
  /\ at' = "write"
  /\ UNCHANGED <<rendered, out, cut, faults>>

Write ==
  /\ at = "write"
  /\ file' = Listing(out)
  /\ at' = "ok"
  /\ UNCHANGED <<rendered, out, cut, faults>>

(***************************************************************************)
(* A write cut short leaves nothing, only the key "processes", some whole  *)
(* entries ("between"), or a last entry without what follows the cut       *)
(* ("inside"): unsafe, the later arguments, or all of the command.  The    *)
(* keys are taken to come in the order executable and args, with unsafe    *)
(* anywhere, and a cut to come between words.                              *)
(***************************************************************************)
Torn(e) ==
  LET shorter == {[e EXCEPT !.exe = <<>>, !.args = <<>>]}
                   \cup {[e EXCEPT !.args = SubSeq(@, 1, k)] : k \in 0..Len(e.args)} IN
  shorter \cup {[x EXCEPT !.unsafe = NoVolumes("absent", "absent")] : x \in shorter}

Cut ==
  \/ /\ file' = Unlisted("blank")
     /\ UNCHANGED cut
  \/ /\ file' \in {Unlisted("listless")}
                  \cup {Listing(SubSeq(out, 1, n)) : n \in 1..Len(out)}
     /\ cut' = IF cut = "not" THEN "between" ELSE cut
  \/ /\ \E n \in 1..Len(out) : \E e \in Torn(out[n]) :
          file' = Listing([SubSeq(out, 1, n) EXCEPT ![n] = e])
     /\ cut' = "inside"

WriteFails ==
  /\ at = "write"
  /\ Cut
  /\ at' = "err"
  /\ Fault
  /\ UNCHANGED <<rendered, out>>

\* The patcher or its host dies, in the middle of writing maybe.
Crash ==
  /\ at \in {"truncate", "write"}
  /\ \/ at = "write" /\ Cut
     \/ at = "truncate" /\ UNCHANGED <<file, cut>>
  /\ at' = "idle"
  /\ Fault
  /\ UNCHANGED <<rendered, out>>

\* The agent takes the exit status.
Exit ==
  /\ at \in {"ok", "err"}
  /\ at' = "idle"
  /\ UNCHANGED <<file, rendered, out, cut, faults>>

Next == Render \/ Read \/ ReadFails \/ Truncate \/ Write \/ WriteFails \/ Crash
        \/ Exit

Spec == Init /\ [][Next]_vars

(***************************************************************************)
(* Properties.                                                             *)
(***************************************************************************)

\* Every variable has its type.
TypeOK ==
  /\ file \in File /\ rendered \in File
  /\ out \in Seq(Entry)
  /\ at \in {"idle", "truncate", "write", "ok", "err"}
  /\ cut \in {"not", "between", "inside"}
  /\ faults \in Nat

\* The entries that no cut write has torn.
Sound == {i \in DOMAIN file.list : i < Len(file.list) \/ cut # "inside"}

\* A command that has lost words from its end, or all of them.
Cropped(e, whole) ==
  /\ e.worker = whole.worker
  /\ \/ e.exe = <<>> /\ e.args = <<>>
     \/ /\ e.exe = whole.exe
        /\ Len(e.args) <= Len(whole.args)
        /\ \A j \in DOMAIN e.args : e.args[j] = whole.args[j]

\* However often the patcher ran over its own output, and wherever it died
\* or failed, a process entry is as it was rendered or patched exactly
\* once: the second run is a no-op, as the comments on the three changes
\* say (main.go:111, 182, 260), and no run mixes up or adds entries.  A last
\* entry that a cut write tore stays torn: the runs after it wrap it no
\* second time, but the words it lost do not come back.
PatchedAtMostOnce ==
  /\ Len(file.list) <= Len(rendered.list)
  /\ \A i \in DOMAIN file.list :
       IF i \in Sound
         THEN file.list[i] \in {rendered.list[i], Patched(rendered.list[i])}
         ELSE Cropped(file.list[i], Patched(rendered.list[i]))

\* bpm runs the process as root, in a shell.
RootShell(e) ==
  /\ e.unsafe.kind = "mapping" /\ e.unsafe.privileged = "true"
  /\ e.exe = <<"/usr/bin/bash">>

\* A worker's container is privileged, and in it the command that was
\* rendered runs as vcap: bash drops the privileges once.
Dropped(e, was) ==
  /\ RootShell(e)
  /\ e.args = <<"-c", "setpriv">> \o was.exe \o was.args

\* A run that ends without an error leaves every worker whose entry no write
\* has torn privileged with its own command run by vcap, and every other
\* such process as it was.  Of a torn entry, which can only be the last one,
\* it makes no more than what the words left of it say: of a worker a
\* privileged shell whose arguments, if it has any, are the first of those
\* that drop the privileges (see EveryWorkerDrops), of another process the
\* first words of its own command.
WorkersDrop ==
  at = "ok" =>
    \A i \in DOMAIN file.list :
      LET e == file.list[i] was == rendered.list[i] IN
      IF i \in Sound
        THEN IF was.worker THEN Dropped(e, was) ELSE e = was
        ELSE Cropped(e, Patched(was)) /\ (was.worker => RootShell(e))

\* After a run without an error every worker's command is run by vcap: the
\* worker "drops back to the vcap user via setpriv", and one that has bash
\* as its executable "has already been patched" (main.go:178, 182).
EveryWorkerDrops ==
  at = "ok" =>
    \A i \in DOMAIN file.list :
      rendered.list[i].worker => Dropped(file.list[i], rendered.list[i])

\* And no process is missing: a file that a death left truncated is an
\* error on the next start, and no list.  A death after some of the list was
\* written leaves a shorter one, which the next start takes for the whole.
NoneMissing ==
  at = "ok" /\ cut = "not" =>
    file.kind = rendered.kind /\ Len(file.list) = Len(rendered.list)

Occurrences(w, words) == Cardinality({i \in DOMAIN words : words[i] = w})

\* And /dev is mounted, once: addDevVolume "bind-mounts the director VM's
\* /dev into each worker BPM container" (main.go:98).  The exception is a
\* worker rendered with the key unrestricted_volumes and no value: what is
\* appended to that is not written (main.go:153), and the worker has no /dev.
\* Nothing is said of an entry that a cut write tore.
WorkersHaveDev ==
  at = "ok" => \A i \in Sound : file.list[i].worker =>
    Occurrences("/dev", file.list[i].unsafe.vols) =
      IF rendered.list[i].unsafe.volsKind = "scalar" THEN 0 ELSE 1

=============================================================================
