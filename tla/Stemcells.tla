----------------------------- MODULE Stemcells -----------------------------
(***************************************************************************)
(* stemcell/*.go: importing, finding and deleting stemcells, step by step. *)
(* A stemcell is a directory named by its id, unpacked from a tarball (or  *)
(* one file, unzipped); a light one is only the reference in its id.       *)
(*                                                                         *)
(* Nothing says of a directory that it is complete: what exists is found.  *)
(* The processes are CPI processes, one call each, over one file system.   *)
(***************************************************************************)
EXTENDS Naturals, FiniteSets

CONSTANTS
  Id,         \* uuids for imported stemcells
  NoId, Light,  \* no id, and the id of a light stemcell
  Proc,       \* slots for CPI processes that are alive at the same time
  Expand,     \* values of ExpandStemcellTarball: tar -x, or else gunzip
  MaxFaults   \* bound: failing steps, deaths and restarts

ASSUME IdAssumption == NoId \notin Id /\ Light \notin Id /\ Light # NoId
ASSUME ExpandAssumption == Expand \subseteq BOOLEAN
ASSUME MaxFaultsAssumption == MaxFaults \in Nat

VARIABLES
  op,      \* what each process is doing: a frame, see Frame
  dir,     \* dir[i]: what is at the path of stemcell i: see Contents
  known,   \* stemcells the director was told and has not deleted yet
  doomed,  \* those of them whose deletion has begun
  faults   \* faults that happened so far

vars == <<op, dir, known, doomed, faults>>

\* "copy" is the .gz file beside the path, which nobody looks for.
Contents == {"absent", "copy", "partial", "whole"}

(***************************************************************************)
(* An uploaded image: what ParseFromPath makes of its metadata, and what   *)
(* validateImageReference says of the reference in it.                     *)
(***************************************************************************)
Source == [metadata : {"none", "heavy", "light", "broken"}, valid : BOOLEAN]
NoSource == [metadata |-> "none", valid |-> FALSE]

Call == {"create_stemcell", "delete_stemcell", "create_vm"}
At == {"idle", "parse", "light", "start", "unpack", "find", "remove", "use",
       "ok", "err"}

\* seen: what create_vm's container was made from.
Frame == [call : Call \cup {"none"}, id : Id \cup {NoId, Light}, at : At,
          source : Source, seen : Contents]

IdleFrame == [call |-> "none", id |-> NoId, at |-> "idle", source |-> NoSource,
              seen |-> "absent"]

Init ==
  /\ op = [p \in Proc |-> IdleFrame]
  /\ dir = [i \in Id |-> "absent"]
  /\ known = {} /\ doomed = {}
  /\ faults = 0

Busy(p) == op[p].at # "idle"
Goto(p, at) == op' = [op EXCEPT ![p].at = at]
Fault == faults < MaxFaults /\ faults' = faults + 1

(***************************************************************************)
(* The director calls.  It knows a stemcell until its deletion succeeded,  *)
(* and does not delete one that a deployment uses, nor the other way       *)
(* round; deletions may overlap when a worker was given up.                *)
(***************************************************************************)
Begin(p, frame) ==
  /\ ~Busy(p)
  /\ op' = [op EXCEPT ![p] = frame]
  /\ UNCHANGED <<dir, known, faults>>

\* Uuids nothing refers to any more stand for new ones; the guard on them
\* in BeginCreate is a bound: Id is finite.
Unused ==
  {i \in Id : dir[i] = "absent" /\ i \notin known /\ \A q \in Proc : op[q].id # i}

Creating == {q \in Proc : op[q].call = "create_stemcell" /\ op[q].id = NoId}

BeginCreate(p, source) ==
  /\ Cardinality(Creating) < Cardinality(Unused)
  /\ Begin(p, [IdleFrame EXCEPT !.call = "create_stemcell", !.at = "parse",
                                !.source = source])
  /\ UNCHANGED doomed

BeginDelete(p, id) ==
  /\ id \in known
  /\ \A q \in Proc : op[q].id = id => op[q].call # "create_vm"
  /\ Begin(p, [IdleFrame EXCEPT !.call = "delete_stemcell", !.at = "find", !.id = id])
  /\ doomed' = doomed \cup {id}

BeginUse(p, id) ==
  /\ id \in known
  /\ \A q \in Proc : op[q].id = id => op[q].call = "create_vm"
  /\ Begin(p, [IdleFrame EXCEPT !.call = "create_vm", !.at = "find", !.id = id])
  /\ UNCHANGED doomed

Return(p) ==
  LET f == op[p] IN
  /\ f.at \in {"ok", "err"}
  /\ op' = [op EXCEPT ![p] = IdleFrame]
  /\ known' = CASE f.at = "ok" /\ f.call = "create_stemcell" -> known \cup {f.id}
                [] f.at = "ok" /\ f.call = "delete_stemcell" -> known \ {f.id}
                [] OTHER -> known
  /\ doomed' = doomed \cap known'
  /\ UNCHANGED <<dir, faults>>

(***************************************************************************)
(* ImportFromPath.                                                         *)
(***************************************************************************)
AfterParse(source) ==
  CASE source.metadata = "broken" -> "err"
    [] source.metadata = "light"  -> "light"
    [] OTHER -> "start"

Parse(p) ==
  /\ op[p].at = "parse"
  /\ Goto(p, AfterParse(op[p].source))
  /\ UNCHANGED <<dir, known, doomed, faults>>

\* LightImporter parses once more and keeps nothing.
ImportLight(p) ==
  /\ op[p].at = "light"
  /\ IF op[p].source.valid
       THEN op' = [op EXCEPT ![p].at = "ok", ![p].id = Light]
       ELSE Goto(p, "err")
  /\ UNCHANGED <<dir, known, doomed, faults>>

\* A new uuid, then Decompress begins: with the directory, or with a copy
\* of the archive.
StartUnpacking(p) ==
  /\ op[p].at = "start"
  /\ \E i \in Unused, expand \in Expand :
       /\ dir' = [dir EXCEPT ![i] = IF expand THEN "partial" ELSE "copy"]
       /\ op' = [op EXCEPT ![p].at = "unpack", ![p].id = i]
  /\ UNCHANGED <<known, doomed, faults>>

Unpack(p) ==
  /\ op[p].at = "unpack"
  /\ dir' = [dir EXCEPT ![op[p].id] = "whole"]
  /\ Goto(p, "ok")
  /\ UNCHANGED <<known, doomed, faults>>

(***************************************************************************)
(* Find, and what comes after it.  A light stemcell is always found.       *)
(* FoundIfWhole and the other definitions that only the mutants of         *)
(* PROJECT.json use are slips in the one after them.                       *)
(***************************************************************************)
FoundIfWhole(id) == IF id = Light THEN TRUE ELSE dir[id] = "whole"
Found(id) == IF id = Light THEN TRUE ELSE dir[id] \in {"partial", "whole"}

\* LightStemcell.Delete does nothing.
RemovesAnything(id) == Found(id)
Removes(id) == id # Light /\ Found(id)

Find(p) ==
  LET f == op[p] IN
  /\ f.at = "find"
  /\ Goto(p, CASE f.call = "create_vm" -> IF Found(f.id) THEN "use" ELSE "err"
               [] f.call = "delete_stemcell" /\ Removes(f.id) -> "remove"
               [] OTHER -> "ok")
  /\ UNCHANGED <<dir, known, doomed, faults>>

\* RemoveAll takes its time.
RemoveSome(p) ==
  /\ op[p].at = "remove"
  /\ dir[op[p].id] = "whole"
  /\ dir' = [dir EXCEPT ![op[p].id] = "partial"]
  /\ UNCHANGED <<op, known, doomed, faults>>

Remove(p) ==
  /\ op[p].at = "remove"
  /\ dir' = [dir EXCEPT ![op[p].id] = "absent"]
  /\ Goto(p, "ok")
  /\ UNCHANGED <<known, doomed, faults>>

\* Garden makes the container from what is at the URI.
Use(p) ==
  LET f == op[p] IN
  /\ f.at = "use"
  /\ op' = [op EXCEPT ![p].at = IF f.id # Light /\ dir[f.id] = "absent" THEN "err"
                                ELSE "ok",
                      ![p].seen = IF f.id = Light THEN "whole" ELSE dir[f.id]]
  /\ UNCHANGED <<dir, known, doomed, faults>>

(***************************************************************************)
(* Failures.  What was unpacked or not removed stays.                      *)
(***************************************************************************)
UnpackIgnored(f) == IF f.at = "unpack" THEN "ok" ELSE "err"
RemoveIgnored(f) == IF f.at = "remove" THEN "ok" ELSE "err"
Failure(f) == "err"

Fail(p) ==
  /\ op[p].at \in {"parse", "light", "start", "unpack", "remove", "use"}
  /\ Goto(p, Failure(op[p]))
  /\ Fault
  /\ UNCHANGED <<dir, known, doomed>>

Crash(p) ==
  /\ Busy(p)
  /\ op' = [op EXCEPT ![p] = IdleFrame]
  /\ Fault
  /\ UNCHANGED <<dir, known, doomed>>

\* Nobody is left, and gunzip may have got some way.
Reboot ==
  /\ op' = [p \in Proc |-> IdleFrame]
  /\ \E cut \in SUBSET {op[p].id : p \in {q \in Proc : op[q].at = "unpack"}} :
       dir' = [i \in Id |-> IF i \in cut THEN "partial" ELSE dir[i]]
  /\ Fault
  /\ UNCHANGED <<known, doomed>>

Step(p) == Parse(p) \/ ImportLight(p) \/ StartUnpacking(p) \/ Unpack(p) \/ Find(p)
           \/ RemoveSome(p) \/ Remove(p) \/ Use(p) \/ Fail(p)

Next ==
  \/ \E p \in Proc :
       \/ \E source \in Source : BeginCreate(p, source)
       \/ \E id \in Id \cup {Light} : BeginDelete(p, id) \/ BeginUse(p, id)
       \/ Return(p) \/ Step(p) \/ Crash(p)
  \/ Reboot

Spec == Init /\ [][Next]_vars

\* A live process runs on.
FairSpec == Spec /\ \A p \in Proc : WF_vars(Step(p) \/ Return(p))

\* The director repeats a deletion it has begun.
DeleteAgain(i) == i \in doomed /\ \E p \in Proc : BeginDelete(p, i)
Repeated == \A i \in Id : SF_vars(DeleteAgain(i))

\* Again and again the director has a worker for it while nobody uses the
\* stemcell.
Quiet(i) == (\E p \in Proc : ~Busy(p))
            /\ \A q \in Proc : op[q].id = i => op[q].call # "create_vm"

(***************************************************************************)
(* Properties.                                                             *)
(***************************************************************************)

\* Every variable has its type; only a stemcell with a directory gets to the
\* steps that write or remove one.
TypeOK ==
  /\ op \in [Proc -> Frame]
  /\ \A p \in Proc : op[p].at \in {"unpack", "remove"} => op[p].id \in Id
  /\ dir \in [Id -> Contents]
  /\ known \subseteq Id \cup {Light} /\ doomed \subseteq known
  /\ faults \in Nat

\* A container is made from a whole stemcell: Find takes any directory for
\* one (composite_finder.go:34-37), so nothing that failed, died or was cut
\* short may have told the director its id.  A stemcell whose deletion
\* failed is the exception: the director still knows it.
UsedIsWhole ==
  \A p \in Proc :
    /\ op[p].call = "create_vm" /\ op[p].at = "ok"
    /\ op[p].id \notin doomed
    => op[p].seen = "whole"

\* delete_stemcell succeeds only when nothing of the stemcell is left, also
\* when an earlier or another deletion got half way, and nothing comes back.
DeletedIsGone ==
  \A p \in Proc :
    op[p].call = "delete_stemcell" /\ op[p].at = "ok" /\ op[p].id \in Id =>
      dir[op[p].id] = "absent"

\* Deletions converge: whatever failed or died half way, a stemcell whose
\* deletion the director repeats is forgotten and its directory gone, unless
\* one VM after another is made from it.
DeletionConverges ==
  Repeated /\ (\A i \in Id : []<>Quiet(i)) =>
    \A i \in Id : i \in doomed ~> i \notin known /\ dir[i] = "absent"

=============================================================================
