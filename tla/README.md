# Verification of the BOSH Warden CPI

TLA+ modules, TLC runs and TLAPS proofs about `src/src/bosh-warden-cpi` (the CPI,
Go) of the bosh-warden-cpi release. `PROJECT.json` maps every definition to the
lines it translates and lists the runs, the mutants, the findings, the hazards and
the theorems; this file says how they fit together. Paths below are relative to
`src/src/bosh-warden-cpi/` unless they start with `src/`.

## 1. The system

A BOSH director runs the `cpi` executable once per call: `main/main.go` reads one
JSON request, `rpc.CLI.ServeOnce` dispatches it to one method of `action/`, the
answer is printed and the process exits. So **nothing is kept in memory between
calls**: the state of the system is the host (directories, mount table, iptables
nat table, disk and stemcell files), garden's containers and one settings file in
each container. Inside a call the code is sequential. Everything that is hard comes
from outside one call:

- several CPI processes run at the same time (one per director worker) on the same
  host tables. The director's deployment lock keeps calls on one VM apart; nothing
  in the CPI does. A process whose worker died goes on running as an orphan beside
  the calls that follow;
- every call is a list of commands, and any of them can fail, or the process can
  die between two of them; nobody resumes the call. The director only repeats a
  deletion until it succeeds;
- the kernel answers "busy" for a while, so four loops retry (60 x `umount`, 60 x
  `RemoveAll`, 60 x `iptables`, 10 x the check of an upload);
- the host restarts: mounts, rules and processes vanish, files do not.

| component | state | operations | what makes it correct |
|---|---|---|---|
| host bind mounts, `vm/fs_host_bind_mounts.go` | directory and mount of each VM (ephemeral, persistent), loop mounts of disks | Make/DeleteEphemeral, Make/DeletePersistent, Mount/UnmountPersistent | no disk is emptied through its mount; answers are true; removals succeed; deletions converge |
| port forwarding, `vm/iptables_ports.go` | DNAT rules with the VM's id as comment | Forward, RemoveForwarded | all or nothing; only the VM's own rules go, and all of them |
| file service, `vm/warden_file_service.go`, agent env `vm/fs_agent_env_service.go`, metadata | the settings files in the container | Upload (with verification), Download; Fetch, Update, Save | what was uploaded is what is read |
| creator, `vm/warden_creator.go` | the container and all of the above for a fresh id | Create, cleanUpContainer | a VM that is reported is whole; a failed one leaves nothing |
| VM and finder, `vm/warden_vm.go`, `vm/warden_finder.go` | the same, for a known id | Find, Delete, AttachDisk, DetachDisk | agent env and mounts agree; Delete is repeatable and complete |
| disk store, `disk/*.go` | disk files | Create, Find, Exists, Delete | a mounted disk keeps its file |
| stemcells, `stemcell/*.go`, `util/decompressors.go` | a directory per imported stemcell; light ones keep none | ImportFromPath, Find, Delete | a found stemcell is complete |
| port mappings, `vm/port_mapping.go`, `action/vm_cloud_properties.go` | none (pure) | parse and validate | every accepted mapping is in range and well formed |
| BPM patcher, `cmd/bpm-patcher/main.go` | the director's `bpm.yml` | patchBPMYML | idempotent; keeps the original command |
| actions, `action/*.go`; entry, `main/main.go`; config; resolv.conf reader; job templates | none | dispatch, wiring, parsing | - |

Interactions: actions call the creator, the finder and the disk store; creator and
VM call the bind mounts, the ports and the file service; all of them work through
commands on the host or calls to garden. There are no callbacks and no messages
besides these.

## 2. What is modelled, module by module

**HostBindMounts** - `fs_host_bind_mounts.go`, one action per *command* (`MkdirAll`,
`mount`, the listing printed by `mount`, `umount`, `RemoveAll`, `Glob`), so that the
commands of several processes interleave. A process is a frame (`op[p]`): the call,
the VM and disk, the next command (`at`), the rest of the globbed directories
(`todo`) and the loop counter (`tries`). `root` is the state of the two directories
of each VM (absent, plain, bind-mounted, unbindable, shared), `diskDir` and
`mounted` are the disk directories in it and the loop mounts on them, `nested` the
mounts a container made below its ephemeral directory (the subject of the comment
at lines 84-92), `lost` the disks `RemoveAll` went through. `life` is the stage the
rest of the CPI has brought the VM to; it decides which calls can be made.
`Overlap` names the calls that escape the director's lock.

**IPTablesPorts** - `iptables_ports.go`, one action per `iptables` or
`iptables-save` command; `nat` is the set of rules, each with its owner and number.

**HostInterfaces**, **BindMounts**, **Forwarding** - the abstract level. HostInterfaces
holds, as constant operators, what one call of `HostBindMounts` and of `Ports`
(`vm/interfaces.go`) may change (`BindOutcomes`, `RuleOutcomes`) and what its success
means (`BindDone`, `RulesDone`), on coarse tables: a directory is none, partial or whole,
the rules of a VM are none, some or all. BindMounts and Forwarding are the
specifications made of them: a call works in any number of steps, in one direction and on
its own VM, answers "ok" only in a step that achieves its end, and may give up or die.
HostBindMounts implements BindMounts and IPTablesPorts implements Forwarding, by
`INSTANCE ... WITH` (`Interface`) at the end of both modules. The mapping takes
`root[k][v]` to none, partial or whole, with whole only for the last flag, `shared`;
`nat` to none, some or all; every `at` between
the first and the last command to "working"; and a `Forward` that has met a failure to
"undoing". A call of `Ports` for a VM without mappings maps to no call. That a call which
succeeds does so in the very step that completes its work holds with the calls of other
processes beside it, the overlapping deletions and detaches of one VM in `binds` included.

**WardenFileService** - `warden_file_service.go` and what lies around it in
`fs_agent_env_service.go`, `warden_creator.go` and `warden_vm.go`, for the agent
environment of one container, of which the model keeps the disks it names. `create_vm`
uploads it, `attach_disk` and `detach_disk` fetch it, change it and upload it. One action
per call of garden, and two where a file is written (`Copy`, `CopyEnds`; `StreamIn`,
`Written`), so that others meet it torn. `visible` is what processes of the container
read, `streamed` what garden has written and the overlay does not show yet, `tmp` the
copies `Download` makes under names of their own. `apart` and `told` are history: whether
calls came one at a time and read a settled file so far, and what the director may
conclude about each disk while that is so. The mount between fetch and update is
WardenCPI's.

**WardenCPI** - the composition: `create_vm`, `delete_vm`, `attach_disk`,
`detach_disk`, `create_disk`, `delete_disk`, one action per *operation* of a
component, with the director that calls them (`known`, `belief`). An operation of the
bind mounts or the ports is a step by the relations of HostInterfaces (`BindStep`,
`PortStep`): done, or failed with some of its work done. Those are the relations that the
two components are shown to implement. `Fetch` and `Update` are one step each, with the
outcomes that WardenFileService has for `Download` and `Upload` when calls come one at a
time: an `Update` writes the new environment in place; or streams it in while processes of
the container go on reading the old one (`late`), which the check `[ -f ]` accepts; or is
cut short and leaves a torn one (`garbled`). One that fails may have had the first two
effects as well. `Arrive` shows what was late, at any time or never; until then a `Fetch` reads
the old environment, which the history variable `stale` records.

**PortMapping** - `vm/port_mapping.go` and `action/vm_cloud_properties.go`: the loop
of `AsVMProps`, one request (`ValidatePort`) at a time, over operators named for the
code's functions. A text is what the regular expression makes of it: nothing, one
positive number or two. `Sensible` is a reference definition in terms of sets of
ports, written without the code's comparisons; `Reached` is what the kernel does with
the DNAT rule of a mapping (external).

**Stemcells** - `stemcell/*.go` with `create_stemcell`, `delete_stemcell` and the part
of `create_vm` that finds a stemcell and has a container made of it. `dir[i]` is what
is at the path of a stemcell (absent, the `.gz` copy, partial, whole); no variable says
that a stemcell is complete, because nothing on the disk does. `known` is what the
director was told, `doomed` the stemcells it has begun to delete.

**BPMPatcher** - `cmd/bpm-patcher/main.go`: the file, what the agent rendered last, and
the patcher as read, truncate, write. An entry is a record with the fields the patcher
touches; `setPrivileged`, `setWorkerCommand` and `addDevVolume` are functions of it.
A write may be cut anywhere, so that the next run meets an empty file, a shorter list or
a last entry without its later words (`Torn`); `cut` remembers which.

**...Proofs** - a module of TLAPS proofs for each of the seven components;
**HostBindMountsStages** continues HostBindMountsProofs with the stages of a VM and the
refinement. Section 4 says what they prove.

**MC...** - symmetry sets and constants for TLC; a `.cfg` per question.

### Abstractions worth knowing

- The order of `Glob`'s result and of the listed rules is arbitrary.
- Error texts are abstracted to what the code tests of them: "not mounted"
  (tolerated by both deletions), "Resource temporarily unavailable" (retried),
  "No chain/target/match by that name" (tolerated). Which text iptables prints for
  a rule that is already gone depends on its build, so deleting such a rule may
  either be tolerated or count as a failure.
- `strings.Contains(stdout, path)` and `strings.Contains(line, comment)` are exact:
  ids are uuids, none a substring of another path.
- A second loop mount of the same disk file on the same directory is refused (EBUSY).
- A crash is possible before every command, a failure at every command that the code
  checks. `Reboot` keeps directories and files and loses mounts, rules and processes;
  garden may or may not know a container afterwards.
- A file streamed in is torn until it is written, or it is complete and not visible yet;
  a file that arrives late replaces the old one at one stroke. A copy in `/tmp` is
  forgotten once it was streamed out: nothing reads it again.
- Uuids are fresh: an id is given to one creation. In Stemcells an id that nothing
  refers to any more stands for a fresh one.
- An archive is whole or partial; metadata is absent, heavy, light or unreadable.
  `fs_finder.go` is not wired to any action. The director does not delete a stemcell
  that a `create_vm` is using, nor start one while a deletion runs; it may after a
  failed deletion, which is why `UsedIsWhole` excepts stemcells that are `doomed`.
- Words of a command are opaque and `shellQuote` keeps them apart. No rendered worker
  is started by `/usr/bin/bash` (`OriginalAssumption`): the patcher takes such an entry
  for its own work and leaves it running as root. The header comment is left out.
- The words the three small modules use as slips for their mutants
  (`InRangeByEndOnly`, `RemoveIgnored`, `Rewrapped`, ...) are in no action.

## 3. The runs

| run | question | bounds |
|---|---|---|
| `binds` | when the calls on one VM by orphaned processes overlap: is a disk ever emptied, are answers true, do calls end, do repeated deletions converge; does every call do what BindMounts promises? | 2 processes, 1 VM, 2 disks, 2 tries, 2 faults |
| `ports` | is forwarding all or nothing, removal complete and confined to the VM; can a busy table hang a call; do repeated removals converge; does every call do what Forwarding promises? | 2 processes, 2 VMs, 2 mappings each, 2 tries, 3 faults |
| `files` | is a first upload verified, a fetch whole or refused, the file true to the answers of calls that come one at a time; does each call end? | 2 processes, 2 disks, 2 tries, 1 fault |
| `files_stale` | does the verification cover replacing a file? (violation) | 1 process, 1 disk, no fault needed |
| `cpi_locked` | do VMs the director knows stay whole, are disks mounted once and with their file? | 2 processes, 2 VMs, 1 disk, 3 faults, lock works |
| `cpi_orphans` | do mounts and agent env, torn and late ones included, agree with the answers; is a deletion complete, ordered, and convergent when it is repeated? | 2 processes, 1 VM, 2 disks that are there at the start, 2 faults, overlapping `delete_vm` |
| `cpi_cleanup` | does the clean-up destroy the container? (violation) | 1 process, 1 fault |
| `port_mappings` | are exactly the sensible requests accepted, each and in order, and can DNAT carry them out? | every request with numbers up to 5, ports up to 3, int up to 4; lists of two of 30 requests |
| `port_overflow` | is every match an int? (violation) | as `port_mappings` |
| `stemcells` | is what is used whole, what was deleted gone, and does a repeated deletion converge? | 2 processes, 2 ids and the light one, tarballs and unzipped images, 2 faults |
| `bpm` | is each worker patched at most once and, unless a write tore its entry, right, across cut writes and deaths? | 1 or 2 entries, a worker in every shape, 2 faults |
| `bpm_torn` | is a worker right whose entry a write tore? (violation) | as `bpm`, 1 fault |

Why the bounds are enough. Two processes are what a race needs: the code takes no
decision that depends on three. Two VMs show interference in the one nat table and over
a disk that moves (the mounts of two VMs have no path in common, so `binds` has one VM);
two disks or two rules show a loop that stops half way, two tries both a retry and giving
up (the loops treat every try alike, so 2 stands for 60), and two faults a crash followed
by a failure of the clean-up or of the repeated call. In `files` one fault is enough: a
late or torn file is no fault there, and a death while another process copies the file is
one. What the runs leave out: `binds` keeps `MountPersistent` out of `Overlap`, so a disk
mounted between the last unmount and `RemoveAll` is not in it (see below). `NamedAsTold`
(`files`) stops at calls that overlap or that read a file another is to replace (`apart`),
so the lost update itself is not caught by it; `BeliefTrue` (`cpi_orphans`) has the lock
instead, and stops at a read of an outdated environment (`stale`). `UsedIsWhole`
(`stemcells`) excepts the stemcells that are being deleted. In `bpm`, `PatchedAtMostOnce`
and `WorkersDrop` say less of a torn entry than of a whole one, and `NoneMissing` and
`WorkersHaveDev` nothing of a list that was cut and of a torn entry. `cpi_orphans` starts
where `create_disk` has made the disks (`DisksCreated`; `cpi_locked` makes its own); it
needs two of them, an attached one and one whose call fails. Port numbers matter only by their
order and by the two limits, so three ports, one number past them and one past the ints
are every case; two entries of `bpm.yml` are a cut between them and within the last. TLC
explores between 4,500 and 1,700,000 states per passing run. Deadlock is not checked where the
system may stop: all its VMs are created and deleted, or the loop over the ports has
ended. Every property has a mutant: a definition with a plausible slip (`AgainForever`,
`ToleratedNothing`, `NotFoundIsGone`, ...) under which TLC finds the property violated.

**Fairness.** `WF` of each process' next command (`Running`): a live process runs on, its
commands return, and no code waits for another process. `Repeated` is `SF` of the
director's deletion: it repeats `delete_vm` until it succeeds. `Free` (ports only) is
`SF` of a deletion of a rule: the table is not busy at every one of infinitely many
tries. In HostBindMounts, IPTablesPorts and Stemcells these two are premises of the
convergence properties, so that `EveryCallEnds` needs `Running` alone. In Stemcells a
premise is also that again and again nobody uses the stemcell: otherwise one `create_vm`
after another could keep the director from deleting it. Nothing is assumed of
containers, of the overlay or of crashes, which are bounded by `MaxFaults` only.

### Findings

- **Replacing a file is not verified** (`files_stale`). The comment at
  `vm/warden_file_service.go:127` offers the check as a guard against a propagation
  delay; `[ -f path ]` is satisfied by the old version. First uploads are covered
  (`CreatedIsReadable`), those of `attach_disk` and `detach_disk` are not. In WardenCPI this
  costs a disk: two `attach_disk` calls one after the other, under the lock and without a
  fault, end with the first disk mounted and not named to the agent if the second fetches
  the environment before the first one's has arrived. `BeliefTrue` without its `stale`
  premise is violated that way.
- **A failed `create_vm` keeps its container** (`cpi_cleanup`). The tests say
  "destroys created container" (`vm/warden_creator_test.go:299`) and the log line
  "Failed destroying container"; the code stops it. Container, directories, mounts and rules remain
  under an id the director never learns.
- **A port that no int holds panics** (`port_overflow`). `vm/port_mapping.go:71` asserts
  that what the regular expression matched is an int; the expression bounds no digit run,
  and nothing recovers, so a wrong manifest ends `create_vm` with a panic instead of the
  validation error every other wrong port gets.

- **A torn worker entry counts as patched** (`bpm_torn`). The comment at
  `cmd/bpm-patcher/main.go:176` says that the worker drops back to vcap and that an entry
  with bash as its executable has been patched already. The file is written in place: a
  write that ends after `executable: /usr/bin/bash` and before the arguments leaves an
  entry that line 188 takes for a patched one. The next run makes it privileged and
  succeeds, and the worker is a bash of root's without a command, until a
  deployment renders the file again.

A case the comment at `cmd/bpm-patcher/main.go:98` does not have: a worker rendered with
`unrestricted_volumes` and no value is counted as patched and gets no /dev, since line 153
appends to a scalar node, which the YAML encoder does not write. `WorkersHaveDev` states it
as the one exception.

An observation that contradicts nothing the repository says: once an `Update` was cut short
and left a torn environment, `Fetch` fails on it for good, so neither `attach_disk` nor
`detach_disk` of that VM can succeed again, and the disk of the failed call stays as it was
mounted. `KnownIsComplete` and `BeliefTrue` except a torn environment, and say so.

What depends on the director's lock: with `attach_disk` in `Overlap`, WardenCPI
violates `BeliefTrue` (two read-change-writes of the agent env lose a disk), with
`attach_disk` and `delete_vm` also `DeletedMeansGone`, and with `detach_disk` as well
`KnownIsComplete` (one call is answered, the other tears what it wrote); HostBindMounts with
`MountPersistent` in `Overlap` violates `NoDiskLost` (a disk mounted between the
unmounts and `RemoveAll` is emptied). The repository promises nothing for these
cases, so they are no findings; they are what the lock is needed for.

## 4. The proofs

TLAPS checks every safety property of the passing runs, and both refinements, for all
values of the constants: any number of VMs, disks, processes, mappings, tries and
faults. A proof rests on the assumptions the modules name (the null values are none of
the VMs, disks or processes; at least one try) and, where it says so, on a hypothesis of
its own. In each component the type invariant comes with the *shape* of a process's frame,
that is which call can be at which command and with what in hand (`Shape`, `OnPlan`,
`TypeInv`); the properties need more, and that more is what follows. TLC checked each
inductive invariant on a small instance as well. The proof that steps preserve it has a case per
action; frame lemmas say once what a step leaves alone.

**HostBindMounts** (HostBindMountsProofs, HostBindMountsStages).

| theorem | property | hypothesis |
|---|---|---|
| `TypeCorrect` | `TypeOK` | |
| `DisksKept` | `NoDiskLost` | `MountPersistent` is not in `Overlap` |
| `NothingNested` | `EphemeralRemovable` | |
| `AnswersAreTrue` | `AnswersTrue` | `MountPersistent` is not in `Overlap` |
| `BindMountsImplemented` | `ImplementsBindMounts` | |

That no disk is mounted when `RemoveAll` starts follows from what the process did before,
and has to survive the steps of others. The invariant of `DisksKept` adds: a process that
mounts a disk is alone on its VM (`MountsAlone`, from the lock), a mounted disk has its
directory (so the glob finds it), a deletion past its glob has every mounted disk of its
VM either on its list or at hand (`Unmounting`), and nothing is lost so far.

The other theorems need to know which call meets which stage of its VM (`StageInv`):
container mounts appear only while the container is up and only under a shared mount
(`NestedShared`), a deletion starts when it is gone, and only a deletion that unmounted
the tree, `--recursive`, gets to its `RemoveAll`. That no call takes the stage of a VM
away from under another one is `MakesAlone`: a creation has its fresh id to itself even
when calls overlap, because it moves the stage when it begins.

The refinement maps the three stages of a directory and the table of mounts to
`Interface`. It needs `PlaceInv` as well: a mounted disk has its directory and a disk's
directory its root (`Rooted`), what has not been begun is not there (`Unmade`), and a
`Make` works on a directory that nobody has shared (`Making`). Then every command moves
the tables as far as the interface lets the call in progress move them, and an answer
means the end it says. The hypothesis of `AnswersAreTrue` is needed: TLC finds the
answer of a call untrue when a `MountPersistent` of another process undoes or outruns it.

**IPTablesPorts** (IPTablesPortsProofs): `TypeCorrect`; `ForwardIsAllOrNothing`
(`AllOrNothing`), `RemovalIsComplete` (`RemovedMeansGone`), the action property
`StrangersKeepRules` (`OnlyOwnRules`) and the refinement `PortsImplemented`
(`ImplementsPorts`), for whatever calls overlap. The invariant `RulesInv` says that a
`Forward` has its fresh id to itself (`ForwardsAlone`, `Staged`) and accounts for the VM's
rules by the frame (`Accounted`): a `Forward` has added exactly the rules before the next
one, and a removal that has met no failure still has all that is left on its list. The
second is what other removals on the same VM preserve: they only take rules away. For the
refinement, `CommandMoves` says what a step of one process is to a caller: it adds a rule,
waits, turns to the clean-up, or removes rules from then on.

**WardenFileService** (WardenFileServiceProofs): `TypeCorrect`; `FetchesAreWhole`
(`FetchedIsWhole`): a copy in `/tmp` has a name of its own, so it stays what `cp` read
(`CopyInv`). `CreatesAreReadable` (`CreatedIsReadable`): the first upload has the container
to itself (`CreatesAlone`), so at its check the only version there is is its own,
visible or on its way (`Uploading`). `FileNamesWhatWasTold` (`NamedAsTold`): `EnvInv` follows an environment
through a call: what was streamed in, what is visible unless something is still to replace
it, and what the call carries from the fetch to the check agree with what the director was
told (`Agrees`, `Carries`); calls that overlap make every answer uncertain.

**WardenCPI** (WardenCPIProofs): `TypeCorrect`, whatever overlaps. The others assume
`Overlap \subseteq {"delete_vm"}`: the director's lock lets no two calls on one VM or disk
overlap, except the deletions it repeats while an orphan of the first still runs. Both
`cpi_locked` and `cpi_orphans` are instances.

| theorem | property | part of the invariant |
|---|---|---|
| `DeletionLeavesNothing` | `DeletedMeansGone` | `DeletionInv` |
| `DestroyedBeforeUnmounted` | `DestroyedFirst` | `DeletionInv` |
| `DisksAreMountedOnce` | `MountedOnce` | `MountsInv` |
| `MountedDisksKeepTheirFiles` | `MountedHasImage` | `MountsInv` |
| `KnownVMsAreComplete` | `KnownIsComplete` | `CreationInv` |
| `DirectorIsNotDeceived` | `BeliefTrue` | `AttachmentInv`, `BeliefInv` |

A process's frame is the tail of its call's plan (`OnPlan`), so that `Did(f, s)` says
which operations are behind it. The invariant says what those have left: `Deleted` (a
deletion past `destroy` has no container, and so on to the mounts), `Created` and
`Attached`. Each is kept by the process's own operations and, because of the lock, by
those of others: two deletions of a VM only take away, and no other call touches its VM
(`DirectorInv`: `Locked`, `Staged`). Mounts are where the director believes or does not
know (`MountsBelieved`), so a disk attached elsewhere, or with its file to be deleted, is
mounted nowhere. `KnownIsComplete` excepts the environment that a cut `Update` tore: the
invariant ties a torn one to a disk of that VM the director is unsure of, which it stays,
since no later call gets past its `Fetch` to a successful answer. `BeliefTrue` is about the
environments that may still come to be read (`Coming`): the late one, or else the visible one if it
is not torn. Its proof needs that what a call has fetched is still what is coming when it
updates, which is so as long as it read no outdated one; that is the premise `v \notin stale`, and without it the property is
false (see the finding on replacing a file). The mounts' half has no such premise. The operations of the two components enter as the
relations of HostInterfaces, which the refinements above show them to satisfy.

**Stemcells** (StemcellsProofs): `TypeCorrect`; `OnlyWholeStemcellsAreUsed`
(`UsedIsWhole`) and `DeletionLeavesNothing` (`DeletedIsGone`). `OwnerInv`: a creation has
its id to itself until it is told, a `create_vm` uses a known stemcell, and what is deleted
is doomed or was never told. `ContentsInv`: what is known and not doomed is whole
(`KnownIsWhole`), although nothing on the disk says so; it holds because an import that
fails never tells its id.

**PortMapping** (PortMappingProofs), for any limit of ports, any integer width and any
requests: `TypeCorrect`, `Arrival` (`PortsArrive`), `AcceptsSensible` (`AcceptsExactly`).
Each mapping made so far has passed `Accepted` (`Checked`); it sends each port to one
port, at the same place: a range of one has one target, and a longer one is the
same on both sides. For the last, `VerdictSensible` shows for every request that the code's
comparisons of ends and lengths decide what `Sensible` says with sets: `RangeMeant` for a
text (which also shows that a text of real ports never panics), `SameRange` for the
cardinalities. `Told` then follows the loop.

**BPMPatcher** (BPMPatcherProofs), for any rendered files that satisfy
`OriginalAssumption`: `TypeCorrect`, `PatchTwice`
(`Patched(Patched(e)) = Patched(e)` for every entry), and for the whole file `OnceOnly`, `Dropping` and
`Complete`, the theorems of `PatchedAtMostOnce`, `WorkersDrop` and `NoneMissing`. They
come from one inductive invariant: `PatchedAtMostOnce` itself, that no rendered entry is
started by bash, that a file no cut has touched has the length and the kind it was
rendered with, and that from `truncate` on `out` is the patched list that the file was read
as (`Follows`). Of a torn last entry the theorems say what is true of it: it has lost words from
its end (`Cropped`), which a further cut (`TornCropped`) and a further patch
(`PatchedLeft`) preserve, and after a run without an error a torn worker is a privileged
bash (`Left`); that it drops its privileges is false, which is the finding of `bpm_torn`.
`DevMountedOnce` (`WorkersHaveDev`) assumes `VolumesRenderedWell`: a worker's volumes
hold `/dev` at most once, as those of the files in `bpm` do.

**Only model-checked.** The liveness properties (`EveryCallEnds`, `DeletesConverge`,
`RemovalConverges`, `DeletionConverges`): liveness under fairness is out of TLAPS' reach
here. The properties of the violation runs are false, as their runs show.

## 5. Not modelled

None of these keeps state or takes part in a race, so a module about them could only
repeat them (see `PROJECT.json` for the paths):

- *Wiring, the JSON dispatcher, configuration*: run once at the start of a process, before
  its call has changed anything; an error ends the process. WardenCPI's `Fail` at the first
  operation of a call has the same effect. One process serves one call: `Begin`, `Return`
  and `Crash` of WardenCPI.
- *The resolv.conf reader and the choice of the network*: they shape the container's
  specification. Their errors come before the first effect of `create_vm`, as `Look` and
  `Fail` have it; which name servers a container gets changes no later step.
- *Actions that return a constant or an error* (`reboot_vm`, `set_vm_metadata`,
  `get_disks`, snapshots), and `has_vm` and `has_disk`, which only look.
- *Garden* is third-party: it appears as the steps the CPI calls. What it does with its
  containers in between is left open.
- *Job templates and packaging* render the configuration, and `cpi_ctl` and `pre-start` set
  the host up (loop devices, NAT exceptions, sudoers), before the CPI is called; no call
  changes what they made.
- The wording of `iptables` and `mount` arguments, tar streams and JSON are abstracted.
  Two VMs may forward the same host port; which of the two rules the kernel takes is not
  modelled, only that neither VM's calls touch the other's rule (`OnlyOwnRules`).
- That every `Download` leaves a copy in `/tmp`, and every failed import of a stemcell a
  directory, is a matter of space only.

## 6. Plan

In order:

1. *Done*: HostBindMounts, IPTablesPorts, WardenFileService, WardenCPI, PortMapping,
   Stemcells, BPMPatcher, their runs, and the proofs of section 4.
2. *Done*: the abstract specifications BindMounts and Forwarding, implemented by
   HostBindMounts and IPTablesPorts and used by WardenCPI.
3. *Done*: the agent environment under a late overlay, torn files and overlapping calls
   (WardenFileService), and what torn and late ones do to `KnownIsComplete` and
   `BeliefTrue` (WardenCPI).
4. *Done*: the proofs of every safety property of the passing runs and of the refinements.
5. Left: weaker hypotheses. With `detach_disk` beside `delete_vm` in `Overlap`, TLC finds
   the mounts properties and `DeletedMeansGone` unharmed (two VMs, one disk, two faults);
   their theorems assume more than they need. `AnswersTrue` is violated when
   `MountPersistent` overlaps a `DeletePersistent`; what holds then of the other calls is
   worth a property of its own. What PortMapping and BPMPatcher compute is proved; a
   composition of HostBindMounts, IPTablesPorts and WardenCPI in one theorem is not stated.
