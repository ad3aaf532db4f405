--------------------------- MODULE IPTablesPorts ---------------------------
(***************************************************************************)
(* vm/iptables_ports.go, command by command: the DNAT rules that forward   *)
(* host ports to a VM.  All CPI processes of a host append to and delete   *)
(* from one nat table; iptables makes each command atomic (-w), not the    *)
(* listing together with the deletions that follow it.                     *)
(***************************************************************************)
EXTENDS Naturals, FiniteSets, HostInterfaces

CONSTANTS
  VM,          \* VM identifiers
  Proc,        \* slots for CPI processes that are alive at the same time
  NoVM,
  Mappings,    \* Mappings[v]: how many port mappings v was created with
  Attempts,    \* tries of runCmd (60 in the code)
  MaxFaults    \* bound: refused commands, crashes and reboots

ASSUME NoVMAssumption == NoVM \notin VM
ASSUME MappingsAssumption == Mappings \in [VM -> Nat]
ASSUME AttemptsAssumption == Attempts \in Nat \ {0}
ASSUME MaxFaultsAssumption == MaxFaults \in Nat

VARIABLES
  op,      \* what each process is doing: a frame, see Frame
  nat,     \* <<v, n>>: the rule for the n-th mapping of v is in the table
  life,    \* "new", then "creating" while Forward runs, then "known" once it
           \* succeeded: only then does the director learn of the VM
  faults   \* faults that happened so far

vars == <<op, nat, life, faults>>

Life == {"new", "creating", "known"}
At   == {"idle", "ok", "err", "add", "save", "del", "sleep"}
Rule == VM \X Nat

\* next: the mapping Forward adds now; lines: the rules of the listing that
\* removeRulesWithID still has to delete; failed: its lastErr is set.
Frame == [call : PortCall \cup {"none"}, vm : VM \cup {NoVM}, at : At, next : Nat,
          lines : SUBSET Rule, tries : 0..(Attempts - 1), failed : BOOLEAN]

IdleFrame == [call |-> "none", vm |-> NoVM, at |-> "idle", next |-> 0,
              lines |-> {}, tries |-> 0, failed |-> FALSE]

Init ==
  /\ op = [p \in Proc |-> IdleFrame]
  /\ nat = {}
  /\ life = [v \in VM |-> "new"]
  /\ faults = 0

\* A definition such as AgainForever, which only the mutants of
\* PROJECT.json use, is a slip in the one after it.

\* runCmd tries a command at most Attempts times and sleeps in between.
AgainForever(p) == op' = [op EXCEPT ![p].at = "sleep"]
Again(p) == op' = [op EXCEPT ![p].at = "sleep", ![p].tries = @ + 1]
TriesLeftOneMore(p) == op[p].tries < Attempts
TriesLeft(p) == op[p].tries + 1 < Attempts

Busy(p) == op[p].at # "idle"
Fault   == faults < MaxFaults /\ faults' = faults + 1

\* What the call answers once removeRulesWithID is through: Forward has
\* failed already and ignores how its clean-up went.
AnswerAlways(call, failed) == IF call = "RemoveForwarded" THEN "ok" ELSE "err"
Answer(call, failed) ==
  IF call = "RemoveForwarded" /\ ~failed THEN "ok" ELSE "err"

(***************************************************************************)
(* A process enters the call.  The VM's id is fresh for Forward, and the   *)
(* director deletes only what it knows; nothing keeps two deletions apart. *)
(***************************************************************************)
Begin(p, call, v) ==
  /\ ~Busy(p)
  /\ life[v] = IF call = "Forward" THEN "new" ELSE "known"
  /\ op' = [op EXCEPT ![p] =
              [IdleFrame EXCEPT !.call = call, !.vm = v, !.next = 1,
                 !.at = IF call = "RemoveForwarded" THEN "save"
                        ELSE IF Mappings[v] = 0 THEN "ok" ELSE "add"]]
  /\ life' = [life EXCEPT ![v] = IF call = "Forward" THEN "creating" ELSE @]
  /\ UNCHANGED <<nat, faults>>

Return(p) ==
  /\ op[p].at \in {"ok", "err"}
  /\ op' = [op EXCEPT ![p] = IdleFrame]
  /\ life' = IF op[p].call = "Forward" /\ op[p].at = "ok"
               THEN [life EXCEPT ![op[p].vm] = "known"] ELSE life
  /\ UNCHANGED <<nat, faults>>

(***************************************************************************)
(* Forward: one rule per mapping, in order; the first failure goes to      *)
(* removeRulesWithID.                                                      *)
(***************************************************************************)
Append(p) ==
  LET f == op[p] IN
  /\ f.at = "add"
  /\ nat' = nat \cup {<<f.vm, f.next>>}
  /\ op' = [op EXCEPT ![p].next = @ + 1, ![p].tries = 0,
              ![p].at = IF f.next = Mappings[f.vm] THEN "ok" ELSE "add"]
  /\ UNCHANGED <<life, faults>>

(***************************************************************************)
(* removeRulesWithID: a listing, then a deletion of every listed rule of   *)
(* the VM.  A failure is remembered and the loop goes on.  Deleting a rule *)
(* that is gone already is tolerated if iptables words it the way the code *)
(* expects, and remembered like any other failure if it does not.          *)
(***************************************************************************)
AfterLine(f, lines) == IF lines = {} THEN Answer(f.call, f.failed) ELSE "del"

\* The lines of iptables-save that carry the VM's comment.
ListedAll(v) == nat
ListedNone(v) == {}
Listed(v) == {r \in nat : r[1] = v}

Save(p) ==
  LET f == op[p] IN
  /\ f.at = "save"
  /\ op' = [op EXCEPT ![p].lines = Listed(f.vm), ![p].tries = 0,
                      ![p].at = AfterLine(f, Listed(f.vm))]
  /\ UNCHANGED <<nat, life, faults>>

SaveFails(p) ==
  /\ op[p].at = "save"
  /\ op' = [op EXCEPT ![p].failed = TRUE, ![p].at = "err"]
  /\ Fault
  /\ UNCHANGED <<nat, life>>

Delete(p) ==
  LET f == op[p] IN
  /\ f.at = "del"
  /\ \E r \in f.lines :
       /\ nat' = nat \ {r}
       /\ op' = [op EXCEPT ![p].lines = @ \ {r}, ![p].tries = 0,
                           ![p].at = AfterLine(f, f.lines \ {r})]
  /\ UNCHANGED <<life, faults>>

(***************************************************************************)
(* runCmd: a busy table ("Resource temporarily unavailable") is tried      *)
(* again, Attempts times in all; any other failure is final.  The table    *)
(* may be busy as often as it likes.                                       *)
(***************************************************************************)
TableBusy(p) ==
  /\ op[p].at \in {"add", "del"}
  /\ TriesLeft(p)
  /\ Again(p)
  /\ UNCHANGED <<nat, life, faults>>

Wake(p) ==
  /\ op[p].at = "sleep"
  /\ op' = [op EXCEPT ![p].at = IF op[p].lines = {} THEN "add" ELSE "del"]
  /\ UNCHANGED <<nat, life, faults>>

\* The command fails for good: the last try found the table busy, or it
\* was refused for another reason.
Refused(p) ==
  \/ ~TriesLeft(p) /\ UNCHANGED faults
  \/ Fault

NoCleanUp == "err"
CleanUp == "save"
AppendFails(p) ==
  /\ op[p].at = "add"
  /\ op' = [op EXCEPT ![p].at = CleanUp, ![p].tries = 0]
  /\ Refused(p)
  /\ UNCHANGED <<nat, life>>

DeleteFails(p) ==
  LET f == op[p] IN
  /\ f.at = "del"
  /\ \E r \in f.lines :
       /\ op' = [op EXCEPT ![p] = [f EXCEPT !.lines = @ \ {r}, !.tries = 0,
                   !.failed = TRUE,
                   !.at = AfterLine([f EXCEPT !.failed = TRUE], f.lines \ {r})]]
       /\ Refused(p) \/ (r \notin nat /\ UNCHANGED faults)
  /\ UNCHANGED <<nat, life>>

\* The process dies between two commands; its rules stay.
Crash(p) ==
  /\ Busy(p)
  /\ op' = [op EXCEPT ![p] = IdleFrame]
  /\ Fault
  /\ UNCHANGED <<nat, life>>

\* The kernel's table starts empty after a restart of the host.
Reboot ==
  /\ op' = [p \in Proc |-> IdleFrame]
  /\ nat' = {}
  /\ Fault
  /\ UNCHANGED life

Command(p) ==
  \/ Append(p) \/ AppendFails(p) \/ Save(p) \/ SaveFails(p)
  \/ Delete(p) \/ DeleteFails(p) \/ TableBusy(p) \/ Wake(p)

Next ==
  \/ \E p \in Proc, call \in PortCall, v \in VM : Begin(p, call, v)
  \/ \E p \in Proc : Command(p) \/ Return(p) \/ Crash(p)
  \/ Reboot

Spec == Init /\ [][Next]_vars

\* A process that is not killed runs its next command.
Running == \A p \in Proc : WF_vars(Command(p) \/ Return(p))

\* The director repeats delete_vm until it succeeds.
Repeated ==
  \A v \in VM : SF_vars(\E p \in Proc : Begin(p, "RemoveForwarded", v))

\* The table is not busy in every one of infinitely many tries.
Free == \A p \in Proc : SF_vars(Delete(p))

FairSpec == Spec /\ Running

(***************************************************************************)
(* Properties.                                                             *)
(***************************************************************************)

\* Every variable has its type.
TypeOK ==
  /\ op \in [Proc -> Frame]
  /\ nat \subseteq Rule
  /\ life \in [VM -> Life]
  /\ faults \in Nat

RulesOf(v) == {r \in nat : r[1] = v}

\* A successful Forward has every mapping in the table, a failed one none,
\* unless the clean-up whose error it ignores failed as well
\* (iptables_ports.go:36-40): partial forwarding is never a silent success.
AllOrNothing ==
  \A p \in Proc : op[p].call = "Forward" =>
    LET v == op[p].vm IN
    /\ op[p].at = "ok" => RulesOf(v) = {v} \X (1..Mappings[v])
    /\ op[p].at = "err" /\ ~op[p].failed => RulesOf(v) = {}

\* A successful RemoveForwarded leaves no rule of the VM behind, whatever
\* other deletions of the same VM listed and deleted in between.
RemovedMeansGone ==
  \A p \in Proc : op[p].call = "RemoveForwarded" /\ op[p].at = "ok"
                  => RulesOf(op[p].vm) = {}

\* A VM nobody works on keeps its rules until the host restarts: no call
\* for another VM, no clean-up after a failure and no stale listing takes
\* one away or brings one back.
OnlyOwnRules ==
  [][\A v \in VM :
       (\A p \in Proc : op[p].vm # v)
         => RulesOf(v)' = RulesOf(v) \/ nat' = {}]_vars

\* Every call is answered: the retries of a busy table are bounded.
EveryCallEnds == \A p \in Proc : Busy(p) ~> ~Busy(p)

\* Repeated deletions of a known VM leave the table without its rules, for
\* good, whatever failed before, unless the table is always busy.
RemovalConverges ==
  Repeated /\ Free => \A v \in VM : life[v] = "known" ~> [](RulesOf(v) = {})

(***************************************************************************)
(* The interface these commands implement, see Forwarding: a Forward that  *)
(* has met a failure undoes what it did.  A call for a VM without mappings *)
(* changes nothing and is no call of the interface.                        *)
(***************************************************************************)
RulesAre(v) == IF RulesOf(v) = {} THEN "none"
               ELSE IF RulesOf(v) = {v} \X (1..Mappings[v]) THEN "all"
               ELSE "some"

CallOf(f) ==
  [call |-> f.call, vm |-> f.vm,
   at |-> CASE f.at \in {"idle", "ok", "err"} -> f.at
            [] f.call = "Forward" /\ (f.at \in {"save", "del"} \/ f.lines # {})
                 -> "undoing"
            [] OTHER -> "working"]

Interface == INSTANCE Forwarding WITH
  calls <- [p \in Proc |-> CallOf(IF op[p].vm # NoVM /\ Mappings[op[p].vm] = 0
                                    THEN IdleFrame ELSE op[p])],
  rules <- [v \in VM |-> RulesAre(v)]

\* Every call, taken as a whole, does what the interface promises: Forward
\* adds and then at most takes back, RemoveForwarded only takes away, both
\* only rules of their own VM, and both succeed in the very step that
\* completes their work, beside other calls and after crashes and restarts.
ImplementsPorts == Interface!Spec

=============================================================================
