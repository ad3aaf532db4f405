----------------------------- MODULE Forwarding -----------------------------
(***************************************************************************)
(* What vm/interfaces.go promises of Ports, without its commands: Forward  *)
(* brings rules of its VM in and answers "ok" with all of them in the      *)
(* table; once it has met a failure it only takes rules of its VM out      *)
(* again, and fails.  RemoveForwarded takes rules of its VM out and        *)
(* answers "ok" with none left.  No call touches the rules of another VM.  *)
(***************************************************************************)
EXTENDS HostInterfaces

CONSTANTS VM, Proc, NoVM

VARIABLES
  calls,  \* the call each process is in, and its answer
  rules   \* rules[v]: see HostInterfaces

vars == <<calls, rules>>

Idle == [call |-> "none", vm |-> NoVM, at |-> "idle"]

Init ==
  /\ calls = [p \in Proc |-> Idle]
  /\ rules = [v \in VM |-> "none"]

Begin(p, call, v) ==
  /\ calls[p].at = "idle"
  /\ calls' = [calls EXCEPT ![p] = [call |-> call, vm |-> v, at |-> "working"]]
  /\ UNCHANGED rules

\* A call whose process undoes what it did works like RemoveForwarded.
Doing(c) == IF c.at = "undoing" THEN "RemoveForwarded" ELSE c.call

Work(p) ==
  LET c == calls[p] IN
  /\ c.at \in {"working", "undoing"}
  /\ rules' \in RuleOutcomes(Doing(c), c.vm, rules)
  /\ UNCHANGED calls

Succeed(p) ==
  LET c == calls[p] IN
  /\ c.at = "working"
  /\ rules' \in RuleOutcomes(c.call, c.vm, rules)
  /\ RulesDone(c.call, c.vm, rules')
  /\ calls' = [calls EXCEPT ![p].at = "ok"]

Undo(p) ==
  /\ calls[p].at = "working" /\ calls[p].call = "Forward"
  /\ calls' = [calls EXCEPT ![p].at = "undoing"]
  /\ UNCHANGED rules

\* Forward gives up after its clean-up.  The last command of a call may
\* still have taken a rule out.
GiveUp(p) ==
  LET c == calls[p] IN
  /\ c.at = IF c.call = "Forward" THEN "undoing" ELSE "working"
  /\ rules' \in RuleOutcomes("RemoveForwarded", c.vm, rules)
  /\ calls' = [calls EXCEPT ![p].at = "err"]

\* The caller takes the answer, or the process dies.
End(p) ==
  /\ calls[p].at # "idle"
  /\ calls' = [calls EXCEPT ![p] = Idle]
  /\ UNCHANGED rules

\* The kernel's table starts empty after a restart of the host.
Reboot ==
  /\ calls' = [p \in Proc |-> Idle]
  /\ rules' = [v \in VM |-> "none"]

Next ==
  \/ \E p \in Proc :
       \/ \E call \in PortCall, v \in VM : Begin(p, call, v)
       \/ Work(p) \/ Succeed(p) \/ Undo(p) \/ GiveUp(p) \/ End(p)
  \/ Reboot

Spec == Init /\ [][Next]_vars
=============================================================================
