--------------------------- MODULE HostInterfaces ---------------------------
(***************************************************************************)
(* What a call of the interfaces HostBindMounts and Ports                  *)
(* (vm/interfaces.go) may change on the host and what its success means,   *)
(* as relations between the tables before and after.  BindMounts and       *)
(* Forwarding make specifications of them, which HostBindMounts and        *)
(* IPTablesPorts implement command by command; WardenCPI, which calls both *)
(* interfaces, takes the same relations for the steps of its calls.        *)
(*                                                                         *)
(* The host is a record of dir[k][v], the ephemeral or persistent bind     *)
(* mount of VM v, and mounts, the pairs <<v, d>> of a VM and a disk that   *)
(* is mounted in its persistent directory.                                 *)
(***************************************************************************)
EXTENDS Naturals

Makes     == {"MakeEphemeral", "MakePersistent"}
Deletes   == {"DeleteEphemeral", "DeletePersistent"}
DiskCalls == {"MountPersistent", "UnmountPersistent"}
BindCall  == Makes \cup Deletes \cup DiskCalls
PortCall  == {"Forward", "RemoveForwarded"}

Kind == {"eph", "per"}
KindOf(call) ==
  IF call \in {"MakeEphemeral", "DeleteEphemeral"} THEN "eph" ELSE "per"

\* A directory is there or not, and mounted on itself with its flags or not;
\* the rules of a VM are there, some of them or all.
DirState   == {"none", "partial", "whole"}
RulesState == {"none", "some", "all"}
Rank == [none |-> 0, partial |-> 1, whole |-> 2, some |-> 1, all |-> 2]
UpFrom(x, states)   == {y \in states : Rank[y] >= Rank[x]}
DownFrom(x, states) == {y \in states : Rank[y] <= Rank[x]}

\* A definition such as MountsOfNone, which only the mutants of
\* PROJECT.json use, is a slip in the one after it.

MountsOfNone(host, v) == {}
MountsOf(host, v) == {e \in host.mounts : e[1] = v}

(***************************************************************************)
(* The hosts that a call may leave when it finishes, gives up or dies: it  *)
(* works in one direction on its own VM, and takes a persistent directory  *)
(* down after the disks in it.                                             *)
(***************************************************************************)
DirBecomes(host, k, v, states) ==
  {[host EXCEPT !.dir[k][v] = x] : x \in states}

BindOutcomes(call, v, d, host) ==
  LET k == KindOf(call) now == host.dir[k][v] IN
  CASE call \in Makes -> DirBecomes(host, k, v, UpFrom(now, DirState))
    [] call = "DeleteEphemeral" ->
         DirBecomes(host, k, v, DownFrom(now, DirState))
    [] call = "DeletePersistent" ->
         {[host EXCEPT !.mounts = @ \ gone] : gone \in SUBSET MountsOf(host, v)}
           \cup DirBecomes([host EXCEPT !.mounts = @ \ MountsOf(host, v)],
                           k, v, DownFrom(now, DirState))
    [] call = "MountPersistent" ->
         LET made == [host EXCEPT !.dir[k][v] =
                        IF @ = "none" THEN "partial" ELSE @]
         IN  {host, made, [made EXCEPT !.mounts = @ \cup {<<v, d>>}]}
    [] call = "UnmountPersistent" ->
         {host, [host EXCEPT !.mounts = @ \ {<<v, d>>}]}

\* What success means.  A disk that was mounted already is no success.
BindDone(call, v, d, host, after) ==
  CASE call \in Makes -> after.dir[KindOf(call)][v] = "whole"
    [] call = "DeleteEphemeral" -> after.dir["eph"][v] = "none"
    [] call = "DeletePersistent" ->
         after.dir["per"][v] = "none" /\ MountsOf(after, v) = {}
    [] call = "MountPersistent"   -> <<v, d>> \in after.mounts \ host.mounts
    [] call = "UnmountPersistent" -> <<v, d>> \notin after.mounts

(***************************************************************************)
(* The same for the rules of a VM, rules[v].                               *)
(***************************************************************************)
OwnRulesAny(v, w) == TRUE
OwnRules(v, w) == w = v

RulesBecome(rules, v, x) ==
  [w \in DOMAIN rules |-> IF OwnRules(v, w) THEN x ELSE rules[w]]

RuleOutcomes(call, v, rules) ==
  {RulesBecome(rules, v, x) :
     x \in IF call = "Forward" THEN UpFrom(rules[v], RulesState)
                               ELSE DownFrom(rules[v], RulesState)}

RulesDone(call, v, after) ==
  after[v] = IF call = "Forward" THEN "all" ELSE "none"
=============================================================================
