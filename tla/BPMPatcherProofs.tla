-------------------------- MODULE BPMPatcherProofs --------------------------
(***************************************************************************)
(* Theorems about BPMPatcher, for any files, commands and volumes.         *)
(***************************************************************************)
EXTENDS BPMPatcher, FiniteSetTheorems, TLAPS

(***************************************************************************)
(* The three changes.  Each keeps a worker a worker and gives it the shape *)
(* that makes a second round of the three a no-op.                         *)
(***************************************************************************)
Mounted(e) ==
  \/ e.unsafe.volsKind = "scalar"
  \/ e.unsafe.volsKind = "seq" /\ \E i \in DOMAIN e.unsafe.vols : e.unsafe.vols[i] = "/dev"

Settled(e) ==
  /\ e.unsafe.kind = "mapping" /\ e.unsafe.privileged = "true" /\ Mounted(e)
  /\ e.exe = <<"/usr/bin/bash">>

LEMMA Privileged ==
  ASSUME NEW e \in Entry
  PROVE  /\ setPrivileged(e) \in Entry
         /\ setPrivileged(e).worker = e.worker
         /\ setPrivileged(e).exe = e.exe /\ setPrivileged(e).args = e.args
         /\ setPrivileged(e).unsafe.kind = "mapping"
         /\ setPrivileged(e).unsafe.privileged = "true"
  <1>1. NoVolumes("mapping", "true") \in Unsafe
    BY DEF NoVolumes, Unsafe
  <1>2. e.unsafe.kind = "mapping" => [e.unsafe EXCEPT !.privileged = "true"] \in Unsafe
    BY DEF Entry, Unsafe
  <1> QED BY <1>1, <1>2 DEF setPrivileged, Entry, NoVolumes, Unsafe

LEMMA Commanded ==
  ASSUME NEW e \in Entry
  PROVE  /\ setWorkerCommand(e) \in Entry
         /\ setWorkerCommand(e).worker = e.worker
         /\ setWorkerCommand(e).exe = <<"/usr/bin/bash">>
         /\ setWorkerCommand(e).unsafe = e.unsafe
         /\ setWorkerCommand(e).args =
              IF e.exe = <<"/usr/bin/bash">> THEN e.args ELSE Exec(e)
  <1>1. Exec(e) \in Seq(Word) /\ <<"/usr/bin/bash">> \in Seq(Word)
    BY DEF Exec, Entry, Word, Own
  <1> QED BY <1>1 DEF setWorkerCommand, Entry

LEMMA DevAdded ==
  ASSUME NEW e \in Entry, e.unsafe.kind = "mapping"
  PROVE  /\ addDevVolume(e) \in Entry
         /\ addDevVolume(e).worker = e.worker
         /\ addDevVolume(e).exe = e.exe /\ addDevVolume(e).args = e.args
         /\ addDevVolume(e).unsafe.kind = "mapping"
         /\ addDevVolume(e).unsafe.privileged = e.unsafe.privileged
         /\ Mounted(addDevVolume(e))
  <1> DEFINE u == e.unsafe
  <1>0. /\ u \in Unsafe /\ u.vols \in Seq(Word) /\ "/dev" \in Word
        /\ u.volsKind \in {"absent", "scalar", "seq"}
        /\ u.volsKind # "seq" => ~ \E i \in DOMAIN u.vols : u.vols[i] = "/dev"
    BY DEF Entry, Unsafe, Word, Own
  <1>1. CASE u.volsKind = "absent"
    <2>1. addDevVolume(e) = [e EXCEPT !.unsafe.volsKind = "seq", !.unsafe.vols = <<"/dev">>]
      BY <1>0, <1>1 DEF addDevVolume
    <2> DEFINE new == <<"/dev">>
    <2>2. new \in Seq(Word) /\ 1 \in DOMAIN new /\ new[1] = "/dev"
      BY <1>0
    <2> HIDE DEF new
    <2>3. addDevVolume(e) = [e EXCEPT !.unsafe.volsKind = "seq", !.unsafe.vols = new]
      BY <2>1 DEF new
    <2> DEFINE w == [u EXCEPT !.volsKind = "seq", !.vols = new]
    <2>4. /\ w \in Unsafe /\ w.kind = u.kind /\ w.privileged = u.privileged
          /\ w.volsKind = "seq" /\ w.vols = new
      BY <1>0, <2>2 DEF Unsafe
    <2>5. addDevVolume(e) = [e EXCEPT !.unsafe = w]
      BY <2>3 DEF Entry
    <2> HIDE DEF w
    <2> QED BY <2>2, <2>4, <2>5 DEF Mounted, Entry
  <1>2. CASE u.volsKind = "scalar"
    BY <1>2 DEF addDevVolume, Mounted
  <1>3. CASE u.volsKind = "seq" /\ \E i \in DOMAIN u.vols : u.vols[i] = "/dev"
    BY <1>3 DEF addDevVolume, Mounted
  <1>4. CASE u.volsKind = "seq" /\ ~ \E i \in DOMAIN u.vols : u.vols[i] = "/dev"
    <2>1. addDevVolume(e) = [e EXCEPT !.unsafe.vols = Append(@, "/dev")]
      BY <1>4 DEF addDevVolume
    <2> DEFINE new == Append(u.vols, "/dev")
    <2>2. /\ new \in Seq(Word) /\ Len(u.vols) + 1 \in DOMAIN new
          /\ new[Len(u.vols) + 1] = "/dev"
      BY <1>0
    <2> HIDE DEF new
    <2>3. addDevVolume(e) = [e EXCEPT !.unsafe.vols = new]
      BY <2>1 DEF new
    <2> DEFINE w == [u EXCEPT !.vols = new]
    <2>4. /\ w \in Unsafe /\ w.kind = u.kind /\ w.privileged = u.privileged
          /\ w.volsKind = "seq" /\ w.vols = new
      BY <1>0, <1>4, <2>2 DEF Unsafe
    <2>5. addDevVolume(e) = [e EXCEPT !.unsafe = w]
      BY <2>3 DEF Entry
    <2> HIDE DEF w
    <2>6. \E i \in DOMAIN w.vols : w.vols[i] = "/dev"
      BY <2>2, <2>4
    <2> QED BY <2>4, <2>5, <2>6 DEF Mounted, Entry
  <1> QED BY <1>0, <1>1, <1>2, <1>3, <1>4

\* What a patch gives a worker, and what it keeps.
LEMMA PatchShape ==
  ASSUME NEW e \in Entry
  PROVE  /\ Patched(e) \in Entry
         /\ Patched(e).worker = e.worker
         /\ e.worker => Settled(Patched(e))
         /\ e.worker => Patched(e).args =
              IF e.exe = <<"/usr/bin/bash">> THEN e.args ELSE Exec(e)
         /\ ~e.worker => Patched(e) = e
  <1> DEFINE a == setPrivileged(e) b == setWorkerCommand(a) c == addDevVolume(b)
  <1>1. /\ a \in Entry /\ a.worker = e.worker /\ a.exe = e.exe /\ a.args = e.args
        /\ a.unsafe.kind = "mapping" /\ a.unsafe.privileged = "true"
    BY Privileged
  <1> HIDE DEF a
  <1>2. /\ b \in Entry /\ b.worker = e.worker /\ b.exe = <<"/usr/bin/bash">>
        /\ b.unsafe = a.unsafe
        /\ b.args = IF a.exe = <<"/usr/bin/bash">> THEN a.args ELSE Exec(a)
    BY <1>1, Commanded
  <1> HIDE DEF b
  <1>3. /\ c \in Entry /\ c.worker = e.worker /\ c.exe = b.exe /\ c.args = b.args
        /\ c.unsafe.kind = "mapping" /\ c.unsafe.privileged = "true" /\ Mounted(c)
    BY <1>1, <1>2, DevAdded
  <1>4. Exec(a) = Exec(e)
    BY <1>1 DEF Exec
  <1>5. Patched(e) = IF e.worker THEN c ELSE e
    BY DEF Patched, a, b
  <1> HIDE DEF c
  <1> QED BY <1>1, <1>2, <1>3, <1>4, <1>5 DEF Settled

\* A second patch is a no-op.
LEMMA SettledStays ==
  ASSUME NEW e \in Entry, Settled(e)
  PROVE  Patched(e) = e
  <1>0. /\ e.unsafe.kind = "mapping" /\ e.unsafe.privileged = "true"
        /\ e.exe = <<"/usr/bin/bash">>
    BY DEF Settled
  <1>1. setPrivileged(e) = e
    BY <1>0 DEF setPrivileged, Entry, Unsafe
  <1>2. setWorkerCommand(e) = e
    BY <1>0 DEF setWorkerCommand
  <1>3. addDevVolume(e) = e
    BY <1>0 DEF Settled, Mounted, addDevVolume
  <1> QED BY <1>1, <1>2, <1>3 DEF Patched

\* Patching is idempotent (main.go:111, 182, 260).
THEOREM PatchTwice ==
  ASSUME NEW e \in Entry
  PROVE  Patched(Patched(e)) = Patched(e)
  BY PatchShape, SettledStays

(***************************************************************************)
(* Torn entries.                                                           *)
(***************************************************************************)
Left(e, was) == Cropped(e, Patched(was)) /\ (was.worker => RootShell(e))

\* A sequence is the beginning of itself with another behind it.
LEMMA Beginning ==
  ASSUME NEW S, NEW a \in Seq(S), NEW b \in Seq(S)
  PROVE  /\ a \o b \in Seq(S) /\ Len(a) <= Len(a \o b)
         /\ \A j \in DOMAIN a : j \in DOMAIN (a \o b) /\ (a \o b)[j] = a[j]
  OBVIOUS

\* A whole command has lost nothing.
LEMMA Whole ==
  ASSUME NEW x \in Entry
  PROVE  Cropped(x, x)
  BY DEF Cropped, Entry

\* A cut write takes words from the end, of a torn entry as of a whole one.
LEMMA TornCropped ==
  ASSUME NEW x \in Entry, NEW w \in Entry, Cropped(x, w), NEW e \in Torn(x)
  PROVE  e \in Entry /\ Cropped(e, w)
  <1> DEFINE none == NoVolumes("absent", "absent")
             cleared == [x EXCEPT !.exe = <<>>, !.args = <<>>]
             cut1(k) == [x EXCEPT !.args = SubSeq(x.args, 1, k)]
             shorter == {cleared} \cup {cut1(k) : k \in 0..Len(x.args)}
  <1>0. x.args \in Seq(Word) /\ w.args \in Seq(Word) /\ x.exe \in Seq(Word)
    BY DEF Entry
  <1>1. none \in Unsafe
    BY DEF NoVolumes, Unsafe
  <1>2. cleared \in Entry /\ Cropped(cleared, w)
    <2>1. <<>> \in Seq(Word)
      OBVIOUS
    <2>2. /\ cleared \in Entry /\ cleared.worker = x.worker
          /\ cleared.exe = <<>> /\ cleared.args = <<>>
      BY <2>1 DEF Entry
    <2> HIDE DEF cleared
    <2> QED BY <2>2 DEF Cropped
  <1>3. ASSUME NEW k \in 0..Len(x.args)
        PROVE  cut1(k) \in Entry /\ Cropped(cut1(k), w)
    <2> DEFINE s == SubSeq(x.args, 1, k)
    <2>1. /\ s \in Seq(Word) /\ Len(s) = k /\ DOMAIN s = 1..k
          /\ \A j \in 1..k : s[j] = x.args[j]
      BY <1>0
    <2>2. cut1(k) = [x EXCEPT !.args = s]
      OBVIOUS
    <2> HIDE DEF s, cut1
    <2>3. /\ cut1(k) \in Entry /\ cut1(k).worker = x.worker /\ cut1(k).exe = x.exe
          /\ cut1(k).args = s
      BY <2>1, <2>2 DEF Entry
    <2>4. x.exe = <<>> /\ x.args = <<>> => s = <<>>
      BY <2>1
    <2> QED BY <1>0, <2>1, <2>3, <2>4 DEF Cropped
  <1>4. e \in shorter \/ \E y \in shorter : e = [y EXCEPT !.unsafe = none]
    BY DEF Torn
  <1> HIDE DEF none, cleared, cut1
  <1>5. ASSUME NEW y \in shorter PROVE y \in Entry /\ Cropped(y, w)
    BY <1>2, <1>3
  <1> HIDE DEF shorter
  <1>6. ASSUME NEW y \in shorter, e = [y EXCEPT !.unsafe = none]
        PROVE  e \in Entry /\ Cropped(e, w)
    <2>1. e \in Entry /\ e.worker = y.worker /\ e.exe = y.exe /\ e.args = y.args
      BY <1>1, <1>5, <1>6 DEF Entry
    <2> QED BY <1>5, <2>1 DEF Cropped
  <1> QED BY <1>4, <1>5, <1>6

\* A run makes of a torn entry a torn entry, and of a worker's a root shell.
LEMMA PatchedLeft ==
  ASSUME NEW was \in Entry, was.exe # <<"/usr/bin/bash">>,
         NEW e \in Entry, Cropped(e, Patched(was))
  PROVE  Left(Patched(e), was)
  <1> DEFINE w == Patched(was) p == Patched(e)
  <1>1. /\ w \in Entry /\ p \in Entry /\ w.worker = was.worker /\ p.worker = e.worker
        /\ e.worker = was.worker
    BY PatchShape DEF Cropped
  <1>2. CASE ~was.worker
    <2>1. p = e
      BY <1>1, <1>2, PatchShape
    <2> QED BY <1>2, <2>1 DEF Left
  <1>3. CASE was.worker
    <2>1. /\ Settled(w) /\ Settled(p) /\ w.args = Exec(was)
          /\ p.args = IF e.exe = <<"/usr/bin/bash">> THEN e.args ELSE Exec(e)
      BY <1>1, <1>3, PatchShape
    <2>2. /\ RootShell(p) /\ p.exe = w.exe /\ w.exe = <<"/usr/bin/bash">>
      BY <2>1 DEF Settled, RootShell
    <2>3. Len(p.args) <= Len(w.args) /\ \A j \in DOMAIN p.args : p.args[j] = w.args[j]
      <3>1. CASE e.exe = w.exe
        BY <2>1, <2>2, <3>1 DEF Cropped
      <3>2. CASE e.exe # w.exe
        <4>1. e.exe = <<>> /\ e.args = <<>>
          BY <3>2 DEF Cropped
        <4>2. p.args = <<"-c", "setpriv">>
          BY <2>1, <2>2, <3>2, <4>1 DEF Exec
        <4> DEFINE two == <<"-c", "setpriv">> lead == two \o was.exe
        <4>3. w.args = lead \o was.args /\ p.args = two
          BY <2>1, <4>2 DEF Exec
        <4>4. was.exe \in Seq(Word) /\ was.args \in Seq(Word)
          BY DEF Entry
        <4>5. two \in Seq(Word) /\ Len(two) = 2
          BY DEF Word, Own
        <4> HIDE DEF two, w, p
        <4>6. /\ lead \in Seq(Word) /\ Len(two) <= Len(lead)
              /\ \A j \in DOMAIN two : j \in DOMAIN lead /\ lead[j] = two[j]
          BY <4>4, <4>5, Beginning
        <4> HIDE DEF lead
        <4>7. /\ Len(lead) <= Len(lead \o was.args)
              /\ \A j \in DOMAIN lead : (lead \o was.args)[j] = lead[j]
          BY <4>4, <4>6, Beginning
        <4>8. Len(two) \in Nat /\ Len(lead) \in Nat /\ Len(lead \o was.args) \in Nat
          BY <4>4, <4>5, <4>6
        <4> QED BY <4>3, <4>6, <4>7, <4>8
      <3> QED BY <3>1, <3>2
    <2> QED BY <1>1, <2>2, <2>3 DEF Left, Cropped
  <1> QED BY <1>2, <1>3

(***************************************************************************)
(* The runs.  Follows says of a list that it is what a run makes of the    *)
(* rendered one: every entry that is not torn patched, a torn one as Left  *)
(* says, and all of them there unless a write was cut.                     *)
(***************************************************************************)
Intact(i, list) == i < Len(list) \/ cut # "inside"

Follows(list) ==
  /\ Len(list) <= Len(rendered.list)
  /\ cut = "not" => rendered.kind = "list" /\ Len(list) = Len(rendered.list)
  /\ \A i \in DOMAIN list :
       IF Intact(i, list) THEN list[i] = Patched(rendered.list[i])
                          ELSE Left(list[i], rendered.list[i])

NoBash == \A i \in DOMAIN rendered.list : rendered.list[i].exe # <<"/usr/bin/bash">>

Unless == cut = "not" /\ file.kind # "blank" =>
            file.kind = rendered.kind /\ Len(file.list) = Len(rendered.list)

RunInv ==
  /\ TypeOK
  /\ NoBash
  /\ PatchedAtMostOnce
  /\ Unless
  /\ at \in {"truncate", "write"} => Follows(out)
  /\ at = "ok" => file.kind # "blank" /\ (file.kind = "list" => Follows(file.list))

LEMMA PatchedListSeq ==
  ASSUME NEW list \in Seq(Entry)
  PROVE  /\ PatchedList(list) \in Seq(Entry)
         /\ Len(PatchedList(list)) = Len(list)
         /\ \A i \in DOMAIN list : PatchedList(list)[i] = Patched(list[i])
  <1> DEFINE P(i) == Patched(list[i])
  <1>1. \A i \in DOMAIN list : P(i) \in Entry
    BY PatchShape
  <1> HIDE DEF P
  <1>2. /\ [i \in DOMAIN list |-> P(i)] \in Seq(Entry)
        /\ Len([i \in DOMAIN list |-> P(i)]) = Len(list)
    BY <1>1
  <1>3. PatchedList(list) = [i \in DOMAIN list |-> P(i)]
    BY DEF PatchedList, P
  <1>4. \A i \in DOMAIN list : PatchedList(list)[i] = Patched(list[i])
    BY DEF PatchedList
  <1> QED BY <1>2, <1>3, <1>4

\* A write cut short leaves a prefix of what it was to write.
LEMMA CutShort ==
  ASSUME TypeOK, Follows(out), Cut, rendered' = rendered
  PROVE  /\ file' \in File /\ cut' \in {"not", "between", "inside"}
         /\ PatchedAtMostOnce'
         /\ Unless'
  <1>0. /\ out \in Seq(Entry) /\ cut \in {"not", "between", "inside"}
        /\ rendered.list \in Seq(Entry)
    BY DEF TypeOK, File
  <1>a. ASSUME NEW kind \in {"blank", "listless"} PROVE Unlisted(kind) \in File
    BY DEF File, Unlisted
  <1>1. CASE file' = Unlisted("blank") /\ UNCHANGED cut
    BY <1>0, <1>1, <1>a DEF Unlisted, PatchedAtMostOnce, Sound, Unless
  <1>2. CASE file' = Unlisted("listless") /\ cut' = IF cut = "not" THEN "between" ELSE cut
    BY <1>0, <1>2, <1>a DEF Unlisted, PatchedAtMostOnce, Sound, Unless
  <1>3. ASSUME NEW n \in 1..Len(out)
        PROVE  LET s == SubSeq(out, 1, n) IN
               /\ s \in Seq(Entry) /\ Len(s) = n /\ n <= Len(rendered.list)
               /\ DOMAIN s = 1..n
               /\ \A i \in 1..n : s[i] = out[i]
    BY <1>0 DEF Follows
  <1>6. \A i \in DOMAIN out : Cropped(out[i], Patched(rendered.list[i]))
    <2> SUFFICES ASSUME NEW i \in DOMAIN out
                 PROVE  Cropped(out[i], Patched(rendered.list[i]))
      OBVIOUS
    <2>1. out[i] \in Entry
      BY <1>0
    <2> QED BY <2>1, Whole DEF Follows, Left
  <1>4. ASSUME NEW n \in 1..Len(out), file' = Listing(SubSeq(out, 1, n)),
               cut' = IF cut = "not" THEN "between" ELSE cut
        PROVE  file' \in File /\ PatchedAtMostOnce' /\ Unless'
    <2> DEFINE s == SubSeq(out, 1, n)
    <2>1. /\ s \in Seq(Entry) /\ Len(s) = n /\ n <= Len(rendered.list)
          /\ DOMAIN s = 1..n
          /\ \A i \in 1..n : s[i] = out[i]
      BY <1>3
    <2>2. file' = Listing(s)
      BY <1>4
    <2> HIDE DEF s
    <2>3. \A i \in 1..n :
            /\ i < n \/ cut' # "inside" => s[i] = Patched(rendered.list[i])
            /\ Cropped(s[i], Patched(rendered.list[i]))
      BY <1>0, <1>4, <1>6, <2>1 DEF Follows, Intact
    <2>4. file'.list = s /\ file'.kind = "list"
      BY <2>2 DEF Listing
    <2>5. file' \in File
      BY <2>1, <2>2 DEF File, Listing
    <2>7. \A i \in 1..n : i \in Sound' <=> i < n \/ cut' # "inside"
      BY <2>1, <2>4 DEF Sound
    <2>6. PatchedAtMostOnce'
      BY <2>1, <2>3, <2>4, <2>7 DEF PatchedAtMostOnce
    <2> QED BY <1>4, <2>5, <2>6 DEF Unless
  <1>5. ASSUME NEW n \in 1..Len(out), NEW e \in Torn(out[n]),
               file' = Listing([SubSeq(out, 1, n) EXCEPT ![n] = e]), cut' = "inside"
        PROVE  file' \in File /\ PatchedAtMostOnce' /\ Unless'
    <2>1. e \in Entry /\ Cropped(e, Patched(rendered.list[n]))
      <3>1. /\ out[n] \in Entry /\ rendered.list[n] \in Entry
            /\ Patched(rendered.list[n]) \in Entry
        BY <1>0, PatchShape DEF Follows
      <3> QED BY <1>6, <3>1, TornCropped
    <2> DEFINE s == SubSeq(out, 1, n) t == [s EXCEPT ![n] = e]
    <2>2. /\ s \in Seq(Entry) /\ Len(s) = n /\ n <= Len(rendered.list)
          /\ DOMAIN s = 1..n
          /\ \A i \in 1..n : s[i] = out[i]
      BY <1>3
    <2>3. file' = Listing(t)
      BY <1>5
    <2> HIDE DEF s
    <2>4. /\ t \in Seq(Entry) /\ Len(t) = n /\ DOMAIN t = 1..n
          /\ \A i \in 1..n : i < n => t[i] = out[i]
      BY <2>1, <2>2
    <2> HIDE DEF t
    <2>5. \A i \in 1..n : i < n => t[i] = Patched(rendered.list[i])
      BY <1>0, <2>4 DEF Follows, Intact
    <2>6. file'.list = t /\ file'.kind = "list"
      BY <2>3 DEF Listing
    <2>7. file' \in File
      BY <2>3, <2>4 DEF File, Listing
    <2>9. \A i \in 1..n : i \in Sound' <=> i < n
      BY <1>5, <2>4, <2>6 DEF Sound
    <2>10. t[n] = e
      BY <2>2 DEF t
    <2>8. PatchedAtMostOnce'
      BY <2>1, <2>2, <2>4, <2>5, <2>6, <2>9, <2>10 DEF PatchedAtMostOnce
    <2> QED BY <1>5, <2>7, <2>8 DEF Unless
  <1> QED BY <1>0, <1>1, <1>2, <1>4, <1>5 DEF Cut

LEMMA RunInvariant == Spec => []RunInv
  <1>1. ASSUME NEW f \in Original, file = f, rendered = f, at = "idle", cut = "not",
               faults \in Nat, out \in Seq(Entry)
        PROVE  RunInv
    BY <1>1, OriginalAssumption DEF RunInv, TypeOK, NoBash, PatchedAtMostOnce, Sound,
       Unless, File
  <1>2. Init => RunInv
    BY <1>1, MaxFaultsAssumption DEF Init
  <1>3. RunInv /\ [Next]_vars => RunInv'
    <2> SUFFICES ASSUME RunInv, [Next]_vars PROVE RunInv'
      OBVIOUS
    <2>0. /\ TypeOK /\ file \in File /\ rendered \in File /\ out \in Seq(Entry)
          /\ file.list \in Seq(Entry) /\ rendered.list \in Seq(Entry) /\ faults \in Nat
      BY DEF RunInv, TypeOK, File
    <2>1. CASE Render
      BY <2>0, <2>1, OriginalAssumption DEF Render, RunInv, TypeOK, NoBash,
         PatchedAtMostOnce, Sound, Unless, File
    <2>2. CASE Read
      <3>1. UNCHANGED <<file, rendered, cut, faults>>
        BY <2>2 DEF Read
      <3>2. NoBash' /\ PatchedAtMostOnce' /\ Unless'
        BY <3>1 DEF RunInv, NoBash, PatchedAtMostOnce, Sound, Unless
      <3>3. CASE file.kind \in Skipped /\ at' = "ok" /\ UNCHANGED out
        BY <3>1, <3>2, <3>3 DEF RunInv, TypeOK, Skipped
      <3>4. CASE at' = "err" /\ UNCHANGED out
        BY <3>1, <3>2, <3>4 DEF RunInv, TypeOK
      <3>5. CASE file.kind = "list" /\ at' = "truncate" /\ out' = PatchedList(file.list)
        <4>1. /\ out' \in Seq(Entry) /\ Len(out') = Len(file.list)
              /\ DOMAIN out' = DOMAIN file.list
              /\ \A i \in DOMAIN file.list : out'[i] = Patched(file.list[i])
          BY <2>0, <3>5, PatchedListSeq
        <4>2. \A i \in Sound : Patched(file.list[i]) = Patched(rendered.list[i])
          <5> SUFFICES ASSUME NEW i \in Sound
                       PROVE  Patched(file.list[i]) = Patched(rendered.list[i])
            OBVIOUS
          <5>1. /\ rendered.list[i] \in Entry
                /\ file.list[i] \in {rendered.list[i], Patched(rendered.list[i])}
            BY <2>0 DEF RunInv, PatchedAtMostOnce, Sound
          <5> QED BY <5>1, PatchTwice
        <4>4. \A i \in DOMAIN file.list : i \notin Sound =>
                Left(Patched(file.list[i]), rendered.list[i])
          <5> SUFFICES ASSUME NEW i \in DOMAIN file.list, i \notin Sound
                       PROVE  Left(Patched(file.list[i]), rendered.list[i])
            OBVIOUS
          <5>1. /\ rendered.list[i] \in Entry /\ file.list[i] \in Entry
                /\ rendered.list[i].exe # <<"/usr/bin/bash">>
                /\ Cropped(file.list[i], Patched(rendered.list[i]))
            BY <2>0 DEF RunInv, PatchedAtMostOnce, NoBash
          <5> QED BY <5>1, PatchedLeft
        <4>5. \A i \in DOMAIN file.list : i \in Sound <=> Intact(i, file.list)
          BY DEF Sound, Intact
        <4>6. \A i \in DOMAIN out' :
                IF i < Len(out') \/ cut # "inside"
                  THEN out'[i] = Patched(rendered.list[i])
                  ELSE Left(out'[i], rendered.list[i])
          BY <4>1, <4>2, <4>4, <4>5 DEF Intact
        <4>7. /\ Len(out') <= Len(rendered.list)
              /\ cut = "not" => rendered.kind = "list" /\ Len(out') = Len(rendered.list)
          BY <3>5, <4>1 DEF RunInv, PatchedAtMostOnce, Unless
        <4>3. Follows(out)'
          BY <3>1, <4>6, <4>7 DEF Follows, Intact
        <4> QED BY <3>1, <3>2, <3>5, <4>1, <4>3 DEF RunInv, TypeOK
      <3> QED BY <2>2, <3>3, <3>4, <3>5 DEF Read
    <2>3. CASE ReadFails \/ Exit
      BY <2>0, <2>3 DEF ReadFails, Exit, Fault, RunInv, TypeOK, NoBash,
         PatchedAtMostOnce, Sound, Unless
    <2>4. CASE Truncate
      <3>1. file' = Unlisted("blank") /\ at' = "write" /\ Follows(out)
            /\ UNCHANGED <<rendered, out, cut, faults>>
        BY <2>4 DEF Truncate, RunInv
      <3>2. Unlisted("blank") \in File
        BY DEF File, Unlisted
      <3> QED BY <2>0, <3>1, <3>2 DEF RunInv, TypeOK, NoBash, PatchedAtMostOnce, Sound,
                 Unless, Unlisted, Follows, Intact
    <2>5. CASE Write
      <3>1. file' = Listing(out) /\ at' = "ok" /\ Follows(out)
            /\ UNCHANGED <<rendered, out, cut, faults>>
        BY <2>5 DEF Write, RunInv
      <3>2. file' \in File /\ file'.list = out /\ file'.kind = "list"
        BY <2>0, <3>1 DEF File, Listing
      <3>5. \A i \in DOMAIN out : i \in Sound' <=> Intact(i, out)
        BY <3>1, <3>2 DEF Sound, Intact
      <3>3. PatchedAtMostOnce'
        BY <3>1, <3>2, <3>5 DEF PatchedAtMostOnce, Follows, Left
      <3>4. Follows(file.list)' /\ Unless'
        BY <3>1, <3>2 DEF Follows, Intact, Unless
      <3> QED BY <3>1, <3>2, <3>3, <3>4 DEF RunInv, TypeOK, NoBash
    <2>6. CASE (WriteFails \/ Crash) /\ Cut
      <3>1. Follows(out) /\ rendered' = rendered /\ out' = out
            /\ at' \in {"err", "idle"} /\ faults' \in Nat
        BY <2>0, <2>6 DEF WriteFails, Crash, Fault, RunInv
      <3>2. /\ file' \in File /\ cut' \in {"not", "between", "inside"}
            /\ PatchedAtMostOnce' /\ Unless'
        BY <2>0, <2>6, <3>1, CutShort
      <3> QED BY <3>1, <3>2 DEF RunInv, TypeOK, NoBash
    <2>7. CASE Crash /\ UNCHANGED <<file, cut>>
      BY <2>0, <2>7 DEF Crash, Fault, RunInv, TypeOK, NoBash,
         PatchedAtMostOnce, Sound, Unless
    <2>8. CASE UNCHANGED vars
      BY <2>8 DEF vars, RunInv, TypeOK, NoBash, PatchedAtMostOnce, Sound, Unless,
         Follows, Intact
    <2> QED BY <2>1, <2>2, <2>3, <2>4, <2>5, <2>6, <2>7, <2>8 DEF Next, WriteFails, Crash
  <1> QED BY <1>2, <1>3, PTL DEF Spec

\* An entry is as rendered or patched once, whatever runs came before, and
\* one that a cut write tore has words missing at its end and none added.
THEOREM OnceOnly == Spec => []PatchedAtMostOnce
  <1>1. RunInv => PatchedAtMostOnce
    BY DEF RunInv
  <1> QED BY <1>1, RunInvariant, PTL

\* A run without an error leaves each worker privileged with its own command
\* run by vcap, and other processes as they were rendered, but for a last
\* entry that a cut write tore: of that one no more than the first words, and
\* of a worker a root shell.
THEOREM Dropping == Spec => []WorkersDrop
  <1>1. RunInv => WorkersDrop
    <2> SUFFICES ASSUME RunInv, at = "ok", NEW i \in DOMAIN file.list
                 PROVE  LET e == file.list[i] was == rendered.list[i] IN
                        IF i \in Sound
                          THEN IF was.worker THEN Dropped(e, was) ELSE e = was
                          ELSE Left(e, was)
      BY DEF WorkersDrop, Left
    <2>1. file.kind = "list" /\ (i \in Sound <=> Intact(i, file.list))
      BY DEF RunInv, TypeOK, File, Sound, Intact
    <2>2. IF i \in Sound THEN file.list[i] = Patched(rendered.list[i])
                         ELSE Left(file.list[i], rendered.list[i])
      BY <2>1 DEF RunInv, Follows
    <2>3. rendered.list[i] \in Entry /\ rendered.list[i].exe # <<"/usr/bin/bash">>
      BY DEF RunInv, TypeOK, File, NoBash, PatchedAtMostOnce
    <2>4. rendered.list[i].worker =>
            Dropped(Patched(rendered.list[i]), rendered.list[i])
      BY <2>3, PatchShape DEF Dropped, RootShell, Settled, Exec
    <2>5. ~rendered.list[i].worker => Patched(rendered.list[i]) = rendered.list[i]
      BY <2>3, PatchShape
    <2> QED BY <2>2, <2>4, <2>5
  <1> QED BY <1>1, RunInvariant, PTL

\* No process is missing after a run without an error, unless a write was
\* cut after some of the list.
THEOREM Complete == Spec => []NoneMissing
  <1>1. RunInv => NoneMissing
    BY DEF RunInv, Unless, NoneMissing
  <1> QED BY <1>1, RunInvariant, PTL

\* Every variable has its type: a cut write, too, leaves a list of entries.
THEOREM TypeCorrect == Spec => []TypeOK
  <1>1. RunInv => TypeOK
    BY DEF RunInv
  <1> QED BY <1>1, RunInvariant, PTL

(***************************************************************************)
(* /dev.  A rendered worker that has /dev among its volumes at most once.  *)
(***************************************************************************)
DevAtMostOnce(u) ==
  \A i, j \in DOMAIN u.vols : u.vols[i] = "/dev" /\ u.vols[j] = "/dev" => i = j

VolumesRenderedWell ==
  \A f \in Original : \A i \in DOMAIN f.list :
    f.list[i].worker => DevAtMostOnce(f.list[i].unsafe)

\* One /dev is one occurrence.
LEMMA DevCounted ==
  ASSUME NEW words, NEW k \in DOMAIN words, words[k] = "/dev",
         \A i \in DOMAIN words : words[i] = "/dev" => i = k
  PROVE  Occurrences("/dev", words) = 1
  <1>1. {i \in DOMAIN words : words[i] = "/dev"} = {k}
    OBVIOUS
  <1> QED BY <1>1, FS_Singleton DEF Occurrences

\* addDevVolume leaves exactly one, and none in a key without a value.
LEMMA DevAddedOnce ==
  ASSUME NEW e \in Entry, e.unsafe.kind = "mapping", DevAtMostOnce(e.unsafe)
  PROVE  Occurrences("/dev", addDevVolume(e).unsafe.vols) =
           IF e.unsafe.volsKind = "scalar" THEN 0 ELSE 1
  <1> DEFINE u == e.unsafe
  <1>0. /\ u \in Unsafe /\ u.vols \in Seq(Word)
        /\ u.volsKind \in {"absent", "seq", "scalar"}
        /\ u.volsKind # "seq" => u.vols = <<>>
    BY DEF Entry, Unsafe
  <1>4. CASE u.volsKind = "scalar"
    <2>1. addDevVolume(e).unsafe.vols = <<>>
      BY <1>0, <1>4 DEF addDevVolume
    <2>2. {i \in DOMAIN <<>> : <<>>[i] = "/dev"} = {}
      OBVIOUS
    <2>3. Occurrences("/dev", <<>>) = 0
      BY <2>2, FS_EmptySet DEF Occurrences
    <2> QED BY <1>4, <2>1, <2>3
  <1>1. CASE u.volsKind = "absent"
    <2> DEFINE new == <<"/dev">>
    <2>1. new \in Seq({"/dev"}) /\ 1 \in DOMAIN new /\ new[1] = "/dev"
          /\ \A i \in DOMAIN new : i = 1
      OBVIOUS
    <2> HIDE DEF new
    <2>2. addDevVolume(e) = [e EXCEPT !.unsafe.volsKind = "seq", !.unsafe.vols = new]
      BY <1>0, <1>1 DEF addDevVolume, new
    <2>3. addDevVolume(e).unsafe.vols = new
      BY <2>2 DEF Entry, Unsafe
    <2> QED BY <1>1, <2>1, <2>3, DevCounted
  <1>2. ASSUME NEW k \in DOMAIN u.vols, u.vols[k] = "/dev"
        PROVE  Occurrences("/dev", addDevVolume(e).unsafe.vols) = 1
    <2>1. u.volsKind = "seq"
      BY <1>0, <1>2
    <2>2. addDevVolume(e) = e
      BY <1>2, <2>1 DEF addDevVolume
    <2>3. \A i \in DOMAIN u.vols : u.vols[i] = "/dev" => i = k
      BY <1>2 DEF DevAtMostOnce
    <2> HIDE DEF u
    <2>4. Occurrences("/dev", u.vols) = 1
      BY <1>2, <2>3, DevCounted
    <2> QED BY <2>2, <2>4 DEF u
  <1>3. CASE u.volsKind = "seq" /\ ~ \E i \in DOMAIN u.vols : u.vols[i] = "/dev"
    <2> DEFINE k == Len(u.vols) + 1 new == Append(u.vols, "/dev")
    <2>1. /\ k \in DOMAIN new /\ new[k] = "/dev"
          /\ \A i \in DOMAIN new :
               i = k \/ (i \in DOMAIN u.vols /\ new[i] = u.vols[i])
      BY <1>0
    <2> HIDE DEF new
    <2>2. addDevVolume(e) = [e EXCEPT !.unsafe.vols = new]
      BY <1>3 DEF addDevVolume, new
    <2>3. addDevVolume(e).unsafe.vols = new
      BY <2>2 DEF Entry, Unsafe
    <2>4. \A i \in DOMAIN new : new[i] = "/dev" => i = k
      BY <1>3, <2>1
    <2> HIDE DEF k
    <2> QED BY <1>3, <2>1, <2>3, <2>4, DevCounted
  <1>5. u.volsKind = "seq" /\ (\E k \in DOMAIN u.vols : u.vols[k] = "/dev")
          => Occurrences("/dev", addDevVolume(e).unsafe.vols) = 1
    BY <1>2
  <1> QED BY <1>0, <1>1, <1>3, <1>4, <1>5

\* And so does a patch of a worker that was rendered well.
LEMMA PatchMountsDev ==
  ASSUME NEW e \in Entry, e.worker, DevAtMostOnce(e.unsafe)
  PROVE  Occurrences("/dev", Patched(e).unsafe.vols) =
           IF e.unsafe.volsKind = "scalar" THEN 0 ELSE 1
  <1> DEFINE a == setPrivileged(e) b == setWorkerCommand(a)
  <1>1. /\ a \in Entry /\ a.unsafe.kind = "mapping"
        /\ b \in Entry /\ b.unsafe = a.unsafe
    BY Privileged, Commanded
  <1>2. /\ DevAtMostOnce(a.unsafe)
        /\ a.unsafe.volsKind = "scalar" <=> e.unsafe.volsKind = "scalar"
    <2>1. CASE e.unsafe.kind = "mapping"
      <3>1. /\ a.unsafe.vols = e.unsafe.vols
            /\ a.unsafe.volsKind = e.unsafe.volsKind
        BY <2>1 DEF setPrivileged, Entry, Unsafe
      <3> QED BY <3>1 DEF DevAtMostOnce
    <2>2. CASE e.unsafe.kind # "mapping"
      <3>1. a.unsafe = NoVolumes("mapping", "true")
        BY <2>2 DEF setPrivileged, Entry
      <3>2. e.unsafe.volsKind = "absent"
        BY <2>2 DEF Entry, Unsafe, NoVolumes
      <3> QED BY <3>1, <3>2 DEF DevAtMostOnce, NoVolumes
    <2> QED BY <2>1, <2>2
  <1>3. Patched(e) = addDevVolume(b)
    BY DEF Patched
  <1> HIDE DEF a, b
  <1> QED BY <1>1, <1>2, <1>3, DevAddedOnce

\* What is rendered is a file of the agent's, whatever the patcher does.
LEMMA RenderedByAgent == Spec => [](rendered \in Original)
  <1>1. Init => rendered \in Original
    BY DEF Init
  <1>2. rendered \in Original /\ [Next]_vars => (rendered \in Original)'
    BY DEF Next, vars, Render, Read, ReadFails, Truncate, Write, WriteFails, Crash, Exit
  <1> QED BY <1>1, <1>2, PTL DEF Spec

\* If the agent renders volumes that way, a run without an error leaves
\* every worker whose entry no write has torn with /dev mounted exactly once,
\* and one whose key unrestricted_volumes has no value without it, whatever
\* runs came before and wherever they died (addDevVolume, main.go:98, 153).
THEOREM DevMountedOnce ==
  ASSUME VolumesRenderedWell
  PROVE  Spec => []WorkersHaveDev
  <1>1. RunInv /\ rendered \in Original => WorkersHaveDev
    <2> SUFFICES ASSUME RunInv, rendered \in Original, at = "ok", NEW i \in Sound,
                        file.list[i].worker
                 PROVE  Occurrences("/dev", file.list[i].unsafe.vols) =
                          IF rendered.list[i].unsafe.volsKind = "scalar" THEN 0 ELSE 1
      BY DEF WorkersHaveDev
    <2>1. file.kind = "list"
      BY DEF RunInv, TypeOK, File, Sound
    <2>2. file.list[i] = Patched(rendered.list[i])
      BY <2>1 DEF RunInv, Follows, Intact, Sound
    <2>3. i \in DOMAIN rendered.list /\ rendered.list[i] \in Entry
      BY DEF RunInv, TypeOK, File, PatchedAtMostOnce, Sound
    <2>4. rendered.list[i].worker
      BY <2>2, <2>3, PatchShape
    <2>5. DevAtMostOnce(rendered.list[i].unsafe)
      BY <2>3, <2>4 DEF VolumesRenderedWell
    <2> QED BY <2>2, <2>3, <2>4, <2>5, PatchMountsDev
  <1> QED BY <1>1, RunInvariant, RenderedByAgent, PTL
=============================================================================
