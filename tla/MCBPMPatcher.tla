---------------------------- MODULE MCBPMPatcher ----------------------------
(***************************************************************************)
(* BPMPatcher for TLC: lists of one or two processes, a worker in every    *)
(* shape the file can give it, beside another process.                     *)
(***************************************************************************)
EXTENDS BPMPatcher

Tokens == {"worker", "7", "/data"}

\* unrestricted_volumes as the template renders it.
Volumes ==
  [kind : {"mapping"}, privileged : {"absent", "false", "true"},
   volsKind : {"seq"}, vols : {<<>>, <<"/data">>, <<"/dev", "/data">>}]
    \cup
  [kind : {"mapping"}, privileged : {"absent", "true"},
   volsKind : {"absent", "scalar"}, vols : {<<>>}]

Plain == {NoVolumes("absent", "absent"), NoVolumes("scalar", "absent")}

Worker == [worker : {TRUE}, exe : {<<>>, <<"worker">>},
           args : {<<>>, <<"7", "7">>}, unsafe : Volumes \cup Plain]
Director == [worker |-> FALSE, exe |-> <<"worker">>, args |-> <<"7">>,
             unsafe |-> NoVolumes("absent", "absent")]

Originals ==
  {Unlisted("missing"), Unlisted("listless")}
    \cup {Listing(<<w>>) : w \in Worker} \cup {Listing(<<Director, w>>) : w \in Worker}
=============================================================================
