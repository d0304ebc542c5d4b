-------------------------- MODULE MCHeldDirectories --------------------------
(* HeldDirectories for the planned path a/b and a home Trash, with another a *)
(* and another b.                                                            *)
EXTENDS HeldDirectories

CONSTANTS a, b, otherA, otherB, trash, files, info

MCPath == <<a, b>>
MCTrashLayout == <<trash, files, info>>

MCPlanned ==
  [d \in {a, b, trash, files, info} |->
     CASE d = a -> <<Root, "a">>
       [] d = b -> <<a, "b">>
       [] d = trash -> <<Root, "Trash">>
       [] d = files -> <<trash, "files">>
       [] d = info -> <<trash, "info">>]

MCMayBeAt ==
  [d \in Directories |->
     IF d \in {a, otherA} THEN {<<Root, "a">>, <<b, "a">>}
     ELSE IF d \in {b, otherB} THEN {<<a, "b">>, <<otherA, "b">>}
     ELSE {MCPlanned[d]}]

MCReads ==
  [ probe_source |-> {a, b, otherA, otherB, "source"},
    qualify |-> {trash, files, info},
    probe_record |-> {trash, files, info, "record"},
    probe_content |-> {trash, files, info, "content"},
    restore |-> {trash, files, info, "content", "source"} ]

(* One more change during any of these calls and its conclusion may be false. *)
MCTolerated ==
  [probe_source |-> 3, qualify |-> 1, probe_record |-> 5, probe_content |-> 5, restore |-> 1]
=============================================================================
