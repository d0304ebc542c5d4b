--------------------------- MODULE HeldInvariant ---------------------------
(***************************************************************************)
(* The inductive invariant of HeldDirectories: what a call that looks at   *)
(* the Trash, or walks to the parent of a source, knows while it is on its *)
(* way through the directories.  Its conclusion is about one moment, and   *)
(* it never sees one: it reads one name after the other.  What it knows is *)
(* therefore stated by the number of changes needed to deceive it.         *)
(***************************************************************************)
EXTENDS HeldDirectories

Verbs ==
  {"from", "walk", "compare", "private", "child", "find", "absent", "present", "rename", "sync",
   "conclude"}

AnyStep == Verbs \X (Directories \cup Entries \cup Verdicts \cup {Root})

(* The steps of an inspection of the topology that are left after i of them. *)
Left(i) == SubSeq(Topology, i + 1, Len(Topology))

(* The directories whose literal children have been compared by then. *)
Looked(i) == {TrashLayout[j] : j \in 1 .. i - Len(TrashLayout)}

Sound(d) == place[d] = Planned[d] /\ d \notin loose

(* What result r claims of an entry, besides that the Trash is in its place. *)
Said(r) ==
  /\ op = "probe_record" => entry["record"] = IF r = "absent" THEN "none" ELSE "planned"
  /\ op = "probe_content" => entry["content"] = IF r = "absent" THEN "none" ELSE "planned"
  /\ op = "restore" => entry["source"] = "planned"

(***************************************************************************)
(* An inspection is under way and i of its steps are done.  If the call    *)
(* has read the entry just before it, what it read is known.  Without a    *)
(* change since, all that was looked at is still as it was.                *)
(***************************************************************************)
Undisturbed(r, known, i) ==
  /\ known => Said(r)
  /\ \A d \in Looked(i) : Sound(d)

(***************************************************************************)
(* After one change either everything looked at is still as it was, or it  *)
(* is but for one directory x.  That one was in its place before: if the   *)
(* others are now, they all were then.                                     *)
(***************************************************************************)
Disturbed(r, known, i) ==
  \/ /\ \A d \in Looked(i) : Sound(d)
     /\ known => Said(r) \/ (TrashInPlace => r \in seen)
  \/ \E x \in InTrash :
       /\ known => Said(r)
       /\ \A d \in Looked(i) \ {x} : Sound(d)
       /\ (\A d \in InTrash \ {x} : Sound(d)) /\ Said(r) => r \in seen

(***************************************************************************)
(* Result r was true at a moment, or deceiving the call has taken two      *)
(* changes for this inspection, on top of the base that those before it    *)
(* have taken, or it takes as many as are still missing.                   *)
(***************************************************************************)
Inspecting(r, known, base, i) ==
  \/ r \in seen
  \/ changes >= base + 2
  \/ changes >= base + 1 /\ Disturbed(r, known, i)
  \/ changes >= base /\ Undisturbed(r, known, i)

Places == 0 .. Len(Topology)

-----------------------------------------------------------------------------
(* Where each call may be: what is left of it, and what it knows. *)

Concluding(r) == One("conclude", r)
FoundAgain(e) == One("present", e) \o (Topology \o Concluding("present"))
LookedTwice(e) == One("find", e) \o (Topology \o Concluding("absent"))
LookedOnce(e) == One("find", e) \o (Topology \o LookedTwice(e))

Returned == /\ todo = <<>>
            /\ result \in {"absent", "present", "unknown"}
            /\ result \in Verdicts => result \in seen

Qualifying ==
  \/ Returned
  \/ \E i \in Places : /\ result = "none" /\ todo = Left(i) \o Concluding("present")
                       /\ Inspecting("present", TRUE, 0, i)

Probing(e) ==
  \/ Returned
  \/ \E i \in Places :
       /\ result = "none"
       /\ \/ /\ todo = Left(i) \o LookedOnce(e)
             /\ Inspecting("absent", FALSE, 0, i) /\ Inspecting("present", FALSE, 0, i)
          \/ /\ todo = Left(i) \o LookedTwice(e)
             /\ Inspecting("absent", TRUE, 2, i) /\ Inspecting("present", FALSE, 0, i)
          \/ todo = Left(i) \o Concluding("absent") /\ Inspecting("absent", TRUE, 4, i)
          \/ todo = Left(i) \o FoundAgain(e) /\ Inspecting("present", TRUE, 2, i)
          \/ todo = Left(i) \o Concluding("present") /\ Inspecting("present", TRUE, 4, i)

SyncingSource == One("sync", "source") \o (Topology \o Concluding("verified"))
SyncingBoth == One("sync", "content") \o SyncingSource
Renamed == One("present", "source") \o SyncingBoth
Renaming == One("rename", "content") \o Renamed
Moving == One("present", "content") \o Renaming

RestorationReturned ==
  /\ todo = <<>>
  /\ result \in {"verified", "not_applied", "indeterminate"}
  /\ result = "not_applied" => ~applied
  /\ result = "verified" => applied /\ unsynced = {} /\ "verified" \in seen

(* A step is of a rename. *)
Renames(s) == \E i \in 1..Len(s) : s[i][1] = "rename"

Restoring ==
  \/ RestorationReturned
  \/ /\ result = "none" /\ ~applied
     /\ todo = Renaming \/ \E i \in Places : todo = Left(i) \o Moving
  \/ /\ result = "none" /\ applied /\ ~Renames(todo)
     /\ \/ todo = Renamed /\ unsynced \subseteq {"source", "content"}
        \/ /\ todo = SyncingBoth /\ unsynced \subseteq {"source", "content"}
           /\ Inspecting("verified", TRUE, 0, 0)
        \/ /\ todo = SyncingSource /\ unsynced \subseteq {"source"}
           /\ Inspecting("verified", TRUE, 0, 0)
        \/ /\ unsynced = {}
           /\ \E i \in Places : /\ todo = Left(i) \o Concluding("verified")
                                /\ Inspecting("verified", TRUE, 0, i)

-----------------------------------------------------------------------------
(***************************************************************************)
(* The probe for a source walks along the planned path and does not know   *)
(* afterwards which directories it came through.  After i steps a way may  *)
(* still lead to the directory it has reached by now; or one directory of  *)
(* that way was moved, and if any way leads from the directory reached to  *)
(* the parent, the whole way was there before the move: the directory that *)
(* was moved is on one part of it only, for no directory is beneath itself.*)
(***************************************************************************)
Led(i) ==
  \E way \in Ways : at = Before(way, i) /\ \A j \in 1..i : Linked(way, j)

Leading(way, i) ==
  /\ at = Before(way, i) /\ way[Len(Path)] = Parent
  /\ \A j \in i + 1 .. Len(Path) : Linked(way, j)

Misled(i) ==
  \A way \in Ways : Leading(way, i) /\ entry["source"] = "none" => "absent" \in seen

(* As for an inspection, by the changes needed to deceive the probe. *)
Walking(base, i) ==
  \/ "absent" \in seen
  \/ changes >= base + 2
  \/ changes >= base + 1 /\ Misled(i)
  \/ changes >= base /\ Led(i)

(* The steps of a walk that are left after i of them, with those that follow. *)
Onward(i, rest) ==
  SubSeq(Each("walk", Path), i + 1, Len(Path)) \o (One("compare", Parent) \o rest)

LastLook == One("absent", "source") \o Concluding("absent")
FirstLook == One("absent", "source") \o Requalify(LastLook)

LookingReturned ==
  /\ todo = <<>>
  /\ result \in {"absent", "unknown"}
  /\ result = "absent" => "absent" \in seen

(* The rest is what follows the walk; the base as for Walking. *)
Observing(rest, base) ==
  \/ todo = Requalify(rest) /\ ("absent" \in seen \/ changes >= base)
  \/ \E i \in 0..Len(Path) : /\ todo = Onward(i, rest) /\ Walking(base, i)
                            /\ at \in IF i = 0 THEN {Root} ELSE Directories
  \/ todo = rest /\ at = Parent /\ Walking(base, Len(Path))

Looking ==
  \/ LookingReturned
  \/ /\ result = "none"
     /\ \/ Observing(FirstLook, 0)
        \/ Observing(LastLook, 2)
        \/ todo = Concluding("absent") /\ "absent" \in seen

-----------------------------------------------------------------------------

(***************************************************************************)
(* The changes that a call bears: two during each of its inspections, or   *)
(* of the walks of the probe for a source, deceive it.  It has two walks,  *)
(* or three inspections if it looks at an entry, one if it does not.       *)
(***************************************************************************)
Bearable ==
  /\ Tolerated["probe_source"] <= 3
  /\ Tolerated["qualify"] <= 1 /\ Tolerated["restore"] <= 1
  /\ Tolerated["probe_record"] <= 5 /\ Tolerated["probe_content"] <= 5

(* Inductive if what is tolerated is bearable. *)
HeldInv ==
  /\ DOMAIN place = Directories
  /\ entry \in [Entries -> Objects]
  /\ op \in Operations
  /\ changes \in 0..Tolerated[op]
  /\ Holding \subseteq seen
  /\ NoLoops
  /\ op = "probe_source" => Looking
  /\ op = "qualify" => Qualifying
  /\ op = "probe_record" => Probing("record")
  /\ op = "probe_content" => Probing("content")
  /\ op = "restore" => Restoring
=============================================================================
