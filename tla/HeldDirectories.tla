--------------------------- MODULE HeldDirectories ---------------------------
(***************************************************************************)
(* What the calls of internal/linuxfs conclude from a namespace that other *)
(* processes change meanwhile: the probe for the absence of a source       *)
(* (source_absence_probe_linux.go), the probes for the metadata and the    *)
(* content of a Trash entry, the qualification of a Trash layout and the   *)
(* restoration of an entry (trash_restore_linux.go).                       *)
(*                                                                         *)
(* A call holds directories, whatever their names are by now, and reads    *)
(* one name or one directory at a time.  What it concludes is about        *)
(* several of them at one moment.  A behaviour is one call.                *)
(***************************************************************************)
EXTENDS Naturals, Sequences

CONSTANTS
  Root,         \* the directory that the planned path and the Trash are in
  Path,         \* the directories of the planned path, the last one held
  TrashLayout,  \* the directories of the Trash that are held, in order
  Planned,      \* the place each directory of these was found at
  Others,       \* directories that belong to other processes
  MayBeAt,      \* the places that each directory may be moved to
  MayLoosen,    \* those whose owner or mode may change
  Reads,        \* the directories and the entries that each call reads
  Tolerated,    \* bound: changes during each call, and after its rename
  Away          \* any other place

Operations == {"probe_source", "qualify", "probe_record", "probe_content", "restore"}
Parent == Path[Len(Path)]
OnPath == {Path[i] : i \in 1..Len(Path)}
InTrash == {TrashLayout[i] : i \in 1..Len(TrashLayout)}
Directories == OnPath \cup InTrash \cup Others

(* The source name in the parent, files/<token> and info/<token>.trashinfo. *)
Entries == {"source", "content", "record"}

(* The object the plan or the token stands for, another, or no name. *)
Objects == {"planned", "other", "none"}

ASSUME LayoutAssumptions ==
  /\ Path \in Seq(DOMAIN Planned) \ {<<>>} /\ TrashLayout \in Seq(DOMAIN Planned) \ {<<>>}
  /\ Root \notin Directories
  /\ DOMAIN Planned = OnPath \cup InTrash
  /\ DOMAIN MayBeAt = Directories
  /\ \A d \in DOMAIN Planned : Planned[d] \in MayBeAt[d]
  /\ \A d \in Directories : Away \notin MayBeAt[d]
  /\ MayLoosen \subseteq InTrash
  /\ Reads \in [Operations -> SUBSET (Directories \cup Entries)]
  /\ Tolerated \in [Operations -> Nat]

VARIABLES
  place,     \* where each directory is: a parent and a name there, or Away
  loose,     \* the directories whose owner or mode has changed
  entry,     \* what each entry holds
  unsynced,  \* the entries of a rename whose directory is not synced
  op,        \* the call
  todo,      \* the steps it has still to take
  at,        \* the directory it has reached, or looks the source up in
  result,    \* what it has returned, or "none"
  applied,   \* its rename has happened
  changes,   \* the changes made since the call, or its rename (history)
  seen       \* the claims that were true at a moment since (history)

namespaceVars == <<place, loose, entry, unsynced>>
callVars == <<op, todo, at, result, applied>>
vars == <<place, loose, entry, unsynced, op, todo, at, result, applied, changes, seen>>

-----------------------------------------------------------------------------
(* The steps of the calls *)

Each(verb, ds) == [i \in 1..Len(ds) |-> <<verb, ds[i]>>]
One(verb, what) == << <<verb, what>> >>

(* requalifiedPlannedParent, and the steps after it: the path is walked again *)
(* from the retained root.                                                    *)
Requalify(rest) ==
  One("from", Root) \o (Each("walk", Path) \o (One("compare", Parent) \o rest))

(* inspectTrashTopologyDescriptorSet, as duplicateTopologyCheckedLocked and *)
(* verifyTopologyLocked call it: what is held, then each literal child.     *)
Topology == Each("private", TrashLayout) \o Each("child", TrashLayout)

ObserveOnce ==  \* slip: one observation is taken as proof
  Requalify(One("absent", "source") \o One("conclude", "absent"))

ObserveTwice ==
  Requalify(One("absent", "source")
    \o Requalify(One("absent", "source") \o One("conclude", "absent")))

(* An entry that is not found is looked up again. *)
Probe(e) ==
  Topology \o (One("find", e) \o (Topology \o (One("find", e) \o (Topology
    \o One("conclude", "absent")))))

FoundUnverified(e) ==  \* slip: the topology is not verified again once the entry was found
  One("present", e) \o One("conclude", "present")

Found(e) == Topology \o (One("present", e) \o (Topology \o One("conclude", "present")))

Restoration ==
  Topology \o (One("present", "content") \o (One("rename", "content")
    \o (One("present", "source") \o (One("sync", "content") \o (One("sync", "source")
    \o (Topology \o One("conclude", "verified")))))))

Steps(o) ==
  CASE o = "probe_source" -> ObserveTwice
    [] o = "qualify" -> Topology \o One("conclude", "present")
    [] o = "probe_record" -> Probe("record")
    [] o = "probe_content" -> Probe("content")
    [] o = "restore" -> Restoration

-----------------------------------------------------------------------------
(* What is true of the namespace *)

(* The directory of name n in d, if there is one. *)
Below(d, n) == {e \in Directories : place[e] = <<d, n>>}

Name(d) == Planned[d][2]

(* No directory is beneath itself, by the names that matter: no rename puts it there. *)
NoLoops ==
  ~\E ds \in (SUBSET Directories) \ {{}} :
    \A d \in ds : place[d] \in ds \X {Name(e) : e \in DOMAIN Planned}

(* A way along the planned path, and its directory i in the one before it. *)
Ways == [1..Len(Path) -> Directories]
Before(way, i) == IF i = 0 THEN Root ELSE way[i]
Linked(way, i) == place[way[i]] = <<Before(way, i - 1), Name(Path[i])>>

ParentInPlace ==
  \E way \in Ways : way[Len(Path)] = Parent /\ \A i \in 1..Len(Path) : Linked(way, i)

TrashInPlace == \A d \in InTrash : place[d] = Planned[d] /\ d \notin loose

(* The claims that a result makes, where they are true now. *)
Claim(o, r) ==
  CASE o = "probe_source" -> ParentInPlace /\ entry["source"] = "none"
    [] o = "qualify" -> TrashInPlace
    [] o = "probe_record" -> TrashInPlace /\ entry["record"] = IF r = "absent" THEN "none" ELSE "planned"
    [] o = "probe_content" -> TrashInPlace /\ entry["content"] = IF r = "absent" THEN "none" ELSE "planned"
    [] o = "restore" -> TrashInPlace /\ entry["source"] = "planned"

Verdicts == {"absent", "present", "verified"}

Holding == {r \in Verdicts : Claim(op, r)}

Init ==
  /\ op \in Operations
  /\ todo = Steps(op)
  /\ place \in [Directories -> UNION {MayBeAt[d] : d \in Directories} \cup {Away}]
  /\ \A d \in Directories :
       /\ place[d] \in MayBeAt[d] \cup {Away}
       /\ d \notin Reads[op] => place[d] = IF d \in Others THEN Away ELSE Planned[d]
       /\ \A e \in Directories \ {d} : place[d] # Away => place[e] # place[d]
  /\ NoLoops
  /\ loose \in SUBSET (MayLoosen \cap Reads[op])
  /\ entry \in [Entries -> Objects]
  /\ \A e \in Entries \ Reads[op] : entry[e] = "none"
  /\ unsynced = {}
  /\ at = Parent
  /\ result = "none"
  /\ applied = FALSE
  /\ changes = 0
  /\ seen = Holding

-----------------------------------------------------------------------------
(* The call *)

At(s) == todo # <<>> /\ Head(todo) = s

Done(s) ==
  /\ At(s)
  /\ todo' = Tail(todo)
  /\ UNCHANGED <<namespaceVars, op, result, applied, changes>>

StartWalk == Done(<<"from", Root>>) /\ at' = Root

(* openDirectoryBeneath: a name that something else has by now leads there. *)
Walk ==
  \E d \in OnPath : \E e \in Below(at, Name(d)) :
    Done(<<"walk", d>>) /\ at' = e

Compare == Done(<<"compare", Parent>>) /\ at = Parent /\ UNCHANGED at

Private == \E d \in InTrash \ loose : Done(<<"private", d>>) /\ UNCHANGED at

(* verifyLiteralTrashChild compares with what was inspected, and its mode. *)
Child ==
  \E d \in InTrash \ loose :
    place[d] = Planned[d] /\ Done(<<"child", d>>) /\ UNCHANGED at

Lookup(e) == IF e = "source" /\ at # Parent THEN "none" ELSE entry[e]

Absent == \E e \in Entries : Lookup(e) = "none" /\ Done(<<"absent", e>>) /\ UNCHANGED at
Present == \E e \in Entries : Lookup(e) = "planned" /\ Done(<<"present", e>>) /\ UNCHANGED at

(* The first lookup, or the second: an entry that is there must be the one. *)
Find ==
  \E e \in Entries :
    /\ At(<<"find", e>>)
    /\ \/ entry[e] = "none" /\ todo' = Tail(todo)
       \/ entry[e] = "planned" /\ todo' = Found(e)
    /\ UNCHANGED <<namespaceVars, op, at, result, applied, changes>>

ApplyReplacing ==  \* slip: RENAME_NOREPLACE is missing
  /\ entry["content"] # "none"
  /\ entry' = [entry EXCEPT !["source"] = entry["content"], !["content"] = "none"]
  /\ unsynced' = {"source", "content"}
  /\ applied' = TRUE

(* The rename takes what the token holds by now, to a name that is vacant. *)
Apply ==
  /\ entry["content"] # "none" /\ entry["source"] = "none"
  /\ entry' = [entry EXCEPT !["source"] = entry["content"], !["content"] = "none"]
  /\ unsynced' = {"source", "content"}
  /\ applied' = TRUE

Return(r) == todo' = <<>> /\ result' = r

RenameTrusting ==  \* slip: whatever error the rename returns, it is taken not to have applied
  /\ At(<<"rename", "content">>)
  /\ changes' = 0
  /\ \/ Apply /\ todo' = Tail(todo) /\ UNCHANGED result
     \/ (Apply \/ UNCHANGED <<entry, unsynced, applied>>) /\ Return("not_applied")
  /\ UNCHANGED <<place, loose, op, at>>

(* Done; not done, by an error that proves it (trashMoveRenameDidNotApply); *)
(* or an error that says neither.                                           *)
Rename ==
  /\ At(<<"rename", "content">>)
  /\ changes' = 0
  /\ \/ Apply /\ todo' = Tail(todo) /\ UNCHANGED result
     \/ UNCHANGED <<entry, unsynced, applied>> /\ Return("not_applied")
     \/ (Apply \/ UNCHANGED <<entry, unsynced, applied>>) /\ Return("indeterminate")
  /\ UNCHANGED <<place, loose, op, at>>

Sync ==
  \E e \in Entries :
    /\ At(<<"sync", e>>)
    /\ todo' = Tail(todo)
    /\ unsynced' = unsynced \ {e}
    /\ UNCHANGED <<place, loose, entry, op, at, result, applied, changes>>

Conclude ==
  \E r \in Verdicts :
    /\ At(<<"conclude", r>>)
    /\ Return(r)
    /\ UNCHANGED <<namespaceVars, op, at, applied, changes>>

(* A check that does not hold, an error of a system call, or a cancellation. *)
Fail ==
  /\ todo # <<>> /\ Head(todo)[1] # "rename"
  /\ Return(IF op # "restore" THEN "unknown"
            ELSE IF \E i \in 1..Len(todo) : todo[i][1] = "rename" THEN "not_applied"
            ELSE "indeterminate")
  /\ UNCHANGED <<namespaceVars, op, at, applied, changes>>

-----------------------------------------------------------------------------
(* Other processes change what the call reads *)

Relocate ==
  \E d \in Directories \cap Reads[op] : \E p \in MayBeAt[d] \cup {Away} :
    /\ p # place[d]
    /\ p # Away => \A e \in Directories : place[e] # p
    /\ place' = [place EXCEPT ![d] = p]
    /\ NoLoops'
    /\ UNCHANGED <<loose, entry>>

(* A chmod or a chown, or one that undoes it. *)
Loosen ==
  \E d \in MayLoosen \cap Reads[op] :
    /\ loose' = IF d \in loose THEN loose \ {d} ELSE loose \cup {d}
    /\ UNCHANGED <<place, entry>>

Replace ==
  \E e \in Entries \cap Reads[op] : \E o \in Objects \ {entry[e]} :
    /\ entry' = [entry EXCEPT ![e] = o]
    /\ UNCHANGED <<place, loose>>

Change ==
  /\ todo # <<>> /\ changes < Tolerated[op]
  /\ changes' = changes + 1
  /\ Relocate \/ Loosen \/ Replace
  /\ UNCHANGED <<unsynced, callVars>>

-----------------------------------------------------------------------------

Call ==
  \/ StartWalk \/ Walk \/ Compare \/ Private \/ Child
  \/ Absent \/ Present \/ Find \/ Sync \/ Conclude \/ Fail

Next ==
  \/ (Call \/ Change) /\ seen' = seen \cup Holding'
  \/ Rename /\ seen' = Holding'

Spec == Init /\ [][Next]_vars

-----------------------------------------------------------------------------
(* Properties *)

TypeOK ==
  /\ \A d \in Directories : place[d] \in MayBeAt[d] \cup {Away}
  /\ loose \subseteq MayLoosen
  /\ entry \in [Entries -> Objects]
  /\ unsynced \subseteq Entries
  /\ op \in Operations
  /\ at \in Directories \cup {Root}
  /\ result \in Verdicts \cup {"none", "unknown", "not_applied", "indeterminate"}
  /\ applied \in BOOLEAN
  /\ changes \in Nat
  /\ seen \subseteq Verdicts

(* A source that a probe reports absent was absent from its parent at a     *)
(* moment of the call at which the parent was at its planned path, though   *)
(* directories and entries are moved away and back between the lookups.     *)
SourceAbsenceWasTrue ==
  op = "probe_source" /\ result = "absent" => "absent" \in seen

(* What the Trash probes and the qualification of a layout report was true  *)
(* of the entry and of every directory of the Trash together at a moment of *)
(* the call, none of them out of its place or no longer private.            *)
TrashVerdictsWereTrue ==
  op \in {"qualify", "probe_record", "probe_content"} /\ result \in Verdicts => result \in seen

(* A restoration says not applied only when it moved nothing, and verified  *)
(* only when the content was back under the source name, with the Trash in  *)
(* its place, at a moment since the rename, both directories synced.        *)
RestorationsTellWhatTheyDid ==
  /\ result = "not_applied" => ~applied
  /\ result = "verified" => applied /\ unsynced = {} /\ "verified" \in seen

(* A restoration never replaces what has appeared under the source name:    *)
(* only other processes, whose changes are counted, do.                     *)
RestorationsReplaceNothing ==
  [][entry["source"] # "none" /\ entry'["source"] # entry["source"] => changes' > changes]_vars
=============================================================================
