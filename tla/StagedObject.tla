---------------------------- MODULE StagedObject ----------------------------
(***************************************************************************)
(* Staging, restoring and removing one planned object, as in               *)
(* internal/linuxfs/stage_linux.go and remove_linux.go: a call of          *)
(* StageNoReplace per token, the operations on the StagedObject it returns,*)
(* and everybody else who uses the two directories.                        *)
(*                                                                         *)
(* The operations on one object hold its mutex, so that each object is at  *)
(* one step of one operation; the objects of several tokens interleave.    *)
(***************************************************************************)
EXTENDS FiniteSets, Naturals

CONSTANTS
  Tokens,       \* the staging names, each with the object staged under it
  Destructive,  \* the tokens whose precondition names the change time
  Authorized,   \* the tokens whose staged entry nobody else can change
  Nodes,        \* what the tree of the planned object may be made of
  Root,
  Beneath,      \* what is in each node, at any depth
  Unfit,        \* the nodes removal refuses: special files, too deep ones
  Environment   \* what else may happen, a subset of Disturbances

Disturbances == {"source_change", "staging_change", "crash"}

ASSUME StagedAssumptions ==
  /\ "source" \notin Tokens
  /\ Destructive \subseteq Tokens
  /\ Authorized \subseteq Tokens
  /\ Root \in Nodes \ Unfit
  /\ Beneath \in [Nodes -> SUBSET Nodes]
  /\ Beneath[Root] = Nodes \ {Root}
  /\ Environment \subseteq Disturbances

VARIABLES
  source,    \* what the source name holds
  staged,    \* what each token names
  whole,     \* the tree of the planned object
  left,      \* the part of it the program has not unlinked
  unsynced,  \* the directory changes of each object that may still be lost
  meddled,   \* the tokens whose entry somebody else has changed
  state,     \* the state of each object
  step       \* where the operation under way on it is

entryVars == <<source, staged, whole, left, unsynced, meddled>>
vars == <<source, staged, whole, left, unsynced, meddled, state, step>>

-----------------------------------------------------------------------------

(* A rename changes the change time of the planned object. *)
Contents == {"absent", "planned", "renamed", "other"}
Renamed(content) == IF content = "planned" THEN "renamed" ELSE content

(* "none" is the object of a call that has not returned one. *)
States == {"none", "verified", "removing", "removed", "retained", "restored",
           "indeterminate", "closed"}

DirectoryChanges(t) == {<<t, "source">>, <<t, "staging">>}

Trees == {tree \in SUBSET Nodes : \A n \in Nodes : n = Root \/ tree \cap Beneath[n] # {} => n \in tree}

Init ==
  /\ source \in {"absent", "planned", "other"}
  /\ staged = [t \in Tokens |-> "absent"]
  /\ whole \in Trees
  /\ left = whole
  /\ unsynced = {}
  /\ meddled = {}
  /\ state = [t \in Tokens |-> "none"]
  /\ step = [t \in Tokens |-> "idle"]

Go(t, next) == step' = [step EXCEPT ![t] = next] /\ UNCHANGED state

Become(t, reached, next) ==
  /\ state' = [state EXCEPT ![t] = reached]
  /\ step' = [step EXCEPT ![t] = next]

-----------------------------------------------------------------------------
(* The operations.  A call in a state it does not accept changes nothing.  *)

RestorableStatesAny == {"verified", "retained"}  \* slip: retained content is restored, too
RestorableStates == {"verified"}

Call(t) ==
  /\ step[t] = "idle"
  /\ \/ state[t] = "none" /\ Go(t, "compare")
     \/ state[t] = "verified" /\ Go(t, "verify")
     \/ state[t] \in RestorableStates /\ Go(t, "verifyRestore")
     \/ state[t] = "verified" /\ t \in Authorized /\ Go(t, "verifyRemoval")
  /\ UNCHANGED entryVars

(* The named source is what was planned. *)
Compare(t) ==
  /\ step[t] = "compare"
  /\ \/ source = "planned"
     \/ source = "renamed" /\ t \notin Destructive
  /\ Go(t, "rename")
  /\ UNCHANGED entryVars

MoveIn(t) ==
  /\ source # "absent" /\ staged[t] = "absent"
  /\ staged' = [staged EXCEPT ![t] = Renamed(source)]
  /\ source' = "absent"
  /\ unsynced' = unsynced \cup DirectoryChanges(t)
  /\ UNCHANGED <<whole, left, meddled>>

RenameCertain(t) ==  \* slip: an interrupted rename is taken for one that failed
  /\ step[t] = "rename"
  /\ \/ MoveIn(t) /\ Become(t, "retained", "verifyMove")
     \/ (MoveIn(t) \/ UNCHANGED entryVars) /\ Become(t, "none", "idle")

(* EINTR and EAGAIN leave the outcome open, any other error does not. *)
Rename(t) ==
  /\ step[t] = "rename"
  /\ \/ MoveIn(t) /\ Become(t, "retained", "verifyMove")
     \/ (MoveIn(t) \/ UNCHANGED entryVars) /\ Become(t, "indeterminate", "idle")
     \/ UNCHANGED entryVars /\ Go(t, "idle")

Verifications == {<<"verifyMove", "stageSource">>,
                  <<"verify", "idle">>,
                  <<"verifyRestore", "renameBack">>,
                  <<"verifyRemoval", "preflight">>,
                  <<"reverify", "remove">>}

(* The token names the planned object, but for its change time. *)
VerifyStaged(t) ==
  \E v \in Verifications :
    /\ step[t] = v[1]
    /\ staged[t] = "renamed"
    /\ Go(t, v[2])
    /\ UNCHANGED entryVars

(* The directory syncs: where, of what, and where the operation goes on. *)
Syncs ==
  {[at |-> "stageSource", directory |-> "source", next |-> "stageStaging", state |-> "retained"],
   [at |-> "stageStaging", directory |-> "staging", next |-> "idle", state |-> "verified"],
   [at |-> "restoreSource", directory |-> "source", next |-> "restoreStaging", state |-> "verified"],
   [at |-> "restoreStaging", directory |-> "staging", next |-> "idle", state |-> "restored"],
   [at |-> "removeSource", directory |-> "source", next |-> "removeStaging", state |-> "verified"],
   [at |-> "removeStaging", directory |-> "staging", next |-> "reverify", state |-> "verified"],
   [at |-> "removedStaging", directory |-> "staging", next |-> "removedSource", state |-> "removing"],
   [at |-> "removedSource", directory |-> "source", next |-> "idle", state |-> "removed"]}

Sync(t) ==
  \E s \in Syncs :
    /\ step[t] = s.at
    /\ unsynced' = {u \in unsynced : u[2] # s.directory}
    /\ Become(t, s.state, s.next)
    /\ UNCHANGED <<source, staged, whole, left, meddled>>

-----------------------------------------------------------------------------
(* RestoreNoReplace. *)

MoveBack(t) ==
  /\ staged[t] # "absent" /\ source = "absent"
  /\ source' = staged[t]
  /\ staged' = [staged EXCEPT ![t] = "absent"]
  /\ unsynced' = unsynced \cup DirectoryChanges(t)
  /\ UNCHANGED <<whole, left, meddled>>

RenameBackTrusting(t) ==  \* slip: whatever the error, the content is still staged
  /\ step[t] = "renameBack"
  /\ \/ MoveBack(t) /\ Go(t, "verifyRestored")
     \/ (MoveBack(t) \/ UNCHANGED entryVars) /\ Become(t, "retained", "idle")

(* Of the errors only EEXIST, ENOTEMPTY and EXDEV settle the outcome. *)
RenameBack(t) ==
  /\ step[t] = "renameBack"
  /\ \/ MoveBack(t) /\ Go(t, "verifyRestored")
     \/ UNCHANGED entryVars /\ Become(t, "retained", "idle")
     \/ (MoveBack(t) \/ UNCHANGED entryVars) /\ Become(t, "indeterminate", "idle")

VerifyRestored(t) ==
  /\ step[t] = "verifyRestored"
  /\ source = "renamed"
  /\ Go(t, "restoreSource")
  /\ UNCHANGED entryVars

-----------------------------------------------------------------------------
(* RemoveStagedTree. *)

(* The first pass refuses a tree with a node it would not remove. *)
Preflight(t) ==
  /\ step[t] = "preflight"
  /\ whole \cap Unfit = {}
  /\ Go(t, "removeSource")
  /\ UNCHANGED entryVars

(* A directory goes after what was in it. *)
Removable(n) == n \in left /\ left \cap Beneath[n] = {}

Unlinked(t, n) ==
  /\ Removable(n)
  /\ left' = left \ {n}
  /\ staged' = IF n = Root THEN [staged EXCEPT ![t] = "absent"] ELSE staged
  /\ unsynced' = IF n = Root THEN unsynced \cup {<<t, "staging">>} ELSE unsynced
  /\ UNCHANGED <<source, whole, meddled>>

RemoveEntryLate(t) ==  \* slip: the state changes with the last unlink only
  /\ step[t] = "remove"
  /\ \E n \in left :
       /\ Unlinked(t, n)
       /\ IF n = Root THEN Become(t, "removing", "removedStaging") ELSE Go(t, "remove")

(* The object is "removing" before the first unlink.  An unlink that fails *)
(* may have had its effect.                                                *)
RemoveEntry(t) ==
  /\ step[t] = "remove"
  /\ \E n \in left :
       /\ Unlinked(t, n)
       /\ \/ Become(t, "removing", IF n = Root THEN "removedStaging" ELSE "remove")
          \/ Become(t, "indeterminate", "idle")

-----------------------------------------------------------------------------

(* The state an error leaves, and the steps at which it does. *)
Failures ==
  {<<"none", {"compare"}>>,
   <<"retained", {"verifyMove", "verify", "verifyRestore", "verifyRemoval", "reverify"}>>,
   <<"verified", {"preflight", "removeSource", "removeStaging"}>>,
   <<"indeterminate", {"stageSource", "stageStaging", "verifyRestored", "restoreSource",
                       "restoreStaging", "removedStaging", "removedSource"}>>}

(* Any check can fail, and a cancelled context makes it.  At the removal   *)
(* itself an error before the first effect changes nothing.                *)
Fail(t) ==
  /\ \/ \E f \in Failures : step[t] \in f[2] /\ Become(t, f[1], "idle")
     \/ step[t] = "remove" /\ state[t] = "verified" /\ Go(t, "idle")
     \/ step[t] = "remove" /\ Become(t, "indeterminate", "idle")
  /\ UNCHANGED entryVars

Close(t) ==
  /\ step[t] = "idle"
  /\ state[t] \notin {"none", "closed"}
  /\ Become(t, "closed", "idle")
  /\ UNCHANGED entryVars

-----------------------------------------------------------------------------
(* What else happens. *)

(* The process that holds the object stops. *)
Crash(t) ==
  /\ "crash" \in Environment
  /\ Become(t, "closed", "idle")
  /\ UNCHANGED entryVars

(* Somebody removes or replaces what the source name holds. *)
SourceChange ==
  /\ "source_change" \in Environment
  /\ source' \in {"absent", "other"} \ {source}
  /\ UNCHANGED <<staged, whole, left, unsynced, meddled, state, step>>

StagingChange(t) ==
  /\ "staging_change" \in Environment
  /\ t \notin Authorized
  /\ \E content \in {"absent", "other"} \ {staged[t]} :
       staged' = [staged EXCEPT ![t] = content]
  /\ meddled' = meddled \cup {t}
  /\ UNCHANGED <<source, whole, left, unsynced, state, step>>

Operation(t) ==
  \/ Call(t)
  \/ Compare(t)
  \/ Rename(t)
  \/ VerifyStaged(t)
  \/ Sync(t)
  \/ RenameBack(t)
  \/ VerifyRestored(t)
  \/ Preflight(t)
  \/ RemoveEntry(t)
  \/ Fail(t)
  \/ Close(t)

Next ==
  \/ SourceChange
  \/ \E t \in Tokens : Operation(t) \/ Crash(t) \/ StagingChange(t)

Spec == Init /\ [][Next]_vars

-----------------------------------------------------------------------------

Restoring == {"verifyRestored", "restoreSource", "restoreStaging"}
Removing == {"preflight", "removeSource", "removeStaging", "reverify", "remove"}
Removed == {"removedStaging", "removedSource"}

Steps ==
  {"idle", "compare", "rename", "verifyMove", "stageSource", "stageStaging",
   "verify", "verifyRestore", "renameBack", "verifyRemoval"}
    \cup Restoring \cup Removing \cup Removed

TypeOK ==
  /\ source \in Contents
  /\ staged \in [Tokens -> Contents \ {"planned"}]
  /\ whole \in Trees
  /\ left \subseteq whole
  /\ unsynced \subseteq UNION {DirectoryChanges(t) : t \in Tokens}
  /\ meddled \subseteq Tokens
  /\ state \in [Tokens -> States]
  /\ step \in [Tokens -> Steps]

(* The planned object is at one name, or at none. *)
PlannedIsOnce ==
  /\ \A t \in Tokens : staged[t] = "renamed" => source \notin {"planned", "renamed"}
  /\ \A t, u \in Tokens : staged[t] = "renamed" /\ staged[u] = "renamed" => t = u

(* What the state of an object says. *)
Tells(t) ==
  /\ state[t] = "none" => staged[t] = "absent"
  /\ state[t] = "retained" => staged[t] # "absent"
  /\ state[t] = "verified" /\ step[t] \notin Restoring =>
       staged[t] = "renamed" /\ left = whole
  /\ state[t] \in {"restored", "removed"} => staged[t] = "absent"
  /\ state[t] \in {"verified", "restored", "removed"} /\ step[t] \notin Restoring =>
       unsynced \cap DirectoryChanges(t) = {}

(***************************************************************************)
(* Where nobody else has changed the staged entry, the state of an object  *)
(* tells what became of the content: no object was returned for content    *)
(* that was moved, a verified one is durably staged and whole, a retained  *)
(* one is still there, a restored or removed one is durably gone.          *)
(***************************************************************************)
StateTellsWhere == \A t \in Tokens \ meddled : Tells(t)

(***************************************************************************)
(* Only a tree that was accepted as a whole is unlinked, under an object   *)
(* that excludes others; from the first unlink on no state of that object  *)
(* lets what is left be restored or removed again, and it is nowhere else. *)
(***************************************************************************)
PartialTreesAreFlagged ==
  left # whole =>
    /\ whole \cap Unfit = {}
    /\ source \notin {"planned", "renamed"}
    /\ \E t \in Authorized :
         /\ state[t] \in {"removing", "removed", "indeterminate", "closed"}
         /\ \A u \in Tokens \ {t} : staged[u] # "renamed"

(* The steps of an operation at which its object is in each state. *)
StepFits(t) ==
  /\ state[t] = "none" => step[t] \in {"idle", "compare", "rename"}
  /\ state[t] = "retained" =>
       step[t] \in {"idle", "verifyMove", "stageSource", "stageStaging"}
  /\ state[t] = "verified" =>
       step[t] \in {"idle", "verify", "verifyRestore", "renameBack", "verifyRemoval"}
                     \cup Restoring \cup Removing
  /\ state[t] = "removing" => step[t] \in {"remove"} \cup Removed
  /\ state[t] \in {"removed", "restored", "indeterminate", "closed"} => step[t] = "idle"

(* What each operation relies on at its steps. *)
RelyOn(t) ==
  /\ step[t] \in {"compare", "rename"} => t \in meddled \/ staged[t] = "absent"
  /\ step[t] \in {"stageSource", "stageStaging"} => t \in meddled \/ staged[t] = "renamed"
  /\ step[t] = "stageStaging" => <<t, "source">> \notin unsynced
  /\ step[t] \in Restoring => t \in meddled \/ staged[t] = "absent"
  /\ step[t] = "restoreStaging" => <<t, "source">> \notin unsynced
  /\ step[t] = "verifyRemoval" => t \in Authorized
  /\ step[t] \in Removing =>
       /\ t \in Authorized
       /\ staged[t] = "renamed"
       /\ Root \in left
       /\ step[t] # "preflight" => whole \cap Unfit = {}
  /\ step[t] \in Removed =>
       /\ t \in Authorized
       /\ staged[t] = "absent"
       /\ left = {}
       /\ <<t, "source">> \notin unsynced
  /\ step[t] = "removedSource" => unsynced \cap DirectoryChanges(t) = {}
  /\ state[t] = "removing" => unsynced \cap DirectoryChanges(t) \subseteq {<<t, "staging">>}

StagedInv ==
  /\ TypeOK
  /\ PlannedIsOnce
  /\ meddled \cap Authorized = {}
  /\ StateTellsWhere
  /\ PartialTreesAreFlagged
  /\ \A t \in Tokens : StepFits(t) /\ RelyOn(t)

-----------------------------------------------------------------------------

(***************************************************************************)
(* Once the outcome of a rename or a removal is not known, or the identity *)
(* of the content is not, the program does not touch the entry again: no   *)
(* operation, on this object or another, retries, restores or removes it.  *)
(***************************************************************************)
UncertainEntriesStay ==
  [][\A t \in Tokens :
       state[t] \in {"indeterminate", "retained"} /\ staged'[t] # staged[t] =>
         UNCHANGED <<state, step>>]_vars
=============================================================================
