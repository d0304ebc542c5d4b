------------------------- MODULE StagedObjectProofs -------------------------
(***************************************************************************)
(* StagedInv is inductive, for any tokens, any tree and any environment:   *)
(* the states of the objects tell where the planned content is, and a tree *)
(* that is partly unlinked is never taken for the planned object again.    *)
(***************************************************************************)
EXTENDS StagedObject, TLAPS

(* What one step does to everything but its own object. *)
Apart(t) ==
  /\ \A u \in Tokens \ {t} : state'[u] = state[u] /\ step'[u] = step[u] /\ staged'[u] = staged[u]
  /\ meddled' = meddled /\ whole' = whole

LEMMA BecomeIsApart ==
  ASSUME StagedInv, NEW t \in Tokens, NEW s \in States, NEW n \in Steps, Become(t, s, n)
  PROVE  /\ state' \in [Tokens -> States] /\ step' \in [Tokens -> Steps]
         /\ state'[t] = s /\ step'[t] = n
         /\ \A u \in Tokens \ {t} : state'[u] = state[u] /\ step'[u] = step[u]
BY DEF StagedInv, TypeOK, Become

LEMMA GoIsBecome ==
  ASSUME StagedInv, NEW t \in Tokens, NEW n, Go(t, n)
  PROVE  state[t] \in States /\ Become(t, state[t], n)
BY DEF StagedInv, TypeOK, Go, Become

-----------------------------------------------------------------------------

(* A step that touches no entry needs to be right about its own object. *)
LEMMA StepOnly ==
  ASSUME StagedInv, NEW t \in Tokens, NEW s \in States, NEW n \in Steps,
         Become(t, s, n), UNCHANGED entryVars,
         StepFits(t)', RelyOn(t)', t \notin meddled => Tells(t)',
         state[t] \in {"removing", "removed", "indeterminate", "closed"}
           => s \in {"removing", "removed", "indeterminate", "closed"}
  PROVE  StagedInv'
<1>1. Apart(t) /\ state'[t] = s
  BY BecomeIsApart DEF Apart, entryVars
<1>2. TypeOK' /\ PlannedIsOnce' /\ (meddled \cap Authorized = {})'
  BY BecomeIsApart DEF entryVars, StagedInv, TypeOK, PlannedIsOnce
<1>3. ASSUME NEW u \in Tokens, u # t
      PROVE  StepFits(u)' /\ RelyOn(u)' /\ (u \notin meddled => Tells(u)')
  BY <1>1, <1>3 DEF entryVars, Apart, StagedInv, StateTellsWhere, StepFits, RelyOn, Tells
<1>4. StateTellsWhere' /\ \A u \in Tokens : (StepFits(u) /\ RelyOn(u))'
  BY <1>3 DEF StateTellsWhere, entryVars
<1>5. PartialTreesAreFlagged'
  <2> SUFFICES ASSUME left # whole
               PROVE  PartialTreesAreFlagged'
    BY DEF entryVars, PartialTreesAreFlagged
  <2>1. PICK o \in Authorized :
          /\ state[o] \in {"removing", "removed", "indeterminate", "closed"}
          /\ \A u \in Tokens \ {o} : staged[u] # "renamed"
    BY DEF StagedInv, PartialTreesAreFlagged
  <2>2. o \in Tokens /\ state'[o] \in {"removing", "removed", "indeterminate", "closed"}
    BY <1>1, <2>1, StagedAssumptions DEF Apart
  <2>3. QED
    BY <2>1, <2>2 DEF entryVars, StagedInv, PartialTreesAreFlagged
<1>6. QED
  BY <1>2, <1>4, <1>5 DEF StagedInv

LEMMA CallKeeps ==
  ASSUME StagedInv, NEW t \in Tokens, Call(t)
  PROVE  StagedInv'
<1>1. UNCHANGED entryVars /\ step[t] = "idle" /\ state[t] \in States
  BY DEF Call, StagedInv, TypeOK
<1>2. CASE state[t] = "none" /\ Go(t, "compare")
  <2>1. Become(t, state[t], "compare")
    BY <1>2, GoIsBecome
  <2>2. StepFits(t)' /\ RelyOn(t)' /\ (t \notin meddled => Tells(t)')
    BY <1>1, <1>2, <2>1, BecomeIsApart DEF entryVars, StagedInv, StateTellsWhere, StepFits, RelyOn, Tells, Steps, Restoring, Removing, Removed
  <2>3. QED
    BY <1>1, <2>1, <2>2, StepOnly DEF Steps
<1>3. ASSUME NEW n \in {"verify", "verifyRestore", "verifyRemoval"}, state[t] = "verified", Go(t, n),
             n = "verifyRemoval" => t \in Authorized
      PROVE  StagedInv'
  <2>1. Become(t, state[t], n) /\ n \in Steps
    BY <1>3, GoIsBecome DEF Steps
  <2>2. StepFits(t)' /\ RelyOn(t)' /\ (t \notin meddled => Tells(t)')
    BY <1>1, <1>3, <2>1, BecomeIsApart DEF entryVars, StagedInv, StateTellsWhere, StepFits, RelyOn, Tells, Restoring, Removing, Removed
  <2>3. QED
    BY <1>1, <2>1, <2>2, StepOnly
<1>4. QED
  BY <1>1, <1>2, <1>3 DEF Call, RestorableStates

LEMMA CompareKeeps ==
  ASSUME StagedInv, NEW t \in Tokens, Compare(t)
  PROVE  StagedInv'
<1>1. UNCHANGED entryVars /\ step[t] = "compare" /\ Become(t, state[t], "rename") /\ state[t] \in States
  BY GoIsBecome DEF Compare
<1>2. StepFits(t)' /\ RelyOn(t)' /\ (t \notin meddled => Tells(t)')
  BY <1>1, BecomeIsApart DEF entryVars, StagedInv, StateTellsWhere, StepFits, RelyOn, Tells, Steps, Restoring, Removing, Removed
<1>3. QED
  BY <1>1, <1>2, StepOnly DEF Steps

LEMMA VerifyStagedKeeps ==
  ASSUME StagedInv, NEW t \in Tokens, VerifyStaged(t)
  PROVE  StagedInv'
<1>1. PICK v \in Verifications : step[t] = v[1] /\ staged[t] = "renamed" /\ Go(t, v[2])
                                /\ UNCHANGED entryVars
  BY DEF VerifyStaged
<1>2. v[2] \in Steps /\ Become(t, state[t], v[2]) /\ state[t] \in States
  BY <1>1, GoIsBecome DEF Verifications, Steps, Removing
<1>3. /\ v = <<"verifyMove", "stageSource">> => state[t] = "retained"
      /\ v # <<"verifyMove", "stageSource">> => state[t] = "verified"
  BY <1>1 DEF Verifications, StagedInv, TypeOK, States, StepFits, Restoring, Removing, Removed
<1>4. v[1] = "verifyRemoval" \/ v[1] = "reverify" => t \in Authorized /\ t \notin meddled
  BY <1>1 DEF StagedInv, RelyOn, Removing
<1>5. v[1] = "verifyRemoval" => left = whole /\ Root \in left
  BY <1>1, <1>3, <1>4, StagedAssumptions DEF StagedInv, TypeOK, Trees, StateTellsWhere, Tells, Restoring, Verifications
<1>6. StepFits(t)' /\ RelyOn(t)' /\ (t \notin meddled => Tells(t)')
  <2>1. state'[t] = state[t] /\ step'[t] = v[2]
    BY <1>2, BecomeIsApart
  <2>2. StepFits(t)'
    BY <1>3, <2>1 DEF StepFits, Verifications, Removing
  <2>3. RelyOn(t)'
    BY <1>1, <1>3, <1>4, <1>5, <2>1 DEF entryVars, StagedInv, RelyOn, Verifications, Restoring, Removing, Removed
  <2>4. t \notin meddled => Tells(t)'
    BY <1>1, <1>3, <2>1 DEF entryVars, StagedInv, StateTellsWhere, Tells, Verifications, Restoring
  <2>5. QED
    BY <2>2, <2>3, <2>4
<1>7. QED
  BY <1>1, <1>2, <1>6, StepOnly

LEMMA VerifyRestoredKeeps ==
  ASSUME StagedInv, NEW t \in Tokens, VerifyRestored(t)
  PROVE  StagedInv'
<1>1. /\ UNCHANGED entryVars /\ step[t] = "verifyRestored" /\ Become(t, state[t], "restoreSource") /\ state[t] \in States
      /\ "restoreSource" \in Steps
  BY GoIsBecome DEF VerifyRestored, Steps, Restoring
<1>2. StepFits(t)' /\ RelyOn(t)' /\ (t \notin meddled => Tells(t)')
  BY <1>1, BecomeIsApart DEF entryVars, StagedInv, StateTellsWhere, StepFits, RelyOn, Tells, Restoring, Removing, Removed
<1>3. QED
  BY <1>1, <1>2, StepOnly

LEMMA PreflightKeeps ==
  ASSUME StagedInv, NEW t \in Tokens, Preflight(t)
  PROVE  StagedInv'
<1>1. /\ UNCHANGED entryVars /\ step[t] = "preflight" /\ Become(t, state[t], "removeSource") /\ state[t] \in States
      /\ "removeSource" \in Steps
  BY GoIsBecome DEF Preflight, Steps, Removing
<1>2. StepFits(t)' /\ RelyOn(t)' /\ (t \notin meddled => Tells(t)')
  BY <1>1, BecomeIsApart DEF Preflight, entryVars, StagedInv, StateTellsWhere, StepFits, RelyOn, Tells, Restoring, Removing, Removed
<1>3. QED
  BY <1>1, <1>2, StepOnly

LEMMA FailKeeps ==
  ASSUME StagedInv, NEW t \in Tokens, Fail(t)
  PROVE  StagedInv'
<1>1. UNCHANGED entryVars /\ "idle" \in Steps
  BY DEF Fail, Steps
<1>2. ASSUME NEW s \in {"none", "retained", "verified", "indeterminate"}, Become(t, s, "idle"),
             s = "none" => step[t] = "compare",
             s = "retained" => step[t] \in {"verifyMove", "verify", "verifyRestore", "verifyRemoval", "reverify"},
             s = "verified" => state[t] = "verified" /\ step[t] \notin Restoring,
             s # "indeterminate" => state[t] \notin {"removing", "removed", "indeterminate", "closed"}
      PROVE  StagedInv'
  <2>1. s \in States
    BY DEF States
  <2>2. StepFits(t)'
    BY <1>1, <1>2, <2>1, BecomeIsApart DEF StepFits
  <2>3. RelyOn(t)'
    BY <1>1, <1>2, <2>1, BecomeIsApart DEF RelyOn, Restoring, Removing, Removed, StagedInv, entryVars
  <2>4. t \notin meddled => Tells(t)'
    <3>1. /\ StepFits(t) /\ RelyOn(t)
          /\ t \notin meddled => Tells(t)
          /\ state[t] \in States
      BY DEF StagedInv, TypeOK, StateTellsWhere
    <3>2. state'[t] = s /\ step'[t] = "idle"
      BY <1>1, <1>2, <2>1, BecomeIsApart
    <3>3. UNCHANGED <<staged, left, whole, unsynced, meddled>>
      BY <1>1 DEF entryVars
    <3>4. CASE s = "none"
      BY <1>2, <3>1, <3>2, <3>3, <3>4 DEF StepFits, RelyOn, Tells, States, Restoring
    <3>5. CASE s = "retained"
      BY <1>2, <3>1, <3>2, <3>3, <3>5 DEF StepFits, RelyOn, Tells, States, Restoring, Removing, Removed
    <3>6. CASE s = "verified"
      BY <1>2, <3>1, <3>2, <3>3, <3>6 DEF Tells, Restoring
    <3>7. CASE s = "indeterminate"
      BY <3>2, <3>7 DEF Tells
    <3>8. QED
      BY <1>2, <3>4, <3>5, <3>6, <3>7
  <2>5. QED
    BY <1>1, <1>2, <2>1, <2>2, <2>3, <2>4, StepOnly
<1>3. CASE \E f \in Failures : step[t] \in f[2] /\ Become(t, f[1], "idle")
  <2>1. PICK f \in Failures : step[t] \in f[2] /\ Become(t, f[1], "idle")
    BY <1>3
  <2>2. /\ f[1] \in {"none", "retained", "verified", "indeterminate"}
        /\ f[1] = "none" => step[t] = "compare"
        /\ f[1] = "retained" => step[t] \in {"verifyMove", "verify", "verifyRestore", "verifyRemoval", "reverify"}
        /\ f[1] = "verified" => step[t] \in {"preflight", "removeSource", "removeStaging"}
    BY <2>1 DEF Failures
  <2>3. f[1] # "indeterminate" => state[t] \in {"none", "retained", "verified"}
    BY <2>1, <2>2 DEF StagedInv, TypeOK, StepFits, States, Restoring, Removing, Removed
  <2>4. f[1] = "verified" => state[t] = "verified" /\ step[t] \notin Restoring
    BY <2>2, <2>3 DEF StagedInv, StepFits, Restoring
  <2>5. QED
    BY <1>2, <2>1, <2>2, <2>3, <2>4
<1>4. CASE step[t] = "remove" /\ state[t] = "verified" /\ Go(t, "idle")
  <2>1. Become(t, "verified", "idle")
    BY <1>4, GoIsBecome
  <2>2. QED
    BY <1>2, <1>4, <2>1 DEF Restoring
<1>5. CASE step[t] = "remove" /\ Become(t, "indeterminate", "idle")
  BY <1>2, <1>5
<1>6. QED
  BY <1>3, <1>4, <1>5 DEF Fail

(* A closed object says nothing, however it was closed. *)
LEMMA CloseKeeps ==
  ASSUME StagedInv, NEW t \in Tokens, Close(t) \/ Crash(t)
  PROVE  StagedInv'
<1>1. UNCHANGED entryVars /\ Become(t, "closed", "idle") /\ "closed" \in States /\ "idle" \in Steps
  BY DEF Close, Crash, States, Steps
<1>2. StepFits(t)' /\ RelyOn(t)' /\ Tells(t)'
  BY <1>1, BecomeIsApart DEF StepFits, RelyOn, Tells, Restoring, Removing, Removed
<1>3. QED
  BY <1>1, <1>2, StepOnly

-----------------------------------------------------------------------------
(* The steps that move, sync or remove an entry. *)

(* Who flags a partial tree is named by it; no other object has it.        *)
LEMMA FlagHolder ==
  ASSUME StagedInv, left # whole
  PROVE  \E o \in Tokens :
           /\ o \in Authorized
           /\ state[o] \in {"removing", "removed", "indeterminate", "closed"}
           /\ \A u \in Tokens \ {o} : staged[u] # "renamed"
BY StagedAssumptions DEF StagedInv, PartialTreesAreFlagged

LEMMA MoveInKeeps ==
  ASSUME StagedInv, NEW t \in Tokens, step[t] = "rename", MoveIn(t),
         NEW s \in {"retained", "indeterminate"}, NEW n \in {"verifyMove", "idle"},
         s = "retained" <=> n = "verifyMove", Become(t, s, n)
  PROVE  StagedInv'
<1>1. /\ s \in States /\ n \in Steps /\ state[t] = "none"
      /\ source # "absent" /\ staged[t] = "absent"
  BY DEF States, Steps, MoveIn, StagedInv, TypeOK, StepFits, Restoring, Removing, Removed
<1>2. Apart(t) /\ state'[t] = s /\ step'[t] = n
  BY <1>1, BecomeIsApart DEF Apart, MoveIn, StagedInv, TypeOK
<1>3. /\ staged'[t] = Renamed(source) /\ source' = "absent" /\ left' = left
      /\ staged'[t] \in {"renamed", "other"}
      /\ staged'[t] = "renamed" => source \in {"planned", "renamed"}
  BY <1>1 DEF MoveIn, Renamed, Contents, StagedInv, TypeOK
<1>4. TypeOK'
  <2>1. staged' \in [Tokens -> Contents \ {"planned"}] /\ source' \in Contents
    BY <1>3 DEF MoveIn, Contents, StagedInv, TypeOK
  <2>2. unsynced' \subseteq UNION {DirectoryChanges(u) : u \in Tokens}
    BY DEF MoveIn, StagedInv, TypeOK
  <2>3. QED
    BY <1>1, <2>1, <2>2, BecomeIsApart DEF MoveIn, StagedInv, TypeOK
<1>5. PlannedIsOnce'
  BY <1>2, <1>3 DEF Apart, StagedInv, PlannedIsOnce
<1>6. ASSUME NEW u \in Tokens, u # t
      PROVE  StepFits(u)' /\ RelyOn(u)' /\ (u \notin meddled => Tells(u)')
  <2>1. unsynced' \cap DirectoryChanges(u) = unsynced \cap DirectoryChanges(u)
    BY <1>6 DEF MoveIn, DirectoryChanges
  <2>2. <<u, "source">> \in unsynced' <=> <<u, "source">> \in unsynced
    BY <2>1 DEF DirectoryChanges
  <2>3. /\ state'[u] = state[u] /\ step'[u] = step[u] /\ staged'[u] = staged[u]
        /\ meddled' = meddled /\ whole' = whole /\ left' = left
    BY <1>2, <1>3, <1>6 DEF Apart
  <2>4. QED
    BY <2>1, <2>2, <2>3 DEF StagedInv, StateTellsWhere, StepFits, RelyOn, Tells
<1>7. StepFits(t)' /\ RelyOn(t)' /\ Tells(t)'
  BY <1>2, <1>3 DEF StepFits, RelyOn, Tells, Restoring, Removing, Removed
<1>8. StateTellsWhere' /\ \A u \in Tokens : (StepFits(u) /\ RelyOn(u))'
  BY <1>2, <1>6, <1>7 DEF StateTellsWhere, Apart
<1>9. PartialTreesAreFlagged'
  <2> SUFFICES ASSUME left # whole
               PROVE  PartialTreesAreFlagged'
    BY <1>2, <1>3 DEF Apart, PartialTreesAreFlagged
  <2>1. PICK o \in Tokens :
           /\ o \in Authorized
           /\ state[o] \in {"removing", "removed", "indeterminate", "closed"}
           /\ \A u \in Tokens \ {o} : staged[u] # "renamed"
    BY FlagHolder
  <2>2. source \notin {"planned", "renamed"} /\ whole \cap Unfit = {} /\ o # t
    BY <1>1, <2>1 DEF StagedInv, PartialTreesAreFlagged
  <2>3. QED
    BY <1>2, <1>3, <2>1, <2>2 DEF Apart, PartialTreesAreFlagged
<1>10. QED
  BY <1>2, <1>4, <1>5, <1>8, <1>9 DEF StagedInv, Apart

(* A rename without effect, whatever is said of it. *)
LEMMA FailedRename ==
  ASSUME StagedInv, NEW t \in Tokens, step[t] = "rename" \/ step[t] = "renameBack",
         UNCHANGED entryVars,
         NEW s \in {"none", "retained", "indeterminate"},
         s = "none" => state[t] = "none",
         s = "retained" => state[t] = "verified" /\ step[t] = "renameBack",
         state[t] \in {"none", "verified"},
         Become(t, s, "idle")
  PROVE  StagedInv'
<1>1. s \in States /\ "idle" \in Steps
  BY DEF States, Steps
<1>2. StepFits(t)' /\ RelyOn(t)'
  BY <1>1, BecomeIsApart DEF StepFits, RelyOn, Restoring, Removing, Removed
<1>3. t \notin meddled => Tells(t)'
  BY <1>1, BecomeIsApart DEF entryVars, StagedInv, StateTellsWhere, Tells, Restoring
<1>4. QED
  BY <1>1, <1>2, <1>3, StepOnly

LEMMA RenameKeeps ==
  ASSUME StagedInv, NEW t \in Tokens, Rename(t)
  PROVE  StagedInv'
<1>1. step[t] = "rename" /\ state[t] = "none"
  BY DEF Rename, StagedInv, TypeOK, States, StepFits, Restoring, Removing, Removed
<1>2. CASE MoveIn(t) /\ Become(t, "retained", "verifyMove")
  BY <1>1, <1>2, MoveInKeeps
<1>3. CASE MoveIn(t) /\ Become(t, "indeterminate", "idle")
  BY <1>1, <1>3, MoveInKeeps
<1>4. CASE UNCHANGED entryVars /\ Become(t, "indeterminate", "idle")
  BY <1>1, <1>4, FailedRename
<1>5. CASE UNCHANGED entryVars /\ Go(t, "idle")
  BY <1>1, <1>5, GoIsBecome, FailedRename
<1>6. QED
  BY <1>2, <1>3, <1>4, <1>5 DEF Rename

LEMMA MoveBackKeeps ==
  ASSUME StagedInv, NEW t \in Tokens, step[t] = "renameBack", MoveBack(t),
         NEW s \in {"verified", "indeterminate"}, NEW n \in {"verifyRestored", "idle"},
         s = "verified" <=> n = "verifyRestored", Become(t, s, n)
  PROVE  StagedInv'
<1>1. /\ s \in States /\ n \in Steps /\ state[t] = "verified"
      /\ source = "absent" /\ staged[t] # "absent"
  BY DEF States, Steps, MoveBack, StagedInv, TypeOK, StepFits, Restoring, Removing, Removed
<1>2. Apart(t) /\ state'[t] = s /\ step'[t] = n
  BY <1>1, BecomeIsApart DEF Apart, MoveBack, StagedInv, TypeOK
<1>3. /\ staged'[t] = "absent" /\ source' = staged[t] /\ left' = left
  BY <1>1 DEF MoveBack, Contents, StagedInv, TypeOK
<1>4. TypeOK'
  <2>1. staged' \in [Tokens -> Contents \ {"planned"}] /\ source' \in Contents
    BY <1>3 DEF MoveBack, Contents, StagedInv, TypeOK
  <2>2. unsynced' \subseteq UNION {DirectoryChanges(u) : u \in Tokens}
    BY DEF MoveBack, StagedInv, TypeOK
  <2>3. QED
    BY <1>1, <2>1, <2>2, BecomeIsApart DEF MoveBack, StagedInv, TypeOK
<1>5. PlannedIsOnce'
  BY <1>2, <1>3 DEF Apart, StagedInv, TypeOK, Contents, PlannedIsOnce
<1>6. ASSUME NEW u \in Tokens, u # t
      PROVE  StepFits(u)' /\ RelyOn(u)' /\ (u \notin meddled => Tells(u)')
  <2>1. unsynced' \cap DirectoryChanges(u) = unsynced \cap DirectoryChanges(u)
    BY <1>6 DEF MoveBack, DirectoryChanges
  <2>2. <<u, "source">> \in unsynced' <=> <<u, "source">> \in unsynced
    BY <2>1 DEF DirectoryChanges
  <2>3. /\ state'[u] = state[u] /\ step'[u] = step[u] /\ staged'[u] = staged[u]
        /\ meddled' = meddled /\ whole' = whole /\ left' = left
    BY <1>2, <1>3, <1>6 DEF Apart
  <2>4. QED
    BY <2>1, <2>2, <2>3 DEF StagedInv, StateTellsWhere, StepFits, RelyOn, Tells
<1>7. StepFits(t)' /\ RelyOn(t)' /\ Tells(t)'
  BY <1>2, <1>3 DEF StepFits, RelyOn, Tells, Restoring, Removing, Removed
<1>8. StateTellsWhere' /\ \A u \in Tokens : (StepFits(u) /\ RelyOn(u))'
  BY <1>2, <1>6, <1>7 DEF StateTellsWhere, Apart
<1>9. PartialTreesAreFlagged'
  <2> SUFFICES ASSUME left # whole
               PROVE  PartialTreesAreFlagged'
    BY <1>2, <1>3 DEF Apart, PartialTreesAreFlagged
  <2>1. PICK o \in Tokens :
           /\ o \in Authorized
           /\ state[o] \in {"removing", "removed", "indeterminate", "closed"}
           /\ \A u \in Tokens \ {o} : staged[u] # "renamed"
    BY FlagHolder
  <2>2. source' \notin {"planned", "renamed"} /\ whole \cap Unfit = {} /\ o # t
    BY <1>1, <1>3, <2>1 DEF TypeOK, StagedInv, PartialTreesAreFlagged
  <2>3. QED
    BY <1>2, <1>3, <2>1, <2>2 DEF Apart, PartialTreesAreFlagged
<1>10. QED
  BY <1>2, <1>4, <1>5, <1>8, <1>9 DEF StagedInv, Apart

LEMMA RenameBackKeeps ==
  ASSUME StagedInv, NEW t \in Tokens, RenameBack(t)
  PROVE  StagedInv'
<1>1. step[t] = "renameBack" /\ state[t] = "verified"
  BY DEF RenameBack, StagedInv, TypeOK, States, StepFits, Restoring, Removing, Removed
<1>2. CASE MoveBack(t) /\ Go(t, "verifyRestored")
  BY <1>1, <1>2, GoIsBecome, MoveBackKeeps
<1>3. CASE MoveBack(t) /\ Become(t, "indeterminate", "idle")
  BY <1>1, <1>3, MoveBackKeeps
<1>4. CASE UNCHANGED entryVars /\ Become(t, "retained", "idle")
  BY <1>1, <1>4, FailedRename
<1>5. CASE UNCHANGED entryVars /\ Become(t, "indeterminate", "idle")
  BY <1>1, <1>5, FailedRename
<1>6. QED
  BY <1>2, <1>3, <1>4, <1>5 DEF RenameBack

LEMMA SyncKeeps ==
  ASSUME StagedInv, NEW t \in Tokens, Sync(t)
  PROVE  StagedInv'
<1>1. PICK y \in Syncs : /\ step[t] = y.at
                         /\ unsynced' = {u \in unsynced : u[2] # y.directory}
                         /\ Become(t, y.state, y.next)
                         /\ UNCHANGED <<source, staged, whole, left, meddled>>
  BY DEF Sync
<1> PICK a, d, s, n : a = y.at /\ d = y.directory /\ s = y.state /\ n = y.next
  OBVIOUS
<1>2. \/ a = "stageSource" /\ d = "source" /\ n = "stageStaging" /\ s = "retained"
      \/ a = "stageStaging" /\ d = "staging" /\ n = "idle" /\ s = "verified"
      \/ a = "restoreSource" /\ d = "source" /\ n = "restoreStaging" /\ s = "verified"
      \/ a = "restoreStaging" /\ d = "staging" /\ n = "idle" /\ s = "restored"
      \/ a = "removeSource" /\ d = "source" /\ n = "removeStaging" /\ s = "verified"
      \/ a = "removeStaging" /\ d = "staging" /\ n = "reverify" /\ s = "verified"
      \/ a = "removedStaging" /\ d = "staging" /\ n = "removedSource" /\ s = "removing"
      \/ a = "removedSource" /\ d = "source" /\ n = "idle" /\ s = "removed"
  BY DEF Syncs
<1>3. s \in States /\ n \in Steps
  BY <1>2 DEF States, Steps, Restoring, Removing, Removed
<1>4. Apart(t) /\ state'[t] = s /\ step'[t] = n /\ staged' = staged /\ left' = left
  BY <1>1, <1>3, BecomeIsApart DEF Apart
<1>5. TypeOK' /\ PlannedIsOnce' /\ (meddled \cap Authorized = {})'
  BY <1>1, <1>3, BecomeIsApart DEF StagedInv, TypeOK, PlannedIsOnce
<1>6. \A u \in Tokens :
        /\ unsynced' \cap DirectoryChanges(u) \subseteq unsynced \cap DirectoryChanges(u)
        /\ <<u, "source">> \in unsynced' <=> <<u, "source">> \in unsynced /\ d # "source"
        /\ <<u, "staging">> \in unsynced' <=> <<u, "staging">> \in unsynced /\ d # "staging"
  BY <1>1 DEF DirectoryChanges
<1>7. ASSUME NEW u \in Tokens, u # t
      PROVE  StepFits(u)' /\ RelyOn(u)' /\ (u \notin meddled => Tells(u)')
  <2>1. /\ state'[u] = state[u] /\ step'[u] = step[u] /\ staged'[u] = staged[u]
        /\ meddled' = meddled /\ whole' = whole /\ left' = left
    BY <1>4, <1>7 DEF Apart
  <2>2. QED
    BY <1>6, <2>1 DEF StagedInv, StateTellsWhere, StepFits, RelyOn, Tells
<1>8. /\ a \in {"stageSource", "stageStaging"} => state[t] = "retained"
      /\ a \in {"restoreSource", "restoreStaging", "removeSource", "removeStaging"} => state[t] = "verified"
      /\ a \in {"removedStaging", "removedSource"} => state[t] = "removing"
  BY <1>1 DEF StagedInv, TypeOK, States, StepFits, Restoring, Removing, Removed
<1>9. StepFits(t)'
  BY <1>2, <1>4 DEF StepFits, Restoring, Removing, Removed
<1>10. unsynced' \cap DirectoryChanges(t) =
         {c \in unsynced \cap DirectoryChanges(t) : c[2] # d}
  BY <1>1
<1>11. /\ a \in {"stageStaging", "restoreStaging"} => unsynced' \cap DirectoryChanges(t) = {}
       /\ a \in {"removeSource", "removeStaging", "removedStaging", "removedSource"}
            => unsynced' \cap DirectoryChanges(t) = {}
  <2>1. a \in {"stageStaging", "restoreStaging", "removedStaging"} => <<t, "source">> \notin unsynced
    BY <1>1 DEF StagedInv, RelyOn, Removed
  <2>2. a \in {"removeSource", "removeStaging"} => unsynced \cap DirectoryChanges(t) = {}
    BY <1>1, <1>8 DEF StagedInv, RelyOn, Removing, StateTellsWhere, Tells, Restoring
  <2>3. a = "removedSource" => unsynced \cap DirectoryChanges(t) = {}
    BY <1>1 DEF StagedInv, RelyOn
  <2>4. QED
    BY <1>2, <1>6, <2>1, <2>2, <2>3 DEF DirectoryChanges
<1>12. RelyOn(t)'
  BY <1>1, <1>2, <1>4, <1>6, <1>11 DEF StagedInv, RelyOn, Restoring, Removing, Removed, Apart
<1>13. t \notin meddled => Tells(t)'
  <2>1. a = "stageStaging" /\ t \notin meddled => staged[t] = "renamed" /\ left = whole
    BY <1>1, <1>8, FlagHolder DEF StagedInv, RelyOn
  <2>2. QED
    BY <1>1, <1>2, <1>4, <1>8, <1>11, <2>1 DEF StagedInv, StateTellsWhere, RelyOn, Tells, Restoring, Removing, Removed
<1>14. PartialTreesAreFlagged'
  <2> SUFFICES ASSUME left # whole
               PROVE  PartialTreesAreFlagged'
    BY <1>1 DEF PartialTreesAreFlagged
  <2>1. PICK o \in Tokens :
           /\ o \in Authorized
           /\ state[o] \in {"removing", "removed", "indeterminate", "closed"}
           /\ \A u \in Tokens \ {o} : staged[u] # "renamed"
    BY FlagHolder
  <2>2. o = t => s \in {"removing", "removed"}
    BY <1>2, <1>8, <2>1
  <2>3. state'[o] \in {"removing", "removed", "indeterminate", "closed"}
    BY <1>4, <2>1, <2>2 DEF Apart
  <2>4. QED
    BY <1>1, <2>1, <2>3 DEF StagedInv, PartialTreesAreFlagged
<1>15. QED
  BY <1>1, <1>5, <1>7, <1>9, <1>12, <1>13, <1>14 DEF StagedInv, StateTellsWhere

LEMMA RemoveEntryKeeps ==
  ASSUME StagedInv, NEW t \in Tokens, RemoveEntry(t)
  PROVE  StagedInv'
<1>1. PICK m \in left :
        /\ Unlinked(t, m)
        /\ \/ Become(t, "removing", IF m = Root THEN "removedStaging" ELSE "remove")
           \/ Become(t, "indeterminate", "idle")
  BY DEF RemoveEntry
<1>2. PICK s, n : /\ Become(t, s, n)
                  /\ \/ s = "removing" /\ m = Root /\ n = "removedStaging"
                     \/ s = "removing" /\ m # Root /\ n = "remove"
                     \/ s = "indeterminate" /\ n = "idle"
  BY <1>1
<1>3. /\ s \in States /\ n \in Steps /\ state[t] \in {"verified", "removing"} /\ step[t] = "remove"
      /\ t \in Authorized /\ t \notin meddled /\ staged[t] = "renamed" /\ Root \in left
      /\ whole \cap Unfit = {}
  BY <1>2 DEF RemoveEntry, States, Steps, StagedInv, TypeOK, StepFits, RelyOn, Restoring, Removing, Removed
<1>4. Apart(t) /\ state'[t] = s /\ step'[t] = n /\ source' = source
  BY <1>1, <1>2, <1>3, BecomeIsApart DEF Apart, Unlinked, StagedInv, TypeOK
<1>5. /\ left' = left \ {m}
      /\ m # Root => staged' = staged /\ unsynced' = unsynced
      /\ m = Root => staged'[t] = "absent" /\ unsynced' = unsynced \cup {<<t, "staging">>}
  BY <1>1 DEF Unlinked, StagedInv, TypeOK
<1>6. m = Root => left' = {}
  BY <1>1, <1>5, StagedAssumptions DEF Unlinked, Removable, StagedInv, TypeOK, Trees
<1>7. m # Root => Root \in left'
  BY <1>3, <1>5
<1>8. TypeOK'
  <2>1. staged' \in [Tokens -> Contents \ {"planned"}]
    BY <1>1 DEF Unlinked, Contents, StagedInv, TypeOK
  <2>2. unsynced' \subseteq UNION {DirectoryChanges(u) : u \in Tokens}
    BY <1>5 DEF DirectoryChanges, StagedInv, TypeOK
  <2>3. QED
    BY <1>1, <1>2, <1>3, <1>4, <1>5, <2>1, <2>2, BecomeIsApart DEF Unlinked, StagedInv, TypeOK
<1>9. PlannedIsOnce'
  BY <1>4, <1>5 DEF Apart, StagedInv, PlannedIsOnce
<1>10. /\ \A u \in Tokens \ {t} : staged[u] # "renamed"
       /\ source \notin {"planned", "renamed"}
  BY <1>3 DEF StagedInv, PlannedIsOnce
<1>11. ASSUME NEW u \in Tokens, u # t
       PROVE  StepFits(u)' /\ RelyOn(u)' /\ (u \notin meddled => Tells(u)')
  <2>1. unsynced' \cap DirectoryChanges(u) = unsynced \cap DirectoryChanges(u)
    BY <1>5, <1>11 DEF DirectoryChanges
  <2>2. <<u, "source">> \in unsynced' <=> <<u, "source">> \in unsynced
    BY <2>1 DEF DirectoryChanges
  <2>3. /\ state'[u] = state[u] /\ step'[u] = step[u] /\ staged'[u] = staged[u]
        /\ meddled' = meddled /\ whole' = whole /\ staged[u] # "renamed"
    BY <1>4, <1>10, <1>11 DEF Apart
  <2>4. left = {} => left' = {}
    BY <1>5
  <2>5. QED
    BY <2>1, <2>2, <2>3, <2>4 DEF StagedInv, StateTellsWhere, StepFits, RelyOn, Tells, Removing
<1>12. /\ <<t, "source">> \notin unsynced
       /\ unsynced \cap DirectoryChanges(t) \subseteq {<<t, "staging">>}
  BY <1>3 DEF StagedInv, StateTellsWhere, RelyOn, Tells, Restoring, DirectoryChanges
<1>13. StepFits(t)'
  BY <1>2, <1>4 DEF StepFits, Removed
<1>14. RelyOn(t)'
  <2>1. /\ <<t, "source">> \notin unsynced'
        /\ unsynced' \cap DirectoryChanges(t) \subseteq {<<t, "staging">>}
    BY <1>5, <1>12
  <2>2. /\ whole' \cap Unfit = {}
        /\ m # Root => staged'[t] = "renamed"
    BY <1>3, <1>4, <1>5 DEF Apart
  <2>3. QED
    BY <1>2, <1>3, <1>4, <1>5, <1>6, <1>7, <2>1, <2>2 DEF RelyOn, Restoring, Removing, Removed
<1>15. Tells(t)'
  BY <1>2, <1>4 DEF Tells
<1>16. PartialTreesAreFlagged'
  <2>1. /\ state'[t] \in {"removing", "removed", "indeterminate", "closed"}
        /\ source' \notin {"planned", "renamed"} /\ whole' \cap Unfit = {}
        /\ \A u \in Tokens \ {t} : staged'[u] # "renamed"
    BY <1>2, <1>3, <1>4, <1>10 DEF Apart
  <2>2. QED
    BY <1>3, <2>1 DEF PartialTreesAreFlagged
<1>17. QED
  BY <1>4, <1>8, <1>9, <1>11, <1>13, <1>14, <1>15, <1>16 DEF StagedInv, StateTellsWhere, Apart

-----------------------------------------------------------------------------
(* What others do. *)

LEMMA SourceChangeKeeps ==
  ASSUME StagedInv, SourceChange
  PROVE  StagedInv'
<1>1. source' \in {"absent", "other"}
  BY DEF SourceChange
<1>2. TypeOK' /\ PlannedIsOnce' /\ (meddled \cap Authorized = {})'
  BY <1>1 DEF SourceChange, Contents, StagedInv, TypeOK, PlannedIsOnce
<1>3. StateTellsWhere' /\ \A t \in Tokens : (StepFits(t) /\ RelyOn(t))'
  BY DEF SourceChange, StagedInv, StateTellsWhere, Tells, StepFits, RelyOn
<1>4. PartialTreesAreFlagged'
  BY <1>1 DEF SourceChange, StagedInv, PartialTreesAreFlagged
<1>5. QED
  BY <1>2, <1>3, <1>4 DEF StagedInv

LEMMA StagingChangeKeeps ==
  ASSUME StagedInv, NEW t \in Tokens, StagingChange(t)
  PROVE  StagedInv'
<1>1. PICK x \in {"absent", "other"} : staged' = [staged EXCEPT ![t] = x]
  BY DEF StagingChange
<1>2. /\ staged'[t] \in {"absent", "other"} /\ meddled' = meddled \cup {t}
      /\ t \notin Authorized
      /\ \A u \in Tokens \ {t} : staged'[u] = staged[u]
      /\ UNCHANGED <<source, whole, left, unsynced, state, step>>
  BY <1>1 DEF StagingChange, StagedInv, TypeOK
<1>3. TypeOK' /\ PlannedIsOnce' /\ (meddled \cap Authorized = {})'
  BY <1>1, <1>2 DEF Contents, StagedInv, TypeOK, PlannedIsOnce
<1>4. ASSUME NEW u \in Tokens, u # t
      PROVE  StepFits(u)' /\ RelyOn(u)' /\ (u \notin meddled => Tells(u)')
  BY <1>2, <1>4 DEF StagedInv, StateTellsWhere, Tells, StepFits, RelyOn
<1>5. StepFits(t)' /\ RelyOn(t)'
  BY <1>2 DEF StagedInv, StepFits, RelyOn
<1>6. PartialTreesAreFlagged'
  BY <1>2 DEF StagedInv, PartialTreesAreFlagged
<1>7. QED
  BY <1>2, <1>3, <1>4, <1>5, <1>6 DEF StagedInv, StateTellsWhere

-----------------------------------------------------------------------------

LEMMA InitKeeps == Init => StagedInv
<1> SUFFICES ASSUME Init
             PROVE  StagedInv
  OBVIOUS
<1>1. TypeOK
  BY DEF Init, TypeOK, Contents, States, Steps
<1>2. QED
  BY <1>1 DEF Init, StagedInv, PlannedIsOnce, StateTellsWhere, Tells, PartialTreesAreFlagged,
              StepFits, RelyOn, Restoring, Removing, Removed

LEMMA NextKeeps == StagedInv /\ [Next]_vars => StagedInv'
<1> SUFFICES ASSUME StagedInv, [Next]_vars
             PROVE  StagedInv'
  OBVIOUS
<1>1. CASE SourceChange
  BY <1>1, SourceChangeKeeps
<1>2. ASSUME NEW t \in Tokens, Operation(t)
      PROVE  StagedInv'
  <2>1. CASE Call(t) \/ Compare(t) \/ VerifyStaged(t)
    BY <2>1, CallKeeps, CompareKeeps, VerifyStagedKeeps
  <2>2. CASE VerifyRestored(t) \/ Preflight(t) \/ Fail(t) \/ Close(t)
    BY <2>2, VerifyRestoredKeeps, PreflightKeeps, FailKeeps, CloseKeeps
  <2>3. CASE Rename(t) \/ Sync(t) \/ RenameBack(t) \/ RemoveEntry(t)
    BY <2>3, RenameKeeps, SyncKeeps, RenameBackKeeps, RemoveEntryKeeps
  <2>4. QED
    BY <1>2, <2>1, <2>2, <2>3 DEF Operation
<1>3. ASSUME NEW t \in Tokens, Crash(t) \/ StagingChange(t)
      PROVE  StagedInv'
  BY <1>3, CloseKeeps, StagingChangeKeeps
<1>4. CASE UNCHANGED vars
  BY <1>4 DEF vars, StagedInv, TypeOK, PlannedIsOnce, StateTellsWhere, Tells,
              PartialTreesAreFlagged, StepFits, RelyOn
<1>5. QED
  BY <1>1, <1>2, <1>3, <1>4 DEF Next

(* What each object relies on at every step, and what its state says, hold *)
(* in every reachable state.                                               *)
THEOREM StagedInvariantHolds == Spec => []StagedInv
BY InitKeeps, NextKeeps, PTL DEF Spec

(* An object's state tells what became of the content that stageNoReplace, *)
(* restoreNoReplace and removeStagedTree handled, and that it is durable.  *)
THEOREM StatesAreTrue == Spec => []StateTellsWhere
<1>1. StagedInv => StateTellsWhere
  BY DEF StagedInv
<1>2. QED
  BY <1>1, StagedInvariantHolds, PTL

(* A partly removed tree is flagged by the one object that removes it, and *)
(* is neither restored nor staged again.                                   *)
THEOREM PartialTreesStayFlagged == Spec => []PartialTreesAreFlagged
<1>1. StagedInv => PartialTreesAreFlagged
  BY DEF StagedInv
<1>2. QED
  BY <1>1, StagedInvariantHolds, PTL

(* No operation touches an entry whose fate or identity is not known.      *)
THEOREM UncertainEntriesAreLeft == Spec => UncertainEntriesStay
<1>1. ASSUME StagedInv, [Next]_vars, NEW t \in Tokens,
             state[t] \in {"indeterminate", "retained"}, staged'[t] # staged[t]
      PROVE  UNCHANGED <<state, step>>
  <2>1. /\ step[t] \notin {"rename", "renameBack", "remove"}
        /\ staged \in [Tokens -> Contents \ {"planned"}]
    BY <1>1 DEF StagedInv, TypeOK, StepFits
  <2>2. ASSUME NEW u \in Tokens, Operation(u) \/ Crash(u)
        PROVE  FALSE
    <3>1. CASE u # t
      BY <1>1, <2>1, <2>2, <3>1 DEF Operation, Crash, Call, Compare, Rename, MoveIn, VerifyStaged, Sync, RenameBack,
         MoveBack, VerifyRestored, Preflight, RemoveEntry, Unlinked, Fail, Close, entryVars
    <3>2. CASE u = t
      BY <1>1, <2>1, <2>2, <3>2 DEF Operation, Crash, Call, Compare, Rename, VerifyStaged, Sync, RenameBack,
         VerifyRestored, Preflight, RemoveEntry, Fail, Close, entryVars
    <3>3. QED
      BY <3>1, <3>2
  <2>3. QED
    BY <1>1, <2>2 DEF Next, SourceChange, StagingChange, vars
<1>2. StagedInv /\ [Next]_vars =>
        [\A t \in Tokens :
           state[t] \in {"indeterminate", "retained"} /\ staged'[t] # staged[t] =>
             UNCHANGED <<state, step>>]_vars
  BY <1>1
<1>3. QED
  BY <1>2, StagedInvariantHolds, PTL DEF Spec, UncertainEntriesStay
=============================================================================
