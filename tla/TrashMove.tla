----------------------------- MODULE TrashMove -----------------------------
(***************************************************************************)
(* Moving content into the Trash and reconciling what was interrupted:     *)
(* internal/trash (MoveToTrash and its two reconcilers) over the recovery  *)
(* ledger and the descriptor-rooted operations of internal/linuxfs.        *)
(*                                                                         *)
(* The ledger is the one of FactLedger, which RecoveryLedger implements.   *)
(* A call that appends a fact may also fail without appending it, or       *)
(* append it and report a failure all the same.                            *)
(*                                                                         *)
(* The filesystem is three kinds of names: the source names, and for each  *)
(* token the content files/<token> and the metadata info/<token>.          *)
(***************************************************************************)
EXTENDS RecoveryFacts

CONSTANTS
  Callers,      \* the processes and goroutines that move or reconcile
  Sources,      \* the names of planned Trash actions
  Tokens,       \* reservation tokens
  Environment,  \* what else may happen, a subset of Disturbances
  NoSource, NoToken

Disturbances == {"crash", "power_loss", "source_change", "trash_change"}

ASSUME TrashAssumptions ==
  /\ Environment \subseteq Disturbances
  /\ NoSource \notin Sources
  /\ NoToken \notin Tokens

VARIABLES
  fact,      \* the last durable fact of each reservation, or NoFact
  source,    \* the source each reservation binds
  at,        \* what each source name holds
  files,     \* what files/<token> holds
  info,      \* what info/<token>.trashinfo holds
  volatile,  \* the effects a power loss may still undo
  touched,   \* the tokens whose Trash entries somebody else has changed
  pc,        \* where each caller is
  target,    \* the source a caller is to move
  ticket     \* the recovery a caller works on

ledgerVars == <<fact, source>>
namespaceVars == <<at, files, info, volatile, touched>>
callerVars == <<pc, target, ticket>>
vars == <<fact, source, at, files, info, volatile, touched, pc, target, ticket>>

-----------------------------------------------------------------------------

(* The object whose identity the plan recorded, another object, or no name. *)
Contents == {"planned", "other", "none"}

(* A damaged record does not parse, or does not bind the reserved source.   *)
InfoStates == {"absent", "damaged", "whole"}

Effects == {"info", "move"} \X Tokens

(* The recovery ledger; every reservation of this package is for the Trash. *)
Ledger == INSTANCE FactLedger WITH destination <- [t \in Tokens |-> "trash"]

(***************************************************************************)
(* Where a caller records a fact: which one, and where it goes on when the *)
(* ledger confirms it.                                                     *)
(***************************************************************************)
Recording ==
  [ dispatchMetadata |-> [new |-> Fact("metadata_dispatch_recorded"), next |-> "write"],
    metadataWritten  |-> [new |-> Fact("metadata_verified"), next |-> "select"],
    metadataUnsure   |-> [new |-> Fact("metadata_indeterminate"), next |-> "idle"],
    notSelected      |-> [new |-> Resolution("not_applied", "retained"), next |-> "idle"],
    dispatchMove     |-> [new |-> Fact("move_dispatch_recorded"), next |-> "check"],
    moved            |-> [new |-> Fact("move_verified"), next |-> "idle"],
    moveUnsure       |-> [new |-> Fact("move_indeterminate"), next |-> "idle"],
    notApplied       |-> [new |-> Fact("move_indeterminate"), next |-> "cancelMove"],
    cancelMove       |-> [new |-> Resolution("not_applied", "none"), next |-> "idle"],
    metadataAbsent   |-> [new |-> Resolution("not_applied", "absent"), next |-> "idle"],
    metadataRetained |-> [new |-> Resolution("not_applied", "retained"), next |-> "idle"],
    contentRetained  |-> [new |-> Resolution("move_verified", "none"), next |-> "idle"] ]

(* The steps of linuxfs.PublishTrashInfoDurable and of                      *)
(* linuxfs.MovePublishedTrashNoReplace.                                     *)
WriteSteps == {"write", "complete", "syncInfo"}
MoveSteps == {"check", "rename", "verify", "syncMove", "reprove"}

(* The probes of the two reconcilers, in order. *)
ProbeSteps ==
  {"probeMetadata", "metadataThere", "sourceGone", "contentThere", "sourceStillGone",
   "metadataStillThere"}

Steps ==
  {"idle", "validated", "select"} \cup DOMAIN Recording \cup WriteSteps \cup MoveSteps
    \cup ProbeSteps

Init ==
  /\ fact = [t \in Tokens |-> NoFact]
  /\ source = [t \in Tokens |-> NoSource]
  /\ at = [s \in Sources |-> "planned"]
  /\ files = [t \in Tokens |-> "none"]
  /\ info = [t \in Tokens |-> "absent"]
  /\ volatile = {}
  /\ touched = {}
  /\ pc = [c \in Callers |-> "idle"]
  /\ target = [c \in Callers |-> NoSource]
  /\ ticket = [c \in Callers |-> NoToken]

-----------------------------------------------------------------------------

Go(c, step) == pc' = [pc EXCEPT ![c] = step] /\ UNCHANGED <<target, ticket>>

(* The call returns, or its process stops. *)
Stop(c) ==
  /\ pc' = [pc EXCEPT ![c] = "idle"]
  /\ target' = [target EXCEPT ![c] = NoSource]
  /\ ticket' = [ticket EXCEPT ![c] = NoToken]

Continue(c, step) == IF step = "idle" THEN Stop(c) ELSE Go(c, step)

(***************************************************************************)
(* A call of the ledger that appends: confirmed, appended and yet reported *)
(* as failed, or failed.                                                   *)
(***************************************************************************)
Record(c) ==
  LET r == Recording[pc[c]]
      t == ticket[c]
  IN  /\ pc[c] \in DOMAIN Recording
      /\ \/ Ledger!Advance(t, r.new) /\ (Continue(c, r.next) \/ Stop(c))
         \/ UNCHANGED ledgerVars /\ Stop(c)
      /\ UNCHANGED namespaceVars

-----------------------------------------------------------------------------
(* MoveToTrash. *)

(* newTrashMoveRequest: the source still has the planned identity. *)
Validate(c, s) ==
  /\ pc[c] = "idle"
  /\ at[s] = "planned"
  /\ pc' = [pc EXCEPT ![c] = "validated"]
  /\ target' = [target EXCEPT ![c] = s]
  /\ UNCHANGED <<ticket, ledgerVars, namespaceVars>>

(* The reservation is confirmed, or made and yet reported as failed. *)
Reserve(c, t) ==
  /\ pc[c] = "validated"
  /\ Ledger!Reserve(t, target[c], "trash")
  /\ \/ /\ pc' = [pc EXCEPT ![c] = "dispatchMetadata"]
        /\ ticket' = [ticket EXCEPT ![c] = t]
        /\ UNCHANGED target
     \/ Stop(c)
  /\ UNCHANGED namespaceVars

(* WriteTrashInfoDurable: nothing is created when a check before O_EXCL, or *)
(* O_EXCL itself, fails.                                                    *)
CreateInfo(c) ==
  LET t == ticket[c] IN
  /\ pc[c] = "write"
  /\ \/ /\ info[t] = "absent"
        /\ info' = [info EXCEPT ![t] = "damaged"]
        /\ volatile' = volatile \cup {<<"info", t>>}
        /\ Go(c, "complete")
     \/ UNCHANGED <<info, volatile>> /\ Go(c, "metadataUnsure")
  /\ UNCHANGED <<ledgerVars, at, files, touched>>

(* The record may have been unlinked meanwhile: then nothing is left of it. *)
CompleteInfo(c) ==
  LET t == ticket[c] IN
  /\ pc[c] = "complete"
  /\ \/ /\ info' = [info EXCEPT ![t] = IF @ = "damaged" THEN "whole" ELSE @]
        /\ Go(c, "syncInfo")
     \/ UNCHANGED info /\ Go(c, "metadataUnsure")
  /\ UNCHANGED <<ledgerVars, at, files, volatile, touched>>

SyncInfoUnsynced(c) ==  \* slip: only the file is synced, not its directory
  /\ pc[c] = "syncInfo"
  /\ info[ticket[c]] = "whole" /\ Go(c, "metadataWritten")
  /\ UNCHANGED <<ledgerVars, namespaceVars>>

(* The file and the directory are synced, and the name is verified after.  *)
(* A failed sync may still have made the record durable.                   *)
SyncInfo(c) ==
  LET t == ticket[c] IN
  /\ pc[c] = "syncInfo"
  /\ \/ /\ volatile' = volatile \ {<<"info", t>>}
        /\ \/ info[t] = "whole" /\ Go(c, "metadataWritten")
           \/ Go(c, "metadataUnsure")
     \/ UNCHANGED volatile /\ Go(c, "metadataUnsure")
  /\ UNCHANGED <<ledgerVars, at, files, info, touched>>

SelectDirectories(c) ==
  /\ pc[c] = "select"
  /\ Go(c, "dispatchMove") \/ Go(c, "notSelected")
  /\ UNCHANGED <<ledgerVars, namespaceVars>>

(***************************************************************************)
(* MovePublishedTrashNoReplace, from its last checks to its reproof.       *)
(***************************************************************************)
CheckMove(c) ==
  LET t == ticket[c] IN
  /\ pc[c] = "check"
  /\ \/ info[t] = "whole" /\ at[target[c]] = "planned" /\ Go(c, "rename")
     \/ Go(c, "notApplied")
  /\ UNCHANGED <<ledgerVars, namespaceVars>>

(* The rename itself.  It takes whatever the source name holds by now. *)
RenameMayApply(c) == at[target[c]] # "none" /\ files[ticket[c]] = "none"

ApplyRename(c) ==
  LET t == ticket[c] IN
  /\ RenameMayApply(c)
  /\ files' = [files EXCEPT ![t] = at[target[c]]]
  /\ at' = [at EXCEPT ![target[c]] = "none"]
  /\ volatile' = volatile \cup {<<"move", t>>}

RenameTrusting(c) ==  \* slip: any failure counts as not applied
  /\ pc[c] = "rename"
  /\ \/ ApplyRename(c) /\ Go(c, "verify")
     \/ (ApplyRename(c) \/ UNCHANGED <<files, at, volatile>>) /\ Go(c, "notApplied")
  /\ UNCHANGED <<ledgerVars, info, touched>>

(* Done; known not to be done (trashMoveRenameDidNotApply); or failed with *)
(* an error that says neither.                                             *)
Rename(c) ==
  /\ pc[c] = "rename"
  /\ \/ ApplyRename(c) /\ Go(c, "verify")
     \/ UNCHANGED <<files, at, volatile>> /\ Go(c, "notApplied")
     \/ (ApplyRename(c) \/ UNCHANGED <<files, at, volatile>>) /\ Go(c, "moveUnsure")
  /\ UNCHANGED <<ledgerVars, info, touched>>

VerifyMovePresent(c) ==  \* slip: any entry under the token will do
  /\ pc[c] = "verify"
  /\ \/ files[ticket[c]] # "none" /\ Go(c, "syncMove")
     \/ Go(c, "moveUnsure")
  /\ UNCHANGED <<ledgerVars, namespaceVars>>

VerifyMove(c) ==
  /\ pc[c] = "verify"
  /\ \/ files[ticket[c]] = "planned" /\ Go(c, "syncMove")
     \/ Go(c, "moveUnsure")
  /\ UNCHANGED <<ledgerVars, namespaceVars>>

SyncMoveIgnored(c) ==  \* slip: the error of a sync is not looked at
  /\ pc[c] = "syncMove"
  /\ volatile' \in {volatile, volatile \ {<<"move", ticket[c]>>}}
  /\ Go(c, "reprove")
  /\ UNCHANGED <<ledgerVars, at, files, info, touched>>

SyncMove(c) ==
  /\ pc[c] = "syncMove"
  /\ \/ /\ volatile' = volatile \ {<<"move", ticket[c]>>}
        /\ Go(c, "reprove") \/ Go(c, "moveUnsure")
     \/ UNCHANGED volatile /\ Go(c, "moveUnsure")
  /\ UNCHANGED <<ledgerVars, at, files, info, touched>>

ReproveMetadata(c) ==
  /\ pc[c] = "reprove"
  /\ \/ info[ticket[c]] = "whole" /\ Go(c, "moved")
     \/ Go(c, "moveUnsure")
  /\ UNCHANGED <<ledgerVars, namespaceVars>>

-----------------------------------------------------------------------------
(***************************************************************************)
(* The reconcilers.  A call is given a ticket, reloads it and refuses any  *)
(* but the one event it is for; its caller need not be the one that moved. *)
(***************************************************************************)
ReconcilableDispatched ==  \* slip: a dispatch without an outcome is reconciled, too
  {"metadata_dispatch_recorded", "metadata_indeterminate", "move_indeterminate"}

Reconcilable == {"metadata_indeterminate", "move_indeterminate"}

FirstProbe(event) ==
  IF event = "metadata_indeterminate" THEN "probeMetadata" ELSE "metadataThere"

Reload(c, t) ==
  /\ pc[c] = "idle"
  /\ fact[t].event \in Reconcilable
  /\ pc' = [pc EXCEPT ![c] = FirstProbe(fact[t].event)]
  /\ ticket' = [ticket EXCEPT ![c] = t]
  /\ UNCHANGED <<target, ledgerVars, namespaceVars>>

ProbeMetadataPresent(c) ==  \* slip: the record is not parsed
  /\ pc[c] = "probeMetadata"
  /\ \/ info[ticket[c]] = "absent" /\ Go(c, "metadataAbsent")
     \/ info[ticket[c]] # "absent" /\ Go(c, "metadataRetained")
  /\ UNCHANGED <<ledgerVars, namespaceVars>>

(* ReconcileIndeterminateTrashMetadata; a damaged record settles nothing. *)
ProbeMetadata(c) ==
  /\ pc[c] = "probeMetadata"
  /\ \/ info[ticket[c]] = "absent" /\ Go(c, "metadataAbsent")
     \/ info[ticket[c]] = "whole" /\ Go(c, "metadataRetained")
  /\ UNCHANGED <<ledgerVars, namespaceVars>>

(* ReconcileIndeterminateTrashMove: a chain of observations, each of which *)
(* has to hold when it is made.                                            *)
Observe(c, step, holds, next) ==
  /\ pc[c] = step
  /\ holds
  /\ Go(c, next)
  /\ UNCHANGED <<ledgerVars, namespaceVars>>

ProveMove(c) ==
  LET t == ticket[c]
      gone == at[source[t]] = "none"
      there == info[t] = "whole"
  IN  \/ Observe(c, "metadataThere", there, "sourceGone")
      \/ Observe(c, "sourceGone", gone, "contentThere")
      \/ Observe(c, "contentThere", files[t] = "planned", "sourceStillGone")
      \/ Observe(c, "sourceStillGone", gone, "metadataStillThere")
      \/ Observe(c, "metadataStillThere", there, "contentRetained")

(* An error, a refusal or a probe that settles nothing, before any effect. *)
GiveUp(c) ==
  /\ pc[c] \in {"validated"} \cup ProbeSteps
  /\ Stop(c)
  /\ UNCHANGED <<ledgerVars, namespaceVars>>

-----------------------------------------------------------------------------
(* What else happens. *)

Crash(c) ==
  /\ "crash" \in Environment
  /\ pc[c] # "idle"
  /\ Stop(c)
  /\ UNCHANGED <<ledgerVars, namespaceVars>>

(* What an unsynced record may be after a power loss. *)
InfoRemains(t) ==
  IF <<"info", t>> \in volatile THEN {"absent", "damaged", info[t]} ELSE {info[t]}

(***************************************************************************)
(* A rename that was not synced may be undone: the content is back under   *)
(* its source name, and what was put there since is gone.  Whatever the    *)
(* power loss has left is durable.                                         *)
(***************************************************************************)
PowerLoss ==
  /\ "power_loss" \in Environment
  /\ \E undone \in SUBSET {t \in Tokens : <<"move", t>> \in volatile} :
       /\ files' = [t \in Tokens |-> IF t \in undone THEN "none" ELSE files[t]]
       /\ at' = [s \in Sources |->
                   IF \E t \in undone : source[t] = s
                   THEN files[CHOOSE t \in undone : source[t] = s]
                   ELSE at[s]]
  /\ info' \in [Tokens -> InfoStates]
  /\ \A t \in Tokens : info'[t] \in InfoRemains(t)
  /\ volatile' = {}
  /\ pc' = [c \in Callers |-> "idle"]
  /\ target' = [c \in Callers |-> NoSource]
  /\ ticket' = [c \in Callers |-> NoToken]
  /\ UNCHANGED <<ledgerVars, touched>>

(* Another process of the same user replaces, removes or creates a source. *)
ChangeSource(s) ==
  /\ "source_change" \in Environment
  /\ \E x \in {"other", "none"} \ {at[s]} : at' = [at EXCEPT ![s] = x]
  /\ UNCHANGED <<ledgerVars, files, info, volatile, touched, callerVars>>

(***************************************************************************)
(* Another process of the same user works in the Trash: it removes or adds *)
(* an entry, spoils or removes a record, or puts the content back.  What   *)
(* it did to the content also settles an unsynced rename.                  *)
(***************************************************************************)
ChangeTrash(t) ==
  LET s == source[t] IN
  /\ "trash_change" \in Environment
  /\ s # NoSource
  /\ \/ /\ files' = [files EXCEPT ![t] = IF @ = "none" THEN "other" ELSE "none"]
        /\ volatile' = volatile \ {<<"move", t>>}
        /\ UNCHANGED <<at, info>>
     \/ /\ files[t] # "none" /\ at[s] = "none"
        /\ files' = [files EXCEPT ![t] = "none"]
        /\ at' = [at EXCEPT ![s] = files[t]]
        /\ volatile' = volatile \ {<<"move", t>>}
        /\ UNCHANGED info
     \/ /\ \E i \in {"absent", "damaged"} : info' = [info EXCEPT ![t] = i]
        /\ UNCHANGED <<at, files, volatile>>
  /\ touched' = touched \cup {t}
  /\ UNCHANGED <<ledgerVars, callerVars>>

-----------------------------------------------------------------------------

Move(c) ==
  \/ \E s \in Sources : Validate(c, s)
  \/ \E t \in Tokens : Reserve(c, t)
  \/ CreateInfo(c)
  \/ CompleteInfo(c)
  \/ SyncInfo(c)
  \/ SelectDirectories(c)
  \/ CheckMove(c)
  \/ Rename(c)
  \/ VerifyMove(c)
  \/ SyncMove(c)
  \/ ReproveMetadata(c)

Reconcile(c) ==
  \/ \E t \in Tokens : Reload(c, t)
  \/ ProbeMetadata(c)
  \/ ProveMove(c)

Program(c) == Move(c) \/ Reconcile(c) \/ Record(c) \/ GiveUp(c)

Disturbance ==
  \/ \E c \in Callers : Crash(c)
  \/ PowerLoss
  \/ \E s \in Sources : ChangeSource(s)
  \/ \E t \in Tokens : ChangeTrash(t)

Next == Disturbance \/ \E c \in Callers : Program(c)

Spec == Init /\ [][Next]_vars
-----------------------------------------------------------------------------

(* Every variable has its type. *)
TypeOK ==
  /\ fact \in [Tokens -> Frames \cup {NoFact}]
  /\ source \in [Tokens -> Sources \cup {NoSource}]
  /\ at \in [Sources -> Contents]
  /\ files \in [Tokens -> Contents]
  /\ info \in [Tokens -> InfoStates]
  /\ volatile \subseteq Effects
  /\ touched \subseteq Tokens
  /\ pc \in [Callers -> Steps]
  /\ target \in [Callers -> Sources \cup {NoSource}]
  /\ ticket \in [Callers -> Tokens \cup {NoToken}]

(***************************************************************************)
(* Whatever the program has put into the Trash belongs to a recovery that  *)
(* is open and says that a move was dispatched: no crash, power loss,      *)
(* failed call or reconciliation makes the ledger forget moved content, or *)
(* close its recovery as not applied.                                      *)
(***************************************************************************)
MovedContentIsAccountedFor ==
  \A t \in Tokens : files[t] # "none" /\ t \notin touched =>
    Stage(fact[t]) \in {"move_dispatch_recorded", "move_indeterminate", "move_verified"}

(***************************************************************************)
(* Content never arrives in the Trash before metadata that names its       *)
(* source is there for good: not even a power loss leaves files/<token>    *)
(* without info/<token>.                                                   *)
(***************************************************************************)
ContentHasDurableMetadata ==
  \A t \in Tokens : files[t] # "none" /\ t \notin touched =>
    info[t] = "whole" /\ <<"info", t>> \notin volatile

(***************************************************************************)
(* A move that was recorded as verified by the call that made it is there, *)
(* under its token, and survives a power loss.                             *)
(***************************************************************************)
VerifiedMoveSurvives ==
  \A t \in Tokens : fact[t].event = "move_verified" /\ t \notin touched =>
    files[t] = "planned" /\ <<"move", t>> \notin volatile

(***************************************************************************)
(* A reconciliation that found no metadata closes the recovery with that   *)
(* fact; no call that was still under way creates it afterwards.           *)
(***************************************************************************)
AbsentMetadataStaysAbsent ==
  \A t \in Tokens : fact[t] = Resolution("not_applied", "absent") /\ t \notin touched =>
    info[t] = "absent"

(***************************************************************************)
(* As long as nothing is lost to a power loss, a recovery closed as not    *)
(* applied says what became of its metadata: none, or a record that names  *)
(* the reserved source.                                                    *)
(***************************************************************************)
ResolvedMetadataIsAsStated ==
  \A t \in Tokens : Closed(fact[t]) /\ t \notin touched =>
    /\ fact[t].metadata = "absent" => info[t] = "absent"
    /\ fact[t].metadata = "retained" => info[t] = "whole"

(***************************************************************************)
(* A caller that writes metadata or moves content does it under the very   *)
(* fact it recorded for it, and nobody else has an effect under way on the *)
(* same source: neither a second move nor one left from before.            *)
(***************************************************************************)
InEffect(c) == pc[c] \in WriteSteps \cup MoveSteps

EffectsAreReserved ==
  \A c \in Callers : InEffect(c) =>
    /\ fact[ticket[c]] = Fact(IF pc[c] \in WriteSteps THEN "metadata_dispatch_recorded"
                                                     ELSE "move_dispatch_recorded")
    /\ \A d \in Callers \ {c} : InEffect(d) => target[d] # target[c]

(***************************************************************************)
(* Content whose move stands verified, by the call that made it or by a    *)
(* reconciliation, is in the Trash.                                        *)
(***************************************************************************)
VerifiedContentIsRetained ==
  \A t \in Tokens : Stage(fact[t]) = "move_verified" /\ t \notin touched =>
    files[t] = "planned"

(***************************************************************************)
(* Once the call that moved has returned, a recovery whose effect is not   *)
(* known is one that a reconciler accepts.                                 *)
(***************************************************************************)
AmbiguousRecoveriesReconcile ==
  \A t \in Tokens :
    /\ Stage(fact[t]) \in {"metadata_dispatch_recorded", "move_dispatch_recorded"}
    /\ info[t] # "absent"
    => \E c \in Callers : ticket[c] = t
=============================================================================
