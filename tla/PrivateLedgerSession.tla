------------------------ MODULE PrivateLedgerSession ------------------------
(***************************************************************************)
(* The critical section of the recovery ledger: the life of its lock file  *)
(* and the sessions that hold it, as in                                    *)
(* internal/linuxfs/private_ledger_linux.go.                               *)
(*                                                                         *)
(* The lock file is created, initialized under its own lock, and never     *)
(* written again.  Whether it is initialized is read when it is opened,    *)
(* before its lock is acquired.  The records it protects are counted only  *)
(* as none or some; RecoveryLedger says what is in them.                   *)
(***************************************************************************)
CONSTANTS
  Callers,     \* the processes and goroutines that open sessions
  Environment  \* what else may happen, a subset of Disturbances

Disturbances == {"interrupted_sync", "power_loss", "lock_removed"}

ASSUME SessionAssumptions == Environment \subseteq Disturbances

VARIABLES
  lock,         \* what the lock file's name holds
  lockSurvives, \* what it may hold after a power loss
  records,      \* whether records are retained, and durably
  flock,        \* the kernel lock each caller holds
  pc,           \* where each caller is
  writable,     \* whether its session is one that writes
  initialized   \* what it read when it opened the lock file

fileVars == <<lock, lockSurvives, records>>
vars == <<lock, lockSurvives, records, flock, pc, writable, initialized>>

-----------------------------------------------------------------------------

(* A damaged lock file has another size or other contents. *)
LockStates == {"absent", "empty", "damaged", "whole"}

RecordStates == {"none", "volatile", "durable"}

Outside == {"idle", "list", "open", "acquire"}
Initializing == {"initialize", "syncLock", "syncDirectory"}
Inside == {"session", "publish", "syncRecord"}
Steps == Outside \cup {"recheck", "verify"} \cup Initializing \cup Inside

Init ==
  /\ lock = "absent"
  /\ lockSurvives = {"absent"}
  /\ records = "none"
  /\ flock = [c \in Callers |-> "none"]
  /\ pc = [c \in Callers |-> "idle"]
  /\ writable = [c \in Callers |-> FALSE]
  /\ initialized = [c \in Callers |-> FALSE]

Go(c, step) == pc' = [pc EXCEPT ![c] = step] /\ UNCHANGED <<flock, writable, initialized>>

-----------------------------------------------------------------------------

(* A session that writes looks first: without a lock file the records are  *)
(* listed before one may be created.                                       *)
Begin(c) ==
  /\ pc[c] = "idle"
  /\ \E w \in BOOLEAN :
       /\ writable' = [writable EXCEPT ![c] = w]
       /\ pc' = [pc EXCEPT ![c] = IF w /\ lock = "absent" THEN "list" ELSE "open"]
  /\ UNCHANGED <<flock, initialized, fileVars>>

ListBefore(c) ==
  /\ pc[c] = "list"
  /\ records = "none"
  /\ Go(c, "open")
  /\ UNCHANGED fileVars

(* O_CREAT|O_EXCL; only a session that writes creates the lock file. *)
CreateLock(c) ==
  /\ pc[c] = "open" /\ writable[c]
  /\ lock = "absent"
  /\ lock' = "empty"
  /\ lockSurvives' = lockSurvives \cup {"empty"}
  /\ initialized' = [initialized EXCEPT ![c] = FALSE]
  /\ pc' = [pc EXCEPT ![c] = "acquire"]
  /\ UNCHANGED <<records, flock, writable>>

(* Initialized, by its size: a damaged lock file may have the right one. *)
OpenLock(c) ==
  /\ pc[c] = "open"
  /\ lock # "absent"
  /\ initialized' = [initialized EXCEPT ![c] = lock # "empty"]
  /\ pc' = [pc EXCEPT ![c] = "acquire"]
  /\ UNCHANGED <<flock, writable, fileVars>>

AcquireSharing(c) ==  \* slip: a session that writes takes the shared lock, too
  /\ pc[c] = "acquire"
  /\ \A d \in Callers : flock[d] # "exclusive"
  /\ flock' = [flock EXCEPT ![c] = "shared"]
  /\ \/ initialized[c] /\ pc' = [pc EXCEPT ![c] = "verify"]
     \/ ~initialized[c] /\ writable[c] /\ pc' = [pc EXCEPT ![c] = "recheck"]
  /\ UNCHANGED <<writable, initialized, fileVars>>

(* flock, polled until it is free.  A reader of an uninitialized lock file *)
(* gives up as soon as it has it.                                          *)
Acquire(c) ==
  /\ pc[c] = "acquire"
  /\ IF writable[c] THEN \A d \in Callers : flock[d] = "none"
                    ELSE \A d \in Callers : flock[d] # "exclusive"
  /\ flock' = [flock EXCEPT ![c] = IF writable[c] THEN "exclusive" ELSE "shared"]
  /\ \/ initialized[c] /\ pc' = [pc EXCEPT ![c] = "verify"]
     \/ ~initialized[c] /\ writable[c] /\ pc' = [pc EXCEPT ![c] = "recheck"]
  /\ UNCHANGED <<writable, initialized, fileVars>>

RecheckTrusting(c) ==  \* slip: what was listed before the lock was held still counts
  pc[c] = "recheck" /\ Go(c, "initialize") /\ UNCHANGED fileVars

(* Between the open and the lock another writer may have initialized the   *)
(* file and published.                                                     *)
Recheck(c) ==
  /\ pc[c] = "recheck"
  /\ records = "none"
  /\ Go(c, "initialize")
  /\ UNCHANGED fileVars

(* The contents are written from the start of the file, in one write or    *)
(* several; where they are already, nothing changes.                       *)
WriteLock(c) ==
  /\ pc[c] = "initialize"
  /\ \/ /\ lock' = "whole"
        /\ Go(c, "syncLock")
     \/ /\ lock # "whole"
        /\ lock' = "damaged"
        /\ Go(c, "initialize")
  /\ lockSurvives' = lockSurvives \cup IF lock = "whole" THEN {} ELSE {"damaged", "whole"}
  /\ UNCHANGED records

SyncLockIgnored(c) ==  \* slip: the error of fsync is not looked at
  /\ pc[c] = "syncLock"
  /\ lockSurvives' \in {lockSurvives, lockSurvives \ {"empty", "damaged"}}
  /\ Go(c, "syncDirectory")
  /\ UNCHANGED <<lock, records>>

SyncLock(c) ==
  /\ pc[c] = "syncLock"
  /\ lockSurvives' = lockSurvives \ {"empty", "damaged"}
  /\ Go(c, "syncDirectory")
  /\ UNCHANGED <<lock, records>>

SyncDirectory(c) ==
  /\ pc[c] = "syncDirectory"
  /\ lockSurvives' = lockSurvives \ {"absent"}
  /\ Go(c, "verify")
  /\ UNCHANGED <<lock, records>>

VerifyLock(c) ==
  /\ pc[c] = "verify"
  /\ lock = "whole"
  /\ Go(c, "session")
  /\ UNCHANGED fileVars

-----------------------------------------------------------------------------
(* Inside a session.  Reading changes nothing. *)

(* Publish: the lock is verified again, and the directory synced before a  *)
(* record is created.                                                      *)
PreparePublication(c) ==
  /\ pc[c] = "session" /\ writable[c]
  /\ lock = "whole"
  /\ lockSurvives' = lockSurvives \ {"absent"}
  /\ Go(c, "publish")
  /\ UNCHANGED <<lock, records>>

CreateRecord(c) ==
  /\ pc[c] = "publish"
  /\ records' = IF records = "none" THEN "volatile" ELSE records
  /\ Go(c, "syncRecord")
  /\ UNCHANGED <<lock, lockSurvives>>

SyncRecord(c) ==
  /\ pc[c] = "syncRecord"
  /\ records' = "durable"
  /\ Go(c, "session")
  /\ UNCHANGED <<lock, lockSurvives>>

LeaveHolding(c) ==  \* slip: an error before the session starts keeps the lock
  /\ pc[c] # "idle"
  /\ pc[c] = "syncLock" => "interrupted_sync" \in Environment
  /\ pc' = [pc EXCEPT ![c] = "idle"]
  /\ flock' = [flock EXCEPT ![c] = IF pc[c] \in Inside THEN "none" ELSE @]
  /\ UNCHANGED <<writable, initialized, fileVars>>

(* The call returns, with or without an error, or its process stops: the   *)
(* deferred release, or the kernel, lets the lock go.                      *)
Leave(c) ==
  /\ pc[c] # "idle"
  /\ pc[c] = "syncLock" => "interrupted_sync" \in Environment
  /\ pc' = [pc EXCEPT ![c] = "idle"]
  /\ flock' = [flock EXCEPT ![c] = "none"]
  /\ UNCHANGED <<writable, initialized, fileVars>>

-----------------------------------------------------------------------------
(* What else happens. *)

PowerLoss ==
  /\ "power_loss" \in Environment
  /\ lock' \in lockSurvives
  /\ lockSurvives' = {lock'}
  /\ records' \in IF records = "volatile" THEN {"none", "durable"} ELSE {records}
  /\ pc' = [c \in Callers |-> "idle"]
  /\ flock' = [c \in Callers |-> "none"]
  /\ UNCHANGED <<writable, initialized>>

(* Somebody removes the lock file while no session is under way. *)
RemoveLock ==
  /\ "lock_removed" \in Environment
  /\ \A c \in Callers : pc[c] = "idle"
  /\ lock' = "absent"
  /\ lockSurvives' = {"absent"}
  /\ UNCHANGED <<records, flock, pc, writable, initialized>>

Session(c) ==
  \/ Begin(c)
  \/ ListBefore(c)
  \/ CreateLock(c)
  \/ OpenLock(c)
  \/ Acquire(c)
  \/ Recheck(c)
  \/ WriteLock(c)
  \/ SyncLock(c)
  \/ SyncDirectory(c)
  \/ VerifyLock(c)
  \/ PreparePublication(c)
  \/ CreateRecord(c)
  \/ SyncRecord(c)
  \/ Leave(c)

Next == PowerLoss \/ RemoveLock \/ \E c \in Callers : Session(c)

Spec == Init /\ [][Next]_vars

-----------------------------------------------------------------------------

TypeOK ==
  /\ lock \in LockStates
  /\ lockSurvives \subseteq LockStates
  /\ records \in RecordStates
  /\ flock \in [Callers -> {"none", "shared", "exclusive"}]
  /\ pc \in [Callers -> Steps]
  /\ writable \in [Callers -> BOOLEAN]
  /\ initialized \in [Callers -> BOOLEAN]

(* A caller holds the lock exactly while it is past its acquisition.       *)
HoldsLock(c) ==
  flock[c] = IF pc[c] \in Outside THEN "none"
             ELSE IF writable[c] THEN "exclusive" ELSE "shared"

LocksExclude ==
  \A c, d \in Callers : flock[c] = "exclusive" /\ c # d => flock[d] = "none"

(* What a caller relies on at each step. *)
RelyOn(c) ==
  /\ pc[c] \in Initializing \cup {"list", "recheck", "publish", "syncRecord"} => writable[c]
  /\ pc[c] \in {"syncLock", "syncDirectory"} \cup Inside => lock = "whole"
  /\ pc[c] = "syncDirectory" => lockSurvives \subseteq {"absent", "whole"}
  /\ pc[c] = "open" /\ writable[c] /\ lock = "absent" => records = "none"
  /\ pc[c] \in {"publish", "syncRecord"} => "absent" \notin lockSurvives

(***************************************************************************)
(* The contents of the lock file are never written while records are       *)
(* retained, whatever has happened since it was opened.                    *)
(***************************************************************************)
InitializerSeesNoRecords ==
  \A c \in Callers : pc[c] \in Initializing => records = "none"

(***************************************************************************)
(* The lock file of retained records is complete, and stays so through any *)
(* power loss, unless somebody removes it.                                 *)
(***************************************************************************)
RecordsKeepTheirLock ==
  records # "none" =>
    lock = "whole" \/ ("lock_removed" \in Environment /\ lock = "absent")

(* What may be lost: nothing of a complete lock file whose initializer was *)
(* not interrupted, and no name after the first publication.               *)
LockSurvives ==
  /\ lock \in lockSurvives
  /\ lock = "absent" => lockSurvives = {"absent"}
  /\ records # "none" /\ lock # "absent" => "absent" \notin lockSurvives
  /\ "interrupted_sync" \notin Environment =>
       /\ lock = "whole" /\ ~(\E c \in Callers : pc[c] = "syncLock") =>
            lockSurvives \subseteq {"absent", "whole"}
       /\ RecordsKeepTheirLock

(* The conjunction is what every step preserves. *)
SessionInv ==
  /\ TypeOK
  /\ LocksExclude
  /\ \A c \in Callers : HoldsLock(c) /\ RelyOn(c)
  /\ InitializerSeesNoRecords
  /\ LockSurvives

(***************************************************************************)
(* A lock file that was removed from around retained records is never      *)
(* created again.                                                          *)
(***************************************************************************)
LockIsNotRecreated ==
  [][records # "none" /\ lock = "absent" => lock' = "absent"]_vars

(***************************************************************************)
(* A session is what RecoveryLedger takes it for: a writer is alone inside,*)
(* and records appear only while one is.                                   *)
(***************************************************************************)
Sessions == INSTANCE ExclusiveSessions WITH
  readers <- {c \in Callers : pc[c] \in Inside /\ ~writable[c]},
  writers <- {c \in Callers : pc[c] \in Inside /\ writable[c]},
  recorded <- records # "none"

ImplementsSessions == Sessions!Spec
=============================================================================
