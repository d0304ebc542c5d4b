--------------------- MODULE PrivateLedgerSessionProofs ---------------------
(***************************************************************************)
(* The inductive invariant of the private-ledger sessions, and that they   *)
(* are the exclusive sessions RecoveryLedger takes them for.               *)
(***************************************************************************)
EXTENDS PrivateLedgerSession, TLAPS

USE DEF LockStates, RecordStates, Outside, Initializing, Inside, Steps, fileVars, Go

(* The first state satisfies the invariant. *)
LEMMA InitEstablishes == Init => SessionInv
BY DEF Init, SessionInv, TypeOK, LocksExclude, HoldsLock, RelyOn, InitializerSeesNoRecords,
  LockSurvives, RecordsKeepTheirLock

(* A caller that holds the lock to write is the only one that holds it.    *)
LEMMA WriterAlone ==
  ASSUME SessionInv, NEW c \in Callers, writable[c], pc[c] \notin Outside,
         NEW d \in Callers, d # c
  PROVE  pc[d] \in Outside
BY DEF SessionInv, TypeOK, LocksExclude, HoldsLock

(***************************************************************************)
(* Every step keeps the invariant.  A caller that initializes or publishes *)
(* is alone, so that nobody sees its intermediate states; what it relied   *)
(* on at its last check still holds because only it could have changed it. *)
(***************************************************************************)
LEMMA StepKeeps == SessionInv /\ [Next]_vars => SessionInv'
<1> SUFFICES ASSUME SessionInv, [Next]_vars PROVE SessionInv'
  OBVIOUS
<1> USE DEF SessionInv, TypeOK, LocksExclude, HoldsLock, RelyOn, InitializerSeesNoRecords,
  LockSurvives, RecordsKeepTheirLock
<1>1. ASSUME NEW c \in Callers, Begin(c) PROVE SessionInv'
  BY <1>1 DEF Begin
<1>2. ASSUME NEW c \in Callers, ListBefore(c) PROVE SessionInv'
  BY <1>2 DEF ListBefore
<1>3. ASSUME NEW c \in Callers, CreateLock(c) PROVE SessionInv'
  BY <1>3 DEF CreateLock
<1>4. ASSUME NEW c \in Callers, OpenLock(c) PROVE SessionInv'
  BY <1>4 DEF OpenLock
<1>5. ASSUME NEW c \in Callers, Acquire(c) PROVE SessionInv'
  BY <1>5 DEF Acquire
<1>6. ASSUME NEW c \in Callers, Recheck(c) PROVE SessionInv'
  BY <1>6 DEF Recheck
<1>7. ASSUME NEW c \in Callers, WriteLock(c) PROVE SessionInv'
  <2>1. \A d \in Callers \ {c} : pc[d] \in Outside
    BY <1>7, WriterAlone DEF WriteLock
  <2>2. records = "none"
    BY <1>7 DEF WriteLock
  <2> QED
    BY <1>7, <2>1, <2>2 DEF WriteLock
<1>8. ASSUME NEW c \in Callers, SyncLock(c) PROVE SessionInv'
  BY <1>8 DEF SyncLock
<1>9. ASSUME NEW c \in Callers, SyncDirectory(c) PROVE SessionInv'
  BY <1>9 DEF SyncDirectory
<1>10. ASSUME NEW c \in Callers, VerifyLock(c) PROVE SessionInv'
  BY <1>10 DEF VerifyLock
<1>11. ASSUME NEW c \in Callers, PreparePublication(c) PROVE SessionInv'
  BY <1>11 DEF PreparePublication
<1>12. ASSUME NEW c \in Callers, CreateRecord(c) PROVE SessionInv'
  <2>1. \A d \in Callers \ {c} : pc[d] \in Outside
    BY <1>12, WriterAlone DEF CreateRecord
  <2>2. lock = "whole" /\ "absent" \notin lockSurvives
    BY <1>12 DEF CreateRecord
  <2> QED
    BY <1>12, <2>1, <2>2 DEF CreateRecord
<1>13. ASSUME NEW c \in Callers, SyncRecord(c) PROVE SessionInv'
  BY <1>13 DEF SyncRecord
<1>14. ASSUME NEW c \in Callers, Leave(c) PROVE SessionInv'
  BY <1>14 DEF Leave
<1>15. CASE PowerLoss
  <2>1. ASSUME records # "none", "interrupted_sync" \notin Environment
        PROVE  lockSurvives \subseteq {"absent", "whole"}
    <3>1. ~ \E c \in Callers : pc[c] = "syncLock"
      BY <2>1
    <3>2. lock \in {"absent", "whole"}
      BY <2>1
    <3> QED
      BY <2>1, <3>1, <3>2
  <2> QED
    BY <1>15, <2>1 DEF PowerLoss
<1>16. CASE RemoveLock
  BY <1>16 DEF RemoveLock
<1>17. CASE UNCHANGED vars
  BY <1>17 DEF vars
<1> QED
  BY <1>1, <1>2, <1>3, <1>4, <1>5, <1>6, <1>7, <1>8, <1>9, <1>10, <1>11, <1>12,
     <1>13, <1>14, <1>15, <1>16, <1>17 DEF Next, Session

(***************************************************************************)
(* What a caller relies on at each step of a session, for any number of    *)
(* callers and in every environment.                                       *)
(***************************************************************************)
THEOREM SessionInvariantHolds == Spec => []SessionInv
BY InitEstablishes, StepKeeps, PTL DEF Spec

(* The lock file's contents are never written around retained records. *)
THEOREM LockIsInitializedFirst == Spec => []InitializerSeesNoRecords
<1>1. SessionInv => InitializerSeesNoRecords
  BY DEF SessionInv
<1> QED
  BY <1>1, SessionInvariantHolds, PTL

(***************************************************************************)
(* If no sync of the lock file is interrupted, the lock file of retained   *)
(* records is complete after any power loss.                               *)
(***************************************************************************)
THEOREM LockOutlivesPowerLoss ==
  ASSUME "interrupted_sync" \notin Environment
  PROVE  Spec => []RecordsKeepTheirLock
<1>1. SessionInv => RecordsKeepTheirLock
  BY DEF SessionInv, LockSurvives
<1> QED
  BY <1>1, SessionInvariantHolds, PTL

(* A lock file removed from around records is not created again: only a    *)
(* caller that found no records may create one.                            *)
THEOREM RemovedLockStaysRemoved == Spec => LockIsNotRecreated
<1>1. ASSUME SessionInv, [Next]_vars, records # "none", lock = "absent"
      PROVE  lock' = "absent"
  <2> USE <1>1 DEF SessionInv, TypeOK, RelyOn, LockSurvives
  <2>1. ASSUME NEW c \in Callers, Session(c) PROVE lock' = "absent"
    <3>1. ~CreateLock(c)
      BY DEF CreateLock
    <3>2. ~WriteLock(c)
      BY DEF WriteLock, InitializerSeesNoRecords
    <3> QED
      BY <2>1, <3>1, <3>2
      DEF Session, Begin, ListBefore, OpenLock, Acquire, Recheck, SyncLock, SyncDirectory,
          VerifyLock, PreparePublication, CreateRecord, SyncRecord, Leave
  <2>2. CASE PowerLoss
    BY <2>2 DEF PowerLoss
  <2>3. CASE RemoveLock
    BY <2>3 DEF RemoveLock
  <2>4. CASE UNCHANGED vars
    BY <2>4 DEF vars
  <2> QED
    BY <1>1, <2>1, <2>2, <2>3, <2>4 DEF Next
<1> QED
  BY <1>1, SessionInvariantHolds, PTL DEF Spec, LockIsNotRecreated

-----------------------------------------------------------------------------
(* The refinement. *)

Readers == {c \in Callers : pc[c] \in Inside /\ ~writable[c]}
Writers == {c \in Callers : pc[c] \in Inside /\ writable[c]}
Recorded == records # "none"

(* The abstract step, in the terms of this module. *)
AbstractStep ==
  \/ \E c \in Callers :
       \/ Writers = {} /\ Readers' = Readers \cup {c} /\ UNCHANGED <<Writers, Recorded>>
       \/ Readers = {} /\ Writers = {} /\ Writers' = {c} /\ UNCHANGED <<Readers, Recorded>>
       \/ Readers' = Readers \ {c} /\ Writers' = Writers \ {c} /\ UNCHANGED Recorded
  \/ Writers # {} /\ Recorded' = TRUE /\ UNCHANGED <<Readers, Writers>>
  \/ Readers' = {} /\ Writers' = {} /\ Recorded' \in {Recorded, FALSE}
  \/ UNCHANGED <<Readers, Writers, Recorded>>

LEMMA AbstractStepIsNext ==
  AbstractStep => [Sessions!Next]_<<Readers, Writers, Recorded>>
BY DEF AbstractStep, Sessions!Next, Sessions!EnterToRead, Sessions!EnterToWrite,
  Sessions!Leave, Sessions!AddRecord, Sessions!Restart, Readers, Writers, Recorded

LEMMA StepRefines == SessionInv /\ [Next]_vars => AbstractStep
<1> SUFFICES ASSUME SessionInv, [Next]_vars PROVE AbstractStep
  OBVIOUS
<1> USE DEF SessionInv, TypeOK
<1>1. ASSUME NEW c \in Callers, VerifyLock(c) PROVE AbstractStep
  <2>1. CASE writable[c]
    <3>1. \A d \in Callers : pc[d] \notin Inside
      BY <1>1, <2>1, WriterAlone DEF VerifyLock
    <3>2. Readers = {} /\ Writers = {} /\ Readers' = {} /\ Writers' = {c}
      BY <1>1, <2>1, <3>1 DEF VerifyLock, Readers, Writers
    <3>3. UNCHANGED Recorded
      BY <1>1 DEF VerifyLock, Recorded
    <3> QED
      BY <3>2, <3>3 DEF AbstractStep
  <2>2. CASE ~writable[c]
    <3>1. Writers = {}
      BY <1>1, <2>2, WriterAlone DEF VerifyLock, Writers
    <3>2. Readers' = Readers \cup {c} /\ UNCHANGED <<Writers, Recorded>>
      BY <1>1, <2>2 DEF VerifyLock, Readers, Writers, Recorded
    <3> QED
      BY <3>1, <3>2 DEF AbstractStep
  <2> QED
    BY <2>1, <2>2
<1>2. ASSUME NEW c \in Callers, CreateRecord(c) PROVE AbstractStep
  <2>1. Writers # {}
    BY <1>2 DEF CreateRecord, Writers, RelyOn
  <2>2. Recorded' = TRUE /\ UNCHANGED <<Readers, Writers>>
    BY <1>2 DEF CreateRecord, Recorded, Readers, Writers
  <2> QED
    BY <2>1, <2>2 DEF AbstractStep
<1>3. ASSUME NEW c \in Callers, SyncRecord(c) PROVE AbstractStep
  <2>1. Writers # {}
    BY <1>3 DEF SyncRecord, Writers, RelyOn
  <2>2. Recorded' = TRUE /\ UNCHANGED <<Readers, Writers>>
    BY <1>3 DEF SyncRecord, Recorded, Readers, Writers
  <2> QED
    BY <2>1, <2>2 DEF AbstractStep
<1>4. ASSUME NEW c \in Callers, Leave(c) PROVE AbstractStep
  <2>1. Readers' = Readers \ {c} /\ Writers' = Writers \ {c} /\ UNCHANGED Recorded
    BY <1>4 DEF Leave, Readers, Writers, Recorded
  <2> QED
    BY <2>1 DEF AbstractStep
<1>5. CASE PowerLoss
  <2>1. Readers' = {} /\ Writers' = {} /\ Recorded' \in {Recorded, FALSE}
    BY <1>5 DEF PowerLoss, Readers, Writers, Recorded
  <2> QED
    BY <2>1 DEF AbstractStep
<1>6. ASSUME NEW c \in Callers,
             \/ Begin(c)
             \/ ListBefore(c)
             \/ CreateLock(c)
             \/ OpenLock(c)
             \/ Acquire(c)
             \/ Recheck(c)
             \/ WriteLock(c)
             \/ SyncLock(c)
             \/ SyncDirectory(c)
             \/ PreparePublication(c)
      PROVE  AbstractStep
  <2>1. UNCHANGED <<Readers, Writers, Recorded>>
    BY <1>6
    DEF Begin, ListBefore, CreateLock, OpenLock, Acquire, Recheck, WriteLock,
        SyncLock, SyncDirectory, PreparePublication, Readers, Writers, Recorded
  <2> QED
    BY <2>1 DEF AbstractStep
<1>7. CASE RemoveLock \/ UNCHANGED vars
  <2>1. UNCHANGED <<Readers, Writers, Recorded>>
    BY <1>7 DEF RemoveLock, vars, Readers, Writers, Recorded
  <2> QED
    BY <2>1 DEF AbstractStep
<1> QED
  BY <1>1, <1>2, <1>3, <1>4, <1>5, <1>6, <1>7 DEF Next, Session

(***************************************************************************)
(* Whatever interrupts them, sessions are those RecoveryLedger relies on:  *)
(* a writer is alone, and only a writer adds a record.                     *)
(***************************************************************************)
THEOREM SessionsAreExclusive == Spec => ImplementsSessions
<1>1. Init => Sessions!Init
  BY DEF Init, Sessions!Init
<1>2. SessionInv /\ [Next]_vars => [Sessions!Next]_<<Readers, Writers, Recorded>>
  BY StepRefines, AbstractStepIsNext
<1> QED
  BY <1>1, <1>2, SessionInvariantHolds, PTL
  DEF Spec, ImplementsSessions, Sessions!Spec, Readers, Writers, Recorded
=============================================================================
