-------------------------- MODULE ExclusiveSessions --------------------------
(***************************************************************************)
(* What RecoveryLedger assumes of a private-ledger session: a session that *)
(* writes is alone, sessions that read may be together, and only a session *)
(* that writes adds a record.                                              *)
(***************************************************************************)
CONSTANT Callers

VARIABLES
  readers,   \* the callers inside a read session
  writers,   \* the callers inside a write session, at most one
  recorded   \* whether the ledger holds a record

Init == readers = {} /\ writers = {} /\ recorded = FALSE

EnterToRead(c) ==
  /\ writers = {}
  /\ readers' = readers \cup {c}
  /\ UNCHANGED <<writers, recorded>>

EnterToWrite(c) ==
  /\ readers = {} /\ writers = {}
  /\ writers' = {c}
  /\ UNCHANGED <<readers, recorded>>

AddRecord == writers # {} /\ recorded' = TRUE /\ UNCHANGED <<readers, writers>>

Leave(c) ==
  /\ readers' = readers \ {c}
  /\ writers' = writers \ {c}
  /\ UNCHANGED recorded

(* A power loss ends every session and may undo a record not yet synced. *)
Restart == readers' = {} /\ writers' = {} /\ recorded' \in {recorded, FALSE}

Next ==
  \/ \E c \in Callers : EnterToRead(c) \/ EnterToWrite(c) \/ Leave(c)
  \/ AddRecord
  \/ Restart

Spec == Init /\ [][Next]_<<readers, writers, recorded>>
=============================================================================
