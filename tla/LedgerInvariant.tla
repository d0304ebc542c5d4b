-------------------------- MODULE LedgerInvariant --------------------------
(***************************************************************************)
(* The inductive invariant of RecoveryLedger, in named parts.              *)
(***************************************************************************)
EXTENDS RecoveryLedger

(* A caller that is not idle is the one in the write session. *)
SessionInv ==
  \A c \in Callers : /\ pc[c] # "idle" <=> writer = c
                     /\ pc[c] = "idle" => pending[c] = NoPending

(* Whatever was retained was minted and bound, in the order of the graph,  *)
(* and only its last record can be torn.                                   *)
HistoryOK(t) ==
  /\ ledger[t] # << >> => t \in minted
  /\ t \in minted => binding[t] \in Bindings
  /\ Len(ledger[t]) <= MaxOrdinal + 1
  /\ \A i \in 1 .. Len(ledger[t]) - 1 : ledger[t][i] \in Frames
  /\ ledger[t] # << >> => ledger[t][1] \in {Intent, Torn}
  /\ \A i \in 1 .. Len(ledger[t]) - 1 :
       \/ ledger[t][i + 1] = Torn
       \/ ValidTransition(binding[t].destination, ledger[t][i], ledger[t][i + 1])

HistoryInv == \A t \in Tokens : HistoryOK(t)

(* The record a caller is publishing extends the history it replayed, which *)
(* was readable and has not changed since.                                  *)
PendingOK(c) ==
  LET t == pending[c].token
      k == pending[c].ordinal
      f == pending[c].frame
  IN /\ pending[c] \in PendingRecords
     /\ t \in minted
     /\ k <= MaxOrdinal
     /\ pc[c] = "publishing" => Len(ledger[t]) = k
     /\ pc[c] = "created" => Len(ledger[t]) = k + 1 /\ ledger[t][k + 1] = Torn
     /\ pc[c] = "written" => Len(ledger[t]) = k + 1 /\ ledger[t][k + 1] = f
     /\ k = 0 => /\ f = Intent
                 /\ \A u \in Tokens : FactOpen(u) => binding[u].source # binding[t].source
     /\ k > 0 => ValidTransition(binding[t].destination, ledger[t][k], f)
     /\ \A u \in Tokens : ~TornLeft(u)

PendingInv == \A c \in Callers : pc[c] # "idle" => PendingOK(c)

LedgerInv ==
  /\ TypeOK
  /\ SessionInv
  /\ HistoryInv
  /\ PendingInv
  /\ OneOutstandingPerSource
=============================================================================
