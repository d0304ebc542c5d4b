----------------------- MODULE MCPrivateLedgerSession -----------------------
(* PrivateLedgerSession on a small set of callers. *)
EXTENDS PrivateLedgerSession, TLC

(* Callers are interchangeable. *)
Symmetry == Permutations(Callers)
=============================================================================
