-------------------------- MODULE MCRecoveryLedger --------------------------
(* RecoveryLedger on small sets of callers, sources and tokens. *)
EXTENDS LedgerInvariant, TLC

(* Callers, sources and tokens are interchangeable; legacy tokens only with *)
(* each other.                                                              *)
Symmetry ==
  Permutations(Callers) \cup Permutations(Sources)
    \cup Permutations(Tokens \ LegacyTokens)
=============================================================================
