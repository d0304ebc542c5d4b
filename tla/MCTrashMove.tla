---------------------------- MODULE MCTrashMove ----------------------------
(* TrashMove on small sets of callers, sources and tokens. *)
EXTENDS TrashInvariant, TLC

(* Callers, sources and tokens are interchangeable. *)
Symmetry == Permutations(Callers) \cup Permutations(Sources) \cup Permutations(Tokens)
=============================================================================
