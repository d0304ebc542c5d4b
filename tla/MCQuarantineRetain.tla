------------------------- MODULE MCQuarantineRetain -------------------------
(* QuarantineRetain on small sets of stores, callers, sources and tokens. *)
EXTENDS QuarantineRetain, TLC

(* Each of these sets has members that are interchangeable. *)
Symmetry ==
  Permutations(Stores) \cup Permutations(Callers) \cup Permutations(Sources)
    \cup Permutations(Tokens)
=============================================================================
