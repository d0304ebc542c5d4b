\* Two holders of one recovery drive it through the whole graph, twice round the restore loop.
CONSTANTS
  Callers = {c1, c2}
  Sources = {s1}
  Tokens = {t1}
  LegacyTokens = {}
  MaxRecords = 11
  MaxOrdinal = 9
  NoCaller = none
SPECIFICATION Spec
SYMMETRY Symmetry
INVARIANTS
  MoveDispatchedOnce
  MovedContentIsNotForgotten
PROPERTY
  ImplementsFacts
