\* Two callers race for two sources; one v1 history is retained from before.
CONSTANTS
  Callers = {c1, c2}
  Sources = {s1, s2}
  Tokens = {t0, t1, t2}
  LegacyTokens = {t0}
  MaxRecords = 4
  MaxOrdinal = 2
  NoCaller = none
SPECIFICATION Spec
SYMMETRY Symmetry
INVARIANTS
  LedgerInv
  OneOutstandingPerSource
  OnlyTornRecordsBlock
PROPERTIES
  TornLedgerIsFrozen
  ImplementsReservation
