\* Three calls on two stores; processes crash, power fails, sources change.
CONSTANTS
  Stores = {q1, q2}
  Callers = {c1, c2, c3}
  Sources = {s1, s2}
  Tokens = {t1, t2}
  Environment = {"crash", "power_loss", "source_change"}
  NoStore = nostore
  NoSource = nosource
  NoToken = notoken
SPECIFICATION Spec
SYMMETRY Symmetry
INVARIANTS
  RetainInv
  RetainedIsOnRecord
  VerifiedIsRetained
  SourcesAreMovedOnce
