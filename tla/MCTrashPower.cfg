\* Three calls on two sources; processes crash, power fails, sources change.
CONSTANTS
  Callers = {c1, c2, c3}
  Sources = {s1, s2}
  Tokens = {t1, t2}
  Environment = {"crash", "power_loss", "source_change"}
  NoSource = nosource
  NoToken = notoken
SPECIFICATION Spec
SYMMETRY Symmetry
INVARIANTS
  TrashInv
  MovedContentIsAccountedFor
  ContentHasDurableMetadata
  VerifiedMoveSurvives
