\* A reconciliation verifies a move that was never synced, and power fails.
CONSTANTS
  Callers = {c1}
  Sources = {s1}
  Tokens = {t1}
  Environment = {"power_loss"}
  NoSource = nosource
  NoToken = notoken
SPECIFICATION Spec
INVARIANT
  VerifiedContentIsRetained
