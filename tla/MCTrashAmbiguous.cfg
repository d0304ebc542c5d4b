\* A call whose record of the outcome fails leaves a recovery no reconciler takes.
CONSTANTS
  Callers = {c1}
  Sources = {s1}
  Tokens = {t1}
  Environment = {}
  NoSource = nosource
  NoToken = notoken
SPECIFICATION Spec
INVARIANT
  AmbiguousRecoveriesReconcile
