\* Two calls on one source; processes crash, and another process of the same
\* user works on the source and in the Trash.
CONSTANTS
  Callers = {c1, c2}
  Sources = {s1}
  Tokens = {t1, t2}
  Environment = {"crash", "source_change", "trash_change"}
  NoSource = nosource
  NoToken = notoken
SPECIFICATION Spec
SYMMETRY Symmetry
INVARIANTS
  VerifiedContentIsRetained
  ResolvedMetadataIsAsStated
