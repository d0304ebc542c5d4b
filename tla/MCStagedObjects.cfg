\* Two objects compete for one source: one that may be removed, and one of a
\* restore action that may not, like those of every constructor today.
CONSTANTS
  Tokens = {t1, t2}
  Destructive = {t1}
  Authorized = {t1}
  Nodes <- MCNodes
  Root = "root"
  Beneath <- MCBeneath
  Unfit = {"deep"}
  Environment = {"source_change", "staging_change", "crash"}
SPECIFICATION Spec
INVARIANTS
  StagedInv
  StateTellsWhere
  PartialTreesAreFlagged
PROPERTIES
  UncertainEntriesStay
