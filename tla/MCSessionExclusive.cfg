\* Three callers open sessions while power fails and somebody removes the
\* lock file.
CONSTANTS
  Callers = {c1, c2, c3}
  Environment = {"power_loss", "lock_removed"}
SPECIFICATION Spec
SYMMETRY Symmetry
INVARIANTS
  SessionInv
  InitializerSeesNoRecords
  
PROPERTIES
  ImplementsSessions
