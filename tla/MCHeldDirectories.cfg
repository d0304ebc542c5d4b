\* Every call, while directories and entries are moved away and back between its steps.
CONSTANTS
  a = a
  b = b
  otherA = otherA
  otherB = otherB
  trash = trash
  files = files
  info = info
  Root = root
  Away = away
  Path <- MCPath
  TrashLayout <- MCTrashLayout
  Planned <- MCPlanned
  Others = {otherA, otherB}
  MayBeAt <- MCMayBeAt
  MayLoosen = {trash, files}
  Reads <- MCReads
  Tolerated <- MCTolerated
SPECIFICATION Spec
\* A behaviour is one call.
CHECK_DEADLOCK FALSE
INVARIANTS
  SourceAbsenceWasTrue
  TrashVerdictsWereTrue
  RestorationsTellWhatTheyDid
 
