CONSTANTS
  ActionIds = {a1, a2, a3}
  MaxActions = 3
  MaxDependencies = 2
  ResultIds = {r1, r2}
  MaxResults = 2
  Claims <- MCClaims
  Refs <- MCRefs
  Reasons = {1, 2}
  MaxNodes = 3
  MaxEdges = 2
  Chunks <- MCChunks
  Openers <- MCMaps
  MaxChunks = 4
  Symbols <- MCSymbols
  MaxSymbols = 5
  Bytes <- MCBytes
  Limits <- MCLimits

SPECIFICATION DecisionSpec

SYMMETRY IdSymmetry

CHECK_DEADLOCK FALSE

INVARIANTS
  PlansCanBeCarriedOut
  ResultsTellWhatIsOpen
  GraphsAreCanonical
  OnlyCanonicalFormsAreAccepted
