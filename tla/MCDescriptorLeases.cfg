\* Two goroutines issue, lend, walk from and close a root, a Trash and a parent lease.
CONSTANTS
  Callers = {c1, c2}
  Root = root
  Parent = parent
  trash = trash
  Bundles = {trash}
  Roles = {"files", "info"}
  RolesOf <- MCRolesOf
  Rank <- MCRank
  Handoffs <- MCHandoffs
  Opener = opener
  NoCaller = nocaller
  NoLease = nolease
  FirstNumber = 2
  NumberLimit = 7
  AttemptLimit = 2
  Depth = 1
  Unstable = {"namespace"}
  MaxChanges = 2
SPECIFICATION FairSpec
INVARIANTS
  LeaseInv
  DescriptorsHaveOneOwner
  LentIsWhole
  ClosedLeasesLendNothing
  
PROPERTY CallsReturn
