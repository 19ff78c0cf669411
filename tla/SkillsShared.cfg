SPECIFICATION Spec
CONSTANTS
  c1 = c1  c2 = c2  plain = plain  other = other
  NoClient = NoClient
  Clients = {c1, c2}
  Contents = {plain, other}
  Actors = {"tests"}
  Packages <- MCPackages
  Direct <- MCDirect
  MaxVersion = 3
  MaxTime = 2
  MaxCalls = 3
SYMMETRY Symmetry
CHECK_DEADLOCK FALSE
INVARIANTS
  OneApproved
  ReplayOfPlain
  NothingCommittedIsLost
  
