SPECIFICATION Spec
CONSTANTS
  c1 = c1  c2 = c2  x = x  y = y
  claim = claim  reworded = reworded  recycled = recycled  broken = broken
  take = take  free = free
  Clients = {c1, c2}
  Drafts = {x, y}
  Documents = {claim, reworded, recycled, broken}
  Staged <- MCStaged
  Invalid = {broken}
  Foreign = {take, free}
  Keys = {"k1", "k2", "k3", "k4", "k5"}
  KeyOf <- MCKeyOf
  Stores = {0, 1}
  InitStore = 0
  Evaluate <- MCEvaluate
  MaxCalls = 4
SYMMETRY Symmetry
CHECK_DEADLOCK FALSE
INVARIANTS
  CommittedIsAccepted
  EditsNotLost
