SPECIFICATION SetupSpec
CONSTANTS
  s1 = s1  s2 = s2
  Setups = {s1, s2}
  Explicit = {s2}
  PurposeOf <- Purposes
  StartFiles <- Present
  MaxBegun = 2
  MaxFaults = 1
  MaxEdits = 1
  MaxBudget = 2
CHECK_DEADLOCK FALSE
INVARIANTS
  
  RollbackRestores
  UserHooksKept
  BoundIsInstalled
