SPECIFICATION Spec
CONSTANTS
  b1 = b1  b2 = b2  s1 = s1  s2 = s2  d1 = d1
  Builders = {b1, b2}
  Scenarios = {s1, s2}
  Drafts = {d1}
  MaxCommits = 1
  MaxCalls = 3
  MaxCrashes = 1
SYMMETRY Symmetric
CHECK_DEADLOCK FALSE
INVARIANTS
  LoneBuildRepairs
  ValidWasExact
  HandoffCoversDrafts
