SPECIFICATION Spec
CONSTANTS
  c1 = c1  c2 = c2
  Clients = {c1, c2}
  Paths = {"a"}
  Sources = {"a", "b"}
  Contents = {"text"}
  Manifests <- MCManifests
  Dated = {}
  Candidates <- MCCandidates
  MaxCalls = 3
  MaxTime = 1
SYMMETRY Symmetry
CHECK_DEADLOCK FALSE
INVARIANTS
  ItemsRegistered
  BlobBeforeTold
  BatchTellsTruth
