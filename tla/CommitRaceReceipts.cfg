CONSTANTS
  c1 = c1
  c2 = c2
  k1 = k1
  k2 = k2
  k3 = k3
  claim = claim
  rival = rival
  other = other
  oversized = oversized
  late = late
  Clients <- MCClients
  Proposals <- MCRaceProposals
  Keys = {k1, k2, k3}
  KeyOf <- MCRaceKeyOf
  Preflight = {}
  NumTables = 2
  Contents = {0, 1, 2}
  InitStore <- MCInitStore
  Evaluate <- MCEvaluate
  NoClient = NoClient
  MaxCalls = 3
SPECIFICATION Spec
CHECK_DEADLOCK FALSE
INVARIANTS
  ReceiptStreamVerifies
