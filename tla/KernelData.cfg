SPECIFICATION Spec
CONSTANTS
  a = a  b = b  c = c  d = d
  la = la  lb = lb  lc = lc  ld = ld  la2 = la2
  src = src
  alice = alice  bot = bot  rogue = rogue
  d1 = d1  d2 = d2  d3 = d3  q1 = q1  w1 = w1
  Predicate <- MCPredicate
  MinEvidence = 1
  Claim <- MCClaim
  Link <- MCLink
  Human <- MCHuman
  Offered <- Menu
  MaxEntries = 6
  Before <- MCBefore
  MaxRefs = 2
  Budgets <- MCBudgets
  Tasks <- MCTasks
  TaskBudgets <- MCTaskBudgets
  SkillScore <- MCSkillScore
  MinCore = 1
CHECK_DEADLOCK FALSE
INVARIANTS
  ReplayParity
  NoSilentContradiction
  EpisodeHistory
  ReadsAreCurrent
  LinksResolve
  BothSidesShown
  HintsSuffice
  
PROPERTIES
  ChangesAreTold
