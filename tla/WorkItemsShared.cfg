SPECIFICATION HelpersSpec
CONSTANTS
  c1 = c1  c2 = c2  bot = bot
  Callers = {c1, c2}
  Author <- MCAuthor
  NumItems = 2
  Outside = {2}
  Related <- MCRelated
  Wanted = {"DOING"}
  PageSize = 1
  MaxItemCalls = 3
  MaxOthers = 2
SYMMETRY Symmetric
CHECK_DEADLOCK FALSE
INVARIANTS
  ToldIsRecorded
  OnlyContendedRefused
  ListIsWhole
