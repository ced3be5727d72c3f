SPECIFICATION FairSpec
CONSTANTS
  Threads = {t1, t2}
  Budget = 1
  MaxCost = 1
  Kinds <- MCKinds
  Retain = 1
  Attempts = 2
  MaxSeen = 5
INVARIANTS
  ReadsAreExact
  BudgetSeesAll
  WorstCase
PROPERTY
  HooksReturn
