SPECIFICATION Spec
CONSTANTS
  Callers = {c1, c2, c3}
  Budget = 3
  MaxCost = 2
  Kinds <- MCKinds
  Retain = 2
  MaxSeen = 5
SYMMETRY CallersAlike
INVARIANTS
  WorstCase
  TotalsAreExact
