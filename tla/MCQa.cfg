SPECIFICATION MCSpec
CONSTANTS
  t1 = t1
  t2 = t2
  p1 = p1
  Drivers = {t1, t2, p1}
  PhaseOf <- MCPhaseOf
  Identities <- MCIdentities
  Caps = {1}
  AutoCap = 2
  TurnLimit <- MCTurnLimit
  RouteLimit <- MCRouteLimit
  ReadLimit = 0
  PostLimit = 2
  SpendLimit = 2
  MaxCrashes = 2
SYMMETRY Symmetry
INVARIANTS TypeOK DispatchedIsOnRecord NeverTwice ClaimedOnce WithinSpend PythonWaits CompleteIsObserved ZeroIsEarned
PROPERTY NothingAfterATear
