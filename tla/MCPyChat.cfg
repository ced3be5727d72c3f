SPECIFICATION PSFairSpec
CONSTANTS
  Answers <- MCAnswers
  Models <- MCModels
  FreshKey <- MCFreshKey
  Turns <- MCTurns
  MaxRetries = 2
  MaxMembers = 2
  MaxFrames = 3
INVARIANTS
  TypeOK
  OneChargePerMember
  OneBillUnlessOptedIn
  VerdictIsTheBill
  NothingIsDropped
  StreamIsWhole
PROPERTIES
  TurnEnds
  ImplementsBilledTurn
