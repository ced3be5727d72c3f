SPECIFICATION FairSpec
CONSTANTS
  Answers <- MCAnswers
  Identity <- MCIdentity
  MaxRetries = 2
  MaxMembers = 2
INVARIANTS
  TypeOK
  OneChargePerMember
  VerdictIsTheBill
PROPERTIES
  TurnEnds
  ImplementsBilledTurn
