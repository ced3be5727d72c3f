SPECIFICATION FairSpec
CONSTANTS
  Script <- MCScript
  Ids <- MCIds
  NullId = "null"
  NoId = "none"
  Costs = {0, 1}
  MaxCompare = 3
INVARIANTS
  EveryRequestOneReply
  CheapestFirst
PROPERTY NothingIsHeldUp
