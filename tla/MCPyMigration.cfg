SPECIFICATION PSFairSpec
CONSTANTS
  Answers <- MCAnswers
  Models <- MCModels
  FreshKey <- MCFreshKey
  Turns <- MCUnlisted
  MaxRetries = 2
  MaxMembers = 2
  MaxFrames = 3
INVARIANT EverythingIsCarriedOrRefused
