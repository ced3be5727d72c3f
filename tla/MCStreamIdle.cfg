SPECIFICATION FairSpec
CONSTANT Scripts <- MCScripts
PROPERTY IdleMeansSilence
