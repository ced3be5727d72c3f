SPECIFICATION FairSpec
CONSTANT Scripts <- MCScripts
INVARIANTS NormalEndIsWhole NothingIsLeftOpen ErrorNamesTheCause
PROPERTIES StopsAtOnce BodyIsLetGo
