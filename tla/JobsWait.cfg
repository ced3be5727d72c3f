SPECIFICATION FairSpec
CONSTANTS
  Waiters = {w1, w2}
  Python = {w2}
  Poll = 2
  MaxPoll = 3
INVARIANTS VerdictIsTrue StoppingHidesNothing
PROPERTY WaitEnds
