SPECIFICATION FairSpec
CONSTANTS
  Ctls = {c1, c2}
  MaxStarts = 1
  MaxLoose = 0
PROPERTY
  EveryCallReturns
CHECK_DEADLOCK FALSE
