SPECIFICATION FairSpec
CONSTANTS
  Procs = {p1, p2}
  MaxForks = 2
  Sigs = {u1, u2}
  PipeCap = 2
  SigchldHandler = SigchldHandler
  Iter = Iter
  None = None
PROPERTY ExitsNoticed
