SPECIFICATION Spec
CONSTANTS
  f1 = f1
  f2 = f2
  Files = {f1, f2}
  Hooks = {h1}
  Timers = {t1}
  Wanted <- MCWanted
  PollFlags = {"in", "out", "hup"}
  MaxTime = 2
INVARIANT NotCalledWhenRelinked
