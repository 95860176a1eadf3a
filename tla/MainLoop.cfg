SPECIFICATION Spec
CONSTANTS
  f1 = f1
  f2 = f2
  Files = {f1, f2}
  Hooks = {h1, h2}
  Timers = {t1}
  Wanted <- MCWanted
  PollFlags = {"in", "out", "hup"}
  MaxTime = 2
INVARIANT ListsConsistent
INVARIANT SleepWatchesHandlers
INVARIANT HooksRunBeforeSleep
INVARIANT TimersNotOverslept
PROPERTY ShutdownExact
