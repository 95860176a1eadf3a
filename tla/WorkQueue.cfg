SPECIFICATION FairSpec
CONSTANTS
  Workers = {t1, t2}
  Clients = {c1, c2}
  Main = Main
  w1 = w1
  w2 = w2
  w3 = w3
  Works = {w1, w2, w3}
  Priority <- MixedPriority
  Requests = Requests
  Pill = Pill
  None = None
INVARIANT DequeueFindsWork
INVARIANT WorkConservation
INVARIANT PoolLifecycle
PROPERTY ImplementsWorkPool
PROPERTY CleanupCompletes
PROPERTY EveryWorkServed
\* A pool that has been cleaned up does nothing more.
CHECK_DEADLOCK FALSE
