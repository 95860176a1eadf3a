SPECIFICATION FairSpec
CONSTANTS
  Queues = {q1, q2}
  Requests = {r1, r2, r3}
  MaxWritebacks = 1
  None = None
INVARIANT CountersExact
INVARIANT ProcessedInOrder
PROPERTY CallsReturn
