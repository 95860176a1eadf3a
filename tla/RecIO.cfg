SPECIFICATION FairSpec
CONSTANTS
  MaxBytes = 7
  Newlines <- MCNewlines
  InitBufSize = 3
  RecMax = 4
  Throttle = 2
  WriteBufSize = 2
  WriteLens = {1, 3}
  MaxBuffered = 3
INVARIANT NoLineMissed
INVARIANT BufferGeometry
INVARIANT StartNotLost
INVARIANT WritesAccounted
PROPERTY LinesDelivered
\* A deleted structure has nothing left to do.
CHECK_DEADLOCK FALSE
