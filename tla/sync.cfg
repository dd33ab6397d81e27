SPECIFICATION MCSpec
CONSTANTS
  MaxStamp = 60
  MaxDelta = 2
  QueueSize = 3
INVARIANT TypeOK
INVARIANT NoMatchableLeft
INVARIANT NoPairMissed
PROPERTY PairsMoveForward
PROPERTY PairsAtOnce
CHECK_DEADLOCK FALSE
