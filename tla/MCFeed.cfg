SPECIFICATION FairSpec
CONSTANTS
  Patched = {p}
  Hinted = {h}
  Capacity = 1
  MaxBoots = 2
  MaxPatches = 2
  MaxHints = 1
  MaxFaults = 2
  ConcurrentWriters = FALSE
  FreshProfile = FALSE
  SlowReads = FALSE
CHECK_DEADLOCK FALSE
INVARIANT StreamInv
INVARIANT CaughtUpIsCurrent
PROPERTY PushConverges
PROPERTY FeedPromise
