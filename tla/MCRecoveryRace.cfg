SPECIFICATION FairSpec
CONSTANTS
  Items = {i1, i2}
  Rpc = {r1}
  Trackers = {k1, k2}
  Starter = Starter
  Sweeper = Sweeper
  NoThread = NoThread
  NoItem = NoItem
  Requests = {"execute", "reconcile"}
  Parents = {}
  EditStates = {}
  MaxEpoch = 2
  MaxGrants = 1
CHECK_DEADLOCK FALSE
PROPERTY QueuedIsDispatched
