SPECIFICATION FairSpec
CONSTANTS
  Items = {i1}
  Rpc = {r1}
  Trackers = {k1, k2}
  Starter = Starter
  Sweeper = Sweeper
  NoThread = NoThread
  NoItem = NoItem
  Requests = {"execute", "drain", "sweep"}
  Parents = {}
  EditStates = {}
  MaxEpoch = 2
  MaxGrants = 1
CHECK_DEADLOCK FALSE
PROPERTY UncertainSettles
PROPERTY QueuedIsDispatched
