SPECIFICATION TurnsEndSpec
CONSTANTS
  Items = {i1, i2}
  Rpc = {r1}
  Trackers = {k1, k2}
  Starter = Starter
  Sweeper = Sweeper
  NoThread = NoThread
  NoItem = NoItem
  Requests = {"execute", "sweep"}
  Parents = {i1, i2}
  EditStates = {}
  MaxEpoch = 1
  MaxGrants = 1
CHECK_DEADLOCK FALSE
PROPERTY RunningSettles
