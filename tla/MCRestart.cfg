SPECIFICATION Spec
CONSTANTS
  Items = {i1}
  Rpc = {r1}
  Trackers = {k1, k2}
  Starter = Starter
  Sweeper = Sweeper
  NoThread = NoThread
  NoItem = NoItem
  Requests = {"execute", "submit", "drain", "resolve", "edit", "reconcile"}
  Parents = {}
  EditStates = {"interrupted", "queued"}
  MaxEpoch = 2
  MaxGrants = 2
SYMMETRY FullSymmetry
CHECK_DEADLOCK FALSE
INVARIANT TypeOK
INVARIANT IInv
INVARIANT NoBlindReplay
INVARIANT ActiveIsOwned
INVARIANT RunningIsTracked
INVARIANT DispatchingIsHeld
