SPECIFICATION Spec
CONSTANTS
  Items = {i1, i2}
  Rpc = {r1, r2}
  Trackers = {k1, k2}
  Starter = Starter
  Sweeper = Sweeper
  NoThread = NoThread
  NoItem = NoItem
  Requests = {"execute", "drain", "reconcile", "sweep"}
  Parents = {}
  EditStates = {}
  MaxEpoch = 2
  MaxGrants = 1
CONSTRAINT OnePass
SYMMETRY FullSymmetry
INVARIANT NothingStranded
INVARIANT OneLateClaim
INVARIANT PromiseInv
PROPERTY WorkPromise
