SPECIFICATION FairSpec
CONSTANTS
  Old = {a}
  New = {b}
  MaxWrites = 2
  MaxRequests = 1
  MaxFaults = 1
INVARIANT TypeOK
INVARIANT MirrorIsItsVersion
PROPERTY BoardLoads
PROPERTY PolledBoardSettles
