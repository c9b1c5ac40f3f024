SPECIFICATION FairSpec
CONSTANTS
  Msgs = {m1, m2}
  Lanes = {l1, l2}
  Nobody = Nobody
  NoMsg = NoMsg
  MaxUnsent = 1
  MaxFaults = 2
  MaxStops = 1
CHECK_DEADLOCK FALSE
INVARIANT TypeOK
INVARIANT NothingLost
INVARIANT OnePlace
INVARIANT SettledIsGone
PROPERTY AcceptedSettles
