SPECIFICATION SSpec
CONSTANTS
  Msgs = {m1, m2}
  Lanes = {l1, l2}
  Nobody = Nobody
  NoMsg = NoMsg
  MaxUnsent = 1
  MaxFaults = 0
  MaxStops = 1
CHECK_DEADLOCK FALSE
PROPERTY StoppedStaysParked
