SPECIFICATION FairSpec
CONSTANTS
  Procs = {p1, p2}
  NoProc = NoProc
  Overlap = FALSE
  HasProcFS = TRUE
  Handlers = {h1}
  Kinds = {"restart-all"}
  Faults = {"boot"}
CHECK_DEADLOCK FALSE
PROPERTY RestartDrainsEnd
