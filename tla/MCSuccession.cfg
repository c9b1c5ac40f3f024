SPECIFICATION FairSpec
CONSTANTS
  Procs = {p1, p2, p3}
  NoProc = NoProc
  Overlap = FALSE
  HasProcFS = TRUE
  Handlers = {h1, h2}
  Kinds = {"worker-restart", "restart-all"}
  Faults = {}
CHECK_DEADLOCK FALSE
INVARIANT RTypeOK
INVARIANT SuccessionInv
INVARIANT ServerIsReachable
PROPERTY RecoveryIsAlone
PROPERTY RefusedOnlyByTheLiving
PROPERTY RestartDrainsEnd
