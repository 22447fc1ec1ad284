SPECIFICATION Spec
CONSTANTS
  Platforms = {"linux_amd64"}
  Restarts = {"r1", "r2"}
  MaxGen = 1
  MaxSignals = 0
INVARIANTS Go2RTCStopped
CHECK_DEADLOCK FALSE
