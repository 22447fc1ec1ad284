SPECIFICATION Spec
CONSTANTS
  Cameras = {c1}
  Inputs = {"forward_stop"}
  QueueCap = 1
  HoldTime = 0
  ReconnectAfter = 0
  MaxFaults = 1
  FaultKinds = {"dirtyStart", "lostAck"}
INVARIANTS ResetClearsDevice
