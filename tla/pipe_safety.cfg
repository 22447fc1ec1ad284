SPECIFICATION AlarmSpec
CONSTANTS
  Cameras = {c1}
  Inputs <- Signals
  Raised = {{"forward_stop", "back_stop"}, {"forward_slow"}}
  Debounce = 1
  QueueCap = 1
  HoldTime = 2
  ReconnectAfter = 0
  MaxFaults = 0
  FaultKinds = {}
INVARIANTS SuppressedIsKnown
PROPERTIES ImplementsLatch
