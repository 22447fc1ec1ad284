SPECIFICATION LiveSpec
CONSTANTS
  Cameras = {c1}
  Inputs <- Signals
  Raised = {{"forward_stop"}}
  Debounce = 1
  QueueCap = 1
  HoldTime = 1
  ReconnectAfter = 0
  MaxFaults = 0
  FaultKinds = {}
PROPERTIES HeldStopShown AlarmEnds HeartbeatBeats StopTerminates SendEnds
