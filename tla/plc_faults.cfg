SPECIFICATION ControllerSpec
CONSTANTS
  Cameras = {c1}
  Inputs = {"forward_stop"}
  QueueCap = 1
  HoldTime = 0
  ReconnectAfter = 0
  MaxFaults = 2
  FaultKinds = {"lostAck", "powerCycle"}
INVARIANTS TypeOK TickPublishes HeldAlarmIsAsserted ShutdownClears CoherentWhenLossless
PROPERTIES DeviceFollowsHolds
