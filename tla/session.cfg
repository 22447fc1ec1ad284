SPECIFICATION FairSpec
CONSTANTS
  Buffers = {b1, b2, b3, b4, b5, b6}
  NoBuf = NoBuf
  ChCap = 1
  DetCap = 2
  FrameCount = 1
  MaxFrames = 3
INVARIANTS SingleOwner FrameIntact OneDecoder NoPushAfterClose
PROPERTIES PushOrder HandlerReturns StreamReopened
