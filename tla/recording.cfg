SPECIFICATION RecordingSpec
CONSTANTS
  Viewers = {v1, v2}
  EnableRecording = FALSE
  NoOne = NoOne
  PathViewers = {v1, v2, v3}
  RetryMaxAttempts = 3
INVARIANTS MarkExplained
PROPERTIES HandlersEndWhenOff WedgedForGood
CHECK_DEADLOCK FALSE
