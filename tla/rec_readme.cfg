SPECIFICATION FairSpec
CONSTANTS
  Viewers = {v1}
  EnableRecording = TRUE
  NoOne = NoOne
PROPERTIES DetectionRecords
CHECK_DEADLOCK FALSE
