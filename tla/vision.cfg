SPECIFICATION VisionSpec
CONSTANTS
  InputW = 6
  InputH = 8
  Sizes <- TestSizes
  Answers <- TestAnswers
  NmsNum = 1
  NmsDen = 3
  Unit = 2
  W = 4
  H = 4
  RegionLists <- TestLists
  Scenes <- TestScenes
  CONF_THRESH = 1
  Confidence = 2
INVARIANTS PictureMapsBack SuppressionSound PolygonsRight ModesAgree
CHECK_DEADLOCK FALSE
