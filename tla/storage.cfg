SPECIFICATION StorageSpec
CONSTANTS
  Saves = {s1, s2, s3}
  NoPicture = NoPicture
  Cameras = {"cam1", "cam2"}
  Seconds = {1, 2, 3}
  MaxRows = 3
  PageSize = 1
  DefaultSize = 2
  MaxPage = 4
INVARIANTS RegionsKept UrlsLeadToFiles ScanComplete
PROPERTIES ExpiredIsRemoved
CHECK_DEADLOCK FALSE
