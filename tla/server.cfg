SPECIFICATION ServerSpec
CONSTANTS
  Platforms = {"linux_amd64", "linux_arm64", "darwin_arm64"}
  Restarts = {"r1", "r2"}
  MaxGen = 1
  MaxSignals = 1
  Requests = {"save1", "save2", "save3"}
  BodyOf <- MCBodyOf
  First <- MCFirst
  Keys = {"driver", "secret", "timeout"}
  SectionOf <- MCSectionOf
  Required = {"database"}
  Bad = {"wrong"}
  Env <- MCEnv
  Unset = Unset
  Empty = Empty
  Broken = Broken
INVARIANTS StopsAreSafe 
PROPERTIES StopsEnd SavesReachConf
CHECK_DEADLOCK FALSE
