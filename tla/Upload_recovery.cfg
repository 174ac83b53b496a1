SPECIFICATION FairSpec
CONSTANTS
  a1 = a1
  f1 = f1
  f2 = f2
  r1 = r1
  NoFile = NoFile
  Albums = {a1}
  Deletable = {}
  Erasable = {}
  Requests = {r1}
  Files = {f1, f2}
  AlbumOf <- MCAlbumOf
  TargetOf <- MCTargetOf
  TempMaxAge = 1
  ListLimit = 3
  MaxExits = 1
  MaxFaults = 1
CHECK_DEADLOCK FALSE
PROPERTIES
  PendingIsTaken
  TempFileIsRemoved
  ProgressCompletesInOneRun
