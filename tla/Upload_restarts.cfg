SPECIFICATION Spec
CONSTANTS
  a1 = a1
  f1 = f1
  f2 = f2
  r1 = r1
  NoFile = NoFile
  Albums = {a1}
  Deletable = {}
  Erasable = {f1}
  Requests = {r1}
  Files = {f1, f2}
  AlbumOf <- MCAlbumOf
  TargetOf <- MCTargetOf
  TempMaxAge = 1
  ListLimit = 3
  MaxExits = 2
  MaxFaults = 1
CHECK_DEADLOCK FALSE
INVARIANTS
  TypeOK
  OnePhotoPerUpload
  StatusTellsTheTruth
  FreshUploadKeepsTemp
  OneStrandedPerExit
