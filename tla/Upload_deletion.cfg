SPECIFICATION Spec
CONSTANTS
  a1 = a1
  f1 = f1
  f2 = f2
  r1 = r1
  NoFile = NoFile
  Albums = {a1}
  Deletable = {a1}
  Erasable = {f1}
  Requests = {r1}
  Files = {f1, f2}
  AlbumOf <- MCAlbumOf
  TargetOf <- MCTargetOf
  TempMaxAge = 1
  ListLimit = 1
  MaxExits = 1
  MaxFaults = 0
CHECK_DEADLOCK FALSE
INVARIANTS
  PhotoHasFile
  DeletedAlbumStaysEmpty
PROPERTY
  ImplementsLedger
