SPECIFICATION FairSpec
CONSTANTS
  Albums = {a1, a2}
  Photos = {p1}
  Requests = {q1, q2}
  NoAlbum = NoAlbum
  NoPhoto = NoPhoto
  NoFile = NoFile
  Broken = Broken
  Angles = {1}
  ListLimit = 1
  MaxFaults = 1
CHECK_DEADLOCK FALSE
INVARIANTS
  TypeOK
  PictureMatchesRow
  FilesHaveRows
  CoverOfOwnAlbum
PROPERTIES
  OrphansAreSwept
