SPECIFICATION Spec
CONSTANTS
  Links = {l1}
  Viewers = {v1}
  Requests = {q1}
  Addrs = {x1}
  NoLink = NoLink
  NoViewer = NoViewer
  NoHash = NoHash
  MaxLimit = 1
  SecretSet = TRUE
  MaxRestarts = 0
  MaxErrors = 0
CHECK_DEADLOCK FALSE
PROPERTY
  CountedVisitorGetsPhotos
