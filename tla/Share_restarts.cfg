SPECIFICATION FairSpec
CONSTANTS
  Links = {l1}
  Viewers = {v1}
  Requests = {q1, q2}
  Addrs = {x1, x2}
  NoLink = NoLink
  NoViewer = NoViewer
  NoHash = NoHash
  MaxLimit = 1
  SecretSet = FALSE
  MaxRestarts = 1
  MaxErrors = 1
CHECK_DEADLOCK FALSE
INVARIANTS
  TypeOK
  OverrunBounded
  CookieIsCounted
PROPERTIES
  DeadLinksWindDown
  ImplementsQuota
  RevokedLeavesNothing
