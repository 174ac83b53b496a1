SPECIFICATION FairSpec
CONSTANTS
  Clients = {c1}
  Requests = {q1, q2}
  Buckets = {b1, b2}
  NoBucket = NoBucket
  NoClient = NoClient
  requestsPerMin = 2
  Minute = 3
  lockoutDuration = 3
  maxViolations = 2
  StaleThreshold = 6
  MaxSweep = 1
INVARIANT
  TypeOK
PROPERTIES
  ImplementsBound
  ServedAgain
  QuietIsForgotten
