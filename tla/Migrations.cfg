SPECIFICATION FairSpec
CONSTANTS
  Procs = {p1, p2}
  NoProc = NoProc
  NoVersion = NoVersion
  share_links = share_links
  sessions = sessions
  processing_queue = processing_queue
  message = message
  Objects = {share_links, sessions, processing_queue, message}
  Versions <- Files
  Releases <- FileReleases
  Creates <- FileCreates
  Needs <- FileNeeds
  Lenient <- FileLenient
  MaxFaults = 2
INVARIANTS
  TypeOK
  SchemaIsRecorded
PROPERTIES
  ImplementsMigrationLog
  ServesInTheEnd
