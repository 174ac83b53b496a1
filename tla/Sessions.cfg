SPECIFICATION FairSpec
CONSTANTS
  Tabs = {t1, t2}
  browser = browser
  Browsers = {browser}
  BrowserOf <- OneBrowser
  Sessions = {s1, s2}
  NoSession = NoSession
INVARIANT
  TypeOK
PROPERTIES
  ImplementsDoor
  ExpiredAreSwept
