SPECIFICATION FairSpec
CONSTANTS
  Tabs = {t1, t2}
  browser = browser
  Browsers = {browser}
  BrowserOf <- OneBrowser
  Nonces = {1, 2, 3, 4}
  NoToken = NoToken
  Configured = {TRUE, FALSE}
  MaxRestarts = 1
  MaxDrops = 1
INVARIANT
  TypeOK
PROPERTIES
  PagesKeepWorking
  RefusalsEnd
