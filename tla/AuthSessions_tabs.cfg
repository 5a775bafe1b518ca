SPECIFICATION AuthSpec
CONSTANTS
  Tokens = {r1, r2}
  Tabs = {t1, t2}
  browser = browser
  Stores <- MCStores
  StoreOf <- MCStoreOf
  Calls = {c1, c2}
  Handlers = {h1, h2}
  MaxTrouble = 1
  NoToken = NoToken
  NoTab = NoTab
SYMMETRY Symmetry
INVARIANTS OneLiveEnd StoreIsHonest
PROPERTIES ChainSpec
