SPECIFICATION ServicesSpec
CONSTANTS
  Tokens = {r1, r2}
  Tabs = {t1}
  browser = browser
  Stores <- MCStores
  StoreOf <- MCStoreOf
  Calls = {c1, c2}
  Handlers = {h1, h2}
  MaxTrouble = 1
  NoToken = NoToken
  NoTab = NoTab
  Null = Null
  Note = {n1}
  Job = {j1, j2}
  Kinds = {"HUNT_FOUND", "HUNT_PROGRESS"}
  Quiet <- MCQuiet
  Day = 3
  Attempts = 2
  MaxMishaps = 2
  MaxEdits = 1
  Process = {p1}
  Searcher = {s1, s2}
  CacheTtl = 2
  RuleTtl = 2
  SnapshotTtl = 3
  MaxVersion = 1
  MaxOutages = 1
  Net = Net
  Screen = {y1}
  MaxQrs = 2
  QrLife = 2
  ReplayLife = 1
  MaxFlaws = 1
  Nobody = Nobody
CHECK_DEADLOCK FALSE
INVARIANTS MessagesAreAccountedFor AnswersAreRecent
PROPERTIES EveryCallEnds EveryNoteIsServed ErrorsEnd PaidIsShown
