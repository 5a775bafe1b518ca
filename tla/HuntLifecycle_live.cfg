SPECIFICATION HuntFairSpec
CONSTANTS
  Hunt = {h1}
  Worker = {w1, w2}
  Call = {c1}
  MaxActive = 1
  MaxHolds = 1
  Concurrency = 1
  Threshold = 2
  MaxJobs = 2
  MaxBookings = 1
  MaxCrashes = 0
  NoHunt = NoHunt
CHECK_DEADLOCK FALSE
PROPERTIES KeepsScanning FailuresAddUp
