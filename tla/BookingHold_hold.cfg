SPECIFICATION HoldSpec
CONSTANTS
  Request = {r1, r2}
  Key = {k1}
  Ttl = 1
  MaxAttempts = 2
  MaxDead = 1
  NoRequest = NoRequest
  NoKey = NoKey
  Hunt = {h1}
  Worker = {w1, w2}
  Call = {c1}
  MaxActive = 1
  MaxHolds = 1
  Concurrency = 1
  Threshold = 2
  MaxJobs = 2
  MaxBookings = 2
  MaxCrashes = 1
  NoHunt = NoHunt
CHECK_DEADLOCK FALSE
SYMMETRY Alike
INVARIANTS OneAtATime TwiceOnlyByMishap MissingPnrMeansLostAnswer
  HuntingIsScheduled HoldsAreCounted ExtraHoldMeansOverlap
