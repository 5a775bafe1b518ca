SPECIFICATION ServicesSpec
CONSTANTS
  Null = Null
  Answers <- MCAnswers
  Hunts <- MCHunts
  Targets <- MCTargets
  MaxDays = 2
  LowSeats = 5
  MaxRuns = 3
  Verifier = {v1, v2}
  Challenge = {o1, o2}
  MaxAttempts = 2
  MaxRequests = 3
  NoChallenge = NoChallenge
  User = {u1, u2, u3}
  Claimer = {q1, q2}
  Quantity = 1
  Nobody = Nobody
  Record = {r1, r2, r3}
  Writer = {w1, w2}
  None = None
  ApiProcess = {p1, p2}
  Caller = {c1, c2}
  Token = {1, 2, 3, 4, 5, 6, 7}
  MaxLost = 1
  NoToken = NoToken
  Notice = {1, 2}
  PageSize = 2
  Mark = {m1, m2}
  MaxFailed = 2
  NoList = NoList
  Screen = {y1, y2}
  MaxQrs = 2
  QrLife = 2
  ReplayLife = 1
  MaxFlaws = 1
  HuntId = {h1}
  List = List
  Command = {e1, e2}
  MaxWalks = 2
  MaxUpsets = 1
  NoCopy = NoCopy
  NoHunt = NoHunt
  Flight = {f1}
  Passenger = {a, k}
  Primary = a
  Adult = {a}
  Press = {1, 2}
  MaxTrail = 5
  MaxTurns = 1
  NoOne = NoOne
CHECK_DEADLOCK FALSE
INVARIANTS PagesAreTrue OtpLimitsHold OverIssueMeansOverlap StaleMeansOvertaken UnseenMeansLeft
PROPERTIES RunTellsTheTruth LoneWriteHeals OfferedQrIsLive
