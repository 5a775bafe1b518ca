SPECIFICATION FairSpec
CONSTANTS
  s1 = s1
  s2 = s2
  a1 = a1
  a2 = a2
  Session = {s1, s2}
  Account = {a1, a2}
  AccountOf <- OwnAccounts
  LoginRow <- OwnRows
  Seeded <- BothRows
  Client = {c1, c2}
  Reserved = 1
  MaxFailures = 2
  Cooldown = 1
  MaxLost = 1
  NoSession = NoSession
  Nobody = Nobody
  Gone = Gone
INVARIANTS BusyIsAccounted
PROPERTIES LeaseSpec SessionsComeBack BreakerOpens
