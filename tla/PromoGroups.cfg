CONSTANTS
  g1 = g1
  g2 = g2
  s1 = s1
  s2 = s2
  Posts = {1}
  Groups = {g1, g2}
  Destinations = {g1, g2}
  Sources = {s1, s2}
  SourceOf <- AllFromFirst
  Configs <- GroupConfigs
  MaxPending = 1
  MaxAttempts = 2
  Cooldown = 2
  HourLen = 0
  DayLen = 2
  HourlyBudget = 1
  DailyBudget = 2
  FloodStrikes = 2
  BreakerLen = 1
  PeerLen = 2
  Windowed = TRUE
  CatchupLimit = 1
  Window = 1
  Fresh = 0
  MayFail = {}
  MaxJobs = 2
SPECIFICATION Spec
INVARIANTS TypeOK NoRepost AckIsFinal CooldownHeld CircuitHeld WithinBudget
