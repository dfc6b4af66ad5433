CONSTANTS
  g1 = g1
  g2 = g2
  s1 = s1
  s2 = s2
  Posts = {1, 2}
  Groups = {g1}
  Destinations = {g1}
  Sources = {s1}
  SourceOf <- AllFromFirst
  Configs <- PostConfigs
  MaxPending = 1
  MaxAttempts = 2
  Cooldown = 1
  HourLen = 0
  DayLen = 0
  HourlyBudget = 1
  DailyBudget = 1
  FloodStrikes = 1
  BreakerLen = 1
  PeerLen = 1
  Windowed = FALSE
  CatchupLimit = 2
  Window = 1
  Fresh = 0
  MayFail = {g1}
  MaxJobs = 2
SPECIFICATION Spec
INVARIANTS AckIsFinal NothingMissed
PROPERTY KeepsLedger
