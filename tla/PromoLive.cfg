CONSTANTS
  g1 = g1
  g2 = g2
  s1 = s1
  s2 = s2
  Posts = {1, 2}
  Groups = {g1}
  Destinations = {g1}
  Sources = {s1}
  SourceOf <- AllFromFirst
  Configs <- LiveConfigs
  MaxPending = 2
  MaxAttempts = 2
  Cooldown = 2
  HourLen = 0
  DayLen = 0
  HourlyBudget = 1
  DailyBudget = 1
  FloodStrikes = 2
  BreakerLen = 2
  PeerLen = 1
  Windowed = FALSE
  CatchupLimit = 0
  Window = 0
  Fresh = 0
  MayFail = {}
  MaxJobs = 1
SPECIFICATION FairSpec
PROPERTY JobsSettle
