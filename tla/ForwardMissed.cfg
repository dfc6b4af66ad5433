CONSTANTS
  s1 = s1
  d1 = d1
  Messages = {1, 2}
  Sources = {s1}
  SourceOf <- AllFromS1
  Routes = {1, 2}
  RouteSource <- RoutesFromS1
  Dests = {d1}
  DestOf <- RoutesToD1
  Fingerprint <- Distinct
  Configs <- DirectOnly
  Actives <- AllRoutes
  CatchupLimit = 2
  MayFail <- FirstOfFirst
  MaxStarts <- OnceOrTwice
SPECIFICATION Spec
INVARIANT NothingMissed
