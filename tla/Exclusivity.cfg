CONSTANTS
  g1 = g1
  g2 = g2
  Accounts = {1, 2, 3}
  Groups = {g1}
  Sources = {1, 2}
  PromoIds = {1, 2}
  RowOf <- RowsBackwards
  Owner <- OwnerByHash
  Chosen <- ChosenByHash
  Fallback = {1}
  Catalogs <- AnyCatalog
  Begin <- AnyProfiles
  MaxEdits = 1
SPECIFICATION FairSpec
INVARIANTS TypeOK OnlyStale PushedExclusive
PROPERTIES NeverSteals Converges
