CONSTANTS
  g1 = g1
  g2 = g2
  Accounts = {1, 2, 3}
  Groups = {g1}
  Sources = {1, 2}
  PromoIds = {1, 2, 3}
  RowOf <- RowsBackwards
  Owner <- OwnerByHash
  Chosen <- ChosenByHash
  Fallback = {}
  Catalogs <- AnyCatalog
  Begin <- NoGroups
  MaxEdits = 3
SPECIFICATION Spec
PROPERTIES SyncedExclusive
