SPECIFICATION Spec
CONSTANTS
  adam = adam  mary = mary  mike = mike  i1 = i1  i2 = i2  s1 = s1  s2 = s2
  None = None
  Users = {adam, mary}
  InitialRole <- PairRole
  Items = {i1, i2}
  Signatures = {s1, s2}
  Orders <- MixedOrder
  Requests = {1}
  Keys = {1, 2, 3, 4, 5, 6}
  KeysReused = FALSE
  Txns = {t1}
  Commands = {"create", "accept", "return", "submit", "deliver", "bind", "create_bind", "discrepancy", "complete"}
  AdminOps = {}
  AssignedRoles = {"ENGINEER"}
  CatalogOps = {"edit", "archive", "delete"}
  MaxAggregate = 3
  MaxVersion = 6

INVARIANTS AggregatesHold LinesKeepItems
PROPERTIES AcceptedAsApproved VersionCoversState
CHECK_DEADLOCK FALSE
