SPECIFICATION Spec
CONSTANTS
  adam = adam  mary = mary  mike = mike  i1 = i1  i2 = i2  s1 = s1  s2 = s2
  None = None
  Users = {adam, mary}
  InitialRole <- PairRole
  Items = {i1}
  Signatures = {s1}
  Orders <- KnownOrder
  Requests = {1}
  Keys = {1, 2, 3, 4, 5, 6}
  KeysReused = FALSE
  Txns = {t1, t2}
  Commands = {"create", "accept", "return", "submit", "deliver"}
  AdminOps = {"access"}
  AssignedRoles = {"SENIOR_ENGINEER"}
  CatalogOps = {}
  MaxAggregate = 3
  MaxVersion = 5
SYMMETRY TxnSymmetry
INVARIANT RevisionsCanBeSubmitted

CHECK_DEADLOCK FALSE
