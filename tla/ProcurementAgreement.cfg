\* One request, its manager and initiator, with keys that are reused.
SPECIFICATION Spec
CONSTANTS
  adam = adam  mary = mary  mike = mike  i1 = i1  i2 = i2  s1 = s1  s2 = s2
  None = None
  Users = {adam, mary}
  InitialRole <- PairRole
  Items = {i1}
  Signatures = {s1}
  Orders <- KnownOrder
  Requests = {1}
  Keys = {1, 2, 3}
  KeysReused = TRUE
  Txns = {t1, t2}
  Commands = {"create", "accept", "return", "submit", "take", "transfer"}
  AdminOps = {"access", "role", "reset"}
  AssignedRoles = {"MANAGER"}
  CatalogOps = {}
  MaxAggregate = 3
  MaxVersion = 3
SYMMETRY TxnSymmetry
INVARIANTS
  InitiatorsKeepAgreement
  SeenIsApplied
  RetriesAgree
  ManagersTold
  ParticipantsKeepAccounts
CHECK_DEADLOCK FALSE
