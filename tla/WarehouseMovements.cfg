\* Movements of two users against blocks, role changes, resets and archiving.
SPECIFICATION Spec
CONSTANTS
  Users = {"eng", "own"}
  Locations = {1}
  Items = {1}
  Keys = {k1, k2}
  Procurements = {}
  Txns = {t1, t2}
  Types = {"RECEIPT", "ISSUE", "RETURN", "WRITE_OFF", "CORRECTION", "REVERSAL"}
  AdminOps = {"access", "role", "reset", "location"}
  AssignedRoles = {"ENGINEER", "ADMIN"}
  InitialRole <- EngineerAndOwner
  Quantities = {1}
  MaxQuantity = 1
  MaxMovements = 3
  None = None
SYMMETRY TxnSymmetry
INVARIANTS
  TypeOK
  CustodyHoldersEligible
  ConstraintsNeverFire
  ProjectionsMatchJournal
  ArchivedLocationsEmpty
PROPERTIES
  ImplementsLedger
  AnswersMatchRequests
CHECK_DEADLOCK FALSE
