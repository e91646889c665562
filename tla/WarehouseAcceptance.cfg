\* Acceptances of a delivery and transfers against item deletion and deadlocks.
SPECIFICATION FairSpec
CONSTANTS
  Users = {"own"}
  Locations = {1, 2}
  Items = {1}
  Keys = {"k1", "k2"}
  Procurements = {"pr"}
  Txns = {t1, t2}
  Types = {"RECEIPT", "TRANSFER", "CORRECTION", "REVERSAL"}
  AdminOps = {"item"}
  AssignedRoles = {"ENGINEER"}
  InitialRole <- EngineerAndOwner
  Quantities = {1}
  MaxQuantity = 1
  MaxMovements = 3
  None = None
INVARIANTS
  HistoryKeepsItems
  ProcurementReceiptsFinal
  LockOrderRespected
  DeadlocksAreKnown
PROPERTIES
  RequestsEnd
CHECK_DEADLOCK FALSE
