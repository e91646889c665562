\* Access requests, decided in the web console and with buttons.
SPECIFICATION Spec
CONSTANTS
  olga = olga
  egor = egor
  Accounts = {olga, egor}
  Users = {1, 2, 3}
  Initials <- OwnerAndEngineer
  Recovery = olga
  Txns = {t1, t2}
  Operations = {"request", "access", "role", "decide", "reset", "press"}
  AssignedRoles = {"ADMIN"}
  Heirs = {egor}
  MaxSessions = 1
  MaxRequests = 2
  None = None
SYMMETRY TxnSymmetry
INVARIANTS
  DeadlocksAreKnown
PROPERTIES
  ApprovalsStand
  DecisionsStand
CHECK_DEADLOCK FALSE
