\* Logins, resets and the rotation of the owner.
SPECIFICATION Spec
CONSTANTS
  olga = olga
  egor = egor
  Accounts = {olga, egor}
  Users = {1, 2, 3}
  Initials <- BeforeOwner
  Recovery = olga
  Txns = {t1, t2}
  Operations = {"login", "request", "reset", "rotate", "end"}
  AssignedRoles = {"ADMIN"}
  Heirs = {egor}
  MaxSessions = 2
  MaxRequests = 1
  None = None
SYMMETRY TxnSymmetry
INVARIANTS
  DetachedHaveNoSessions
  FirstLoginOnce
  OwnerCanSignIn
CHECK_DEADLOCK FALSE
