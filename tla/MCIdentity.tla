----------------------------- MODULE MCIdentity -----------------------------
(* Instances of Identity for TLC.                                           *)
EXTENDS Identity, TLC

CONSTANTS olga, egor

Row(role, access) == [role |-> role, access |-> access]

\* An owner and a rejected engineer; an id is left for the next first login.
OwnerAndEngineer ==
  {[ident |-> (olga :> 1) @@ (egor :> 2),
    users |-> <<OwnerRow, Row("ENGINEER", "REJECTED"), NoRow>>]}

\* Before there is an owner: nobody has signed in yet, or the recovery
\* account was configured for an administrator.
BeforeOwner ==
  {[ident |-> (olga :> None) @@ (egor :> None),
    users |-> <<NoRow, NoRow, NoRow>>],
   [ident |-> (olga :> 1) @@ (egor :> 2),
    users |-> <<Row("ADMIN", "APPROVED"), Row("ENGINEER", "PENDING"), NoRow>>]}

TxnSymmetry == Permutations(Txns)
=============================================================================
