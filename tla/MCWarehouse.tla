----------------------------- MODULE MCWarehouse -----------------------------
(* Small instances of Warehouse for TLC.                                    *)
EXTENDS Warehouse, TLC

\* One user is an engineer; the owner's own account cannot be changed.
EngineerAndOwner == [u \in Users |-> IF u = "eng" THEN "ENGINEER" ELSE "OWNER"]

\* Request transactions are interchangeable, and so are request ids.
TxnSymmetry == Permutations(Txns) \cup Permutations(Keys)
=============================================================================
