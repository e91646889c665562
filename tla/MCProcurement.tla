---------------------------- MODULE MCProcurement ----------------------------
(* Instances of Procurement for TLC.                                        *)
EXTENDS Procurement, TLC

CONSTANTS adam, mary, mike, i1, i2, s1, s2

PairRole == (adam :> "ADMIN") @@ (mary :> "MANAGER")
TrioRole == PairRole @@ (mike :> "MANAGER")

Existing(i, n) == [proposed |-> FALSE, item |-> i, signature |-> None, quantity |-> n]
Proposed(s, n) == [proposed |-> TRUE, item |-> None, signature |-> s, quantity |-> n]

\* One known item.
KnownOrder == {<<Existing(i1, 1)>>}

\* A known and a proposed item that may turn out to be the same.
MixedOrder == {<<Existing(i1, 2), Proposed(s1, 2)>>}

TxnSymmetry == Permutations(Txns)
==============================================================================
