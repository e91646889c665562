------------------------------- MODULE Journal -------------------------------
(***************************************************************************)
(* Movements, and what a journal of them amounts to: the vocabulary that   *)
(* the warehouse (module Warehouse) and its abstract specification (module *)
(* Ledger) share.                                                          *)
(***************************************************************************)
EXTENDS Integers, Sequences, FiniteSets, Functions

CONSTANTS
  Users,          \* user accounts
  Locations,      \* location ids; integers, rows are locked in their order
  Items,          \* catalog item ids; integers, rows are locked in their order
  Keys,           \* client_request_ids that clients may send
  Procurements,   \* procurement requests awaiting acceptance ({}: none)
  Quantities,     \* quantities a movement line may carry
  MaxQuantity,    \* stands for 2^53 - 1, the largest supported balance
  None            \* absent user or location

MovementTypes == {"RECEIPT", "ISSUE", "RETURN", "TRANSFER",
                  "WRITE_OFF", "CORRECTION", "REVERSAL"}

\* A movement, which is also the request that asks for it: the fingerprint
\* covers every field the client sent, so two requests of one actor have the
\* same fingerprint exactly when these records are equal.  orig is the
\* original's place in the journal, 0 for a movement without one.
Movements ==
  [type : MovementTypes, actor : Users, custody : Users \cup {None},
   src : Locations \cup {None}, dst : Locations \cup {None},
   lines : UNION {[S -> Quantities] : S \in (SUBSET Items) \ {{}}},
   orig : Nat, key : Keys \cup Procurements]

ASSUME JournalAssumption ==
  /\ Locations \subseteq Int /\ Items \subseteq Int
  /\ IsFiniteSet(Locations) /\ IsFiniteSet(Items)
  /\ Quantities \subseteq Nat \ {0}
  /\ MaxQuantity \in Nat
  /\ None \notin Users /\ None \notin Locations
  /\ None \notin Movements
  /\ Keys \cap Procurements = {}

Places(m) == {m.src, m.dst} \ {None}

ValidPositions(m) ==
  /\ m.src # m.dst
  /\ m.type \in {"RECEIPT", "RETURN"}  => m.src = None
  /\ m.type \in {"ISSUE", "WRITE_OFF"} => m.dst = None
  /\ m.type = "TRANSFER"               => m.src # None /\ m.dst # None
  /\ (m.orig # 0) <=> (m.type \in {"CORRECTION", "REVERSAL"})

-----------------------------------------------------------------------------
Quantity(m, i) == IF i \in DOMAIN m.lines THEN m.lines[i] ELSE 0

StockDelta(m, i, l) ==
  (IF m.dst = l THEN Quantity(m, i) ELSE 0)
    - (IF m.src = l THEN Quantity(m, i) ELSE 0)

CustodySign(type, origType) ==
  CASE type = "ISSUE"                            ->  1
    [] type = "RETURN"                           -> -1
    [] type = "REVERSAL" /\ origType = "ISSUE"   -> -1
    [] type = "REVERSAL" /\ origType = "RETURN"  ->  1
    [] OTHER                                     ->  0

OriginalType(j, m) == IF m.orig \in DOMAIN j THEN j[m.orig].type ELSE "none"

CustodyDelta(j, m, u, i) ==
  IF m.custody = u THEN CustodySign(m.type, OriginalType(j, m)) * Quantity(m, i)
                   ELSE 0

\* The balances a journal amounts to: what the projections are derived from.
JournalStock(j, i, l) ==
  SumFunction([n \in DOMAIN j |-> StockDelta(j[n], i, l)])

JournalCustody(j, u, i) ==
  SumFunction([n \in DOMAIN j |-> CustodyDelta(j, j[n], u, i)])

\* Mutant: only the upper bound is checked.
InRangeNoFloor(q) == q <= MaxQuantity

InRange(q) == q \in 0 .. MaxQuantity

SameKey(m, n) == m.actor = n.actor /\ m.key = n.key
=============================================================================
