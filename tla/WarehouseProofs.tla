--------------------------- MODULE WarehouseProofs ---------------------------
(***************************************************************************)
(* Theorems about module Warehouse, for every value of its constants.      *)
(*                                                                         *)
(* Every step is one of a few kinds (lemma Kinds): a request begins, ends, *)
(* advances by a lock or a check, or writes; or an administrator changes a *)
(* row.  The invariants say what a request has secured at each stage, and  *)
(* which locks it may hold there.                                          *)
(***************************************************************************)
EXTENDS Warehouse, FiniteLemmas

-----------------------------------------------------------------------------
(* What a request in flight has secured at each stage: the strengthening    *)
(* that makes the safety properties inductive                               *)

\* No two transactions hold the same lock.
LocksExclusive ==
  \A s, t \in Txns : s # t => held[s] \cap held[t] = {}

\* From the items stage on, a request holds its locations, and they are active.
LocationsClaimed ==
  \A t \in Txns : pc[t] \in {"items", "post"} =>
    \A l \in Places(req[t]) :
      <<"loc", l>> \in held[t] /\ locations[l] = "ACTIVE"

\* When it writes, a request holds its items, and they exist.  An acceptance
\* has secured them before it asks for its key.
ItemsSecured(t) ==
  \A i \in DOMAIN req[t].lines : <<"item", i>> \in held[t] /\ items[i] # "ABSENT"

ItemsClaimed ==
  \A t \in Txns :
    \/ pc[t] = "post"
    \/ pc[t] \in {"key", "user", "orig", "locs"} /\ req[t].key \in Procurements
    => ItemsSecured(t)

\* Past the key stage, a request holds its key, and the key is new.
KeysClaimed ==
  \A t \in Txns : pc[t] \in {"user", "orig", "locs", "items", "post"} =>
    /\ <<"key", req[t].actor, req[t].key>> \in held[t]
    /\ \A n \in DOMAIN journal : ~SameKey(journal[n], req[t])

\* A reversal mirrors its original: its locations swapped, the rest the same.
Mirrors(m) ==
  /\ m.src = journal[m.orig].dst /\ m.dst = journal[m.orig].src
  /\ m.lines = journal[m.orig].lines /\ m.custody = journal[m.orig].custody

\* Requests, and the movements they become, have valid positions and refer
\* back to the journal; a reversal mirrors its original.
RequestShape(m) ==
  /\ ValidPositions(m)
  /\ m.orig \in {0} \cup DOMAIN journal
  /\ m.type = "REVERSAL" => Mirrors(m)
  /\ m.key \in Procurements => m.type = "RECEIPT"

WellFormed ==
  /\ \A t \in Txns : pc[t] # "idle" => RequestShape(req[t])
  /\ \A t \in Txns :
       pc[t] \in {"request", "acceptor", "claim"} => req[t].key \in Procurements
  /\ \A n \in DOMAIN journal :
       ValidPositions(journal[n]) /\ journal[n].orig \in 0 .. (n - 1)

\* Past its original's stage, a request holds the lock on the original, which
\* may be adjusted and has not been reversed.
OriginalsClaimed ==
  \A t \in Txns : pc[t] \in {"locs", "items", "post"} /\ req[t].orig # 0 =>
    /\ <<"orig", req[t].orig>> \in held[t]
    /\ journal[req[t].orig].type # "REVERSAL"
    /\ req[t].type = "CORRECTION" => journal[req[t].orig].custody = None
    /\ req[t].type = "REVERSAL" => ~Reversed(req[t].orig)
    /\ ~Protected(req[t].orig)

\* A correction that is written concerns its original.
CorrectionsConcern ==
  \A t \in Txns : pc[t] = "post" /\ req[t].type = "CORRECTION" =>
    /\ DOMAIN req[t].lines \subseteq DOMAIN journal[req[t].orig].lines
    /\ Places(req[t]) \cap Places(journal[req[t].orig]) # {}

\* An acceptance holds its request, which is not completed.
DeliveriesClaimed ==
  \A t \in Txns :
    pc[t] \notin {"idle", "request"} /\ req[t].key \in Procurements =>
      /\ <<"request", req[t].key>> \in held[t]
      /\ pc[t] # "acceptor" => final[req[t].key] = 0

\* A receipt is in the journal exactly when its procurement names it.
ReceiptsBound ==
  \A p \in Procurements :
    /\ final[p] \in {0} \cup DOMAIN journal
    /\ \A n \in DOMAIN journal : journal[n].key = p <=> n = final[p]

-----------------------------------------------------------------------------
(* The kinds of steps                                                       *)

\* A request begins: a reversal that mirrors a movement of the journal, or
\* any other movement in valid positions; deliveries begin at their request.
Begins(t) ==
  \E m \in Movements, stage \in {"request", "key"} :
    /\ Start(t, m, stage)
    /\ m.orig \in {0} \cup DOMAIN journal
    /\ m.type # "REVERSAL" => ValidPositions(m)
    /\ m.type = "REVERSAL" => m.orig # 0 /\ Mirrors(m)
    /\ m.key \in Procurements <=> stage = "request"
    /\ m.key \in Procurements => m.type = "RECEIPT"

\* A request ends without having written.
Ends(t) ==
  /\ UNCHANGED tables
  /\ \E n \in Nat : Finish(t, n)

\* A request moves on, perhaps with more locks; they were free.
Moves(t) ==
  /\ UNCHANGED <<tables, req, answer>>
  /\ pc[t] # "idle" /\ pc'[t] # "idle" /\ pc' \in [Txns -> Stages]
  /\ seen' \in [Txns -> BOOLEAN]
  /\ DOMAIN held' = Txns
  /\ \A s \in Txns \ {t} : pc'[s] = pc[s] /\ held'[s] = held[s]
  /\ held[t] \subseteq held'[t]
  /\ \A lock \in held'[t] \ held[t] : Free(t, lock)

\* A request passes the check of its stage.
Passes(t) ==
  \/ /\ pc[t] = "request" /\ pc'[t] = "acceptor"
     /\ <<"request", req[t].key>> \in held'[t]
  \/ pc[t] = "acceptor" /\ pc'[t] = "claim" /\ final[req[t].key] = 0
  \/ pc[t] = "claim" /\ pc'[t] = "claim"
  \/ pc[t] = "claim" /\ pc'[t] = "key" /\ ItemsSecured(t)
  \/ /\ pc[t] = "key" /\ pc'[t] = AfterKey(req[t])
     /\ <<"key", req[t].actor, req[t].key>> \in held'[t]
     /\ \A n \in DOMAIN journal : ~SameKey(journal[n], req[t])
  \/ pc[t] = "user" /\ pc'[t] = AfterUser(req[t])
  \/ /\ pc[t] = "orig" /\ pc'[t] = "locs"
     /\ <<"orig", req[t].orig>> \in held'[t] /\ Adjustable(t)
  \/ pc[t] = "locs" /\ pc'[t] = "locs"
  \/ /\ pc[t] = "locs"
     /\ pc'[t] = IF req[t].key \in Procurements THEN "post" ELSE "items"
     /\ \A l \in Places(req[t]) :
          <<"loc", l>> \in held'[t] /\ locations[l] = "ACTIVE"
  \/ pc[t] = "items" /\ pc'[t] = "items"
  \/ /\ pc[t] = "items" /\ pc'[t] = "post"
     /\ ItemsSecured(t) /\ ItemsUsable(req[t])

\* Every request that a client starts begins as described.
LEMMA PostMovementBegins ==
  ASSUME TypeOK, NEW t \in Txns, PostMovement(t)
  PROVE  Begins(t)
<1>1. PICK a \in Users, type \in Types \ {"REVERSAL"}, k \in Keys,
           s \in Locations \cup {None}, d \in Locations \cup {None},
           S \in (SUBSET Items) \ {{}} :
        \E q \in [S -> Quantities], o \in {0} \cup DOMAIN journal :
          /\ users[a].access = "APPROVED"
          /\ users[a].role \in OperateRoles
          /\ type \in {"WRITE_OFF", "CORRECTION"} => users[a].role \in AdminRoles
          /\ ValidPositions(Asked(a, type, k, s, d, q, o))
          /\ Start(t, Asked(a, type, k, s, d, q, o), "key")
  BY Zenon DEF PostMovement
<1>2. PICK q \in [S -> Quantities], o \in {0} \cup DOMAIN journal :
        /\ ValidPositions(Asked(a, type, k, s, d, q, o))
        /\ Start(t, Asked(a, type, k, s, d, q, o), "key")
  BY <1>1, Zenon
<1> DEFINE m == Asked(a, type, k, s, d, q, o)
<1>3. o \in Nat
  BY DEF TypeOK
<1>4. m \in Movements
  BY <1>3, WarehouseAssumption DEF Movements, Asked
<1>5. m.orig = o /\ m.type # "REVERSAL" /\ m.key \notin Procurements
  BY JournalAssumption DEF Asked
<1> HIDE DEF m
<1> QED
  BY <1>2, <1>4, <1>5 DEF Begins, m

LEMMA PostReversalBegins ==
  ASSUME TypeOK, NEW t \in Txns, PostReversal(t)
  PROVE  Begins(t)
<1> DEFINE M(a, k, o) ==
             [type |-> "REVERSAL", actor |-> a, src |-> journal[o].dst,
              dst |-> journal[o].src, custody |-> journal[o].custody,
              lines |-> journal[o].lines, orig |-> o, key |-> k]
<1>1. PICK a \in Users, k \in Keys, o \in DOMAIN journal :
        Start(t, M(a, k, o), "key")
  BY DEF PostReversal
<1> DEFINE m == M(a, k, o)
<1>2. o \in Nat /\ o # 0 /\ journal[o] \in Movements
  BY DEF TypeOK
<1>3. m \in Movements
  BY <1>2 DEF Movements, MovementTypes
<1>4. m.orig = o /\ m.type = "REVERSAL" /\ m.key \notin Procurements /\ Mirrors(m)
  BY JournalAssumption DEF Mirrors
<1> HIDE DEF m
<1> QED
  BY <1>1, <1>2, <1>3, <1>4 DEF Begins, m

LEMMA CompleteAcceptanceBegins ==
  ASSUME TypeOK, NEW t \in Txns, CompleteAcceptance(t)
  PROVE  Begins(t)
<1> DEFINE M(a, p, d, q) ==
             [type |-> "RECEIPT", actor |-> a, src |-> None, dst |-> d,
              custody |-> None, lines |-> q, orig |-> 0, key |-> p]
<1>1. PICK a \in Users, p \in Procurements, d \in Locations,
           S \in (SUBSET Items) \ {{}} :
        \E q \in [S -> Quantities] : Start(t, M(a, p, d, q), "request")
  BY DEF CompleteAcceptance
<1>2. PICK q \in [S -> Quantities] : Start(t, M(a, p, d, q), "request")
  BY <1>1
<1> DEFINE m == M(a, p, d, q)
<1>3. m \in Movements
  BY DEF Movements, MovementTypes
<1>4. m.orig = 0 /\ m.type = "RECEIPT" /\ m.key \in Procurements /\ ValidPositions(m)
  BY JournalAssumption DEF ValidPositions
<1> HIDE DEF m
<1> QED
  BY <1>2, <1>3, <1>4 DEF Begins, m

\* An administrative change to a user is a change of role and access status.
LEMMA UserChange ==
  ASSUME TypeOK, NEW u \in Users,
         UpdateUserAccess(u) \/ UpdateUserRole(u) \/ ResetUserAccount(u)
  PROVE  \E role \in Roles, access \in {"APPROVED", "BLOCKED"} :
           SetUser(u, role, access)
<1>1. users[u].role \in Roles /\ users[u].access \in {"APPROVED", "BLOCKED"}
  BY DEF TypeOK
<1>2. CASE UpdateUserAccess(u)
  BY <1>1, <1>2 DEF UpdateUserAccess
<1>3. CASE UpdateUserRole(u)
  BY <1>1, <1>3, WarehouseAssumption DEF UpdateUserRole
<1>4. CASE ResetUserAccount(u)
  BY <1>4 DEF ResetUserAccount, Roles
<1> QED
  BY <1>2, <1>3, <1>4

\* Taking a free lock moves a request on.
LEMMA AcquireMoves ==
  ASSUME TypeOK, NEW t \in Txns, NEW lock, NEW next \in Stages \ {"idle"},
         pc[t] # "idle", Free(t, lock), Acquire(t, lock, next),
         UNCHANGED <<tables, req, answer>>, seen' \in [Txns -> BOOLEAN]
  PROVE  Moves(t) /\ pc'[t] = next /\ lock \in held'[t]
BY DEF Moves, Acquire, TypeOK

\* Passing a check without taking a lock moves a request on.
LEMMA CheckMoves ==
  ASSUME TypeOK, NEW t \in Txns, NEW next \in Stages \ {"idle"},
         pc[t] # "idle", pc' = [pc EXCEPT ![t] = next],
         UNCHANGED <<tables, req, seen, held, answer>>
  PROVE  Moves(t) /\ pc'[t] = next
BY DEF Moves, TypeOK

\* Every stage of a request ends it, moves it past its check, or writes.
LEMMA StepKinds ==
  ASSUME TypeOK, NEW t \in Txns, Step(t)
  PROVE  Ends(t) \/ (Moves(t) /\ Passes(t)) \/ Post(t)
<1>0. seen \in [Txns -> BOOLEAN]
  BY DEF TypeOK
<1>1. CASE LockRequest(t)
  <2>1. CASE Finish(t, 0)
    BY <1>1, <2>1 DEF LockRequest, Ends
  <2>2. CASE ~Finish(t, 0)
    BY <1>0, <1>1, <2>2, AcquireMoves DEF LockRequest, Passes, Stages
  <2> QED
    BY <2>1, <2>2
<1>2. CASE LockAcceptor(t)
  <2>1. CASE Finish(t, 0)
    BY <1>2, <2>1 DEF LockAcceptor, Ends
  <2>2. CASE ~Finish(t, 0)
    BY <1>0, <1>2, <2>2, AcquireMoves DEF LockAcceptor, Passes, Stages
  <2> QED
    BY <2>1, <2>2
<1>3. CASE ClaimItem(t)
  BY <1>0, <1>3, AcquireMoves DEF ClaimItem, Passes, Stages
<1>4. CASE ClaimItems(t)
  <2>1. CASE Finish(t, 0)
    BY <1>4, <2>1 DEF ClaimItems, Ends
  <2>2. CASE ~Finish(t, 0)
    <3>1. ItemsSecured(t)
      BY <1>4, <2>2 DEF ClaimItems, NextItem, ItemsSecured
    <3> QED
      BY <1>4, <2>2, <3>1, CheckMoves DEF ClaimItems, Passes, Stages
  <2> QED
    BY <2>1, <2>2
<1>5. CASE LockKey(t)
  <2>1. CASE \E n \in DOMAIN journal : Finish(t, n) \/ Finish(t, 0)
    <3>1. DOMAIN journal \subseteq Nat
      BY DEF TypeOK
    <3> QED
      BY <1>5, <2>1, <3>1 DEF LockKey, Ends
  <2>2. CASE ~(\E n \in DOMAIN journal : Finish(t, n) \/ Finish(t, 0))
    <3>1. AfterKey(req[t]) \in Stages \ {"idle"}
      BY DEF AfterKey, AfterUser, Stages
    <3>2. /\ \A n \in DOMAIN journal : ~SameKey(journal[n], req[t])
          /\ Acquire(t, <<"key", req[t].actor, req[t].key>>, AfterKey(req[t]))
          /\ UNCHANGED <<req, seen, answer>>
      BY <1>5, <2>2 DEF LockKey
    <3> QED
      BY <1>0, <1>5, <3>1, <3>2, AcquireMoves DEF LockKey, Passes
  <2> QED
    BY <2>1, <2>2
<1>6. CASE LockCustodyUser(t)
  <2>1. CASE Finish(t, 0)
    BY <1>6, <2>1 DEF LockCustodyUser, Ends
  <2>2. CASE ~Finish(t, 0)
    <3>1. seen' \in [Txns -> BOOLEAN]
      BY <1>0, <1>6, <2>2, Zenon DEF LockCustodyUser, Eligible
    <3>2. AfterUser(req[t]) \in Stages \ {"idle"}
      BY DEF AfterUser, Stages
    <3> QED
      BY <1>6, <2>2, <3>1, <3>2, AcquireMoves DEF LockCustodyUser, Passes
  <2> QED
    BY <2>1, <2>2
<1>7. CASE LockOriginal(t)
  <2>1. CASE Finish(t, 0)
    BY <1>7, <2>1 DEF LockOriginal, Ends
  <2>2. CASE ~Finish(t, 0)
    BY <1>0, <1>7, <2>2, AcquireMoves DEF LockOriginal, Passes, Stages
  <2> QED
    BY <2>1, <2>2
<1>8. CASE LockLocation(t)
  <2>1. CASE Finish(t, 0)
    BY <1>8, <2>1 DEF LockLocation, Ends
  <2>2. CASE ~Finish(t, 0)
    <3> DEFINE places == Places(req[t])
               l == NextRow(t, "loc", places)
               last == \A k \in places : k = l \/ <<"loc", k>> \in held[t]
               next == IF ~last THEN "locs"
                       ELSE IF req[t].key \in Procurements THEN "post" ELSE "items"
    <3>1. /\ pc[t] = "locs" /\ Free(t, <<"loc", l>>)
          /\ last => \A k \in places : locations[k] = "ACTIVE"
          /\ Acquire(t, <<"loc", l>>, next)
          /\ UNCHANGED <<tables, req, seen, answer>>
      BY <1>8, <2>2 DEF LockLocation
    <3>2. next \in Stages \ {"idle"}
      BY DEF Stages
    <3> HIDE DEF l, last, next
    <3>3. Moves(t) /\ pc'[t] = next /\ <<"loc", l>> \in held'[t]
      BY <1>0, <3>1, <3>2, AcquireMoves
    <3>4. CASE last
      <4>1. \A k \in places : <<"loc", k>> \in held'[t]
        BY <3>3, <3>4 DEF Moves, last
      <4> QED
        BY <3>1, <3>3, <3>4, <4>1 DEF Passes, next
    <3>5. CASE ~last
      BY <3>1, <3>3, <3>5 DEF Passes, next
    <3> QED
      BY <3>4, <3>5
  <2> QED
    BY <2>1, <2>2
<1>9. CASE LockItem(t)
  BY <1>0, <1>9, AcquireMoves DEF LockItem, Passes, Stages
<1>10. CASE CheckItems(t)
  <2>1. CASE Finish(t, 0)
    BY <1>10, <2>1 DEF CheckItems, Ends
  <2>2. CASE ~Finish(t, 0)
    <3>1. ItemsSecured(t)
      BY <1>10, <2>2 DEF CheckItems, NextItem, ItemsUsable, ItemsSecured
    <3> QED
      BY <1>10, <2>2, <3>1, CheckMoves DEF CheckItems, Passes, Stages
  <2> QED
    BY <2>1, <2>2
<1>11. CASE PostFails(t)
  BY <1>11 DEF PostFails, Ends
<1> QED
  BY <1>1, <1>2, <1>3, <1>4, <1>5, <1>6, <1>7, <1>8, <1>9, <1>10, <1>11 DEF Step

\* Every step of the warehouse is of one of these kinds.
LEMMA Kinds ==
  ASSUME TypeOK, [Next]_vars
  PROVE  \/ UNCHANGED vars
         \/ \E t \in Txns :
              Begins(t) \/ Ends(t) \/ (Moves(t) /\ Passes(t)) \/ Post(t)
         \/ \E u \in Users, role \in Roles, access \in {"APPROVED", "BLOCKED"} :
              SetUser(u, role, access)
         \/ \E l \in Locations, b \in BOOLEAN : SetLocationArchived(l, b)
         \/ \E i \in Items :
              \/ \E status \in {"ACTIVE", "ARCHIVED"} : SetItem(i, status)
              \/ DeleteUnusedItem(i)
<1>1. ASSUME NEW t \in Txns, Abort(t) \/ DeadlockVictim(t) PROVE Ends(t)
  BY <1>1 DEF Abort, DeadlockVictim, Ends
<1>2. ASSUME NEW i \in Items, (\E b \in BOOLEAN : SetItemArchived(i, b)) \/ CreateItem(i)
      PROVE  \E status \in {"ACTIVE", "ARCHIVED"} : SetItem(i, status)
  BY <1>2 DEF SetItemArchived, CreateItem
<1> QED
  BY <1>1, <1>2, UserChange, PostMovementBegins, PostReversalBegins,
     CompleteAcceptanceBegins, StepKinds
  DEF Next

\* Only the write changes the journal and what is derived from it, and only
\* an administrator changes users.
LEMMA OnlyPostWrites ==
  ASSUME TypeOK, [Next]_vars
  PROVE  \/ \E t \in Txns : Post(t)
         \/ /\ UNCHANGED <<journal, stock, custody, final>>
            /\ \/ UNCHANGED users
               \/ \E u \in Users, role \in Roles, access \in {"APPROVED", "BLOCKED"} :
                    SetUser(u, role, access)
<1> DEFINE Quiet == UNCHANGED <<users, journal, stock, custody, final>>
<1>1. ASSUME NEW t \in Txns, Begins(t) PROVE Quiet
  BY <1>1 DEF Begins, Start, tables
<1>2. ASSUME NEW t \in Txns, Ends(t) \/ Moves(t) PROVE Quiet
  BY <1>2 DEF Ends, Moves, tables
<1>3. ASSUME NEW u \in Users, NEW role, NEW access, SetUser(u, role, access)
      PROVE  UNCHANGED <<journal, stock, custody, final>>
  BY <1>3 DEF SetUser
<1>4. ASSUME NEW l \in Locations, NEW b \in BOOLEAN, SetLocationArchived(l, b)
      PROVE  Quiet
  BY <1>4 DEF SetLocationArchived
<1>5. ASSUME NEW i \in Items, (\E status : SetItem(i, status)) \/ DeleteUnusedItem(i)
      PROVE  Quiet
  BY <1>5 DEF SetItem, DeleteUnusedItem
<1>6. UNCHANGED vars => Quiet
  BY DEF vars
<1> HIDE DEF Quiet
<1>7. \/ \E t \in Txns : Post(t)
      \/ Quiet
      \/ \E u \in Users, role \in Roles, access \in {"APPROVED", "BLOCKED"} :
           SetUser(u, role, access)
  BY <1>1, <1>2, <1>4, <1>5, <1>6, Kinds
<1> QED
  BY <1>3, <1>7 DEF Quiet

-----------------------------------------------------------------------------
(* Type correctness                                                         *)

\* The write keeps the types: the refresh function refuses a balance that is
\* out of range.
LEMMA PostType ==
  ASSUME TypeOK, NEW t \in Txns, Post(t)
  PROVE  TypeOK'
<1> DEFINE m == req[t]
           j == Append(journal, m)
<1>1. m \in Movements /\ j \in Seq(Movements) /\ Len(j) \in Nat
  BY DEF TypeOK, Post
<1>2. stock' \in [Items -> [Locations -> 0 .. MaxQuantity]]
  BY DEF Post, WriteAllowed, InRange, RefreshStock
<1>3. custody' \in [Users -> [Items -> 0 .. MaxQuantity]]
  BY DEF Post, WriteAllowed, InRange, RefreshCustody
<1>4. final' \in [Procurements -> Nat]
  BY <1>1 DEF Post, TypeOK
<1>5. seen' \in [Txns -> BOOLEAN]
  BY Zenon DEF TypeOK, Post, Finish
<1> QED
  BY <1>1, <1>2, <1>3, <1>4, <1>5 DEF TypeOK, Post, Finish, Stages

\* Every step of the warehouse keeps the types.
LEMMA NextType == TypeOK /\ [Next]_vars => TypeOK'
<1> SUFFICES ASSUME TypeOK, [Next]_vars PROVE TypeOK'
  OBVIOUS
<1>1. ASSUME NEW t \in Txns, Begins(t) PROVE TypeOK'
  <2>1. PICK m \in Movements, stage \in {"request", "key"} : Start(t, m, stage)
    BY <1>1 DEF Begins
  <2>2. seen' \in [Txns -> BOOLEAN]
    BY <2>1, Zenon DEF TypeOK, Start, Eligible
  <2> QED
    BY <2>1, <2>2, JournalAssumption DEF TypeOK, Start, tables, Stages
<1>2. ASSUME NEW t \in Txns, Ends(t) PROVE TypeOK'
  <2>1. PICK n \in Nat : Finish(t, n)
    BY <1>2 DEF Ends
  <2>2. seen' \in [Txns -> BOOLEAN]
    BY <2>1, Zenon DEF TypeOK, Finish
  <2> QED
    BY <1>2, <2>1, <2>2 DEF TypeOK, Ends, Finish, tables, Stages
<1>3. ASSUME NEW t \in Txns, Moves(t) PROVE TypeOK'
  BY <1>3 DEF TypeOK, Moves, tables
<1>4. ASSUME NEW u \in Users, NEW role \in Roles,
             NEW access \in {"APPROVED", "BLOCKED"}, SetUser(u, role, access)
      PROVE  TypeOK'
  BY <1>4 DEF SetUser, TypeOK
<1>5. ASSUME NEW l \in Locations, NEW b \in BOOLEAN, SetLocationArchived(l, b)
      PROVE  TypeOK'
  BY <1>5 DEF SetLocationArchived, TypeOK
<1>6. ASSUME NEW i \in Items, NEW s \in {"ACTIVE", "ARCHIVED", "ABSENT"},
             SetItem(i, s)
      PROVE  TypeOK'
  BY <1>6 DEF SetItem, TypeOK
<1>7. CASE UNCHANGED vars
  BY <1>7 DEF vars, TypeOK
<1> QED
  BY <1>1, <1>2, <1>3, <1>4, <1>5, <1>6, <1>7, Kinds, PostType
  DEF DeleteUnusedItem

\* The warehouse's variables keep their types; in particular no balance leaves
\* the supported range, whatever requests run at once.
THEOREM TypeCorrect == Spec => []TypeOK
<1>1. Init => TypeOK
  BY JournalAssumption, WarehouseAssumption DEF Init, TypeOK, Stages
<1> QED
  BY <1>1, NextType, PTL DEF Spec

-----------------------------------------------------------------------------
(* The invariant, part by part                                              *)

\* What the write does to the journal, and what it leaves alone.
LEMMA PostJournal ==
  ASSUME TypeOK, NEW t \in Txns, Post(t)
  PROVE  /\ req[t] \in Movements /\ pc[t] = "post" /\ pc'[t] = "idle"
         /\ Len(journal) \in Nat /\ DOMAIN journal = 1 .. Len(journal)
         /\ DOMAIN journal' = 1 .. (Len(journal) + 1)
         /\ Len(journal') = Len(journal) + 1
         /\ journal'[Len(journal) + 1] = req[t]
         /\ \A n \in DOMAIN journal : journal'[n] = journal[n]
         /\ held'[t] = {}
         /\ \A s \in Txns \ {t} :
              pc'[s] = pc[s] /\ req'[s] = req[s] /\ held'[s] = held[s]
         /\ UNCHANGED <<users, locations, items>>
<1>1. req[t] \in Movements /\ pc[t] = "post"
  BY DEF TypeOK, Post
<1>2. journal \in Seq(Movements) /\ journal' = Append(journal, req[t])
  BY DEF TypeOK, Post
<1>3. pc'[t] = "idle" /\ held'[t] = {}
  BY DEF TypeOK, Post, Finish
<1>4. \A s \in Txns \ {t} :
        pc'[s] = pc[s] /\ req'[s] = req[s] /\ held'[s] = held[s]
  BY DEF TypeOK, Post, Finish
<1>5. UNCHANGED <<users, locations, items>>
  BY DEF Post
<1> QED
  BY <1>1, <1>2, <1>3, <1>4, <1>5

\* What the beginning and the end of a request leave alone.
LEMMA BeginsLeaves ==
  ASSUME TypeOK, NEW t \in Txns, NEW m, NEW stage, Start(t, m, stage)
  PROVE  /\ pc[t] = "idle" /\ pc'[t] = stage /\ req'[t] = m
         /\ \A s \in Txns \ {t} : pc'[s] = pc[s] /\ req'[s] = req[s]
         /\ held' = held /\ UNCHANGED tables
BY DEF TypeOK, Start

LEMMA EndsLeaves ==
  ASSUME TypeOK, NEW t \in Txns, Ends(t)
  PROVE  /\ pc'[t] = "idle" /\ held'[t] = {}
         /\ \A s \in Txns \ {t} :
              pc'[s] = pc[s] /\ req'[s] = req[s] /\ held'[s] = held[s]
         /\ UNCHANGED tables
BY DEF TypeOK, Ends, Finish

\* A lock is granted only while nobody else holds it.
LEMMA NextExclusive == TypeOK /\ LocksExclusive /\ [Next]_vars => LocksExclusive'
<1> SUFFICES ASSUME TypeOK, LocksExclusive, [Next]_vars PROVE LocksExclusive'
  OBVIOUS
<1>1. ASSUME NEW t \in Txns, Begins(t) PROVE LocksExclusive'
  BY <1>1, BeginsLeaves DEF Begins, LocksExclusive
<1>2. ASSUME NEW t \in Txns, Ends(t) PROVE LocksExclusive'
  BY <1>2, EndsLeaves DEF LocksExclusive
<1>3. ASSUME NEW t \in Txns, Moves(t) PROVE LocksExclusive'
  BY <1>3 DEF LocksExclusive, Moves, Free
<1>4. ASSUME NEW t \in Txns, Post(t) PROVE LocksExclusive'
  BY <1>4, PostJournal DEF LocksExclusive
<1>5. CASE UNCHANGED held
  BY <1>5 DEF LocksExclusive
<1> QED
  BY <1>1, <1>2, <1>3, <1>4, <1>5, Kinds
  DEF SetUser, SetLocationArchived, SetItem, DeleteUnusedItem, vars

\* A location is archived while no request that has reached its items holds
\* it, so no movement into or out of it is in flight.
LEMMA NextLocations ==
  TypeOK /\ LocationsClaimed /\ ArchivedLocationsEmpty /\ [Next]_vars
    => LocationsClaimed' /\ ArchivedLocationsEmpty'
<1> SUFFICES ASSUME TypeOK, LocationsClaimed, ArchivedLocationsEmpty, [Next]_vars
             PROVE  LocationsClaimed' /\ ArchivedLocationsEmpty'
  OBVIOUS
<1> USE DEF LocationsClaimed, ArchivedLocationsEmpty
<1>1. ASSUME NEW t \in Txns, Begins(t)
      PROVE  LocationsClaimed' /\ ArchivedLocationsEmpty'
  BY <1>1, BeginsLeaves DEF Begins, tables
<1>2. ASSUME NEW t \in Txns, Ends(t)
      PROVE  LocationsClaimed' /\ ArchivedLocationsEmpty'
  BY <1>2, EndsLeaves DEF tables
<1>3. ASSUME NEW t \in Txns, Moves(t), Passes(t)
      PROVE  LocationsClaimed' /\ ArchivedLocationsEmpty'
  BY <1>3 DEF Moves, Passes, AfterKey, AfterUser, tables
<1>4. ASSUME NEW t \in Txns, Post(t)
      PROVE  LocationsClaimed' /\ ArchivedLocationsEmpty'
  <2>1. LocationsClaimed'
    <3>1. /\ pc'[t] = "idle" /\ locations' = locations
          /\ \A s \in Txns \ {t} :
               pc'[s] = pc[s] /\ req'[s] = req[s] /\ held'[s] = held[s]
      BY <1>4, PostJournal
    <3> QED
      BY <3>1
  <2>2. \A i \in Items, l \in Locations : l \notin Places(req[t]) => stock'[i][l] = stock[i][l]
    BY <1>4 DEF Post, RefreshStock
  <2>3. pc[t] = "post" /\ locations' = locations
    BY <1>4, PostJournal
  <2>4. \A l \in Places(req[t]) : locations'[l] = "ACTIVE"
    BY <2>3
  <2> QED
    BY <2>1, <2>2, <2>3, <2>4
<1>5. ASSUME NEW l \in Locations, NEW b \in BOOLEAN, SetLocationArchived(l, b)
      PROVE  LocationsClaimed' /\ ArchivedLocationsEmpty'
  BY <1>5 DEF SetLocationArchived, Unheld, TypeOK
<1>6. CASE UNCHANGED <<locations, stock, pc, req, held>>
  BY <1>6
<1> QED
  BY <1>1, <1>2, <1>3, <1>4, <1>5, <1>6, Kinds
  DEF SetUser, SetItem, DeleteUnusedItem, vars

\* Nobody is left holding equipment who may not hold it.
LEMMA NextHolders ==
  TypeOK /\ CustodyHoldersEligible /\ [Next]_vars => CustodyHoldersEligible'
<1> SUFFICES ASSUME TypeOK, CustodyHoldersEligible, [Next]_vars
             PROVE  CustodyHoldersEligible'
  OBVIOUS
<1> USE DEF CustodyHoldersEligible, HoldsCustody, Eligible
<1>1. ASSUME NEW t \in Txns, Post(t) PROVE CustodyHoldersEligible'
  <2>1. \A u \in Users, i \in Items :
          ~(u = req[t].custody /\ i \in DOMAIN req[t].lines)
            => custody'[u][i] = custody[u][i]
    BY <1>1 DEF Post, RefreshCustody
  <2>2. ASSUME NEW u \in Users, NEW i \in Items, u = req[t].custody,
               i \in DOMAIN req[t].lines, custody'[u][i] > 0
        PROVE  Eligible(u)
    <3>1. HolderTrigger(req[t], custody')
      BY <1>1 DEF Post, WriteAllowed
    <3> QED
      BY <2>2, <3>1, JournalAssumption DEF HolderTrigger
  <2> QED
    BY <1>1, <2>1, <2>2, PostJournal
<1>2. ASSUME NEW u \in Users, NEW role \in Roles,
             NEW access \in {"APPROVED", "BLOCKED"}, SetUser(u, role, access)
      PROVE  CustodyHoldersEligible'
  BY <1>2 DEF SetUser, TypeOK
<1>3. CASE UNCHANGED <<users, custody>>
  BY <1>3
<1> QED
  BY <1>1, <1>2, <1>3, OnlyPostWrites

\* An item is deleted while nobody who may still write it holds it.
LEMMA NextItems ==
  TypeOK /\ ItemsClaimed /\ HistoryKeepsItems /\ [Next]_vars
    => ItemsClaimed' /\ HistoryKeepsItems'
<1> SUFFICES ASSUME TypeOK, ItemsClaimed, HistoryKeepsItems, [Next]_vars
             PROVE  ItemsClaimed' /\ HistoryKeepsItems'
  OBVIOUS
<1> USE DEF ItemsClaimed, ItemsSecured, HistoryKeepsItems
<1>1. ASSUME NEW t \in Txns, Begins(t)
      PROVE  ItemsClaimed' /\ HistoryKeepsItems'
  BY <1>1, BeginsLeaves DEF Begins, tables
<1>2. ASSUME NEW t \in Txns, Ends(t)
      PROVE  ItemsClaimed' /\ HistoryKeepsItems'
  BY <1>2, EndsLeaves DEF tables
<1>3. ASSUME NEW t \in Txns, Moves(t), Passes(t)
      PROVE  ItemsClaimed' /\ HistoryKeepsItems'
  BY <1>3 DEF Moves, Passes, AfterKey, AfterUser, tables
<1>4. ASSUME NEW t \in Txns, Post(t)
      PROVE  ItemsClaimed' /\ HistoryKeepsItems'
  <2>1. ItemsClaimed'
    <3>1. /\ pc'[t] = "idle" /\ items' = items
          /\ \A s \in Txns \ {t} :
               pc'[s] = pc[s] /\ req'[s] = req[s] /\ held'[s] = held[s]
      BY <1>4, PostJournal
    <3> QED
      BY <3>1
  <2>2. \A i \in DOMAIN req[t].lines : items[i] # "ABSENT"
    BY <1>4, PostJournal
  <2>3. \A n \in DOMAIN journal' : n \in DOMAIN journal \/ journal'[n] = req[t]
    BY <1>4, PostJournal
  <2> QED
    BY <1>4, <2>1, <2>2, <2>3, PostJournal
<1>5. ASSUME NEW i \in Items, NEW status \in {"ACTIVE", "ARCHIVED"}, SetItem(i, status)
      PROVE  ItemsClaimed' /\ HistoryKeepsItems'
  BY <1>5 DEF SetItem, TypeOK
<1>6. ASSUME NEW i \in Items, DeleteUnusedItem(i)
      PROVE  ItemsClaimed' /\ HistoryKeepsItems'
  BY <1>6 DEF DeleteUnusedItem, SetItem, Unheld, TypeOK
<1>7. CASE UNCHANGED <<items, journal, pc, req, held>>
  BY <1>7
<1> QED
  BY <1>1, <1>2, <1>3, <1>4, <1>5, <1>6, <1>7, Kinds
  DEF SetUser, SetLocationArchived, vars

\* The mirror of a movement in valid positions is in valid positions.
LEMMA MirrorValid ==
  ASSUME NEW m \in Movements, m.orig \in DOMAIN journal, m.orig # 0,
         m.type = "REVERSAL", Mirrors(m), ValidPositions(journal[m.orig])
  PROVE  ValidPositions(m)
BY DEF ValidPositions, Mirrors

\* Requests refer to movements that stay where they are.
LEMMA NextWellFormed == TypeOK /\ WellFormed /\ [Next]_vars => WellFormed'
<1> SUFFICES ASSUME TypeOK, WellFormed, [Next]_vars PROVE WellFormed'
  OBVIOUS
<1> USE DEF WellFormed
<1>1. ASSUME NEW t \in Txns, Begins(t) PROVE WellFormed'
  <2>1. PICK m \in Movements, stage \in {"request", "key"} :
          /\ Start(t, m, stage)
          /\ m.orig \in {0} \cup DOMAIN journal
          /\ m.type # "REVERSAL" => ValidPositions(m)
          /\ m.type = "REVERSAL" => m.orig # 0 /\ Mirrors(m)
          /\ m.key \in Procurements <=> stage = "request"
          /\ m.key \in Procurements => m.type = "RECEIPT"
    BY <1>1 DEF Begins
  <2>2. RequestShape(m)
    BY <2>1, MirrorValid DEF RequestShape
  <2>3. journal' = journal /\ req'[t] = m /\ pc'[t] = stage
        /\ \A s \in Txns \ {t} : pc'[s] = pc[s] /\ req'[s] = req[s]
    BY <2>1, BeginsLeaves DEF tables
  <2> QED
    BY <2>1, <2>2, <2>3 DEF RequestShape, Mirrors
<1>2. ASSUME NEW t \in Txns, Ends(t) PROVE WellFormed'
  BY <1>2, EndsLeaves DEF RequestShape, Mirrors, tables
<1>3. ASSUME NEW t \in Txns, Moves(t), Passes(t) PROVE WellFormed'
  BY <1>3 DEF Moves, Passes, AfterKey, AfterUser, RequestShape, Mirrors, tables
<1>4. ASSUME NEW t \in Txns, Post(t) PROVE WellFormed'
  <2>1. RequestShape(req[t])
    BY <1>4, PostJournal
  <2>2. \A s \in Txns : pc'[s] # "idle" =>
          s # t /\ pc[s] # "idle" /\ pc'[s] = pc[s] /\ req'[s] = req[s]
    BY <1>4, PostJournal
  <2>3. \A s \in Txns : pc'[s] # "idle" => RequestShape(req[s])'
    <3> SUFFICES ASSUME NEW s \in Txns, pc'[s] # "idle"
                 PROVE  RequestShape(req[s])'
      OBVIOUS
    <3>1. req'[s] = req[s] /\ RequestShape(req[s])
      BY <2>2
    <3>2. /\ DOMAIN journal \subseteq DOMAIN journal'
          /\ \A n \in DOMAIN journal : journal'[n] = journal[n]
      BY <1>4, PostJournal
    <3>3. req[s].type = "REVERSAL" => req[s].orig \in DOMAIN journal
      BY <3>1 DEF RequestShape, ValidPositions
    <3> QED
      BY <3>1, <3>2, <3>3 DEF RequestShape, Mirrors
  <2>4. \A n \in DOMAIN journal' :
          ValidPositions(journal'[n]) /\ journal'[n].orig \in 0 .. (n - 1)
    <3>1. ValidPositions(req[t]) /\ req[t].orig \in 0 .. Len(journal)
      BY <1>4, <2>1, PostJournal DEF RequestShape
    <3>2. ASSUME NEW n \in DOMAIN journal', n # Len(journal) + 1
          PROVE  n \in DOMAIN journal /\ journal'[n] = journal[n]
      BY <1>4, <3>2, PostJournal
    <3>3. Len(journal) \in Nat /\ journal'[Len(journal) + 1] = req[t]
      BY <1>4, PostJournal
    <3> QED
      BY <3>1, <3>2, <3>3
  <2> QED
    BY <2>2, <2>3, <2>4
<1>5. CASE UNCHANGED <<journal, pc, req>>
  BY <1>5 DEF RequestShape, Mirrors
<1> QED
  BY <1>1, <1>2, <1>3, <1>4, <1>5, Kinds
  DEF SetUser, SetLocationArchived, SetItem, DeleteUnusedItem, vars

\* Whoever writes a movement with some key holds that key's lock.
LEMMA NextKeys ==
  TypeOK /\ LocksExclusive /\ KeysClaimed /\ [Next]_vars => KeysClaimed'
<1> SUFFICES ASSUME TypeOK, LocksExclusive, KeysClaimed, [Next]_vars
             PROVE  KeysClaimed'
  OBVIOUS
<1> USE DEF KeysClaimed
<1>1. ASSUME NEW t \in Txns, Begins(t) PROVE KeysClaimed'
  BY <1>1, BeginsLeaves DEF Begins, tables
<1>2. ASSUME NEW t \in Txns, Ends(t) PROVE KeysClaimed'
  BY <1>2, EndsLeaves DEF tables
<1>3. ASSUME NEW t \in Txns, Moves(t), Passes(t) PROVE KeysClaimed'
  BY <1>3 DEF Moves, Passes, tables
<1>4. ASSUME NEW t \in Txns, Post(t) PROVE KeysClaimed'
  <2>1. \A s \in Txns : pc'[s] # "idle" =>
          /\ s # t /\ pc'[s] = pc[s] /\ req'[s] = req[s] /\ held'[s] = held[s]
    BY <1>4, PostJournal
  <2>2. ASSUME NEW s \in Txns \ {t}, pc[s] \in {"user", "orig", "locs", "items", "post"}
        PROVE  ~SameKey(req[t], req[s])
    <3>1. /\ <<"key", req[t].actor, req[t].key>> \in held[t]
          /\ <<"key", req[s].actor, req[s].key>> \in held[s]
      BY <1>4, <2>2, PostJournal
    <3> QED
      BY <3>1 DEF LocksExclusive, SameKey
  <2>3. \A n \in DOMAIN journal' :
          journal'[n] = req[t] \/ (n \in DOMAIN journal /\ journal'[n] = journal[n])
    BY <1>4, PostJournal
  <2> QED
    BY <2>1, <2>2, <2>3
<1>5. CASE UNCHANGED <<journal, pc, req, held>>
  BY <1>5
<1> QED
  BY <1>1, <1>2, <1>3, <1>4, <1>5, Kinds
  DEF SetUser, SetLocationArchived, SetItem, DeleteUnusedItem, vars

\* Whoever writes a reversal of some movement holds that movement's lock, and
\* a receipt that becomes final is new.
LEMMA NextOriginals ==
  TypeOK /\ LocksExclusive /\ WellFormed /\ OriginalsClaimed /\ [Next]_vars
    => OriginalsClaimed'
<1> SUFFICES ASSUME TypeOK, LocksExclusive, WellFormed, OriginalsClaimed,
                    [Next]_vars
             PROVE  OriginalsClaimed'
  OBVIOUS
<1> USE DEF OriginalsClaimed
<1>1. ASSUME NEW t \in Txns, Begins(t) PROVE OriginalsClaimed'
  BY <1>1, BeginsLeaves DEF Begins, tables, Reversed, Protected
<1>2. ASSUME NEW t \in Txns, Ends(t) PROVE OriginalsClaimed'
  BY <1>2, EndsLeaves DEF tables, Reversed, Protected
<1>3. ASSUME NEW t \in Txns, Moves(t), Passes(t) PROVE OriginalsClaimed'
  BY <1>3 DEF Moves, Passes, AfterKey, AfterUser, Adjustable, AlreadyReversed,
              tables, Reversed, Protected
<1>4. ASSUME NEW t \in Txns, Post(t) PROVE OriginalsClaimed'
  <2> SUFFICES ASSUME NEW s \in Txns, pc'[s] \in {"locs", "items", "post"},
                      req'[s].orig # 0
               PROVE  /\ <<"orig", req[s].orig>>' \in held'[s]
                      /\ journal'[req'[s].orig].type # "REVERSAL"
                      /\ req'[s].type = "CORRECTION" =>
                           journal'[req'[s].orig].custody = None
                      /\ req'[s].type = "REVERSAL" => ~Reversed(req[s].orig)'
                      /\ ~Protected(req[s].orig)'
    OBVIOUS
  <2> DEFINE o == req[s].orig
  <2>1. /\ s # t /\ pc'[s] = pc[s] /\ req'[s] = req[s] /\ held'[s] = held[s]
    BY <1>4, PostJournal
  <2>2. o \in DOMAIN journal /\ journal'[o] = journal[o]
    BY <1>4, <2>1, PostJournal DEF WellFormed, RequestShape
  <2>3. req[s].type = "REVERSAL" => ~Reversed(o)'
    <3> SUFFICES ASSUME req[s].type = "REVERSAL", NEW r \in DOMAIN journal',
                        journal'[r].type = "REVERSAL", journal'[r].orig = o
                 PROVE  FALSE
      BY <2>1 DEF Reversed
    <3>1. CASE r \in DOMAIN journal
      <4>1. ~Reversed(o)
        BY <2>1
      <4>2. journal'[r] = journal[r]
        BY <1>4, <3>1, PostJournal
      <4> QED
        BY <3>1, <4>1, <4>2 DEF Reversed
    <3>2. CASE journal'[r] = req[t]
      <4>1. <<"orig", o>> \in held[t] /\ <<"orig", o>> \in held[s]
        BY <1>4, <2>1, <2>2, <3>2, PostJournal
      <4> QED
        BY <2>1, <4>1 DEF LocksExclusive
    <3> QED
      BY <1>4, <3>1, <3>2, PostJournal
  <2>4. ~Protected(o)'
    <3>1. \A p \in Procurements : final'[p] = final[p] \/ final'[p] = Len(journal) + 1
      <4>1. final' = [p \in Procurements |->
                        IF p = req[t].key THEN Len(journal') ELSE final[p]]
        BY <1>4 DEF Post
      <4>2. Len(journal') = Len(journal) + 1
        BY <1>4, PostJournal
      <4> QED
        BY <4>1, <4>2
    <3>2. o # Len(journal) + 1
      BY <1>4, <2>2, PostJournal
    <3> QED
      BY <2>1, <3>1, <3>2 DEF Protected
  <2> QED
    BY <2>1, <2>2, <2>3, <2>4
<1>5. CASE UNCHANGED <<journal, final, pc, req, held>>
  BY <1>5 DEF Reversed, Protected
<1> QED
  BY <1>1, <1>2, <1>3, <1>4, <1>5, Kinds
  DEF SetUser, SetLocationArchived, SetItem, DeleteUnusedItem, vars

\* Corrections pass through the item check.
LEMMA NextCorrections ==
  TypeOK /\ WellFormed /\ CorrectionsConcern /\ [Next]_vars => CorrectionsConcern'
<1> SUFFICES ASSUME TypeOK, WellFormed, CorrectionsConcern, [Next]_vars
             PROVE  CorrectionsConcern'
  OBVIOUS
<1> USE DEF CorrectionsConcern
<1>1. ASSUME NEW t \in Txns, Begins(t) PROVE CorrectionsConcern'
  BY <1>1, BeginsLeaves DEF Begins, tables
<1>2. ASSUME NEW t \in Txns, Ends(t) PROVE CorrectionsConcern'
  BY <1>2, EndsLeaves DEF tables
<1>3. ASSUME NEW t \in Txns, Moves(t), Passes(t) PROVE CorrectionsConcern'
  BY <1>3 DEF Moves, Passes, AfterKey, AfterUser, ItemsUsable, tables,
              WellFormed, RequestShape
<1>4. ASSUME NEW t \in Txns, Post(t) PROVE CorrectionsConcern'
  <2> SUFFICES ASSUME NEW s \in Txns, pc'[s] = "post", req'[s].type = "CORRECTION"
               PROVE  /\ DOMAIN req'[s].lines \subseteq DOMAIN journal'[req'[s].orig].lines
                      /\ Places(req'[s]) \cap Places(journal'[req'[s].orig]) # {}
    OBVIOUS
  <2>1. s # t /\ pc[s] = "post" /\ req'[s] = req[s]
    BY <1>4, PostJournal
  <2>2. req[s].orig \in DOMAIN journal
    BY <2>1 DEF WellFormed, RequestShape, ValidPositions
  <2>3. journal'[req[s].orig] = journal[req[s].orig]
    BY <1>4, <2>2, PostJournal
  <2> QED
    BY <2>1, <2>3
<1>5. CASE UNCHANGED <<journal, pc, req>>
  BY <1>5
<1> QED
  BY <1>1, <1>2, <1>3, <1>4, <1>5, Kinds
  DEF SetUser, SetLocationArchived, SetItem, DeleteUnusedItem, vars

\* A procurement is completed under its lock, by a receipt that is new.
LEMMA NextDeliveries ==
  TypeOK /\ LocksExclusive /\ WellFormed /\ OriginalsClaimed
    /\ DeliveriesClaimed /\ ReceiptsBound /\ ProcurementReceiptsFinal /\ [Next]_vars
    => DeliveriesClaimed' /\ ReceiptsBound' /\ ProcurementReceiptsFinal'
<1> SUFFICES ASSUME TypeOK, LocksExclusive, WellFormed, OriginalsClaimed,
                    DeliveriesClaimed, ReceiptsBound, ProcurementReceiptsFinal,
                    [Next]_vars
             PROVE  DeliveriesClaimed' /\ ReceiptsBound' /\ ProcurementReceiptsFinal'
  OBVIOUS
<1>1. ASSUME NEW t \in Txns, Begins(t) PROVE DeliveriesClaimed'
  BY <1>1, BeginsLeaves DEF Begins, DeliveriesClaimed, tables
<1>2. ASSUME NEW t \in Txns, Ends(t) PROVE DeliveriesClaimed'
  BY <1>2, EndsLeaves DEF DeliveriesClaimed, tables
<1>3. ASSUME NEW t \in Txns, Moves(t), Passes(t) PROVE DeliveriesClaimed'
  BY <1>3 DEF Moves, Passes, AfterKey, AfterUser, DeliveriesClaimed, WellFormed, tables
<1>4. ASSUME NEW t \in Txns, Post(t)
      PROVE  DeliveriesClaimed' /\ ReceiptsBound' /\ ProcurementReceiptsFinal'
  <2> DEFINE N == Len(journal) + 1
             k == req[t].key
  <2>1. /\ N \in Nat \ {0} /\ N \notin DOMAIN journal
        /\ DOMAIN journal = 1 .. (N - 1)
        /\ DOMAIN journal' = DOMAIN journal \cup {N}
        /\ journal'[N] = req[t]
        /\ \A n \in DOMAIN journal : journal'[n] = journal[n]
    <3>1. Len(journal) \in Nat /\ DOMAIN journal = 1 .. Len(journal)
          /\ DOMAIN journal' = 1 .. N
      BY <1>4, PostJournal
    <3>2. journal'[N] = req[t] /\ \A n \in DOMAIN journal : journal'[n] = journal[n]
      BY <1>4, PostJournal
    <3>3. DOMAIN journal' = DOMAIN journal \cup {N}
      BY <3>1
    <3> QED
      BY <3>1, <3>2, <3>3
  <2>2. /\ pc[t] = "post"
        /\ \A s \in Txns : pc'[s] # "idle" =>
             s # t /\ pc'[s] = pc[s] /\ req'[s] = req[s] /\ held'[s] = held[s]
    BY <1>4, PostJournal
  <2>3. \A p \in Procurements : final'[p] = IF p = k THEN N ELSE final[p]
    <3>1. final' = [p \in Procurements |->
                      IF p = req[t].key THEN Len(journal') ELSE final[p]]
      BY <1>4 DEF Post
    <3>2. Len(journal') = N
      BY <1>4, PostJournal
    <3> QED
      BY <3>1, <3>2
  <2>4. k \in Procurements => final[k] = 0
    BY <2>2 DEF DeliveriesClaimed
  <2> HIDE DEF N
  <2>5. DeliveriesClaimed'
    <3>1. \A s \in Txns : pc'[s] \notin {"idle", "request"} /\ k \in Procurements
            => req[s].key # k
      <4>1. k \in Procurements => <<"request", k>> \in held[t]
        BY <2>2 DEF DeliveriesClaimed
      <4>2. ASSUME NEW s \in Txns \ {t}, pc[s] \notin {"idle", "request"},
                   req[s].key = k, k \in Procurements
            PROVE  <<"request", k>> \in held[s]
        BY <4>2 DEF DeliveriesClaimed
      <4> QED
        BY <2>2, <4>1, <4>2 DEF LocksExclusive
    <3> QED
      BY <2>2, <2>3, <3>1 DEF DeliveriesClaimed
  <2>6. ReceiptsBound'
    BY <2>1, <2>3, <2>4 DEF ReceiptsBound
  <2>7. \A p \in Procurements, n \in DOMAIN journal' :
          final'[p] # 0 => journal'[n].orig # final'[p]
    <3>1. req[t].orig \in {0} \cup DOMAIN journal
      BY <2>2 DEF WellFormed, RequestShape
    <3>2. req[t].orig # 0 => \A p \in Procurements : final[p] # req[t].orig
      BY <2>2 DEF OriginalsClaimed, Protected
    <3>3. \A n \in DOMAIN journal : journal[n].orig # N
      BY <2>1 DEF WellFormed
    <3> QED
      BY <2>1, <2>3, <3>1, <3>2, <3>3 DEF ProcurementReceiptsFinal
  <2> QED
    BY <2>5, <2>6, <2>7 DEF ProcurementReceiptsFinal, ReceiptsBound
<1>5. ASSUME UNCHANGED <<journal, final>>
      PROVE  ReceiptsBound' /\ ProcurementReceiptsFinal'
  BY <1>5 DEF ReceiptsBound, ProcurementReceiptsFinal
<1>6. ASSUME UNCHANGED <<journal, final, pc, req, held>> PROVE DeliveriesClaimed'
  BY <1>6 DEF DeliveriesClaimed
<1>7. ReceiptsBound' /\ ProcurementReceiptsFinal'
  BY <1>4, <1>5, OnlyPostWrites
<1>8. DeliveriesClaimed'
  BY <1>1, <1>2, <1>3, <1>4, <1>6, Kinds
  DEF SetUser, SetLocationArchived, SetItem, DeleteUnusedItem, vars
<1> QED
  BY <1>7, <1>8

-----------------------------------------------------------------------------
(* The projections                                                          *)

\* What a movement adds to a balance is a number.
LEMMA DeltasInt ==
  ASSUME NEW m \in Movements, NEW i, NEW type
  PROVE  /\ \A l : StockDelta(m, i, l) \in Int
         /\ Quantity(m, i) \in Nat /\ CustodySign(m.type, type) * Quantity(m, i) \in Int
<1>1. Quantity(m, i) \in Nat
  <2>1. m.lines \in UNION {[S -> Quantities] : S \in (SUBSET Items) \ {{}}}
    BY DEF Movements
  <2>2. PICK S \in SUBSET Items : m.lines \in [S -> Quantities]
    BY <2>1
  <2> QED
    BY <2>2, JournalAssumption DEF Quantity
<1>2. CustodySign(m.type, type) \in {-1, 0, 1}
  BY DEF CustodySign
<1>3. CustodySign(m.type, type) * Quantity(m, i) \in Int
  BY <1>1, <1>2
<1> QED
  BY <1>1, <1>3 DEF StockDelta

\* A movement adds its own deltas to what the journal amounts to.
LEMMA JournalAppends ==
  ASSUME NEW j \in Seq(Movements), NEW m \in Movements,
         m.orig \in 0 .. Len(j), \A n \in DOMAIN j : j[n].orig \in 0 .. (n - 1)
  PROVE  LET k == Append(j, m) IN
         /\ \A i, l : /\ JournalStock(j, i, l) \in Int
                      /\ JournalStock(k, i, l) = JournalStock(j, i, l) + StockDelta(m, i, l)
         /\ \A u, i : /\ JournalCustody(j, u, i) \in Int
                      /\ JournalCustody(k, u, i) = JournalCustody(j, u, i) + CustodyDelta(j, m, u, i)
<1> DEFINE k == Append(j, m)
           N == Len(j)
<1>1. /\ N \in Nat /\ DOMAIN j = 1 .. N /\ DOMAIN k = 1 .. (N + 1) /\ k[N + 1] = m
      /\ \A n \in 1 .. N : k[n] = j[n] /\ j[n] \in Movements
  OBVIOUS
<1>2. \A n \in 1 .. (N + 1) : k[n] \in Movements
  BY <1>1
<1>3. \A n \in 1 .. (N + 1) : OriginalType(k, k[n]) = OriginalType(j, k[n])
  <2> SUFFICES ASSUME NEW n \in 1 .. (N + 1)
               PROVE  OriginalType(k, k[n]) = OriginalType(j, k[n])
    OBVIOUS
  <2>1. k[n].orig \in 0 .. N
    BY <1>1
  <2>2. k[n].orig \in DOMAIN k <=> k[n].orig \in DOMAIN j
    BY <1>1, <2>1
  <2>3. k[n].orig \in DOMAIN j => k[k[n].orig] = j[k[n].orig]
    BY <1>1
  <2> QED
    BY <2>2, <2>3 DEF OriginalType
<1> HIDE DEF k, N
<1>4. ASSUME NEW i, NEW l
      PROVE  /\ JournalStock(j, i, l) \in Int
             /\ JournalStock(k, i, l) = JournalStock(j, i, l) + StockDelta(m, i, l)
  <2> DEFINE f == [n \in 1 .. N |-> StockDelta(j[n], i, l)]
             g == [n \in 1 .. (N + 1) |-> StockDelta(k[n], i, l)]
  <2>1. f \in [1 .. N -> Int] /\ g \in [1 .. (N + 1) -> Int]
    BY <1>1, <1>2, DeltasInt
  <2>2. (\A n \in 1 .. N : g[n] = f[n]) /\ g[N + 1] = StockDelta(m, i, l)
    BY <1>1
  <2>3. JournalStock(j, i, l) = SumFunction(f) /\ JournalStock(k, i, l) = SumFunction(g)
    BY <1>1 DEF JournalStock
  <2> HIDE DEF f, g
  <2> QED
    BY <1>1, <2>1, <2>2, <2>3, SumAppends
<1>5. ASSUME NEW u, NEW i
      PROVE  /\ JournalCustody(j, u, i) \in Int
             /\ JournalCustody(k, u, i) = JournalCustody(j, u, i) + CustodyDelta(j, m, u, i)
  <2> DEFINE f == [n \in 1 .. N |-> CustodyDelta(j, j[n], u, i)]
             g == [n \in 1 .. (N + 1) |-> CustodyDelta(k, k[n], u, i)]
  <2>1. \A n \in 1 .. (N + 1) :
          CustodyDelta(k, k[n], u, i) = CustodyDelta(j, k[n], u, i) /\ CustodyDelta(j, k[n], u, i) \in Int
    <3> SUFFICES ASSUME NEW n \in 1 .. (N + 1)
                 PROVE  /\ CustodyDelta(k, k[n], u, i) = CustodyDelta(j, k[n], u, i)
                        /\ CustodyDelta(j, k[n], u, i) \in Int
      OBVIOUS
    <3>1. CustodySign(k[n].type, OriginalType(j, k[n])) * Quantity(k[n], i) \in Int
      BY <1>2, DeltasInt
    <3> QED
      BY <1>3, <3>1 DEF CustodyDelta
  <2>2. f \in [1 .. N -> Int] /\ g \in [1 .. (N + 1) -> Int]
    BY <1>1, <2>1
  <2>3. (\A n \in 1 .. N : g[n] = f[n]) /\ g[N + 1] = CustodyDelta(j, m, u, i)
    BY <1>1, <2>1
  <2>4. JournalCustody(j, u, i) = SumFunction(f) /\ JournalCustody(k, u, i) = SumFunction(g)
    BY <1>1 DEF JournalCustody
  <2> HIDE DEF f, g
  <2> QED
    BY <1>1, <2>2, <2>3, <2>4, SumAppends
<1> QED
  BY <1>4, <1>5 DEF k

\* The rows that the write does not refresh are rows its movement leaves alone.
LEMMA NextProjections ==
  TypeOK /\ WellFormed /\ ProjectionsMatchJournal /\ [Next]_vars => ProjectionsMatchJournal'
<1> SUFFICES ASSUME TypeOK, WellFormed, ProjectionsMatchJournal, [Next]_vars
             PROVE  ProjectionsMatchJournal'
  OBVIOUS
<1>1. ASSUME NEW t \in Txns, Post(t) PROVE ProjectionsMatchJournal'
  <2> DEFINE m == req[t]
             k == Append(journal, m)
  <2>1. m \in Movements /\ pc[t] = "post" /\ Len(journal) \in Nat /\ DOMAIN journal = 1 .. Len(journal)
    BY <1>1, PostJournal
  <2>2. m.orig \in 0 .. Len(journal) /\ \A n \in DOMAIN journal : journal[n].orig \in 0 .. (n - 1)
    BY <2>1 DEF WellFormed, RequestShape
  <2>3. journal \in Seq(Movements) /\ journal' = k
        /\ stock' = RefreshStock(k, m) /\ custody' = RefreshCustody(k, m)
    BY <1>1 DEF Post, TypeOK
  <2>4. /\ \A i, l : /\ JournalStock(journal, i, l) \in Int
                     /\ JournalStock(k, i, l) = JournalStock(journal, i, l) + StockDelta(m, i, l)
        /\ \A u, i : /\ JournalCustody(journal, u, i) \in Int
                     /\ JournalCustody(k, u, i) = JournalCustody(journal, u, i) + CustodyDelta(journal, m, u, i)
    BY <2>1, <2>2, <2>3, JournalAppends
  <2> HIDE DEF m, k
  <2>5. ASSUME NEW i \in Items, NEW l \in Locations PROVE stock'[i][l] = JournalStock(k, i, l)
    <3>1. CASE i \in DOMAIN m.lines /\ l \in Places(m)
      BY <2>3, <3>1 DEF RefreshStock
    <3>2. CASE ~(i \in DOMAIN m.lines /\ l \in Places(m))
      <4>1. StockDelta(m, i, l) = 0
        BY <3>2, JournalAssumption DEF StockDelta, Quantity, Places
      <4>2. stock'[i][l] = stock[i][l]
        BY <2>3, <3>2 DEF RefreshStock
      <4>3. JournalStock(k, i, l) = JournalStock(journal, i, l)
        BY <2>4, <4>1
      <4> QED
        BY <4>2, <4>3 DEF ProjectionsMatchJournal
    <3> QED
      BY <3>1, <3>2
  <2>6. ASSUME NEW u \in Users, NEW i \in Items PROVE custody'[u][i] = JournalCustody(k, u, i)
    <3>1. CASE i \in DOMAIN m.lines /\ u = m.custody
      BY <2>3, <3>1 DEF RefreshCustody
    <3>2. CASE ~(i \in DOMAIN m.lines /\ u = m.custody)
      <4>1. CustodyDelta(journal, m, u, i) = 0
        <5>1. CustodySign(m.type, OriginalType(journal, m)) * 0 = 0
          <6>1. CustodySign(m.type, OriginalType(journal, m)) \in {-1, 0, 1}
            BY DEF CustodySign
          <6> QED
            BY <6>1
        <5> QED
          BY <3>2, <5>1 DEF CustodyDelta, Quantity
      <4>2. custody'[u][i] = custody[u][i]
        BY <2>3, <3>2 DEF RefreshCustody
      <4>3. JournalCustody(k, u, i) = JournalCustody(journal, u, i)
        BY <2>4, <4>1
      <4> QED
        BY <4>2, <4>3 DEF ProjectionsMatchJournal
    <3> QED
      BY <3>1, <3>2
  <2> QED
    BY <2>3, <2>5, <2>6 DEF ProjectionsMatchJournal
<1>2. CASE UNCHANGED <<journal, stock, custody>>
  BY <1>2 DEF ProjectionsMatchJournal
<1> QED
  BY <1>1, <1>2, OnlyPostWrites

-----------------------------------------------------------------------------
(* The theorems                                                             *)

\* The inductive invariant: the types, what requests have secured, and the
\* properties that follow step by step from it.
IInv ==
  /\ TypeOK /\ LocksExclusive /\ WellFormed
  /\ LocationsClaimed /\ ItemsClaimed /\ KeysClaimed
  /\ OriginalsClaimed /\ CorrectionsConcern
  /\ DeliveriesClaimed /\ ReceiptsBound
  /\ ArchivedLocationsEmpty /\ CustodyHoldersEligible
  /\ HistoryKeepsItems /\ ProcurementReceiptsFinal
  /\ ProjectionsMatchJournal

LEMMA InitIInv == Init => IInv
<1> SUFFICES ASSUME Init PROVE IInv
  OBVIOUS
<1>1. TypeOK
  BY JournalAssumption, WarehouseAssumption DEF Init, TypeOK, Stages
<1>2. /\ DOMAIN journal = {} /\ \A t \in Txns : pc[t] = "idle" /\ held[t] = {}
      /\ \A p \in Procurements : final[p] = 0
  BY DEF Init
<1>3. LocksExclusive /\ WellFormed /\ LocationsClaimed /\ ItemsClaimed /\ KeysClaimed
  BY <1>2 DEF LocksExclusive, WellFormed, LocationsClaimed, ItemsClaimed, KeysClaimed
<1>4. OriginalsClaimed /\ CorrectionsConcern /\ DeliveriesClaimed /\ ReceiptsBound
  BY <1>2 DEF OriginalsClaimed, CorrectionsConcern, DeliveriesClaimed, ReceiptsBound
<1>5. ArchivedLocationsEmpty /\ CustodyHoldersEligible
  BY DEF Init, ArchivedLocationsEmpty, CustodyHoldersEligible, HoldsCustody
<1>6. HistoryKeepsItems /\ ProcurementReceiptsFinal
  BY <1>2 DEF HistoryKeepsItems, ProcurementReceiptsFinal
<1>7. ProjectionsMatchJournal
  <2>1. (\A i, l : JournalStock(<<>>, i, l) = 0) /\ (\A u, i : JournalCustody(<<>>, u, i) = 0)
    BY SumOfNone DEF JournalStock, JournalCustody, SumFunction
  <2> QED
    BY <2>1 DEF Init, ProjectionsMatchJournal
<1> QED
  BY <1>1, <1>3, <1>4, <1>5, <1>6, <1>7 DEF IInv

\* The warehouse keeps the invariant.
THEOREM Invariant == Spec => []IInv
<1>1. IInv /\ [Next]_vars => IInv'
  BY NextType, NextExclusive, NextWellFormed, NextLocations, NextItems, NextKeys,
     NextOriginals, NextCorrections, NextDeliveries, NextHolders, NextProjections
  DEF IInv
<1> QED
  BY <1>1, InitIInv, PTL DEF Spec

\* The stock and custody rows say what the whole journal amounts to, for every
\* number of concurrent requests: refresh_warehouse_projection derives the rows
\* that a movement touches from the journal, and leaves no other that the
\* movement changes.
THEOREM ProjectionsAreRight == Spec => []ProjectionsMatchJournal
<1>1. IInv => ProjectionsMatchJournal
  BY DEF IInv
<1> QED
  BY <1>1, Invariant, PTL

\* An archived location is empty, for every number of concurrent requests:
\* set_location_archived and _create_movement exclude each other by the lock
\* on the location's row.
THEOREM ArchivedLocationsStayEmpty == Spec => []ArchivedLocationsEmpty
<1>1. IInv => ArchivedLocationsEmpty
  BY DEF IInv
<1> QED
  BY <1>1, Invariant, PTL

\* Equipment is in the custody of approved engineers only, although
\* _create_movement may judge its actor by a stale row.
THEOREM CustodyStaysEligible == Spec => []CustodyHoldersEligible
<1>1. IInv => CustodyHoldersEligible
  BY DEF IInv
<1> QED
  BY <1>1, Invariant, PTL

\* delete_unused_item never removes an item that the journal mentions.
THEOREM HistoryIsKept == Spec => []HistoryKeepsItems
<1>1. IInv => HistoryKeepsItems
  BY DEF IInv
<1> QED
  BY <1>1, Invariant, PTL

\* A procurement is completed by one receipt, which nothing adjusts.
THEOREM ReceiptsAreFinal == Spec => []ProcurementReceiptsFinal
<1>1. IInv => ProcurementReceiptsFinal
  BY DEF IInv
<1> QED
  BY <1>1, Invariant, PTL

\* The unique constraints of the journal never fire: the checks under the
\* advisory locks have already refused what they would refuse.
THEOREM AdvisoryLocksSuffice == Spec => []ConstraintsNeverFire
<1>1. IInv => ConstraintsNeverFire
  <2> SUFFICES ASSUME IInv, NEW t \in Txns, pc[t] = "post"
               PROVE  UniqueConstraints(req[t])
    BY DEF ConstraintsNeverFire
  <2>1. \A n \in DOMAIN journal : ~SameKey(journal[n], req[t])
    BY DEF IInv, KeysClaimed
  <2>2. req[t].type = "REVERSAL" => req[t].orig # 0
    BY DEF IInv, WellFormed, RequestShape, ValidPositions
  <2> QED
    BY <2>1, <2>2 DEF IInv, OriginalsClaimed, UniqueConstraints
<1> QED
  BY <1>1, Invariant, PTL

\* A response names the movement its request asked for.
THEOREM AnswersAreRight == Spec => AnswersMatchRequests
<1> DEFINE Right == \A t \in Txns :
                      pc[t] # "idle" /\ pc'[t] = "idle" /\ answer'[t] # 0 =>
                        journal'[answer'[t]] = req[t]
<1>1. ASSUME TypeOK, [Next]_vars PROVE [Right]_vars
  <2>1. ASSUME NEW t \in Txns, LockKey(t) PROVE Right
    BY <1>1, <2>1 DEF LockKey, SamePayload, Finish, Acquire, AfterKey, AfterUser, TypeOK, tables
  <2>2. ASSUME NEW t \in Txns, Post(t) PROVE Right
    BY <1>1, <2>2 DEF Post, Finish, TypeOK
  <2>3. ASSUME NEW t \in Txns, Finish(t, 0) PROVE Right
    BY <1>1, <2>3 DEF Finish, TypeOK
  <2>4. ASSUME NEW t \in Txns, NEW stage, stage # "idle",
               pc' = [pc EXCEPT ![t] = stage]
        PROVE  Right
    BY <1>1, <2>4 DEF TypeOK
  <2>5. ASSUME UNCHANGED pc PROVE Right
    BY <2>5
  <2>6. ASSUME NEW t \in Txns,
               \/ PostMovement(t) \/ PostReversal(t) \/ CompleteAcceptance(t)
        PROVE  Right
    <3>1. Begins(t)
      BY <1>1, <2>6, PostMovementBegins, PostReversalBegins, CompleteAcceptanceBegins
    <3>2. PICK m \in Movements, stage \in {"request", "key"} : Start(t, m, stage)
      BY <3>1 DEF Begins
    <3> QED
      BY <2>4, <3>2 DEF Start
  <2>7. ASSUME NEW t \in Txns,
               \/ LockRequest(t) \/ LockAcceptor(t) \/ ClaimItem(t) \/ ClaimItems(t)
        PROVE  Right
    BY <2>3, <2>4, <2>7
    DEF LockRequest, LockAcceptor, ClaimItem, ClaimItems, Acquire
  <2>8. ASSUME NEW t \in Txns, LockCustodyUser(t) \/ LockOriginal(t)
        PROVE  Right
    BY <2>3, <2>4, <2>8 DEF LockCustodyUser, LockOriginal, Acquire, AfterUser
  <2>9. ASSUME NEW t \in Txns, LockLocation(t) \/ LockItem(t) \/ CheckItems(t)
        PROVE  Right
    BY <2>3, <2>4, <2>9 DEF LockLocation, LockItem, CheckItems, Acquire
  <2>10. ASSUME NEW t \in Txns, PostFails(t) \/ Abort(t) \/ DeadlockVictim(t)
         PROVE  Right
    BY <2>3, <2>10 DEF PostFails, Abort, DeadlockVictim
  <2>11. ASSUME NEW u \in Users,
                UpdateUserAccess(u) \/ UpdateUserRole(u) \/ ResetUserAccount(u)
         PROVE  Right
    BY <2>5, <2>11 DEF UpdateUserAccess, UpdateUserRole, ResetUserAccount, SetUser
  <2>12. ASSUME NEW l \in Locations, NEW b \in BOOLEAN, SetLocationArchived(l, b)
         PROVE  Right
    BY <2>5, <2>12 DEF SetLocationArchived
  <2>13. ASSUME NEW i \in Items,
                \/ \E b \in BOOLEAN : SetItemArchived(i, b)
                \/ DeleteUnusedItem(i) \/ CreateItem(i)
         PROVE  Right
    BY <2>5, <2>13 DEF SetItemArchived, DeleteUnusedItem, CreateItem, SetItem
  <2> QED
    BY <1>1, <2>1, <2>2, <2>6, <2>7, <2>8, <2>9, <2>10, <2>11, <2>12, <2>13
    DEF Next, Step
<1> QED
  BY <1>1, TypeCorrect, PTL DEF Spec, AnswersMatchRequests

-----------------------------------------------------------------------------
(* The warehouse implements the ledger                                      *)

\* The ledger's vocabulary is the warehouse's own.
LEMMA LedgerWords ==
  ASSUME NEW j, NEW m
  PROVE  /\ L!Movements = Movements
         /\ L!ValidPositions(m) <=> ValidPositions(m)
         /\ L!Places(m) = Places(m)
         /\ \A n : L!SameKey(n, m) <=> SameKey(n, m)
         /\ \A q : L!InRange(q) <=> InRange(q)
         /\ \A i, l : L!JournalStock(j, i, l) = JournalStock(j, i, l)
         /\ \A u, i : L!JournalCustody(j, u, i) = JournalCustody(j, u, i)
<1>1. L!Movements = Movements
  BY DEF L!Movements, Movements, L!MovementTypes, MovementTypes
<1>2. L!ValidPositions(m) <=> ValidPositions(m)
  BY DEF L!ValidPositions, ValidPositions
<1>3. L!Places(m) = Places(m)
  BY DEF L!Places, Places
<1>4. /\ \A n : L!SameKey(n, m) <=> SameKey(n, m)
      /\ \A q : L!InRange(q) <=> InRange(q)
  BY DEF L!SameKey, SameKey, L!InRange, InRange
<1>5. ASSUME NEW i, NEW l PROVE L!JournalStock(j, i, l) = JournalStock(j, i, l)
  BY DEF L!JournalStock, JournalStock, L!StockDelta, StockDelta, L!Quantity, Quantity,
         L!SumFunction, SumFunction, L!SumFunctionOnSet, SumFunctionOnSet,
         L!FoldFunctionOnSet, FoldFunctionOnSet, L!MapThenFoldSet, MapThenFoldSet
<1>6. ASSUME NEW u, NEW i PROVE L!JournalCustody(j, u, i) = JournalCustody(j, u, i)
  BY DEF L!JournalCustody, JournalCustody, L!CustodyDelta, CustodyDelta,
         L!CustodySign, CustodySign, L!OriginalType, OriginalType, L!Quantity, Quantity,
         L!SumFunction, SumFunction, L!SumFunctionOnSet, SumFunctionOnSet,
         L!FoldFunctionOnSet, FoldFunctionOnSet, L!MapThenFoldSet, MapThenFoldSet
<1> QED
  BY <1>1, <1>2, <1>3, <1>4, <1>5, <1>6

\* What a request has secured when it writes makes its movement legal: no
\* check that the ledger makes is missing from the stages before the write.
LEMMA PostEnters ==
  ASSUME IInv, NEW t \in Txns, Post(t)
  PROVE  L!Next
<1> DEFINE m == req[t]
<1> TypeOK
  BY DEF IInv
<1>1. /\ m \in Movements /\ pc[t] = "post" /\ Len(journal) \in Nat
      /\ Len(journal') = Len(journal) + 1 /\ journal'[Len(journal')] = m
      /\ journal' = Append(journal, m)
  BY PostJournal DEF Post
<1>2. RequestShape(m) /\ UniqueConstraints(m) /\ WriteAllowed(m)
  BY <1>1 DEF IInv, WellFormed, Post, WriteAllowed
<1>3. m.orig # 0 => m.orig \in DOMAIN journal /\ journal[m.orig].type # "REVERSAL"
  BY <1>1, <1>2 DEF IInv, OriginalsClaimed, RequestShape
<1>4. ASSUME m.type = "REVERSAL" PROVE L!UndoesOnce(m)
  BY <1>2, <1>4 DEF L!UndoesOnce, RequestShape, Mirrors, UniqueConstraints, Reversed
<1>5. ASSUME m.type = "CORRECTION" PROVE L!Concerns(m)
  <2>1. m.orig # 0
    BY <1>2, <1>5 DEF RequestShape, ValidPositions
  <2> QED
    BY <1>1, <1>5, <2>1 DEF IInv, OriginalsClaimed, CorrectionsConcern, L!Concerns,
       L!Places, Places
<1>6. L!Covered(m)
  <2>1. /\ DOMAIN m.lines \subseteq Items /\ Places(m) \subseteq Locations
        /\ m.custody # None => m.custody \in Users
    BY <1>1 DEF Movements, Places
  <2>2. \A i \in DOMAIN m.lines, l \in Places(m) :
          InRange(JournalStock(Append(journal, m), i, l))
    BY <1>2, <2>1 DEF WriteAllowed, RefreshStock
  <2>3. m.custody # None =>
          \A i \in DOMAIN m.lines :
            InRange(JournalCustody(Append(journal, m), m.custody, i))
    BY <1>2, <2>1 DEF WriteAllowed, RefreshCustody
  <2> HIDE DEF m
  <2> QED
    BY <2>2, <2>3, LedgerWords DEF L!Covered
<1> HIDE DEF m
<1>7. L!Legal(m)
  BY <1>2, <1>3, <1>4, <1>5, <1>6, LedgerWords
  DEF L!Legal, RequestShape, UniqueConstraints
<1> QED
  BY <1>1, <1>7, LedgerWords DEF L!Next, L!Enter

\* Whatever the interleaving of requests, locks, rollbacks and administrative
\* changes, the journal grows as the ledger says: by one legal movement at a
\* time, judged from the journal alone.
THEOREM WarehouseImplementsLedger == Spec => ImplementsLedger
<1>1. Init => L!Init
  BY DEF Init, L!Init
<1>2. ASSUME IInv, [Next]_vars PROVE [L!Next]_journal
  <2>1. TypeOK
    BY <1>2 DEF IInv
  <2>2. (\E t \in Txns : Post(t)) \/ UNCHANGED journal
    BY <1>2, <2>1, OnlyPostWrites
  <2> QED
    BY <1>2, <2>2, PostEnters
<1> QED
  BY <1>1, <1>2, Invariant, PTL DEF Spec, ImplementsLedger, L!Spec

-----------------------------------------------------------------------------
(* The order in which movements take their locks, and the deadlocks that it *)
(* leaves                                                                   *)

\* What a request holds at each of its stages: locks of the kinds of earlier
\* stages, and of the kind of this stage only rows below those it still needs.
\* There is always a location left to lock, and item rows that do not exist
\* are not waited for.
Climbs(t) ==
  /\ pc[t] = "key"  => held[t] = {}
  /\ pc[t] = "user" => \A a \in held[t] : a[1] = "key"
  /\ pc[t] = "orig" => \A a \in held[t] : a[1] \in {"key", "user"}
  /\ pc[t] = "locs" =>
       /\ \E k \in Places(req[t]) : <<"loc", k>> \notin held[t]
       /\ \A a \in held[t] :
            \/ a[1] \in {"key", "user", "orig"}
            \/ a[1] = "loc" /\ \A k \in Places(req[t]) : <<"loc", k>> \in held[t] \/ a[2] < k
  /\ pc[t] = "items" =>
       \A a \in held[t] :
         \/ a[1] \in {"key", "user", "orig", "loc"}
         \/ /\ a[1] = "item"
            /\ \A i \in DOMAIN req[t].lines :
                 items[i] # "ABSENT" => <<"item", i>> \in held[t] \/ a[2] < i

\* A transaction without a request holds no lock.
IdleHoldNothing == \A t \in Txns : pc[t] = "idle" => held[t] = {}

\* Every request but an acceptance climbs.
LocksClimb ==
  \A t \in Txns : pc[t] # "idle" /\ req[t].key \notin Procurements => Climbs(t)

-----------------------------------------------------------------------------
(* The next row                                                             *)

\* The row that is locked next is the least of those that are not locked yet.
LEMMA NextRowIsLeast ==
  ASSUME NEW STATE t, NEW kind, NEW STATE ids, ids \subseteq Int, IsFiniteSet(ids),
         \E k \in ids : <<kind, k>> \notin held[t]
  PROVE  /\ NextRow(t, kind, ids) \in ids /\ <<kind, NextRow(t, kind, ids)>> \notin held[t]
         /\ \A k \in ids : <<kind, k>> \in held[t] \/ NextRow(t, kind, ids) <= k
<1> DEFINE T == {k \in ids : <<kind, k>> \notin held[t]}
<1>1. T \subseteq Int /\ T # {} /\ IsFiniteSet(T)
  <2>1. T \subseteq ids
    OBVIOUS
  <2> QED
    BY <2>1, FS_Subset
<1>2. PICK x \in T : \A y \in T : x <= y
  BY <1>1, LeastNumber
<1>3. \E i \in ids : /\ <<kind, i>> \notin held[t]
                     /\ \A k \in ids : <<kind, k>> \in held[t] \/ i <= k
  BY <1>2
<1> QED
  BY <1>3, Zenon DEF NextRow

\* The location that a request asks for.
LEMMA NextLocation ==
  ASSUME TypeOK, NEW t \in Txns, pc[t] # "idle",
         \E k \in Places(req[t]) : <<"loc", k>> \notin held[t]
  PROVE  LET l == NextRow(t, "loc", Places(req[t])) IN
         /\ l \in Places(req[t]) /\ l \in Locations /\ <<"loc", l>> \notin held[t]
         /\ \A k \in Places(req[t]) : <<"loc", k>> \in held[t] \/ l <= k
<1>1. req[t] \in Movements
  BY DEF TypeOK
<1>2. Places(req[t]) \subseteq Locations
  BY <1>1 DEF Places, Movements
<1>3. Places(req[t]) \subseteq Int /\ IsFiniteSet(Places(req[t]))
  BY <1>2, JournalAssumption, FS_Subset
<1>4. \A k \in Places(req[t]) : <<"loc", k>> \in held[t] \/ NextRow(t, "loc", Places(req[t])) <= k
  BY <1>3, NextRowIsLeast
<1> QED
  BY <1>2, <1>3, <1>4, NextRowIsLeast

\* The item that a request asks for, if there is one.
LEMMA NextItemRow ==
  ASSUME TypeOK, NEW t \in Txns, pc[t] # "idle", NEW i \in NextItem(t)
  PROVE  /\ i \in DOMAIN req[t].lines /\ i \in Items
         /\ items[i] # "ABSENT" /\ <<"item", i>> \notin held[t]
         /\ \A k \in DOMAIN req[t].lines :
              items[k] # "ABSENT" => <<"item", k>> \in held[t] \/ i <= k
<1> DEFINE rows == {k \in DOMAIN req[t].lines :
                      items[k] # "ABSENT" /\ <<"item", k>> \notin held[t]}
<1>1. req[t] \in Movements
  BY DEF TypeOK
<1>2. DOMAIN req[t].lines \subseteq Items
  BY <1>1 DEF Movements
<1>3. rows \subseteq Int /\ IsFiniteSet(rows)
  <2>1. rows \subseteq Items
    BY <1>2
  <2> QED
    BY <2>1, JournalAssumption, FS_Subset
<1>4. rows # {} /\ i = NextRow(t, "item", rows)
  BY DEF NextItem
<1>5. \E k \in rows : <<"item", k>> \notin held[t]
  BY <1>4
<1> HIDE DEF rows
<1>6. i \in rows /\ \A k \in rows : <<"item", k>> \in held[t] \/ i <= k
  BY <1>3, <1>4, <1>5, NextRowIsLeast
<1> QED
  BY <1>2, <1>6 DEF rows

-----------------------------------------------------------------------------
(* The locks climb                                                          *)

\* A request takes its location rows from the lowest up.
LEMMA LocationClimbs ==
  ASSUME TypeOK, NEW t \in Txns, LockLocation(t), pc'[t] # "idle", Climbs(t),
         req[t].key \notin Procurements
  PROVE  Climbs(t)'
<1> DEFINE places == Places(req[t])
           l == NextRow(t, "loc", places)
           last == \A k \in places : k = l \/ <<"loc", k>> \in held[t]
<1>1. /\ pc[t] = "locs" /\ req' = req
      /\ Acquire(t, <<"loc", l>>, IF ~last THEN "locs" ELSE "items")
  <2>1. ~Finish(t, 0)
    BY DEF Finish, TypeOK
  <2> QED
    BY <2>1, Zenon DEF LockLocation
<1>2. /\ l \in places /\ <<"loc", l>> \notin held[t] /\ l \in Int
      /\ \A k \in places : <<"loc", k>> \in held[t] \/ l <= k
  BY <1>1, NextLocation, JournalAssumption DEF Climbs
<1>3. places \subseteq Int /\ places' = places
  <2>1. req[t] \in Movements
    BY <1>1 DEF TypeOK
  <2>2. places \subseteq Locations
    BY <2>1 DEF Places, Movements
  <2> QED
    BY <1>1, <2>2, JournalAssumption DEF Places
<1>4. /\ held'[t] = held[t] \cup {<<"loc", l>>} /\ pc'[t] = IF ~last THEN "locs" ELSE "items"
  BY <1>1 DEF Acquire, TypeOK
<1> HIDE DEF l, last, places
<1>5. \A a \in held[t] :
        \/ a[1] \in {"key", "user", "orig"}
        \/ a[1] = "loc" /\ \A k \in places : <<"loc", k>> \in held[t] \/ a[2] < k
  BY <1>1 DEF Climbs, places
<1>6. \A a \in held'[t] :
        \/ a[1] \in {"key", "user", "orig"}
        \/ a[1] = "loc" /\ \A k \in places : <<"loc", k>> \in held'[t] \/ a[2] < k
  <2>1. ASSUME NEW k \in places PROVE <<"loc", k>> \in held'[t] \/ l < k
    <3>1. CASE k = l
      BY <1>4, <3>1
    <3>2. CASE k # l /\ l <= k
      <4>1. k \in Int
        BY <1>3
      <4> QED
        BY <1>2, <3>2, <4>1
    <3> QED
      BY <1>2, <1>4, <3>1, <3>2
  <2>2. <<"loc", l>>[1] = "loc" /\ <<"loc", l>>[2] = l
    OBVIOUS
  <2> QED
    BY <1>4, <1>5, <2>1, <2>2
<1>7. CASE last
  <2>1. pc'[t] = "items"
    BY <1>4, <1>7
  <2> QED
    BY <1>6, <2>1 DEF Climbs
<1>8. CASE ~last
  <2>1. pc'[t] = "locs"
    BY <1>4, <1>8
  <2>2. \E k \in places : <<"loc", k>> \notin held'[t]
    <3>1. PICK k \in places : k # l /\ <<"loc", k>> \notin held[t]
      BY <1>8 DEF last
    <3>2. <<"loc", k>> # <<"loc", l>>
      BY <3>1
    <3> QED
      BY <1>4, <3>1, <3>2
  <2> HIDE DEF places
  <2> QED
    BY <1>3, <1>6, <2>1, <2>2 DEF Climbs, places
<1> QED
  BY <1>7, <1>8

\* A request takes its item rows from the lowest up.
LEMMA ItemClimbs ==
  ASSUME TypeOK, NEW t \in Txns, LockItem(t), Climbs(t)
  PROVE  Climbs(t)'
<1>1. PICK i \in NextItem(t) :
        /\ pc[t] = "items" /\ Acquire(t, <<"item", i>>, "items") /\ req' = req /\ items' = items
  BY DEF LockItem, tables
<1>2. /\ i \in Int /\ \A k \in DOMAIN req[t].lines :
                       items[k] # "ABSENT" => <<"item", k>> \in held[t] \/ i <= k
  BY <1>1, NextItemRow, JournalAssumption
<1>3. DOMAIN req[t].lines \subseteq Int
  <2>1. req[t] \in Movements
    BY <1>1 DEF TypeOK
  <2>2. DOMAIN req[t].lines \subseteq Items
    BY <2>1 DEF Movements
  <2> QED
    BY <2>2, JournalAssumption
<1>4. held'[t] = held[t] \cup {<<"item", i>>} /\ pc'[t] = "items"
  BY <1>1 DEF Acquire, TypeOK
<1>5. \A a \in held[t] :
         \/ a[1] \in {"key", "user", "orig", "loc"}
         \/ /\ a[1] = "item"
            /\ \A k \in DOMAIN req[t].lines :
                 items[k] # "ABSENT" => <<"item", k>> \in held[t] \/ a[2] < k
  BY <1>1 DEF Climbs
<1>6. \A k \in DOMAIN req[t].lines :
        items[k] # "ABSENT" => <<"item", k>> \in held'[t] \/ i < k
  BY <1>2, <1>3, <1>4
<1>7. <<"item", i>>[1] = "item" /\ <<"item", i>>[2] = i
  OBVIOUS
<1>8. \A a \in held'[t] :
         \/ a[1] \in {"key", "user", "orig", "loc"}
         \/ /\ a[1] = "item"
            /\ \A k \in DOMAIN req[t].lines :
                 items[k] # "ABSENT" => <<"item", k>> \in held'[t] \/ a[2] < k
  BY <1>4, <1>5, <1>6, <1>7
<1> QED
  BY <1>1, <1>4, <1>8 DEF Climbs

\* No other kind of lock is taken at a stage twice: whoever moves on holds
\* what it held and the lock of the stage it leaves.
LEMMA StageClimbs ==
  ASSUME TypeOK, WellFormed, NEW t \in Txns, pc[t] # "idle", pc'[t] # "idle", Climbs(t),
         req[t].key \notin Procurements,
         LockKey(t) \/ LockCustodyUser(t) \/ LockOriginal(t)
  PROVE  Climbs(t)'
<1>1. PICK lock, next :
        /\ held'[t] = held[t] \cup {lock} /\ pc'[t] = next /\ req'[t] = req[t]
        /\ \/ pc[t] = "key" /\ lock[1] = "key" /\ next = AfterKey(req[t])
           \/ pc[t] = "user" /\ lock[1] = "user" /\ next = AfterUser(req[t])
           \/ pc[t] = "orig" /\ lock[1] = "orig" /\ next = "locs"
  <2>0. \A n : ~Finish(t, n)
    BY DEF Finish, TypeOK
  <2>1. ASSUME NEW lock, NEW next, Acquire(t, lock, next)
        PROVE  held'[t] = held[t] \cup {lock} /\ pc'[t] = next
    BY <2>1 DEF Acquire, TypeOK
  <2>2. CASE LockKey(t)
    <3>1. /\ pc[t] = "key" /\ req' = req
          /\ Acquire(t, <<"key", req[t].actor, req[t].key>>, AfterKey(req[t]))
      BY <2>0, <2>2, Zenon DEF LockKey
    <3>2. <<"key", req[t].actor, req[t].key>>[1] = "key"
      OBVIOUS
    <3> QED
      BY <2>1, <3>1, <3>2
  <2>3. CASE LockCustodyUser(t)
    <3>1. /\ pc[t] = "user" /\ req' = req
          /\ Acquire(t, <<"user", req[t].custody>>, AfterUser(req[t]))
      BY <2>0, <2>3, Zenon DEF LockCustodyUser
    <3>2. <<"user", req[t].custody>>[1] = "user"
      OBVIOUS
    <3> QED
      BY <2>1, <3>1, <3>2
  <2>4. CASE LockOriginal(t)
    <3>1. /\ pc[t] = "orig" /\ req' = req /\ Acquire(t, <<"orig", req[t].orig>>, "locs")
      BY <2>0, <2>4, Zenon DEF LockOriginal
    <3>2. <<"orig", req[t].orig>>[1] = "orig"
      OBVIOUS
    <3> QED
      BY <2>1, <3>1, <3>2
  <2> QED
    BY <2>2, <2>3, <2>4
<1>2. Places(req[t]) # {} /\ Places(req[t])' = Places(req[t])
  <2>1. ValidPositions(req[t])
    BY DEF WellFormed, RequestShape
  <2> QED
    BY <1>1, <2>1 DEF ValidPositions, Places
<1>3. pc'[t] \in {"user", "orig", "locs"}
  BY <1>1 DEF AfterKey, AfterUser
<1>4. \A a \in held'[t] :
        \/ a[1] \in {"key"} /\ pc'[t] \in {"user", "orig", "locs"}
        \/ a[1] \in {"key", "user"} /\ pc'[t] \in {"orig", "locs"}
        \/ a[1] \in {"key", "user", "orig"} /\ pc'[t] = "locs"
  <2>1. CASE pc[t] = "key"
    BY <1>1, <1>3, <2>1 DEF Climbs
  <2>2. CASE pc[t] = "user"
    BY <1>1, <2>2 DEF Climbs, AfterUser
  <2>3. CASE pc[t] = "orig"
    BY <1>1, <2>3 DEF Climbs
  <2> QED
    BY <1>1, <2>1, <2>2, <2>3
<1>5. ASSUME pc'[t] = "locs"
      PROVE  \E k \in Places(req[t]) : <<"loc", k>> \notin held'[t]
  <2>1. PICK k \in Places(req[t]) : TRUE
    BY <1>2
  <2>2. <<"loc", k>>[1] = "loc"
    OBVIOUS
  <2> QED
    BY <1>4, <2>1, <2>2
<1> QED
  BY <1>2, <1>3, <1>4, <1>5 DEF Climbs

\* A stage that is passed leaves the locks climbing.
LEMMA StepClimbs ==
  ASSUME TypeOK, WellFormed, NEW t \in Txns, Step(t), pc[t] # "idle", pc'[t] # "idle",
         Climbs(t), req[t].key \notin Procurements
  PROVE  Climbs(t)'
<1>1. pc[t] \notin {"request", "acceptor", "claim"}
  BY DEF WellFormed
<1>2. ~(LockRequest(t) \/ LockAcceptor(t) \/ ClaimItem(t) \/ ClaimItems(t))
  BY <1>1 DEF LockRequest, LockAcceptor, ClaimItem, ClaimItems
<1>3. ~(Post(t) \/ PostFails(t))
  <2>1. \A n : ~Finish(t, n)
    BY DEF Finish, TypeOK
  <2> QED
    BY <2>1 DEF Post, PostFails
<1>4. CASE CheckItems(t)
  <2>1. pc'[t] = "post"
    <3>1. ~Finish(t, 0)
      BY DEF Finish, TypeOK
    <3> QED
      BY <1>4, <3>1 DEF CheckItems, TypeOK
  <2> QED
    BY <2>1 DEF Climbs
<1> QED
  BY <1>2, <1>3, <1>4, StageClimbs, LocationClimbs, ItemClimbs DEF Step

\* A step begins or ends a request, takes it through a stage, or leaves it
\* alone; then no item that it names comes into being.
LEMMA Turns ==
  ASSUME TypeOK, [Next]_vars, NEW s \in Txns
  PROVE  \/ pc'[s] = "idle"
         \/ Begins(s)
         \/ Step(s)
         \/ /\ pc'[s] = pc[s] /\ req'[s] = req[s] /\ held'[s] = held[s]
            /\ \A i \in DOMAIN req[s].lines : items'[i] # "ABSENT" => items[i] # "ABSENT"
<1> DEFINE Left == /\ pc'[s] = pc[s] /\ req'[s] = req[s] /\ held'[s] = held[s]
                   /\ \A i \in DOMAIN req[s].lines :
                        items'[i] # "ABSENT" => items[i] # "ABSENT"
<1>1. CASE pc[s] = "idle"
  <2>1. pc'[s] = "idle" \/ Begins(s)
    <3>1. ASSUME NEW t \in Txns, Begins(t), t # s PROVE pc'[s] = pc[s]
      BY <3>1 DEF Begins, Start, TypeOK
    <3>2. ASSUME NEW t \in Txns, Ends(t) PROVE pc'[s] = "idle"
      BY <1>1, <3>2 DEF Ends, Finish, TypeOK
    <3>3. ASSUME NEW t \in Txns, Moves(t) PROVE pc'[s] = pc[s]
      BY <1>1, <3>3 DEF Moves
    <3>4. ASSUME NEW t \in Txns, Post(t) PROVE pc'[s] = "idle"
      BY <1>1, <3>4 DEF Post, Finish, TypeOK
    <3>5. ASSUME NEW u \in Users, NEW role, NEW access, SetUser(u, role, access)
          PROVE  pc' = pc
      BY <3>5 DEF SetUser
    <3>6. ASSUME NEW l \in Locations, NEW b \in BOOLEAN, SetLocationArchived(l, b)
          PROVE  pc' = pc
      BY <3>6 DEF SetLocationArchived
    <3>7. ASSUME NEW i \in Items, (\E status : SetItem(i, status)) \/ DeleteUnusedItem(i)
          PROVE  pc' = pc
      BY <3>7 DEF SetItem, DeleteUnusedItem
    <3>8. UNCHANGED vars => pc' = pc
      BY DEF vars
    <3> QED
      BY <1>1, <3>1, <3>2, <3>3, <3>4, <3>5, <3>6, <3>7, <3>8, Kinds
  <2> QED
    BY <2>1
<1>2. CASE pc[s] # "idle"
  <2>1. ASSUME NEW t \in Txns, Begins(t) PROVE Left
    <3>1. t # s
      BY <1>2, <2>1 DEF Begins, Start
    <3>2. PICK m, stage : Start(t, m, stage)
      BY <2>1 DEF Begins
    <3> QED
      BY <3>1, <3>2 DEF Start, TypeOK, tables
  <2>2. ASSUME NEW t \in Txns, t # s, Ends(t) PROVE Left
    BY <2>2 DEF Ends, Finish, TypeOK, tables
  <2>3. ASSUME NEW t \in Txns, t # s, Moves(t) PROVE Left
    BY <2>3 DEF Moves, tables
  <2>4. ASSUME NEW t \in Txns, t # s, Post(t) PROVE Left
    BY <2>4 DEF Post, Finish, TypeOK
  <2>5. ASSUME NEW t \in Txns, Abort(t) \/ DeadlockVictim(t) PROVE Left \/ pc'[s] = "idle"
    <3>1. Ends(t)
      BY <2>5 DEF Abort, DeadlockVictim, Ends
    <3>2. CASE t = s
      BY <3>1, <3>2 DEF Ends, Finish, TypeOK
    <3> QED
      BY <2>2, <3>1, <3>2
  <2>6. ASSUME NEW u \in Users,
               UpdateUserAccess(u) \/ UpdateUserRole(u) \/ ResetUserAccount(u)
        PROVE  Left
    BY <2>6, UserChange DEF SetUser
  <2>7. ASSUME NEW l \in Locations, NEW b \in BOOLEAN, SetLocationArchived(l, b)
        PROVE  Left
    BY <2>7 DEF SetLocationArchived
  <2>8. ASSUME NEW i \in Items,
               \/ \E b \in BOOLEAN : SetItemArchived(i, b)
               \/ DeleteUnusedItem(i) \/ CreateItem(i)
        PROVE  Left
    <3>1. PICK status : SetItem(i, status)
      BY <2>8 DEF SetItemArchived, DeleteUnusedItem, CreateItem
    <3>2. /\ pc' = pc /\ req' = req /\ held' = held
          /\ \A k \in Items \ {i} : items'[k] = items[k]
      BY <3>1 DEF SetItem, TypeOK
    <3>3. DOMAIN req[s].lines \subseteq Items
      <4>1. req[s] \in Movements
        BY <1>2 DEF TypeOK
      <4> QED
        BY <4>1 DEF Movements
    <3>4. CASE CreateItem(i)
      BY <1>2, <3>2, <3>3, <3>4 DEF CreateItem
    <3>5. CASE ~CreateItem(i)
      <4>1. items[i] # "ABSENT"
        BY <2>8, <3>5 DEF SetItemArchived, DeleteUnusedItem
      <4> QED
        BY <3>2, <3>3, <4>1
    <3> QED
      BY <3>4, <3>5
  <2>9. UNCHANGED vars => Left
    BY DEF vars
  <2>10. ASSUME NEW t \in Txns, t # s, Step(t) PROVE Left
    BY <2>2, <2>3, <2>4, <2>10, StepKinds
  <2>11. ASSUME NEW t \in Txns, PostMovement(t) \/ PostReversal(t) \/ CompleteAcceptance(t)
         PROVE  Left
    BY <2>1, <2>11, PostMovementBegins, PostReversalBegins, CompleteAcceptanceBegins
  <2> HIDE DEF Left
  <2>12. Left \/ Step(s) \/ pc'[s] = "idle"
    BY <2>5, <2>6, <2>7, <2>8, <2>9, <2>10, <2>11 DEF Next
  <2> QED
    BY <2>12 DEF Left
<1> QED
  BY <1>1, <1>2

\* Every step leaves the locks climbing.
LEMMA NextClimbs ==
  ASSUME TypeOK, WellFormed, LocksClimb, IdleHoldNothing, [Next]_vars
  PROVE  LocksClimb'
<1> SUFFICES ASSUME NEW s \in Txns, pc'[s] # "idle", req'[s].key \notin Procurements
             PROVE  Climbs(s)'
  BY DEF LocksClimb
<1>1. CASE Begins(s)
  <2>1. PICK m \in Movements, stage \in {"request", "key"} :
          Start(s, m, stage) /\ (m.key \in Procurements <=> stage = "request")
    BY <1>1 DEF Begins
  <2>2. pc[s] = "idle" /\ pc'[s] = stage /\ req'[s] = m /\ held' = held
    BY <2>1 DEF Start, TypeOK
  <2>3. pc'[s] = "key" /\ held'[s] = {}
    BY <2>1, <2>2 DEF IdleHoldNothing
  <2> QED
    BY <2>3 DEF Climbs
<1>2. CASE Step(s)
  <2>1. pc[s] # "idle"
    BY <1>2 DEF Step, LockRequest, LockAcceptor, ClaimItem, ClaimItems, LockKey,
       LockCustodyUser, LockOriginal, LockLocation, LockItem, CheckItems, Post, PostFails
  <2>2. req'[s] = req[s]
    <3>1. Ends(s) \/ Moves(s) \/ Post(s)
      BY <1>2, StepKinds
    <3>2. ~Ends(s) /\ ~Post(s)
      BY DEF Ends, Post, Finish, TypeOK
    <3> QED
      BY <3>1, <3>2 DEF Moves
  <2> QED
    BY <1>2, <2>1, <2>2, StepClimbs DEF LocksClimb
<1>3. CASE /\ pc'[s] = pc[s] /\ req'[s] = req[s] /\ held'[s] = held[s]
           /\ \A i \in DOMAIN req[s].lines : items'[i] # "ABSENT" => items[i] # "ABSENT"
  <2>1. Climbs(s) /\ Places(req[s])' = Places(req[s])
    BY <1>3 DEF LocksClimb, Places
  <2> QED
    BY <1>3, <2>1 DEF Climbs
<1> QED
  BY <1>1, <1>2, <1>3, Turns

\* Whoever has no request holds no lock.
LEMMA NextIdle ==
  ASSUME TypeOK, IdleHoldNothing, [Next]_vars
  PROVE  IdleHoldNothing'
<1> SUFFICES ASSUME NEW s \in Txns, pc'[s] = "idle" PROVE held'[s] = {}
  BY DEF IdleHoldNothing
<1> DEFINE Rests == held'[s] = {}
<1>1. ASSUME NEW t \in Txns, Begins(t) PROVE Rests
  <2>1. PICK m \in Movements, stage \in {"request", "key"} : Start(t, m, stage)
    BY <1>1 DEF Begins
  <2>2. held' = held /\ (pc'[s] = pc[s] \/ pc'[s] = stage)
    BY <2>1 DEF Start, TypeOK
  <2> QED
    BY <2>2 DEF IdleHoldNothing
<1>2. ASSUME NEW t \in Txns, Ends(t) \/ Post(t) PROVE Rests
  <2>1. PICK n : Finish(t, n)
    BY <1>2 DEF Ends, Post
  <2>2. \/ held'[s] = {}
        \/ held'[s] = held[s] /\ pc'[s] = pc[s]
    BY <2>1 DEF Finish, TypeOK
  <2> QED
    BY <2>2 DEF IdleHoldNothing
<1>3. ASSUME NEW t \in Txns, Moves(t) PROVE Rests
  BY <1>3 DEF Moves, IdleHoldNothing
<1>4. pc' = pc /\ held' = held => Rests
  BY DEF IdleHoldNothing
<1>5. ASSUME NEW u \in Users, NEW role, NEW access, SetUser(u, role, access)
      PROVE  pc' = pc /\ held' = held
  BY <1>5 DEF SetUser
<1>6. ASSUME NEW l \in Locations, NEW b \in BOOLEAN, SetLocationArchived(l, b)
      PROVE  pc' = pc /\ held' = held
  BY <1>6 DEF SetLocationArchived
<1>7. ASSUME NEW i \in Items, (\E status : SetItem(i, status)) \/ DeleteUnusedItem(i)
      PROVE  pc' = pc /\ held' = held
  BY <1>7 DEF SetItem, DeleteUnusedItem
<1>8. UNCHANGED vars => pc' = pc /\ held' = held
  BY DEF vars
<1> HIDE DEF Rests
<1>9. Rests
  BY <1>1, <1>2, <1>3, <1>4, <1>5, <1>6, <1>7, <1>8, Kinds
<1> QED
  BY <1>9 DEF Rests

-----------------------------------------------------------------------------
(* Theorems                                                                 *)

\* The inductive invariant behind the lock order: a request that has ended
\* holds nothing, and every movement climbs.
THEOREM MovementsClimb == Spec => [](IdleHoldNothing /\ LocksClimb)
<1>1. Init => IdleHoldNothing /\ LocksClimb
  BY DEF Init, IdleHoldNothing, LocksClimb
<1>2. IInv /\ IdleHoldNothing /\ LocksClimb /\ [Next]_vars => IdleHoldNothing' /\ LocksClimb'
  BY NextIdle, NextClimbs DEF IInv
<1> QED
  BY <1>1, <1>2, Invariant, PTL DEF Spec

\* A request waits for one lock at a time.
LEMMA WantsOne ==
  ASSUME TypeOK, NEW t \in Txns, pc[t] # "idle", NEW a \in Wants(t), NEW b \in Wants(t)
  PROVE  a = b
<1>1. pc[t] \in Stages
  BY DEF TypeOK
<1>2. \A i, k \in NextItem(t) : i = k
  BY DEF NextItem
<1> QED
  BY <1>1, <1>2 DEF Wants, Stages

\* What a request asks for: at most one lock, above all those it holds.
LEMMA WantsAbove ==
  ASSUME TypeOK, WellFormed, LocksClimb, NEW t \in Txns,
         pc[t] \notin {"idle", "post"}, req[t].key \notin Procurements, NEW b \in Wants(t)
  PROVE  /\ \A a \in held[t] : LockedInOrder(a, b)
         /\ \/ b[1] \in {"key", "user", "orig"}
            \/ b[1] = "loc" /\ b[2] \in Locations
            \/ b[1] = "item" /\ b[2] \in Items
<1>0. Climbs(t)
  BY DEF LocksClimb
<1>1. pc[t] \in {"key", "user", "orig", "locs", "items"}
  BY DEF TypeOK, WellFormed, Stages
<1>2. CASE pc[t] = "key"
  <2>1. b = <<"key", req[t].actor, req[t].key>> /\ held[t] = {}
    BY <1>0, <1>2 DEF Wants, Climbs
  <2> QED
    BY <2>1
<1>3. CASE pc[t] = "user"
  <2>1. b = <<"user", req[t].custody>>
    BY <1>3 DEF Wants
  <2>2. b[1] = "user"
    BY <2>1
  <2> QED
    BY <1>0, <1>3, <2>2 DEF Climbs, LockedInOrder, Rank
<1>4. CASE pc[t] = "orig"
  <2>1. b = <<"orig", req[t].orig>>
    BY <1>4 DEF Wants
  <2>2. b[1] = "orig"
    BY <2>1
  <2> QED
    BY <1>0, <1>4, <2>2 DEF Climbs, LockedInOrder, Rank
<1>5. CASE pc[t] = "locs"
  <2> DEFINE l == NextRow(t, "loc", Places(req[t]))
  <2>1. b = <<"loc", l>>
    BY <1>5 DEF Wants
  <2>2. l \in Places(req[t]) /\ l \in Locations /\ <<"loc", l>> \notin held[t]
    BY <1>0, <1>5, NextLocation DEF Climbs
  <2> HIDE DEF l
  <2>3. b[1] = "loc" /\ b[2] = l
    BY <2>1
  <2>4. ASSUME NEW a \in held[t] PROVE LockedInOrder(a, b)
    <3>1. \/ a[1] \in {"key", "user", "orig"}
          \/ a[1] = "loc" /\ a[2] < l
      BY <1>0, <1>5, <2>2 DEF Climbs
    <3> QED
      BY <2>3, <3>1 DEF LockedInOrder, Rank
  <2> QED
    BY <2>2, <2>3, <2>4
<1>6. CASE pc[t] = "items"
  <2>1. PICK i \in NextItem(t) : b = <<"item", i>>
    BY <1>6 DEF Wants
  <2>2. /\ i \in DOMAIN req[t].lines /\ i \in Items
        /\ items[i] # "ABSENT" /\ <<"item", i>> \notin held[t]
    BY <1>6, NextItemRow
  <2>3. b[1] = "item" /\ b[2] = i
    BY <2>1
  <2>4. ASSUME NEW a \in held[t] PROVE LockedInOrder(a, b)
    <3>1. \/ a[1] \in {"key", "user", "orig", "loc"}
          \/ a[1] = "item" /\ a[2] < i
      BY <1>0, <1>6, <2>2 DEF Climbs
    <3> QED
      BY <2>3, <3>1 DEF LockedInOrder, Rank
  <2> QED
    BY <2>2, <2>3, <2>4
<1> QED
  BY <1>1, <1>2, <1>3, <1>4, <1>5, <1>6

\* The order documented in docs/WAREHOUSE.md is the order of the code, for
\* every movement that is not an acceptance and up to its insert.
THEOREM LocksAreOrdered == Spec => []LockOrderRespected
<1>1. IInv /\ LocksClimb => LockOrderRespected
  BY WantsAbove DEF IInv, LockOrderRespected
<1> QED
  BY <1>1, Invariant, MovementsClimb, PTL

\* With any number of concurrent movements, and not only the two of the run,
\* a circle of waiting requests contains an acceptance or an insert that waits
\* for its actor's row.
THEOREM OnlyKnownDeadlocks == Spec => []DeadlocksAreKnown
<1>1. ASSUME IInv, LocksClimb PROVE DeadlocksAreKnown
  <2> SUFFICES ASSUME NEW S \in SUBSET Txns, WaitCycle(S),
                      \A t \in S : pc[t] # "post" /\ req[t].key \notin Procurements
               PROVE  FALSE
    BY DEF DeadlocksAreKnown
  <2>1. TypeOK /\ WellFormed
    BY <1>1 DEF IInv
  <2>2. \A t \in S : pc[t] # "idle"
    BY DEF WaitCycle, WaitsFor, Wants
  <2> DEFINE Wanted == UNION {Wants(t) : t \in S}
  <2>3. \A b \in Wanted : \/ b[1] \in {"key", "user", "orig"}
                          \/ b[1] = "loc" /\ b[2] \in Locations
                          \/ b[1] = "item" /\ b[2] \in Items
    BY <1>1, <2>1, <2>2, WantsAbove
  <2>4. ASSUME NEW a \in Wanted PROVE \E b \in Wanted : LockedInOrder(a, b)
    <3>1. PICK s \in S : a \in Wants(s)
      OBVIOUS
    <3>2. PICK t \in S : Wants(s) \cap held[t] # {}
      BY DEF WaitCycle, WaitsFor
    <3>3. a \in held[t]
      BY <2>1, <2>2, <3>1, <3>2, WantsOne
    <3>4. PICK b \in Wants(t) : TRUE
      BY DEF WaitCycle, WaitsFor
    <3> QED
      BY <1>1, <2>1, <2>2, <3>3, <3>4, WantsAbove
  <2>5. Wanted # {}
    BY DEF WaitCycle, WaitsFor
  <2> HIDE DEF Wanted
  <2>6. ASSUME NEW kind \in {"loc", "item"}, NEW T, T \subseteq Int, IsFiniteSet(T),
               \A b \in Wanted : b[1] = kind => b[2] \in T,
               \A a, b \in Wanted : a[1] = kind /\ LockedInOrder(a, b) => b[1] = kind /\ a[2] < b[2]
        PROVE  \A a \in Wanted : a[1] # kind
    <3> SUFFICES ASSUME NEW c \in Wanted, c[1] = kind PROVE FALSE
      OBVIOUS
    <3> DEFINE I == {i \in T : \E a \in Wanted : a[1] = kind /\ a[2] = i}
    <3>1. I \subseteq Int /\ IsFiniteSet(I) /\ c[2] \in I
      <4>1. I \subseteq T
        OBVIOUS
      <4> QED
        BY <2>6, <4>1, FS_Subset
    <3>2. PICK x \in I : \A y \in I : y <= x
      BY <3>1, GreatestNumber
    <3>3. PICK a \in Wanted : a[1] = kind /\ a[2] = x
      BY <3>2
    <3>4. PICK b \in Wanted : LockedInOrder(a, b)
      BY <2>4
    <3>5. b[1] = kind /\ x < b[2] /\ b[2] \in I
      BY <2>6, <3>3, <3>4
    <3> QED
      BY <3>1, <3>2, <3>5
  <2>7. \A a \in Wanted : a[1] # "item"
    <3>1. \A a, b \in Wanted : a[1] = "item" /\ LockedInOrder(a, b) => b[1] = "item" /\ a[2] < b[2]
      BY <2>3 DEF LockedInOrder, Rank
    <3>2. \A b \in Wanted : b[1] = "item" => b[2] \in Items
      BY <2>3
    <3> QED
      BY <2>6, <3>1, <3>2, JournalAssumption
  <2>8. \A a \in Wanted : a[1] # "loc"
    <3>1. \A a, b \in Wanted : a[1] = "loc" /\ LockedInOrder(a, b) => b[1] = "loc" /\ a[2] < b[2]
      BY <2>3, <2>7 DEF LockedInOrder, Rank
    <3>2. \A b \in Wanted : b[1] = "loc" => b[2] \in Locations
      BY <2>3
    <3> QED
      BY <2>6, <3>1, <3>2, JournalAssumption
  <2>9. \A a \in Wanted : a[1] \in {"key", "user", "orig"}
    BY <2>3, <2>7, <2>8
  <2>10. \A a \in Wanted : a[1] # "orig"
    BY <2>4, <2>9 DEF LockedInOrder, Rank
  <2>11. \A a \in Wanted : a[1] # "user"
    BY <2>4, <2>9, <2>10 DEF LockedInOrder, Rank
  <2>12. \A a \in Wanted : a[1] # "key"
    BY <2>4, <2>9, <2>10, <2>11 DEF LockedInOrder, Rank
  <2> QED
    BY <2>5, <2>9, <2>10, <2>11, <2>12
<1> QED
  BY <1>1, Invariant, MovementsClimb, PTL
=============================================================================
