------------------------------ MODULE Warehouse ------------------------------
(***************************************************************************)
(* The warehouse: an append-only journal of movements, the two projections *)
(* derived from it (stock per location, custody per user), and the request *)
(* transactions that write them, interleaved one lock at a time.           *)
(*                                                                         *)
(* A transaction is one API request of the backend: it reads its actor's   *)
(* row while authenticating, takes its advisory and row locks in the order *)
(* of the code, and writes and commits in a single last step.  Everything  *)
(* that last step reads and writes is protected by the locks it holds, so  *)
(* merging the writes with the commit loses no behaviour.  A transaction   *)
(* that is refused, times out or loses its connection rolls back and       *)
(* releases its locks, whatever the reason.                                *)
(***************************************************************************)
EXTENDS Journal, Policy

CONSTANTS
  Txns,           \* request transactions that may run at the same time
  Types,          \* movement types that clients may ask for
  AdminOps,       \* administrative requests that run beside the movements
  AssignedRoles,  \* roles that administrators assign
  InitialRole,    \* the role of every user at the start
  MaxMovements    \* bound on the journal's length

AdminOperations == {"access", "role", "reset", "location", "item"}

ASSUME WarehouseAssumption ==
  /\ Types \subseteq MovementTypes
  /\ AdminOps \subseteq AdminOperations
  /\ AssignedRoles \subseteq Roles \ {"OWNER"}
  /\ InitialRole \in [Users -> Roles]
  /\ MaxMovements \in Nat

Stages == {"idle", "request", "acceptor", "claim", "key", "user", "orig",
           "locs", "items", "post"}

VARIABLES
  users,      \* users table: role and access status
  locations,  \* locations table: status
  items,      \* items table: status, ABSENT once deleted
  journal,    \* movements and movement_lines, in journal_seq order
  stock,      \* stock_balances; 0 where there is no row
  custody,    \* user_item_custody_balances; 0 where there is no row
  final,      \* procurement_requests.final_movement_id; 0 while not completed
  pc,         \* the stage each transaction is at
  req,        \* the movement each transaction wants to post
  seen,       \* whether the session's copy of its actor is a custody holder
  held,       \* locks each transaction holds
  answer      \* the movement each transaction's last response named, or 0

tables == <<users, locations, items, journal, stock, custody, final>>
vars   == <<users, locations, items, journal, stock, custody, final,
            pc, req, seen, held, answer>>

-----------------------------------------------------------------------------
(* What a request asks of the journal before it writes to it                *)

\* Mutant: the fingerprint is not compared.
SamePayloadAlways(m, n) == TRUE

SamePayload(m, n) == m = n

\* Some reversal of movement n is in the journal.
Reversed(n) ==
  \E r \in DOMAIN journal : journal[r].type = "REVERSAL" /\ journal[r].orig = n

\* Mutant: the reversal does not look for an earlier one.
AlreadyReversedNever(n) == FALSE

AlreadyReversed(n) == Reversed(n)

\* Mutant: nobody looks for the procurement behind a receipt.
ProtectedNever(n) == FALSE

\* Movement n is the receipt of a completed procurement.
Protected(n) == \E p \in Procurements : final[p] = n

-----------------------------------------------------------------------------
(* Locks                                                                    *)

Free(t, lock) == \A s \in Txns \ {t} : lock \notin held[s]

\* Mutant: the source location is locked before the destination.
NextRowSourceFirst(t, kind, ids) ==
  CHOOSE i \in ids :
    /\ <<kind, i>> \notin held[t]
    /\ \A k \in ids : <<kind, k>> \in held[t] \/ i = k \/ i = req[t].src

\* The next of a set of row ids that t locks: the code orders rows by id.
NextRow(t, kind, ids) ==
  CHOOSE i \in ids :
    /\ <<kind, i>> \notin held[t]
    /\ \A k \in ids : <<kind, k>> \in held[t] \/ i <= k

\* The next item row of the request, if it has one left: the query locks the
\* rows that exist.
NextItem(t) ==
  LET rows == {i \in DOMAIN req[t].lines :
                 items[i] # "ABSENT" /\ <<"item", i>> \notin held[t]}
  IN IF rows = {} THEN {} ELSE {NextRow(t, "item", rows)}

Acquire(t, lock, next) ==
  /\ held' = [held EXCEPT ![t] = @ \cup {lock}]
  /\ pc' = [pc EXCEPT ![t] = next]

\* Mutant: an error leaves the item rows locked.
FinishKeepsLocks(t, n) ==
  /\ pc' = [pc EXCEPT ![t] = "idle"]
  /\ req' = [req EXCEPT ![t] = None]
  /\ seen' = [seen EXCEPT ![t] = FALSE]
  /\ held' = [held EXCEPT ![t] = IF n = 0 THEN {k \in @ : k[1] = "item"} ELSE {}]
  /\ answer' = [answer EXCEPT ![t] = n]

\* Commit or roll back: the locks go, the response names a movement or none.
Finish(t, n) ==
  /\ pc' = [pc EXCEPT ![t] = "idle"]
  /\ req' = [req EXCEPT ![t] = None]
  /\ seen' = [seen EXCEPT ![t] = FALSE]
  /\ held' = [held EXCEPT ![t] = {}]
  /\ answer' = [answer EXCEPT ![t] = n]

Eligible(u) == users[u].access = "APPROVED" /\ users[u].role \in CustodyRoles

-----------------------------------------------------------------------------
(* A movement request, stage by stage                                       *)

AfterUser(m) == IF m.orig # 0 THEN "orig" ELSE "locs"
AfterKey(m)  == IF m.custody # None THEN "user" ELSE AfterUser(m)

Start(t, m, stage) ==
  /\ pc[t] = "idle"
  /\ Len(journal) + Cardinality({s \in Txns : pc[s] # "idle"}) < MaxMovements
  /\ pc' = [pc EXCEPT ![t] = stage]
  /\ req' = [req EXCEPT ![t] = m]
  /\ seen' = [seen EXCEPT ![t] = Eligible(m.actor)]
  /\ answer' = [answer EXCEPT ![t] = 0]
  /\ UNCHANGED <<tables, held>>

\* The movement asked for; the actor's row, as authentication reads it now,
\* decides whether it carries custody.
Asked(a, type, k, s, d, q, o) ==
  [type |-> type, actor |-> a, src |-> s, dst |-> d,
   custody |-> IF type \in {"ISSUE", "RETURN"} /\ users[a].role \in CustodyRoles
               THEN a ELSE None,
   lines |-> q, orig |-> o, key |-> k]

PostMovement(t) ==
  /\ pc[t] = "idle"
  /\ \E a \in Users, type \in Types \ {"REVERSAL"}, k \in Keys,
        s \in Locations \cup {None}, d \in Locations \cup {None},
        S \in (SUBSET Items) \ {{}} :
       \E q \in [S -> Quantities], o \in {0} \cup DOMAIN journal :
         /\ users[a].access = "APPROVED"
         /\ users[a].role \in OperateRoles
         /\ type \in {"WRITE_OFF", "CORRECTION"} => users[a].role \in AdminRoles
         /\ ValidPositions(Asked(a, type, k, s, d, q, o))
         /\ Start(t, Asked(a, type, k, s, d, q, o), "key")

\* A reversal is built from the original: same lines, same custody, the
\* locations swapped.
PostReversal(t) ==
  \E a \in Users, k \in Keys, o \in DOMAIN journal :
    /\ "REVERSAL" \in Types
    /\ users[a].access = "APPROVED"
    /\ users[a].role \in AdminRoles
    /\ Start(t, [type |-> "REVERSAL", actor |-> a, src |-> journal[o].dst,
                 dst |-> journal[o].src, custody |-> journal[o].custody,
                 lines |-> journal[o].lines, orig |-> o, key |-> k], "key")

\* Acceptance of a procurement delivery posts a RECEIPT whose request id is
\* derived from the procurement request.
CompleteAcceptance(t) ==
  \E a \in Users, p \in Procurements, d \in Locations,
     S \in (SUBSET Items) \ {{}} :
    \E q \in [S -> Quantities] :
      /\ users[a].access = "APPROVED"
      /\ users[a].role \in AcceptRoles
      /\ Start(t, [type |-> "RECEIPT", actor |-> a, src |-> None, dst |-> d,
                   custody |-> None, lines |-> q, orig |-> 0, key |-> p],
               "request")

\* The request row.  A completed request has moved past the state version
\* that the client saw, unless the client saw its completion.
LockRequest(t) ==
  LET p == req[t].key IN
  /\ pc[t] = "request" /\ Free(t, <<"request", p>>)
  /\ \/ Acquire(t, <<"request", p>>, "acceptor") /\ UNCHANGED <<req, seen, answer>>
     \/ final[p] # 0 /\ Finish(t, 0)
  /\ UNCHANGED tables

\* The acceptor's row is re-read under its lock; then the request's status.
LockAcceptor(t) ==
  LET a == req[t].actor
      acceptable == /\ users[a].access = "APPROVED"
                    /\ users[a].role \in AcceptRoles
                    /\ final[req[t].key] = 0
  IN /\ pc[t] = "acceptor" /\ Free(t, <<"user", a>>)
     /\ \/ acceptable /\ Acquire(t, <<"user", a>>, "claim")
                      /\ UNCHANGED <<req, seen, answer>>
        \/ ~acceptable /\ Finish(t, 0)
     /\ UNCHANGED tables

\* The items of the delivery are locked before create_movement runs ...
ClaimItem(t) ==
  /\ pc[t] = "claim"
  /\ \E i \in NextItem(t) :
       Free(t, <<"item", i>>) /\ Acquire(t, <<"item", i>>, "claim")
  /\ UNCHANGED <<tables, req, seen, answer>>

\* ... and all of them must exist and be ACTIVE.
ClaimItems(t) ==
  LET claimable == \A i \in DOMAIN req[t].lines : items[i] = "ACTIVE" IN
  /\ pc[t] = "claim" /\ NextItem(t) = {}
  /\ \/ claimable /\ pc' = [pc EXCEPT ![t] = "key"]
                  /\ UNCHANGED <<req, seen, held, answer>>
     \/ ~claimable /\ Finish(t, 0)
  /\ UNCHANGED tables

\* Advisory lock on (actor, client_request_id): a known key with the same
\* payload is answered with the movement it created, with another payload it
\* is refused.  An acceptance does not expect its receipt to exist.
LockKey(t) ==
  LET m == req[t]
      lock == <<"key", m.actor, m.key>>
      known == {n \in DOMAIN journal : SameKey(journal[n], m)}
  IN /\ pc[t] = "key" /\ Free(t, lock)
     /\ \/ /\ known = {}
           /\ Acquire(t, lock, AfterKey(m))
           /\ UNCHANGED <<req, seen, answer>>
        \/ \E n \in known :
             Finish(t, IF SamePayload(journal[n], m) /\ m.key \in Keys
                       THEN n ELSE 0)
     /\ UNCHANGED tables

\* The custody user's row.  The query does not refresh an object the session
\* already holds, so a movement whose custody user is its actor is judged by
\* the actor as authentication read it; any other custody user is read now.
LockCustodyUser(t) ==
  LET m == req[t]
      sees == IF m.custody = m.actor THEN seen[t] ELSE Eligible(m.custody)
  IN /\ pc[t] = "user" /\ Free(t, <<"user", m.custody>>)
     /\ \/ /\ m.type = "REVERSAL" \/ sees
           /\ Acquire(t, <<"user", m.custody>>, AfterUser(m))
           /\ seen' = [seen EXCEPT ![t] = sees]
           /\ UNCHANGED <<req, answer>>
        \/ m.type # "REVERSAL" /\ ~sees /\ Finish(t, 0)
     /\ UNCHANGED tables

\* Advisory lock on the original movement, and what may be done to it.
Adjustable(t) ==
  LET m == req[t]
      o == journal[m.orig]
  IN /\ ~Protected(m.orig)
     /\ o.type # "REVERSAL"
     /\ m.type = "CORRECTION" => o.custody = None
     /\ m.type = "REVERSAL" =>
          /\ m.custody = o.custody
          /\ ~AlreadyReversed(m.orig)
          /\ m.custody # None /\ CustodySign("REVERSAL", o.type) > 0 => seen[t]

LockOriginal(t) ==
  /\ pc[t] = "orig" /\ Free(t, <<"orig", req[t].orig>>)
  /\ \/ Adjustable(t) /\ Acquire(t, <<"orig", req[t].orig>>, "locs")
                      /\ UNCHANGED <<req, seen, answer>>
     \/ ~Adjustable(t) /\ Finish(t, 0)
  /\ UNCHANGED tables

\* Location rows in id order; once all are locked, all must be ACTIVE.
LockLocation(t) ==
  LET L == Places(req[t])
      l == NextRow(t, "loc", L)
      last == \A k \in L : k = l \/ <<"loc", k>> \in held[t]
      usable == \A k \in L : locations[k] = "ACTIVE"
      next == IF ~last THEN "locs"
              ELSE IF req[t].key \in Procurements THEN "post" ELSE "items"
  IN /\ pc[t] = "locs" /\ Free(t, <<"loc", l>>)
     /\ \/ /\ last => usable
           /\ Acquire(t, <<"loc", l>>, next)
           /\ UNCHANGED <<req, seen, answer>>
        \/ last /\ ~usable /\ Finish(t, 0)
     /\ UNCHANGED tables

\* Item rows in id order ...
LockItem(t) ==
  /\ pc[t] = "items"
  /\ \E i \in NextItem(t) :
       Free(t, <<"item", i>>) /\ Acquire(t, <<"item", i>>, "items")
  /\ UNCHANGED <<tables, req, seen, answer>>

\* ... then they must exist, be ACTIVE for a receipt or an issue, and concern
\* the original of a correction.
ItemsUsable(m) ==
  /\ \A i \in DOMAIN m.lines : items[i] # "ABSENT"
  /\ m.type \in {"RECEIPT", "ISSUE"} =>
       \A i \in DOMAIN m.lines : items[i] = "ACTIVE"
  /\ m.type = "CORRECTION" =>
       /\ DOMAIN m.lines \subseteq DOMAIN journal[m.orig].lines
       /\ Places(m) \cap Places(journal[m.orig]) # {}

CheckItems(t) ==
  /\ pc[t] = "items" /\ NextItem(t) = {}
  /\ \/ ItemsUsable(req[t]) /\ pc' = [pc EXCEPT ![t] = "post"]
                            /\ UNCHANGED <<req, seen, held, answer>>
     \/ ~ItemsUsable(req[t]) /\ Finish(t, 0)
  /\ UNCHANGED tables

-----------------------------------------------------------------------------
(* The write                                                                *)

\* The balance checks of the service, from the projection rows it reads.
BalancesAllow(m) ==
  /\ \A i \in DOMAIN m.lines, l \in Places(m) :
       InRange(stock[i][l] + StockDelta(m, i, l))
  /\ m.custody # None =>
       \A i \in DOMAIN m.lines :
         InRange(custody[m.custody][i] + CustodyDelta(journal, m, m.custody, i))

\* The trigger on the movement header, from the actor's current role.
CustodyTrigger(m) ==
  m.type \in {"ISSUE", "RETURN"} =>
    /\ users[m.actor].role \in CustodyRoles => m.custody = m.actor
    /\ users[m.actor].role \in AdminRoles => m.custody = None

\* The unique constraints on movements.
UniqueConstraints(m) ==
  /\ \A n \in DOMAIN journal : ~SameKey(journal[n], m)
  /\ m.type = "REVERSAL" => ~Reversed(m.orig)

\* Mutant: only the source location's row is refreshed.
RefreshStockSource(j, m) ==
  [i \in Items |-> [l \in Locations |->
     IF i \in DOMAIN m.lines /\ l = m.src THEN JournalStock(j, i, l)
                                         ELSE stock[i][l]]]

\* refresh_warehouse_projection re-derives every balance the movement touches
\* from the journal, and refuses one out of range.
RefreshStock(j, m) ==
  [i \in Items |-> [l \in Locations |->
     IF i \in DOMAIN m.lines /\ l \in Places(m) THEN JournalStock(j, i, l)
                                                ELSE stock[i][l]]]

RefreshCustody(j, m) ==
  [u \in Users |-> [i \in Items |->
     IF i \in DOMAIN m.lines /\ u = m.custody THEN JournalCustody(j, u, i)
                                              ELSE custody[u][i]]]

\* Mutant: no trigger on the custody rows.
HolderTriggerMissing(m, held2) == TRUE

\* The trigger on custody rows: whoever is left holding something is eligible.
HolderTrigger(m, held2) ==
  m.custody # None =>
    \A i \in DOMAIN m.lines : held2[m.custody][i] > 0 => Eligible(m.custody)

\* Every check between the insert and the commit.
WriteAllowed(m) ==
  LET j == Append(journal, m) IN
  /\ BalancesAllow(m)
  /\ CustodyTrigger(m)
  /\ UniqueConstraints(m)
  /\ \A i \in Items, l \in Locations : InRange(RefreshStock(j, m)[i][l])
  /\ \A u \in Users, i \in Items : InRange(RefreshCustody(j, m)[u][i])
  /\ HolderTrigger(m, RefreshCustody(j, m))

\* The insert takes a key-share lock on the actor's row for its foreign key,
\* so it waits for a transaction that has locked that row for update.
Post(t) ==
  LET m == req[t]
      j == Append(journal, m)
  IN /\ pc[t] = "post" /\ Free(t, <<"user", m.actor>>)
     /\ WriteAllowed(m)
     /\ journal' = j
     /\ stock' = RefreshStock(j, m)
     /\ custody' = RefreshCustody(j, m)
     /\ final' = [p \in Procurements |-> IF p = m.key THEN Len(j) ELSE final[p]]
     /\ Finish(t, Len(j))
     /\ UNCHANGED <<users, locations, items>>

\* An error raised by the write step: everything is rolled back.
PostFails(t) ==
  /\ pc[t] = "post" /\ Free(t, <<"user", req[t].actor>>)
  /\ ~WriteAllowed(req[t])
  /\ Finish(t, 0)
  /\ UNCHANGED tables

Step(t) ==
  \/ LockRequest(t) \/ LockAcceptor(t) \/ ClaimItem(t) \/ ClaimItems(t)
  \/ LockKey(t) \/ LockCustodyUser(t) \/ LockOriginal(t)
  \/ LockLocation(t) \/ LockItem(t) \/ CheckItems(t)
  \/ Post(t) \/ PostFails(t)

-----------------------------------------------------------------------------
(* Waiting, timeouts and deadlock                                           *)

\* The locks a transaction may ask for in its next step.
Wants(t) ==
  CASE pc[t] = "idle"     -> {}
    [] pc[t] = "request"  -> {<<"request", req[t].key>>}
    [] pc[t] = "acceptor" -> {<<"user", req[t].actor>>}
    [] pc[t] \in {"claim", "items"} ->
         {<<"item", i>> : i \in NextItem(t)}
    [] pc[t] = "key"      -> {<<"key", req[t].actor, req[t].key>>}
    [] pc[t] = "user"     -> {<<"user", req[t].custody>>}
    [] pc[t] = "orig"     -> {<<"orig", req[t].orig>>}
    [] pc[t] = "locs"     -> {<<"loc", NextRow(t, "loc", Places(req[t]))>>}
    [] pc[t] = "post"     -> {<<"user", req[t].actor>>}

WaitsFor(s, t) == s # t /\ Wants(s) \cap held[t] # {}

\* Transactions each of which waits for another of them.
WaitCycle(S) == S # {} /\ \A s \in S : \E t \in S : WaitsFor(s, t)

\* lock_timeout, statement_timeout, a lost connection or a dying process.
Abort(t) ==
  /\ pc[t] # "idle"
  /\ Finish(t, 0)
  /\ UNCHANGED tables

\* PostgreSQL ends a cycle of waiting transactions by aborting one of them.
DeadlockVictim(t) ==
  /\ \E S \in SUBSET Txns : t \in S /\ WaitCycle(S)
  /\ Finish(t, 0)
  /\ UNCHANGED tables

-----------------------------------------------------------------------------
(* Other requests: each locks one row, decides and commits.                 *)

\* Mutant: the row is read without FOR UPDATE.
UnheldIgnored(lock) == TRUE

Unheld(lock) == \A t \in Txns : lock \notin held[t]

HoldsCustody(u) == \E i \in Items : custody[u][i] > 0

\* The commit of a change to a user row.  Who may make it is the identity
\* service's concern; the trigger refuses to leave custody with somebody who
\* is not an approved holder.
SetUser(u, role, access) ==
  /\ users[u].role # "OWNER" /\ Unheld(<<"user", u>>)
  /\ HoldsCustody(u) => role \in CustodyRoles /\ access = "APPROVED"
  /\ users' = [users EXCEPT ![u] = [role |-> role, access |-> access]]
  /\ UNCHANGED <<locations, items, journal, stock, custody, final,
                 pc, req, seen, held, answer>>

UpdateUserAccess(u) ==
  /\ "access" \in AdminOps
  /\ \E a \in {"APPROVED", "BLOCKED"} \ {users[u].access} :
       /\ a = "BLOCKED" => ~HoldsCustody(u)
       /\ SetUser(u, users[u].role, a)

UpdateUserRole(u) ==
  /\ "role" \in AdminOps
  /\ \E r \in AssignedRoles \ {users[u].role} :
       /\ r \notin CustodyRoles => ~HoldsCustody(u)
       /\ SetUser(u, r, users[u].access)

\* The login goes; the row stays, blocked, as an engineer.
ResetUserAccount(u) ==
  /\ "reset" \in AdminOps
  /\ ~HoldsCustody(u)
  /\ SetUser(u, "ENGINEER", "BLOCKED")

SetLocationArchived(l, archived) ==
  /\ "location" \in AdminOps
  /\ Unheld(<<"loc", l>>)
  /\ archived => \A i \in Items : stock[i][l] = 0
  /\ locations' = [locations EXCEPT ![l] =
                     IF archived THEN "ARCHIVED" ELSE "ACTIVE"]
  /\ UNCHANGED <<users, items, journal, stock, custody, final,
                 pc, req, seen, held, answer>>

SetItem(i, status) ==
  /\ "item" \in AdminOps
  /\ Unheld(<<"item", i>>)
  /\ items' = [items EXCEPT ![i] = status]
  /\ UNCHANGED <<users, locations, journal, stock, custody, final,
                 pc, req, seen, held, answer>>

SetItemArchived(i, archived) ==
  /\ items[i] # "ABSENT"
  /\ SetItem(i, IF archived THEN "ARCHIVED" ELSE "ACTIVE")

DeleteUnusedItem(i) ==
  /\ items[i] # "ABSENT"
  /\ \A n \in DOMAIN journal : i \notin DOMAIN journal[n].lines
  /\ \A l \in Locations : stock[i][l] = 0
  /\ \A u \in Users : custody[u][i] = 0
  /\ SetItem(i, "ABSENT")

\* A new item: its id is one that no request in flight names.
CreateItem(i) ==
  /\ items[i] = "ABSENT"
  /\ \A t \in Txns : pc[t] # "idle" => i \notin DOMAIN req[t].lines
  /\ SetItem(i, "ACTIVE")

-----------------------------------------------------------------------------
Init ==
  /\ users = [u \in Users |-> [role |-> InitialRole[u], access |-> "APPROVED"]]
  /\ locations = [l \in Locations |-> "ACTIVE"]
  /\ items = [i \in Items |-> "ACTIVE"]
  /\ journal = <<>>
  /\ stock = [i \in Items |-> [l \in Locations |-> 0]]
  /\ custody = [u \in Users |-> [i \in Items |-> 0]]
  /\ final = [p \in Procurements |-> 0]
  /\ pc = [t \in Txns |-> "idle"]
  /\ req = [t \in Txns |-> None]
  /\ seen = [t \in Txns |-> FALSE]
  /\ held = [t \in Txns |-> {}]
  /\ answer = [t \in Txns |-> 0]

Next ==
  \/ \E t \in Txns :
       \/ PostMovement(t) \/ PostReversal(t) \/ CompleteAcceptance(t)
       \/ Step(t) \/ Abort(t) \/ DeadlockVictim(t)
  \/ \E u \in Users :
       UpdateUserAccess(u) \/ UpdateUserRole(u) \/ ResetUserAccount(u)
  \/ \E l \in Locations, b \in BOOLEAN : SetLocationArchived(l, b)
  \/ \E i \in Items :
       \/ \E b \in BOOLEAN : SetItemArchived(i, b)
       \/ DeleteUnusedItem(i) \/ CreateItem(i)

Spec == Init /\ [][Next]_vars

\* A waiting transaction is not starved: PostgreSQL grants locks in the order
\* they were asked for and its deadlock detector runs on every long wait.
Fairness ==
  \A t \in Txns : SF_vars(Step(t)) /\ WF_vars(DeadlockVictim(t))

FairSpec == Spec /\ Fairness

-----------------------------------------------------------------------------
(* Properties                                                               *)

\* Every variable keeps its type; in particular the projections never leave
\* the range that the balance checks and the refresh function enforce.
TypeOK ==
  /\ users \in [Users -> [role : Roles, access : {"APPROVED", "BLOCKED"}]]
  /\ locations \in [Locations -> {"ACTIVE", "ARCHIVED"}]
  /\ items \in [Items -> {"ACTIVE", "ARCHIVED", "ABSENT"}]
  /\ journal \in Seq(Movements)
  /\ stock \in [Items -> [Locations -> 0 .. MaxQuantity]]
  /\ custody \in [Users -> [Items -> 0 .. MaxQuantity]]
  /\ final \in [Procurements -> Nat]
  /\ pc \in [Txns -> Stages]
  /\ req \in [Txns -> Movements \cup {None}]
  /\ seen \in [Txns -> BOOLEAN]
  /\ DOMAIN held = Txns
  /\ answer \in [Txns -> Nat]
  /\ \A t \in Txns : (req[t] = None) <=> (pc[t] = "idle")

\* Both projections equal what the whole journal amounts to, although every
\* movement refreshes only the rows it touches and several run at once.
ProjectionsMatchJournal ==
  /\ \A i \in Items, l \in Locations : stock[i][l] = JournalStock(journal, i, l)
  /\ \A u \in Users, i \in Items : custody[u][i] = JournalCustody(journal, u, i)

\* Whoever holds equipment is an approved user with a custody role, although
\* an issue in flight judges its actor by a row read before a block or a role
\* change committed.
CustodyHoldersEligible ==
  \A u \in Users : HoldsCustody(u) => Eligible(u)

\* An archived location holds no stock, whatever movement was in flight when
\* it was archived.
ArchivedLocationsEmpty ==
  \A l \in Locations : locations[l] = "ARCHIVED" => \A i \in Items : stock[i][l] = 0

\* No item that the journal mentions has been deleted.
HistoryKeepsItems ==
  \A n \in DOMAIN journal : \A i \in DOMAIN journal[n].lines : items[i] # "ABSENT"

\* The receipt of a completed procurement is never corrected or reversed, and
\* no procurement is completed twice.
ProcurementReceiptsFinal ==
  \A p \in Procurements : final[p] # 0 =>
    /\ \A n \in DOMAIN journal : journal[n].orig # final[p]
    /\ \A n \in DOMAIN journal : journal[n].key = p <=> n = final[p]

\* The checks made under the advisory locks are enough: a movement that is
\* about to be written never meets a unique constraint of the journal.
ConstraintsNeverFire ==
  \A t \in Txns : pc[t] = "post" => UniqueConstraints(req[t])

\* A response that names a movement names the one its own request asked for,
\* be it new or the replay of an earlier attempt with the same key.
AnswersMatchRequests ==
  [][\A t \in Txns :
       pc[t] # "idle" /\ pc'[t] = "idle" /\ answer'[t] # 0 =>
         journal'[answer'[t]] = req[t]]_vars

\* The documented lock order: request context, custody user, original
\* movement, locations by id, items by id.
Rank(kind) ==
  CASE kind \in {"request", "key"} -> 1
    [] kind = "user" -> 2
    [] kind = "orig" -> 3
    [] kind = "loc"  -> 4
    [] kind = "item" -> 5

LockedInOrder(a, b) ==
  \/ Rank(a[1]) < Rank(b[1])
  \/ a[1] = b[1] /\ a[1] \in {"loc", "item"} /\ a[2] < b[2]

\* Every transaction that creates a movement asks for its locks in the
\* documented order (the foreign key's lock at the insert is not in it, and an
\* acceptance locks its items first).
LockOrderRespected ==
  \A t \in Txns : pc[t] \notin {"idle", "post"} /\ req[t].key \notin Procurements =>
    \A a \in held[t], b \in Wants(t) : LockedInOrder(a, b)

\* Transactions wait for each other in a circle only through an acceptance,
\* which locks its items first, or through an insert whose foreign key waits
\* for its actor's row.
DeadlocksAreKnown ==
  \A S \in SUBSET Txns : WaitCycle(S) =>
    \E t \in S : pc[t] = "post" \/ req[t].key \in Procurements

\* Every committed movement is one the ledger allows at its place in the
\* journal, judged from the journal alone.
L == INSTANCE Ledger WITH book <- journal
ImplementsLedger == L!Spec

\* Every request ends, by a commit or by a rollback.
RequestsEnd == \A t \in Txns : pc[t] # "idle" ~> pc[t] = "idle"
=============================================================================
