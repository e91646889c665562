----------------------------- MODULE Procurement -----------------------------
(***************************************************************************)
(* Procurement requests: the agreement of an order between its initiator   *)
(* and a manager, the purchase, and the technical acceptance.              *)
(*                                                                         *)
(* Clients send commands that carry what they saw of the request and an    *)
(* idempotency key, and may send a command again.  A command runs as a     *)
(* transaction that locks the request, its actor, a manager and catalog    *)
(* items, in that order; each check is made when its row is locked, and    *)
(* the last step writes and commits.  Administrators and catalog edits run *)
(* beside them.  A transaction may be refused, time out or be chosen by    *)
(* the deadlock detector at any point: it then leaves nothing behind.      *)
(*                                                                         *)
(* The receipt that an acceptance posts is modelled in Warehouse.          *)
(***************************************************************************)
EXTENDS Integers, FiniteSets, Sequences, SequencesExt, Policy

CONSTANTS
  Users,
  InitialRole,    \* the role of every user at the start
  Items,          \* catalog item ids
  Signatures,     \* identity signatures
  Orders,         \* line sequences that clients submit
  Requests,       \* procurement request ids
  Keys,           \* client request ids, used in order
  KeysReused,     \* whether clients use a key for a second command
  Txns,           \* transactions that may run at the same time
  Commands,       \* commands that clients send
  AdminOps,       \* what administrators do
  AssignedRoles,  \* roles that administrators assign
  CatalogOps,     \* what catalog editors do
  MaxAggregate,   \* MAX_AGGREGATED_ITEM_QUANTITY
  MaxVersion,     \* bound on state_version
  None

Agreement == {"AGREEMENT_PENDING_MANAGER", "AGREEMENT_REVISION_REQUIRED"}
Active    == Agreement \cup {"PURCHASING", "AWAITING_ACCEPTANCE"}
Statuses  == Active \cup {"COMPLETED"}

CreateCommands == {"create", "submit"}
ManageCommands == {"accept", "return", "take", "transfer", "deliver"}
AcceptCommands == {"bind", "create_bind", "discrepancy", "complete"}
AllCommands    == CreateCommands \cup ManageCommands \cup AcceptCommands

\* A line of an order.  A proposed line has no item until it is bound.  No
\* line is accepted with more units than an order may hold of one item.
Lines == [proposed : BOOLEAN, item : Items \cup {None},
          signature : Signatures \cup {None}, quantity : 1 .. MaxAggregate]

\* Commands that clients send.
Sent == [op : AllCommands, actor : Users, key : Keys,
         req : Requests \cup {None}, version : 0 .. MaxVersion, revision : Nat,
         expected : Users \cup {None}, manager : Users \cup {None},
         order : Orders \cup {<<>>}, line : Nat, item : Items \cup {None}]

ASSUME ProcurementAssumption ==
  /\ InitialRole \in [Users -> Roles]
  /\ Orders \subseteq Seq(Lines)
  /\ \A o \in Orders : \A l \in Range(o) : l.proposed <=> l.item = None
  /\ Commands \subseteq AllCommands
  /\ AdminOps \subseteq {"access", "role", "reset"}
  /\ AssignedRoles \subseteq Roles \ {"OWNER"}
  /\ CatalogOps \subseteq {"edit", "archive", "delete"}
  /\ MaxAggregate \in Nat /\ MaxVersion \in Nat \ {0}
  /\ Requests \subseteq Nat /\ Keys \subseteq Nat /\ KeysReused \in BOOLEAN
  /\ None \notin Users \cup Items \cup Signatures \cup Requests
  /\ None \notin Sent /\ None \notin Requests \X Nat

VARIABLES
  users,     \* users table: role, access status, and whether the user has
             \* a Telegram identity
  items,     \* items table: status and identity signature
  requests,  \* requests with their revisions and events
  calls,     \* notifications put into the outbox: request, event, recipient
  pc,        \* the stage each transaction is at
  cmd,       \* the command each transaction runs, or was last reported done
  change,    \* what each administrator's transaction does to which user row
  held,      \* row locks each transaction holds
  answer     \* the event each transaction's last response reported, or None

tables == <<users, items, requests, calls>>
vars   == <<users, items, requests, calls, pc, cmd, change,
            held, answer>>

\* What is not there yet.
NoRequest == [status |-> "NONE", version |-> 0, initiator |-> None,
              manager |-> None, revisions |-> <<>>, log |-> <<>>]
NoItem    == [status |-> "ABSENT", signature |-> None]

Able(u, roles) == users[u].access = "APPROVED" /\ users[u].role \in roles

Needs(op) == CASE op \in CreateCommands -> CreateRoles
               [] op \in ManageCommands -> ManageRoles
               [] op \in AcceptCommands -> AcceptRoles

Order(q) == Last(requests[q].revisions)

\* Units of item i that an order comes to.
Aggregate(order, i) ==
  SumFunction([k \in DOMAIN order |-> IF order[k].item = i THEN order[k].quantity ELSE 0])

\* Mutant: quantities are checked line by line only.
AggregatesFitLines(order) ==
  \A k \in DOMAIN order : order[k].quantity <= MaxAggregate

AggregatesFit(order) == \A i \in Items : Aggregate(order, i) <= MaxAggregate

-----------------------------------------------------------------------------
(* Commands                                                                 *)

\* What a client sends: its key, what it saw of the request, and the payload.
\* All of it goes into the fingerprint.
Plain(op, u, k) ==
  [op |-> op, actor |-> u, key |-> k, req |-> None, version |-> 0,
   revision |-> 0, expected |-> None, manager |-> None, order |-> <<>>,
   line |-> 0, item |-> None]

\* A command about request q, as its author sees q now.
About(q, op, u, k) ==
  [Plain(op, u, k) EXCEPT !.req = q, !.version = requests[q].version,
                          !.revision = Len(requests[q].revisions)]

Events(q) == DOMAIN requests[q].log

\* Events under the idempotency key of command c.
Known(q, c) ==
  {n \in Events(q) : /\ requests[q].log[n].actor = c.actor
                     /\ requests[q].log[n].key = c.key}

\* Requests the actor of c has created under its key.
Created(c) ==
  {q \in Requests : /\ requests[q].status # "NONE"
                    /\ requests[q].log[1].actor = c.actor
                    /\ requests[q].log[1].key = c.key}

\* Mutant: the fingerprint is not compared.
SamePrintAlways(e, c) == TRUE

SamePrint(e, c) == e = c

\* Mutant: only the revision is compared.
FreshRevision(c) == c.revision = Len(requests[c.req].revisions)

\* The command was written for the present state of its request.
Fresh(c) ==
  /\ c.version = requests[c.req].version
  /\ c.revision = Len(requests[c.req].revisions)

-----------------------------------------------------------------------------
(* Transactions                                                             *)

Free(t, row) == \A s \in Txns \ {t} : row \notin held[s]

Acquire(t, rows, next) ==
  /\ held' = [held EXCEPT ![t] = @ \cup rows]
  /\ pc' = [pc EXCEPT ![t] = next]
  /\ UNCHANGED <<tables, cmd, change, answer>>

\* Commit or roll back; a is what the response reports.
Finish(t, a) ==
  /\ pc' = [pc EXCEPT ![t] = "idle"]
  /\ held' = [held EXCEPT ![t] = {}]
  /\ answer' = [answer EXCEPT ![t] = a]
  /\ cmd' = [cmd EXCEPT ![t] = IF a = None THEN None ELSE @]
  /\ change' = [change EXCEPT ![t] = None]

\* A command arrives from a user whom the session check lets through; it asks
\* for the identity, what comes after it does not.
Begin(t, c) ==
  /\ pc[t] = "idle"
  /\ c.op \in Commands /\ Able(c.actor, Needs(c.op)) /\ users[c.actor].identity
  /\ pc' = [pc EXCEPT ![t] = IF c.op = "create" THEN "actor" ELSE "request"]
  /\ cmd' = [cmd EXCEPT ![t] = c]
  /\ answer' = [answer EXCEPT ![t] = None]
  /\ UNCHANGED <<tables, change, held>>

\* Commands that were applied or are on their way.
Sendings ==
  (UNION {Range(requests[q].log) : q \in Requests})
    \cup ({cmd[t] : t \in Txns} \ {None})

\* Keys are only compared, so the order in which new ones are used does not
\* matter.
KeyChoice ==
  LET used == {c.key : c \in Sendings} IN
  {k \in Keys : IF k \in used THEN KeysReused
                ELSE \A j \in Keys \ used : k <= j}

SendCreate(t) ==
  \E u, m \in Users, k \in KeyChoice, o \in Orders :
    /\ \E q \in Requests : requests[q].status = "NONE"
    /\ Begin(t, [Plain("create", u, k) EXCEPT !.manager = m, !.order = o])

SendMutation(t) ==
  \E q \in Requests, u \in Users, k \in KeyChoice, op \in Commands \ {"create"} :
    LET c == About(q, op, u, k)
        r == requests[q]
    IN /\ r.status # "NONE" /\ r.version < MaxVersion
       /\ \/ /\ op \in {"accept", "return", "deliver", "discrepancy", "complete"}
             /\ Begin(t, c)
          \/ /\ op = "submit"
             /\ \E o \in Orders : Begin(t, [c EXCEPT !.order = o])
          \/ /\ op = "take"
             /\ Begin(t, [c EXCEPT !.expected = r.manager, !.manager = u])
          \/ /\ op = "transfer"
             /\ \E m \in Users :
                  Begin(t, [c EXCEPT !.expected = r.manager, !.manager = m])
          \/ /\ op \in {"bind", "create_bind"}
             /\ \E l \in DOMAIN Order(q), i \in Items :
                  Begin(t, [c EXCEPT !.line = l, !.item = i])

\* A client repeats a command, perhaps while the first copy is running.
Resend(t) == \E c \in Sendings : Begin(t, c)

\* The request row, then the idempotency key, then the expected state.
LockRequest(t) ==
  LET c == cmd[t]
      known == Known(c.req, c)
  IN /\ pc[t] = "request" /\ Free(t, <<"request", c.req>>)
     /\ known = {} => Fresh(c)
     /\ \A n \in known : SamePrint(requests[c.req].log[n], c)
     /\ Acquire(t, {<<"request", c.req>>}, "actor")

\* The delivery is there and has not been accepted.
Delivered(r) == r.status = "AWAITING_ACCEPTANCE"

\* What the status of the request, and its actor, allow.
Permitted(c) ==
  LET r == requests[c.req] IN
  \/ c.op = "accept" /\ r.status = "AGREEMENT_PENDING_MANAGER"
  \/ c.op = "return" /\ r.status \in {"AGREEMENT_PENDING_MANAGER", "AWAITING_ACCEPTANCE"}
  \/ c.op = "submit" /\ r.status = "AGREEMENT_REVISION_REQUIRED"
                     /\ r.initiator = c.actor
  \/ c.op \in {"take", "transfer"} /\ r.status \in Active
                                   /\ r.manager = c.expected
  \/ c.op = "deliver" /\ r.status = "PURCHASING"
  \/ c.op \in {"bind", "create_bind"} /\ r.status # "COMPLETED"
                                      /\ c.line \in DOMAIN Order(c.req)
                                      /\ Order(c.req)[c.line].proposed
                                      /\ Order(c.req)[c.line].item = None
  \/ c.op \in {"discrepancy", "complete"} /\ Delivered(r)

AfterActor(c) ==
  CASE c.op \in {"create", "take", "transfer"}     -> "manager"
    [] c.op \in {"submit", "bind", "complete"}     -> "items"
    [] OTHER                                       -> "post"

\* The actor's row, read again under its lock; a command that was applied
\* before is answered with its event.
LockActor(t) ==
  LET c == cmd[t]
      replies == IF c.op = "create" THEN Created(c) \X {1}
                                    ELSE {c.req} \X Known(c.req, c)
  IN /\ pc[t] = "actor" /\ Free(t, <<"user", c.actor>>)
     /\ Able(c.actor, Needs(c.op))
     /\ \/ /\ replies = {}
           /\ c.op = "create" \/ Permitted(c)
           /\ Acquire(t, {<<"user", c.actor>>}, AfterActor(c))
        \/ \E a \in replies :
             /\ SamePrint(requests[a[1]].log[a[2]], c)
             /\ Finish(t, a) /\ UNCHANGED tables

\* Mutant: the manager is read without a lock.
ManagerLockNone(m) == {}

ManagerLock(m) == {<<"user", m>>}

\* The manager who is to be responsible must be one now.
LockManager(t) ==
  LET c == cmd[t] IN
  /\ pc[t] = "manager" /\ \A row \in ManagerLock(c.manager) : Free(t, row)
  /\ Able(c.manager, ManageRoles)
  /\ c.op # "create" => c.manager # c.expected
  /\ Acquire(t, ManagerLock(c.manager), IF c.op = "create" THEN "items" ELSE "post")

\* The order with the line bound to the item.
Bound(c) == [Order(c.req) EXCEPT ![c.line].item = c.item]

\* The order a command is about, once it is carried out.
Outcome(c) ==
  CASE c.op \in {"create", "submit"} -> c.order
    [] c.op \in {"bind", "create_bind"} -> Bound(c)
    [] OTHER -> Order(c.req)

ItemsOf(c) ==
  LET lines == Range(Outcome(c)) IN
  IF c.op = "bind" THEN {c.item} ELSE {l.item : l \in lines} \ {None}

ItemLocks(c) == {<<"item", i>> : i \in {j \in ItemsOf(c) : items[j].status # "ABSENT"}}

\* Mutant: the signature is not checked again.
MatchesAlways(line) == TRUE

\* The item is still what the line was approved for.
Matches(line) == items[line.item].signature = line.signature

\* The items exist and are ACTIVE, they are what was approved, every line of a
\* delivery has one, and the quantities of one item add up.
LockItems(t) ==
  LET c == cmd[t] IN
  /\ pc[t] = "items" /\ \A row \in ItemLocks(c) : Free(t, row)
  /\ \A i \in ItemsOf(c) : items[i].status = "ACTIVE"
  /\ c.op = "bind" => Matches(Bound(c)[c.line])
  /\ c.op = "complete" =>
       \A l \in Range(Order(c.req)) : l.item # None /\ Matches(l)
  /\ AggregatesFit(Outcome(c))
  /\ Acquire(t, ItemLocks(c), "post")

\* Refused, timed out, disconnected or sacrificed by the deadlock detector.
Rollback(t) == pc[t] # "idle" /\ Finish(t, None) /\ UNCHANGED tables

-----------------------------------------------------------------------------
(* Writes: the request, its event and its notifications, in one commit      *)

\* Users whom a notification reaches: it is sent to their Telegram identity.
Reachable == {u \in Users : Able(u, ReadRoles) /\ users[u].identity}

\* r replaces request q, the command becomes its next event, and those of R
\* who can be told are told.
Write(t, q, r, R) ==
  LET n == Len(r.log) + 1 IN
  /\ requests' = [requests EXCEPT ![q] = [r EXCEPT !.log = Append(@, cmd[t])]]
  /\ calls' = calls \cup ({q} \X {n} \X (R \cap Reachable))
  /\ Finish(t, <<q, n>>)
  /\ UNCHANGED users

\* Mutant: a change that is not a transition keeps the version.
TouchedNot(r) == r

\* A change that is no transition moves the version all the same.
Touched(r) == [r EXCEPT !.version = @ + 1]

\* _set_status
Moved(r, status) == [r EXCEPT !.status = status, !.version = @ + 1]

\* Existing items enter an order with the signature they have now.
Prepared(order) ==
  [l \in DOMAIN order |->
     IF order[l].proposed THEN order[l]
     ELSE [order[l] EXCEPT !.signature = items[order[l].item].signature]]

create_request(t) ==
  LET c == cmd[t] IN
  /\ c.op = "create"
  /\ \E q \in Requests :
       /\ requests[q].status = "NONE"
       /\ \A p \in Requests : requests[p].status = "NONE" => q <= p
       /\ Write(t, q, [NoRequest EXCEPT !.status = "AGREEMENT_PENDING_MANAGER",
                                        !.version = 1, !.initiator = c.actor,
                                        !.manager = c.manager,
                                        !.revisions = <<Prepared(c.order)>>],
                {c.manager})
  /\ UNCHANGED items

manager_accept(t) ==
  /\ cmd[t].op = "accept"
  /\ LET q == cmd[t].req IN Write(t, q, Moved(requests[q], "PURCHASING"), {})
  /\ UNCHANGED items

return_for_correction(t) ==
  /\ cmd[t].op = "return"
  /\ LET q == cmd[t].req IN
     Write(t, q, Moved(requests[q], "AGREEMENT_REVISION_REQUIRED"),
           {requests[q].initiator})
  /\ UNCHANGED items

submit_revision(t) ==
  /\ cmd[t].op = "submit"
  /\ LET q == cmd[t].req
         r == Moved(requests[q], "AGREEMENT_PENDING_MANAGER")
     IN Write(t, q, [r EXCEPT !.revisions = Append(@, Prepared(cmd[t].order))],
              {r.manager})
  /\ UNCHANGED items

\* take_ownership and transfer_manager
change_assignment(t) ==
  /\ cmd[t].op \in {"take", "transfer"}
  /\ LET q == cmd[t].req IN
     Write(t, q, [Touched(requests[q]) EXCEPT !.manager = cmd[t].manager],
           {cmd[t].manager})
  /\ UNCHANGED items

transfer_to_acceptance(t) ==
  /\ cmd[t].op = "deliver"
  /\ LET q == cmd[t].req IN
     Write(t, q, Moved(requests[q], "AWAITING_ACCEPTANCE"),
           {u \in Users : Able(u, AcceptRoles)})
  /\ UNCHANGED items

\* The binding is a row of its own; the revision stays as it was published.
WriteBinding(t) ==
  LET q == cmd[t].req
      r == Touched(requests[q])
  IN Write(t, q, [r EXCEPT !.revisions[Len(r.revisions)] = Bound(cmd[t])], {})

bind_line(t) == cmd[t].op = "bind" /\ WriteBinding(t) /\ UNCHANGED items

\* The item is created with the signature of the line, which is unique in the
\* catalog, and bound in the same transaction.
create_and_bind_line(t) ==
  LET c == cmd[t]
      s == Order(c.req)[c.line].signature
  IN /\ c.op = "create_bind"
     /\ items[c.item] = NoItem
     /\ \A i \in Items : items[i].signature # s
     /\ items' = [items EXCEPT ![c.item] = [status |-> "ACTIVE", signature |-> s]]
     /\ WriteBinding(t)

report_discrepancy(t) ==
  /\ cmd[t].op = "discrepancy"
  /\ LET q == cmd[t].req IN
     Write(t, q, Touched(requests[q]), {requests[q].manager})
  /\ UNCHANGED items

\* Everyone who took part is told.
complete_acceptance(t) ==
  /\ cmd[t].op = "complete"
  /\ LET q == cmd[t].req
         r == requests[q]
     IN Write(t, q, Moved(r, "COMPLETED"),
              {r.initiator, r.manager} \cup
              {e.actor : e \in {f \in Range(r.log) : f.op \in ManageCommands}})
  /\ UNCHANGED items

Post(t) ==
  /\ pc[t] = "post"
  /\ \/ create_request(t) \/ manager_accept(t) \/ return_for_correction(t)
     \/ submit_revision(t) \/ change_assignment(t) \/ transfer_to_acceptance(t)
     \/ bind_line(t) \/ create_and_bind_line(t) \/ report_discrepancy(t)
     \/ complete_acceptance(t)

-----------------------------------------------------------------------------
(* Administrators and catalog editors                                       *)

\* Mutant: only an initiator who has to revise is missed.
ResponsibleToRevise(u) ==
  \E q \in Requests :
    requests[q].initiator = u /\ requests[q].status = "AGREEMENT_REVISION_REQUIRED"

\* u would be missed in an agreement.
Responsible(u) ==
  \E q \in Requests : requests[q].initiator = u /\ requests[q].status \in Agreement

\* What the administrator wants u's row to be.  A reset takes the identity away
\* for good: who signs in with it again is a new user.
Change(op, u, role) ==
  CASE op = "access" ->
         [users[u] EXCEPT !.access = IF @ = "BLOCKED" THEN "APPROVED" ELSE "BLOCKED"]
    [] op = "role"   -> [users[u] EXCEPT !.role = role]
    [] op = "reset"  -> [role |-> "ENGINEER", access |-> "BLOCKED", identity |-> FALSE]

\* Mutant: a reset looks at managers only.
SparedManagers(op, u, new) ==
  \A q \in Requests : requests[q].status \in Active => u # requests[q].manager

\* The change leaves no procurement without a person it needs.  A reset looks
\* at everyone who takes part in an unfinished procurement, the other changes
\* at initiators in an agreement who lose procurement.create.
Spared(op, u, new) ==
  IF op = "reset"
  THEN \A q \in Requests : requests[q].status \in Active =>
         u \notin {requests[q].initiator, requests[q].manager}
  ELSE /\ users[u].role \in CreateRoles
       /\ \/ new.role \notin CreateRoles
          \/ new.access = "BLOCKED" /\ users[u].access = "APPROVED"
       => ~Responsible(u)

\* The target's row is locked, then procurement is looked at ...
LockTarget(t) ==
  \E op \in AdminOps, u \in Users, role \in AssignedRoles :
    LET new == Change(op, u, role) IN
    /\ pc[t] = "idle" /\ Free(t, <<"user", u>>)
    /\ users[u].role # "OWNER" /\ new # users[u]
    /\ op = "reset" => users[u].identity
    /\ Spared(op, u, new)
    /\ pc' = [pc EXCEPT ![t] = "admin"]
    /\ held' = [held EXCEPT ![t] = {<<"user", u>>}]
    /\ change' = [change EXCEPT ![t] = [op |-> op, user |-> u, row |-> new]]
    /\ UNCHANGED <<tables, cmd, answer>>

\* ... and then the row is written.
ChangeUser(t) ==
  /\ pc[t] = "admin"
  /\ users' = [users EXCEPT ![change[t].user] = change[t].row]
  /\ Finish(t, None)
  /\ UNCHANGED <<items, requests, calls>>

\* Nobody else has the item's row locked.
ItemFree(i) == \A t \in Txns : <<"item", i>> \notin held[t]

update_item(i, s) ==
  /\ "edit" \in CatalogOps /\ ItemFree(i)
  /\ items[i].status # "ABSENT" /\ \A j \in Items : items[j].signature # s
  /\ items' = [items EXCEPT ![i].signature = s]

set_item_archived(i) ==
  /\ "archive" \in CatalogOps /\ ItemFree(i)
  /\ items[i].status # "ABSENT"
  /\ items' = [items EXCEPT ![i].status =
                 IF @ = "ACTIVE" THEN "ARCHIVED" ELSE "ACTIVE"]

\* Mutant: bindings of earlier revisions are not looked at.
InUseNow(i) ==
  \E q \in Requests : requests[q].status # "NONE" /\ \E l \in Range(Order(q)) : l.item = i

\* Some line of some revision names the item, or was bound to it.
InUse(i) ==
  \E q \in Requests : \E order \in Range(requests[q].revisions) :
    \E l \in Range(order) : l.item = i

delete_unused_item(i) ==
  /\ "delete" \in CatalogOps /\ ItemFree(i)
  /\ items[i].status # "ABSENT" /\ ~InUse(i)
  /\ items' = [items EXCEPT ![i] = NoItem]

EditCatalog ==
  /\ \E i \in Items :
       \/ set_item_archived(i) \/ delete_unused_item(i)
       \/ \E s \in Signatures : update_item(i, s)
  /\ UNCHANGED <<users, requests, calls, pc, cmd, change, held, answer>>

-----------------------------------------------------------------------------
Init ==
  /\ users = [u \in Users |->
                [role |-> InitialRole[u], access |-> "APPROVED", identity |-> TRUE]]
  /\ items \in {f \in [Items -> [status : {"ACTIVE"}, signature : Signatures] \cup {NoItem}] :
                  \A i, j \in Items : f[i].signature = f[j].signature => i = j \/ f[i] = NoItem}
  /\ requests = [q \in Requests |-> NoRequest]
  /\ calls = {}
  /\ pc = [t \in Txns |-> "idle"]
  /\ cmd = [t \in Txns |-> None]
  /\ change = [t \in Txns |-> None]
  /\ held = [t \in Txns |-> {}]
  /\ answer = [t \in Txns |-> None]

Run(t) ==
  \/ LockRequest(t) \/ LockActor(t) \/ LockManager(t) \/ LockItems(t)
  \/ Post(t) \/ Rollback(t) \/ ChangeUser(t)

Next ==
  \/ \E t \in Txns :
       SendCreate(t) \/ SendMutation(t) \/ Resend(t) \/ LockTarget(t) \/ Run(t)
  \/ EditCatalog

Spec == Init /\ [][Next]_vars

-----------------------------------------------------------------------------
(* Properties                                                               *)

\* Every variable keeps its type; items have different signatures, a request
\* has a revision, and nobody holds a row while idle.
TypeOK ==
  /\ users \in [Users -> [role : Roles, access : {"APPROVED", "BLOCKED"},
                          identity : BOOLEAN]]
  /\ items \in [Items -> [status : {"ACTIVE", "ARCHIVED", "ABSENT"},
                          signature : Signatures \cup {None}]]
  /\ \A q \in Requests :
       LET r == requests[q] IN
       /\ r # NoRequest => r.status \in Statuses /\ r.revisions # <<>>
       /\ r.version \in 0 .. MaxVersion
       /\ {r.initiator, r.manager} \subseteq Users \cup {None}
       /\ Range(r.log) \subseteq Sent
       /\ \A order \in Range(r.revisions) : Range(order) \subseteq Lines
  /\ calls \subseteq Requests \X (1 .. MaxVersion) \X Users
  /\ cmd \in [Txns -> Sent \cup {None}]
  /\ \A t \in Txns : pc[t] = "idle" => held[t] = {}

\* A command is applied to the version its author saw, and the version counts
\* what was applied: no command is applied on top of one its author missed.
SeenIsApplied ==
  \A q \in Requests :
    /\ requests[q].version = Len(requests[q].log)
    /\ \A n \in Events(q) \ {1} : requests[q].log[n].version = n - 1

\* The version covers all of a request, its bindings included: whatever
\* changes about it, a command written before is stale afterwards.
VersionCoversState ==
  [][\A q \in Requests :
       requests'[q] # requests[q] => requests'[q].version > requests[q].version]_vars

\* A command that is reported as done is the event it is reported with, and
\* the only one under its key, however often it was sent.
RetriesAgree ==
  \A t \in Txns :
    answer[t] # None =>
      LET q == answer[t][1]
          n == answer[t][2]
      IN /\ requests[q].log[n] = cmd[t]
         /\ Known(q, cmd[t]) = {n}
         /\ cmd[t].op = "create" => Created(cmd[t]) = {q}

\* What is accepted was approved: at the moment a request is completed, every
\* line has an ACTIVE item that still has the approved signature.
AcceptedAsApproved ==
  [][\A q \in Requests :
       requests[q].status # "COMPLETED" /\ requests'[q].status = "COMPLETED" =>
         \A l \in Range(Order(q)) :
           /\ l.item # None
           /\ items[l.item] = [status |-> "ACTIVE", signature |-> l.signature]]_vars

\* An item that a revision names or was bound to stays in the catalog.
LinesKeepItems ==
  \A q \in Requests : \A order \in Range(requests[q].revisions) :
    \A l \in Range(order) : l.item # None => items[l.item].status # "ABSENT"

\* The lines of one item never add up to more than a receipt can hold, also
\* when proposed lines are bound to the same item one by one.
AggregatesHold ==
  \A q \in Requests, i \in Items : \A order \in Range(requests[q].revisions) :
    Aggregate(order, i) <= MaxAggregate

\* Whoever became responsible for an active request has been told so, if there
\* is a Telegram identity to tell: an account that was reset can be unblocked
\* and made a manager again, and is then assigned without one.
ManagersTold ==
  \A q \in Requests :
    requests[q].status \in Active /\ users[requests[q].manager].identity =>
      LET assigned == {n \in Events(q) : requests[q].log[n].op \in {"create", "take", "transfer"}}
      IN \E n \in assigned : /\ \A m \in assigned : m <= n
                             /\ <<q, n, requests[q].manager>> \in calls

\* Until a request is first accepted by a manager, its initiator's account has
\* the role and the access to revise it.
InitiatorsKeepAgreement ==
  \A q \in Requests :
    /\ requests[q].status \in Agreement
    /\ \A n \in Events(q) : requests[q].log[n].op # "accept"
    => Able(requests[q].initiator, CreateRoles)

\* A request that waits for a revision has an initiator whose account may submit
\* it.
RevisionsCanBeSubmitted ==
  \A q \in Requests :
    requests[q].status = "AGREEMENT_REVISION_REQUIRED" =>
      Able(requests[q].initiator, CreateRoles)

\* From the moment a reset has looked at procurement until it writes the row,
\* its target takes part in no active request, also when one is taken,
\* transferred or created meanwhile: no participant's account is reset.
ParticipantsKeepAccounts ==
  \A t \in Txns, q \in Requests :
    pc[t] = "admin" /\ change[t].op = "reset" /\ requests[q].status \in Active =>
      change[t].user \notin {requests[q].initiator, requests[q].manager}
=============================================================================
