------------------------------ MODULE Identity ------------------------------
(***************************************************************************)
(* Users, the Telegram accounts they sign in with, their sessions, and the *)
(* access requests that administrators decide in the web console or with a *)
(* Telegram button.                                                        *)
(*                                                                         *)
(* Every operation is a transaction that takes its locks one after the     *)
(* other and commits in its last step.  A web request carries the actor's  *)
(* user row as the authentication read it: the ORM hands out that object   *)
(* again when the row is locked later, without its new values.  A refused  *)
(* check, a timeout, a lost connection and the deadlock detector all roll  *)
(* a transaction back, from any stage.                                     *)
(*                                                                         *)
(* Custody and procurement, which may also refuse an administrator, are    *)
(* left to Warehouse and Procurement.                                      *)
(***************************************************************************)
EXTENDS Integers, FiniteSets, Sequences, Functions, FiniteSetsExt, Policy

CONSTANTS
  Accounts,        \* Telegram accounts
  Users,           \* user ids; rows are locked in their order
  Initials,        \* accounts and user rows that the system may start with
  Recovery,        \* ADMIN_TELEGRAM_USER_ID at the start
  Txns,            \* transactions that may run at the same time
  Operations,      \* what clients and operators do
  AssignedRoles,   \* roles that administrators assign
  Heirs,           \* accounts that the owner role is handed to
  MaxSessions,     \* MAX_ACTIVE_SESSIONS_PER_USER
  MaxRequests,     \* bound on the access requests ever made
  None

Statuses   == {"PENDING", "APPROVED", "REJECTED", "BLOCKED"}
Rows       == [role : Roles, access : Statuses \cup {"NONE"}]
NoRow      == [role |-> "ENGINEER", access |-> "NONE"]
OwnerRow   == [role |-> "OWNER", access |-> "APPROVED"]
Management == {"access", "role", "decide", "reset"}

ASSUME IdentityAssumption ==
  /\ Users \subseteq Nat /\ None \notin Users \cup Accounts
  /\ Initials \subseteq [ident : [Accounts -> Users \cup {None}],
                         users : [Users -> Rows]]
  /\ \A i \in Initials :
       /\ \A a \in Accounts : i.ident[a] # None => i.users[i.ident[a]].access # "NONE"
       /\ \A u \in Users : i.users[u].role = "OWNER" =>
            /\ i.users[u].access = "APPROVED" /\ \E a \in Accounts : i.ident[a] = u
            /\ \A v \in Users : i.users[v].role = "OWNER" => u = v
  /\ Recovery \in Accounts
  /\ Operations \subseteq
       Management \cup {"login", "request", "press", "rotate", "end"}
  /\ AssignedRoles \subseteq Roles /\ Heirs \subseteq Accounts
  /\ MaxSessions \in Nat \ {0} /\ MaxRequests \in Nat

VARIABLES
  users,       \* users table; access NONE before the row is inserted
  ident,       \* telegram_identities: the user of each account
  sessions,    \* live sessions of each user
  asked,       \* access_requests, oldest first, with what the user was told
  configured,  \* ADMIN_TELEGRAM_USER_ID
  pc,          \* the stage each transaction is at
  op,          \* the operation it runs and what it has read
  held         \* the locks it holds

tables == <<users, ident, sessions, asked, configured>>
vars   == <<users, ident, sessions, asked, configured, pc, op, held>>

Idle == [kind |-> "none", actor |-> None, account |-> None, target |-> None,
         value |-> None, req |-> 0, seen |-> None, count |-> 0]

Init ==
  /\ \E i \in Initials : users = i.users /\ ident = i.ident
  /\ sessions = [u \in Users |-> IF u \in Range(ident) THEN 1 ELSE 0]
  /\ asked = <<>>
  /\ configured = Recovery
  /\ pc = [t \in Txns |-> "idle"]
  /\ op = [t \in Txns |-> Idle]
  /\ held = [t \in Txns |-> {}]

-----------------------------------------------------------------------------
(* Rows                                                                     *)

Attached(u) == \E a \in Accounts : ident[a] = u
Pending(u)  == {r \in DOMAIN asked : asked[r].user = u /\ asked[r].status = "PENDING"}
Owners      == {u \in Users : users[u].role = "OWNER"}
Settled(u)  == users[u] = OwnerRow /\ Pending(u) = {}

\* The rows of load_auth_context for a request with a session cookie.  The
\* configured recovery account is made the owner before anything else.
SignedIn(u) ==
  /\ sessions[u] > 0
  /\ Attached(u)
  /\ ident[configured] = u => Settled(u)

ManagesUsers(row) == row.access = "APPROVED" /\ row.role \in AdminRoles

\* Nobody manages the owner or the recovery account, only the owner manages
\* administrators.
MayManage(row, v) ==
  /\ users[v].role # "OWNER"
  /\ ident[configured] # v
  /\ users[v].role = "ADMIN" => row.role = "OWNER"

\* Mutant: no trigger compares the audit event with the row.
Unaudited(old, seen, new) == TRUE

\* The deferred triggers on users: a changed column needs an event of this
\* transaction whose before-value is the one the row really had.
Audited(old, seen, new) ==
  \A f \in {"role", "access"} :
    new[f] # seen[f] => old[f] \in {seen[f], new[f]}

\* An UPDATE sets the columns that differ from what the ORM had loaded.
Written(old, seen, new) ==
  [f \in {"role", "access"} |-> IF new[f] # seen[f] THEN new[f] ELSE old[f]]

\* Access requests S are given a status, and the user perhaps a message.
Answer(S, status, told) ==
  asked' = [r \in DOMAIN asked |->
              IF r \in S THEN [asked[r] EXCEPT !.status = status, !.told = told]
                         ELSE asked[r]]

-----------------------------------------------------------------------------
(* Locks                                                                    *)

Lock(on, mode)   == [on |-> on, mode |-> mode]
Conflict(l, m)   == l.on = m.on /\ "X" \in {l.mode, m.mode}
Button(r, value) == <<"button", r, value>>

\* Mutants: no lock on the account; none when an account is reset.
NoAccountLock(t) == {}
LoginAccountLock(t) ==
  IF op[t].kind = "reset" THEN {} ELSE {Lock(<<"account", op[t].account>>, "X")}

\* The advisory lock on a Telegram id.
AccountLock(t) == {Lock(<<"account", op[t].account>>, "X")}

\* Mutant: the rotation shares the barrier.
SharedBarrier(t) == {Lock(<<"barrier">>, "S")}

\* The identity management barrier: shared by administrators, exclusive for
\* what makes an owner.
BarrierLock(t) ==
  {Lock(<<"barrier">>,
        IF op[t].kind \in {"login", "repair", "rotate"} THEN "X" ELSE "S")}

\* The user rows still to be locked.
RowsLeft(t) ==
  {u \in {op[t].actor, op[t].target} \ {None} :
     \A l \in held[t] : l.on # <<"user", u>>}

\* Mutant: the actor's row is locked first.
ActorRowFirst(t) ==
  LET u == IF op[t].actor \in RowsLeft(t) THEN op[t].actor ELSE op[t].target
  IN  {Lock(<<"user", u>>, IF u = op[t].target THEN "X" ELSE "S")}

\* Rows are locked in the order of their ids, the actor's for sharing.
RowLock(t) ==
  LET u == Min(RowsLeft(t))
  IN  {Lock(<<"user", u>>,
            IF u = op[t].target \/ op[t].kind = "rotate" THEN "X" ELSE "S")}

\* Deleting the pending requests deletes their buttons.
DeleteLocks(t) ==
  IF op[t].kind = "reset"
  THEN {Lock(Button(r, d), "X") :
          r \in Pending(op[t].target), d \in {"APPROVED", "REJECTED"}}
  ELSE {}

Wants(t) ==
  CASE pc[t] = "idle"    -> {}
    [] pc[t] = "account" -> AccountLock(t)
    [] pc[t] = "barrier" -> BarrierLock(t)
    [] pc[t] = "button"  -> {Lock(Button(op[t].req, op[t].value), "X")}
    [] pc[t] = "rows"    -> RowLock(t)
    [] pc[t] = "commit"  -> DeleteLocks(t)

WaitsFor(s, t) ==
  s # t /\ \E l \in Wants(s), m \in held[t] : Conflict(l, m)

\* Transactions each of which waits for another of them.
WaitCycle(S) == S # {} /\ \A s \in S : \E t \in S : WaitsFor(s, t)

\* Transaction t is granted the lock it asks for and goes on as o.
Advance(t, stage, next, o) ==
  /\ pc[t] = stage
  /\ \A s \in Txns : ~WaitsFor(t, s)
  /\ held' = [held EXCEPT ![t] = @ \cup Wants(t)]
  /\ pc' = [pc EXCEPT ![t] = next]
  /\ op' = [op EXCEPT ![t] = o]
  /\ UNCHANGED tables

Finish(t) ==
  /\ pc' = [pc EXCEPT ![t] = "idle"]
  /\ op' = [op EXCEPT ![t] = Idle]
  /\ held' = [held EXCEPT ![t] = {}]

-----------------------------------------------------------------------------
(* Operations begin                                                         *)

Start(t, kind, stage, o) ==
  /\ kind \in Operations
  /\ pc[t] = "idle"
  /\ pc' = [pc EXCEPT ![t] = stage]
  /\ op' = [op EXCEPT ![t] = [o EXCEPT !.kind = kind]]
  /\ UNCHANGED <<tables, held>>

\* A Mini App signs in with Telegram init data.
Login(t, a) == Start(t, "login", "account", [Idle EXCEPT !.account = a])

\* A user without access asks for it.
RequestAccess(t, u) ==
  /\ SignedIn(u)
  /\ users[u].access \in {"PENDING", "REJECTED"}
  /\ Start(t, "request", "rows",
           [Idle EXCEPT !.target = u, !.seen = users[u]])

\* An administrator changes the access or the role of another user, decides
\* their access request, or resets the account the web console shows.
Manage(t, u, v, kind, value) ==
  /\ SignedIn(u) /\ ManagesUsers(users[u])
  /\ u # v /\ users[v].access # "NONE"
  /\ Start(t, kind, "barrier",
           [Idle EXCEPT !.actor = u, !.target = v, !.value = value,
                        !.seen = users[u]])

Reset(t, u, v, a) ==
  /\ SignedIn(u) /\ ManagesUsers(users[u])
  /\ u # v /\ ident[a] = v
  /\ Start(t, "reset", "account",
           [Idle EXCEPT !.actor = u, !.target = v, !.account = a,
                        !.seen = users[u]])

\* Somebody presses a button under the message about request r.
Press(t, a, r, value) ==
  /\ r \in DOMAIN asked
  /\ Start(t, "press", "barrier",
           [Idle EXCEPT !.account = a, !.req = r, !.value = value])

\* A request of the recovery account finds that it is not the settled owner.
Repair(t) ==
  LET u == ident[configured] IN
  /\ "login" \in Operations /\ pc[t] = "idle"
  /\ u # None /\ sessions[u] > 0 /\ ~Settled(u)
  /\ pc' = [pc EXCEPT ![t] = "barrier"]
  /\ op' = [op EXCEPT ![t] =
              [Idle EXCEPT !.kind = "repair", !.target = u, !.seen = users[u]]]
  /\ UNCHANGED <<tables, held>>

\* An operator hands the owner role to the user of account a.
Rotate(t, a) ==
  /\ a \in Heirs \ {configured} /\ ident[a] # None
  /\ Start(t, "rotate", "barrier",
           [Idle EXCEPT !.account = a, !.target = ident[a]])

-----------------------------------------------------------------------------
(* Locks are taken and rows are read                                        *)

LockAccount(t) ==
  LET a == op[t].account
      u == ident[a]
  IN
  \/ /\ op[t].kind = "reset"
     /\ Advance(t, "account", "barrier", op[t])
  \/ /\ op[t].kind = "login" /\ u = None
     /\ Advance(t, "account", IF a = configured THEN "barrier" ELSE "commit", op[t])
  \/ /\ op[t].kind = "login" /\ u # None
     /\ Advance(t, "account",
                IF a = configured /\ ~Settled(u) THEN "barrier" ELSE "rows",
                [op[t] EXCEPT !.target = u, !.seen = users[u]])

LockBarrier(t) ==
  \/ /\ op[t].kind = "login" /\ op[t].target = None
     /\ Owners = {}
     /\ Advance(t, "barrier", "commit", op[t])
  \/ /\ op[t].kind = "press"
     /\ ident[op[t].account] # None
     /\ Advance(t, "barrier", "button",
                [op[t] EXCEPT !.actor = ident[op[t].account]])
  \/ /\ op[t].kind = "rotate"
     /\ ident[configured] # None
     /\ ident[op[t].account] = op[t].target
     /\ Advance(t, "barrier", "rows", [op[t] EXCEPT !.actor = ident[configured]])
  \/ /\ op[t].kind \in Management \cup {"login", "repair"}
     /\ op[t].target # None
     /\ Advance(t, "barrier", "rows", op[t])

\* The button's row is locked; the request it belongs to is only read.
LockButton(t) ==
  LET r == op[t].req IN
  /\ pc[t] = "button" /\ asked[r].status # "DELETED"
  /\ Advance(t, "button", "rows",
             [op[t] EXCEPT !.target = asked[r].user, !.seen = asked[r].status])

\* A login counts the live sessions once it has the user's row.
LockRow(t) ==
  /\ pc[t] = "rows"
  /\ Advance(t, "rows",
             IF Cardinality(RowsLeft(t)) = 1 THEN "commit" ELSE "rows",
             IF op[t].kind = "login"
             THEN [op[t] EXCEPT !.count = sessions[op[t].target]] ELSE op[t])

-----------------------------------------------------------------------------
(* Operations commit                                                        *)

\* The last step of a transaction of this kind.
Commit(t, kind) ==
  /\ pc[t] = "commit" /\ op[t].kind = kind
  /\ \A s \in Txns : ~WaitsFor(t, s)
  /\ Finish(t)

\* How many of the oldest sessions make room for a new one.
Released(count) == Max({0, count - MaxSessions + 1})

\* The first login of an account inserts a user, as owner for the recovery
\* account; unique indexes guard the account and the owner.
CommitFirstLogin(t) ==
  LET a == op[t].account
      row == IF a = configured THEN OwnerRow
             ELSE [role |-> "ENGINEER", access |-> "PENDING"]
  IN
  /\ op[t].target = None
  /\ Commit(t, "login")
  /\ ident[a] = None
  /\ a = configured => Owners = {}
  /\ \E u \in Users :
       /\ users[u] = NoRow
       /\ users' = [users EXCEPT ![u] = row]
       /\ ident' = [ident EXCEPT ![a] = u]
       /\ sessions' = [sessions EXCEPT ![u] = 1]
  /\ UNCHANGED <<asked, configured>>

\* The user of the recovery account becomes the approved owner and its
\* pending request is approved, unless another user is the owner.
RestoreOwner(t) ==
  LET u == op[t].target IN
  /\ Owners \subseteq {u}
  /\ Audited(users[u], op[t].seen, OwnerRow)
  /\ users' = [users EXCEPT ![u] = Written(@, op[t].seen, OwnerRow)]
  /\ Answer(Pending(u), "APPROVED", None)

CommitLogin(t) ==
  LET u == op[t].target IN
  /\ u # None
  /\ Commit(t, "login")
  /\ IF BarrierLock(t) \subseteq held[t]
     THEN RestoreOwner(t) ELSE UNCHANGED <<users, asked>>
  /\ sessions' = [sessions EXCEPT
                    ![u] = Max({0, @ - Released(op[t].count)}) + 1]
  /\ UNCHANGED <<ident, configured>>

CommitRepair(t) ==
  /\ Commit(t, "repair")
  /\ RestoreOwner(t)
  /\ UNCHANGED <<ident, sessions, configured>>

\* The user is judged by the row that authentication read.  A rejected user
\* becomes pending again; a pending request is not made twice.
CommitRequest(t) ==
  LET u   == op[t].target
      new == [op[t].seen EXCEPT !.access = "PENDING"]
  IN
  /\ Commit(t, "request")
  /\ Audited(users[u], op[t].seen, new)
  /\ users' = [users EXCEPT ![u] = Written(@, op[t].seen, new)]
  /\ IF Pending(u) # {}
     THEN UNCHANGED asked
     ELSE /\ Len(asked) < MaxRequests
          /\ asked' = Append(asked,
                        [user |-> u, status |-> "PENDING", told |-> None])
  /\ UNCHANGED <<ident, sessions, configured>>

\* Blocking a user ends their sessions.
CommitAccess(t) ==
  LET v == op[t].target IN
  /\ Commit(t, "access")
  /\ <<users[v].access, op[t].value>> \in
       {<<"APPROVED", "BLOCKED">>, <<"BLOCKED", "APPROVED">>}
  /\ MayManage(op[t].seen, v)
  /\ users' = [users EXCEPT ![v].access = op[t].value]
  /\ sessions' = [sessions EXCEPT ![v] = IF op[t].value = "BLOCKED" THEN 0 ELSE @]
  /\ UNCHANGED <<ident, asked, configured>>

CommitRole(t) ==
  LET v == op[t].target IN
  /\ Commit(t, "role")
  /\ MayManage(op[t].seen, v)
  /\ \/ op[t].value \in {"ENGINEER", "SENIOR_ENGINEER", "MANAGER"}
     \/ op[t].value = "ADMIN" /\ op[t].seen.role = "OWNER"
  /\ users' = [users EXCEPT ![v].role = op[t].value]
  /\ UNCHANGED <<ident, sessions, asked, configured>>

\* Mutant: a button decides the request it was made for, as it was read.
ButtonRequest(t) == IF op[t].kind = "press" THEN {op[t].req} ELSE Pending(op[t].target)

\* The request that a decision is written to.
DecidedRequest(t) == Pending(op[t].target)

\* Web console and Telegram share the decision: it is made on whichever
\* request is pending, and the user is told.
Decide(t, row) ==
  LET v == op[t].target IN
  /\ v # op[t].actor
  /\ MayManage(row, v)
  /\ users[v].access = "PENDING"
  /\ DecidedRequest(t) # {}
  /\ Attached(v)
  /\ users' = [users EXCEPT ![v].access = op[t].value]
  /\ Answer(DecidedRequest(t), op[t].value, op[t].value)
  /\ UNCHANGED <<ident, sessions, configured>>

CommitDecision(t) == Commit(t, "decide") /\ Decide(t, op[t].seen)

\* A button whose request was already decided when it was read only answers
\* the press.
CommitPress(t) ==
  LET r == op[t].req IN
  /\ Commit(t, "press")
  /\ ManagesUsers(users[op[t].actor])
  /\ asked[r].status # "DELETED"
  /\ op[t].seen = "PENDING"
  /\ Decide(t, users[op[t].actor])

\* The account is detached, its sessions end, its pending request goes.
CommitReset(t) ==
  LET v == op[t].target IN
  /\ Commit(t, "reset")
  /\ ident[op[t].account] = v
  /\ MayManage(op[t].seen, v)
  /\ users' = [users EXCEPT ![v] = [role |-> "ENGINEER", access |-> "BLOCKED"]]
  /\ ident' = [ident EXCEPT ![op[t].account] = None]
  /\ sessions' = [sessions EXCEPT ![v] = 0]
  /\ Answer(Pending(v), "DELETED", None)
  /\ UNCHANGED configured

\* The owner becomes an administrator, the target the approved owner, and
\* both sign in again.
CommitRotation(t) ==
  LET u == op[t].actor
      v == op[t].target
  IN
  /\ Commit(t, "rotate")
  /\ Owners = {u} /\ users[u].access = "APPROVED"
  /\ users' = [users EXCEPT ![u].role = "ADMIN", ![v] = OwnerRow]
  /\ sessions' = [sessions EXCEPT ![u] = 0, ![v] = 0]
  /\ Answer(Pending(v), "APPROVED", None)
  /\ UNCHANGED <<ident, configured>>

Rollback(t) ==
  /\ pc[t] # "idle"
  /\ Finish(t)
  /\ UNCHANGED tables

\* A session is logged out or expires.
EndSession(u) ==
  /\ "end" \in Operations
  /\ sessions[u] > 0
  /\ sessions' = [sessions EXCEPT ![u] = @ - 1]
  /\ UNCHANGED <<users, ident, asked, configured, pc, op, held>>

\* After a rotation the service is deployed with the new recovery account.
Reconfigure(a) ==
  /\ "rotate" \in Operations
  /\ a # configured /\ ident[a] \in Owners
  /\ configured' = a
  /\ pc' = [t \in Txns |-> "idle"]
  /\ op' = [t \in Txns |-> Idle]
  /\ held' = [t \in Txns |-> {}]
  /\ UNCHANGED <<users, ident, sessions, asked>>

-----------------------------------------------------------------------------

Begin(t) ==
  \/ \E a \in Accounts : Login(t, a) \/ Rotate(t, a)
  \/ \E u \in Users : RequestAccess(t, u)
  \/ \E u, v \in Users :
       \/ \E s \in {"APPROVED", "BLOCKED"} : Manage(t, u, v, "access", s)
       \/ \E r \in AssignedRoles : Manage(t, u, v, "role", r)
       \/ \E d \in {"APPROVED", "REJECTED"} : Manage(t, u, v, "decide", d)
       \/ \E a \in Accounts : Reset(t, u, v, a)
  \/ \E a \in Accounts, r \in DOMAIN asked, d \in {"APPROVED", "REJECTED"} :
       Press(t, a, r, d)
  \/ Repair(t)

Step(t) ==
  \/ LockAccount(t) \/ LockBarrier(t) \/ LockButton(t) \/ LockRow(t)
  \/ CommitFirstLogin(t) \/ CommitLogin(t) \/ CommitRepair(t)
  \/ CommitRequest(t) \/ CommitAccess(t) \/ CommitRole(t)
  \/ CommitDecision(t) \/ CommitPress(t) \/ CommitReset(t) \/ CommitRotation(t)

Next ==
  \/ \E t \in Txns : Begin(t) \/ Step(t) \/ Rollback(t)
  \/ \E u \in Users : EndSession(u)
  \/ \E a \in Accounts : Reconfigure(a)

Spec == Init /\ [][Next]_vars

-----------------------------------------------------------------------------
(* Properties                                                               *)

\* Every variable keeps its type.
TypeOK ==
  /\ users \in [Users -> Rows]
  /\ ident \in [Accounts -> Users \cup {None}]
  /\ sessions \in [Users -> 0..MaxSessions]
  /\ asked \in Seq([user : Users, told : {None, "APPROVED", "REJECTED"},
                    status : {"PENDING", "APPROVED", "REJECTED", "DELETED"}])
  /\ configured \in Accounts
  /\ pc \in [Txns -> {"idle", "account", "barrier", "button", "rows", "commit"}]

\* A login never leaves a session for a user whose account was reset
\* meanwhile: reset_user_account detaches the account and ends its sessions
\* for good.
DetachedHaveNoSessions ==
  \A u \in Users : sessions[u] > 0 => Attached(u)

\* Concurrent first logins of an account make one user: who is about to
\* insert the account still finds it free, so that the unique constraint on
\* telegram_user_id never refuses a login.
FirstLoginOnce ==
  \A t \in Txns :
    pc[t] = "commit" /\ op[t].kind = "login" /\ op[t].target = None
      => ident[op[t].account] = None

\* There is one owner at most, and the owner is approved and has an account
\* to sign in with, through logins, resets and rotations in any order.
OwnerCanSignIn ==
  /\ Cardinality(Owners) <= 1
  /\ \A u \in Owners : users[u].access = "APPROVED" /\ Attached(u)

\* Only a pending user is rejected, only a rejected or a new one becomes
\* pending: a request or a decision made from an old view of the row never
\* takes an approval back.
ApprovalsStand ==
  [][\A u \in Users :
       /\ users'[u].access = "REJECTED" => users[u].access \in {"PENDING", "REJECTED"}
       /\ users'[u].access = "PENDING" =>
            users[u].access \in {"NONE", "PENDING", "REJECTED"}]_vars

\* A decided access request keeps its decision, whether the web console or a
\* Telegram button decided it first, and the user was told no other.
DecisionsStand ==
  [][\A r \in DOMAIN asked :
       asked[r].status # "PENDING" => asked'[r] = asked[r]]_vars

\* Transactions wait for each other in a circle only when a button is
\* pressed while the account of its request is reset.
DeadlocksAreKnown ==
  \A S \in SUBSET Txns : WaitCycle(S) =>
    {"press", "reset"} \subseteq {op[t].kind : t \in S}
=============================================================================
