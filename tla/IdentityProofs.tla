---------------------------- MODULE IdentityProofs ----------------------------
(***************************************************************************)
(* Theorems about module Identity, for any number of accounts, users and   *)
(* concurrent transactions.                                                *)
(***************************************************************************)
EXTENDS Identity, FiniteLemmas

Stages   == {"idle", "account", "barrier", "button", "rows", "commit"}
Kinds    == {"none", "login", "request", "access", "role", "decide", "reset",
             "press", "repair", "rotate"}
Decided  == {"APPROVED", "REJECTED"}
AskedRow == [user : Users, told : {None} \cup Decided,
             status : {"PENDING", "APPROVED", "REJECTED", "DELETED"}]

\* What transaction t carries at its stage, by the operation it runs.
Shaped(t) ==
  /\ op[t].kind = "none" => pc[t] = "idle"
  /\ op[t].kind = "login" =>
       /\ pc[t] \in {"account", "barrier", "rows", "commit"}
       /\ op[t].account \in Accounts /\ op[t].actor = None
       /\ pc[t] = "account" => op[t].target = None
       /\ pc[t] = "rows" => op[t].target # None
       /\ op[t].target # None => op[t].target \in Users /\ op[t].seen \in Rows
  /\ op[t].kind = "request" =>
       /\ pc[t] \in {"rows", "commit"}
       /\ op[t].target \in Users /\ op[t].actor = None
       /\ op[t].seen \in Rows /\ op[t].seen.access \in {"PENDING", "REJECTED"}
  /\ op[t].kind \in Management =>
       /\ pc[t] \in {"account", "barrier", "rows", "commit"}
       /\ op[t].actor \in Users /\ op[t].target \in Users /\ op[t].seen \in Rows
       /\ op[t].kind = "access" => op[t].value \in {"APPROVED", "BLOCKED"}
       /\ op[t].kind = "decide" => op[t].value \in Decided
       /\ IF op[t].kind = "reset" THEN op[t].account \in Accounts
                                  ELSE pc[t] # "account"
  /\ op[t].kind = "press" =>
       /\ pc[t] \in {"barrier", "button", "rows", "commit"}
       /\ op[t].account \in Accounts /\ op[t].req \in DOMAIN asked
       /\ op[t].value \in Decided
       /\ pc[t] # "barrier" => op[t].actor \in Users
       /\ pc[t] \in {"rows", "commit"} => op[t].target \in Users
  /\ op[t].kind = "repair" =>
       /\ pc[t] \in {"barrier", "rows", "commit"}
       /\ op[t].target \in Users /\ op[t].actor = None /\ op[t].seen \in Rows
  /\ op[t].kind = "rotate" =>
       /\ pc[t] \in {"barrier", "rows", "commit"}
       /\ op[t].account \in Accounts /\ op[t].target \in Users
       /\ pc[t] # "barrier" => op[t].actor \in Users

Operation ==
  [kind : Kinds, actor : Users \cup {None}, account : Accounts \cup {None},
   target : Users \cup {None}, value : Roles \cup Statuses \cup {None}, req : Nat,
   seen : Rows \cup Statuses \cup {"DELETED", None}, count : 0 .. MaxSessions]

\* TypeOK, but for the number of sessions.
TablesTyped ==
  /\ users \in [Users -> Rows]
  /\ ident \in [Accounts -> Users \cup {None}]
  /\ asked \in Seq(AskedRow)
  /\ configured \in Accounts
  /\ pc \in [Txns -> Stages]
  /\ op \in [Txns -> Operation]
  /\ DOMAIN held = Txns

SessionsTyped == sessions \in [Users -> 0 .. MaxSessions]

OpsShaped == \A t \in Txns : Shaped(t)

\* Two transactions never hold conflicting locks.
LocksExclusive ==
  \A s, t \in Txns : s # t => \A l \in held[s], m \in held[t] : ~Conflict(l, m)

\* Who does nothing holds nothing.
IdleHoldNothing == \A t \in Txns : pc[t] = "idle" => held[t] = {}

\* The locks that a transaction has taken at its stage.
LocksKept ==
  \A t \in Txns :
    /\ op[t].kind \in {"login", "reset"} /\ pc[t] # "account" =>
         Lock(<<"account", op[t].account>>, "X") \in held[t]
    /\ op[t].kind = "reset" /\ pc[t] \in {"rows", "commit"} =>
         Lock(<<"barrier">>, "S") \in held[t]
    /\ op[t].kind = "rotate" /\ pc[t] # "barrier" =>
         Lock(<<"barrier">>, "X") \in held[t]
    /\ op[t].kind = "login" /\ pc[t] = "commit" /\ op[t].target # None =>
         Lock(<<"user", op[t].target>>, "X") \in held[t]

\* Under the lock of its account a login knows whose it is.
AccountsClaimed ==
  \A t \in Txns : op[t].kind = "login" /\ pc[t] # "account" =>
    ident[op[t].account] = op[t].target

\* Under the barrier the heir keeps the account.
HeirsClaimed ==
  \A t \in Txns : op[t].kind = "rotate" /\ pc[t] # "barrier" =>
    ident[op[t].account] = op[t].target

\* Only the recovery account is made the owner, and nobody takes its approval
\* back after it was read.
Restores(t) ==
  \/ op[t].kind = "repair"
  \/ op[t].kind = "login" /\ op[t].target # None /\ op[t].account = configured

RecoveryClaimed ==
  \A t \in Txns :
    /\ op[t].kind = "repair" => op[t].target = ident[configured]
    /\ op[t].kind = "login" =>
         /\ pc[t] = "barrier" => op[t].account = configured
         /\ Lock(<<"barrier">>, "X") \in held[t] => op[t].account = configured
    /\ Restores(t) /\ op[t].seen.access = "APPROVED" =>
         users[op[t].target].access = "APPROVED"

\* A login that counted the sessions of its user finds no more of them.
SessionsCounted ==
  \A t \in Txns : op[t].kind = "login" /\ pc[t] = "commit" /\ op[t].target # None =>
    sessions[op[t].target] <= op[t].count

\* Whoever has an account has a row.
AttachedHaveRows ==
  \A a \in Accounts : ident[a] # None => users[ident[a]].access # "NONE"

OwnersSound ==
  \A u \in Owners : /\ users[u].access = "APPROVED" /\ Attached(u)
                    /\ \A v \in Owners : u = v

IInv ==
  /\ TablesTyped /\ SessionsTyped /\ OpsShaped
  /\ LocksExclusive /\ IdleHoldNothing /\ LocksKept
  /\ AccountsClaimed /\ HeirsClaimed /\ RecoveryClaimed /\ SessionsCounted
  /\ AttachedHaveRows /\ OwnersSound /\ DetachedHaveNoSessions

-----------------------------------------------------------------------------
(* Steps                                                                    *)

\* Only transaction t moves.
Alone(t) ==
  /\ pc' = [pc EXCEPT ![t] = pc'[t]] /\ op' = [op EXCEPT ![t] = op'[t]]
  /\ DOMAIN held' = Txns
  /\ \A s \in Txns \ {t} : pc'[s] = pc[s] /\ op'[s] = op[s] /\ held'[s] = held[s]

\* It begins an operation.
Begins(t) ==
  /\ Alone(t) /\ UNCHANGED tables /\ held' = held
  /\ pc[t] = "idle"
  /\ op'[t] \in Operation /\ pc'[t] \in Stages
  /\ Shaped(t)'
  /\ op'[t].kind # "none" /\ pc'[t] # "commit"
  /\ op'[t].kind \in {"login", "reset"} => pc'[t] = "account"
  /\ op'[t].kind = "rotate" => pc'[t] = "barrier"
  /\ op'[t].kind = "repair" =>
       op'[t].target = ident[configured] /\ op'[t].seen = users[op'[t].target]

\* It is granted a lock and goes on.
Advances(t) ==
  /\ Alone(t) /\ UNCHANGED tables
  /\ pc[t] # "idle"
  /\ op'[t] \in Operation /\ pc'[t] \in Stages
  /\ Shaped(t)'
  /\ \A s \in Txns : ~WaitsFor(t, s)
  /\ held'[t] = held[t] \cup Wants(t)
  /\ op'[t].kind = op[t].kind /\ op'[t].account = op[t].account
  /\ op'[t].kind \in {"login", "reset"} => pc'[t] # "account"
  /\ op[t].kind = "rotate" =>
       /\ pc'[t] # "barrier"
       /\ op'[t].target = op[t].target
       /\ pc[t] = "barrier" => ident[op[t].account] = op[t].target
  /\ op[t].kind = "reset" /\ pc'[t] \in {"rows", "commit"} =>
       pc[t] \in {"barrier", "rows"}
  /\ pc[t] # "commit"
  /\ pc[t] = "barrier" => pc'[t] \in {"button", "rows", "commit"}
  /\ pc[t] = "button" => pc'[t] = "rows"
  /\ pc[t] = "rows" =>
       /\ op'[t].actor = op[t].actor /\ op'[t].target = op[t].target
       /\ \/ pc'[t] = "commit"
          \/ pc'[t] = "rows" /\ Cardinality(RowsLeft(t)) # 1
  /\ op[t].kind = "repair" => op'[t].target = op[t].target /\ op'[t].seen = op[t].seen
  /\ op[t].kind = "login" =>
       /\ pc'[t] = "barrier" => op[t].account = configured
       /\ IF pc[t] = "account"
          THEN /\ op'[t].target = ident[op[t].account]
               /\ op'[t].target # None => op'[t].seen = users[op'[t].target]
               /\ pc'[t] # "commit" \/ op'[t].target = None
          ELSE op'[t].target = op[t].target /\ op'[t].seen = op[t].seen
       /\ pc'[t] = "commit" /\ op'[t].target # None =>
            /\ pc[t] = "rows"
            /\ op'[t].count = sessions[op[t].target]
            /\ Wants(t) = {Lock(<<"user", op[t].target>>, "X")}

\* It ends, with or without a commit.
Ends(t) ==
  /\ Alone(t)
  /\ pc[t] # "idle"
  /\ pc'[t] = "idle" /\ op'[t] = Idle /\ held'[t] = {}

\* A deployment ends everything.
Stops ==
  /\ UNCHANGED <<users, ident, sessions, asked>>
  /\ configured' \in Accounts
  /\ pc' = [t \in Txns |-> "idle"]
  /\ op' = [t \in Txns |-> Idle]
  /\ held' = [t \in Txns |-> {}]

Typed == TablesTyped /\ SessionsTyped /\ OpsShaped

\* None is nobody, and ids are numbers.
LEMMA NoneApart == None \notin Users /\ None \notin Accounts /\ Users \subseteq Nat
BY IdentityAssumption

LEMMA SessionsPositive == 0 \in 0 .. MaxSessions
BY IdentityAssumption

\* No operation is an operation.
LEMMA IdleTyped == Idle \in Operation
BY IdentityAssumption DEF Idle, Operation, Kinds

\* A new operation in columns.
Made(kind, actor, account, target, value, req, seen) ==
  [kind |-> kind, actor |-> actor, account |-> account, target |-> target,
   value |-> value, req |-> req, seen |-> seen, count |-> 0]

\* A login begins with the account.
LEMMA LoginBegins ==
  ASSUME Typed, NEW t \in Txns, NEW a \in Accounts,
         Login(t, a)
  PROVE  Begins(t)
<1> DEFINE o == [Idle EXCEPT !.account = a]
           m == Made("login", None, a, None, None, 0, None)
<1>1. Start(t, "login", "account", o)
  BY DEF Login
<1>2. /\ Alone(t) /\ UNCHANGED tables /\ held' = held /\ pc[t] = "idle"
      /\ pc'[t] = "account" /\ op'[t] = [o EXCEPT !.kind = "login"]
  BY <1>1 DEF Typed, TablesTyped, Start, Alone
<1>3. op'[t] = m
  BY <1>2 DEF Idle, Made
<1> HIDE DEF o, m
<1>4. a \in Accounts
  BY DEF Typed, TablesTyped, Login
<1>5. /\ m \in Operation
      /\ m.kind = "login" /\ m.actor = None /\ m.account = a /\ m.target = None
      /\ m.value = None /\ m.req = 0 /\ m.seen = None
  BY <1>4, NoneApart, SessionsPositive DEF m, Made, Operation, Kinds, Decided, Statuses
<1>6. Shaped(t)'
  BY <1>2, <1>3, <1>4, <1>5, NoneApart DEF Shaped, Management, tables
<1> QED
  BY <1>2, <1>3, <1>4, <1>5, <1>6, NoneApart DEF Begins, Stages

\* A request for access carries the row that authentication read.
LEMMA RequestAccessBegins ==
  ASSUME Typed, NEW t \in Txns, NEW u \in Users,
         RequestAccess(t, u)
  PROVE  Begins(t)
<1> DEFINE o == [Idle EXCEPT !.target = u, !.seen = users[u]]
           m == Made("request", None, None, u, None, 0, users[u])
<1>1. Start(t, "request", "rows", o)
  BY DEF RequestAccess
<1>2. /\ Alone(t) /\ UNCHANGED tables /\ held' = held /\ pc[t] = "idle"
      /\ pc'[t] = "rows" /\ op'[t] = [o EXCEPT !.kind = "request"]
  BY <1>1 DEF Typed, TablesTyped, Start, Alone
<1>3. op'[t] = m
  BY <1>2 DEF Idle, Made
<1> HIDE DEF o, m
<1>4. users[u] \in Rows /\ users[u].access \in {"PENDING", "REJECTED"}
  BY DEF Typed, TablesTyped, RequestAccess
<1>5. /\ m \in Operation
      /\ m.kind = "request" /\ m.actor = None /\ m.account = None /\ m.target = u
      /\ m.value = None /\ m.req = 0 /\ m.seen = users[u]
  BY <1>4, NoneApart, SessionsPositive DEF m, Made, Operation, Kinds, Decided, Statuses
<1>6. Shaped(t)'
  BY <1>2, <1>3, <1>4, <1>5, NoneApart DEF Shaped, Management, tables
<1> QED
  BY <1>2, <1>3, <1>4, <1>5, <1>6, NoneApart DEF Begins, Stages

\* An administrator's request carries their row as authentication read it.
LEMMA ManageBegins ==
  ASSUME Typed, NEW t \in Txns, NEW u \in Users, NEW v \in Users,
         NEW kind \in {"access", "role", "decide"},
         NEW value \in Roles \cup Statuses,
         kind = "access" => value \in {"APPROVED", "BLOCKED"},
         kind = "decide" => value \in Decided,
         Manage(t, u, v, kind, value)
  PROVE  Begins(t)
<1> DEFINE o == [Idle EXCEPT !.actor = u, !.target = v, !.value = value, !.seen = users[u]]
           m == Made(kind, u, None, v, value, 0, users[u])
<1>1. Start(t, kind, "barrier", o)
  BY DEF Manage
<1>2. /\ Alone(t) /\ UNCHANGED tables /\ held' = held /\ pc[t] = "idle"
      /\ pc'[t] = "barrier" /\ op'[t] = [o EXCEPT !.kind = kind]
  BY <1>1 DEF Typed, TablesTyped, Start, Alone
<1>3. op'[t] = m
  BY <1>2 DEF Idle, Made
<1> HIDE DEF o, m
<1>4. users[u] \in Rows
  BY DEF Typed, TablesTyped, Manage
<1>5. /\ m \in Operation
      /\ m.kind = kind /\ m.actor = u /\ m.account = None /\ m.target = v
      /\ m.value = value /\ m.req = 0 /\ m.seen = users[u]
  BY <1>4, NoneApart, SessionsPositive DEF m, Made, Operation, Kinds, Decided, Statuses
<1>6. Shaped(t)'
  BY <1>2, <1>3, <1>4, <1>5, NoneApart DEF Shaped, Management, tables
<1> QED
  BY <1>2, <1>3, <1>4, <1>5, <1>6, NoneApart DEF Begins, Stages

\* A reset begins with the account.
LEMMA ResetBegins ==
  ASSUME Typed, NEW t \in Txns, NEW u \in Users, NEW v \in Users, NEW a \in Accounts,
         Reset(t, u, v, a)
  PROVE  Begins(t)
<1> DEFINE o == [Idle EXCEPT !.actor = u, !.target = v, !.account = a, !.seen = users[u]]
           m == Made("reset", u, a, v, None, 0, users[u])
<1>1. Start(t, "reset", "account", o)
  BY DEF Reset
<1>2. /\ Alone(t) /\ UNCHANGED tables /\ held' = held /\ pc[t] = "idle"
      /\ pc'[t] = "account" /\ op'[t] = [o EXCEPT !.kind = "reset"]
  BY <1>1 DEF Typed, TablesTyped, Start, Alone
<1>3. op'[t] = m
  BY <1>2 DEF Idle, Made
<1> HIDE DEF o, m
<1>4. users[u] \in Rows
  BY DEF Typed, TablesTyped, Reset
<1>5. /\ m \in Operation
      /\ m.kind = "reset" /\ m.actor = u /\ m.account = a /\ m.target = v
      /\ m.value = None /\ m.req = 0 /\ m.seen = users[u]
  BY <1>4, NoneApart, SessionsPositive DEF m, Made, Operation, Kinds, Decided, Statuses
<1>6. Shaped(t)'
  BY <1>2, <1>3, <1>4, <1>5, NoneApart DEF Shaped, Management, tables
<1> QED
  BY <1>2, <1>3, <1>4, <1>5, <1>6, NoneApart DEF Begins, Stages

\* A pressed button belongs to a request.
LEMMA PressBegins ==
  ASSUME Typed, NEW t \in Txns, NEW a \in Accounts, NEW r \in DOMAIN asked, NEW d \in Decided,
         Press(t, a, r, d)
  PROVE  Begins(t)
<1> DEFINE o == [Idle EXCEPT !.account = a, !.req = r, !.value = d]
           m == Made("press", None, a, None, d, r, None)
<1>1. Start(t, "press", "barrier", o)
  BY DEF Press
<1>2. /\ Alone(t) /\ UNCHANGED tables /\ held' = held /\ pc[t] = "idle"
      /\ pc'[t] = "barrier" /\ op'[t] = [o EXCEPT !.kind = "press"]
  BY <1>1 DEF Typed, TablesTyped, Start, Alone
<1>3. op'[t] = m
  BY <1>2 DEF Idle, Made
<1> HIDE DEF o, m
<1>4. r \in Nat
  BY DEF Typed, TablesTyped, Press
<1>5. /\ m \in Operation
      /\ m.kind = "press" /\ m.actor = None /\ m.account = a /\ m.target = None
      /\ m.value = d /\ m.req = r /\ m.seen = None
  BY <1>4, NoneApart, SessionsPositive DEF m, Made, Operation, Kinds, Decided, Statuses
<1>6. Shaped(t)'
  BY <1>2, <1>3, <1>4, <1>5, NoneApart DEF Shaped, Management, tables
<1> QED
  BY <1>2, <1>3, <1>4, <1>5, <1>6, NoneApart DEF Begins, Stages

\* A rotation begins with the account of the heir.
LEMMA RotateBegins ==
  ASSUME Typed, NEW t \in Txns, NEW a \in Accounts,
         Rotate(t, a)
  PROVE  Begins(t)
<1> DEFINE o == [Idle EXCEPT !.account = a, !.target = ident[a]]
           m == Made("rotate", None, a, ident[a], None, 0, None)
<1>1. Start(t, "rotate", "barrier", o)
  BY DEF Rotate
<1>2. /\ Alone(t) /\ UNCHANGED tables /\ held' = held /\ pc[t] = "idle"
      /\ pc'[t] = "barrier" /\ op'[t] = [o EXCEPT !.kind = "rotate"]
  BY <1>1 DEF Typed, TablesTyped, Start, Alone
<1>3. op'[t] = m
  BY <1>2 DEF Idle, Made
<1> HIDE DEF o, m
<1>4. ident[a] \in Users
  BY DEF Typed, TablesTyped, Rotate
<1>5. /\ m \in Operation
      /\ m.kind = "rotate" /\ m.actor = None /\ m.account = a /\ m.target = ident[a]
      /\ m.value = None /\ m.req = 0 /\ m.seen = None
  BY <1>4, NoneApart, SessionsPositive DEF m, Made, Operation, Kinds, Decided, Statuses
<1>6. Shaped(t)'
  BY <1>2, <1>3, <1>4, <1>5, NoneApart DEF Shaped, Management, tables
<1> QED
  BY <1>2, <1>3, <1>4, <1>5, <1>6, NoneApart DEF Begins, Stages

\* A repair concerns the user of the recovery account.
LEMMA RepairBegins ==
  ASSUME Typed, NEW t \in Txns, Repair(t)
  PROVE  Begins(t)
<1> DEFINE u == ident[configured]
           m == Made("repair", None, None, u, None, 0, users[u])
<1>1. u \in Users /\ users[u] \in Rows
  BY DEF Typed, TablesTyped, Repair
<1>2. /\ Alone(t) /\ UNCHANGED tables /\ held' = held /\ pc[t] = "idle"
      /\ pc'[t] = "barrier"
      /\ op'[t] = [Idle EXCEPT !.kind = "repair", !.target = u, !.seen = users[u]]
  BY DEF Typed, TablesTyped, Repair, Alone
<1>3. op'[t] = m
  BY <1>2 DEF Idle, Made
<1> HIDE DEF u, m
<1>5. /\ m \in Operation
      /\ m.kind = "repair" /\ m.actor = None /\ m.account = None /\ m.target = u
      /\ m.value = None /\ m.req = 0 /\ m.seen = users[u]
  BY <1>1, NoneApart, SessionsPositive DEF m, Made, Operation, Kinds
<1>6. Shaped(t)'
  BY <1>1, <1>2, <1>3, <1>5, NoneApart DEF Shaped, Management, tables
<1> QED
  BY <1>1, <1>2, <1>3, <1>5, <1>6, NoneApart DEF Begins, Stages, u

\* The account is locked; a login learns whose it is.
LEMMA LockAccountAdvances ==
  ASSUME Typed, NEW t \in Txns, LockAccount(t)
  PROVE  Advances(t)
<1> DEFINE a == op[t].account
           u == ident[a]
<1>0. op[t] \in Operation /\ Shaped(t)
  BY DEF Typed, TablesTyped, OpsShaped
<1>1. CASE op[t].kind = "reset" /\ Advance(t, "account", "barrier", op[t])
  <2>1. /\ Alone(t) /\ UNCHANGED tables /\ pc[t] = "account"
        /\ \A s \in Txns : ~WaitsFor(t, s)
        /\ held'[t] = held[t] \cup Wants(t)
        /\ pc'[t] = "barrier" /\ op'[t] = op[t]
    BY <1>1 DEF Typed, TablesTyped, Advance, Alone
  <2>2. Shaped(t)'
    BY <1>0, <1>1, <2>1 DEF Shaped, Management
  <2> QED
    BY <1>0, <1>1, <2>1, <2>2 DEF Advances, Stages
<1>2. CASE /\ op[t].kind = "login" /\ u = None
           /\ Advance(t, "account", IF a = configured THEN "barrier" ELSE "commit", op[t])
  <2>1. /\ Alone(t) /\ UNCHANGED tables /\ pc[t] = "account"
        /\ \A s \in Txns : ~WaitsFor(t, s)
        /\ held'[t] = held[t] \cup Wants(t)
        /\ pc'[t] = (IF a = configured THEN "barrier" ELSE "commit") /\ op'[t] = op[t]
    BY <1>2 DEF Typed, TablesTyped, Advance, Alone
  <2>2. op[t].target = None
    BY <1>0, <1>2, <2>1 DEF Shaped
  <2>3. Shaped(t)'
    BY <1>0, <1>2, <2>1, <2>2 DEF Shaped, Management
  <2> QED
    BY <1>0, <1>2, <2>1, <2>2, <2>3 DEF Advances, Stages
<1>3. CASE /\ op[t].kind = "login" /\ u # None
           /\ Advance(t, "account", IF a = configured /\ ~Settled(u) THEN "barrier" ELSE "rows",
                      [op[t] EXCEPT !.target = u, !.seen = users[u]])
  <2> DEFINE o == [op[t] EXCEPT !.target = u, !.seen = users[u]]
  <2>1. /\ Alone(t) /\ UNCHANGED tables /\ pc[t] = "account"
        /\ \A s \in Txns : ~WaitsFor(t, s)
        /\ held'[t] = held[t] \cup Wants(t)
        /\ pc'[t] = (IF a = configured /\ ~Settled(u) THEN "barrier" ELSE "rows")
        /\ op'[t] = o
    BY <1>3 DEF Typed, TablesTyped, Advance, Alone
  <2>2. a \in Accounts
    BY <1>0, <1>3 DEF Shaped
  <2>3. u \in Users /\ users[u] \in Rows
    BY <1>3, <2>2 DEF Typed, TablesTyped
  <2>4. /\ o \in Operation /\ o.kind = "login" /\ o.account = op[t].account
        /\ o.target = u /\ o.seen = users[u] /\ o.actor = op[t].actor
    BY <1>0, <1>3, <2>3 DEF Operation
  <2> HIDE DEF o
  <2>5. Shaped(t)'
    BY <1>0, <1>3, <2>1, <2>3, <2>4 DEF Shaped, Management
  <2> QED
    BY <1>0, <1>3, <2>1, <2>3, <2>4, <2>5 DEF Advances, Stages
<1> QED
  BY <1>1, <1>2, <1>3 DEF LockAccount

\* The barrier is taken; rotation and button read whom they concern.
LEMMA LockBarrierAdvances ==
  ASSUME Typed, NEW t \in Txns, LockBarrier(t)
  PROVE  Advances(t)
<1>0. op[t] \in Operation /\ Shaped(t)
  BY DEF Typed, TablesTyped, OpsShaped
<1>1. CASE /\ op[t].kind = "login" /\ op[t].target = None
           /\ Advance(t, "barrier", "commit", op[t])
  <2>1. /\ Alone(t) /\ UNCHANGED tables /\ pc[t] = "barrier"
        /\ \A s \in Txns : ~WaitsFor(t, s)
        /\ held'[t] = held[t] \cup Wants(t)
        /\ pc'[t] = "commit" /\ op'[t] = op[t]
    BY <1>1 DEF Typed, TablesTyped, Advance, Alone
  <2>2. Shaped(t)'
    BY <1>0, <1>1, <2>1 DEF Shaped, Management
  <2> QED
    BY <1>0, <1>1, <2>1, <2>2 DEF Advances, Stages
<1>2. CASE /\ op[t].kind = "press" /\ ident[op[t].account] # None
           /\ Advance(t, "barrier", "button", [op[t] EXCEPT !.actor = ident[op[t].account]])
  <2> DEFINE u == ident[op[t].account]
             o == [op[t] EXCEPT !.actor = u]
  <2>1. /\ Alone(t) /\ UNCHANGED tables /\ pc[t] = "barrier"
        /\ \A s \in Txns : ~WaitsFor(t, s)
        /\ held'[t] = held[t] \cup Wants(t)
        /\ pc'[t] = "button" /\ op'[t] = o
    BY <1>2 DEF Typed, TablesTyped, Advance, Alone
  <2>2. op[t].account \in Accounts
    BY <1>0, <1>2 DEF Shaped
  <2>3. u \in Users
    BY <1>2, <2>2 DEF Typed, TablesTyped
  <2>4. /\ o \in Operation /\ o.kind = "press" /\ o.account = op[t].account
        /\ o.target = op[t].target /\ o.seen = op[t].seen /\ o.actor = u
        /\ o.req = op[t].req /\ o.value = op[t].value
    BY <1>0, <1>2, <2>3 DEF Operation
  <2>5. asked' = asked
    BY <2>1 DEF tables
  <2> HIDE DEF o
  <2>6. Shaped(t)'
    BY <1>0, <1>2, <2>1, <2>3, <2>4, <2>5 DEF Shaped, Management
  <2> QED
    BY <1>0, <1>2, <2>1, <2>4, <2>6 DEF Advances, Stages
<1>3. CASE /\ op[t].kind = "rotate" /\ ident[configured] # None
           /\ ident[op[t].account] = op[t].target
           /\ Advance(t, "barrier", "rows", [op[t] EXCEPT !.actor = ident[configured]])
  <2> DEFINE u == ident[configured]
             o == [op[t] EXCEPT !.actor = u]
  <2>1. /\ Alone(t) /\ UNCHANGED tables /\ pc[t] = "barrier"
        /\ \A s \in Txns : ~WaitsFor(t, s)
        /\ held'[t] = held[t] \cup Wants(t)
        /\ pc'[t] = "rows" /\ op'[t] = o
    BY <1>3 DEF Typed, TablesTyped, Advance, Alone
  <2>3. u \in Users
    BY <1>3 DEF Typed, TablesTyped
  <2>4. /\ o \in Operation /\ o.kind = "rotate" /\ o.account = op[t].account
        /\ o.target = op[t].target /\ o.seen = op[t].seen /\ o.actor = u
    BY <1>0, <1>3, <2>3 DEF Operation
  <2> HIDE DEF o
  <2>6. Shaped(t)'
    BY <1>0, <1>3, <2>1, <2>3, <2>4 DEF Shaped, Management
  <2> QED
    BY <1>0, <1>3, <2>1, <2>4, <2>6 DEF Advances, Stages
<1>4. CASE /\ op[t].kind \in Management \cup {"login", "repair"} /\ op[t].target # None
           /\ Advance(t, "barrier", "rows", op[t])
  <2>1. /\ Alone(t) /\ UNCHANGED tables /\ pc[t] = "barrier"
        /\ \A s \in Txns : ~WaitsFor(t, s)
        /\ held'[t] = held[t] \cup Wants(t)
        /\ pc'[t] = "rows" /\ op'[t] = op[t]
    BY <1>4 DEF Typed, TablesTyped, Advance, Alone
  <2>2. Shaped(t)'
    BY <1>0, <1>4, <2>1 DEF Shaped, Management
  <2> QED
    BY <1>0, <1>4, <2>1, <2>2 DEF Advances, Stages, Management
<1> QED
  BY <1>1, <1>2, <1>3, <1>4 DEF LockBarrier

\* The button is locked and its request read.
LEMMA LockButtonAdvances ==
  ASSUME Typed, NEW t \in Txns, LockButton(t)
  PROVE  Advances(t)
<1> DEFINE r == op[t].req
           o == [op[t] EXCEPT !.target = asked[r].user, !.seen = asked[r].status]
<1>0. op[t] \in Operation /\ Shaped(t)
  BY DEF Typed, TablesTyped, OpsShaped
<1>1. /\ Alone(t) /\ UNCHANGED tables /\ pc[t] = "button"
      /\ \A s \in Txns : ~WaitsFor(t, s)
      /\ held'[t] = held[t] \cup Wants(t)
      /\ pc'[t] = "rows" /\ op'[t] = o
  BY DEF Typed, TablesTyped, LockButton, Advance, Alone
<1>2. op[t].kind = "press" /\ r \in DOMAIN asked
  BY <1>0, <1>1 DEF Shaped, Operation, Kinds, Management
<1>3. asked[r] \in AskedRow
  BY <1>2 DEF Typed, TablesTyped
<1>4. asked[r].user \in Users /\ asked[r].status \in Statuses \cup {"DELETED"}
  BY <1>3 DEF AskedRow, Statuses
<1>5. /\ o \in Operation /\ o.kind = "press" /\ o.account = op[t].account
      /\ o.target \in Users /\ o.actor = op[t].actor
      /\ o.req = op[t].req /\ o.value = op[t].value
  BY <1>0, <1>2, <1>4 DEF Operation
<1>6. asked' = asked
  BY <1>1 DEF tables
<1> HIDE DEF o, r
<1>7. Shaped(t)'
  BY <1>0, <1>1, <1>2, <1>5, <1>6 DEF Shaped, Management
<1> QED
  BY <1>0, <1>1, <1>2, <1>5, <1>7 DEF Advances, Stages

\* The only row that a login locks is its user's.
LEMMA LoginRow ==
  ASSUME Typed, NEW t \in Txns, op[t].kind = "login", pc[t] = "rows",
         Cardinality(RowsLeft(t)) = 1
  PROVE  Wants(t) = {Lock(<<"user", op[t].target>>, "X")}
<1> DEFINE u == op[t].target
<1>1. op[t].actor = None /\ u # None
  BY DEF Typed, OpsShaped, Shaped
<1>2. RowsLeft(t) \subseteq {u}
  BY <1>1 DEF RowsLeft
<1>3. RowsLeft(t) # {}
  BY FS_EmptySet
<1>4. RowsLeft(t) = {u}
  BY <1>2, <1>3
<1>5. Min(RowsLeft(t)) = u
  <2>1. u \in Nat
    BY <1>1, NoneApart DEF Typed, TablesTyped, Operation
  <2> HIDE DEF u
  <2> QED
    BY <1>4, <2>1 DEF Min
<1>6. RowLock(t) = {Lock(<<"user", u>>, "X")}
  BY <1>5 DEF RowLock
<1> QED
  BY <1>6 DEF Wants

\* A user row is locked.
LEMMA LockRowAdvances ==
  ASSUME Typed, NEW t \in Txns, LockRow(t)
  PROVE  Advances(t)
<1> DEFINE n == IF Cardinality(RowsLeft(t)) = 1 THEN "commit" ELSE "rows"
<1>0. op[t] \in Operation /\ Shaped(t)
  BY DEF Typed, TablesTyped, OpsShaped
<1>1. /\ Alone(t) /\ UNCHANGED tables /\ pc[t] = "rows"
      /\ \A s \in Txns : ~WaitsFor(t, s)
      /\ held'[t] = held[t] \cup Wants(t)
      /\ pc'[t] = n
      /\ op'[t] = IF op[t].kind = "login"
                  THEN [op[t] EXCEPT !.count = sessions[op[t].target]] ELSE op[t]
  BY DEF Typed, TablesTyped, LockRow, Advance, Alone
<1>a. asked' = asked
  BY <1>1 DEF tables
<1>b. n \in {"rows", "commit"}
  OBVIOUS
<1>c. n = "commit" <=> Cardinality(RowsLeft(t)) = 1
  OBVIOUS
<1> HIDE DEF n
<1>2. CASE op[t].kind = "login"
  <2> DEFINE o == [op[t] EXCEPT !.count = sessions[op[t].target]]
  <2>1. op[t].target \in Users
    BY <1>0, <1>1, <1>2 DEF Shaped
  <2>2. sessions[op[t].target] \in 0 .. MaxSessions
    BY <2>1 DEF Typed, SessionsTyped
  <2>3. /\ o \in Operation /\ o.kind = "login" /\ o.account = op[t].account
        /\ o.target = op[t].target /\ o.seen = op[t].seen /\ o.actor = op[t].actor
        /\ o.count = sessions[op[t].target]
    BY <1>0, <1>2, <2>2 DEF Operation
  <2>4. op'[t] = o
    BY <1>1, <1>2
  <2> HIDE DEF o
  <2>5. Shaped(t)'
    BY <1>0, <1>1, <1>2, <1>b, <2>3, <2>4 DEF Shaped, Management
  <2>6. n = "commit" => Wants(t) = {Lock(<<"user", op[t].target>>, "X")}
    BY <1>1, <1>2, <1>c, LoginRow
  <2> QED
    BY <1>0, <1>1, <1>2, <1>b, <1>c, <2>3, <2>4, <2>5, <2>6 DEF Advances, Stages
<1>3. CASE op[t].kind # "login"
  <2>1. op'[t] = op[t]
    BY <1>1, <1>3
  <2>2. Shaped(t)'
    BY <1>0, <1>1, <1>3, <1>a, <1>b, <2>1 DEF Shaped, Management
  <2> QED
    BY <1>0, <1>1, <1>3, <1>b, <1>c, <2>1, <2>2 DEF Advances, Stages
<1> QED
  BY <1>2, <1>3

\* A transaction that finishes leaves the others alone.
LEMMA FinishEnds ==
  ASSUME Typed, NEW t \in Txns, pc[t] # "idle", Finish(t)
  PROVE  Ends(t)
BY DEF Typed, TablesTyped, Finish, Ends, Alone

Commits(t) ==
  \/ CommitFirstLogin(t) \/ CommitLogin(t) \/ CommitRepair(t)
  \/ CommitRequest(t) \/ CommitAccess(t) \/ CommitRole(t)
  \/ CommitDecision(t) \/ CommitPress(t) \/ CommitReset(t) \/ CommitRotation(t)

LEMMA CommitsEnd ==
  ASSUME Typed, NEW t \in Txns, Commits(t)
  PROVE  Ends(t) /\ pc[t] = "commit"
<1>1. pc[t] = "commit" /\ Finish(t)
  BY DEF Commits, CommitFirstLogin, CommitLogin, CommitRepair, CommitRequest,
         CommitAccess, CommitRole, CommitDecision, CommitPress, CommitReset,
         CommitRotation, Commit
<1> QED
  BY <1>1, FinishEnds

\* Every step is of one of these kinds.
LEMMA NextKinds ==
  ASSUME Typed, [Next]_vars
  PROVE  \/ \E t \in Txns : Begins(t)
         \/ \E t \in Txns : Advances(t)
         \/ \E t \in Txns : Ends(t) /\ (Commits(t) \/ UNCHANGED tables)
         \/ \E u \in Users : EndSession(u)
         \/ Stops
         \/ UNCHANGED vars
<1>1. ASSUME NEW t \in Txns, Begin(t) PROVE Begins(t)
  <2>1. ASSUME NEW a \in Accounts, Login(t, a) \/ Rotate(t, a) PROVE Begins(t)
    BY <2>1, LoginBegins, RotateBegins
  <2>2. ASSUME NEW u \in Users, RequestAccess(t, u) PROVE Begins(t)
    BY <2>2, RequestAccessBegins
  <2>3. ASSUME NEW u \in Users, NEW v \in Users,
               NEW s \in {"APPROVED", "BLOCKED"}, Manage(t, u, v, "access", s)
        PROVE  Begins(t)
    BY <2>3, ManageBegins DEF Statuses
  <2>4. ASSUME NEW u \in Users, NEW v \in Users, NEW r \in AssignedRoles,
               Manage(t, u, v, "role", r)
        PROVE  Begins(t)
    <3>1. r \in Roles
      BY IdentityAssumption
    <3> QED
      BY <2>4, <3>1, ManageBegins
  <2>5. ASSUME NEW u \in Users, NEW v \in Users, NEW d \in Decided,
               Manage(t, u, v, "decide", d)
        PROVE  Begins(t)
    BY <2>5, ManageBegins DEF Statuses, Decided
  <2>6. ASSUME NEW u \in Users, NEW v \in Users, NEW a \in Accounts, Reset(t, u, v, a)
        PROVE  Begins(t)
    BY <2>6, ResetBegins
  <2>7. ASSUME NEW a \in Accounts, NEW r \in DOMAIN asked, NEW d \in Decided,
               Press(t, a, r, d)
        PROVE  Begins(t)
    BY <2>7, PressBegins
  <2>8. Repair(t) => Begins(t)
    BY RepairBegins
  <2> QED
    BY <1>1, <2>1, <2>2, <2>3, <2>4, <2>5, <2>6, <2>7, <2>8, Zenon DEF Begin, Decided
<1>2. ASSUME NEW t \in Txns, Step(t)
      PROVE  Advances(t) \/ (Ends(t) /\ Commits(t))
  BY <1>2, LockAccountAdvances, LockBarrierAdvances, LockButtonAdvances,
     LockRowAdvances, CommitsEnd DEF Step, Commits
<1>3. ASSUME NEW t \in Txns, Rollback(t) PROVE Ends(t) /\ UNCHANGED tables
  BY <1>3, FinishEnds DEF Rollback
<1>4. ASSUME NEW a \in Accounts, Reconfigure(a) PROVE Stops
  BY <1>4 DEF Reconfigure, Stops
<1> QED
  BY <1>1, <1>2, <1>3, <1>4 DEF Next

-----------------------------------------------------------------------------
(* What a commit does                                                       *)

\* What a committing transaction does to the tables, as far as the others
\* rely on it.
TablesChange(t) ==
  /\ users' \in [Users -> Rows]
  /\ ident' \in [Accounts -> Users \cup {None}]
  /\ SessionsTyped'
  /\ asked' \in Seq(AskedRow) /\ DOMAIN asked \subseteq DOMAIN asked'
  /\ configured' = configured

IdentChange(t) ==
  \A a \in Accounts : ident'[a] # ident[a] =>
    /\ a = op[t].account
    /\ \/ op[t].kind = "login" /\ ident[a] = None
       \/ op[t].kind = "reset" /\ a # configured

UsersChange ==
  \A u \in Users :
    /\ users[u].access # "NONE" => users'[u].access # "NONE"
    /\ ident[configured] = u /\ users[u].access = "APPROVED" =>
         users'[u].access = "APPROVED"

SessionsChange(t) ==
  \A u \in Users : sessions'[u] > sessions[u] =>
    \/ op[t].kind = "login" /\ op[t].target = u
    \/ users[u].access = "NONE"

Effects(t) ==
  /\ TablesChange(t) /\ IdentChange(t) /\ UsersChange /\ SessionsChange(t)
  /\ AttachedHaveRows' /\ OwnersSound' /\ DetachedHaveNoSessions'

\* Answered requests are requests, and the others stay as they are.
LEMMA AnswerTyped ==
  ASSUME Typed, NEW STATE S, NEW STATE status, NEW STATE told,
         status \in {"PENDING", "APPROVED", "REJECTED", "DELETED"},
         told \in {None} \cup Decided,
         Answer(S, status, told)
  PROVE  /\ asked' \in Seq(AskedRow) /\ DOMAIN asked' = DOMAIN asked
         /\ \A r \in DOMAIN asked : r \notin S => asked'[r] = asked[r]
<1>1. /\ Len(asked) \in Nat /\ DOMAIN asked = 1 .. Len(asked)
      /\ \A r \in DOMAIN asked : asked[r] \in AskedRow
  BY DEF Typed, TablesTyped
<1>2. \A r \in DOMAIN asked :
        [asked[r] EXCEPT !.status = status, !.told = told] \in AskedRow
  BY <1>1 DEF AskedRow
<1>3. asked' \in [1 .. Len(asked) -> AskedRow]
  BY <1>1, <1>2 DEF Answer
<1>4. asked' \in Seq(AskedRow)
  BY <1>1, <1>3
<1> QED
  BY <1>3, <1>4, <1>1 DEF Answer

\* What a flush writes, column by column.
LEMMA WrittenColumns ==
  ASSUME NEW old \in Rows, NEW seen \in Rows, NEW new \in Rows
  PROVE  /\ Written(old, seen, new) \in Rows
         /\ Written(old, seen, new).role =
              IF new.role # seen.role THEN new.role ELSE old.role
         /\ Written(old, seen, new).access =
              IF new.access # seen.access THEN new.access ELSE old.access
         /\ Audited(old, seen, new) /\ new.access # seen.access =>
              old.access \in {seen.access, new.access}
BY DEF Written, Rows, Audited

\* Changing one user's row to an approved owner's or another.
LEMMA RowsOf ==
  /\ OwnerRow \in Rows /\ OwnerRow.role = "OWNER" /\ OwnerRow.access = "APPROVED"
  /\ NoRow \in Rows /\ NoRow.role = "ENGINEER" /\ NoRow.access = "NONE"
  /\ \A s \in Statuses : [role |-> "ENGINEER", access |-> s] \in Rows
BY DEF OwnerRow, NoRow, Rows, Roles, Statuses

\* The oldest sessions make room for the new one.
LEMMA RoomForSession ==
  ASSUME NEW n \in 0 .. MaxSessions, NEW count \in 0 .. MaxSessions, n <= count
  PROVE  Max({0, n - Released(count)}) + 1 \in 1 .. MaxSessions
<1>1. MaxSessions \in Nat \ {0}
  BY IdentityAssumption
<1> DEFINE k == Released(count)
<1>2. k \in Nat /\ k >= count - MaxSessions + 1
  <2>1. \A m \in Int : Max({0, m}) \in Nat /\ Max({0, m}) >= m
    BY DEF Max
  <2>2. count - MaxSessions + 1 \in Int
    BY <1>1
  <2> QED
    BY <2>1, <2>2 DEF Released
<1> HIDE DEF k
<1>3. Max({0, n - k}) \in 0 .. MaxSessions - 1
  BY <1>1, <1>2 DEF Max
<1> QED
  BY <1>1, <1>3 DEF k

\* What everybody who commits has at hand.
LEMMA CommitFacts ==
  ASSUME IInv, NEW t \in Txns, pc[t] = "commit"
  PROVE  /\ Typed /\ Shaped(t) /\ op[t] \in Operation
         /\ users \in [Users -> Rows]
         /\ ident \in [Accounts -> Users \cup {None}]
         /\ sessions \in [Users -> 0 .. MaxSessions]
         /\ configured \in Accounts
         /\ \A u \in Users : users[u] \in Rows
BY DEF IInv, Typed, TablesTyped, SessionsTyped, OpsShaped

\* A first login makes a user with a row, an account and a session.
LEMMA FirstLoginEffects ==
  ASSUME IInv, NEW t \in Txns, CommitFirstLogin(t)
  PROVE  Effects(t)
<1> DEFINE a == op[t].account
           row == IF a = configured THEN OwnerRow
                  ELSE [role |-> "ENGINEER", access |-> "PENDING"]
<1>0. pc[t] = "commit" /\ op[t].kind = "login" /\ op[t].target = None
  BY DEF CommitFirstLogin, Commit
<1>1. /\ Typed /\ users \in [Users -> Rows] /\ ident \in [Accounts -> Users \cup {None}]
      /\ sessions \in [Users -> 0 .. MaxSessions] /\ a \in Accounts
  BY <1>0, CommitFacts DEF Shaped
<1>2. PICK u \in Users : /\ users[u] = NoRow
                         /\ users' = [users EXCEPT ![u] = row]
                         /\ ident' = [ident EXCEPT ![a] = u]
                         /\ sessions' = [sessions EXCEPT ![u] = 1]
  BY DEF CommitFirstLogin
<1>3. /\ ident[a] = None /\ (a = configured => Owners = {})
      /\ asked' = asked /\ configured' = configured
  BY DEF CommitFirstLogin
<1>4. /\ row \in Rows /\ row.access # "NONE"
      /\ row.role = "OWNER" => a = configured /\ row.access = "APPROVED"
  BY RowsOf DEF Statuses
<1> HIDE DEF row, a
<1>5. /\ users' \in [Users -> Rows] /\ users'[u] = row
      /\ \A v \in Users \ {u} : users'[v] = users[v]
  BY <1>1, <1>2, <1>4
<1>6. /\ ident' \in [Accounts -> Users \cup {None}] /\ ident'[a] = u
      /\ \A b \in Accounts \ {a} : ident'[b] = ident[b]
  BY <1>1, <1>2
<1>7. /\ sessions' \in [Users -> 0 .. MaxSessions]
      /\ \A v \in Users \ {u} : sessions'[v] = sessions[v]
  BY <1>1, <1>2, IdentityAssumption
<1>a. TablesChange(t)
  BY <1>1, <1>3, <1>5, <1>6, <1>7 DEF TablesChange, SessionsTyped, Typed, TablesTyped
<1>b. IdentChange(t)
  BY <1>0, <1>1, <1>3, <1>6 DEF IdentChange, a
<1>c. UsersChange
  BY <1>2, <1>4, <1>5, RowsOf DEF UsersChange
<1>d. SessionsChange(t)
  BY <1>1, <1>2, <1>7, RowsOf DEF SessionsChange
<1>e. AttachedHaveRows'
  BY <1>1, <1>4, <1>5, <1>6 DEF AttachedHaveRows, IInv
<1>f. \A v \in Users : Attached(v) => Attached(v)'
  BY <1>1, <1>3, <1>6, NoneApart DEF Attached
<1>g. Attached(u)'
  BY <1>1, <1>6 DEF Attached
<1>h. OwnersSound'
  BY <1>3, <1>4, <1>5, <1>f, <1>g DEF OwnersSound, Owners, IInv
<1>i. DetachedHaveNoSessions'
  BY <1>7, <1>f, <1>g DEF DetachedHaveNoSessions, IInv
<1> QED
  BY <1>a, <1>b, <1>c, <1>d, <1>e, <1>h, <1>i DEF Effects

\* Making the recovery user the owner gives one approved owner.
LEMMA RestoreOwnerEffects ==
  ASSUME IInv, NEW t \in Txns, pc[t] = "commit", Restores(t),
         op[t].target \in Users, ident[configured] = op[t].target,
         op[t].seen \in Rows, RestoreOwner(t)
  PROVE  /\ users' \in [Users -> Rows]
         /\ asked' \in Seq(AskedRow) /\ DOMAIN asked \subseteq DOMAIN asked'
         /\ UsersChange
         /\ \A v \in Users \ {op[t].target} : users'[v] = users[v]
         /\ \A v \in Users : users'[v].role = "OWNER" =>
              v = op[t].target /\ users'[v].access = "APPROVED"
<1> DEFINE u == op[t].target
           new == Written(users[u], op[t].seen, OwnerRow)
<1>1. Typed /\ users \in [Users -> Rows] /\ users[u] \in Rows
  BY CommitFacts
<1>2. /\ Owners \subseteq {u}
      /\ users' = [users EXCEPT ![u] = new]
      /\ Answer(Pending(u), "APPROVED", None)
  BY DEF RestoreOwner
<1>3. /\ new \in Rows
      /\ new.access = IF "APPROVED" # op[t].seen.access THEN "APPROVED" ELSE users[u].access
  BY <1>1, WrittenColumns, RowsOf
<1>4. op[t].seen.access = "APPROVED" => users[u].access = "APPROVED"
  BY DEF IInv, RecoveryClaimed
<1>5. new.access = "APPROVED"
  BY <1>3, <1>4
<1> HIDE DEF new
<1>6. /\ users' \in [Users -> Rows] /\ users'[u] = new
      /\ \A v \in Users \ {u} : users'[v] = users[v]
  BY <1>1, <1>2, <1>3
<1>7. asked' \in Seq(AskedRow) /\ DOMAIN asked' = DOMAIN asked
  BY <1>1, <1>2, AnswerTyped DEF Decided
<1>8. UsersChange
  BY <1>5, <1>6 DEF UsersChange
<1>9. \A v \in Users : users'[v].role = "OWNER" => v = u /\ users'[v].access = "APPROVED"
  BY <1>2, <1>5, <1>6 DEF Owners
<1> QED
  BY <1>6, <1>7, <1>8, <1>9

\* A login adds a session to its user, who still has the account.
LEMMA LoginEffects ==
  ASSUME IInv, NEW t \in Txns, CommitLogin(t)
  PROVE  Effects(t)
<1> DEFINE u == op[t].target
           n == Max({0, sessions[u] - Released(op[t].count)}) + 1
<1>0. /\ pc[t] = "commit" /\ op[t].kind = "login" /\ u # None
      /\ sessions' = [sessions EXCEPT ![u] = n]
      /\ ident' = ident /\ configured' = configured
  BY DEF CommitLogin, Commit
<1>1. /\ Typed /\ users \in [Users -> Rows] /\ ident \in [Accounts -> Users \cup {None}]
      /\ sessions \in [Users -> 0 .. MaxSessions] /\ op[t].account \in Accounts
      /\ u \in Users /\ op[t].seen \in Rows /\ op[t].count \in 0 .. MaxSessions
  BY <1>0, CommitFacts DEF Shaped, Operation
<1>2. ident[op[t].account] = u
  BY <1>0 DEF IInv, AccountsClaimed
<1>3. n \in 1 .. MaxSessions
  <2>1. sessions[u] <= op[t].count
    BY <1>0 DEF IInv, SessionsCounted
  <2> QED
    BY <1>1, <2>1, RoomForSession
<1> HIDE DEF n
<1>4. /\ sessions' \in [Users -> 0 .. MaxSessions]
      /\ \A v \in Users \ {u} : sessions'[v] = sessions[v]
  BY <1>0, <1>1, <1>3
<1>5. Attached(u)
  BY <1>1, <1>2 DEF Attached
<1>6. \A v \in Users : Attached(v)' <=> Attached(v)
  BY <1>0 DEF Attached
<1>7. DetachedHaveNoSessions'
  BY <1>4, <1>5, <1>6 DEF DetachedHaveNoSessions, IInv
<1>8. IdentChange(t) /\ SessionsChange(t)
  BY <1>0, <1>1, <1>4 DEF IdentChange, SessionsChange
<1>9. CASE BarrierLock(t) \subseteq held[t]
  <2>1. RestoreOwner(t)
    BY <1>9 DEF CommitLogin
  <2>2. Lock(<<"barrier">>, "X") \in held[t]
    BY <1>0, <1>9 DEF BarrierLock
  <2>3. op[t].account = configured
    BY <1>0, <2>2 DEF IInv, RecoveryClaimed
  <2>4. Restores(t) /\ ident[configured] = u
    BY <1>0, <1>2, <2>3 DEF Restores
  <2>5. /\ users' \in [Users -> Rows]
        /\ asked' \in Seq(AskedRow) /\ DOMAIN asked \subseteq DOMAIN asked'
        /\ UsersChange
        /\ \A v \in Users : users'[v].role = "OWNER" =>
             v = u /\ users'[v].access = "APPROVED"
    BY <1>0, <1>1, <2>1, <2>4, RestoreOwnerEffects
  <2>6. OwnersSound'
    BY <1>5, <1>6, <2>5 DEF OwnersSound, Owners
  <2>7. AttachedHaveRows'
    BY <1>0, <1>1, <2>5 DEF AttachedHaveRows, UsersChange, IInv
  <2> QED
    BY <1>0, <1>1, <1>4, <1>7, <1>8, <2>5, <2>6, <2>7 DEF Effects, TablesChange, SessionsTyped
<1>10. CASE ~(BarrierLock(t) \subseteq held[t])
  <2>1. users' = users /\ asked' = asked
    BY <1>10 DEF CommitLogin
  <2>2. OwnersSound' /\ AttachedHaveRows' /\ UsersChange
    BY <1>0, <1>6, <2>1 DEF OwnersSound, Owners, AttachedHaveRows, UsersChange, IInv
  <2> QED
    BY <1>0, <1>1, <1>4, <1>7, <1>8, <2>1, <2>2
    DEF Effects, TablesChange, SessionsTyped, Typed, TablesTyped
<1> QED
  BY <1>9, <1>10

\* A repair changes the recovery user only.
LEMMA RepairEffects ==
  ASSUME IInv, NEW t \in Txns, CommitRepair(t)
  PROVE  Effects(t)
<1> DEFINE u == op[t].target
<1>0. /\ pc[t] = "commit" /\ op[t].kind = "repair" /\ RestoreOwner(t)
      /\ ident' = ident /\ sessions' = sessions /\ configured' = configured
  BY DEF CommitRepair, Commit
<1>1. /\ Typed /\ users \in [Users -> Rows] /\ ident \in [Accounts -> Users \cup {None}]
      /\ sessions \in [Users -> 0 .. MaxSessions] /\ configured \in Accounts
      /\ u \in Users /\ op[t].seen \in Rows
  BY <1>0, CommitFacts DEF Shaped
<1>2. Restores(t) /\ ident[configured] = u
  BY <1>0 DEF IInv, RecoveryClaimed, Restores
<1>3. /\ users' \in [Users -> Rows]
      /\ asked' \in Seq(AskedRow) /\ DOMAIN asked \subseteq DOMAIN asked'
      /\ UsersChange
      /\ \A v \in Users : users'[v].role = "OWNER" =>
           v = u /\ users'[v].access = "APPROVED"
  BY <1>0, <1>1, <1>2, RestoreOwnerEffects
<1>4. Attached(u) /\ \A v \in Users : Attached(v)' <=> Attached(v)
  BY <1>0, <1>1, <1>2 DEF Attached
<1>5. OwnersSound'
  BY <1>3, <1>4 DEF OwnersSound, Owners
<1>6. AttachedHaveRows' /\ DetachedHaveNoSessions'
  BY <1>0, <1>1, <1>3, <1>4 DEF AttachedHaveRows, DetachedHaveNoSessions, UsersChange, IInv
<1>7. IdentChange(t) /\ SessionsChange(t)
  BY <1>0, <1>1 DEF IdentChange, SessionsChange
<1> QED
  BY <1>0, <1>1, <1>3, <1>5, <1>6, <1>7 DEF Effects, TablesChange, SessionsTyped

\* Who changes one row that is no owner's, makes no owner of it and leaves
\* the accounts alone, disturbs nobody.
LEMMA OneRowEffects ==
  ASSUME IInv, NEW t \in Txns, NEW u \in Users, NEW STATE row,
         pc[t] = "commit", row \in Rows,
         users' = [users EXCEPT ![u] = row],
         ident' = ident, configured' = configured,
         users[u].role # "OWNER" => row.role # "OWNER",
         users[u].role = "OWNER" => row = users[u],
         users[u].access # "NONE" => row.access # "NONE",
         ident[configured] = u /\ users[u].access = "APPROVED" => row.access = "APPROVED",
         asked' \in Seq(AskedRow), DOMAIN asked \subseteq DOMAIN asked',
         sessions' \in [Users -> 0 .. MaxSessions],
         \A v \in Users : sessions'[v] <= sessions[v]
  PROVE  Effects(t)
<1>1. /\ Typed /\ users \in [Users -> Rows] /\ ident \in [Accounts -> Users \cup {None}]
      /\ sessions \in [Users -> 0 .. MaxSessions]
  BY CommitFacts
<1>2. /\ users' \in [Users -> Rows] /\ users'[u] = row
      /\ \A v \in Users \ {u} : users'[v] = users[v]
  BY <1>1
<1>3. \A v \in Users : Attached(v)' <=> Attached(v)
  BY DEF Attached
<1>4. OwnersSound'
  BY <1>2, <1>3 DEF OwnersSound, Owners, IInv
<1>5. AttachedHaveRows' /\ UsersChange
  BY <1>1, <1>2 DEF AttachedHaveRows, UsersChange, IInv
<1>6. DetachedHaveNoSessions'
  BY <1>1, <1>3 DEF DetachedHaveNoSessions, IInv
<1>7. IdentChange(t) /\ SessionsChange(t)
  BY <1>1 DEF IdentChange, SessionsChange
<1> QED
  BY <1>1, <1>2, <1>4, <1>5, <1>6, <1>7 DEF Effects, TablesChange, SessionsTyped

\* A request for access makes nobody an owner and takes no approval back.
LEMMA RequestEffects ==
  ASSUME IInv, NEW t \in Txns, CommitRequest(t)
  PROVE  Effects(t)
<1> DEFINE u   == op[t].target
           new == [op[t].seen EXCEPT !.access = "PENDING"]
           row == Written(users[u], op[t].seen, new)
<1>0. /\ pc[t] = "commit" /\ op[t].kind = "request"
      /\ Audited(users[u], op[t].seen, new)
      /\ users' = [users EXCEPT ![u] = row]
      /\ ident' = ident /\ sessions' = sessions /\ configured' = configured
  BY DEF CommitRequest, Commit
<1>1. /\ Typed /\ users \in [Users -> Rows] /\ sessions \in [Users -> 0 .. MaxSessions]
      /\ u \in Users /\ op[t].seen \in Rows
      /\ op[t].seen.access \in {"PENDING", "REJECTED"} /\ users[u] \in Rows
  BY <1>0, CommitFacts DEF Shaped
<1>2. new \in Rows /\ new.role = op[t].seen.role /\ new.access = "PENDING"
  BY <1>1 DEF Rows, Statuses
<1> HIDE DEF new
<1>3. /\ row \in Rows
      /\ row.role = users[u].role
      /\ row.access = IF "PENDING" # op[t].seen.access THEN "PENDING" ELSE users[u].access
      /\ "PENDING" # op[t].seen.access =>
           users[u].access \in {op[t].seen.access, "PENDING"}
  BY <1>0, <1>1, <1>2, WrittenColumns
<1> HIDE DEF row
<1>4. row.access = users[u].access \/ users[u].access \in {"PENDING", "REJECTED"}
  BY <1>1, <1>3
<1>5. users[u].role = "OWNER" => users[u].access = "APPROVED"
  BY <1>1 DEF IInv, OwnersSound, Owners
<1>6. users[u].role = "OWNER" => row = users[u]
  BY <1>1, <1>3, <1>4, <1>5 DEF Rows
<1>7. asked' \in Seq(AskedRow) /\ DOMAIN asked \subseteq DOMAIN asked'
  <2>1. CASE asked' = asked
    BY <1>1, <2>1 DEF Typed, TablesTyped
  <2>2. CASE asked' = Append(asked, [user |-> u, status |-> "PENDING", told |-> None])
    <3>1. [user |-> u, status |-> "PENDING", told |-> None] \in AskedRow
      BY <1>1 DEF AskedRow
    <3>2. asked \in Seq(AskedRow)
      BY <1>1 DEF Typed, TablesTyped
    <3> QED
      BY <2>2, <3>1, <3>2
  <2> QED
    BY <2>1, <2>2 DEF CommitRequest
<1>8. \A v \in Users : sessions'[v] <= sessions[v]
  BY <1>0, <1>1
<1>9. /\ users[u].role # "OWNER" => row.role # "OWNER"
      /\ users[u].access # "NONE" => row.access # "NONE"
      /\ ident[configured] = u /\ users[u].access = "APPROVED" => row.access = "APPROVED"
  BY <1>3, <1>4
<1> QED
  BY <1>0, <1>1, <1>3, <1>6, <1>7, <1>8, <1>9, OneRowEffects

\* A block or an unblock concerns neither the owner nor the recovery user.
LEMMA AccessEffects ==
  ASSUME IInv, NEW t \in Txns, CommitAccess(t)
  PROVE  Effects(t)
<1> DEFINE v   == op[t].target
           row == [users[v] EXCEPT !.access = op[t].value]
<1>0. /\ pc[t] = "commit" /\ op[t].kind = "access" /\ MayManage(op[t].seen, v)
      /\ users' = [users EXCEPT ![v].access = op[t].value]
      /\ sessions' = [sessions EXCEPT ![v] = IF op[t].value = "BLOCKED" THEN 0 ELSE @]
      /\ ident' = ident /\ asked' = asked /\ configured' = configured
  BY DEF CommitAccess, Commit
<1>1. /\ Typed /\ users \in [Users -> Rows] /\ sessions \in [Users -> 0 .. MaxSessions]
      /\ v \in Users /\ op[t].value \in {"APPROVED", "BLOCKED"} /\ users[v] \in Rows
  BY <1>0, CommitFacts DEF Shaped, Management
<1>2. users' = [users EXCEPT ![v] = row]
  BY <1>0
<1>3. row \in Rows /\ row.role = users[v].role /\ row.access = op[t].value
  BY <1>1 DEF Rows, Statuses
<1>4. users[v].role # "OWNER" /\ ident[configured] # v
  BY <1>0 DEF MayManage
<1>5. asked' \in Seq(AskedRow) /\ DOMAIN asked \subseteq DOMAIN asked'
  BY <1>0, <1>1 DEF Typed, TablesTyped
<1>6. /\ sessions' \in [Users -> 0 .. MaxSessions]
      /\ \A w \in Users : sessions'[w] <= sessions[w]
  BY <1>0, <1>1, IdentityAssumption
<1>7. /\ pc[t] = "commit" /\ ident' = ident /\ configured' = configured
      /\ sessions' \in [Users -> 0 .. MaxSessions]
  BY <1>0, <1>1, <1>6
<1>8. /\ users[v].role # "OWNER" => row.role # "OWNER"
      /\ users[v].role = "OWNER" => row = users[v]
      /\ users[v].access # "NONE" => row.access # "NONE"
      /\ ident[configured] = v /\ users[v].access = "APPROVED" => row.access = "APPROVED"
  BY <1>0, <1>1, <1>3, <1>4
<1> HIDE DEF row
<1> QED
  BY <1>1, <1>2, <1>3, <1>5, <1>6, <1>7, <1>8, OneRowEffects

\* Nor does an assigned role, which is never the owner's.
LEMMA RoleEffects ==
  ASSUME IInv, NEW t \in Txns, CommitRole(t)
  PROVE  Effects(t)
<1> DEFINE v   == op[t].target
           row == [users[v] EXCEPT !.role = op[t].value]
<1>0. /\ pc[t] = "commit" /\ op[t].kind = "role" /\ MayManage(op[t].seen, v)
      /\ op[t].value \in {"ENGINEER", "SENIOR_ENGINEER", "MANAGER", "ADMIN"}
      /\ users' = [users EXCEPT ![v].role = op[t].value]
      /\ sessions' = sessions
      /\ ident' = ident /\ asked' = asked /\ configured' = configured
  BY DEF CommitRole, Commit
<1>1. /\ Typed /\ users \in [Users -> Rows] /\ sessions \in [Users -> 0 .. MaxSessions]
      /\ v \in Users /\ users[v] \in Rows
  BY <1>0, CommitFacts DEF Shaped, Management
<1>2. users' = [users EXCEPT ![v] = row]
  BY <1>0
<1>3. row \in Rows /\ row.role = op[t].value /\ row.access = users[v].access
  BY <1>0, <1>1 DEF Rows, Roles
<1>4. users[v].role # "OWNER" /\ ident[configured] # v
  BY <1>0 DEF MayManage
<1>5. asked' \in Seq(AskedRow) /\ DOMAIN asked \subseteq DOMAIN asked'
  BY <1>0, <1>1 DEF Typed, TablesTyped
<1>6. \A w \in Users : sessions'[w] <= sessions[w]
  BY <1>0, <1>1
<1>7. /\ pc[t] = "commit" /\ ident' = ident /\ configured' = configured
      /\ sessions' \in [Users -> 0 .. MaxSessions]
  BY <1>0, <1>1, <1>6
<1>8. /\ users[v].role # "OWNER" => row.role # "OWNER"
      /\ users[v].role = "OWNER" => row = users[v]
      /\ users[v].access # "NONE" => row.access # "NONE"
      /\ ident[configured] = v /\ users[v].access = "APPROVED" => row.access = "APPROVED"
  BY <1>0, <1>1, <1>3, <1>4
<1> HIDE DEF row
<1> QED
  BY <1>1, <1>2, <1>3, <1>5, <1>6, <1>7, <1>8, OneRowEffects

\* Nor does a decision, from either side.
LEMMA DecideEffects ==
  ASSUME IInv, NEW t \in Txns, NEW STATE row, pc[t] = "commit",
         op[t].target \in Users, op[t].value \in Decided,
         Decide(t, row)
  PROVE  Effects(t)
<1> DEFINE v   == op[t].target
           new == [users[v] EXCEPT !.access = op[t].value]
<1>0. /\ MayManage(row, v)
      /\ users' = [users EXCEPT ![v].access = op[t].value]
      /\ Answer(DecidedRequest(t), op[t].value, op[t].value)
      /\ ident' = ident /\ sessions' = sessions /\ configured' = configured
  BY DEF Decide
<1>1. /\ Typed /\ users \in [Users -> Rows] /\ sessions \in [Users -> 0 .. MaxSessions]
      /\ users[v] \in Rows
  BY CommitFacts
<1>2. users' = [users EXCEPT ![v] = new]
  BY <1>0
<1>3. new \in Rows /\ new.role = users[v].role /\ new.access = op[t].value
  BY <1>1 DEF Rows, Statuses, Decided
<1>4. users[v].role # "OWNER" /\ ident[configured] # v
  BY <1>0 DEF MayManage
<1>5. asked' \in Seq(AskedRow) /\ DOMAIN asked \subseteq DOMAIN asked'
  BY <1>0, <1>1, AnswerTyped DEF Decided
<1>6. \A w \in Users : sessions'[w] <= sessions[w]
  BY <1>0, <1>1
<1>7. new.access # "NONE"
  BY <1>3 DEF Decided
<1> HIDE DEF new
<1> QED
  BY <1>0, <1>1, <1>2, <1>3, <1>4, <1>5, <1>6, <1>7, OneRowEffects

\* A reset takes account and sessions together.
LEMMA ResetEffects ==
  ASSUME IInv, NEW t \in Txns, CommitReset(t)
  PROVE  Effects(t)
<1> DEFINE v   == op[t].target
           a   == op[t].account
           row == [role |-> "ENGINEER", access |-> "BLOCKED"]
<1>0. /\ pc[t] = "commit" /\ op[t].kind = "reset" /\ MayManage(op[t].seen, v)
      /\ ident[a] = v
      /\ users' = [users EXCEPT ![v] = row]
      /\ ident' = [ident EXCEPT ![a] = None]
      /\ sessions' = [sessions EXCEPT ![v] = 0]
      /\ Answer(Pending(v), "DELETED", None) /\ configured' = configured
  BY DEF CommitReset, Commit
<1>1. /\ Typed /\ users \in [Users -> Rows] /\ ident \in [Accounts -> Users \cup {None}]
      /\ sessions \in [Users -> 0 .. MaxSessions] /\ configured \in Accounts
      /\ v \in Users /\ a \in Accounts
  BY <1>0, CommitFacts DEF Shaped, Management
<1>2. row \in Rows /\ row.role = "ENGINEER" /\ row.access = "BLOCKED"
  BY RowsOf DEF Statuses
<1>3. users[v].role # "OWNER" /\ ident[configured] # v
  BY <1>0 DEF MayManage
<1> HIDE DEF row
<1>4. /\ users' \in [Users -> Rows] /\ users'[v] = row
      /\ \A w \in Users \ {v} : users'[w] = users[w]
  BY <1>0, <1>1, <1>2
<1>5. /\ ident' \in [Accounts -> Users \cup {None}] /\ ident'[a] = None
      /\ \A b \in Accounts \ {a} : ident'[b] = ident[b]
  BY <1>0, <1>1
<1>6. /\ sessions' \in [Users -> 0 .. MaxSessions] /\ sessions'[v] = 0
      /\ \A w \in Users \ {v} : sessions'[w] = sessions[w]
  BY <1>0, <1>1, IdentityAssumption
<1>7. asked' \in Seq(AskedRow) /\ DOMAIN asked' = DOMAIN asked
  BY <1>0, <1>1, AnswerTyped DEF Decided
<1>8. \A w \in Users \ {v} : Attached(w) => Attached(w)'
  BY <1>0, <1>1, <1>5 DEF Attached
<1>9. OwnersSound'
  BY <1>2, <1>3, <1>4, <1>8 DEF OwnersSound, Owners, IInv
<1>10. DetachedHaveNoSessions'
  BY <1>6, <1>8 DEF DetachedHaveNoSessions, IInv
<1>11. AttachedHaveRows'
  BY <1>1, <1>2, <1>4, <1>5 DEF AttachedHaveRows, IInv
<1>12. IdentChange(t)
  BY <1>0, <1>1, <1>3, <1>5 DEF IdentChange
<1>13. UsersChange
  BY <1>2, <1>3, <1>4 DEF UsersChange
<1>14. SessionsChange(t)
  BY <1>1, <1>6 DEF SessionsChange
<1> QED
  BY <1>0, <1>4, <1>5, <1>6, <1>7, <1>9, <1>10, <1>11, <1>12, <1>13, <1>14
  DEF Effects, TablesChange, SessionsTyped

\* A rotation makes the heir, who still has the account, the only owner.
LEMMA RotationEffects ==
  ASSUME IInv, NEW t \in Txns, CommitRotation(t)
  PROVE  Effects(t)
<1> DEFINE u == op[t].actor
           v == op[t].target
           old == [users[u] EXCEPT !.role = "ADMIN"]
<1>0. /\ pc[t] = "commit" /\ op[t].kind = "rotate"
      /\ Owners = {u} /\ users[u].access = "APPROVED"
      /\ users' = [users EXCEPT ![u].role = "ADMIN", ![v] = OwnerRow]
      /\ sessions' = [sessions EXCEPT ![u] = 0, ![v] = 0]
      /\ Answer(Pending(v), "APPROVED", None)
      /\ ident' = ident /\ configured' = configured
  BY DEF CommitRotation, Commit
<1>1. /\ Typed /\ users \in [Users -> Rows] /\ ident \in [Accounts -> Users \cup {None}]
      /\ sessions \in [Users -> 0 .. MaxSessions] /\ configured \in Accounts
      /\ u \in Users /\ v \in Users /\ op[t].account \in Accounts
  BY <1>0, CommitFacts DEF Shaped
<1>2. old \in Rows /\ old.role = "ADMIN" /\ old.access = "APPROVED"
  BY <1>0, <1>1 DEF Rows, Roles
<1>3. users' = [[users EXCEPT ![u] = old] EXCEPT ![v] = OwnerRow]
  BY <1>0, <1>1
<1> HIDE DEF old
<1>4. /\ users' \in [Users -> Rows] /\ users'[v] = OwnerRow
      /\ u # v => users'[u] = old
      /\ \A w \in Users \ {u, v} : users'[w] = users[w]
  BY <1>1, <1>2, <1>3, RowsOf
<1>5. /\ sessions' \in [Users -> 0 .. MaxSessions]
      /\ \A w \in Users : sessions'[w] <= sessions[w]
  BY <1>0, <1>1, IdentityAssumption
<1>6. asked' \in Seq(AskedRow) /\ DOMAIN asked' = DOMAIN asked
  BY <1>0, <1>1, AnswerTyped DEF Decided
<1>7. ident[op[t].account] = v
  BY <1>0 DEF IInv, HeirsClaimed
<1>8. Attached(v) /\ \A w \in Users : Attached(w)' <=> Attached(w)
  BY <1>0, <1>1, <1>7 DEF Attached
<1>9. \A w \in Users : users'[w].role = "OWNER" => w = v
  <2>1. \A w \in Users : users[w].role = "OWNER" => w = u
    BY <1>0 DEF Owners
  <2> QED
    BY <2>1, <1>2, <1>4
<1>10. OwnersSound'
  BY <1>4, <1>8, <1>9, RowsOf DEF OwnersSound, Owners
<1>11. DetachedHaveNoSessions'
  BY <1>1, <1>5, <1>8 DEF DetachedHaveNoSessions, IInv
<1>12. UsersChange
  BY <1>2, <1>4, RowsOf DEF UsersChange
<1>13. AttachedHaveRows'
  BY <1>0, <1>1, <1>12 DEF AttachedHaveRows, UsersChange, IInv
<1>14. IdentChange(t) /\ SessionsChange(t)
  BY <1>0, <1>1, <1>5 DEF IdentChange, SessionsChange
<1> QED
  BY <1>0, <1>1, <1>4, <1>5, <1>6, <1>10, <1>11, <1>12, <1>13, <1>14
  DEF Effects, TablesChange, SessionsTyped

\* Every commit.
LEMMA CommitEffects ==
  ASSUME IInv, NEW t \in Txns, Commits(t)
  PROVE  Effects(t)
<1>1. CommitDecision(t) => Effects(t)
  <2> SUFFICES ASSUME CommitDecision(t) PROVE Effects(t)
    OBVIOUS
  <2>1. pc[t] = "commit" /\ op[t].kind = "decide" /\ Decide(t, op[t].seen)
    BY DEF CommitDecision, Commit
  <2>2. op[t].target \in Users /\ op[t].value \in Decided
    BY <2>1, CommitFacts DEF Shaped, Management
  <2> QED
    BY <2>1, <2>2, DecideEffects
<1>2. CommitPress(t) => Effects(t)
  <2> SUFFICES ASSUME CommitPress(t) PROVE Effects(t)
    OBVIOUS
  <2>1. pc[t] = "commit" /\ op[t].kind = "press" /\ Decide(t, users[op[t].actor])
    BY DEF CommitPress, Commit
  <2>2. op[t].target \in Users /\ op[t].value \in Decided
    BY <2>1, CommitFacts DEF Shaped, Management
  <2> QED
    BY <2>1, <2>2, DecideEffects
<1> QED
  BY <1>1, <1>2, FirstLoginEffects, LoginEffects, RepairEffects, RequestEffects,
     AccessEffects, RoleEffects, ResetEffects, RotationEffects DEF Commits

-----------------------------------------------------------------------------
(* Every step preserves the invariant                                       *)

\* A transaction stays as it is while another one moves.
LEMMA OthersShaped ==
  ASSUME NEW s \in Txns, Shaped(s), op'[s] = op[s], pc'[s] = pc[s],
         DOMAIN asked \subseteq DOMAIN asked'
  PROVE  Shaped(s)'
BY DEF Shaped

\* An idle transaction carries nothing.
LEMMA IdleShaped ==
  ASSUME NEW s \in Txns, op'[s] = Idle, pc'[s] = "idle"
  PROVE  Shaped(s)' /\ op'[s].kind = "none"
BY DEF Shaped, Idle, Management

\* Types and shapes.
LEMMA NextTyped ==
  ASSUME IInv, [Next]_vars
  PROVE  TablesTyped' /\ SessionsTyped' /\ OpsShaped'
<1>0. /\ Typed /\ TablesTyped /\ SessionsTyped /\ OpsShaped
      /\ pc \in [Txns -> Stages] /\ op \in [Txns -> Operation]
  BY DEF IInv, Typed, TablesTyped
<1>1. ASSUME NEW t \in Txns, Alone(t), op'[t] \in Operation, pc'[t] \in Stages,
             Shaped(t)', DOMAIN asked \subseteq DOMAIN asked'
      PROVE  /\ pc' \in [Txns -> Stages] /\ op' \in [Txns -> Operation]
             /\ DOMAIN held' = Txns /\ OpsShaped'
  <2>1. pc' \in [Txns -> Stages] /\ op' \in [Txns -> Operation] /\ DOMAIN held' = Txns
    BY <1>0, <1>1 DEF Alone
  <2>2. ASSUME NEW s \in Txns \ {t} PROVE Shaped(s)'
    BY <1>0, <1>1, OthersShaped DEF Alone, OpsShaped
  <2> QED
    BY <1>1, <2>1, <2>2 DEF OpsShaped
<1>2. ASSUME NEW t \in Txns, Begins(t) \/ Advances(t)
      PROVE  TablesTyped' /\ SessionsTyped' /\ OpsShaped'
  <2>1. UNCHANGED tables /\ Alone(t) /\ op'[t] \in Operation /\ pc'[t] \in Stages /\ Shaped(t)'
    BY <1>2 DEF Begins, Advances
  <2>2. /\ users' = users /\ ident' = ident /\ sessions' = sessions
        /\ asked' = asked /\ configured' = configured
    BY <2>1 DEF tables
  <2> QED
    BY <1>0, <1>1, <2>1, <2>2 DEF TablesTyped, SessionsTyped
<1>3. ASSUME NEW t \in Txns, Ends(t), Commits(t) \/ UNCHANGED tables
      PROVE  TablesTyped' /\ SessionsTyped' /\ OpsShaped'
  <2>1. TablesChange(t)
    <3>1. CASE Commits(t)
      BY <3>1, CommitEffects DEF Effects
    <3>2. CASE UNCHANGED tables
      BY <1>0, <3>2 DEF tables, TablesChange, TablesTyped, SessionsTyped
    <3> QED
      BY <1>3, <3>1, <3>2
  <2>2. op'[t] \in Operation /\ pc'[t] \in Stages /\ Shaped(t)' /\ Alone(t)
    BY <1>3, IdleTyped, IdleShaped DEF Ends, Stages
  <2>3. /\ pc' \in [Txns -> Stages] /\ op' \in [Txns -> Operation]
        /\ DOMAIN held' = Txns /\ OpsShaped'
    BY <1>1, <2>1, <2>2 DEF TablesChange
  <2> QED
    BY <1>0, <2>1, <2>3 DEF TablesTyped, SessionsTyped, TablesChange
<1>4. ASSUME NEW u \in Users, EndSession(u)
      PROVE  TablesTyped' /\ SessionsTyped' /\ OpsShaped'
  <2>1. /\ users' = users /\ ident' = ident /\ asked' = asked
        /\ configured' = configured /\ pc' = pc /\ op' = op /\ held' = held
        /\ sessions[u] > 0 /\ sessions' = [sessions EXCEPT ![u] = @ - 1]
    BY <1>4 DEF EndSession
  <2>2. SessionsTyped'
    BY <1>0, <2>1, IdentityAssumption DEF SessionsTyped
  <2>3. \A s \in Txns : Shaped(s)'
    BY <1>0, <2>1, OthersShaped DEF OpsShaped
  <2> QED
    BY <1>0, <2>1, <2>2, <2>3 DEF TablesTyped, OpsShaped
<1>5. ASSUME Stops
      PROVE  TablesTyped' /\ SessionsTyped' /\ OpsShaped'
  <2>1. \A s \in Txns : op'[s] = Idle /\ pc'[s] = "idle"
    BY <1>5 DEF Stops
  <2>2. OpsShaped'
    BY <2>1, IdleShaped DEF OpsShaped
  <2>3. TablesTyped'
    BY <1>0, <1>5, IdleTyped DEF Stops, TablesTyped, Stages
  <2> QED
    BY <1>0, <1>5, <2>2, <2>3 DEF Stops, SessionsTyped
<1>6. ASSUME UNCHANGED vars
      PROVE  TablesTyped' /\ SessionsTyped' /\ OpsShaped'
  <2>1. /\ users' = users /\ ident' = ident /\ asked' = asked /\ sessions' = sessions
        /\ configured' = configured /\ pc' = pc /\ op' = op /\ held' = held
    BY <1>6 DEF vars
  <2>3. \A s \in Txns : Shaped(s)'
    BY <1>0, <2>1, OthersShaped DEF OpsShaped
  <2> QED
    BY <1>0, <2>1, <2>3 DEF TablesTyped, OpsShaped, SessionsTyped
<1> QED
  BY <1>0, <1>2, <1>3, <1>4, <1>5, <1>6, NextKinds

\* What somebody holds at the end of a step, they held before, or are just
\* granted.
LEMMA NextLocks ==
  ASSUME IInv, [Next]_vars
  PROVE  LocksExclusive'
<1>0. Typed /\ LocksExclusive
  BY DEF IInv, Typed
<1>1. ASSUME NEW t \in Txns, Begins(t) PROVE LocksExclusive'
  BY <1>0, <1>1 DEF Begins, LocksExclusive, Conflict
<1>2. ASSUME NEW t \in Txns, Advances(t) PROVE LocksExclusive'
  <2>1. /\ held'[t] = held[t] \cup Wants(t)
        /\ \A s \in Txns \ {t} : held'[s] = held[s]
    BY <1>2 DEF Advances, Alone
  <2>2. \A s \in Txns \ {t} : \A l \in Wants(t), m \in held[s] : ~Conflict(l, m)
    BY <1>2 DEF Advances, WaitsFor
  <2>3. \A l, m : Conflict(l, m) => Conflict(m, l)
    BY DEF Conflict
  <2> HIDE DEF Conflict
  <2>4. ASSUME NEW s \in Txns, NEW r \in Txns, s # r, NEW l \in held'[s], NEW m \in held'[r]
        PROVE  ~Conflict(l, m)
    <3>1. CASE s = t
      BY <3>1, <1>0, <2>1, <2>2, <2>4 DEF LocksExclusive
    <3>2. CASE r = t
      BY <3>2, <1>0, <2>1, <2>2, <2>3, <2>4 DEF LocksExclusive
    <3>3. CASE s # t /\ r # t
      BY <3>3, <1>0, <2>1, <2>4 DEF LocksExclusive
    <3> QED
      BY <3>1, <3>2, <3>3
  <2> QED
    BY <2>4 DEF LocksExclusive, Conflict
<1>3. ASSUME NEW t \in Txns, Ends(t) PROVE LocksExclusive'
  BY <1>0, <1>3 DEF Ends, Alone, LocksExclusive, Conflict
<1>4. ASSUME Stops PROVE LocksExclusive'
  BY <1>4 DEF Stops, LocksExclusive
<1>5. ASSUME held' = held PROVE LocksExclusive'
  BY <1>0, <1>5 DEF LocksExclusive, Conflict
<1> QED
  BY <1>0, <1>1, <1>2, <1>3, <1>4, <1>5, NextKinds DEF EndSession, vars

\* What t holds for its operation, which others cannot change.
Keeps(t) ==
  /\ op[t].kind \in {"login", "reset"} /\ pc[t] # "account" =>
       Lock(<<"account", op[t].account>>, "X") \in held[t]
  /\ op[t].kind = "reset" /\ pc[t] \in {"rows", "commit"} =>
       Lock(<<"barrier">>, "S") \in held[t]
  /\ op[t].kind = "rotate" /\ pc[t] # "barrier" =>
       Lock(<<"barrier">>, "X") \in held[t]
  /\ op[t].kind = "login" /\ pc[t] = "commit" /\ op[t].target # None =>
       Lock(<<"user", op[t].target>>, "X") \in held[t]

\* A transaction that goes on gets the lock of its stage.
LEMMA AdvanceKeeps ==
  ASSUME Typed, NEW t \in Txns, Keeps(t), Advances(t)
  PROVE  Keeps(t)'
<1>0. Shaped(t) /\ op[t] \in Operation /\ pc[t] \in Stages
  BY DEF Typed, TablesTyped, OpsShaped
<1>1. /\ held'[t] = held[t] \cup Wants(t)
      /\ op'[t].kind = op[t].kind /\ op'[t].account = op[t].account
  BY DEF Advances
<1>2. op[t].kind \in {"login", "reset"} =>
        Lock(<<"account", op[t].account>>, "X") \in held'[t]
  <2>1. CASE pc[t] = "account"
    BY <1>1, <2>1 DEF Wants, AccountLock
  <2> QED
    BY <1>1, <2>1 DEF Keeps
<1>3. op[t].kind = "reset" /\ pc'[t] \in {"rows", "commit"} =>
        Lock(<<"barrier">>, "S") \in held'[t]
  <2>1. CASE pc[t] = "barrier" /\ op[t].kind = "reset"
    BY <1>1, <2>1 DEF Wants, BarrierLock
  <2>2. CASE pc[t] = "rows"
    BY <1>1, <2>2 DEF Keeps
  <2> QED
    BY <2>1, <2>2 DEF Advances
<1>4. op[t].kind = "rotate" => Lock(<<"barrier">>, "X") \in held'[t]
  <2>1. CASE pc[t] = "barrier" /\ op[t].kind = "rotate"
    BY <1>1, <2>1 DEF Wants, BarrierLock
  <2> QED
    BY <1>1, <2>1 DEF Keeps
<1>5. op[t].kind = "login" /\ pc'[t] = "commit" /\ op'[t].target # None =>
        Lock(<<"user", op'[t].target>>, "X") \in held'[t]
  BY <1>1 DEF Advances
<1> QED
  BY <1>1, <1>2, <1>3, <1>4, <1>5 DEF Keeps

\* Locks are kept until the end.
LEMMA NextKept ==
  ASSUME IInv, [Next]_vars
  PROVE  LocksKept'
<1>0. Typed /\ \A t \in Txns : Keeps(t)
  BY DEF IInv, Typed, LocksKept, Keeps
<1>1. ASSUME NEW s \in Txns, pc'[s] = pc[s], op'[s] = op[s], held'[s] = held[s]
      PROVE  Keeps(s)'
  BY <1>0, <1>1 DEF Keeps
<1>2. ASSUME NEW s \in Txns, pc'[s] = "idle", op'[s] = Idle PROVE Keeps(s)'
  BY <1>2, IdleShaped DEF Keeps
<1>3. ASSUME NEW t \in Txns, Begins(t) PROVE \A s \in Txns : Keeps(s)'
  <2>1. Keeps(t)'
    BY <1>3 DEF Begins, Keeps
  <2> QED
    BY <1>1, <1>3, <2>1 DEF Begins, Alone
<1>4. ASSUME NEW t \in Txns, Advances(t) PROVE \A s \in Txns : Keeps(s)'
  BY <1>0, <1>1, <1>4, AdvanceKeeps DEF Advances, Alone
<1>5. ASSUME NEW t \in Txns, Ends(t) PROVE \A s \in Txns : Keeps(s)'
  BY <1>1, <1>2, <1>5 DEF Ends, Alone
<1>6. ASSUME Stops PROVE \A s \in Txns : Keeps(s)'
  BY <1>2, <1>6 DEF Stops
<1>7. ASSUME UNCHANGED <<pc, op, held>> PROVE \A s \in Txns : Keeps(s)'
  BY <1>1, <1>7
<1>8. \A s \in Txns : Keeps(s)'
  BY <1>0, <1>3, <1>4, <1>5, <1>6, <1>7, NextKinds DEF EndSession, vars
<1> QED
  BY <1>8 DEF LocksKept, Keeps

\* Two holders of an exclusive lock are one.
LEMMA Exclusion ==
  ASSUME IInv, NEW s \in Txns, NEW t \in Txns, NEW STATE on, NEW STATE mode,
         Lock(on, "X") \in held[s], Lock(on, mode) \in held[t]
  PROVE  s = t
BY DEF IInv, LocksExclusive, Conflict, Lock

\* What s knows of the tables.
Knows(s) ==
  /\ op[s].kind = "login" /\ pc[s] # "account" => ident[op[s].account] = op[s].target
  /\ op[s].kind = "rotate" /\ pc[s] # "barrier" => ident[op[s].account] = op[s].target
  /\ op[s].kind = "repair" => op[s].target = ident[configured]
  /\ op[s].kind = "login" =>
       /\ pc[s] = "barrier" => op[s].account = configured
       /\ Lock(<<"barrier">>, "X") \in held[s] => op[s].account = configured
  /\ Restores(s) /\ op[s].seen.access = "APPROVED" =>
       users[op[s].target].access = "APPROVED"
  /\ op[s].kind = "login" /\ pc[s] = "commit" /\ op[s].target # None =>
       sessions[op[s].target] <= op[s].count

LEMMA KnowsAll ==
  (\A s \in Txns : Knows(s)) <=>
    AccountsClaimed /\ HeirsClaimed /\ RecoveryClaimed /\ SessionsCounted
BY DEF Knows, AccountsClaimed, HeirsClaimed, RecoveryClaimed, SessionsCounted

\* What s knows survives the commit of another transaction.
LEMMA KnownToOthers ==
  ASSUME IInv, NEW t \in Txns, NEW s \in Txns, s # t, Ends(t), pc[t] = "commit", Effects(t)
  PROVE  Knows(s)'
<1>0. /\ op'[s] = op[s] /\ pc'[s] = pc[s] /\ held'[s] = held[s] /\ configured' = configured
      /\ Knows(s) /\ Shaped(s) /\ op[s] \in Operation /\ configured \in Accounts
      /\ ident \in [Accounts -> Users \cup {None}]
  BY KnowsAll DEF IInv, Ends, Alone, Effects, TablesChange, TablesTyped, OpsShaped
<1>1. op[s].kind = "login" /\ pc[s] # "account" =>
        ident'[op[s].account] = ident[op[s].account]
  <2> SUFFICES ASSUME op[s].kind = "login", pc[s] # "account",
                      ident'[op[s].account] # ident[op[s].account]
               PROVE  FALSE
    OBVIOUS
  <2>1. op[s].account \in Accounts
    BY <1>0 DEF Shaped
  <2>2. op[t].account = op[s].account /\ op[t].kind \in {"login", "reset"}
    BY <2>1 DEF Effects, IdentChange
  <2>3. Lock(<<"account", op[s].account>>, "X") \in held[s]
    BY DEF IInv, LocksKept
  <2>4. Lock(<<"account", op[s].account>>, "X") \in held[t]
    BY <2>2 DEF IInv, LocksKept
  <2> QED
    BY <2>3, <2>4, Exclusion
<1>2. op[s].kind = "rotate" /\ pc[s] # "barrier" =>
        ident'[op[s].account] = ident[op[s].account]
  <2> SUFFICES ASSUME op[s].kind = "rotate", pc[s] # "barrier",
                      ident'[op[s].account] # ident[op[s].account]
               PROVE  FALSE
    OBVIOUS
  <2>1. op[s].account \in Accounts /\ op[s].target \in Users
    BY <1>0 DEF Shaped
  <2>2. ident[op[s].account] # None
    BY <1>0, <2>1, NoneApart DEF Knows
  <2>3. op[t].kind = "reset"
    BY <2>1, <2>2 DEF Effects, IdentChange
  <2>4. Lock(<<"barrier">>, "X") \in held[s]
    BY DEF IInv, LocksKept
  <2>5. Lock(<<"barrier">>, "S") \in held[t]
    BY <2>3 DEF IInv, LocksKept
  <2> QED
    BY <2>4, <2>5, Exclusion
<1>3. ident[configured] # None => ident'[configured] = ident[configured]
  BY <1>0 DEF Effects, IdentChange
<1>4. Restores(s) /\ ~(op[s].kind = "login" /\ pc[s] = "account") =>
        op[s].target = ident[configured] /\ op[s].target \in Users
  BY <1>0 DEF Knows, Restores, Shaped
<1>5. op[s].kind = "login" /\ pc[s] = "account" => ~Restores(s)
  BY <1>0 DEF Restores, Shaped
<1>6. Restores(s)' <=> Restores(s)
  BY <1>0 DEF Restores
<1>7. op[s].kind = "repair" => op[s].target = ident'[configured]
  BY <1>0, <1>3, NoneApart DEF Knows, Shaped
<1>8. Restores(s) /\ op[s].seen.access = "APPROVED" =>
        users'[op[s].target].access = "APPROVED"
  BY <1>0, <1>4, <1>5 DEF Knows, Effects, UsersChange
<1>9. op[s].kind = "login" /\ pc[s] = "commit" /\ op[s].target # None =>
        sessions'[op[s].target] <= op[s].count
  <2> SUFFICES ASSUME op[s].kind = "login", pc[s] = "commit", op[s].target # None
               PROVE  sessions'[op[s].target] <= op[s].count
    OBVIOUS
  <2> DEFINE u == op[s].target
  <2>1. u \in Users /\ op[s].account \in Accounts /\ ident[op[s].account] = u
    BY <1>0 DEF Shaped, Knows
  <2>2. users[u].access # "NONE"
    BY <2>1, NoneApart DEF IInv, AttachedHaveRows
  <2>3. ~(op[t].kind = "login" /\ op[t].target = u)
    <3> SUFFICES ASSUME op[t].kind = "login", op[t].target = u PROVE FALSE
      OBVIOUS
    <3>1. Lock(<<"user", u>>, "X") \in held[s] /\ Lock(<<"user", u>>, "X") \in held[t]
      BY DEF IInv, LocksKept
    <3> QED
      BY <3>1, Exclusion
  <2>4. ~(sessions'[u] > sessions[u])
    BY <2>1, <2>2, <2>3 DEF Effects, SessionsChange
  <2>5. sessions[u] \in Nat /\ sessions'[u] \in Nat /\ op[s].count \in Nat
    <3>1. MaxSessions \in Nat
      BY IdentityAssumption
    <3>2. sessions \in [Users -> 0 .. MaxSessions] /\ sessions' \in [Users -> 0 .. MaxSessions]
      BY DEF IInv, SessionsTyped, Effects, TablesChange
    <3>3. op[s].count \in 0 .. MaxSessions
      BY <1>0 DEF Operation
    <3> QED
      BY <2>1, <3>1, <3>2, <3>3
  <2>6. sessions[u] <= op[s].count
    BY <1>0 DEF Knows
  <2> QED
    BY <2>4, <2>5, <2>6
<1> QED
  BY <1>0, <1>1, <1>2, <1>6, <1>7, <1>8, <1>9 DEF Knows

\* A transaction that goes on knows what it has just read.
LEMMA AdvanceKnows ==
  ASSUME IInv, NEW t \in Txns, Advances(t)
  PROVE  Knows(t)'
<1>0. /\ Knows(t) /\ Shaped(t) /\ op[t] \in Operation /\ configured \in Accounts
      /\ pc[t] \in Stages /\ ident \in [Accounts -> Users \cup {None}]
      /\ sessions \in [Users -> 0 .. MaxSessions]
  BY KnowsAll DEF IInv, TablesTyped, SessionsTyped, OpsShaped
<1>1. /\ users' = users /\ ident' = ident /\ sessions' = sessions
      /\ configured' = configured
      /\ op'[t].kind = op[t].kind /\ op'[t].account = op[t].account
      /\ held'[t] = held[t] \cup Wants(t)
  BY DEF Advances, tables
<1>2. CASE op[t].kind = "login"
  <2>1. pc'[t] = "barrier" => op[t].account = configured
    BY <1>2 DEF Advances
  <2>2. ident[op[t].account] = op'[t].target
    BY <1>0, <1>2 DEF Advances, Knows
  <2>3. Lock(<<"barrier">>, "X") \in held'[t] => op[t].account = configured
    <3>1. CASE pc[t] = "barrier"
      BY <1>0, <1>2, <3>1 DEF Knows
    <3>2. CASE pc[t] = "account"
      <4>1. Wants(t) = {Lock(<<"account", op[t].account>>, "X")}
        BY <3>2 DEF Wants, AccountLock
      <4>2. Lock(<<"barrier">>, "X") # Lock(<<"account", op[t].account>>, "X")
        BY DEF Lock
      <4> QED
        BY <1>0, <1>1, <1>2, <4>1, <4>2 DEF Knows
    <3>3. CASE pc[t] = "rows"
      <4>1. ASSUME NEW u PROVE \A m : Lock(<<"barrier">>, "X") # Lock(<<"user", u>>, m)
        BY DEF Lock
      <4>2. Lock(<<"barrier">>, "X") \notin Wants(t)
        BY <3>3, <4>1 DEF Wants, RowLock
      <4> QED
        BY <1>0, <1>1, <1>2, <4>2 DEF Knows
    <3>4. CASE pc[t] = "commit"
      <4>1. Wants(t) = {}
        BY <3>4, <1>2 DEF Wants, DeleteLocks
      <4> QED
        BY <1>0, <1>1, <1>2, <4>1 DEF Knows
    <3> QED
      BY <1>0, <1>2, <3>1, <3>2, <3>3, <3>4 DEF Shaped
  <2>4. Restores(t)' /\ op'[t].seen.access = "APPROVED" =>
          users[op'[t].target].access = "APPROVED"
    <3> SUFFICES ASSUME Restores(t)', op'[t].seen.access = "APPROVED"
                 PROVE  users[op'[t].target].access = "APPROVED"
      OBVIOUS
    <3>1. op'[t].target # None /\ op[t].account = configured
      BY <1>1, <1>2 DEF Restores
    <3>2. CASE pc[t] = "account"
      BY <1>2, <3>1, <3>2 DEF Advances
    <3>3. CASE pc[t] # "account"
      <4>1. op'[t].target = op[t].target /\ op'[t].seen = op[t].seen
        BY <1>2, <3>3 DEF Advances
      <4> QED
        BY <1>0, <1>2, <3>1, <4>1 DEF Knows, Restores
    <3> QED
      BY <3>2, <3>3
  <2>5. pc'[t] = "commit" /\ op'[t].target # None => sessions[op'[t].target] <= op'[t].count
    <3> SUFFICES ASSUME pc'[t] = "commit", op'[t].target # None
                 PROVE  sessions[op'[t].target] <= op'[t].count
      OBVIOUS
    <3>1. pc[t] = "rows" /\ op'[t].count = sessions[op[t].target]
      BY <1>2 DEF Advances
    <3>2. op'[t].target = op[t].target
      BY <1>2, <3>1 DEF Advances
    <3>3. op[t].target \in Users
      BY <1>0, <1>2, <3>1 DEF Shaped
    <3>4. sessions[op[t].target] \in Int
      <4>1. MaxSessions \in Nat
        BY IdentityAssumption
      <4> QED
        BY <1>0, <3>3, <4>1
    <3> QED
      BY <3>1, <3>2, <3>4
  <2> QED
    BY <1>1, <1>2, <2>1, <2>2, <2>3, <2>4, <2>5 DEF Knows
<1>3. CASE op[t].kind = "rotate"
  BY <1>0, <1>1, <1>3 DEF Knows, Advances, Restores
<1>4. CASE op[t].kind = "repair"
  BY <1>0, <1>1, <1>4 DEF Knows, Advances, Restores
<1>5. CASE op[t].kind \notin {"login", "rotate", "repair"}
  BY <1>1, <1>5 DEF Knows, Restores
<1> QED
  BY <1>2, <1>3, <1>4, <1>5

\* What is known under locks stays true.
LEMMA NextKnown ==
  ASSUME IInv, [Next]_vars
  PROVE  AccountsClaimed' /\ HeirsClaimed' /\ RecoveryClaimed' /\ SessionsCounted'
<1>0. Typed /\ \A s \in Txns : Knows(s)
  BY KnowsAll DEF IInv, Typed
<1>1. ASSUME NEW s \in Txns, pc'[s] = pc[s], op'[s] = op[s], held'[s] = held[s], UNCHANGED tables
      PROVE  Knows(s)'
  <2>1. Knows(s)
    BY <1>0
  <2>2. users' = users /\ ident' = ident /\ sessions' = sessions /\ configured' = configured
    BY <1>1 DEF tables
  <2> QED
    BY <1>1, <2>1, <2>2 DEF Knows, Restores
<1>2. ASSUME NEW s \in Txns, pc'[s] = "idle", op'[s] = Idle PROVE Knows(s)'
  BY <1>2, IdleShaped DEF Knows, Restores
<1>3. ASSUME NEW t \in Txns, Begins(t) PROVE \A s \in Txns : Knows(s)'
  <2>1. users' = users /\ ident' = ident /\ configured' = configured /\ held' = held
    BY <1>3 DEF Begins, tables
  <2>2. /\ op'[t].kind = "login" => pc'[t] = "account" /\ op'[t].target = None
        /\ op'[t].kind = "rotate" => pc'[t] = "barrier"
    BY <1>3 DEF Begins, Shaped
  <2>3. op'[t].kind = "repair" =>
          op'[t].target = ident[configured] /\ op'[t].seen = users[op'[t].target]
    BY <1>3 DEF Begins
  <2>4. Lock(<<"barrier">>, "X") \notin held[t]
    BY <1>3 DEF Begins, IInv, IdleHoldNothing
  <2>5. Knows(t)'
    BY <2>1, <2>2, <2>3, <2>4 DEF Knows, Restores
  <2> QED
    BY <1>1, <1>3, <2>5 DEF Begins, Alone
<1>4. ASSUME NEW t \in Txns, Advances(t) PROVE \A s \in Txns : Knows(s)'
  BY <1>1, <1>4, AdvanceKnows DEF Advances, Alone
<1>5. ASSUME NEW t \in Txns, Ends(t), Commits(t) PROVE \A s \in Txns : Knows(s)'
  <2>1. Effects(t) /\ pc[t] = "commit"
    BY <1>0, <1>5, CommitEffects, CommitsEnd
  <2>2. Knows(t)'
    BY <1>2, <1>5 DEF Ends
  <2> QED
    BY <1>5, <2>1, <2>2, KnownToOthers
<1>6. ASSUME NEW t \in Txns, Ends(t), UNCHANGED tables PROVE \A s \in Txns : Knows(s)'
  BY <1>1, <1>2, <1>6 DEF Ends, Alone
<1>7. ASSUME Stops PROVE \A s \in Txns : Knows(s)'
  BY <1>2, <1>7 DEF Stops
<1>8. ASSUME NEW u \in Users, EndSession(u) PROVE \A s \in Txns : Knows(s)'
  <2>1. /\ users' = users /\ ident' = ident /\ configured' = configured
        /\ pc' = pc /\ op' = op /\ held' = held
        /\ sessions[u] > 0 /\ sessions' = [sessions EXCEPT ![u] = @ - 1]
    BY <1>8 DEF EndSession
  <2>2. MaxSessions \in Nat /\ sessions \in [Users -> 0 .. MaxSessions]
    BY IdentityAssumption DEF IInv, SessionsTyped
  <2>3. \A v \in Users : sessions[v] \in Nat /\ sessions'[v] \in Int /\ sessions'[v] <= sessions[v]
    BY <2>1, <2>2
  <2>4. ASSUME NEW s \in Txns PROVE Knows(s)'
    <3>1. /\ Knows(s) /\ op[s].count \in Int
          /\ op[s].kind = "login" /\ op[s].target # None => op[s].target \in Users
      BY <1>0, <2>2 DEF Typed, TablesTyped, Operation, OpsShaped, Shaped
    <3>2. op[s].kind = "login" /\ pc[s] = "commit" /\ op[s].target # None =>
            sessions'[op[s].target] <= op[s].count
      BY <2>3, <3>1 DEF Knows
    <3> QED
      BY <2>1, <3>1, <3>2 DEF Knows, Restores
  <2> QED
    BY <2>4
<1>9. ASSUME UNCHANGED vars PROVE \A s \in Txns : Knows(s)'
  BY <1>1, <1>9 DEF vars, tables
<1>10. \A s \in Txns : Knows(s)'
  BY <1>0, <1>3, <1>4, <1>5, <1>6, <1>7, <1>8, <1>9, NextKinds
<1> QED
  BY <1>10 DEF Knows, AccountsClaimed, HeirsClaimed, RecoveryClaimed, SessionsCounted, Restores

\* Users, accounts, owners and sessions fit together.
LEMMA NextSound ==
  ASSUME IInv, [Next]_vars
  PROVE  AttachedHaveRows' /\ OwnersSound' /\ DetachedHaveNoSessions'
<1>0. Typed
  BY DEF IInv, Typed
<1>1. ASSUME UNCHANGED <<users, ident, sessions>>
      PROVE  AttachedHaveRows' /\ OwnersSound' /\ DetachedHaveNoSessions'
  BY <1>1 DEF IInv, AttachedHaveRows, OwnersSound, DetachedHaveNoSessions, Owners, Attached
<1>2. ASSUME NEW t \in Txns, Commits(t)
      PROVE  AttachedHaveRows' /\ OwnersSound' /\ DetachedHaveNoSessions'
  BY <1>2, CommitEffects DEF Effects
<1>3. ASSUME NEW u \in Users, EndSession(u)
      PROVE  AttachedHaveRows' /\ OwnersSound' /\ DetachedHaveNoSessions'
  <2>1. /\ users' = users /\ ident' = ident
        /\ sessions[u] > 0 /\ sessions' = [sessions EXCEPT ![u] = @ - 1]
    BY <1>3 DEF EndSession
  <2>2. MaxSessions \in Nat /\ sessions \in [Users -> 0 .. MaxSessions]
    BY IdentityAssumption DEF IInv, SessionsTyped
  <2>3. \A v \in Users : sessions'[v] > 0 => sessions[v] > 0
    BY <2>1, <2>2
  <2>4. \A v \in Users : Attached(v)' <=> Attached(v)
    BY <2>1 DEF Attached
  <2>5. DetachedHaveNoSessions'
    BY <2>3, <2>4 DEF IInv, DetachedHaveNoSessions
  <2>6. AttachedHaveRows' /\ OwnersSound'
    BY <2>1, <2>4 DEF IInv, AttachedHaveRows, OwnersSound, Owners
  <2> QED
    BY <2>5, <2>6
<1> QED
  BY <1>0, <1>1, <1>2, <1>3, NextKinds DEF Begins, Advances, Stops, vars, tables

\* Locks are released at the end.
LEMMA NextIdle ==
  ASSUME IInv, [Next]_vars
  PROVE  IdleHoldNothing'
<1>0. Typed /\ IdleHoldNothing
  BY DEF IInv, Typed
<1>1. ASSUME NEW t \in Txns, Begins(t) PROVE IdleHoldNothing'
  BY <1>0, <1>1 DEF Begins, Alone, IdleHoldNothing
<1>2. ASSUME NEW t \in Txns, Advances(t) PROVE IdleHoldNothing'
  <2>1. op[t].kind \in Kinds \ {"none"}
    BY <1>0, <1>2 DEF Typed, TablesTyped, Operation, OpsShaped, Shaped, Advances
  <2>2. pc'[t] # "idle"
    BY <1>2, <2>1 DEF Advances, Shaped, Kinds, Management
  <2> QED
    BY <1>0, <1>2, <2>2 DEF Advances, Alone, IdleHoldNothing
<1>3. ASSUME NEW t \in Txns, Ends(t) PROVE IdleHoldNothing'
  BY <1>0, <1>3 DEF Ends, Alone, IdleHoldNothing
<1>4. ASSUME Stops PROVE IdleHoldNothing'
  BY <1>4 DEF Stops, IdleHoldNothing
<1>5. ASSUME UNCHANGED <<pc, held>> PROVE IdleHoldNothing'
  BY <1>0, <1>5 DEF IdleHoldNothing
<1> QED
  BY <1>0, <1>1, <1>2, <1>3, <1>4, <1>5, NextKinds DEF EndSession, vars

\* The invariant holds at the start.
LEMMA InitIInv == Init => IInv
<1> SUFFICES ASSUME Init PROVE IInv
  OBVIOUS
<1>1. PICK i \in Initials : users = i.users /\ ident = i.ident
  BY DEF Init
<1>2. i \in [ident : [Accounts -> Users \cup {None}], users : [Users -> Rows]]
  BY IdentityAssumption
<1>3. users \in [Users -> Rows] /\ ident \in [Accounts -> Users \cup {None}]
  BY <1>1, <1>2
<1>4. /\ \A a \in Accounts : ident[a] # None => users[ident[a]].access # "NONE"
      /\ \A u \in Users : users[u].role = "OWNER" =>
           /\ users[u].access = "APPROVED" /\ \E a \in Accounts : ident[a] = u
           /\ \A v \in Users : users[v].role = "OWNER" => u = v
  BY <1>1, IdentityAssumption
<1>5. \A t \in Txns : op[t] = Idle /\ pc[t] = "idle" /\ held[t] = {} /\ op[t].kind = "none"
  BY DEF Init, Idle
<1>6. TablesTyped
  <2>1. asked \in Seq(AskedRow)
    BY DEF Init
  <2>2. /\ configured \in Accounts /\ pc \in [Txns -> Stages]
        /\ op \in [Txns -> Operation] /\ DOMAIN held = Txns
    BY IdleTyped, IdentityAssumption DEF Init, Stages
  <2> QED
    BY <1>3, <2>1, <2>2 DEF TablesTyped
<1>7. SessionsTyped
  <2>1. MaxSessions \in Nat \ {0}
    BY IdentityAssumption
  <2>2. 0 \in 0 .. MaxSessions /\ 1 \in 0 .. MaxSessions
    BY <2>1
  <2> QED
    BY <2>2 DEF Init, SessionsTyped
<1>8. OpsShaped
  BY <1>5 DEF OpsShaped, Shaped, Management
<1>9. LocksExclusive /\ IdleHoldNothing /\ LocksKept
  BY <1>5 DEF LocksExclusive, IdleHoldNothing, LocksKept
<1>10. AccountsClaimed /\ HeirsClaimed /\ RecoveryClaimed /\ SessionsCounted
  BY <1>5 DEF AccountsClaimed, HeirsClaimed, RecoveryClaimed, SessionsCounted, Restores
<1>11. AttachedHaveRows /\ OwnersSound
  BY <1>4 DEF AttachedHaveRows, OwnersSound, Owners, Attached
<1>12. DetachedHaveNoSessions
  <2>1. ASSUME NEW u \in Users, sessions[u] > 0 PROVE u \in Range(ident)
    BY <2>1 DEF Init
  <2>2. \A u \in Range(ident) : Attached(u)
    BY <1>3 DEF Range, Attached
  <2> QED
    BY <2>1, <2>2 DEF DetachedHaveNoSessions
<1> QED
  BY <1>6, <1>7, <1>8, <1>9, <1>10, <1>11, <1>12 DEF IInv

\* Every step preserves it.
LEMMA NextIInv == IInv /\ [Next]_vars => IInv'
BY NextTyped, NextLocks, NextIdle, NextKept, NextKnown, NextSound DEF IInv

-----------------------------------------------------------------------------
(* Theorems                                                                 *)

\* The inductive invariant: what a transaction knows of an account, of the
\* heir, of the recovery user and of the number of sessions is kept true by
\* the locks it holds, until it commits.
THEOREM Invariant == Spec => []IInv
BY InitIInv, NextIInv, PTL DEF Spec

\* Every variable keeps its type; in particular no user ever has more live
\* sessions than MAX_ACTIVE_SESSIONS_PER_USER.
THEOREM TypeCorrect == Spec => []TypeOK
<1>1. IInv => TypeOK
  <2>1. AskedRow = [user : Users, told : {None, "APPROVED", "REJECTED"},
                    status : {"PENDING", "APPROVED", "REJECTED", "DELETED"}]
    <3>1. {None} \cup Decided = {None, "APPROVED", "REJECTED"}
      BY DEF Decided
    <3> QED
      BY <3>1, Zenon DEF AskedRow
  <2> QED
    BY <2>1 DEF IInv, TablesTyped, SessionsTyped, TypeOK, Stages
<1> QED
  BY <1>1, Invariant, PTL

\* However a login and a reset of the account interleave, no session is left
\* behind for a user without an account.
THEOREM ResetsEndSessions == Spec => []DetachedHaveNoSessions
<1>1. IInv => DetachedHaveNoSessions
  BY DEF IInv
<1> QED
  BY <1>1, Invariant, PTL

\* Under the advisory lock of its account a first login finds the account
\* free until it commits: the unique constraint never refuses it.
THEOREM FirstLoginsSucceed == Spec => []FirstLoginOnce
<1>1. IInv => FirstLoginOnce
  BY DEF IInv, AccountsClaimed, FirstLoginOnce
<1> QED
  BY <1>1, Invariant, PTL

\* Logins, resets, repairs, management and rotations in any order leave at
\* most one owner, who is approved and has an account.
THEOREM OneOwner == Spec => []OwnerCanSignIn
<1>1. IInv => OwnerCanSignIn
  <2> SUFFICES ASSUME IInv PROVE OwnerCanSignIn
    OBVIOUS
  <2>1. \A u \in Owners : /\ users[u].access = "APPROVED" /\ Attached(u)
                          /\ \A v \in Owners : u = v
    BY DEF IInv, OwnersSound
  <2>2. Owners = {} \/ \E u : Owners = {u}
    BY <2>1
  <2>3. Cardinality(Owners) <= 1
    <3>1. CASE Owners = {}
      BY <3>1, FS_EmptySet
    <3>2. ASSUME NEW u, Owners = {u} PROVE Cardinality(Owners) <= 1
      <4>1. Cardinality({u}) = 1
        BY FS_Singleton
      <4> QED
        BY <3>2, <4>1
    <3> QED
      BY <2>2, <3>1, <3>2
  <2> QED
    BY <2>1, <2>3 DEF OwnerCanSignIn
<1> QED
  BY <1>1, Invariant, PTL

-----------------------------------------------------------------------------
(* What is decided stays decided                                            *)

\* Access columns after a step, as ApprovalsStand wants them.
Allowed(u) ==
  /\ users'[u].access = "REJECTED" => users[u].access \in {"PENDING", "REJECTED"}
  /\ users'[u].access = "PENDING" => users[u].access \in {"NONE", "PENDING", "REJECTED"}

\* A row that keeps its access, or becomes approved or blocked, is allowed.
LEMMA AllowedChange ==
  ASSUME NEW u \in Users,
         users'[u].access = users[u].access \/ users'[u].access \in {"APPROVED", "BLOCKED"}
  PROVE  Allowed(u)
BY DEF Allowed

LEMMA RestoreAllowed ==
  ASSUME IInv, NEW t \in Txns, pc[t] = "commit", op[t].target \in Users,
         op[t].seen \in Rows, RestoreOwner(t)
  PROVE  \A u \in Users : Allowed(u)
<1> DEFINE v   == op[t].target
           new == Written(users[v], op[t].seen, OwnerRow)
<1>1. users \in [Users -> Rows] /\ users[v] \in Rows
  BY CommitFacts
<1>2. new.access \in {"APPROVED", users[v].access}
  BY <1>1, WrittenColumns, RowsOf
<1>3. users' = [users EXCEPT ![v] = new]
  BY DEF RestoreOwner
<1> HIDE DEF new
<1>4. \A u \in Users : users'[u].access \in {"APPROVED", users[u].access}
  BY <1>1, <1>2, <1>3
<1> QED
  BY <1>4, AllowedChange

\* No commit takes an approval back but a block, a reset or a rotation.
LEMMA CommitAllowed ==
  ASSUME IInv, NEW t \in Txns, Commits(t)
  PROVE  \A u \in Users : Allowed(u)
<1> DEFINE v == op[t].target
<1>0. pc[t] = "commit" /\ Typed
  BY CommitsEnd DEF IInv, Typed
<1>a. Shaped(t) /\ users \in [Users -> Rows] /\ \A u \in Users : users[u] \in Rows
  BY <1>0, CommitFacts
<1>1. CASE CommitFirstLogin(t)
  <2> DEFINE row == IF op[t].account = configured THEN OwnerRow
                    ELSE [role |-> "ENGINEER", access |-> "PENDING"]
  <2>1. PICK u \in Users : users[u] = NoRow /\ users' = [users EXCEPT ![u] = row]
    BY <1>1 DEF CommitFirstLogin
  <2>2. users[u].access = "NONE" /\ row.access # "REJECTED"
    BY <2>1, RowsOf
  <2> HIDE DEF row
  <2>3. users'[u] = row /\ \A w \in Users \ {u} : users'[w] = users[w]
    BY <1>a, <2>1
  <2>4. Allowed(u)
    BY <2>2, <2>3 DEF Allowed
  <2> QED
    BY <2>3, <2>4, AllowedChange
<1>2. CASE CommitLogin(t)
  <2>1. op[t].kind = "login" /\ v # None
    BY <1>2 DEF CommitLogin, Commit
  <2>2. v \in Users /\ op[t].seen \in Rows
    BY <1>a, <2>1 DEF Shaped
  <2>3. RestoreOwner(t) \/ users' = users
    BY <1>2 DEF CommitLogin
  <2> QED
    BY <1>0, <2>2, <2>3, RestoreAllowed, AllowedChange
<1>3. CASE CommitRepair(t)
  <2>1. op[t].kind = "repair" /\ RestoreOwner(t)
    BY <1>3 DEF CommitRepair, Commit
  <2>2. v \in Users /\ op[t].seen \in Rows
    BY <1>a, <2>1 DEF Shaped
  <2> QED
    BY <1>0, <2>1, <2>2, RestoreAllowed
<1>4. CASE CommitRequest(t)
  <2> DEFINE new == [op[t].seen EXCEPT !.access = "PENDING"]
             row == Written(users[v], op[t].seen, new)
  <2>1. /\ op[t].kind = "request" /\ Audited(users[v], op[t].seen, new)
        /\ users' = [users EXCEPT ![v] = row]
    BY <1>4 DEF CommitRequest, Commit
  <2>2. v \in Users /\ op[t].seen \in Rows /\ op[t].seen.access \in {"PENDING", "REJECTED"}
    BY <1>a, <2>1 DEF Shaped
  <2>3. new \in Rows /\ new.access = "PENDING"
    BY <2>2 DEF Rows, Statuses
  <2> HIDE DEF new
  <2>4. /\ row.access = IF "PENDING" # op[t].seen.access THEN "PENDING" ELSE users[v].access
        /\ "PENDING" # op[t].seen.access => users[v].access \in {op[t].seen.access, "PENDING"}
    BY <1>a, <2>1, <2>2, <2>3, WrittenColumns
  <2> HIDE DEF row
  <2>5. users'[v] = row /\ \A w \in Users \ {v} : users'[w] = users[w]
    BY <1>a, <2>1, <2>2
  <2>6. Allowed(v)
    BY <2>2, <2>4, <2>5 DEF Allowed
  <2> QED
    BY <2>5, <2>6, AllowedChange
<1>5. CASE CommitAccess(t)
  <2>1. op[t].kind = "access" /\ users' = [users EXCEPT ![v].access = op[t].value]
    BY <1>5 DEF CommitAccess, Commit
  <2>2. v \in Users /\ op[t].value \in {"APPROVED", "BLOCKED"}
    BY <1>a, <2>1 DEF Shaped, Management
  <2>3. users'[v].access = op[t].value /\ \A w \in Users \ {v} : users'[w] = users[w]
    BY <1>a, <2>1, <2>2 DEF Rows
  <2> QED
    BY <2>2, <2>3, AllowedChange
<1>6. CASE CommitRole(t)
  <2>1. op[t].kind = "role" /\ users' = [users EXCEPT ![v].role = op[t].value]
    BY <1>6 DEF CommitRole, Commit
  <2>2. v \in Users
    BY <1>a, <2>1 DEF Shaped, Management
  <2>3. users'[v].access = users[v].access /\ \A w \in Users \ {v} : users'[w] = users[w]
    BY <1>a, <2>1, <2>2 DEF Rows
  <2> QED
    BY <2>3, AllowedChange
<1>7. CASE CommitDecision(t) \/ CommitPress(t)
  <2>1. /\ op[t].kind \in {"decide", "press"} /\ users[v].access = "PENDING"
        /\ users' = [users EXCEPT ![v].access = op[t].value]
    BY <1>7 DEF CommitDecision, CommitPress, Commit, Decide
  <2>2. v \in Users
    BY <1>0, <1>a, <2>1 DEF Shaped, Management
  <2>3. \A w \in Users \ {v} : users'[w] = users[w]
    BY <1>a, <2>1, <2>2
  <2>4. Allowed(v)
    BY <2>1 DEF Allowed
  <2> QED
    BY <2>3, <2>4, AllowedChange
<1>8. CASE CommitReset(t)
  <2>1. /\ op[t].kind = "reset"
        /\ users' = [users EXCEPT ![v] = [role |-> "ENGINEER", access |-> "BLOCKED"]]
    BY <1>8 DEF CommitReset, Commit
  <2>2. v \in Users
    BY <1>a, <2>1 DEF Shaped, Management
  <2>3. users'[v].access = "BLOCKED" /\ \A w \in Users \ {v} : users'[w] = users[w]
    BY <1>a, <2>1, <2>2
  <2> QED
    BY <2>3, AllowedChange
<1>9. CASE CommitRotation(t)
  <2> DEFINE u   == op[t].actor
             old == [users[u] EXCEPT !.role = "ADMIN"]
  <2>1. /\ op[t].kind = "rotate"
        /\ users' = [users EXCEPT ![u].role = "ADMIN", ![v] = OwnerRow]
    BY <1>9 DEF CommitRotation, Commit
  <2>2. v \in Users /\ u \in Users
    BY <1>0, <1>a, <2>1 DEF Shaped
  <2>3. old.access = users[u].access
    BY <1>a, <2>2 DEF Rows
  <2>4. users' = [[users EXCEPT ![u] = old] EXCEPT ![v] = OwnerRow]
    BY <1>a, <2>1, <2>2
  <2> HIDE DEF old
  <2>5. \A w \in Users : users'[w].access \in {"APPROVED", users[w].access}
    BY <1>a, <2>2, <2>3, <2>4, RowsOf
  <2> QED
    BY <2>5, AllowedChange
<1> QED
  BY <1>1, <1>2, <1>3, <1>4, <1>5, <1>6, <1>7, <1>8, <1>9 DEF Commits

\* Decided requests are not touched by an answer to pending ones.
LEMMA AnswerPending ==
  ASSUME IInv, NEW STATE u, NEW STATE status, NEW STATE told,
         status \in {"PENDING", "APPROVED", "REJECTED", "DELETED"},
         told \in {None} \cup Decided,
         Answer(Pending(u), status, told)
  PROVE  \A r \in DOMAIN asked : asked[r].status # "PENDING" => asked'[r] = asked[r]
<1>1. Typed
  BY DEF IInv, Typed
<1>2. \A r \in DOMAIN asked : r \notin Pending(u) => asked'[r] = asked[r]
  BY <1>1, AnswerTyped
<1> QED
  BY <1>2 DEF Pending

\* No commit touches a decided request.
LEMMA CommitDecided ==
  ASSUME IInv, NEW t \in Txns, Commits(t)
  PROVE  \A r \in DOMAIN asked : asked[r].status # "PENDING" => asked'[r] = asked[r]
<1>0. pc[t] = "commit" /\ Typed
  BY CommitsEnd DEF IInv, Typed
<1>a. Shaped(t) /\ asked \in Seq(AskedRow)
  BY <1>0, CommitFacts DEF Typed, TablesTyped
<1>1. CASE CommitFirstLogin(t) \/ CommitAccess(t) \/ CommitRole(t)
  BY <1>1 DEF CommitFirstLogin, CommitAccess, CommitRole
<1>2. CASE CommitLogin(t) \/ CommitRepair(t)
  <2>1. asked' = asked \/ Answer(Pending(op[t].target), "APPROVED", None)
    BY <1>2 DEF CommitLogin, CommitRepair, RestoreOwner
  <2> QED
    BY <2>1, AnswerPending
<1>3. CASE CommitRequest(t)
  <2>1. asked' = asked \/ \E e : asked' = Append(asked, e)
    BY <1>3 DEF CommitRequest
  <2> QED
    BY <1>a, <2>1
<1>4. CASE CommitDecision(t) \/ CommitPress(t)
  <2>1. /\ op[t].kind \in {"decide", "press"}
        /\ Answer(Pending(op[t].target), op[t].value, op[t].value)
    BY <1>4 DEF CommitDecision, CommitPress, Commit, Decide, DecidedRequest
  <2>2. op[t].value \in Decided
    BY <1>a, <2>1 DEF Shaped, Management
  <2> QED
    BY <2>1, <2>2, AnswerPending DEF Decided
<1>5. CASE CommitReset(t) \/ CommitRotation(t)
  <2>1. \/ Answer(Pending(op[t].target), "DELETED", None)
        \/ Answer(Pending(op[t].target), "APPROVED", None)
    BY <1>5 DEF CommitReset, CommitRotation
  <2> QED
    BY <2>1, AnswerPending
<1> QED
  BY <1>1, <1>2, <1>3, <1>4, <1>5 DEF Commits

\* Outside of commits users and requests stay as they are.
LEMMA OnlyCommitsWrite ==
  ASSUME IInv, [Next]_vars
  PROVE  (\E t \in Txns : Commits(t)) \/ (users' = users /\ asked' = asked)
<1>1. Typed
  BY DEF IInv, Typed
<1> QED
  BY <1>1, NextKinds DEF Begins, Advances, EndSession, Stops, tables, vars

\* A request or a decision made from an old view of the user's row never
\* takes an approval back: the audit triggers refuse such a commit.
THEOREM ApprovalsAreKept == Spec => ApprovalsStand
<1>1. IInv /\ [Next]_vars =>
        [\A u \in Users :
           /\ users'[u].access = "REJECTED" => users[u].access \in {"PENDING", "REJECTED"}
           /\ users'[u].access = "PENDING" =>
                users[u].access \in {"NONE", "PENDING", "REJECTED"}]_vars
  <2> SUFFICES ASSUME IInv, [Next]_vars PROVE \A u \in Users : Allowed(u)
    BY DEF Allowed
  <2> QED
    BY OnlyCommitsWrite, CommitAllowed, AllowedChange
<1> QED
  BY <1>1, Invariant, PTL DEF Spec, ApprovalsStand

\* A decided access request keeps its decision and what the user was told,
\* although console and buttons decide without locking the request.
THEOREM DecisionsAreKept == Spec => DecisionsStand
<1>1. IInv /\ [Next]_vars =>
        [\A r \in DOMAIN asked :
           asked[r].status # "PENDING" => asked'[r] = asked[r]]_vars
  BY OnlyCommitsWrite, CommitDecided
<1> QED
  BY <1>1, Invariant, PTL DEF Spec, DecisionsStand

-----------------------------------------------------------------------------
(* Deadlocks                                                                *)

\* The locks t holds come before the one it asks for next: accounts, the
\* barrier, buttons, and user rows by their ids.
Ordered(t) ==
  /\ \A l \in held[t] :
       \/ pc[t] # "account" /\ \E a : l.on = <<"account", a>>
       \/ pc[t] \in {"button", "rows", "commit"} /\ l.on = <<"barrier">>
       \/ /\ pc[t] \in {"rows", "commit"} /\ op[t].kind = "press"
          /\ \E r, d : l.on = <<"button", r, d>>
       \/ /\ pc[t] \in {"rows", "commit"}
          /\ \E u \in Users : /\ l.on = <<"user", u>>
                              /\ pc[t] = "rows" => \A w \in RowsLeft(t) : u < w
  /\ pc[t] = "rows" => RowsLeft(t) # {}

LocksOrdered == \A t \in Txns : Ordered(t)

\* The least of at most two rows.
LEMMA LeastRow ==
  ASSUME NEW R, NEW x, NEW y, R \subseteq {x, y}, R \subseteq Nat, R # {}
  PROVE  Min(R) \in R /\ \A w \in R : Min(R) <= w
<1>1. \E z \in R : \A w \in R : z <= w
  <2>1. R = {x} \/ R = {y} \/ R = {x, y}
    OBVIOUS
  <2>2. ASSUME NEW z, R = {z} PROVE \E m \in R : \A w \in R : m <= w
    <3>1. z \in Nat
      BY <2>2
    <3>2. z <= z
      BY <3>1
    <3> QED
      BY <2>2, <3>2
  <2>3. CASE R = {x, y}
    <3>1. x \in Nat /\ y \in Nat
      BY <2>3
    <3>2. x <= y \/ y <= x
      BY <3>1
    <3> QED
      BY <2>3, <3>1, <3>2
  <2> QED
    BY <2>1, <2>2, <2>3
<1> QED
  BY <1>1 DEF Min

\* The rows to be locked are the two users'.
LEMMA RowsToLock ==
  ASSUME IInv, NEW t \in Txns
  PROVE  /\ RowsLeft(t) \subseteq {op[t].actor, op[t].target}
         /\ RowsLeft(t) \subseteq Users /\ Users \subseteq Nat
<1>1. op[t] \in Operation
  BY DEF IInv, TablesTyped
<1>2. op[t].actor \in Users \cup {None} /\ op[t].target \in Users \cup {None}
  BY <1>1 DEF Operation
<1> QED
  BY <1>2, NoneApart DEF RowsLeft

\* A transaction that has just come to its rows has all of them before it.
LEMMA EnterRows ==
  ASSUME NEW t \in Txns, op'[t].target \in Users,
         \A l \in held'[t], u \in Users : l.on # <<"user", u>>
  PROVE  RowsLeft(t)' # {}
<1>1. op'[t].target \in RowsLeft(t)'
  BY NoneApart DEF RowsLeft
<1> QED
  BY <1>1

\* A granted lock comes after those that are held.
LEMMA AdvanceOrdered ==
  ASSUME IInv, NEW t \in Txns, Advances(t), Ordered(t)
  PROVE  Ordered(t)'
<1>0. /\ Shaped(t) /\ op[t] \in Operation /\ pc[t] \in Stages
      /\ Shaped(t)' /\ pc'[t] \in Stages
      /\ held'[t] = held[t] \cup Wants(t) /\ op'[t].kind = op[t].kind
  BY DEF IInv, TablesTyped, OpsShaped, Advances
<1>1. op[t].kind \in Kinds \ {"none"} /\ pc[t] # "idle"
  BY <1>0 DEF Operation, Shaped, Advances
<1>2. pc'[t] = "rows" => op'[t].target \in Users
  BY <1>0, <1>1 DEF Shaped, Kinds, Management
<1>3. CASE pc[t] = "account"
  <2>1. \A l \in held'[t] : \E a : l.on = <<"account", a>>
    <3>1. Wants(t) = {Lock(<<"account", op[t].account>>, "X")}
      BY <1>3 DEF Wants, AccountLock
    <3>2. held[t] = {}
      BY <1>3 DEF Ordered
    <3> QED
      BY <1>0, <3>1, <3>2 DEF Lock
  <2>2. pc'[t] # "account"
    BY <1>0, <1>1, <1>3 DEF Advances, Shaped, Kinds, Management
  <2>3. pc'[t] = "rows" => RowsLeft(t)' # {}
    BY <1>2, <2>1, EnterRows
  <2> QED
    BY <2>1, <2>2, <2>3 DEF Ordered
<1>4. CASE pc[t] = "barrier"
  <2>1. \A l \in held'[t] : l.on = <<"barrier">> \/ \E a : l.on = <<"account", a>>
    <3>1. \A l \in Wants(t) : l.on = <<"barrier">>
      BY <1>4 DEF Wants, BarrierLock, Lock
    <3>2. \A l \in held[t] : \E a : l.on = <<"account", a>>
      BY <1>4 DEF Ordered
    <3> QED
      BY <1>0, <3>1, <3>2
  <2>2. pc'[t] \in {"button", "rows", "commit"}
    BY <1>4 DEF Advances
  <2>3. pc'[t] = "rows" => RowsLeft(t)' # {}
    BY <1>2, <2>1, EnterRows
  <2> QED
    BY <2>1, <2>2, <2>3 DEF Ordered
<1>5. CASE pc[t] = "button"
  <2>0. op[t].kind = "press" /\ pc'[t] = "rows"
    BY <1>0, <1>1, <1>5 DEF Shaped, Kinds, Management, Advances
  <2>1. \A l \in held'[t] : \/ l.on = <<"barrier">> \/ \E a : l.on = <<"account", a>>
                            \/ \E r, d : l.on = <<"button", r, d>>
    <3>1. \A l \in Wants(t) : l.on = <<"button", op[t].req, op[t].value>>
      BY <1>5 DEF Wants, Button, Lock
    <3>2. \A l \in held[t] : l.on = <<"barrier">> \/ \E a : l.on = <<"account", a>>
      BY <1>5 DEF Ordered
    <3> QED
      BY <1>0, <3>1, <3>2
  <2>2. RowsLeft(t)' # {}
    BY <1>2, <2>0, <2>1, EnterRows
  <2> QED
    BY <1>0, <2>0, <2>1, <2>2 DEF Ordered
<1>6. CASE pc[t] = "rows"
  <2> DEFINE R == RowsLeft(t)
             m == Min(R)
  <2>1. R # {} /\ R \subseteq {op[t].actor, op[t].target} /\ R \subseteq Users /\ R \subseteq Nat
    BY <1>6, RowsToLock DEF Ordered
  <2>2. m \in R /\ \A w \in R : m <= w
    <3> HIDE DEF R
    <3> QED
      BY <2>1, LeastRow
  <2>3. /\ \A l \in Wants(t) : l.on = <<"user", m>>
        /\ \E l \in Wants(t) : TRUE
    <3> DEFINE mode == IF m = op[t].target \/ op[t].kind = "rotate" THEN "X" ELSE "S"
    <3>1. Wants(t) = {Lock(<<"user", m>>, mode)}
      BY <1>6 DEF Wants, RowLock
    <3> HIDE DEF m, mode
    <3> QED
      BY <3>1 DEF Lock
  <2>4. pc'[t] = "rows" => RowsLeft(t)' = R \ {m}
    <3> SUFFICES ASSUME pc'[t] = "rows" PROVE RowsLeft(t)' = R \ {m}
      OBVIOUS
    <3>1. op'[t].actor = op[t].actor /\ op'[t].target = op[t].target
      BY <1>6 DEF Advances
    <3>2. \A u : (\A l \in held'[t] : l.on # <<"user", u>>) <=>
                 (\A l \in held[t] : l.on # <<"user", u>>) /\ u # m
      <4>1. \A u : <<"user", u>> = <<"user", m>> <=> u = m
        OBVIOUS
      <4> HIDE DEF m
      <4> QED
        BY <1>0, <2>3, <4>1
    <3> HIDE DEF m
    <3> QED
      BY <3>1, <3>2 DEF RowsLeft
  <2>5. pc'[t] = "rows" => R # {m}
    <3>1. Cardinality({m}) = 1
      BY FS_Singleton
    <3> QED
      BY <1>6, <3>1 DEF Advances
  <2>6. pc'[t] \in {"rows", "commit"}
    BY <1>6 DEF Advances
  <2>7. pc'[t] = "rows" => RowsLeft(t)' # {}
    BY <2>1, <2>4, <2>5
  <2>8. ASSUME NEW l \in held'[t]
        PROVE  \/ \E a : l.on = <<"account", a>>
               \/ l.on = <<"barrier">>
               \/ op[t].kind = "press" /\ \E r, d : l.on = <<"button", r, d>>
               \/ \E u \in Users : /\ l.on = <<"user", u>>
                                   /\ pc'[t] = "rows" => \A w \in RowsLeft(t)' : u < w
    <3>1. CASE l \in Wants(t)
      <4>1. l.on = <<"user", m>> /\ m \in Users
        BY <2>1, <2>2, <2>3, <3>1
      <4>2. pc'[t] = "rows" => \A w \in RowsLeft(t)' : m < w
        <5>1. \A w \in R \ {m} : m < w
          <6> HIDE DEF m, R
          <6> QED
            BY <2>1, <2>2
        <5> HIDE DEF m, R
        <5> QED
          BY <2>4, <5>1, Zenon
      <4> QED
        BY <4>1, <4>2
    <3>2. CASE l \in held[t]
      <4>1. \/ \E a : l.on = <<"account", a>>
            \/ l.on = <<"barrier">>
            \/ op[t].kind = "press" /\ \E r, d : l.on = <<"button", r, d>>
            \/ \E u \in Users : l.on = <<"user", u>> /\ \A w \in R : u < w
        BY <1>6, <3>2 DEF Ordered
      <4> HIDE DEF R, m
      <4> QED
        BY <2>4, <4>1
    <3> QED
      BY <1>0, <2>8, <3>1, <3>2
  <2> QED
    BY <1>0, <2>6, <2>7, <2>8 DEF Ordered
<1> QED
  BY <1>0, <1>1, <1>3, <1>4, <1>5, <1>6 DEF Stages, Advances

\* Locks are always taken in this order.
LEMMA NextOrdered ==
  ASSUME IInv, LocksOrdered, [Next]_vars
  PROVE  LocksOrdered'
<1>0. Typed /\ \A t \in Txns : Ordered(t)
  BY DEF IInv, Typed, LocksOrdered
<1>1. ASSUME NEW s \in Txns, pc'[s] = pc[s], op'[s] = op[s], held'[s] = held[s]
      PROVE  Ordered(s)'
  <2>1. RowsLeft(s)' = RowsLeft(s)
    BY <1>1 DEF RowsLeft
  <2>2. Ordered(s)
    BY <1>0
  <2> QED
    BY <1>1, <2>1, <2>2 DEF Ordered
<1>2. ASSUME NEW s \in Txns, pc'[s] = "idle", held'[s] = {} PROVE Ordered(s)'
  BY <1>2 DEF Ordered
<1>3. ASSUME NEW t \in Txns, Begins(t) PROVE \A s \in Txns : Ordered(s)'
  <2>1. held'[t] = {}
    BY <1>3 DEF Begins, IInv, IdleHoldNothing
  <2>2. pc'[t] = "rows" => op'[t].target \in Users
    BY <1>3 DEF Begins, Shaped, Operation, Kinds, Management
  <2>3. pc'[t] = "rows" => RowsLeft(t)' # {}
    BY <2>1, <2>2, EnterRows
  <2>4. Ordered(t)'
    BY <2>1, <2>3 DEF Ordered
  <2> QED
    BY <1>1, <1>3, <2>4 DEF Begins, Alone
<1>4. ASSUME NEW t \in Txns, Advances(t) PROVE \A s \in Txns : Ordered(s)'
  BY <1>0, <1>1, <1>4, AdvanceOrdered DEF Advances, Alone
<1>5. ASSUME NEW t \in Txns, Ends(t) PROVE \A s \in Txns : Ordered(s)'
  BY <1>1, <1>2, <1>5 DEF Ends, Alone
<1>6. ASSUME Stops PROVE \A s \in Txns : Ordered(s)'
  BY <1>2, <1>6 DEF Stops
<1>7. ASSUME UNCHANGED <<pc, op, held>> PROVE \A s \in Txns : Ordered(s)'
  BY <1>1, <1>7
<1>8. \A s \in Txns : Ordered(s)'
  BY <1>0, <1>3, <1>4, <1>5, <1>6, <1>7, NextKinds DEF EndSession, vars
<1> QED
  BY <1>8 DEF LocksOrdered

\* Where t stands in the order of locks.
Rank(t) ==
  CASE pc[t] = "account" -> 1
    [] pc[t] = "barrier" -> 2
    [] pc[t] = "button"  -> 3
    [] pc[t] = "rows"    -> 4 + Min(RowsLeft(t))
    [] OTHER             -> 0

\* Who waits at the commit is a reset, and waits for a pressed button.
LEMMA CommitWaits ==
  ASSUME IInv, LocksOrdered, NEW s \in Txns, NEW t \in Txns, WaitsFor(s, t),
         pc[s] = "commit"
  PROVE  op[s].kind = "reset" /\ op[t].kind = "press"
<1>1. PICK l \in Wants(s), m \in held[t] : l.on = m.on
  BY DEF WaitsFor, Conflict
<1>2. PICK r, d : l.on = <<"button", r, d>>
  BY <1>1 DEF Wants, DeleteLocks, Button, Lock
<1>3. op[s].kind = "reset"
  BY <1>1 DEF Wants, DeleteLocks
<1>4. m.on = <<"button", r, d>>
  BY <1>1, <1>2
<1>5. /\ \A a : m.on # <<"account", a>>
      /\ m.on # <<"barrier">>
      /\ \A u \in Users : m.on # <<"user", u>>
  BY <1>4
<1>6. op[t].kind = "press"
  BY <1>5 DEF LocksOrdered, Ordered
<1> QED
  BY <1>3, <1>6

\* All other waiting leads upwards in the order of locks.
LEMMA WaitingGoesUp ==
  ASSUME IInv, LocksOrdered, NEW s \in Txns, NEW t \in Txns, WaitsFor(s, t),
         \E l \in Wants(t) : TRUE, pc[s] # "commit", pc[t] # "commit"
  PROVE  Rank(s) \in Nat /\ Rank(t) \in Nat /\ Rank(s) < Rank(t)
<1>0. pc[s] \in Stages /\ pc[t] \in Stages /\ Ordered(s) /\ Ordered(t)
  BY DEF IInv, TablesTyped, LocksOrdered
<1>1. PICK l \in Wants(s), m \in held[t] : l.on = m.on
  BY DEF WaitsFor, Conflict
<1>2. \A q \in Txns : pc[q] = "rows" =>
        /\ Min(RowsLeft(q)) \in RowsLeft(q) /\ Min(RowsLeft(q)) \in Nat
        /\ \A w \in RowsLeft(q) : Min(RowsLeft(q)) <= w
  <2> SUFFICES ASSUME NEW q \in Txns, pc[q] = "rows"
               PROVE  /\ Min(RowsLeft(q)) \in RowsLeft(q) /\ Min(RowsLeft(q)) \in Nat
                      /\ \A w \in RowsLeft(q) : Min(RowsLeft(q)) <= w
    OBVIOUS
  <2>1. RowsLeft(q) # {}
    BY DEF LocksOrdered, Ordered
  <2>2. RowsLeft(q) \subseteq {op[q].actor, op[q].target} /\ RowsLeft(q) \subseteq Nat
    BY RowsToLock
  <2> QED
    BY <2>1, <2>2, LeastRow
<1>10. pc[t] \in {"account", "barrier", "button", "rows"}
  BY <1>0 DEF Stages, Wants
<1>11. CASE pc[s] = "idle"
  BY <1>1, <1>11 DEF Wants
<1>12. CASE pc[s] = "account"
  <2>1. l.on = <<"account", op[s].account>>
    BY <1>1, <1>12 DEF Wants, AccountLock, Lock
  <2>2. pc[t] # "account"
    BY <1>0 DEF Ordered
  <2>3. Rank(s) = 1 /\ Rank(t) \in Nat /\ Rank(t) > 1
    BY <1>2, <1>10, <1>12, <2>2 DEF Rank
  <2> QED
    BY <2>3
<1>13. CASE pc[s] = "barrier"
  <2>1. m.on = <<"barrier">>
    BY <1>1, <1>13 DEF Wants, BarrierLock, Lock
  <2>2. pc[t] \in {"button", "rows"}
    BY <1>0, <1>10, <2>1 DEF Ordered
  <2>3. Rank(s) = 2 /\ Rank(t) \in Nat /\ Rank(t) > 2
    BY <1>2, <1>13, <2>2 DEF Rank
  <2> QED
    BY <2>3
<1>14. CASE pc[s] = "button"
  <2>1. m.on = <<"button", op[s].req, op[s].value>>
    BY <1>1, <1>14 DEF Wants, Button, Lock
  <2>2. pc[t] = "rows"
    BY <1>0, <1>10, <2>1 DEF Ordered
  <2>3. Rank(s) = 3 /\ Rank(t) \in Nat /\ Rank(t) > 3
    BY <1>2, <1>14, <2>2 DEF Rank
  <2> QED
    BY <2>3
<1>15. CASE pc[s] = "rows"
  <2> DEFINE u == Min(RowsLeft(s))
             w == Min(RowsLeft(t))
  <2>1. m.on = <<"user", u>>
    <3> DEFINE mode == IF u = op[s].target \/ op[s].kind = "rotate" THEN "X" ELSE "S"
    <3>1. Wants(s) = {Lock(<<"user", u>>, mode)}
      BY <1>15 DEF Wants, RowLock
    <3> HIDE DEF mode, u
    <3> QED
      BY <1>1, <3>1 DEF Lock
  <2>2. pc[t] = "rows" /\ \A x \in RowsLeft(t) : u < x
    <3> HIDE DEF u
    <3> QED
      BY <1>0, <1>10, <2>1 DEF Ordered
  <2>3. u \in Nat /\ w \in Nat /\ u < w
    BY <1>2, <1>15, <2>2
  <2>4. Rank(s) = 4 + u /\ Rank(t) = 4 + w
    BY <1>15, <2>2 DEF Rank
  <2> HIDE DEF u, w
  <2> QED
    BY <2>3, <2>4
<1> QED
  BY <1>0, <1>11, <1>12, <1>13, <1>14, <1>15 DEF Stages

\* A finite set of users has a greatest id.
LEMMA GreatestUser ==
  ASSUME IsFiniteSet(Users)
  PROVE  \E n \in Nat : \A u \in Users : u <= n
<1>1. CASE Users = {}
  <2>1. 0 \in Nat
    OBVIOUS
  <2> QED
    BY <1>1, <2>1
<1>2. CASE Users # {}
  <2>1. Users \subseteq Nat /\ Users \subseteq Int
    BY NoneApart
  <2>2. PICK n \in Users : \A u \in Users : u <= n
    BY <1>2, <2>1, GreatestNumber
  <2> QED
    BY <2>1, <2>2
<1> QED
  BY <1>1, <1>2

\* A circle of waiting transactions has a pressed button and a reset in it.
LEMMA CircleKnown ==
  ASSUME IsFiniteSet(Users), IInv, LocksOrdered, NEW S \in SUBSET Txns, WaitCycle(S)
  PROVE  {"press", "reset"} \subseteq {op[t].kind : t \in S}
<1>1. S # {} /\ \A s \in S : \E t \in S : WaitsFor(s, t)
  BY DEF WaitCycle
<1>2. \A s \in S : \E l \in Wants(s) : TRUE
  BY <1>1 DEF WaitsFor
<1>3. CASE \E s \in S : pc[s] = "commit"
  <2>1. PICK s \in S, t \in S : pc[s] = "commit" /\ WaitsFor(s, t)
    BY <1>1, <1>3
  <2>2. op[s].kind = "reset" /\ op[t].kind = "press"
    BY <2>1, CommitWaits
  <2> QED
    BY <2>1, <2>2
<1>4. CASE \A s \in S : pc[s] # "commit"
  <2> DEFINE K == {Rank(s) : s \in S}
  <2>1. \A s \in S : \E t \in S : Rank(s) \in Nat /\ Rank(t) \in Nat /\ Rank(s) < Rank(t)
    BY <1>1, <1>2, <1>4, WaitingGoesUp
  <2>2. PICK n \in Nat : \A u \in Users : u <= n
    BY GreatestUser
  <2>3. ASSUME NEW s \in S PROVE Rank(s) \in 0 .. n + 4
    <3>1. pc[s] = "rows" => Min(RowsLeft(s)) \in Users
      <4> SUFFICES ASSUME pc[s] = "rows" PROVE Min(RowsLeft(s)) \in Users
        OBVIOUS
      <4>1. RowsLeft(s) # {}
        BY DEF LocksOrdered, Ordered
      <4>2. /\ RowsLeft(s) \subseteq {op[s].actor, op[s].target}
            /\ RowsLeft(s) \subseteq Users /\ Users \subseteq Nat
        BY RowsToLock
      <4> QED
        BY <4>1, <4>2, LeastRow
    <3>2. Users \subseteq Nat
      BY NoneApart
    <3>3. CASE pc[s] = "rows"
      <4> DEFINE u == Min(RowsLeft(s))
      <4>1. u \in Nat /\ u <= n
        BY <2>2, <3>1, <3>2, <3>3
      <4>2. Rank(s) = 4 + u
        BY <3>3 DEF Rank
      <4> HIDE DEF u
      <4> QED
        BY <2>2, <4>1, <4>2
    <3>4. CASE pc[s] # "rows"
      <4>1. Rank(s) \in {0, 1, 2, 3}
        BY <3>4 DEF Rank
      <4> QED
        BY <2>2, <4>1
    <3> QED
      BY <3>3, <3>4
  <2>4. K \subseteq 0 .. n + 4 /\ K # {}
    BY <1>1, <2>3
  <2>5. IsFiniteSet(K) /\ K \subseteq Int
    <3>1. n + 4 \in Int /\ 0 \in Int
      BY <2>2
    <3>2. IsFiniteSet(0 .. n + 4)
      BY <3>1, FS_Interval
    <3> HIDE DEF K
    <3>3. IsFiniteSet(K)
      BY <2>4, <3>2, FS_Subset
    <3> QED
      BY <2>4, <3>1, <3>3
  <2>6. PICK k \in K : \A j \in K : j <= k
    <3> HIDE DEF K
    <3> QED
      BY <2>4, <2>5, GreatestNumber
  <2>7. PICK s \in S : k = Rank(s)
    BY <2>6
  <2>8. PICK t \in S : Rank(s) \in Nat /\ Rank(t) \in Nat /\ Rank(s) < Rank(t)
    BY <2>1
  <2>9. Rank(t) <= k
    BY <2>6
  <2> QED
    BY <2>7, <2>8, <2>9
<1> QED
  BY <1>3, <1>4

\* Locks are always taken in the order accounts, barrier, button, user rows
\* by id; only a reset asks for buttons while it holds rows.
THEOREM LocksAreOrdered == Spec => []LocksOrdered
<1>1. Init => LocksOrdered
  BY DEF Init, LocksOrdered, Ordered
<1>2. IInv /\ LocksOrdered /\ [Next]_vars => LocksOrdered'
  BY NextOrdered
<1> QED
  BY <1>1, <1>2, Invariant, PTL DEF Spec

\* With any number of concurrent transactions, and not only the two of the
\* run, a circle of waiting transactions contains a pressed button and a
\* reset.
THEOREM OnlyKnownDeadlocks ==
  ASSUME IsFiniteSet(Users)
  PROVE  Spec => []DeadlocksAreKnown
<1>1. IInv /\ LocksOrdered => DeadlocksAreKnown
  BY CircleKnown DEF DeadlocksAreKnown
<1> QED
  BY <1>1, Invariant, LocksAreOrdered, PTL
=============================================================================
