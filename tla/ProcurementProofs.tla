-------------------------- MODULE ProcurementProofs --------------------------
(***************************************************************************)
(* Theorems about module Procurement, for every value of its constants.    *)
(*                                                                         *)
(* The argument is the one the code relies on: the facts a command has     *)
(* checked stay true because it holds the rows they are about until it     *)
(* commits.  The invariants below say which rows a command holds at each   *)
(* stage and what it has found there; the properties follow at the commit. *)
(***************************************************************************)
EXTENDS Procurement, FiniteLemmas

Stages == {"idle", "request", "actor", "manager", "items", "post", "admin"}

UserRows == [role : Roles, access : {"APPROVED", "BLOCKED"}, identity : BOOLEAN]
ItemRows == [status : {"ACTIVE", "ARCHIVED", "ABSENT"}, signature : Signatures \cup {None}]

RequestRows ==
  [status : Statuses \cup {"NONE"}, version : Nat,
   initiator : Users \cup {None}, manager : Users \cup {None},
   revisions : Seq(Seq(Lines)), log : Seq(Sent)]

Typed ==
  /\ users \in [Users -> UserRows]
  /\ items \in [Items -> ItemRows]
  /\ requests \in [Requests -> RequestRows]
  /\ calls \subseteq Requests \X (1 .. MaxVersion) \X Users
  /\ pc \in [Txns -> Stages]
  /\ cmd \in [Txns -> Sent \cup {None}]
  /\ change \in [Txns -> {None} \cup [op : AdminOps, user : Users, row : UserRows]]
  /\ DOMAIN held = Txns
  /\ answer \in [Txns -> {None} \cup (Requests \X Nat)]

\* A command has what its kind of command needs.
CommandShape(c) ==
  /\ c.op = "create" => c.req = None /\ c.manager \in Users /\ c.order \in Orders
  /\ c.op # "create" =>
       c.req \in Requests /\ requests[c.req].status # "NONE" /\ c.version < MaxVersion
  /\ c.op = "submit" => c.order \in Orders
  /\ c.op \in {"take", "transfer"} => c.manager \in Users
  /\ c.op \in {"bind", "create_bind"} => c.item \in Items

\* A request has an initiator, a manager, a revision and a first event, or is
\* not there at all.
RequestsShaped ==
  \A q \in Requests :
    IF requests[q].status = "NONE" THEN requests[q] = NoRequest
    ELSE /\ requests[q].initiator \in Users /\ requests[q].manager \in Users
         /\ requests[q].revisions # <<>> /\ requests[q].log # <<>>

\* The events of a request are its own: the first is its creation.
EventsShaped ==
  \A q \in Requests : \A n \in Events(q) :
    /\ CommandShape(requests[q].log[n])
    /\ requests[q].log[n].op = "create" <=> n = 1
    /\ n # 1 => requests[q].log[n].req = q

\* A key is used once by an actor: in a request, and for a creation.
KeysUnique ==
  /\ \A q \in Requests : \A m, n \in Events(q) :
       /\ requests[q].log[m].actor = requests[q].log[n].actor
       /\ requests[q].log[m].key = requests[q].log[n].key
       => m = n
  /\ \A p, q \in Requests :
       /\ requests[p].status # "NONE" /\ requests[q].status # "NONE"
       /\ requests[p].log[1].actor = requests[q].log[1].actor
       /\ requests[p].log[1].key = requests[q].log[1].key
       => p = q

\* A manager has accepted request q before.
Agreed(q) == \E n \in Events(q) : requests[q].log[n].op = "accept"

PurchasesAgreed ==
  \A q \in Requests :
    requests[q].status \in {"PURCHASING", "AWAITING_ACCEPTANCE", "COMPLETED"} => Agreed(q)

Assignments(q) ==
  {n \in Events(q) : requests[q].log[n].op \in {"create", "take", "transfer"}}

\* A manager with a Telegram identity was told of the last assignment.
AllTold ==
  \A q \in Requests : requests[q].status # "NONE" /\ users[requests[q].manager].identity =>
    \E n \in Assignments(q) : /\ \A m \in Assignments(q) : m <= n
                              /\ <<q, n, requests[q].manager>> \in calls

\* No two transactions hold the same row, and nobody holds one while idle.
LocksExclusive ==
  /\ \A s, t \in Txns : s # t => held[s] \cap held[t] = {}
  /\ \A t \in Txns : pc[t] = "idle" => held[t] = {}

\* A transaction at work has a command that comes through its stage.
CommandsShaped ==
  /\ \A t \in Txns : cmd[t] # None => CommandShape(cmd[t])
  /\ \A t \in Txns : pc[t] \notin {"idle", "admin"} => cmd[t] # None
  /\ \A t \in Txns : pc[t] = "request" => cmd[t].op # "create"
  /\ \A t \in Txns : pc[t] = "manager" => cmd[t].op \in {"create", "take", "transfer"}
  /\ \A t \in Txns : pc[t] = "items" => cmd[t].op \in {"create", "submit", "bind", "complete"}

\* From the actor's stage on a command holds its request; unless it was
\* applied before, it was written for the present state.
RequestsClaimed ==
  \A t \in Txns :
    pc[t] \in {"actor", "manager", "items", "post"} /\ cmd[t].op # "create" =>
      /\ <<"request", cmd[t].req>> \in held[t]
      /\ Known(cmd[t].req, cmd[t]) = {} => Fresh(cmd[t])

\* Past it, it holds its actor, who is able to send it; it was not applied
\* before, and its request permits it.
ActorsClaimed ==
  \A t \in Txns : pc[t] \in {"manager", "items", "post"} =>
    /\ <<"user", cmd[t].actor>> \in held[t]
    /\ Able(cmd[t].actor, Needs(cmd[t].op))
    /\ cmd[t].op = "create" => Created(cmd[t]) = {}
    /\ cmd[t].op # "create" => Known(cmd[t].req, cmd[t]) = {} /\ Permitted(cmd[t])

\* Past the manager's stage it holds a manager who is able to be one.
ManagersClaimed ==
  \A t \in Txns :
    \/ pc[t] \in {"items", "post"} /\ cmd[t].op = "create"
    \/ pc[t] = "post" /\ cmd[t].op \in {"take", "transfer"}
    => <<"user", cmd[t].manager>> \in held[t] /\ Able(cmd[t].manager, ManageRoles)

\* When it writes, it holds its items; they are ACTIVE, and those of a
\* delivery are what was approved.
ItemsClaimed ==
  \A t \in Txns :
    pc[t] = "post" /\ cmd[t].op \in {"create", "submit", "bind", "complete"} =>
      /\ \A i \in ItemsOf(cmd[t]) : <<"item", i>> \in held[t] /\ items[i].status = "ACTIVE"
      /\ cmd[t].op = "complete" =>
           \A l \in Range(Order(cmd[t].req)) : l.item # None /\ Matches(l)

\* Its order holds no more of an item than a receipt can.  Nothing looks at
\* the quantities when an item is created for a line.
AggregatesClaimed ==
  \A t \in Txns :
    pc[t] = "post" /\ cmd[t].op \in {"create", "submit", "bind"} => AggregatesFit(Outcome(cmd[t]))

\* What a response reports is in the log.
AnswersLogged ==
  \A t \in Txns : answer[t] # None =>
    answer[t][2] \in Events(answer[t][1]) /\ requests[answer[t][1]].log[answer[t][2]] = cmd[t]

\* An administrator at work holds the row that will be written, and gives
\* nobody an identity.  If its user
\* is needed for an agreement that was never accepted, the new row is able.
TargetsClaimed ==
  \A t \in Txns : pc[t] = "admin" =>
    /\ change[t] \in [op : AdminOps, user : Users, row : UserRows]
    /\ <<"user", change[t].user>> \in held[t]
    /\ change[t].row.identity => users[change[t].user].identity
    /\ \A q \in Requests :
         /\ requests[q].initiator = change[t].user
         /\ requests[q].status \in Agreement /\ ~Agreed(q)
         => change[t].row.access = "APPROVED" /\ change[t].row.role \in CreateRoles

\* The part about requests, and the part about transactions.
TablesInv ==
  /\ RequestsShaped /\ EventsShaped /\ SeenIsApplied /\ KeysUnique
  /\ PurchasesAgreed /\ AllTold /\ LinesKeepItems /\ AggregatesHold

TxnsInv ==
  /\ LocksExclusive /\ CommandsShaped /\ RequestsClaimed /\ ActorsClaimed
  /\ ManagersClaimed /\ ItemsClaimed /\ AggregatesClaimed /\ AnswersLogged /\ TargetsClaimed

IInv == Typed /\ TablesInv /\ TxnsInv /\ InitiatorsKeepAgreement

\* Who takes part in a request.
Part(q) == {requests[q].initiator, requests[q].manager}

-----------------------------------------------------------------------------
(* What a commit writes                                                     *)

\* The columns of a request can be changed one at a time.
LEMMA RequestColumns ==
  ASSUME NEW r \in RequestRows
  PROVE  /\ \A v \in Statuses : [r EXCEPT !.status = v] \in RequestRows
         /\ \A v \in Nat : [r EXCEPT !.version = v] \in RequestRows
         /\ \A v \in Users : [r EXCEPT !.initiator = v] \in RequestRows
         /\ \A v \in Users : [r EXCEPT !.manager = v] \in RequestRows
         /\ \A v \in Seq(Seq(Lines)) : [r EXCEPT !.revisions = v] \in RequestRows
         /\ \A v \in Seq(Sent) : [r EXCEPT !.log = v] \in RequestRows
BY DEF RequestRows

\* A request with other columns, but the event that is added.
Columns(r, status, version, initiator, manager, revisions) ==
  /\ r.status = status /\ r.version = version
  /\ r.initiator = initiator /\ r.manager = manager
  /\ r.revisions = revisions

\* Touched and Moved change the columns they are meant to change.
LEMMA MovedColumns ==
  ASSUME NEW r \in RequestRows, NEW status \in Statuses
  PROVE  /\ Touched(r) \in RequestRows /\ Touched(r).log = r.log
         /\ Columns(Touched(r), r.status, r.version + 1, r.initiator, r.manager, r.revisions)
         /\ Moved(r, status) \in RequestRows /\ Moved(r, status).log = r.log
         /\ Columns(Moved(r, status), status, r.version + 1, r.initiator, r.manager, r.revisions)
<1>1. r.version + 1 \in Nat
  BY DEF RequestRows
<1>2. /\ [r EXCEPT !.version = @ + 1] \in RequestRows
      /\ [r EXCEPT !.version = @ + 1].log = r.log
      /\ Columns([r EXCEPT !.version = @ + 1], r.status, r.version + 1, r.initiator, r.manager, r.revisions)
  BY <1>1 DEF RequestRows, Columns
<1> DEFINE s == [r EXCEPT !.status = status]
<1>3. s \in RequestRows /\ s.version + 1 \in Nat /\ s.log = r.log
  BY <1>1 DEF RequestRows
<1>4. Columns(s, status, r.version, r.initiator, r.manager, r.revisions)
  BY DEF RequestRows, Columns
<1> HIDE DEF s
<1>5. /\ [s EXCEPT !.version = @ + 1] \in RequestRows
      /\ [s EXCEPT !.version = @ + 1].log = r.log
      /\ Columns([s EXCEPT !.version = @ + 1], status, r.version + 1, r.initiator, r.manager, r.revisions)
  BY <1>3, <1>4 DEF RequestRows, Columns
<1> QED
  BY <1>2, <1>5 DEF Moved, Touched, s

\* The lines of an order that was sent are lines once they are prepared.
LEMMA PreparedLines ==
  ASSUME Typed, NEW order \in Orders
  PROVE  /\ Prepared(order) \in Seq(Lines) /\ DOMAIN Prepared(order) = DOMAIN order
         /\ \A k \in DOMAIN order : /\ Prepared(order)[k].item = order[k].item
                                   /\ Prepared(order)[k].quantity = order[k].quantity
<1>1. /\ order \in Seq(Lines)
      /\ \A k \in DOMAIN order : order[k] \in Lines /\ (order[k].proposed <=> order[k].item = None)
  BY ProcurementAssumption DEF Range
<1>2. \A k \in DOMAIN order :
        /\ Prepared(order)[k] \in Lines
        /\ Prepared(order)[k].item = order[k].item
        /\ Prepared(order)[k].quantity = order[k].quantity
  BY <1>1 DEF Prepared, Lines, Typed, ItemRows
<1>3. DOMAIN Prepared(order) = 1 .. Len(order) /\ DOMAIN order = 1 .. Len(order) /\ Len(order) \in Nat
  BY <1>1 DEF Prepared
<1>4. Prepared(order) \in Seq(Lines)
  BY <1>1, <1>2, <1>3 DEF Prepared
<1> QED
  BY <1>2, <1>3, <1>4

LEMMA ReplaceInSeq ==
  ASSUME NEW S, NEW s \in Seq(S), NEW e \in S, NEW i \in DOMAIN s
  PROVE  [s EXCEPT ![i] = e] \in Seq(S)
OBVIOUS

\* So are those of a revision after a binding.
LEMMA BoundLines ==
  ASSUME Typed, NEW c, c.req \in Requests, requests[c.req].revisions # <<>>,
         c.line \in DOMAIN Order(c.req), c.item \in Items
  PROVE  /\ Order(c.req) \in Seq(Lines) /\ Bound(c) \in Seq(Lines)
         /\ \A k \in DOMAIN Bound(c) :
              /\ k \in DOMAIN Order(c.req)
              /\ Bound(c)[k].item = c.item \/ Bound(c)[k] = Order(c.req)[k]
<1> DEFINE o == Order(c.req)
<1>1. requests[c.req].revisions \in Seq(Seq(Lines))
  BY DEF Typed, RequestRows
<1>2. o \in Seq(Lines)
  BY <1>1 DEF Order, Last
<1> HIDE DEF o
<1>3. o[c.line] \in Lines
  BY <1>2 DEF o
<1>4. [o[c.line] EXCEPT !.item = c.item] \in Lines
  BY <1>3 DEF Lines
<1>5. Bound(c) = [o EXCEPT ![c.line] = [o[c.line] EXCEPT !.item = c.item]]
  BY Zenon DEF Bound, o
<1>6. Bound(c) \in Seq(Lines)
  BY <1>2, <1>4, <1>5 DEF o
<1>7. [o[c.line] EXCEPT !.item = c.item].item = c.item
  BY <1>3 DEF Lines
<1> QED
  BY <1>2, <1>5, <1>6, <1>7 DEF o

\* One line of it is another than before, and only in its item.
LEMMA BoundLine ==
  ASSUME Typed, NEW c, c.req \in Requests, requests[c.req].revisions # <<>>,
         c.line \in DOMAIN Order(c.req), c.item \in Items, NEW k \in DOMAIN Order(c.req)
  PROVE  /\ DOMAIN Bound(c) = DOMAIN Order(c.req) /\ Bound(c)[c.line].item = c.item
         /\ Bound(c)[k].quantity = Order(c.req)[k].quantity
         /\ k # c.line => Bound(c)[k] = Order(c.req)[k]
<1> DEFINE o == Order(c.req)
           l == [o[c.line] EXCEPT !.item = c.item]
<1>1. o \in Seq(Lines)
  BY BoundLines
<1>2. Bound(c) = [o EXCEPT ![c.line] = l]
  BY Zenon DEF Bound
<1>3. o[c.line] \in Lines
  BY <1>1
<1>4. l.item = c.item /\ l.quantity = o[c.line].quantity
  BY <1>3 DEF Lines
<1> HIDE DEF o, l
<1>5. c.line \in DOMAIN o
  BY DEF o
<1>6. /\ DOMAIN Bound(c) = DOMAIN o /\ Bound(c)[c.line] = l
      /\ k # c.line => Bound(c)[k] = o[k]
  BY <1>1, <1>2, <1>5 DEF o
<1> QED
  BY <1>4, <1>6 DEF o

-----------------------------------------------------------------------------
(* What the lines of an item come to                                        *)

\* Only the items and the quantities matter.
LEMMA SameAggregates ==
  ASSUME NEW a, NEW b, NEW i, DOMAIN b = DOMAIN a,
         \A k \in DOMAIN a : b[k].quantity = a[k].quantity /\ (b[k].item = i <=> a[k].item = i)
  PROVE  Aggregate(b, i) = Aggregate(a, i)
<1> DEFINE Terms(o) == [k \in DOMAIN o |-> IF o[k].item = i THEN o[k].quantity ELSE 0]
<1>1. Terms(b) = Terms(a)
  OBVIOUS
<1> QED
  BY <1>1, Zenon DEF Aggregate

\* If one line alone has the item, it comes to that line.
LEMMA AggregateOfOne ==
  ASSUME NEW o \in Seq(Lines), NEW k \in DOMAIN o, NEW i, o[k].item = i,
         \A n \in DOMAIN o : n # k => o[n].item # i
  PROVE  Aggregate(o, i) \in 1 .. MaxAggregate
<1> DEFINE f == [n \in DOMAIN o |-> IF o[n].item = i THEN o[n].quantity ELSE 0]
<1>1. \A n \in DOMAIN o : o[n].quantity \in 1 .. MaxAggregate
  <2>1. \A n \in DOMAIN o : o[n] \in Lines
    OBVIOUS
  <2> QED
    BY <2>1 DEF Lines
<1>2. f \in [DOMAIN o -> Int] /\ f[k] = o[k].quantity /\ \A n \in (DOMAIN o) \ {k} : f[n] = 0
  BY <1>1
<1>3. IsFiniteSet(DOMAIN o)
  <2>1. DOMAIN o = 1 .. Len(o) /\ Len(o) \in Nat
    OBVIOUS
  <2> QED
    BY <2>1, FS_Interval
<1>4. Aggregate(o, i) = SumFunction(f)
  BY Zenon DEF Aggregate
<1> HIDE DEF f
<1>5. SumFunction(f) = f[k]
  BY <1>2, <1>3, SumOfOne
<1> QED
  BY <1>1, <1>2, <1>4, <1>5

StatusAfter(op, status) ==
  CASE op \in {"create", "submit"} -> "AGREEMENT_PENDING_MANAGER"
    [] op = "accept"               -> "PURCHASING"
    [] op = "return"               -> "AGREEMENT_REVISION_REQUIRED"
    [] op = "deliver"              -> "AWAITING_ACCEPTANCE"
    [] op = "complete"             -> "COMPLETED"
    [] OTHER                       -> status

RevisionsAfter(c, revisions) ==
  CASE c.op = "create"                   -> <<Prepared(c.order)>>
    [] c.op = "submit"                   -> Append(revisions, Prepared(c.order))
    [] c.op \in {"bind", "create_bind"}  -> [revisions EXCEPT ![Len(revisions)] = Bound(c)]
    [] OTHER                             -> revisions

\* Whom a notification reaches, of those that it is meant for.
Told(t, q, R) ==
  calls' = calls \cup ({q} \X {Len(requests[q].log) + 1} \X (R \cap Reachable))

\* The request after the command of t, column by column.
Posted(t, q) ==
  LET c == cmd[t]
      r == requests[q]
      s == requests'[q]
      assigns == c.op \in {"create", "take", "transfer"}
  IN /\ q \in Requests /\ IF c.op = "create" THEN r.status = "NONE" ELSE q = c.req
     /\ requests' \in [Requests -> RequestRows]
     /\ \A p \in Requests \ {q} : requests'[p] = requests[p]
     /\ s.log = Append(r.log, c)
     /\ Columns(s, StatusAfter(c.op, r.status), r.version + 1,
                IF c.op = "create" THEN c.actor ELSE r.initiator,
                IF assigns THEN c.manager ELSE r.manager,
                RevisionsAfter(c, r.revisions))
     /\ \E R : Told(t, q, R) /\ (assigns => c.manager \in R)
     /\ Finish(t, <<q, Len(r.log) + 1>>)
     /\ users' = users

\* Write replaces the request by one that has the command as its last event.
LEMMA WriteColumns ==
  ASSUME Typed, NEW t \in Txns, NEW q \in Requests, NEW r \in RequestRows, NEW R,
         cmd[t] \in Sent, r.log = requests[q].log, Write(t, q, r, R)
  PROVE  /\ requests' \in [Requests -> RequestRows]
         /\ \A p \in Requests \ {q} : requests'[p] = requests[p]
         /\ requests'[q].log = Append(requests[q].log, cmd[t])
         /\ Columns(requests'[q], r.status, r.version, r.initiator, r.manager, r.revisions)
         /\ Told(t, q, R) /\ Finish(t, <<q, Len(requests[q].log) + 1>>) /\ users' = users
<1> DEFINE s == [r EXCEPT !.log = Append(@, cmd[t])]
<1>1. Append(r.log, cmd[t]) \in Seq(Sent)
  BY DEF RequestRows
<1>2. /\ s \in RequestRows /\ s.log = Append(requests[q].log, cmd[t])
      /\ Columns(s, r.status, r.version, r.initiator, r.manager, r.revisions)
  BY <1>1 DEF RequestRows, Columns
<1>3. requests' = [requests EXCEPT ![q] = s]
  BY Zenon DEF Write, s
<1> HIDE DEF s
<1>4. /\ requests' \in [Requests -> RequestRows] /\ requests'[q] = s
      /\ \A p \in Requests \ {q} : requests'[p] = requests[p]
  BY <1>2, <1>3 DEF Typed
<1>5. Told(t, q, R) /\ Finish(t, <<q, Len(requests[q].log) + 1>>) /\ users' = users
  BY Zenon DEF Write, Told
<1> QED
  BY <1>2, <1>4, <1>5

\* What a command that writes relies on.
LEMMA AtPost ==
  ASSUME IInv, NEW t \in Txns, pc[t] = "post"
  PROVE  /\ cmd[t] \in Sent /\ CommandShape(cmd[t])
         /\ <<"user", cmd[t].actor>> \in held[t] /\ Able(cmd[t].actor, Needs(cmd[t].op))
         /\ cmd[t].op = "create" => Created(cmd[t]) = {}
         /\ cmd[t].op # "create" =>
              /\ <<"request", cmd[t].req>> \in held[t] /\ Fresh(cmd[t])
              /\ Known(cmd[t].req, cmd[t]) = {} /\ Permitted(cmd[t])
              /\ requests[cmd[t].req].revisions # <<>>
<1>1. cmd[t] # None /\ CommandShape(cmd[t])
  BY DEF IInv, TxnsInv, CommandsShaped
<1>2. cmd[t] \in Sent
  BY <1>1 DEF IInv, Typed
<1>3. /\ <<"user", cmd[t].actor>> \in held[t] /\ Able(cmd[t].actor, Needs(cmd[t].op))
      /\ cmd[t].op = "create" => Created(cmd[t]) = {}
      /\ cmd[t].op # "create" => Known(cmd[t].req, cmd[t]) = {} /\ Permitted(cmd[t])
  BY DEF IInv, TxnsInv, ActorsClaimed
<1>4. cmd[t].op # "create" => <<"request", cmd[t].req>> \in held[t] /\ Fresh(cmd[t])
  BY <1>3 DEF IInv, TxnsInv, RequestsClaimed
<1>5. cmd[t].op # "create" => requests[cmd[t].req].revisions # <<>>
  BY <1>1 DEF CommandShape, IInv, TablesInv, RequestsShaped
<1> QED
  BY <1>1, <1>2, <1>3, <1>4, <1>5

\* When the row that is written has the columns it should have, the command
\* is posted.
LEMMA WritePosts ==
  ASSUME Typed, NEW t \in Txns, NEW q \in Requests, NEW n \in RequestRows, NEW R,
         cmd[t] \in Sent, n.log = requests[q].log, Write(t, q, n, R),
         IF cmd[t].op = "create" THEN requests[q].status = "NONE" ELSE q = cmd[t].req,
         cmd[t].op \in {"create", "take", "transfer"} => cmd[t].manager \in R,
         Columns(n, StatusAfter(cmd[t].op, requests[q].status), requests[q].version + 1,
                 IF cmd[t].op = "create" THEN cmd[t].actor ELSE requests[q].initiator,
                 IF cmd[t].op \in {"create", "take", "transfer"} THEN cmd[t].manager
                                                                ELSE requests[q].manager,
                 RevisionsAfter(cmd[t], requests[q].revisions))
  PROVE  Posted(t, q)
<1>1. /\ requests' \in [Requests -> RequestRows]
      /\ \A p \in Requests \ {q} : requests'[p] = requests[p]
      /\ requests'[q].log = Append(requests[q].log, cmd[t])
      /\ Told(t, q, R) /\ Finish(t, <<q, Len(requests[q].log) + 1>>) /\ users' = users
      /\ Columns(requests'[q], n.status, n.version, n.initiator, n.manager, n.revisions)
  BY WriteColumns, Zenon
<1>2. Columns(requests'[q], StatusAfter(cmd[t].op, requests[q].status), requests[q].version + 1,
              IF cmd[t].op = "create" THEN cmd[t].actor ELSE requests[q].initiator,
              IF cmd[t].op \in {"create", "take", "transfer"} THEN cmd[t].manager
                                                             ELSE requests[q].manager,
              RevisionsAfter(cmd[t], requests[q].revisions))
  BY <1>1, Zenon DEF Columns
<1> QED
  BY <1>1, <1>2, Zenon DEF Posted

LEMMA PostPosts ==
  ASSUME IInv, NEW t \in Txns, Post(t)
  PROVE  /\ \E q \in Requests : Posted(t, q)
         /\ \/ items' = items
            \/ /\ cmd[t].op = "create_bind" /\ items[cmd[t].item] = NoItem
               /\ \E s : items' = [items EXCEPT ![cmd[t].item] = [status |-> "ACTIVE", signature |-> s]]
               /\ items' \in [Items -> ItemRows]
<1> DEFINE c == cmd[t]
           q == c.req
           r == requests[q]
<1>0. /\ pc[t] = "post" /\ Typed /\ c \in Sent /\ CommandShape(c)
      /\ c.op # "create" => Permitted(c) /\ r.revisions # <<>> /\ q \in Requests
      /\ c.op \in AllCommands /\ c.actor \in Users
  BY AtPost DEF Post, IInv, CommandShape, Sent
<1>1. c.op # "create" => q \in Requests /\ r \in RequestRows
  BY <1>0 DEF Typed
<1>2. /\ {"PURCHASING", "AGREEMENT_REVISION_REQUIRED", "AGREEMENT_PENDING_MANAGER",
          "AWAITING_ACCEPTANCE", "COMPLETED"} \subseteq Statuses
  BY DEF Statuses, Active, Agreement
<1> HIDE DEF c, r, q
<1>3. CASE create_request(t)
  <2> DEFINE n == [NoRequest EXCEPT !.status = "AGREEMENT_PENDING_MANAGER",
                                    !.version = 1, !.initiator = c.actor,
                                    !.manager = c.manager,
                                    !.revisions = <<Prepared(c.order)>>]
  <2>1. PICK p \in Requests : requests[p].status = "NONE" /\ Write(t, p, n, {c.manager})
    BY <1>3 DEF create_request, c, n
  <2>2. c.op = "create" /\ items' = items /\ c.manager \in Users /\ c.order \in Orders
    BY <1>0, <1>3, Zenon DEF create_request, CommandShape, c
  <2>3. <<Prepared(c.order)>> \in Seq(Seq(Lines))
    BY <1>0, <2>2, PreparedLines
  <2> DEFINE n1 == [NoRequest EXCEPT !.status = "AGREEMENT_PENDING_MANAGER"]
             n2 == [n1 EXCEPT !.version = 1]
             n3 == [n2 EXCEPT !.initiator = c.actor]
             n4 == [n3 EXCEPT !.manager = c.manager]
             n5 == [n4 EXCEPT !.revisions = <<Prepared(c.order)>>]
  <2>a. /\ n1 \in RequestRows /\ n1.log = <<>>
        /\ n1.status = "AGREEMENT_PENDING_MANAGER"
    <3>1. NoRequest \in RequestRows /\ NoRequest.log = <<>>
      BY DEF RequestRows, NoRequest
    <3> QED
      BY <1>2, <3>1 DEF RequestRows
  <2> HIDE DEF n1
  <2>b. /\ n2 \in RequestRows /\ n2.log = <<>>
        /\ n2.status = "AGREEMENT_PENDING_MANAGER" /\ n2.version = 1
    BY <2>a DEF RequestRows
  <2> HIDE DEF n2
  <2>c. /\ n3 \in RequestRows /\ n3.log = <<>>
        /\ n3.status = "AGREEMENT_PENDING_MANAGER" /\ n3.version = 1
        /\ n3.initiator = c.actor
    BY <1>0, <2>b DEF RequestRows
  <2> HIDE DEF n3
  <2>d. /\ n4 \in RequestRows /\ n4.log = <<>>
        /\ n4.status = "AGREEMENT_PENDING_MANAGER" /\ n4.version = 1
        /\ n4.initiator = c.actor /\ n4.manager = c.manager
    BY <2>2, <2>c DEF RequestRows
  <2> HIDE DEF n4
  <2>e. /\ n5 \in RequestRows /\ n5.log = <<>>
        /\ Columns(n5, "AGREEMENT_PENDING_MANAGER", 1, c.actor, c.manager, <<Prepared(c.order)>>)
    BY <2>3, <2>d DEF RequestRows, Columns
  <2>5. /\ n \in RequestRows /\ n.log = <<>>
        /\ Columns(n, "AGREEMENT_PENDING_MANAGER", 1, c.actor, c.manager, <<Prepared(c.order)>>)
    BY <2>e DEF n, n1, n2, n3, n4, n5
  <2> HIDE DEF n
  <2>6. requests[p] = NoRequest
    BY <2>1 DEF IInv, TablesInv, RequestsShaped
  <2>7. requests[p].log = <<>> /\ requests[p].version + 1 = 1
    BY <2>6 DEF NoRequest
  <2>9. /\ StatusAfter(c.op, requests[p].status) = "AGREEMENT_PENDING_MANAGER"
        /\ RevisionsAfter(c, requests[p].revisions) = <<Prepared(c.order)>>
    BY <2>2 DEF StatusAfter, RevisionsAfter
  <2>8. Posted(t, p)
    BY <1>0, <2>1, <2>2, <2>5, <2>7, <2>9, WritePosts DEF c
  <2> QED
    BY <2>2, <2>8
<1>4. CASE manager_accept(t)
  <2>1. /\ c.op = "accept" /\ items' = items /\ Write(t, q, Moved(r, "PURCHASING"), {})
    BY <1>4, Zenon DEF manager_accept, c, q, r
  <2>2. /\ Moved(r, "PURCHASING") \in RequestRows /\ Moved(r, "PURCHASING").log = r.log
        /\ Columns(Moved(r, "PURCHASING"), "PURCHASING", r.version + 1, r.initiator, r.manager, r.revisions)
    BY <1>1, <1>2, <2>1, MovedColumns
  <2>3. StatusAfter(c.op, r.status) = "PURCHASING" /\ RevisionsAfter(c, r.revisions) = r.revisions
    BY <2>1 DEF StatusAfter, RevisionsAfter
  <2>4. Posted(t, q)
    BY <1>0, <2>1, <2>2, <2>3, WritePosts DEF c, q, r
  <2> QED
    BY <1>0, <2>1, <2>4
<1>5. CASE return_for_correction(t)
  <2>1. /\ c.op = "return" /\ items' = items
        /\ Write(t, q, Moved(r, "AGREEMENT_REVISION_REQUIRED"), {r.initiator})
    BY <1>5, Zenon DEF return_for_correction, c, q, r
  <2>2. /\ Moved(r, "AGREEMENT_REVISION_REQUIRED") \in RequestRows /\ Moved(r, "AGREEMENT_REVISION_REQUIRED").log = r.log
        /\ Columns(Moved(r, "AGREEMENT_REVISION_REQUIRED"), "AGREEMENT_REVISION_REQUIRED", r.version + 1, r.initiator, r.manager, r.revisions)
    BY <1>1, <1>2, <2>1, MovedColumns
  <2>3. StatusAfter(c.op, r.status) = "AGREEMENT_REVISION_REQUIRED" /\ RevisionsAfter(c, r.revisions) = r.revisions
    BY <2>1 DEF StatusAfter, RevisionsAfter
  <2>4. Posted(t, q)
    BY <1>0, <2>1, <2>2, <2>3, WritePosts DEF c, q, r
  <2> QED
    BY <1>0, <2>1, <2>4
<1>7. CASE transfer_to_acceptance(t)
  <2>1. /\ c.op = "deliver" /\ items' = items
        /\ Write(t, q, Moved(r, "AWAITING_ACCEPTANCE"), {u \in Users : Able(u, AcceptRoles)})
    BY <1>7, Zenon DEF transfer_to_acceptance, c, q, r
  <2>2. /\ Moved(r, "AWAITING_ACCEPTANCE") \in RequestRows /\ Moved(r, "AWAITING_ACCEPTANCE").log = r.log
        /\ Columns(Moved(r, "AWAITING_ACCEPTANCE"), "AWAITING_ACCEPTANCE", r.version + 1, r.initiator, r.manager, r.revisions)
    BY <1>1, <1>2, <2>1, MovedColumns
  <2>3. StatusAfter(c.op, r.status) = "AWAITING_ACCEPTANCE" /\ RevisionsAfter(c, r.revisions) = r.revisions
    BY <2>1 DEF StatusAfter, RevisionsAfter
  <2>4. Posted(t, q)
    BY <1>0, <2>1, <2>2, <2>3, WritePosts DEF c, q, r
  <2> QED
    BY <1>0, <2>1, <2>4
<1>8. CASE report_discrepancy(t)
  <2>1. /\ c.op = "discrepancy" /\ items' = items /\ Write(t, q, Touched(r), {r.manager})
    BY <1>8, Zenon DEF report_discrepancy, c, q, r
  <2>2. /\ Touched(r) \in RequestRows /\ Touched(r).log = r.log
        /\ Columns(Touched(r), r.status, r.version + 1, r.initiator, r.manager, r.revisions)
    BY <1>1, <1>2, <2>1, MovedColumns
  <2>3. StatusAfter(c.op, r.status) = r.status /\ RevisionsAfter(c, r.revisions) = r.revisions
    BY <2>1 DEF StatusAfter, RevisionsAfter
  <2>4. Posted(t, q)
    BY <1>0, <2>1, <2>2, <2>3, WritePosts DEF c, q, r
  <2> QED
    BY <1>0, <2>1, <2>4
<1>9. CASE complete_acceptance(t)
  <2>1. /\ c.op = "complete" /\ items' = items
        /\ \E R : Write(t, q, Moved(r, "COMPLETED"), R)
    BY <1>9, Zenon DEF complete_acceptance, c, q, r
  <2>2. /\ Moved(r, "COMPLETED") \in RequestRows /\ Moved(r, "COMPLETED").log = r.log
        /\ Columns(Moved(r, "COMPLETED"), "COMPLETED", r.version + 1, r.initiator, r.manager, r.revisions)
    BY <1>1, <1>2, <2>1, MovedColumns
  <2>3. StatusAfter(c.op, r.status) = "COMPLETED" /\ RevisionsAfter(c, r.revisions) = r.revisions
    BY <2>1 DEF StatusAfter, RevisionsAfter
  <2>4. Posted(t, q)
    BY <1>0, <2>1, <2>2, <2>3, WritePosts DEF c, q, r
  <2> QED
    BY <1>0, <2>1, <2>4

<1>6. CASE submit_revision(t)
  <2> DEFINE m == Moved(r, "AGREEMENT_PENDING_MANAGER")
             n == [m EXCEPT !.revisions = Append(@, Prepared(c.order))]
  <2>1. c.op = "submit" /\ items' = items /\ Write(t, q, n, {m.manager})
    BY <1>6, Zenon DEF submit_revision, c, q, r, m, n
  <2>2. /\ m \in RequestRows /\ m.log = r.log
        /\ Columns(m, "AGREEMENT_PENDING_MANAGER", r.version + 1, r.initiator, r.manager, r.revisions)
    BY <1>1, <1>2, <2>1, MovedColumns
  <2>3. Append(m.revisions, Prepared(c.order)) \in Seq(Seq(Lines))
    BY <1>0, <2>1, <2>2, PreparedLines DEF RequestRows, CommandShape
  <2> HIDE DEF m
  <2>4. /\ n \in RequestRows /\ n.log = r.log
        /\ Columns(n, "AGREEMENT_PENDING_MANAGER", r.version + 1, r.initiator, r.manager,
                   Append(r.revisions, Prepared(c.order)))
    BY <2>2, <2>3 DEF RequestRows, Columns
  <2> HIDE DEF n
  <2>5. Posted(t, q)
    BY <1>0, <1>1, <2>1, <2>4, WriteColumns
    DEF Posted, Columns, StatusAfter, RevisionsAfter, c, q, r
  <2> QED
    BY <1>0, <2>1, <2>5
<1>10. CASE change_assignment(t)
  <2> DEFINE m == Touched(r)
             n == [m EXCEPT !.manager = c.manager]
  <2>1. c.op \in {"take", "transfer"} /\ items' = items /\ Write(t, q, n, {c.manager})
    BY <1>10, Zenon DEF change_assignment, c, q, r, m, n
  <2>2. /\ m \in RequestRows /\ m.log = r.log
        /\ Columns(m, r.status, r.version + 1, r.initiator, r.manager, r.revisions)
    BY <1>1, <1>2, <2>1, MovedColumns
  <2>3. c.manager \in Users
    BY <1>0, <2>1 DEF CommandShape
  <2> HIDE DEF m
  <2>4. /\ n \in RequestRows /\ n.log = r.log
        /\ Columns(n, r.status, r.version + 1, r.initiator, c.manager, r.revisions)
    BY <2>2, <2>3 DEF RequestRows, Columns
  <2> HIDE DEF n
  <2>5. Posted(t, q)
    BY <1>0, <1>1, <2>1, <2>4, WriteColumns
    DEF Posted, Columns, StatusAfter, RevisionsAfter, c, q, r
  <2> QED
    BY <1>0, <2>1, <2>5
<1>11. ASSUME c.op \in {"bind", "create_bind"}, WriteBinding(t)
       PROVE  Posted(t, q)
  <2> DEFINE m == Touched(r)
             n == [m EXCEPT !.revisions[Len(m.revisions)] = Bound(c)]
             k == [m.revisions EXCEPT ![Len(m.revisions)] = Bound(c)]
  <2>1. Write(t, q, n, {})
    BY <1>11, Zenon DEF WriteBinding, c, q, r, m, n
  <2>2. /\ m \in RequestRows /\ m.log = r.log
        /\ Columns(m, r.status, r.version + 1, r.initiator, r.manager, r.revisions)
    BY <1>1, <1>2, <1>11, MovedColumns
  <2> HIDE DEF m
  <2>3. c.item \in Items /\ c.line \in DOMAIN Order(q)
    BY <1>0, <1>11 DEF CommandShape, Permitted, q
  <2>4. Bound(c) \in Seq(Lines)
    BY <1>0, <1>11, <2>3, BoundLines DEF q, r
  <2>5. k \in Seq(Seq(Lines)) /\ k = [r.revisions EXCEPT ![Len(r.revisions)] = Bound(c)]
    <3>1. m.revisions = r.revisions /\ r.revisions \in Seq(Seq(Lines))
      BY <1>1, <1>11, <2>2 DEF RequestRows, Columns
    <3>2. [r.revisions EXCEPT ![Len(r.revisions)] = Bound(c)] \in Seq(Seq(Lines))
      <4>1. Len(r.revisions) \in DOMAIN r.revisions
        BY <1>0, <1>11, <3>1
      <4> QED
        BY <2>4, <3>1, <4>1, ReplaceInSeq
    <3> QED
      BY <3>1, <3>2
  <2>6. n = [m EXCEPT !.revisions = k]
    BY Zenon DEF n, k
  <2> HIDE DEF n, k
  <2>7. /\ n \in RequestRows /\ n.log = r.log
        /\ Columns(n, r.status, r.version + 1, r.initiator, r.manager, k)
    BY <2>2, <2>5, <2>6 DEF RequestRows, Columns
  <2> QED
    BY <1>0, <1>1, <1>11, <2>1, <2>5, <2>7, WriteColumns
    DEF Posted, Columns, StatusAfter, RevisionsAfter, c, q, r
<1>12. CASE bind_line(t)
  BY <1>0, <1>11, <1>12 DEF bind_line, c
<1>13. CASE create_and_bind_line(t)
  <2> DEFINE s == Order(q)[c.line].signature
  <2>1. /\ c.op = "create_bind" /\ items[c.item] = NoItem /\ WriteBinding(t)
        /\ items' = [items EXCEPT ![c.item] = [status |-> "ACTIVE", signature |-> s]]
    BY <1>13, Zenon DEF create_and_bind_line, c, q, s
  <2>2. Posted(t, q)
    BY <1>11, <2>1
  <2>3. c.item \in Items /\ c.line \in DOMAIN Order(q)
    BY <1>0, <2>1 DEF CommandShape, Permitted, q
  <2>4. s \in Signatures \cup {None}
    <3>1. Order(q) \in Seq(Lines)
      BY <1>0, <2>1, <2>3, BoundLines DEF q, r
    <3>2. Order(q)[c.line] \in Lines
      BY <2>3, <3>1
    <3> QED
      BY <3>2 DEF Lines
  <2> HIDE DEF s
  <2>5. items' \in [Items -> ItemRows]
    BY <1>0, <2>1, <2>3, <2>4 DEF Typed, ItemRows
  <2> QED
    BY <1>0, <2>1, <2>2, <2>5 DEF c
<1> QED
  BY <1>3, <1>4, <1>5, <1>6, <1>7, <1>8, <1>9, <1>10, <1>12, <1>13 DEF Post

-----------------------------------------------------------------------------
(* The kinds of steps                                                       *)

\* A command arrives.
Begins(t) == \E c \in Sent : Begin(t, c) /\ CommandShape(c)

\* A command locks what it needs next and passes the checks of its stage.
PassesActor(t) ==
  LET c == cmd[t] IN
  /\ pc[t] = "actor" /\ Free(t, <<"user", c.actor>>) /\ Able(c.actor, Needs(c.op))
  /\ IF c.op = "create" THEN Created(c) = {} ELSE Known(c.req, c) = {} /\ Permitted(c)
  /\ Acquire(t, {<<"user", c.actor>>}, AfterActor(c))

Passes(t) == LockRequest(t) \/ PassesActor(t) \/ LockManager(t) \/ LockItems(t)

\* A command ends without a write; what it reports is in the log.
Ends(t) ==
  /\ UNCHANGED tables
  /\ \/ Finish(t, None)
     \/ \E q \in Requests : \E n \in Events(q) :
          requests[q].log[n] = cmd[t] /\ Finish(t, <<q, n>>)

LEMMA PlainSent ==
  ASSUME NEW op \in AllCommands, NEW u \in Users, NEW k \in Keys
  PROVE  Plain(op, u, k) \in Sent /\ Plain(op, u, k).op = op /\ Plain(op, u, k).req = None
BY ProcurementAssumption DEF Plain, Sent

LEMMA AboutSent ==
  ASSUME Typed, NEW op \in AllCommands, NEW u \in Users, NEW k \in Keys, NEW q \in Requests,
         requests[q].version <= MaxVersion
  PROVE  /\ About(q, op, u, k) \in Sent /\ About(q, op, u, k).op = op
         /\ About(q, op, u, k).req = q
         /\ About(q, op, u, k).version = requests[q].version
<1> DEFINE c0 == Plain(op, u, k)
           c1 == [c0 EXCEPT !.req = q]
           c2 == [c1 EXCEPT !.version = requests[q].version]
           c3 == [c2 EXCEPT !.revision = Len(requests[q].revisions)]
<1>0. requests[q].version \in 0 .. MaxVersion /\ Len(requests[q].revisions) \in Nat
  BY ProcurementAssumption DEF Typed, RequestRows
<1>1. c0 \in Sent /\ c0.op = op
  BY PlainSent
<1> HIDE DEF c0
<1>2. c1 \in Sent /\ c1.op = op /\ c1.req = q
  BY <1>1 DEF Sent
<1> HIDE DEF c1
<1>3. c2 \in Sent /\ c2.op = op /\ c2.req = q /\ c2.version = requests[q].version
  BY <1>0, <1>2 DEF Sent
<1> HIDE DEF c2
<1>4. c3 \in Sent /\ c3.op = op /\ c3.req = q /\ c3.version = requests[q].version
  BY <1>0, <1>3 DEF Sent
<1> QED
  BY <1>4 DEF About, c0, c1, c2, c3

LEMMA SendCreateBegins ==
  ASSUME Typed, NEW t \in Txns, SendCreate(t)
  PROVE  Begins(t)
<1>1. PICK u \in Users, m \in Users, k \in KeyChoice, o \in Orders :
        Begin(t, [Plain("create", u, k) EXCEPT !.manager = m, !.order = o])
  BY Zenon DEF SendCreate
<1> DEFINE c0 == Plain("create", u, k)
           c1 == [c0 EXCEPT !.manager = m]
           c2 == [c1 EXCEPT !.order = o]
<1>2. k \in Keys /\ "create" \in AllCommands
  BY DEF KeyChoice, AllCommands, CreateCommands
<1>3. c0 \in Sent /\ c0.op = "create" /\ c0.req = None
  BY <1>2, PlainSent
<1> HIDE DEF c0
<1>4. c1 \in Sent /\ c1.op = "create" /\ c1.req = None /\ c1.manager = m
  BY <1>3 DEF Sent
<1> HIDE DEF c1
<1>5. c2 \in Sent /\ c2.op = "create" /\ c2.req = None /\ c2.manager = m /\ c2.order = o
  BY <1>4 DEF Sent
<1>6. Begin(t, c2)
  BY <1>1 DEF c0, c1, c2
<1> HIDE DEF c2
<1>7. CommandShape(c2)
  BY <1>5 DEF CommandShape
<1> QED
  BY <1>5, <1>6, <1>7 DEF Begins

LEMMA SendMutationBegins ==
  ASSUME Typed, RequestsShaped, NEW t \in Txns, SendMutation(t)
  PROVE  Begins(t)
<1>1. PICK q \in Requests, u \in Users, k \in KeyChoice, op \in Commands \ {"create"} :
        /\ requests[q].status # "NONE" /\ requests[q].version < MaxVersion
        /\ \/ /\ op \in {"accept", "return", "deliver", "discrepancy", "complete"}
              /\ Begin(t, About(q, op, u, k))
           \/ /\ op = "submit"
              /\ \E o \in Orders : Begin(t, [About(q, op, u, k) EXCEPT !.order = o])
           \/ /\ op = "take"
              /\ Begin(t, [About(q, op, u, k) EXCEPT !.expected = requests[q].manager,
                                                     !.manager = u])
           \/ /\ op = "transfer"
              /\ \E m \in Users :
                   Begin(t, [About(q, op, u, k) EXCEPT !.expected = requests[q].manager,
                                                       !.manager = m])
           \/ /\ op \in {"bind", "create_bind"}
              /\ \E l \in DOMAIN Order(q), i \in Items :
                   Begin(t, [About(q, op, u, k) EXCEPT !.line = l, !.item = i])
  BY Zenon DEF SendMutation
<1> DEFINE c == About(q, op, u, k)
<1>2. k \in Keys /\ op \in AllCommands
  BY ProcurementAssumption DEF KeyChoice
<1>3. requests[q].version <= MaxVersion /\ requests[q] \in RequestRows
  <2>1. requests[q] \in RequestRows
    BY DEF Typed
  <2>2. requests[q].version \in Nat
    BY <2>1 DEF RequestRows
  <2> QED
    <3>1. requests[q].version < MaxVersion /\ MaxVersion \in Nat
      BY <1>1, ProcurementAssumption, Zenon
    <3> QED
      BY <2>1, <2>2, <3>1
<1>4. c \in Sent /\ c.op = op /\ c.req = q /\ c.version = requests[q].version
  BY <1>2, <1>3, AboutSent
<1> HIDE DEF c
<1>5. CASE op \in {"accept", "return", "deliver", "discrepancy", "complete"} /\ Begin(t, c)
  BY <1>1, <1>4, <1>5 DEF Begins, CommandShape
<1>6. ASSUME op = "submit", NEW o \in Orders, Begin(t, [c EXCEPT !.order = o])
      PROVE  Begins(t)
  <2> DEFINE d == [c EXCEPT !.order = o]
  <2>1. d \in Sent /\ d.op = op /\ d.req = q /\ d.version = requests[q].version /\ d.order = o
    BY <1>4 DEF Sent
  <2> HIDE DEF d
  <2>2. CommandShape(d)
    BY <1>1, <1>6, <2>1 DEF CommandShape
  <2> QED
    BY <1>6, <2>1, <2>2 DEF Begins, d
<1>7. ASSUME op \in {"take", "transfer"}, NEW m \in Users,
             Begin(t, [c EXCEPT !.expected = requests[q].manager, !.manager = m])
      PROVE  Begins(t)
  <2> DEFINE d == [c EXCEPT !.expected = requests[q].manager]
             e == [d EXCEPT !.manager = m]
  <2>1. requests[q].manager \in Users \cup {None}
    BY <1>3 DEF RequestRows
  <2>2. d \in Sent /\ d.op = op /\ d.req = q /\ d.version = requests[q].version
    BY <1>4, <2>1 DEF Sent
  <2> HIDE DEF d
  <2>3. e \in Sent /\ e.op = op /\ e.req = q /\ e.version = requests[q].version /\ e.manager = m
    BY <2>2 DEF Sent
  <2>4. Begin(t, e)
    BY <1>7 DEF d, e
  <2> HIDE DEF e
  <2>5. CommandShape(e)
    BY <1>1, <1>7, <2>3 DEF CommandShape
  <2> QED
    BY <2>3, <2>4, <2>5 DEF Begins
<1>8. ASSUME op \in {"bind", "create_bind"}, NEW l \in DOMAIN Order(q), NEW i \in Items,
             Begin(t, [c EXCEPT !.line = l, !.item = i])
      PROVE  Begins(t)
  <2> DEFINE d == [c EXCEPT !.line = l]
             e == [d EXCEPT !.item = i]
  <2>1. Order(q) \in Seq(Lines)
    <3>1. requests[q].revisions # <<>>
      BY <1>1 DEF RequestsShaped
    <3>2. requests[q].revisions \in Seq(Seq(Lines))
      BY <1>3 DEF RequestRows
    <3> QED
      BY <3>1, <3>2 DEF Order, Last
  <2>a. l \in Nat
    BY <2>1
  <2>2. d \in Sent /\ d.op = op /\ d.req = q /\ d.version = requests[q].version
    BY <1>4, <2>a DEF Sent
  <2> HIDE DEF d
  <2>3. e \in Sent /\ e.op = op /\ e.req = q /\ e.version = requests[q].version /\ e.item = i
    BY <2>2 DEF Sent
  <2>4. Begin(t, e)
    BY <1>8 DEF d, e
  <2> HIDE DEF e
  <2>5. CommandShape(e)
    BY <1>1, <1>8, <2>3 DEF CommandShape
  <2> QED
    BY <2>3, <2>4, <2>5 DEF Begins
<1> QED
  BY <1>1, <1>5, <1>6, <1>7, <1>8 DEF c

LEMMA ResendBegins ==
  ASSUME IInv, NEW t \in Txns, Resend(t)
  PROVE  Begins(t)
<1>1. PICK c \in Sendings : Begin(t, c)
  BY DEF Resend
<1>2. CASE \E q \in Requests : c \in Range(requests[q].log)
  <2>0. PICK q \in Requests : c \in Range(requests[q].log)
    BY <1>2
  <2>1. PICK n \in Events(q) : c = requests[q].log[n]
    BY <2>0 DEF Range, Events
  <2>2. requests[q].log \in Seq(Sent)
    BY DEF IInv, Typed, RequestRows
  <2>3. c \in Sent
    BY <2>1, <2>2 DEF Events
  <2>4. CommandShape(c)
    BY <2>1 DEF IInv, TablesInv, EventsShaped
  <2> QED
    BY <1>1, <2>3, <2>4 DEF Begins
<1>3. CASE c \in {cmd[s] : s \in Txns} \ {None}
  <2>1. PICK s \in Txns : c = cmd[s] /\ cmd[s] # None
    BY <1>3
  <2>2. c \in Sent
    BY <2>1 DEF IInv, Typed
  <2>3. CommandShape(c)
    BY <2>1 DEF IInv, TxnsInv, CommandsShaped
  <2> QED
    BY <1>1, <2>2, <2>3 DEF Begins
<1> QED
  BY <1>2, <1>3 DEF Sendings

LEMMA LockActorKinds ==
  ASSUME IInv, NEW t \in Txns, LockActor(t)
  PROVE  PassesActor(t) \/ Ends(t)
<1> DEFINE c == cmd[t]
           replies == IF c.op = "create" THEN Created(c) \X {1} ELSE {c.req} \X Known(c.req, c)
<1>1. /\ pc[t] = "actor" /\ Free(t, <<"user", c.actor>>) /\ Able(c.actor, Needs(c.op))
      /\ \/ /\ replies = {} /\ (c.op = "create" \/ Permitted(c))
            /\ Acquire(t, {<<"user", c.actor>>}, AfterActor(c))
         \/ \E a \in replies : /\ requests[a[1]].log[a[2]] = c
                               /\ Finish(t, a) /\ UNCHANGED tables
  BY Zenon DEF LockActor, SamePrint
<1>2. cmd[t] # None /\ CommandShape(c)
  BY <1>1 DEF IInv, TxnsInv, CommandsShaped
<1>3. CASE /\ replies = {} /\ (c.op = "create" \/ Permitted(c))
           /\ Acquire(t, {<<"user", c.actor>>}, AfterActor(c))
  <2>1. ASSUME c.op = "create", NEW q \in Created(c) PROVE FALSE
    <3>1. <<q, 1>> \in replies
      BY <2>1
    <3> QED
      BY <1>3, <3>1
  <2>2. ASSUME c.op # "create", NEW n \in Known(c.req, c) PROVE FALSE
    <3>1. <<c.req, n>> \in replies
      BY <2>2
    <3> QED
      BY <1>3, <3>1
  <2>3. IF c.op = "create" THEN Created(c) = {} ELSE Known(c.req, c) = {} /\ Permitted(c)
    BY <1>3, <2>1, <2>2
  <2> QED
    BY <1>1, <1>3, <2>3, Zenon DEF PassesActor
<1>4. ASSUME NEW a \in replies, requests[a[1]].log[a[2]] = c, Finish(t, a), UNCHANGED tables
      PROVE  Ends(t)
  <2>1. a = <<a[1], a[2]>> /\ a[1] \in Requests /\ a[2] \in Events(a[1])
    <3>1. CASE c.op = "create"
      <4>1. a[1] \in Created(c) /\ a[2] = 1 /\ a = <<a[1], a[2]>>
        BY <3>1, <1>4
      <4>2. a[1] \in Requests /\ requests[a[1]].log # <<>> /\ requests[a[1]].log \in Seq(Sent)
        BY <4>1 DEF Created, IInv, TablesInv, RequestsShaped, Typed, RequestRows
      <4> QED
        BY <4>1, <4>2 DEF Events
    <3>2. CASE c.op # "create"
      <4>1. a[1] = c.req /\ a[2] \in Known(c.req, c) /\ a = <<a[1], a[2]>>
        BY <3>2, <1>4
      <4> QED
        BY <1>2, <3>2, <4>1 DEF Known, CommandShape
    <3> QED
      BY <3>1, <3>2
  <2>2. Finish(t, <<a[1], a[2]>>)
    BY <1>4, <2>1
  <2> QED
    BY <1>4, <2>1, <2>2 DEF Ends
<1> QED
  BY <1>1, <1>3, <1>4

\* Every step is of one of these kinds.
Kinds ==
  \/ \E t \in Txns : Begins(t) \/ Passes(t) \/ Ends(t) \/ Post(t)
                     \/ LockTarget(t) \/ ChangeUser(t)
  \/ EditCatalog
  \/ UNCHANGED vars

LEMMA NextKinds ==
  ASSUME IInv, [Next]_vars
  PROVE  Kinds
<1>1. ASSUME NEW t \in Txns, SendCreate(t) \/ SendMutation(t) \/ Resend(t)
      PROVE  Begins(t)
  BY <1>1, SendCreateBegins, SendMutationBegins, ResendBegins DEF IInv, TablesInv
<1>2. ASSUME NEW t \in Txns, Rollback(t) PROVE Ends(t)
  BY <1>2 DEF Rollback, Ends
<1>3. ASSUME NEW t \in Txns, LockActor(t) PROVE Passes(t) \/ Ends(t)
  BY <1>3, LockActorKinds DEF Passes
<1> QED
  BY <1>1, <1>2, <1>3 DEF Next, Run, Kinds, Passes

-----------------------------------------------------------------------------
(* Types                                                                    *)

\* A transaction that finishes.
LEMMA FinishTyped ==
  ASSUME Typed, NEW t \in Txns, NEW a \in {None} \cup (Requests \X Nat), Finish(t, a)
  PROVE  /\ pc' \in [Txns -> Stages] /\ cmd' \in [Txns -> Sent \cup {None}]
         /\ change' \in [Txns -> {None} \cup [op : AdminOps, user : Users, row : UserRows]]
         /\ DOMAIN held' = Txns /\ answer' \in [Txns -> {None} \cup (Requests \X Nat)]
         /\ pc'[t] = "idle" /\ held'[t] = {} /\ answer'[t] = a
         /\ \A s \in Txns \ {t} : /\ pc'[s] = pc[s] /\ cmd'[s] = cmd[s] /\ change'[s] = change[s]
                                  /\ held'[s] = held[s] /\ answer'[s] = answer[s]
         /\ a # None => cmd'[t] = cmd[t]
<1>1. "idle" \in Stages
  BY DEF Stages
<1>2. pc' \in [Txns -> Stages] /\ pc'[t] = "idle" /\ \A s \in Txns \ {t} : pc'[s] = pc[s]
  BY <1>1 DEF Typed, Finish
<1>3. DOMAIN held' = Txns /\ held'[t] = {} /\ \A s \in Txns \ {t} : held'[s] = held[s]
  BY DEF Typed, Finish
<1>4. /\ answer' \in [Txns -> {None} \cup (Requests \X Nat)] /\ answer'[t] = a
      /\ \A s \in Txns \ {t} : answer'[s] = answer[s]
  BY DEF Typed, Finish
<1>5. /\ cmd' \in [Txns -> Sent \cup {None}] /\ (a # None => cmd'[t] = cmd[t])
      /\ \A s \in Txns \ {t} : cmd'[s] = cmd[s]
  BY DEF Typed, Finish
<1>6. /\ change' \in [Txns -> {None} \cup [op : AdminOps, user : Users, row : UserRows]]
      /\ \A s \in Txns \ {t} : change'[s] = change[s]
  BY DEF Typed, Finish
<1> QED
  BY <1>2, <1>3, <1>4, <1>5, <1>6

\* A transaction that advances.
LEMMA AcquireTyped ==
  ASSUME Typed, NEW t \in Txns, NEW rows, NEW stage \in Stages, Acquire(t, rows, stage)
  PROVE  /\ pc' \in [Txns -> Stages] /\ DOMAIN held' = Txns
         /\ pc'[t] = stage /\ held'[t] = held[t] \cup rows
         /\ \A s \in Txns \ {t} : pc'[s] = pc[s] /\ held'[s] = held[s]
         /\ users' = users /\ items' = items /\ requests' = requests /\ calls' = calls
         /\ cmd' = cmd /\ change' = change /\ answer' = answer
BY DEF Typed, Acquire, tables

\* A command that arrives.
LEMMA BeginTyped ==
  ASSUME Typed, NEW t \in Txns, NEW c \in Sent, Begin(t, c)
  PROVE  /\ pc' \in [Txns -> Stages] /\ cmd' \in [Txns -> Sent \cup {None}]
         /\ answer' \in [Txns -> {None} \cup (Requests \X Nat)]
         /\ pc'[t] = (IF c.op = "create" THEN "actor" ELSE "request") /\ cmd'[t] = c
         /\ answer'[t] = None
         /\ \A s \in Txns \ {t} : pc'[s] = pc[s] /\ cmd'[s] = cmd[s] /\ answer'[s] = answer[s]
         /\ users' = users /\ items' = items /\ requests' = requests /\ calls' = calls
         /\ change' = change /\ held' = held /\ pc[t] = "idle"
BY DEF Typed, Begin, tables, Stages

LEMMA PassesAcquires ==
  ASSUME CommandsShaped, Typed, NEW t \in Txns, Passes(t)
  PROVE  \E rows, stage : /\ stage \in {"actor", "manager", "items", "post"}
                          /\ Acquire(t, rows, stage) /\ \A row \in rows : Free(t, row)
                          /\ pc[t] \notin {"idle", "admin"}
<1>1. CASE LockRequest(t)
  BY <1>1 DEF LockRequest
<1>2. CASE PassesActor(t)
  <2>1. AfterActor(cmd[t]) \in {"manager", "items", "post"}
    BY DEF AfterActor
  <2> QED
    BY <1>2, <2>1 DEF PassesActor
<1>3. CASE LockManager(t)
  BY <1>3 DEF LockManager
<1>4. CASE LockItems(t)
  BY <1>4 DEF LockItems
<1> QED
  BY <1>1, <1>2, <1>3, <1>4 DEF Passes

LEMMA EndsFinishes ==
  ASSUME Typed, NEW t \in Txns, Ends(t)
  PROVE  \E a \in {None} \cup (Requests \X Nat) :
           /\ Finish(t, a)
           /\ users' = users /\ items' = items /\ requests' = requests /\ calls' = calls
           /\ a # None => a[2] \in Events(a[1]) /\ requests[a[1]].log[a[2]] = cmd[t]
<1>1. users' = users /\ items' = items /\ requests' = requests /\ calls' = calls
  BY DEF Ends, tables
<1>2. ASSUME NEW q \in Requests, NEW n \in Events(q) PROVE n \in Nat
  BY DEF Typed, RequestRows, Events
<1>3. CASE Finish(t, None)
  BY <1>1, <1>3
<1>4. ASSUME NEW q \in Requests, NEW n \in Events(q),
             requests[q].log[n] = cmd[t], Finish(t, <<q, n>>)
      PROVE  \E a \in {None} \cup (Requests \X Nat) :
               /\ Finish(t, a)
               /\ a # None => a[2] \in Events(a[1]) /\ requests[a[1]].log[a[2]] = cmd[t]
  <2>1. <<q, n>> \in Requests \X Nat /\ <<q, n>>[1] = q /\ <<q, n>>[2] = n
    BY <1>2
  <2> QED
    BY <1>4, <2>1
<1> QED
  BY <1>1, <1>3, <1>4 DEF Ends

\* The change that an administrator asks for.
LEMMA ChangeTyped ==
  ASSUME Typed, NEW op \in AdminOps, NEW u \in Users, NEW role \in AssignedRoles
  PROVE  Change(op, u, role) \in UserRows /\ (Change(op, u, role).identity => users[u].identity)
<1>1. users[u] \in UserRows /\ role \in Roles /\ op \in {"access", "role", "reset"}
  BY ProcurementAssumption DEF Typed
<1>2. "ENGINEER" \in Roles
  BY DEF Roles
<1> QED
  BY <1>1, <1>2 DEF Change, UserRows

LEMMA LockTargetStep ==
  ASSUME Typed, NEW t \in Txns, LockTarget(t)
  PROVE  \E op \in AdminOps, u \in Users, role \in AssignedRoles :
           LET new == Change(op, u, role) IN
           /\ pc[t] = "idle" /\ Free(t, <<"user", u>>)
           /\ Spared(op, u, new) /\ new \in UserRows /\ (new.identity => users[u].identity)
           /\ pc' \in [Txns -> Stages] /\ pc'[t] = "admin"
           /\ DOMAIN held' = Txns /\ held'[t] = {<<"user", u>>}
           /\ change' \in [Txns -> {None} \cup [op : AdminOps, user : Users, row : UserRows]]
           /\ change'[t] = [op |-> op, user |-> u, row |-> new]
           /\ \A s \in Txns \ {t} :
                pc'[s] = pc[s] /\ held'[s] = held[s] /\ change'[s] = change[s]
           /\ users' = users /\ items' = items /\ requests' = requests /\ calls' = calls
           /\ cmd' = cmd /\ answer' = answer
<1>1. PICK op \in AdminOps, u \in Users, role \in AssignedRoles :
        LET new == Change(op, u, role) IN
        /\ pc[t] = "idle" /\ Free(t, <<"user", u>>) /\ Spared(op, u, new)
        /\ pc' = [pc EXCEPT ![t] = "admin"]
        /\ held' = [held EXCEPT ![t] = {<<"user", u>>}]
        /\ change' = [change EXCEPT ![t] = [op |-> op, user |-> u, row |-> new]]
        /\ UNCHANGED <<tables, cmd, answer>>
  BY Zenon DEF LockTarget
<1> DEFINE new == Change(op, u, role)
<1>2. new \in UserRows /\ (new.identity => users[u].identity)
  BY ChangeTyped
<1> HIDE DEF new
<1>3. [op |-> op, user |-> u, row |-> new] \in [op : AdminOps, user : Users, row : UserRows]
  BY <1>2
<1>4. pc' \in [Txns -> Stages] /\ pc'[t] = "admin" /\ \A s \in Txns \ {t} : pc'[s] = pc[s]
  BY <1>1 DEF Typed, Stages
<1>5. DOMAIN held' = Txns /\ held'[t] = {<<"user", u>>} /\ \A s \in Txns \ {t} : held'[s] = held[s]
  BY <1>1 DEF Typed
<1>6. /\ change' \in [Txns -> {None} \cup [op : AdminOps, user : Users, row : UserRows]]
      /\ change'[t] = [op |-> op, user |-> u, row |-> new]
      /\ \A s \in Txns \ {t} : change'[s] = change[s]
  BY <1>1, <1>3 DEF Typed, new
<1>7. /\ users' = users /\ items' = items /\ requests' = requests /\ calls' = calls
      /\ cmd' = cmd /\ answer' = answer
  BY <1>1 DEF tables
<1>8. pc[t] = "idle" /\ Free(t, <<"user", u>>) /\ Spared(op, u, new)
  BY <1>1 DEF new
<1> QED
  BY <1>2, <1>4, <1>5, <1>6, <1>7, <1>8 DEF new

LEMMA ChangeUserStep ==
  ASSUME Typed, TargetsClaimed, NEW t \in Txns, ChangeUser(t)
  PROVE  /\ pc[t] = "admin" /\ Finish(t, None)
         /\ change[t].user \in Users /\ change[t].row \in UserRows
         /\ change[t].row.identity => users[change[t].user].identity
         /\ users' \in [Users -> UserRows] /\ users'[change[t].user] = change[t].row
         /\ \A u \in Users \ {change[t].user} : users'[u] = users[u]
         /\ items' = items /\ requests' = requests /\ calls' = calls
<1>1. /\ pc[t] = "admin" /\ change[t] \in [op : AdminOps, user : Users, row : UserRows]
      /\ change[t].row.identity => users[change[t].user].identity
  BY DEF ChangeUser, TargetsClaimed
<1>2. change[t].user \in Users /\ change[t].row \in UserRows
  BY <1>1
<1> QED
  BY <1>1, <1>2 DEF ChangeUser, Typed

LEMMA EditStep ==
  ASSUME Typed, EditCatalog
  PROVE  \E i \in Items :
           /\ ItemFree(i) /\ items' \in [Items -> ItemRows]
           /\ \A j \in Items \ {i} : items'[j] = items[j]
           /\ items'[i].status = "ABSENT" => ~InUse(i)
           /\ users' = users /\ requests' = requests /\ calls' = calls /\ pc' = pc
           /\ cmd' = cmd /\ change' = change /\ held' = held /\ answer' = answer
<1>1. PICK i \in Items : \/ set_item_archived(i) \/ delete_unused_item(i)
                         \/ \E s \in Signatures : update_item(i, s)
  BY DEF EditCatalog
<1>2. /\ users' = users /\ requests' = requests /\ calls' = calls /\ pc' = pc
      /\ cmd' = cmd /\ change' = change /\ held' = held /\ answer' = answer
  BY DEF EditCatalog
<1>3. items[i] \in ItemRows
  BY DEF Typed
<1>4. ASSUME NEW s \in Signatures, update_item(i, s)
      PROVE  /\ ItemFree(i) /\ items' = [items EXCEPT ![i] = [items[i] EXCEPT !.signature = s]]
             /\ [items[i] EXCEPT !.signature = s] \in ItemRows
             /\ [items[i] EXCEPT !.signature = s].status # "ABSENT"
  BY <1>3, <1>4 DEF update_item, ItemRows
<1>5. ASSUME set_item_archived(i)
      PROVE  \E v \in {"ACTIVE", "ARCHIVED"} :
               /\ ItemFree(i) /\ items' = [items EXCEPT ![i] = [items[i] EXCEPT !.status = v]]
               /\ [items[i] EXCEPT !.status = v] \in ItemRows
               /\ [items[i] EXCEPT !.status = v].status # "ABSENT"
  BY <1>3, <1>5 DEF set_item_archived, ItemRows
<1>6. ASSUME delete_unused_item(i)
      PROVE  ItemFree(i) /\ items' = [items EXCEPT ![i] = NoItem] /\ NoItem \in ItemRows /\ ~InUse(i)
  BY <1>6 DEF delete_unused_item, ItemRows, NoItem
<1>7. \E r \in ItemRows : /\ ItemFree(i) /\ items' = [items EXCEPT ![i] = r]
                          /\ r.status = "ABSENT" => ~InUse(i)
  BY <1>1, <1>4, <1>5, <1>6
<1>8. /\ ItemFree(i) /\ items' \in [Items -> ItemRows]
      /\ \A j \in Items \ {i} : items'[j] = items[j]
      /\ items'[i].status = "ABSENT" => ~InUse(i)
  BY <1>7 DEF Typed
<1> QED
  BY <1>2, <1>8

\* The version of the request that a command is posted to is below the bound.
LEMMA PostedBelow ==
  ASSUME IInv, NEW t \in Txns, pc[t] = "post", NEW q \in Requests, Posted(t, q)
  PROVE  /\ Len(requests[q].log) \in Nat /\ requests[q].version = Len(requests[q].log)
         /\ Len(requests[q].log) + 1 \in 1 .. MaxVersion
         /\ cmd[t].op # "create" => cmd[t].version = Len(requests[q].log)
         /\ requests[q].log \in Seq(Sent)
<1>1. requests[q].log \in Seq(Sent) /\ requests[q].version = Len(requests[q].log)
  BY DEF IInv, Typed, RequestRows, TablesInv, SeenIsApplied
<1>2. MaxVersion \in Nat \ {0}
  BY ProcurementAssumption
<1>3. CASE cmd[t].op = "create"
  <2>1. requests[q] = NoRequest
    BY <1>3 DEF Posted, IInv, TablesInv, RequestsShaped
  <2>2. requests[q].log = <<>>
    BY <2>1 DEF NoRequest
  <2> QED
    BY <1>1, <1>2, <1>3, <2>2
<1>4. CASE cmd[t].op # "create"
  <2>1. q = cmd[t].req /\ cmd[t].version = requests[q].version /\ cmd[t].version < MaxVersion
    BY <1>4, AtPost DEF Posted, Fresh, CommandShape
  <2> QED
    BY <1>1, <1>2, <1>4, <2>1
<1> QED
  BY <1>3, <1>4

LEMMA PostTyped ==
  ASSUME IInv, NEW t \in Txns, Post(t)
  PROVE  Typed'
<1>1. PICK q \in Requests : Posted(t, q)
  BY PostPosts
<1>2. pc[t] = "post" /\ Typed
  BY DEF Post, IInv
<1>3. Len(requests[q].log) + 1 \in 1 .. MaxVersion /\ Len(requests[q].log) \in Nat
  BY <1>1, <1>2, PostedBelow
<1>4. <<q, Len(requests[q].log) + 1>> \in Requests \X Nat
  BY <1>3
<1>5. /\ pc' \in [Txns -> Stages] /\ cmd' \in [Txns -> Sent \cup {None}]
      /\ change' \in [Txns -> {None} \cup [op : AdminOps, user : Users, row : UserRows]]
      /\ DOMAIN held' = Txns /\ answer' \in [Txns -> {None} \cup (Requests \X Nat)]
  BY <1>1, <1>2, <1>4, FinishTyped DEF Posted
<1>6. items' \in [Items -> ItemRows]
  BY <1>2, PostPosts DEF Typed
<1>7. users' \in [Users -> UserRows] /\ requests' \in [Requests -> RequestRows]
  BY <1>1, <1>2 DEF Posted, Typed
<1>8. calls' \subseteq Requests \X (1 .. MaxVersion) \X Users
  <2>1. PICK R : Told(t, q, R)
    BY <1>1 DEF Posted
  <2>2. {q} \X {Len(requests[q].log) + 1} \X (R \cap Reachable)
          \subseteq Requests \X (1 .. MaxVersion) \X Users
    BY <1>3 DEF Reachable
  <2> QED
    BY <1>2, <2>1, <2>2 DEF Told, Typed
<1> QED
  BY <1>5, <1>6, <1>7, <1>8 DEF Typed

LEMMA NextTyped ==
  ASSUME IInv, Kinds
  PROVE  Typed'
<1>0. Typed /\ CommandsShaped /\ TargetsClaimed
  BY DEF IInv, TxnsInv
<1>1. ASSUME NEW t \in Txns, Begins(t) PROVE Typed'
  <2>1. PICK c \in Sent : Begin(t, c)
    BY <1>1 DEF Begins
  <2> QED
    BY <1>0, <2>1, BeginTyped DEF Typed
<1>2. ASSUME NEW t \in Txns, Passes(t) PROVE Typed'
  <2>1. PICK rows, stage : stage \in {"actor", "manager", "items", "post"} /\ Acquire(t, rows, stage)
    BY <1>0, <1>2, PassesAcquires
  <2>2. stage \in Stages
    BY <2>1 DEF Stages
  <2> QED
    BY <1>0, <2>1, <2>2, AcquireTyped DEF Typed
<1>3. ASSUME NEW t \in Txns, Ends(t) PROVE Typed'
  BY <1>0, <1>3, EndsFinishes, FinishTyped DEF Typed
<1>4. ASSUME NEW t \in Txns, LockTarget(t) PROVE Typed'
  <2>1. /\ pc' \in [Txns -> Stages] /\ DOMAIN held' = Txns
        /\ change' \in [Txns -> {None} \cup [op : AdminOps, user : Users, row : UserRows]]
        /\ users' = users /\ items' = items /\ requests' = requests /\ calls' = calls
        /\ cmd' = cmd /\ answer' = answer
    BY <1>0, <1>4, LockTargetStep
  <2> QED
    BY <1>0, <2>1 DEF Typed
<1>5. ASSUME NEW t \in Txns, ChangeUser(t) PROVE Typed'
  BY <1>0, <1>5, ChangeUserStep, FinishTyped DEF Typed
<1>6. CASE EditCatalog
  BY <1>0, <1>6, EditStep DEF Typed
<1>7. CASE UNCHANGED vars
  BY <1>0, <1>7 DEF vars, Typed
<1> QED
  BY <1>1, <1>2, <1>3, <1>4, <1>5, <1>6, <1>7, PostTyped DEF Kinds

-----------------------------------------------------------------------------
(* Requests and their events                                                *)

\* Nothing but a commit changes a request or the outbox.
LEMMA OnlyPostWrites ==
  ASSUME IInv, Kinds
  PROVE  (\E t \in Txns : Post(t)) \/ (requests' = requests /\ calls' = calls)
<1>0. Typed /\ CommandsShaped /\ TargetsClaimed
  BY DEF IInv, TxnsInv
<1>1. ASSUME NEW t \in Txns, Begins(t) PROVE requests' = requests /\ calls' = calls
  BY <1>1, Zenon DEF Begins, Begin, tables
<1>2. ASSUME NEW t \in Txns, Passes(t) PROVE requests' = requests /\ calls' = calls
  <2>1. PICK rows, stage : Acquire(t, rows, stage)
    BY <1>0, <1>2, PassesAcquires
  <2> QED
    BY <2>1 DEF Acquire, tables
<1>3. ASSUME NEW t \in Txns, Ends(t) PROVE requests' = requests /\ calls' = calls
  BY <1>3 DEF Ends, tables
<1>4. ASSUME NEW t \in Txns, LockTarget(t) PROVE requests' = requests /\ calls' = calls
  BY <1>4, Zenon DEF LockTarget, tables
<1>5. ASSUME NEW t \in Txns, ChangeUser(t) PROVE requests' = requests /\ calls' = calls
  BY <1>5 DEF ChangeUser
<1>6. CASE EditCatalog
  BY <1>6 DEF EditCatalog
<1>7. CASE UNCHANGED vars
  BY <1>7 DEF vars
<1> QED
  BY <1>1, <1>2, <1>3, <1>4, <1>5, <1>6, <1>7 DEF Kinds

\* A posted command is the last event of its request; the others stay.
LEMMA PostedEvents ==
  ASSUME IInv, NEW t \in Txns, pc[t] = "post", NEW q \in Requests, Posted(t, q)
  PROVE  LET N == Len(requests[q].log) + 1 IN
         /\ N \in Nat \ {0} /\ Events(q)' = Events(q) \cup {N}
         /\ \A m \in Events(q) : m \in Nat /\ m < N /\ requests'[q].log[m] = requests[q].log[m]
         /\ requests'[q].log[N] = cmd[t]
         /\ Len(requests'[q].log) = N
         /\ \A p \in Requests \ {q} : Events(p)' = Events(p) /\ requests'[p] = requests[p]
         /\ N = 1 <=> cmd[t].op = "create"
<1>1. /\ requests[q].log \in Seq(Sent) /\ cmd[t] \in Sent /\ CommandShape(cmd[t])
      /\ requests'[q].log = Append(requests[q].log, cmd[t])
      /\ \A p \in Requests \ {q} : requests'[p] = requests[p]
  BY AtPost, PostedBelow DEF Posted
<1>2. Len(requests[q].log) + 1 = 1 <=> cmd[t].op = "create"
  <2>1. CASE cmd[t].op = "create"
    <3>1. requests[q] = NoRequest
      BY <2>1 DEF Posted, IInv, TablesInv, RequestsShaped
    <3> QED
      BY <2>1, <3>1 DEF NoRequest
  <2>2. CASE cmd[t].op # "create"
    <3>1. q = cmd[t].req /\ requests[q].status # "NONE"
      BY <1>1, <2>2 DEF Posted, CommandShape
    <3>2. requests[q].log # <<>>
      BY <3>1 DEF IInv, TablesInv, RequestsShaped
    <3> QED
      BY <1>1, <2>2, <3>2
  <2> QED
    BY <2>1, <2>2
<1> QED
  BY <1>1, <1>2 DEF Events

\* A request that is there stays, and the one that is written is there.
LEMMA StatusKept ==
  ASSUME IInv, NEW t \in Txns, pc[t] = "post", NEW q \in Requests, Posted(t, q)
  PROVE  /\ requests'[q].status # "NONE"
         /\ \A p \in Requests : requests[p].status # "NONE" => requests'[p].status # "NONE"
<1>1. requests'[q].status = StatusAfter(cmd[t].op, requests[q].status)
  BY DEF Posted, Columns
<1>2. cmd[t].op # "create" => requests[q].status # "NONE"
  BY AtPost DEF Posted, CommandShape
<1>3. requests'[q].status # "NONE"
  BY <1>1, <1>2 DEF StatusAfter
<1>4. \A p \in Requests \ {q} : requests'[p] = requests[p]
  BY DEF Posted
<1> QED
  BY <1>3, <1>4

LEMMA PostRequests ==
  ASSUME IInv, NEW t \in Txns, pc[t] = "post", NEW q \in Requests, Posted(t, q)
  PROVE  RequestsShaped' /\ EventsShaped' /\ SeenIsApplied'
<1> DEFINE c == cmd[t]
           N == Len(requests[q].log) + 1
<1>0. RequestsShaped /\ EventsShaped /\ SeenIsApplied
  BY DEF IInv, TablesInv
<1>1. c \in Sent /\ CommandShape(c)
  BY AtPost
<1>2. /\ N \in Nat \ {0} /\ Events(q)' = Events(q) \cup {N}
      /\ \A m \in Events(q) : m \in Nat /\ m < N /\ requests'[q].log[m] = requests[q].log[m]
      /\ requests'[q].log[N] = c /\ Len(requests'[q].log) = N
      /\ \A p \in Requests \ {q} : Events(p)' = Events(p) /\ requests'[p] = requests[p]
      /\ N = 1 <=> c.op = "create"
  BY PostedEvents
<1>3. requests'[q].version = requests[q].version + 1 /\ requests[q].version = Len(requests[q].log)
  BY PostedBelow DEF Posted, Columns
<1>4. requests'[q].initiator \in Users /\ requests'[q].manager \in Users
  <2>1. c.op # "create" => requests[q].initiator \in Users /\ requests[q].manager \in Users
    BY <1>0, <1>1 DEF RequestsShaped, Posted, CommandShape
  <2>2. c.actor \in Users
    BY <1>1 DEF Sent
  <2> QED
    BY <1>1, <2>1, <2>2 DEF Posted, Columns, CommandShape
<1>5. requests'[q].revisions # <<>> /\ requests'[q].log # <<>>
  <2>1. requests[q].log \in Seq(Sent) /\ requests'[q].log = Append(requests[q].log, c)
    BY PostedBelow DEF Posted
  <2>2. c.op # "create" => requests[q].revisions \in Seq(Seq(Lines)) /\ requests[q].revisions # <<>>
    BY AtPost DEF Posted, IInv, Typed, RequestRows
  <2>3. requests'[q].revisions = RevisionsAfter(c, requests[q].revisions)
    BY DEF Posted, Columns
  <2>4. RevisionsAfter(c, requests[q].revisions) # <<>>
    <3>1. CASE c.op = "create"
      BY <3>1 DEF RevisionsAfter
    <3>2. CASE c.op = "submit"
      BY <2>2, <3>2 DEF RevisionsAfter
    <3>3. CASE c.op \in {"bind", "create_bind"}
      <4>1. DOMAIN [requests[q].revisions EXCEPT ![Len(requests[q].revisions)] = Bound(c)]
              = DOMAIN requests[q].revisions
        OBVIOUS
      <4>2. Len(requests[q].revisions) \in DOMAIN requests[q].revisions
        BY <2>2, <3>3
      <4>3. RevisionsAfter(c, requests[q].revisions)
              = [requests[q].revisions EXCEPT ![Len(requests[q].revisions)] = Bound(c)]
        BY <3>3 DEF RevisionsAfter
      <4>4. DOMAIN RevisionsAfter(c, requests[q].revisions) # {}
        BY <4>1, <4>2, <4>3
      <4> QED
        BY <4>4
    <3>4. CASE c.op \notin {"create", "submit", "bind", "create_bind"}
      BY <2>2, <3>4 DEF RevisionsAfter
    <3> QED
      BY <3>1, <3>2, <3>3, <3>4
  <2> QED
    BY <2>1, <2>3, <2>4
<1>6. RequestsShaped'
  BY <1>0, <1>1, <1>2, <1>4, <1>5, StatusKept DEF RequestsShaped, NoRequest
<1>7. EventsShaped'
  <2>1. c.op # "create" => c.req = q
    BY DEF Posted
  <2>2. ASSUME NEW d, CommandShape(d) PROVE CommandShape(d)'
    BY <2>2, StatusKept DEF CommandShape
  <2>3. ASSUME NEW p \in Requests, NEW n \in Events(p)'
        PROVE  \E d : /\ requests'[p].log[n] = d /\ CommandShape(d)
                      /\ d.op = "create" <=> n = 1
                      /\ n # 1 => d.req = p
    <3>1. CASE n \in Events(p)
      BY <1>0, <1>2, <3>1 DEF EventsShaped
    <3>2. CASE n \notin Events(p)
      BY <1>1, <1>2, <2>1, <3>2
    <3> QED
      BY <3>1, <3>2
  <2>4. ASSUME NEW p \in Requests, NEW n \in Events(p)'
        PROVE  /\ CommandShape(requests[p].log[n])'
               /\ requests'[p].log[n].op = "create" <=> n = 1
               /\ n # 1 => requests'[p].log[n].req = p
    <3>1. PICK d : /\ requests'[p].log[n] = d /\ CommandShape(d)
                   /\ d.op = "create" <=> n = 1
                   /\ n # 1 => d.req = p
      BY <2>3
    <3>2. CommandShape(d)'
      BY <2>2, <3>1
    <3> QED
      BY <3>1, <3>2 DEF CommandShape
  <2> QED
    BY <2>4 DEF EventsShaped
<1>8. SeenIsApplied'
  <2>1. c.op # "create" => c.version = N - 1
    BY PostedBelow
  <2>2. ASSUME NEW p \in Requests PROVE requests'[p].version = Len(requests'[p].log)
    BY <1>0, <1>2, <1>3 DEF SeenIsApplied
  <2>3. ASSUME NEW p \in Requests, NEW n \in Events(p)' \ {1}
        PROVE  requests'[p].log[n].version = n - 1
    <3>1. CASE n \in Events(p)
      BY <1>0, <1>2, <3>1 DEF SeenIsApplied
    <3>2. CASE n \notin Events(p)
      BY <1>2, <2>1, <3>2
    <3> QED
      BY <3>1, <3>2
  <2> QED
    BY <2>2, <2>3 DEF SeenIsApplied
<1> QED
  BY <1>6, <1>7, <1>8

LEMMA PostKeys ==
  ASSUME IInv, NEW t \in Txns, pc[t] = "post", NEW q \in Requests, Posted(t, q)
  PROVE  KeysUnique'
<1> DEFINE c == cmd[t]
           N == Len(requests[q].log) + 1
<1>0. KeysUnique /\ RequestsShaped
  BY DEF IInv, TablesInv
<1>2. /\ N \in Nat \ {0} /\ Events(q)' = Events(q) \cup {N}
      /\ \A m \in Events(q) : m \in Nat /\ m < N /\ requests'[q].log[m] = requests[q].log[m]
      /\ requests'[q].log[N] = c
      /\ \A p \in Requests \ {q} : Events(p)' = Events(p) /\ requests'[p] = requests[p]
      /\ N = 1 <=> c.op = "create"
  BY PostedEvents
<1>3. /\ c.op = "create" => Created(c) = {} /\ requests[q].status = "NONE"
      /\ c.op # "create" => Known(q, c) = {} /\ q = c.req /\ requests[q].status # "NONE"
  BY AtPost DEF Posted, CommandShape
<1>4. ASSUME NEW p \in Requests, NEW m \in Events(p)', NEW n \in Events(p)',
             requests'[p].log[m].actor = requests'[p].log[n].actor,
             requests'[p].log[m].key = requests'[p].log[n].key
      PROVE  m = n
  <2>1. CASE p # q
    BY <1>0, <1>2, <1>4, <2>1 DEF KeysUnique
  <2>2. CASE p = q /\ m \in Events(q) /\ n \in Events(q)
    BY <1>0, <1>2, <1>4, <2>2 DEF KeysUnique
  <2>3. CASE p = q /\ c.op = "create"
    <3>1. requests[q].log = <<>>
      BY <1>0, <1>3, <2>3 DEF RequestsShaped, NoRequest
    <3>2. Events(q) = {}
      BY <3>1 DEF Events
    <3> QED
      BY <1>2, <2>3, <3>2
  <2>4. \A k \in Events(q) : c.op # "create" =>
          ~(requests[q].log[k].actor = c.actor /\ requests[q].log[k].key = c.key)
    BY <1>3 DEF Known
  <2>5. CASE p = q /\ c.op # "create" /\ m \in Events(q) /\ n = N
    <3>1. requests'[q].log[m] = requests[q].log[m] /\ requests'[q].log[n] = c
      BY <1>2, <2>5
    <3> QED
      BY <1>4, <2>4, <2>5, <3>1
  <2>6. CASE p = q /\ c.op # "create" /\ n \in Events(q) /\ m = N
    <3>1. requests'[q].log[n] = requests[q].log[n] /\ requests'[q].log[m] = c
      BY <1>2, <2>6
    <3> QED
      BY <1>4, <2>4, <2>6, <3>1
  <2> QED
    BY <1>2, <2>1, <2>2, <2>3, <2>5, <2>6
<1>5. ASSUME NEW p \in Requests, requests[p].status # "NONE"
      PROVE  requests'[p].status # "NONE" /\ requests'[p].log[1] = requests[p].log[1]
  <2>1. requests[p].log \in Seq(Sent) /\ requests[p].log # <<>>
    BY <1>0, <1>5 DEF RequestsShaped, IInv, Typed, RequestRows
  <2>2. 1 \in Events(p)
    BY <2>1 DEF Events
  <2> QED
    BY <1>2, <1>5, <2>2, StatusKept
<1>6. ASSUME NEW p \in Requests, requests[p].status = "NONE", requests'[p].status # "NONE"
      PROVE  p = q /\ c.op = "create" /\ requests'[p].log[1] = c
  BY <1>2, <1>3, <1>6
<1>7. ASSUME NEW p \in Requests, requests[p].status # "NONE", c.op = "create"
      PROVE  ~(requests[p].log[1].actor = c.actor /\ requests[p].log[1].key = c.key)
  BY <1>3, <1>7 DEF Created
<1>8. ASSUME NEW p \in Requests, NEW r \in Requests,
             requests'[p].status # "NONE", requests'[r].status # "NONE",
             requests'[p].log[1].actor = requests'[r].log[1].actor,
             requests'[p].log[1].key = requests'[r].log[1].key
      PROVE  p = r
  <2>1. CASE requests[p].status = "NONE" /\ requests[r].status = "NONE"
    BY <1>6, <1>8, <2>1
  <2>2. CASE requests[p].status = "NONE" /\ requests[r].status # "NONE"
    BY <1>5, <1>6, <1>7, <1>8, <2>2
  <2>3. CASE requests[p].status # "NONE" /\ requests[r].status = "NONE"
    BY <1>5, <1>6, <1>7, <1>8, <2>3
  <2>4. CASE requests[p].status # "NONE" /\ requests[r].status # "NONE"
    BY <1>0, <1>5, <1>8, <2>4 DEF KeysUnique
  <2> QED
    BY <2>1, <2>2, <2>3, <2>4
<1> QED
  BY <1>4, <1>8 DEF KeysUnique

LEMMA PostAgreed ==
  ASSUME IInv, NEW t \in Txns, pc[t] = "post", NEW q \in Requests, Posted(t, q)
  PROVE  /\ PurchasesAgreed'
         /\ \A p \in Requests : Agreed(p) => Agreed(p)'
<1> DEFINE c == cmd[t]
           N == Len(requests[q].log) + 1
<1>1. /\ Events(q)' = Events(q) \cup {N}
      /\ \A m \in Events(q) : requests'[q].log[m] = requests[q].log[m]
      /\ requests'[q].log[N] = c
      /\ \A p \in Requests \ {q} : Events(p)' = Events(p) /\ requests'[p] = requests[p]
  BY PostedEvents
<1>2. ASSUME NEW p \in Requests, Agreed(p) PROVE Agreed(p)'
  BY <1>1, <1>2 DEF Agreed
<1>3. requests'[q].status = StatusAfter(c.op, requests[q].status)
  BY DEF Posted, Columns
<1>4. c.op = "accept" => Agreed(q)'
  BY <1>1 DEF Agreed
<1>5. /\ c.op = "deliver" => requests[q].status = "PURCHASING"
      /\ c.op = "complete" => requests[q].status = "AWAITING_ACCEPTANCE"
  BY AtPost DEF Permitted, Posted, Delivered
<1>6. requests'[q].status \in {"PURCHASING", "AWAITING_ACCEPTANCE", "COMPLETED"} =>
        requests[q].status \in {"PURCHASING", "AWAITING_ACCEPTANCE", "COMPLETED"} \/ c.op = "accept"
  BY <1>3, <1>5 DEF StatusAfter
<1>7. PurchasesAgreed
  BY DEF IInv, TablesInv
<1>8. ASSUME NEW p \in Requests,
             requests'[p].status \in {"PURCHASING", "AWAITING_ACCEPTANCE", "COMPLETED"}
      PROVE  Agreed(p)'
  BY <1>1, <1>2, <1>4, <1>6, <1>7, <1>8 DEF PurchasesAgreed
<1> QED
  BY <1>2, <1>8 DEF PurchasesAgreed

LEMMA PostTold ==
  ASSUME IInv, NEW t \in Txns, pc[t] = "post", NEW q \in Requests, Posted(t, q)
  PROVE  AllTold'
<1> DEFINE c == cmd[t]
           N == Len(requests[q].log) + 1
           assigns == c.op \in {"create", "take", "transfer"}
<1>0. AllTold
  BY DEF IInv, TablesInv
<1>1. /\ N \in Nat \ {0} /\ Events(q)' = Events(q) \cup {N}
      /\ \A m \in Events(q) : m \in Nat /\ m < N /\ requests'[q].log[m] = requests[q].log[m]
      /\ requests'[q].log[N] = c
      /\ \A p \in Requests \ {q} : Events(p)' = Events(p) /\ requests'[p] = requests[p]
  BY PostedEvents
<1>2. calls \subseteq calls'
  BY DEF Posted, Told
<1>3. requests'[q].manager = IF assigns THEN c.manager ELSE requests[q].manager
  BY DEF Posted, Columns
<1>6. users' = users
  BY DEF Posted
<1>4. CASE assigns
  <2>1. users[c.manager].identity => c.manager \in Reachable
    <3>1. Able(c.manager, ManageRoles) /\ c.manager \in Users
      BY <1>4, AtPost DEF IInv, TxnsInv, ManagersClaimed, CommandShape
    <3> QED
      BY <3>1 DEF Able, ManageRoles, ReadRoles, Reachable
  <2>2. PICK R : Told(t, q, R) /\ c.manager \in R
    BY <1>4 DEF Posted
  <2>3. users'[c.manager].identity => <<q, N, c.manager>> \in calls'
    BY <1>6, <2>1, <2>2 DEF Told
  <2>4. N \in Assignments(q)' /\ \A m \in Assignments(q)' : m <= N
    BY <1>1, <1>4 DEF Assignments
  <2>5. \A p \in Requests \ {q} : Assignments(p)' = Assignments(p)
    BY <1>1 DEF Assignments
  <2>6. users'[requests'[q].manager].identity => <<q, N, requests'[q].manager>> \in calls'
    BY <1>3, <1>4, <2>3
  <2>7. ASSUME NEW p \in Requests \ {q}, requests'[p].status # "NONE",
               users'[requests'[p].manager].identity
        PROVE  \E n \in Assignments(p)' : /\ \A m \in Assignments(p)' : m <= n
                                          /\ <<p, n, requests'[p].manager>> \in calls'
    <3>1. requests'[p] = requests[p] /\ users[requests[p].manager].identity
      BY <1>1, <1>6, <2>7
    <3> QED
      BY <1>0, <1>2, <2>5, <2>7, <3>1 DEF AllTold
  <2> QED
    BY <2>4, <2>6, <2>7 DEF AllTold
<1>5. CASE ~assigns
  <2>1. \A p \in Requests : Assignments(p)' = Assignments(p)
    BY <1>1, <1>5 DEF Assignments
  <2>2. requests[q].status # "NONE"
    BY <1>5, AtPost DEF Posted, CommandShape
  <2>3. ASSUME NEW p \in Requests, requests'[p].status # "NONE"
        PROVE  requests[p].status # "NONE" /\ requests'[p].manager = requests[p].manager
    BY <1>1, <1>3, <1>5, <2>2, <2>3
  <2> QED
    BY <1>0, <1>2, <1>6, <2>1, <2>3 DEF AllTold
<1> QED
  BY <1>4, <1>5

\* A revision is as it was, or published or bound by the command.
LEMMA PostedRevisions ==
  ASSUME IInv, NEW t \in Txns, pc[t] = "post", NEW q \in Requests, Posted(t, q),
         NEW order \in Range(requests'[q].revisions)
  PROVE  \/ order \in Range(requests[q].revisions)
         \/ cmd[t].op \in {"create", "submit"} /\ order = Prepared(cmd[t].order)
         \/ cmd[t].op \in {"bind", "create_bind"} /\ order = Bound(cmd[t])
<1> DEFINE c == cmd[t]
           v == requests[q].revisions
<1>1. PICK k \in DOMAIN requests'[q].revisions : order = requests'[q].revisions[k]
  BY DEF Range
<1>2. requests'[q].revisions = RevisionsAfter(c, v) /\ v \in Seq(Seq(Lines))
  BY DEF Posted, Columns, IInv, Typed, RequestRows
<1> HIDE DEF v
<1>3. CASE c.op = "create"
  BY <1>1, <1>2, <1>3 DEF RevisionsAfter
<1>4. CASE c.op = "submit"
  BY <1>1, <1>2, <1>4 DEF RevisionsAfter, Range, v
<1>5. CASE c.op \in {"bind", "create_bind"}
  <2>1. requests'[q].revisions = [v EXCEPT ![Len(v)] = Bound(c)]
    BY <1>2, <1>5 DEF RevisionsAfter
  <2>2. k \in DOMAIN v /\ (order = v[k] \/ order = Bound(c))
    BY <1>1, <2>1
  <2> QED
    BY <1>5, <2>2 DEF Range, v
<1>6. CASE c.op \notin {"create", "submit", "bind", "create_bind"}
  <2>1. requests'[q].revisions = v
    BY <1>2, <1>6 DEF RevisionsAfter
  <2> QED
    BY <1>1, <2>1 DEF Range, v
<1> QED
  BY <1>3, <1>4, <1>5, <1>6

LEMMA PostLines ==
  ASSUME IInv, NEW t \in Txns, Post(t)
  PROVE  LinesKeepItems'
<1> DEFINE c == cmd[t]
<1>0. pc[t] = "post" /\ Typed /\ LinesKeepItems
  BY DEF Post, IInv, TablesInv
<1>1. PICK q \in Requests : Posted(t, q)
  BY PostPosts
<1>2. ASSUME NEW i \in Items, items[i].status # "ABSENT" PROVE items'[i].status # "ABSENT"
  <2>1. CASE items' = items
    BY <1>2, <2>1
  <2>2. CASE items[c.item] = NoItem /\ \E s : items' = [items EXCEPT ![c.item] = [status |-> "ACTIVE", signature |-> s]]
    <3>1. i # c.item
      BY <1>2, <2>2 DEF NoItem
    <3> QED
      BY <1>0, <1>2, <2>2, <3>1 DEF Typed
  <2> QED
    BY <2>1, <2>2, PostPosts
<1>3. CommandShape(c) /\ c \in Sent
  BY <1>0, AtPost
<1>4. ASSUME NEW p \in Requests, NEW order \in Range(requests[p].revisions), NEW l \in Range(order)
      PROVE  l.item # None => l.item \in Items /\ items[l.item].status # "ABSENT"
  <2>1. requests[p].revisions \in Seq(Seq(Lines))
    BY <1>0 DEF Typed, RequestRows
  <2>2. order \in Seq(Lines)
    BY <2>1 DEF Range
  <2>3. l \in Lines
    BY <2>2 DEF Range
  <2> QED
    BY <1>0, <2>3 DEF LinesKeepItems, Lines
<1>5. ASSUME c.op \in {"create", "submit"}, NEW l \in Range(Prepared(c.order)), l.item # None
      PROVE  l.item \in Items /\ items[l.item].status # "ABSENT"
  <2>1. c.order \in Orders
    BY <1>3, <1>5 DEF CommandShape
  <2>2. PICK k \in DOMAIN c.order : l = Prepared(c.order)[k] /\ l.item = c.order[k].item
    BY <1>0, <1>5, <2>1, PreparedLines DEF Range
  <2>3. Prepared(c.order) \in Seq(Lines) /\ l \in Lines
    BY <1>0, <1>5, <2>1, PreparedLines DEF Range
  <2>4. l.item \in ItemsOf(c)
    BY <1>5, <2>2 DEF ItemsOf, Outcome, Range
  <2>5. items[l.item].status = "ACTIVE"
    BY <1>0, <1>5, <2>4 DEF IInv, TxnsInv, ItemsClaimed
  <2> QED
    BY <1>5, <2>3, <2>5 DEF Lines
<1>6. ASSUME c.op \in {"bind", "create_bind"}
      PROVE  c.item \in Items /\ items'[c.item].status # "ABSENT"
  <2>1. c.item \in Items
    BY <1>3, <1>6 DEF CommandShape
  <2>2. CASE c.op = "bind"
    <3>1. c.item \in ItemsOf(c)
      BY <2>2 DEF ItemsOf
    <3>2. items[c.item].status = "ACTIVE"
      BY <1>0, <2>2, <3>1 DEF IInv, TxnsInv, ItemsClaimed
    <3> QED
      BY <1>2, <2>1, <3>2
  <2>3. CASE c.op = "create_bind"
    <3>1. create_and_bind_line(t)
      BY <2>3 DEF Post, create_request, manager_accept, return_for_correction, submit_revision,
                  change_assignment, transfer_to_acceptance, bind_line, report_discrepancy,
                  complete_acceptance
    <3>2. \E s : items' = [items EXCEPT ![c.item] = [status |-> "ACTIVE", signature |-> s]]
      BY <3>1, Zenon DEF create_and_bind_line
    <3> QED
      BY <1>0, <2>1, <3>2 DEF Typed
  <2> QED
    BY <1>6, <2>1, <2>2, <2>3
<1>7. ASSUME c.op \in {"bind", "create_bind"}, NEW l \in Range(Bound(c)), l.item # None
      PROVE  l.item \in Items /\ items'[l.item].status # "ABSENT"
  <2>1. /\ c.req \in Requests /\ requests[c.req].revisions # <<>>
        /\ c.line \in DOMAIN Order(c.req) /\ c.item \in Items
    BY <1>0, <1>3, <1>7, AtPost DEF CommandShape, Permitted
  <2>2. PICK k \in DOMAIN Bound(c) : l = Bound(c)[k]
    BY DEF Range
  <2>3. k \in DOMAIN Order(c.req) /\ (l.item = c.item \/ l = Order(c.req)[k])
    BY <1>0, <2>1, <2>2, BoundLines
  <2>4. Order(c.req) \in Range(requests[c.req].revisions)
    <3>1. requests[c.req].revisions \in Seq(Seq(Lines))
      BY <1>0, <2>1 DEF Typed, RequestRows
    <3>2. Len(requests[c.req].revisions) \in DOMAIN requests[c.req].revisions
      BY <2>1, <3>1
    <3> QED
      BY <3>2 DEF Order, Last, Range
  <2>5. CASE l.item = c.item
    BY <1>6, <1>7, <2>5
  <2>6. CASE l = Order(c.req)[k]
    <3>1. l \in Range(Order(c.req))
      BY <2>3, <2>6 DEF Range
    <3> QED
      BY <1>2, <1>4, <1>7, <2>1, <2>4, <3>1
  <2> QED
    BY <2>3, <2>5, <2>6
<1>8. ASSUME NEW p \in Requests, NEW order \in Range(requests'[p].revisions),
             NEW l \in Range(order), l.item # None
      PROVE  items'[l.item].status # "ABSENT"
  <2>1. CASE order \in Range(requests[p].revisions)
    BY <1>2, <1>4, <1>8, <2>1
  <2>2. CASE order \notin Range(requests[p].revisions)
    <3>1. p = q
      BY <1>1, <1>8, <2>2 DEF Posted
    <3> QED
      BY <1>0, <1>1, <1>2, <1>5, <1>7, <1>8, <2>2, <3>1, PostedRevisions
  <2> QED
    BY <2>1, <2>2
<1> QED
  BY <1>8 DEF LinesKeepItems

\* An order that is submitted and an item that is bound were checked; an item
\* that is created was on no other line.
LEMMA PostAggregates ==
  ASSUME IInv, NEW t \in Txns, Post(t)
  PROVE  AggregatesHold'
<1> DEFINE c == cmd[t]
<1>0. pc[t] = "post" /\ Typed /\ LinesKeepItems /\ AggregatesHold /\ AggregatesClaimed
  BY DEF Post, IInv, TablesInv, TxnsInv
<1>1. PICK q \in Requests : Posted(t, q)
  BY PostPosts
<1>2. CommandShape(c) /\ c \in Sent
  BY <1>0, AtPost
<1>3. ASSUME c.op \in {"create", "submit"}, NEW i \in Items
      PROVE  Aggregate(Prepared(c.order), i) <= MaxAggregate
  <2>1. c.order \in Orders
    BY <1>2, <1>3 DEF CommandShape
  <2>2. Aggregate(Prepared(c.order), i) = Aggregate(c.order, i)
    BY <1>0, <2>1, PreparedLines, SameAggregates
  <2>3. AggregatesFit(c.order)
    BY <1>0, <1>3 DEF AggregatesClaimed, Outcome
  <2> QED
    BY <2>2, <2>3 DEF AggregatesFit
<1>4. ASSUME c.op = "bind", NEW i \in Items PROVE Aggregate(Bound(c), i) <= MaxAggregate
  BY <1>0, <1>4 DEF AggregatesClaimed, AggregatesFit, Outcome
<1>5. ASSUME c.op = "create_bind", NEW i \in Items PROVE Aggregate(Bound(c), i) <= MaxAggregate
  <2> DEFINE o == Order(c.req)
  <2>1. /\ c.req \in Requests /\ requests[c.req].revisions # <<>>
        /\ c.line \in DOMAIN o /\ o[c.line].item = None /\ c.item \in Items
    BY <1>0, <1>2, <1>5, AtPost DEF CommandShape, Permitted
  <2>2. o \in Seq(Lines) /\ Bound(c) \in Seq(Lines)
    BY <1>0, <2>1, BoundLines
  <2>3. /\ DOMAIN Bound(c) = DOMAIN o /\ Bound(c)[c.line].item = c.item
        /\ \A k \in DOMAIN o : /\ Bound(c)[k].quantity = o[k].quantity
                               /\ k # c.line => Bound(c)[k] = o[k]
    BY <1>0, <2>1, BoundLine
  <2>4. o \in Range(requests[c.req].revisions)
    <3>1. requests[c.req].revisions \in Seq(Seq(Lines))
      BY <1>0, <2>1 DEF Typed, RequestRows
    <3>2. Len(requests[c.req].revisions) \in DOMAIN requests[c.req].revisions
      BY <2>1, <3>1
    <3> QED
      BY <3>2 DEF Order, Last, Range
  <2>5. items[c.item].status = "ABSENT"
    <3>1. create_and_bind_line(t)
      BY <1>5 DEF Post, create_request, manager_accept, return_for_correction, submit_revision,
                  change_assignment, transfer_to_acceptance, bind_line, report_discrepancy,
                  complete_acceptance
    <3> QED
      BY <3>1 DEF create_and_bind_line, NoItem
  <2>6. \A k \in DOMAIN o : o[k].item # c.item
    <3>1. \A k \in DOMAIN o : o[k] \in Range(o)
      BY DEF Range
    <3>2. c.item # None
      BY <2>1, ProcurementAssumption
    <3> QED
      BY <1>0, <2>1, <2>4, <2>5, <3>1, <3>2 DEF LinesKeepItems
  <2> HIDE DEF o
  <2>7. CASE i = c.item
    <3>1. \A k \in DOMAIN Bound(c) : k # c.line => Bound(c)[k].item # i
      BY <2>3, <2>6, <2>7
    <3>2. Aggregate(Bound(c), i) \in 1 .. MaxAggregate
      BY <2>1, <2>2, <2>3, <2>7, <3>1, AggregateOfOne
    <3> QED
      BY <3>2, ProcurementAssumption
  <2>8. CASE i # c.item
    <3>1. i # None
      BY ProcurementAssumption
    <3>2. \A k \in DOMAIN o : /\ Bound(c)[k].quantity = o[k].quantity
                              /\ Bound(c)[k].item = i <=> o[k].item = i
      BY <2>1, <2>3, <2>8, <3>1
    <3>3. Aggregate(Bound(c), i) = Aggregate(o, i)
      BY <2>3, <3>2, SameAggregates
    <3> QED
      BY <1>0, <2>1, <2>4, <3>3 DEF AggregatesHold
  <2> QED
    BY <2>7, <2>8
<1>6. ASSUME NEW p \in Requests, NEW i \in Items, NEW order \in Range(requests'[p].revisions)
      PROVE  Aggregate(order, i) <= MaxAggregate
  <2>1. CASE order \in Range(requests[p].revisions)
    BY <1>0, <2>1 DEF AggregatesHold
  <2>2. CASE order \notin Range(requests[p].revisions)
    <3>1. p = q
      BY <1>1, <1>6, <2>2 DEF Posted
    <3>2. \/ c.op \in {"create", "submit"} /\ order = Prepared(c.order)
          \/ c.op \in {"bind", "create_bind"} /\ order = Bound(c)
      BY <1>0, <1>1, <1>6, <2>2, <3>1, PostedRevisions
    <3> QED
      BY <1>3, <1>4, <1>5, <3>2
  <2> QED
    BY <2>1, <2>2
<1> QED
  BY <1>6 DEF AggregatesHold

\* Users' rows are written by ChangeUser alone.
LEMMA OnlyChangeUserWrites ==
  ASSUME IInv, Kinds
  PROVE  users' = users \/ \E t \in Txns : ChangeUser(t)
<1>0. Typed /\ CommandsShaped /\ TargetsClaimed
  BY DEF IInv, TxnsInv
<1>1. ASSUME NEW t \in Txns, Begins(t) PROVE users' = users
  BY <1>1, Zenon DEF Begins, Begin, tables
<1>2. ASSUME NEW t \in Txns, Passes(t) PROVE users' = users
  BY <1>0, <1>2, PassesAcquires, Zenon DEF Acquire, tables
<1>3. ASSUME NEW t \in Txns, Post(t) PROVE users' = users
  BY <1>3, PostPosts DEF Posted
<1>4. ASSUME NEW t \in Txns, Ends(t) \/ LockTarget(t) PROVE users' = users
  BY <1>4, Zenon DEF Ends, LockTarget, tables
<1>5. CASE EditCatalog \/ UNCHANGED vars
  BY <1>5 DEF EditCatalog, vars
<1> QED
  BY <1>1, <1>2, <1>3, <1>4, <1>5 DEF Kinds

\* Nobody is given an identity.
LEMMA IdentitiesEnd ==
  ASSUME IInv, Kinds, NEW u \in Users, users'[u].identity
  PROVE  users[u].identity
<1>1. Typed /\ TargetsClaimed
  BY DEF IInv, TxnsInv
<1>2. ASSUME NEW t \in Txns, ChangeUser(t) PROVE users[u].identity
  BY <1>1, <1>2, ChangeUserStep
<1> QED
  BY <1>2, OnlyChangeUserWrites

LEMMA NextTables ==
  ASSUME IInv, Kinds
  PROVE  TablesInv'
<1>1. ASSUME NEW t \in Txns, Post(t) PROVE TablesInv'
  <2>1. pc[t] = "post"
    BY <1>1 DEF Post
  <2>2. PICK q \in Requests : Posted(t, q)
    BY <1>1, PostPosts
  <2> QED
    BY <1>1, <2>1, <2>2, PostRequests, PostKeys, PostAgreed, PostTold, PostLines, PostAggregates
    DEF TablesInv
<1>2. CASE requests' = requests /\ calls' = calls /\ ~ \E t \in Txns : Post(t)
  <2>0. TablesInv /\ Typed /\ CommandsShaped /\ TargetsClaimed
    BY DEF IInv, TxnsInv
  <2>1. RequestsShaped' /\ SeenIsApplied' /\ KeysUnique'
    BY <1>2, <2>0 DEF TablesInv, RequestsShaped, SeenIsApplied, KeysUnique, Events
  <2>2. EventsShaped' /\ PurchasesAgreed' /\ AllTold'
    <3>1. EventsShaped' /\ PurchasesAgreed'
      BY <1>2, <2>0 DEF TablesInv, EventsShaped, CommandShape, PurchasesAgreed, Agreed,
                        Assignments, Events
    <3>2. ASSUME NEW q \in Requests, requests'[q].status # "NONE",
                 users'[requests'[q].manager].identity
          PROVE  users[requests[q].manager].identity
      BY <1>2, <2>0, <3>2, IdentitiesEnd DEF TablesInv, RequestsShaped
    <3>3. AllTold'
      BY <1>2, <2>0, <3>2 DEF TablesInv, AllTold, Assignments, Events
    <3> QED
      BY <3>1, <3>3
  <2>6. AggregatesHold'
    BY <1>2, <2>0 DEF TablesInv, AggregatesHold
  <2>3. CASE items' = items
    <3>1. LinesKeepItems'
      BY <1>2, <2>0, <2>3 DEF TablesInv, LinesKeepItems
    <3> QED
      BY <2>1, <2>2, <2>6, <3>1 DEF TablesInv
  <2>4. CASE EditCatalog
    <3>1. PICK i \in Items : /\ \A j \in Items \ {i} : items'[j] = items[j]
                             /\ items'[i].status = "ABSENT" => ~InUse(i)
      BY <2>0, <2>4, EditStep
    <3>2. ASSUME NEW p \in Requests, NEW order \in Range(requests[p].revisions),
                 NEW l \in Range(order), l.item # None
          PROVE  items'[l.item].status # "ABSENT"
      <4>1. requests[p].revisions \in Seq(Seq(Lines))
        BY <2>0 DEF Typed, RequestRows
      <4>2. order \in Seq(Lines)
        BY <4>1 DEF Range
      <4>3. l \in Lines
        BY <4>2 DEF Range
      <4>4. l.item \in Items /\ items[l.item].status # "ABSENT"
        BY <2>0, <3>2, <4>3 DEF TablesInv, LinesKeepItems, Lines
      <4>5. CASE l.item = i
        <5>1. InUse(i)
          BY <4>5 DEF InUse
        <5> QED
          BY <3>1, <4>5, <5>1
      <4> QED
        BY <3>1, <4>4, <4>5
    <3>3. LinesKeepItems'
      BY <1>2, <3>2 DEF LinesKeepItems
    <3> QED
      BY <2>1, <2>2, <2>6, <3>3 DEF TablesInv
  <2>5. items' = items \/ EditCatalog
    <3>1. ASSUME NEW t \in Txns, Begins(t) PROVE items' = items
      BY <3>1, Zenon DEF Begins, Begin, tables
    <3>2. ASSUME NEW t \in Txns, Passes(t) PROVE items' = items
      BY <2>0, <3>2, PassesAcquires, Zenon DEF Acquire, tables
    <3>3. ASSUME NEW t \in Txns, Ends(t) \/ LockTarget(t) \/ ChangeUser(t) PROVE items' = items
      BY <3>3, Zenon DEF Ends, LockTarget, ChangeUser, tables
    <3> QED
      BY <1>2, <3>1, <3>2, <3>3 DEF Kinds, vars
  <2> QED
    BY <2>3, <2>4, <2>5
<1> QED
  BY <1>1, <1>2, OnlyPostWrites

-----------------------------------------------------------------------------
(* Transactions                                                             *)

LEMMA NextLocks ==
  ASSUME IInv, Kinds
  PROVE  LocksExclusive'
<1>0. Typed /\ CommandsShaped /\ TargetsClaimed /\ LocksExclusive
  BY DEF IInv, TxnsInv
<1>1. ASSUME NEW t \in Txns, Begins(t) PROVE LocksExclusive'
  <2>1. PICK c \in Sent : Begin(t, c)
    BY <1>1 DEF Begins
  <2> QED
    BY <1>0, <2>1, BeginTyped DEF LocksExclusive
<1>2. ASSUME NEW t \in Txns, Passes(t) PROVE LocksExclusive'
  <2>1. PICK rows, stage : /\ stage \in {"actor", "manager", "items", "post"}
                           /\ Acquire(t, rows, stage) /\ \A row \in rows : Free(t, row)
    BY <1>0, <1>2, PassesAcquires
  <2>2. stage \in Stages
    BY <2>1 DEF Stages
  <2> QED
    BY <1>0, <2>1, <2>2, AcquireTyped DEF LocksExclusive, Free
<1>3. ASSUME NEW t \in Txns, NEW a \in {None} \cup (Requests \X Nat), Finish(t, a)
      PROVE  LocksExclusive'
  BY <1>0, <1>3, FinishTyped DEF LocksExclusive
<1>4. ASSUME NEW t \in Txns, LockTarget(t) PROVE LocksExclusive'
  <2>1. PICK u \in Users :
          /\ Free(t, <<"user", u>>) /\ held'[t] = {<<"user", u>>} /\ pc'[t] = "admin"
          /\ \A s \in Txns \ {t} : pc'[s] = pc[s] /\ held'[s] = held[s]
    BY <1>0, <1>4, LockTargetStep
  <2> QED
    BY <1>0, <2>1 DEF LocksExclusive, Free
<1>5. ASSUME NEW t \in Txns, Post(t) PROVE LocksExclusive'
  <2>1. PICK q \in Requests : Posted(t, q)
    BY <1>5, PostPosts
  <2>2. Len(requests[q].log) + 1 \in Nat
    BY <1>0 DEF Typed, RequestRows
  <2>3. <<q, Len(requests[q].log) + 1>> \in Requests \X Nat
    BY <2>2
  <2> QED
    BY <1>3, <2>1, <2>3 DEF Posted
<1>6. CASE EditCatalog \/ UNCHANGED vars
  BY <1>0, <1>6 DEF EditCatalog, vars, LocksExclusive
<1> QED
  BY <1>0, <1>1, <1>2, <1>3, <1>4, <1>5, <1>6, EndsFinishes, ChangeUserStep DEF Kinds

\* What a transaction has locked does not change under it.
Shielded(s) ==
  /\ \A u \in Users : <<"user", u>> \in held[s] => users'[u] = users[u]
  /\ \A i \in Items : <<"item", i>> \in held[s] /\ items[i].status # "ABSENT" => items'[i] = items[i]
  /\ \A q \in Requests :
       <<"request", q>> \in held[s] /\ requests[q].status # "NONE" => requests'[q] = requests[q]
  /\ \A q \in Requests :
       \/ requests'[q].status = "NONE"
       \/ requests[q].status # "NONE" /\ requests'[q].log[1] = requests[q].log[1]
       \/ \E t \in Txns \ {s} : /\ requests'[q].log[1] = cmd[t] /\ cmd[t] \in Sent
                                /\ <<"user", cmd[t].actor>> \in held[t]
  /\ \A q \in Requests : requests[q].status # "NONE" => requests'[q].status # "NONE"

\* A transaction stays as it is.
Stays(s) ==
  /\ pc'[s] = pc[s] /\ cmd'[s] = cmd[s] /\ change'[s] = change[s]
  /\ held'[s] = held[s] /\ answer'[s] = answer[s]

LEMMA FrameShields ==
  ASSUME IInv, NEW s \in Txns, users' = users, items' = items, requests' = requests
  PROVE  Shielded(s)
BY DEF Shielded

LEMMA PostShields ==
  ASSUME IInv, NEW t \in Txns, Post(t), NEW s \in Txns \ {t}
  PROVE  Shielded(s) /\ Stays(s)
<1>0. pc[t] = "post" /\ Typed /\ LocksExclusive
  BY DEF Post, IInv, TxnsInv
<1>1. PICK q \in Requests : Posted(t, q)
  BY PostPosts
<1>2. /\ <<"user", cmd[t].actor>> \in held[t] /\ cmd[t] \in Sent
      /\ cmd[t].op # "create" => <<"request", cmd[t].req>> \in held[t]
  BY <1>0, AtPost
<1>3. users' = users /\ \A p \in Requests \ {q} : requests'[p] = requests[p]
  BY <1>1 DEF Posted
<1>4. ASSUME NEW i \in Items, items[i].status # "ABSENT" PROVE items'[i] = items[i]
  <2>1. CASE items' = items
    BY <2>1
  <2>2. CASE items[cmd[t].item] = NoItem
             /\ \E v : items' = [items EXCEPT ![cmd[t].item] = [status |-> "ACTIVE", signature |-> v]]
    <3>1. i # cmd[t].item
      BY <1>4, <2>2 DEF NoItem
    <3> QED
      BY <1>0, <2>2, <3>1 DEF Typed
  <2> QED
    BY <2>1, <2>2, PostPosts
<1>5. ASSUME NEW p \in Requests, <<"request", p>> \in held[s], requests[p].status # "NONE"
      PROVE  requests'[p] = requests[p]
  <2>1. CASE cmd[t].op = "create"
    BY <1>1, <1>3, <1>5, <2>1 DEF Posted
  <2>2. CASE cmd[t].op # "create"
    <3>1. <<"request", q>> \in held[t]
      BY <1>1, <1>2, <2>2 DEF Posted
    <3>2. p # q
      BY <1>0, <1>5, <3>1 DEF LocksExclusive
    <3> QED
      BY <1>3, <3>2
  <2> QED
    BY <2>1, <2>2
<1>6. ASSUME NEW p \in Requests
      PROVE  \/ requests'[p].status = "NONE"
             \/ requests[p].status # "NONE" /\ requests'[p].log[1] = requests[p].log[1]
             \/ requests'[p].log[1] = cmd[t]
  <2>1. CASE p # q
    BY <1>3, <2>1
  <2>2. CASE p = q /\ cmd[t].op = "create"
    BY <1>0, <1>1, <2>2, PostedEvents
  <2>3. CASE p = q /\ cmd[t].op # "create"
    <3>1. requests[q].status # "NONE"
      BY <1>0, <1>1, <2>3, AtPost DEF Posted, CommandShape
    <3>2. requests[q].log # <<>> /\ requests[q].log \in Seq(Sent)
      BY <1>0, <3>1 DEF IInv, TablesInv, RequestsShaped, Typed, RequestRows
    <3>3. 1 \in Events(q)
      BY <3>2 DEF Events
    <3> QED
      BY <1>0, <1>1, <2>3, <3>1, <3>3, PostedEvents
  <2> QED
    BY <2>1, <2>2, <2>3
<1>7. \A p \in Requests : requests[p].status # "NONE" => requests'[p].status # "NONE"
  BY <1>0, <1>1, StatusKept
<1>8. Shielded(s)
  BY <1>2, <1>3, <1>4, <1>5, <1>6, <1>7 DEF Shielded
<1>9. Stays(s)
  <2>1. Len(requests[q].log) + 1 \in Nat
    BY <1>0 DEF Typed, RequestRows
  <2>2. <<q, Len(requests[q].log) + 1>> \in Requests \X Nat
    BY <2>1
  <2> QED
    BY <1>0, <1>1, <2>2, FinishTyped DEF Posted, Stays
<1> QED
  BY <1>8, <1>9

\* A step, as transaction s sees it.
View(s) ==
  \/ pc'[s] = "idle"
  \/ Shielded(s) /\ (Stays(s) \/ Begins(s) \/ Passes(s) \/ LockTarget(s))

LEMMA NextViews ==
  ASSUME IInv, Kinds, NEW s \in Txns
  PROVE  View(s)
<1>0. Typed /\ CommandsShaped /\ TargetsClaimed /\ LocksExclusive
  BY DEF IInv, TxnsInv
<1>1. ASSUME NEW t \in Txns, Begins(t) PROVE View(s)
  <2>1. PICK c \in Sent : Begin(t, c)
    BY <1>1 DEF Begins
  <2>2. Shielded(s)
    BY <1>0, <2>1, BeginTyped, FrameShields
  <2> QED
    BY <1>0, <1>1, <2>1, <2>2, BeginTyped DEF View, Stays
<1>2. ASSUME NEW t \in Txns, Passes(t) PROVE View(s)
  <2>1. PICK rows, stage : stage \in {"actor", "manager", "items", "post"} /\ Acquire(t, rows, stage)
    BY <1>0, <1>2, PassesAcquires
  <2>2. stage \in Stages
    BY <2>1 DEF Stages
  <2>3. Shielded(s)
    BY <1>0, <2>1, <2>2, AcquireTyped, FrameShields
  <2> QED
    BY <1>0, <1>2, <2>1, <2>2, <2>3, AcquireTyped DEF View, Stays
<1>3. ASSUME NEW t \in Txns, Ends(t) PROVE View(s)
  <2>1. PICK a \in {None} \cup (Requests \X Nat) :
          Finish(t, a) /\ users' = users /\ items' = items /\ requests' = requests
    BY <1>0, <1>3, EndsFinishes
  <2>2. Shielded(s)
    BY <2>1, FrameShields
  <2> QED
    BY <1>0, <2>1, <2>2, FinishTyped DEF View, Stays
<1>4. ASSUME NEW t \in Txns, LockTarget(t) PROVE View(s)
  <2>1. /\ users' = users /\ items' = items /\ requests' = requests /\ cmd' = cmd /\ answer' = answer
        /\ \A r \in Txns \ {t} : pc'[r] = pc[r] /\ held'[r] = held[r] /\ change'[r] = change[r]
    BY <1>0, <1>4, LockTargetStep
  <2>2. Shielded(s)
    BY <2>1, FrameShields
  <2> QED
    BY <1>4, <2>1, <2>2 DEF View, Stays
<1>5. ASSUME NEW t \in Txns, ChangeUser(t) PROVE View(s)
  <2>1. /\ pc[t] = "admin" /\ Finish(t, None)
        /\ \A u \in Users \ {change[t].user} : users'[u] = users[u]
        /\ items' = items /\ requests' = requests
    BY <1>0, <1>5, ChangeUserStep
  <2>2. /\ pc'[t] = "idle"
        /\ s # t => Stays(s)
    BY <1>0, <2>1, FinishTyped DEF Stays
  <2>3. ASSUME s # t PROVE Shielded(s)
    <3>1. <<"user", change[t].user>> \in held[t]
      BY <1>0, <2>1 DEF TargetsClaimed
    <3>2. \A u \in Users : <<"user", u>> \in held[s] => users'[u] = users[u]
      BY <1>0, <2>1, <2>3, <3>1 DEF LocksExclusive
    <3> QED
      BY <2>1, <3>2 DEF Shielded
  <2> QED
    BY <2>2, <2>3 DEF View
<1>6. ASSUME NEW t \in Txns, Post(t) PROVE View(s)
  <2>1. CASE s # t
    BY <1>6, <2>1, PostShields DEF View
  <2>2. CASE s = t
    <3>1. PICK q \in Requests : Posted(t, q)
      BY <1>6, PostPosts
    <3>2. pc' = [pc EXCEPT ![t] = "idle"]
      BY <3>1 DEF Posted, Finish
    <3> QED
      BY <1>0, <2>2, <3>2 DEF View, Typed
  <2> QED
    BY <2>1, <2>2
<1>7. CASE EditCatalog
  <2>1. PICK i \in Items :
          /\ ItemFree(i) /\ \A j \in Items \ {i} : items'[j] = items[j]
          /\ users' = users /\ requests' = requests /\ pc' = pc
          /\ cmd' = cmd /\ change' = change /\ held' = held /\ answer' = answer
    BY <1>0, <1>7, EditStep
  <2>2. Shielded(s) /\ Stays(s)
    BY <2>1 DEF Shielded, Stays, ItemFree
  <2> QED
    BY <2>2 DEF View
<1>8. CASE UNCHANGED vars
  BY <1>8, FrameShields DEF vars, View, Stays
<1> QED
  BY <1>1, <1>2, <1>3, <1>4, <1>5, <1>6, <1>7, <1>8 DEF Kinds

\* What a command has found about its request, and about its actor's creations,
\* holds as long as the rows it has locked stay.
LEMMA RequestFacts ==
  ASSUME NEW s \in Txns, cmd'[s] = cmd[s], requests'[cmd[s].req] = requests[cmd[s].req]
  PROVE  /\ Known(cmd[s].req, cmd[s])' = Known(cmd[s].req, cmd[s])
         /\ Fresh(cmd[s])' <=> Fresh(cmd[s])
         /\ Permitted(cmd[s])' <=> Permitted(cmd[s])
         /\ Order(cmd[s].req)' = Order(cmd[s].req)
<1>1. Known(cmd[s].req, cmd[s])' = Known(cmd[s].req, cmd[s])
  BY DEF Known, Events
<1>2. Order(cmd[s].req)' = Order(cmd[s].req)
  BY DEF Order
<1>3. Fresh(cmd[s])' <=> Fresh(cmd[s])
  BY DEF Fresh
<1>4. Permitted(cmd[s])' <=> Permitted(cmd[s])
  BY <1>2 DEF Permitted, Order, Delivered
<1> QED
  BY <1>1, <1>2, <1>3, <1>4

LEMMA CreatedKept ==
  ASSUME IInv, NEW s \in Txns, cmd[s] \in Sent, <<"user", cmd[s].actor>> \in held[s],
         cmd'[s] = cmd[s], Shielded(s), Created(cmd[s]) = {}
  PROVE  Created(cmd[s])' = {}
<1> SUFFICES ASSUME NEW q \in Requests, requests'[q].status # "NONE",
                    requests'[q].log[1].actor = cmd[s].actor,
                    requests'[q].log[1].key = cmd[s].key
             PROVE  FALSE
  BY DEF Created
<1>1. CASE requests[q].status # "NONE" /\ requests'[q].log[1] = requests[q].log[1]
  BY <1>1 DEF Created
<1>2. ASSUME NEW t \in Txns \ {s}, requests'[q].log[1] = cmd[t],
             <<"user", cmd[t].actor>> \in held[t]
      PROVE  FALSE
  BY <1>2 DEF IInv, TxnsInv, LocksExclusive
<1> QED
  BY <1>1, <1>2 DEF Shielded

\* A step of the command of s: where it leads, and what it has found.
LEMMA PassesStep ==
  ASSUME IInv, NEW s \in Txns, Passes(s)
  PROVE  /\ pc[s] \in {"request", "actor", "manager", "items"} /\ cmd[s] \in Sent
         /\ CommandShape(cmd[s]) /\ held[s] \subseteq held'[s]
         /\ users' = users /\ items' = items /\ requests' = requests /\ calls' = calls
         /\ cmd' = cmd /\ answer' = answer /\ change' = change
         /\ pc[s] = "request" => LockRequest(s) /\ pc'[s] = "actor"
         /\ pc[s] = "actor" => PassesActor(s) /\ pc'[s] = AfterActor(cmd[s])
         /\ pc[s] = "manager" =>
              LockManager(s) /\ pc'[s] = IF cmd[s].op = "create" THEN "items" ELSE "post"
         /\ pc[s] = "items" => LockItems(s) /\ pc'[s] = "post"
<1>0. Typed /\ CommandsShaped
  BY DEF IInv, TxnsInv
<1>1. \/ LockRequest(s) /\ pc[s] = "request"
      \/ PassesActor(s) /\ pc[s] = "actor"
      \/ LockManager(s) /\ pc[s] = "manager"
      \/ LockItems(s) /\ pc[s] = "items"
  BY DEF Passes, LockRequest, PassesActor, LockManager, LockItems
<1>2. cmd[s] # None /\ CommandShape(cmd[s])
  BY <1>0, <1>1 DEF CommandsShaped
<1>3. cmd[s] \in Sent
  BY <1>0, <1>2 DEF Typed
<1>4. PICK rows, stage : stage \in {"actor", "manager", "items", "post"} /\ Acquire(s, rows, stage)
  BY <1>0, PassesAcquires
<1>5. stage \in Stages
  BY <1>4 DEF Stages
<1>6. /\ users' = users /\ items' = items /\ requests' = requests /\ calls' = calls
      /\ cmd' = cmd /\ answer' = answer /\ change' = change /\ held[s] \subseteq held'[s]
  BY <1>0, <1>4, <1>5, AcquireTyped
<1>7. CASE LockRequest(s) /\ pc[s] = "request"
  <2>1. pc'[s] = "actor"
    BY <1>0, <1>7 DEF LockRequest, Acquire, Typed
  <2> QED
    BY <1>2, <1>3, <1>6, <1>7, <2>1
<1>8. CASE PassesActor(s) /\ pc[s] = "actor"
  <2>1. pc'[s] = AfterActor(cmd[s])
    BY <1>0, <1>8 DEF PassesActor, Acquire, Typed
  <2> QED
    BY <1>2, <1>3, <1>6, <1>8, <2>1
<1>9. CASE LockManager(s) /\ pc[s] = "manager"
  <2>1. pc'[s] = IF cmd[s].op = "create" THEN "items" ELSE "post"
    BY <1>0, <1>9 DEF LockManager, Acquire, Typed
  <2> QED
    BY <1>2, <1>3, <1>6, <1>9, <2>1
<1>10. CASE LockItems(s) /\ pc[s] = "items"
  <2>1. pc'[s] = "post"
    BY <1>0, <1>10 DEF LockItems, Acquire, Typed
  <2> QED
    BY <1>2, <1>3, <1>6, <1>10, <2>1
<1> QED
  BY <1>1, <1>7, <1>8, <1>9, <1>10

LEMMA BeginsStep ==
  ASSUME Typed, NEW s \in Txns, Begins(s)
  PROVE  /\ pc'[s] = (IF cmd'[s].op = "create" THEN "actor" ELSE "request")
         /\ cmd'[s] \in Sent /\ CommandShape(cmd'[s]) /\ answer'[s] = None
         /\ requests' = requests /\ held' = held
BY BeginTyped DEF Begins

LEMMA TargetStep ==
  ASSUME Typed, NEW s \in Txns, LockTarget(s)
  PROVE  pc'[s] = "admin" /\ cmd' = cmd /\ answer' = answer /\ requests' = requests
BY LockTargetStep

LEMMA NextCommands ==
  ASSUME IInv, Kinds
  PROVE  CommandsShaped'
<1>0. Typed /\ CommandsShaped /\ TargetsClaimed
  BY DEF IInv, TxnsInv
<1>1. ASSUME NEW s \in Txns PROVE cmd'[s] \in {None, cmd[s]} \/ Begins(s)
  <2>1. ASSUME NEW t \in Txns, Begins(t), t # s PROVE cmd'[s] = cmd[s]
    BY <1>0, <2>1, BeginTyped DEF Begins
  <2>2. ASSUME NEW t \in Txns, Passes(t) PROVE cmd'[s] = cmd[s]
    BY <2>2, PassesStep
  <2>3. ASSUME NEW t \in Txns, NEW a, Finish(t, a) PROVE cmd'[s] \in {None, cmd[s]}
    BY <1>0, <2>3 DEF Finish, Typed
  <2>4. ASSUME NEW t \in Txns, Post(t) PROVE cmd'[s] \in {None, cmd[s]}
    BY <2>3, <2>4, PostPosts DEF Posted
  <2>5. ASSUME NEW t \in Txns, Ends(t) \/ ChangeUser(t) PROVE cmd'[s] \in {None, cmd[s]}
    BY <2>3, <2>5 DEF Ends, ChangeUser
  <2>6. ASSUME NEW t \in Txns, LockTarget(t) PROVE cmd'[s] = cmd[s]
    BY <1>0, <2>6, TargetStep
  <2>7. CASE EditCatalog \/ UNCHANGED vars
    BY <2>7 DEF EditCatalog, vars
  <2> QED
    BY <2>1, <2>2, <2>4, <2>5, <2>6, <2>7 DEF Kinds
<1>2. \A q \in Requests : requests[q].status # "NONE" => requests'[q].status # "NONE"
  <2>1. ASSUME NEW t \in Txns, Post(t)
        PROVE  \A q \in Requests : requests[q].status # "NONE" => requests'[q].status # "NONE"
    BY <2>1, PostPosts, StatusKept DEF Post
  <2> QED
    BY <2>1, OnlyPostWrites
<1>3. ASSUME NEW s \in Txns, cmd'[s] # None PROVE CommandShape(cmd[s])'
  <2>1. CommandShape(cmd'[s])
    BY <1>0, <1>1, <1>3, BeginsStep DEF CommandsShaped
  <2> QED
    BY <1>2, <2>1 DEF CommandShape
<1>4. ASSUME NEW s \in Txns, pc'[s] \notin {"idle", "admin"} PROVE cmd'[s] # None
  <2>1. CASE Stays(s)
    BY <1>0, <1>4, <2>1 DEF Stays, CommandsShaped
  <2>2. CASE Begins(s)
    BY <1>0, <2>2, BeginsStep, ProcurementAssumption
  <2>3. CASE Passes(s)
    BY <2>3, PassesStep, ProcurementAssumption
  <2>4. CASE LockTarget(s)
    BY <1>0, <1>4, <2>4, TargetStep
  <2> QED
    BY <1>4, <2>1, <2>2, <2>3, <2>4, NextViews DEF View
<1>5. ASSUME NEW s \in Txns
      PROVE  /\ pc'[s] = "request" => cmd'[s].op # "create"
             /\ pc'[s] = "manager" => cmd'[s].op \in {"create", "take", "transfer"}
             /\ pc'[s] = "items" => cmd'[s].op \in {"create", "submit", "bind", "complete"}
  <2>1. CASE Stays(s)
    BY <1>0, <2>1 DEF Stays, CommandsShaped
  <2>2. CASE Begins(s)
    BY <1>0, <2>2, BeginsStep
  <2>3. CASE Passes(s)
    <3>1. /\ AfterActor(cmd[s]) = "manager" => cmd[s].op \in {"create", "take", "transfer"}
          /\ AfterActor(cmd[s]) = "items" => cmd[s].op \in {"submit", "bind", "complete"}
          /\ AfterActor(cmd[s]) # "request"
      BY DEF AfterActor
    <3> QED
      BY <2>3, <3>1, PassesStep
  <2>4. CASE LockTarget(s)
    BY <1>0, <2>4, TargetStep
  <2>5. CASE pc'[s] = "idle"
    BY <2>5
  <2> QED
    BY <2>1, <2>2, <2>3, <2>4, <2>5, NextViews DEF View
<1> QED
  BY <1>3, <1>4, <1>5 DEF CommandsShaped

LEMMA NextRequestsClaimed ==
  ASSUME IInv, Kinds
  PROVE  RequestsClaimed'
<1>0. Typed /\ CommandsShaped /\ RequestsClaimed
  BY DEF IInv, TxnsInv
<1> SUFFICES ASSUME NEW s \in Txns, pc'[s] \in {"actor", "manager", "items", "post"},
                    cmd'[s].op # "create"
             PROVE  /\ <<"request", cmd'[s].req>> \in held'[s]
                    /\ (Known(cmd[s].req, cmd[s]) = {})' => Fresh(cmd[s])'
  BY DEF RequestsClaimed
<1>1. CASE Stays(s) /\ Shielded(s)
  <2>1. /\ <<"request", cmd[s].req>> \in held[s]
        /\ Known(cmd[s].req, cmd[s]) = {} => Fresh(cmd[s])
    BY <1>0, <1>1 DEF Stays, RequestsClaimed
  <2>2. cmd[s] # None /\ CommandShape(cmd[s])
    BY <1>0, <1>1 DEF Stays, CommandsShaped
  <2>3. cmd[s].req \in Requests /\ requests[cmd[s].req].status # "NONE"
    BY <1>1, <2>2 DEF CommandShape, Stays
  <2>4. requests'[cmd[s].req] = requests[cmd[s].req]
    BY <1>1, <2>1, <2>3 DEF Shielded
  <2>5. cmd'[s] = cmd[s] /\ held'[s] = held[s]
    BY <1>1 DEF Stays
  <2> QED
    BY <2>1, <2>4, <2>5, RequestFacts
<1>2. CASE Begins(s)
  BY <1>0, <1>2, BeginsStep
<1>3. CASE Passes(s)
  <2>1. /\ cmd' = cmd /\ requests' = requests /\ held[s] \subseteq held'[s]
        /\ pc[s] = "request" => LockRequest(s)
        /\ pc[s] \in {"request", "actor", "manager", "items"}
    BY <1>3, PassesStep
  <2>2. <<"request", cmd[s].req>> \in held'[s] /\ (Known(cmd[s].req, cmd[s]) = {} => Fresh(cmd[s]))
    <3>1. CASE pc[s] = "request"
      BY <1>0, <2>1, <3>1 DEF LockRequest, Acquire, Typed
    <3>2. CASE pc[s] # "request"
      BY <1>0, <2>1, <3>2 DEF RequestsClaimed
    <3> QED
      BY <3>1, <3>2
  <2>3. /\ Known(cmd[s].req, cmd[s])' = Known(cmd[s].req, cmd[s])
        /\ Fresh(cmd[s])' <=> Fresh(cmd[s])
    BY <2>1, RequestFacts
  <2> QED
    BY <2>1, <2>2, <2>3
<1>4. CASE LockTarget(s)
  BY <1>0, <1>4, TargetStep
<1> QED
  BY <1>1, <1>2, <1>3, <1>4, NextViews DEF View

LEMMA NextActors ==
  ASSUME IInv, Kinds
  PROVE  ActorsClaimed'
<1>0. Typed /\ CommandsShaped /\ RequestsClaimed /\ ActorsClaimed
  BY DEF IInv, TxnsInv
<1> SUFFICES ASSUME NEW s \in Txns, pc'[s] \in {"manager", "items", "post"}
             PROVE  /\ <<"user", cmd'[s].actor>> \in held'[s]
                    /\ Able(cmd[s].actor, Needs(cmd[s].op))'
                    /\ cmd'[s].op = "create" => Created(cmd[s])' = {}
                    /\ cmd'[s].op # "create" =>
                         Known(cmd[s].req, cmd[s])' = {} /\ Permitted(cmd[s])'
  BY DEF ActorsClaimed
<1>1. CASE Stays(s) /\ Shielded(s)
  <2>1. /\ <<"user", cmd[s].actor>> \in held[s] /\ Able(cmd[s].actor, Needs(cmd[s].op))
        /\ cmd[s].op = "create" => Created(cmd[s]) = {}
        /\ cmd[s].op # "create" => Known(cmd[s].req, cmd[s]) = {} /\ Permitted(cmd[s])
    BY <1>0, <1>1 DEF Stays, ActorsClaimed
  <2>2. cmd[s] # None /\ CommandShape(cmd[s])
    BY <1>0, <1>1 DEF Stays, CommandsShaped
  <2>3. cmd[s] \in Sent /\ cmd[s].actor \in Users
    BY <1>0, <2>2 DEF Typed, Sent
  <2>4. cmd'[s] = cmd[s] /\ held'[s] = held[s]
    BY <1>1 DEF Stays
  <2>5. Able(cmd[s].actor, Needs(cmd[s].op))'
    <3>1. users'[cmd[s].actor] = users[cmd[s].actor]
      BY <1>1, <2>1, <2>3 DEF Shielded
    <3> QED
      BY <2>1, <2>4, <3>1 DEF Able, Needs
  <2>6. ASSUME cmd[s].op # "create"
        PROVE  Known(cmd[s].req, cmd[s])' = {} /\ Permitted(cmd[s])'
    <3>1. cmd[s].req \in Requests /\ requests[cmd[s].req].status # "NONE"
      BY <2>2, <2>6 DEF CommandShape
    <3>2. <<"request", cmd[s].req>> \in held[s]
      BY <1>0, <1>1, <2>6 DEF RequestsClaimed, Stays
    <3>3. requests'[cmd[s].req] = requests[cmd[s].req]
      BY <1>1, <3>1, <3>2 DEF Shielded
    <3> QED
      BY <2>1, <2>4, <2>6, <3>3, RequestFacts
  <2>7. cmd[s].op = "create" => Created(cmd[s])' = {}
    BY <1>1, <2>1, <2>3, <2>4, CreatedKept
  <2> QED
    BY <2>1, <2>4, <2>5, <2>6, <2>7
<1>2. CASE Begins(s)
  BY <1>0, <1>2, BeginsStep
<1>3. CASE Passes(s)
  <2>1. /\ cmd' = cmd /\ requests' = requests /\ users' = users /\ held[s] \subseteq held'[s]
        /\ pc[s] \in {"request", "actor", "manager", "items"}
        /\ pc[s] = "request" => pc'[s] = "actor"
        /\ pc[s] = "actor" => PassesActor(s)
    BY <1>3, PassesStep
  <2>2. /\ <<"user", cmd[s].actor>> \in held'[s] /\ Able(cmd[s].actor, Needs(cmd[s].op))
        /\ cmd[s].op = "create" => Created(cmd[s]) = {}
        /\ cmd[s].op # "create" => Known(cmd[s].req, cmd[s]) = {} /\ Permitted(cmd[s])
    <3>1. CASE pc[s] = "actor"
      BY <1>0, <2>1, <3>1 DEF PassesActor, Acquire, Typed
    <3>2. CASE pc[s] # "actor"
      BY <1>0, <2>1, <3>2 DEF ActorsClaimed
    <3> QED
      BY <3>1, <3>2
  <2>3. /\ Known(cmd[s].req, cmd[s])' = Known(cmd[s].req, cmd[s])
        /\ Permitted(cmd[s])' <=> Permitted(cmd[s])
    BY <2>1, RequestFacts
  <2>4. Able(cmd[s].actor, Needs(cmd[s].op))'
    BY <2>1, <2>2 DEF Able, Needs
  <2>5. Created(cmd[s])' = Created(cmd[s])
    BY <2>1 DEF Created
  <2> QED
    BY <2>1, <2>2, <2>3, <2>4, <2>5
<1>4. CASE LockTarget(s)
  BY <1>0, <1>4, TargetStep
<1> QED
  BY <1>1, <1>2, <1>3, <1>4, NextViews DEF View

LEMMA NextManagers ==
  ASSUME IInv, Kinds
  PROVE  ManagersClaimed'
<1>0. Typed /\ CommandsShaped /\ ManagersClaimed
  BY DEF IInv, TxnsInv
<1> SUFFICES ASSUME NEW s \in Txns,
                    \/ pc'[s] \in {"items", "post"} /\ cmd'[s].op = "create"
                    \/ pc'[s] = "post" /\ cmd'[s].op \in {"take", "transfer"}
             PROVE  <<"user", cmd'[s].manager>> \in held'[s] /\ Able(cmd[s].manager, ManageRoles)'
  BY DEF ManagersClaimed
<1>1. CASE Stays(s) /\ Shielded(s)
  <2>1. cmd'[s] = cmd[s] /\ held'[s] = held[s] /\ pc'[s] = pc[s]
    BY <1>1 DEF Stays
  <2>2. <<"user", cmd[s].manager>> \in held[s] /\ Able(cmd[s].manager, ManageRoles)
    BY <1>0, <2>1 DEF ManagersClaimed
  <2>3. cmd[s] # None /\ CommandShape(cmd[s])
    BY <1>0, <2>1 DEF CommandsShaped
  <2>4. cmd[s].manager \in Users
    BY <2>1, <2>3 DEF CommandShape
  <2>5. users'[cmd[s].manager] = users[cmd[s].manager]
    BY <1>1, <2>2, <2>4 DEF Shielded
  <2> QED
    BY <2>1, <2>2, <2>5 DEF Able
<1>2. CASE Begins(s)
  BY <1>0, <1>2, BeginsStep
<1>3. CASE Passes(s)
  <2>1. /\ cmd' = cmd /\ users' = users /\ held[s] \subseteq held'[s]
        /\ pc[s] \in {"request", "actor", "manager", "items"}
        /\ pc[s] = "request" => pc'[s] = "actor"
        /\ pc[s] = "actor" => pc'[s] = AfterActor(cmd[s])
        /\ pc[s] = "manager" => LockManager(s)
    BY <1>3, PassesStep
  <2>2. CASE pc[s] = "manager"
    <3>1. <<"user", cmd[s].manager>> \in held'[s] /\ Able(cmd[s].manager, ManageRoles)
      BY <1>0, <2>1, <2>2 DEF LockManager, ManagerLock, Acquire, Typed
    <3> QED
      BY <2>1, <3>1 DEF Able
  <2>3. CASE pc[s] = "items"
    <3>1. cmd[s].op = "create"
      BY <1>0, <2>1, <2>3 DEF CommandsShaped
    <3>2. <<"user", cmd[s].manager>> \in held'[s] /\ Able(cmd[s].manager, ManageRoles)
      BY <1>0, <2>1, <2>3, <3>1 DEF ManagersClaimed
    <3> QED
      BY <2>1, <3>2 DEF Able
  <2>4. CASE pc[s] \in {"request", "actor"}
    BY <2>1, <2>4 DEF AfterActor
  <2> QED
    BY <2>1, <2>2, <2>3, <2>4
<1>4. CASE LockTarget(s)
  BY <1>0, <1>4, TargetStep
<1> QED
  BY <1>1, <1>2, <1>3, <1>4, NextViews DEF View

\* The items of a command are those of its order, or of its request's order.
LEMMA ItemsKept ==
  ASSUME NEW s \in Txns, cmd'[s] = cmd[s],
         \/ cmd[s].op \in {"create", "submit", "bind"}
         \/ cmd[s].op = "complete" /\ requests'[cmd[s].req] = requests[cmd[s].req]
  PROVE  ItemsOf(cmd[s])' = ItemsOf(cmd[s])
<1>1. CASE cmd[s].op \in {"create", "submit"}
  BY <1>1 DEF ItemsOf, Outcome
<1>2. CASE cmd[s].op = "bind"
  BY <1>2 DEF ItemsOf
<1>3. CASE cmd[s].op = "complete" /\ requests'[cmd[s].req] = requests[cmd[s].req]
  <2>1. Order(cmd[s].req)' = Order(cmd[s].req)
    BY <1>3, RequestFacts
  <2> QED
    BY <1>3, <2>1 DEF ItemsOf, Outcome
<1> QED
  BY <1>1, <1>2, <1>3

LEMMA ItemsAreItems ==
  ASSUME Typed, RequestsShaped, NEW c \in Sent, CommandShape(c),
         c.op \in {"create", "submit", "bind", "complete"}
  PROVE  /\ ItemsOf(c) \subseteq Items
         /\ c.op = "complete" => \A l \in Range(Order(c.req)) : l \in Lines
<1>1. CASE c.op = "bind"
  BY <1>1 DEF CommandShape, ItemsOf
<1>2. CASE c.op \in {"create", "submit"}
  <2>1. c.order \in Seq(Lines)
    BY <1>2, ProcurementAssumption DEF CommandShape
  <2>2. \A l \in Range(c.order) : l \in Lines
    BY <2>1 DEF Range
  <2>3. ItemsOf(c) = {l.item : l \in Range(c.order)} \ {None}
    BY <1>2 DEF ItemsOf, Outcome
  <2> QED
    BY <1>2, <2>2, <2>3 DEF Lines
<1>3. CASE c.op = "complete"
  <2>1. c.req \in Requests /\ requests[c.req].revisions # <<>>
    BY <1>3 DEF CommandShape, RequestsShaped
  <2>2. requests[c.req].revisions \in Seq(Seq(Lines))
    BY <2>1 DEF Typed, RequestRows
  <2>3. Order(c.req) \in Seq(Lines)
    BY <2>1, <2>2 DEF Order, Last
  <2>4. \A l \in Range(Order(c.req)) : l \in Lines
    BY <2>3 DEF Range
  <2>5. ItemsOf(c) = {l.item : l \in Range(Order(c.req))} \ {None}
    BY <1>3 DEF ItemsOf, Outcome
  <2> QED
    BY <1>3, <2>4, <2>5 DEF Lines
<1> QED
  BY <1>1, <1>2, <1>3

LEMMA NextItems ==
  ASSUME IInv, Kinds
  PROVE  ItemsClaimed'
<1>0. Typed /\ CommandsShaped /\ RequestsClaimed /\ ItemsClaimed /\ RequestsShaped
  BY DEF IInv, TxnsInv, TablesInv
<1> SUFFICES ASSUME NEW s \in Txns, pc'[s] = "post",
                    cmd'[s].op \in {"create", "submit", "bind", "complete"}
             PROVE  /\ \A i \in ItemsOf(cmd[s])' :
                         <<"item", i>> \in held'[s] /\ items'[i].status = "ACTIVE"
                    /\ cmd'[s].op = "complete" =>
                         \A l \in Range(Order(cmd[s].req)') : l.item # None /\ Matches(l)'
  BY DEF ItemsClaimed
<1>1. CASE Stays(s) /\ Shielded(s)
  <2>1. cmd'[s] = cmd[s] /\ held'[s] = held[s] /\ pc'[s] = pc[s]
    BY <1>1 DEF Stays
  <2>2. /\ \A i \in ItemsOf(cmd[s]) : <<"item", i>> \in held[s] /\ items[i].status = "ACTIVE"
        /\ cmd[s].op = "complete" =>
             \A l \in Range(Order(cmd[s].req)) : l.item # None /\ Matches(l)
    BY <1>0, <2>1 DEF ItemsClaimed
  <2>3. cmd[s] # None /\ CommandShape(cmd[s])
    BY <1>0, <2>1 DEF CommandsShaped
  <2>4. cmd[s] \in Sent
    BY <1>0, <2>3 DEF Typed
  <2>5. /\ ItemsOf(cmd[s]) \subseteq Items
        /\ cmd[s].op = "complete" => \A l \in Range(Order(cmd[s].req)) : l \in Lines
    BY <1>0, <2>1, <2>3, <2>4, ItemsAreItems
  <2>6. \A i \in ItemsOf(cmd[s]) : items'[i] = items[i]
    BY <1>1, <2>2, <2>5 DEF Shielded
  <2>7. ASSUME cmd[s].op = "complete" PROVE requests'[cmd[s].req] = requests[cmd[s].req]
    <3>1. cmd[s].req \in Requests /\ requests[cmd[s].req].status # "NONE"
      BY <2>3, <2>7 DEF CommandShape
    <3>2. <<"request", cmd[s].req>> \in held[s]
      BY <1>0, <2>1, <2>7 DEF RequestsClaimed
    <3> QED
      BY <1>1, <3>1, <3>2 DEF Shielded
  <2>8. ItemsOf(cmd[s])' = ItemsOf(cmd[s])
    BY <2>1, <2>7, ItemsKept
  <2>9. ASSUME cmd[s].op = "complete", NEW l \in Range(Order(cmd[s].req)')
        PROVE  l.item # None /\ Matches(l)'
    <3>1. l \in Range(Order(cmd[s].req))
      BY <2>1, <2>7, <2>9, RequestFacts
    <3>2. l.item # None /\ items[l.item].signature = l.signature
      BY <2>2, <2>9, <3>1 DEF Matches
    <3>3. l.item \in ItemsOf(cmd[s])
      BY <2>9, <3>1, <3>2 DEF ItemsOf, Outcome
    <3> QED
      BY <2>6, <3>2, <3>3 DEF Matches
  <2> QED
    BY <2>1, <2>2, <2>6, <2>8, <2>9
<1>2. CASE Begins(s)
  BY <1>0, <1>2, BeginsStep
<1>3. CASE Passes(s)
  <2>1. /\ cmd' = cmd /\ items' = items /\ requests' = requests
        /\ pc[s] \in {"request", "actor", "manager", "items"}
        /\ pc[s] = "request" => pc'[s] = "actor"
        /\ pc[s] = "actor" => pc'[s] = AfterActor(cmd[s])
        /\ pc[s] = "manager" => pc'[s] = IF cmd[s].op = "create" THEN "items" ELSE "post"
        /\ pc[s] = "items" => LockItems(s)
    BY <1>3, PassesStep
  <2>2. pc[s] = "items"
    <3>1. pc[s] # "request"
      BY <2>1
    <3>2. pc[s] # "actor"
      BY <2>1 DEF AfterActor
    <3>3. pc[s] # "manager"
      BY <1>0, <2>1 DEF CommandsShaped
    <3> QED
      BY <2>1, <3>1, <3>2, <3>3
  <2>3. /\ \A i \in ItemsOf(cmd[s]) : items[i].status = "ACTIVE"
        /\ cmd[s].op = "complete" =>
             \A l \in Range(Order(cmd[s].req)) : l.item # None /\ Matches(l)
        /\ held'[s] = held[s] \cup ItemLocks(cmd[s])
    BY <1>0, <2>1, <2>2 DEF LockItems, Acquire, Typed
  <2>4. \A i \in ItemsOf(cmd[s]) : <<"item", i>> \in held'[s]
    <3>1. ASSUME NEW i \in ItemsOf(cmd[s]) PROVE <<"item", i>> \in ItemLocks(cmd[s])
      <4>1. items[i].status # "ABSENT"
        BY <2>3
      <4> QED
        BY <4>1 DEF ItemLocks
    <3> QED
      BY <2>3, <3>1
  <2>5. ItemsOf(cmd[s])' = ItemsOf(cmd[s])
    BY <2>1, ItemsKept
  <2>6. Order(cmd[s].req)' = Order(cmd[s].req)
    BY <2>1, RequestFacts
  <2> QED
    BY <2>1, <2>3, <2>4, <2>5, <2>6 DEF Matches
<1>4. CASE LockTarget(s)
  BY <1>0, <1>4, TargetStep
<1> QED
  BY <1>1, <1>2, <1>3, <1>4, NextViews DEF View

\* The order a command comes to stays as it was checked.
LEMMA NextAggregates ==
  ASSUME IInv, Kinds
  PROVE  AggregatesClaimed'
<1>0. Typed /\ CommandsShaped /\ RequestsClaimed /\ AggregatesClaimed
  BY DEF IInv, TxnsInv
<1>1. ASSUME NEW s \in Txns, cmd'[s] = cmd[s], cmd[s].op \in {"create", "submit", "bind"},
             cmd[s].op = "bind" => requests'[cmd[s].req] = requests[cmd[s].req],
             AggregatesFit(Outcome(cmd[s]))
      PROVE  AggregatesFit(Outcome(cmd[s]))'
  <2>1. CASE cmd[s].op \in {"create", "submit"}
    <3>1. Outcome(cmd[s])' = Outcome(cmd[s])
      BY <1>1, <2>1 DEF Outcome
    <3> QED
      BY <1>1, <3>1 DEF AggregatesFit
  <2>2. CASE cmd[s].op = "bind"
    <3>1. Order(cmd[s].req)' = Order(cmd[s].req)
      BY <1>1, <2>2, RequestFacts
    <3>2. Bound(cmd[s])' = Bound(cmd[s])
      BY <1>1, <3>1, Zenon DEF Bound
    <3>3. Outcome(cmd[s])' = Outcome(cmd[s])
      BY <1>1, <2>2, <3>2 DEF Outcome
    <3> QED
      BY <1>1, <3>3 DEF AggregatesFit
  <2> QED
    BY <1>1, <2>1, <2>2
<1> SUFFICES ASSUME NEW s \in Txns, pc'[s] = "post", cmd'[s].op \in {"create", "submit", "bind"}
             PROVE  AggregatesFit(Outcome(cmd[s]))'
  BY DEF AggregatesClaimed
<1>2. CASE Stays(s) /\ Shielded(s)
  <2>1. cmd'[s] = cmd[s] /\ held'[s] = held[s] /\ pc'[s] = pc[s]
    BY <1>2 DEF Stays
  <2>2. AggregatesFit(Outcome(cmd[s]))
    BY <1>0, <2>1 DEF AggregatesClaimed
  <2>3. ASSUME cmd[s].op = "bind" PROVE requests'[cmd[s].req] = requests[cmd[s].req]
    <3>1. cmd[s] # None /\ CommandShape(cmd[s])
      BY <1>0, <2>1 DEF CommandsShaped
    <3>2. cmd[s].req \in Requests /\ requests[cmd[s].req].status # "NONE"
      BY <2>3, <3>1 DEF CommandShape
    <3>3. <<"request", cmd[s].req>> \in held[s]
      BY <1>0, <2>1, <2>3 DEF RequestsClaimed
    <3> QED
      BY <1>2, <3>2, <3>3 DEF Shielded
  <2> QED
    BY <1>1, <2>1, <2>2, <2>3
<1>3. CASE Begins(s)
  BY <1>0, <1>3, BeginsStep
<1>4. CASE Passes(s)
  <2>1. /\ cmd' = cmd /\ items' = items /\ requests' = requests
        /\ pc[s] \in {"request", "actor", "manager", "items"}
        /\ pc[s] = "request" => pc'[s] = "actor"
        /\ pc[s] = "actor" => pc'[s] = AfterActor(cmd[s])
        /\ pc[s] = "manager" => pc'[s] = IF cmd[s].op = "create" THEN "items" ELSE "post"
        /\ pc[s] = "items" => LockItems(s)
    BY <1>4, PassesStep
  <2>2. pc[s] = "items"
    <3>1. pc[s] # "request"
      BY <2>1
    <3>2. pc[s] # "actor"
      BY <2>1 DEF AfterActor
    <3>3. pc[s] # "manager"
      BY <1>0, <2>1 DEF CommandsShaped
    <3> QED
      BY <2>1, <3>1, <3>2, <3>3
  <2>3. AggregatesFit(Outcome(cmd[s]))
    BY <2>1, <2>2 DEF LockItems
  <2> QED
    BY <1>1, <2>1, <2>3
<1>5. CASE LockTarget(s)
  BY <1>0, <1>5, TargetStep
<1> QED
  BY <1>2, <1>3, <1>4, <1>5, NextViews DEF View

\* Events stay in the log.
LEMMA LogsGrow ==
  ASSUME IInv, Kinds, NEW q \in Requests, NEW n \in Events(q)
  PROVE  n \in Events(q)' /\ requests'[q].log[n] = requests[q].log[n]
<1>1. ASSUME NEW t \in Txns, Post(t)
      PROVE  n \in Events(q)' /\ requests'[q].log[n] = requests[q].log[n]
  <2>1. pc[t] = "post"
    BY <1>1 DEF Post
  <2>2. PICK p \in Requests : Posted(t, p)
    BY <1>1, PostPosts
  <2> QED
    BY <2>1, <2>2, PostedEvents
<1>2. CASE requests' = requests
  BY <1>2 DEF Events
<1> QED
  BY <1>1, <1>2, OnlyPostWrites

LEMMA NextAnswers ==
  ASSUME IInv, Kinds
  PROVE  AnswersLogged'
<1>0. Typed /\ AnswersLogged /\ TargetsClaimed /\ CommandsShaped
  BY DEF IInv, TxnsInv
<1>1. ASSUME NEW s \in Txns, answer'[s] = answer[s], cmd'[s] = cmd[s], answer'[s] # None
      PROVE  answer'[s][2] \in Events(answer[s][1])' /\ requests'[answer'[s][1]].log[answer'[s][2]] = cmd'[s]
  <2>1. answer[s] \in Requests \X Nat
    BY <1>0, <1>1 DEF Typed
  <2>2. /\ answer[s][1] \in Requests /\ answer[s][2] \in Events(answer[s][1])
        /\ requests[answer[s][1]].log[answer[s][2]] = cmd[s]
    BY <1>0, <1>1, <2>1 DEF AnswersLogged
  <2>3. /\ answer[s][2] \in DOMAIN requests'[answer[s][1]].log
        /\ requests'[answer[s][1]].log[answer[s][2]] = cmd[s]
    BY <2>2, LogsGrow DEF Events
  <2> QED
    BY <1>1, <2>3 DEF Events
<1>2. ASSUME NEW s \in Txns
      PROVE  \/ answer'[s] = None
             \/ answer'[s] = answer[s] /\ cmd'[s] = cmd[s]
             \/ \E q \in Requests : \E n \in Events(q)' :
                  answer'[s] = <<q, n>> /\ requests'[q].log[n] = cmd'[s]
  <2>1. ASSUME NEW t \in Txns, Begins(t)
        PROVE  answer'[s] = None \/ (answer'[s] = answer[s] /\ cmd'[s] = cmd[s])
    <3>1. PICK c \in Sent : Begin(t, c)
      BY <2>1 DEF Begins
    <3>2. CASE s = t
      BY <1>0, <3>1, <3>2, BeginTyped
    <3>3. CASE s # t
      BY <1>0, <3>1, <3>3, BeginTyped
    <3> QED
      BY <3>2, <3>3
  <2>2. ASSUME NEW t \in Txns, Passes(t) PROVE answer'[s] = answer[s] /\ cmd'[s] = cmd[s]
    BY <2>2, PassesStep
  <2>3. ASSUME NEW t \in Txns, NEW a \in {None} \cup (Requests \X Nat), Finish(t, a)
        PROVE  \/ answer'[s] = answer[s] /\ cmd'[s] = cmd[s]
               \/ s = t /\ answer'[s] = a /\ (a # None => cmd'[s] = cmd[s])
    BY <1>0, <2>3, FinishTyped
  <2>4. ASSUME NEW t \in Txns, Ends(t)
        PROVE  \/ answer'[s] = None
               \/ answer'[s] = answer[s] /\ cmd'[s] = cmd[s]
               \/ \E q \in Requests : \E n \in Events(q)' :
                    answer'[s] = <<q, n>> /\ requests'[q].log[n] = cmd'[s]
    <3>1. PICK a \in {None} \cup (Requests \X Nat) :
            /\ Finish(t, a) /\ requests' = requests
            /\ a # None => a[2] \in Events(a[1]) /\ requests[a[1]].log[a[2]] = cmd[t]
      BY <1>0, <2>4, EndsFinishes
    <3>2. CASE a # None /\ s = t
      <4>1. a \in Requests \X Nat
        BY <3>1, <3>2
      <4>2. a = <<a[1], a[2]>> /\ a[1] \in Requests
        BY <4>1
      <4>3. answer'[s] = <<a[1], a[2]>> /\ cmd'[s] = cmd[s]
        BY <1>0, <3>1, <3>2, <4>2, FinishTyped
      <4>4. a[2] \in Events(a[1])' /\ requests'[a[1]].log[a[2]] = cmd'[s]
        BY <3>1, <3>2, <4>3 DEF Events
      <4> QED
        BY <4>2, <4>3, <4>4
    <3> QED
      BY <2>3, <3>1, <3>2
  <2>5. ASSUME NEW t \in Txns, Post(t)
        PROVE  \/ answer'[s] = answer[s] /\ cmd'[s] = cmd[s]
               \/ \E q \in Requests : \E n \in Events(q)' :
                    answer'[s] = <<q, n>> /\ requests'[q].log[n] = cmd'[s]
    <3>1. PICK q \in Requests : Posted(t, q)
      BY <2>5, PostPosts
    <3> DEFINE N == Len(requests[q].log) + 1
    <3>2. N \in Nat /\ N \in Events(q)' /\ requests'[q].log[N] = cmd[t]
      BY <2>5, <3>1, PostedEvents DEF Post
    <3>3. Finish(t, <<q, N>>)
      BY <3>1 DEF Posted
    <3> HIDE DEF N
    <3>4. <<q, N>> \in Requests \X Nat /\ <<q, N>> # None
      BY <3>2, ProcurementAssumption
    <3> QED
      BY <2>3, <3>2, <3>3, <3>4
  <2>6. ASSUME NEW t \in Txns, LockTarget(t) PROVE answer'[s] = answer[s] /\ cmd'[s] = cmd[s]
    BY <1>0, <2>6, TargetStep
  <2>7. ASSUME NEW t \in Txns, ChangeUser(t)
        PROVE  answer'[s] = None \/ (answer'[s] = answer[s] /\ cmd'[s] = cmd[s])
    <3>1. Finish(t, None)
      BY <2>7 DEF ChangeUser
    <3> QED
      BY <2>3, <3>1
  <2>8. CASE EditCatalog \/ UNCHANGED vars
    BY <2>8 DEF EditCatalog, vars
  <2> QED
    BY <2>1, <2>2, <2>4, <2>5, <2>6, <2>7, <2>8 DEF Kinds
<1>3. ASSUME NEW s \in Txns, NEW q \in Requests, NEW n \in Events(q)',
             answer'[s] = <<q, n>>, requests'[q].log[n] = cmd'[s]
      PROVE  answer'[s][2] \in Events(answer[s][1])' /\ requests'[answer'[s][1]].log[answer'[s][2]] = cmd'[s]
  BY <1>3 DEF Events
<1> QED
  BY <1>1, <1>2, <1>3 DEF AnswersLogged

\* A request that is not created now and waits for an agreement that was never
\* accepted did so before.
LEMMA AgreementBefore ==
  ASSUME IInv, NEW t \in Txns, pc[t] = "post", NEW q \in Requests, Posted(t, q),
         NEW p \in Requests, requests'[p].status \in Agreement, ~Agreed(p)'
  PROVE  \/ p = q /\ cmd[t].op = "create" /\ requests'[p].initiator = cmd[t].actor
         \/ /\ requests[p].status \in Agreement /\ ~Agreed(p)
            /\ requests'[p].initiator = requests[p].initiator
<1>1. ~Agreed(p)
  BY PostAgreed
<1>2. CASE p # q
  BY <1>1, <1>2 DEF Posted
<1>3. CASE p = q /\ cmd[t].op = "create"
  BY <1>3 DEF Posted, Columns
<1>4. CASE p = q /\ cmd[t].op # "create"
  <2>1. requests[p].status # "NONE" /\ requests[p] \in RequestRows
    BY <1>4, AtPost DEF Posted, CommandShape, IInv, Typed
  <2>2. requests[p].status \notin {"PURCHASING", "AWAITING_ACCEPTANCE", "COMPLETED"}
    BY <1>1 DEF IInv, TablesInv, PurchasesAgreed
  <2>3. requests[p].status \in Agreement
    BY <2>1, <2>2 DEF RequestRows, Statuses, Active, Agreement
  <2> QED
    BY <1>1, <1>4, <2>3 DEF Posted, Columns
<1> QED
  BY <1>2, <1>3, <1>4

LEMMA NextTargets ==
  ASSUME IInv, Kinds
  PROVE  TargetsClaimed'
<1>0. Typed /\ TargetsClaimed /\ CommandsShaped /\ LocksExclusive
  BY DEF IInv, TxnsInv
<1> SUFFICES ASSUME NEW s \in Txns, pc'[s] = "admin"
             PROVE  /\ change'[s] \in [op : AdminOps, user : Users, row : UserRows]
                    /\ <<"user", change'[s].user>> \in held'[s]
                    /\ change'[s].row.identity => users'[change'[s].user].identity
                    /\ \A q \in Requests :
                         /\ requests'[q].initiator = change'[s].user
                         /\ requests'[q].status \in Agreement /\ ~Agreed(q)'
                         => change'[s].row.access = "APPROVED" /\ change'[s].row.role \in CreateRoles
  BY DEF TargetsClaimed
<1>1. CASE Stays(s)
  <2>1. pc[s] = "admin" /\ change'[s] = change[s] /\ held'[s] = held[s]
    BY <1>1 DEF Stays
  <2>2. /\ change[s] \in [op : AdminOps, user : Users, row : UserRows] /\ <<"user", change[s].user>> \in held[s]
        /\ \A q \in Requests :
             /\ requests[q].initiator = change[s].user
             /\ requests[q].status \in Agreement /\ ~Agreed(q)
             => change[s].row.access = "APPROVED" /\ change[s].row.role \in CreateRoles
    BY <1>0, <2>1 DEF TargetsClaimed
  <2>3. ASSUME NEW t \in Txns, Post(t), NEW q \in Requests,
               requests'[q].initiator = change[s].user,
               requests'[q].status \in Agreement, ~Agreed(q)'
        PROVE  change[s].row.access = "APPROVED" /\ change[s].row.role \in CreateRoles
    <3>1. pc[t] = "post"
      BY <2>3 DEF Post
    <3>2. PICK p \in Requests : Posted(t, p)
      BY <2>3, PostPosts
    <3>3. s # t /\ <<"user", cmd[t].actor>> \in held[t]
      BY <2>1, <3>1, AtPost
    <3>4. cmd[t].actor # change[s].user
      BY <1>0, <2>2, <3>3 DEF LocksExclusive
    <3> QED
      BY <2>2, <2>3, <3>1, <3>2, <3>4, AgreementBefore
  <2>4. ASSUME requests' = requests, NEW q \in Requests,
               requests'[q].initiator = change[s].user,
               requests'[q].status \in Agreement, ~Agreed(q)'
        PROVE  change[s].row.access = "APPROVED" /\ change[s].row.role \in CreateRoles
    <3>1. ~Agreed(q)
      BY <2>4 DEF Agreed, Events
    <3> QED
      BY <2>2, <2>4, <3>1
  <2>5. change[s].row.identity => users'[change[s].user].identity
    <3>1. change[s].user \in Users /\ (change[s].row.identity => users[change[s].user].identity)
      BY <1>0, <2>1 DEF TargetsClaimed
    <3>2. ASSUME NEW t \in Txns, ChangeUser(t), change[t].user = change[s].user PROVE FALSE
      <4>1. pc[t] = "admin" /\ <<"user", change[t].user>> \in held[t] /\ <<"user", change[s].user>> \in held[s]
        BY <1>0, <2>1, <3>2 DEF ChangeUser, TargetsClaimed
      <4>2. t = s
        BY <1>0, <3>2, <4>1 DEF LocksExclusive
      <4>3. pc'[s] = "idle"
        BY <1>0, <3>2, <4>2 DEF ChangeUser, Finish, Typed
      <4> QED
        BY <4>3
    <3>3. users'[change[s].user] = users[change[s].user]
      BY <1>0, <3>1, <3>2, OnlyChangeUserWrites, ChangeUserStep
    <3> QED
      BY <3>1, <3>3
  <2> QED
    BY <2>1, <2>2, <2>3, <2>4, <2>5, OnlyPostWrites
<1>2. CASE Begins(s)
  BY <1>0, <1>2, BeginsStep
<1>3. CASE Passes(s)
  <2>1. pc'[s] \in {"actor", "manager", "items", "post"}
    BY <1>3, PassesStep DEF AfterActor
  <2> QED
    BY <2>1
<1>4. CASE LockTarget(s)
  <2>1. PICK op \in AdminOps, u \in Users, new \in UserRows :
          /\ Spared(op, u, new) /\ held'[s] = {<<"user", u>>}
          /\ (new.identity => users[u].identity) /\ users' = users
          /\ change'[s] = [op |-> op, user |-> u, row |-> new] /\ requests' = requests
    BY <1>0, <1>4, LockTargetStep
  <2>2. ASSUME NEW q \in Requests, requests'[q].initiator = u,
               requests'[q].status \in Agreement, ~Agreed(q)'
        PROVE  new.access = "APPROVED" /\ new.role \in CreateRoles
    <3>1. ~Agreed(q) /\ requests[q].initiator = u /\ requests[q].status \in Agreement
      BY <2>1, <2>2 DEF Agreed, Events
    <3>2. Able(u, CreateRoles)
      BY <3>1 DEF IInv, InitiatorsKeepAgreement, Agreed
    <3>3. Responsible(u) /\ requests[q].status \in Active
      BY <3>1 DEF Responsible, Active
    <3>4. users[u].role \in CreateRoles /\ users[u].access = "APPROVED"
      BY <3>2 DEF Able
    <3>5. new.role \in CreateRoles /\ new.access # "BLOCKED"
      BY <2>1, <3>1, <3>3, <3>4 DEF Spared
    <3> QED
      BY <3>5 DEF UserRows
  <2> QED
    BY <2>1, <2>2
<1> QED
  BY <1>1, <1>2, <1>3, <1>4, NextViews DEF View

LEMMA NextInitiators ==
  ASSUME IInv, Kinds
  PROVE  InitiatorsKeepAgreement'
<1>0. Typed /\ InitiatorsKeepAgreement /\ TargetsClaimed /\ CommandsShaped /\ RequestsShaped
  BY DEF IInv, TxnsInv, TablesInv
<1> SUFFICES ASSUME NEW q \in Requests, requests'[q].status \in Agreement, ~Agreed(q)'
             PROVE  /\ users'[requests'[q].initiator].access = "APPROVED"
                    /\ users'[requests'[q].initiator].role \in CreateRoles
  BY DEF InitiatorsKeepAgreement, Able, Agreed, Events
<1>1. ASSUME ~Agreed(q), requests[q].status \in Agreement
      PROVE  /\ users[requests[q].initiator].access = "APPROVED"
             /\ users[requests[q].initiator].role \in CreateRoles
             /\ requests[q].initiator \in Users
  <2>1. requests[q].status # "NONE"
    BY <1>1 DEF Agreement
  <2> QED
    BY <1>0, <1>1, <2>1 DEF InitiatorsKeepAgreement, Able, Agreed, RequestsShaped
<1>2. ASSUME NEW t \in Txns, Post(t)
      PROVE  /\ users'[requests'[q].initiator].access = "APPROVED"
             /\ users'[requests'[q].initiator].role \in CreateRoles
  <2>1. pc[t] = "post"
    BY <1>2 DEF Post
  <2>2. PICK p \in Requests : Posted(t, p)
    BY <1>2, PostPosts
  <2>3. users' = users
    BY <2>2 DEF Posted
  <2>4. CASE cmd[t].op = "create" /\ requests'[q].initiator = cmd[t].actor
    <3>1. Able(cmd[t].actor, CreateRoles)
      <4>1. Needs(cmd[t].op) = CreateRoles
        BY <2>4 DEF Needs, CreateCommands, ManageCommands, AcceptCommands
      <4> QED
        BY <2>1, <4>1, AtPost
    <3> QED
      BY <2>3, <2>4, <3>1 DEF Able
  <2> QED
    BY <1>1, <2>1, <2>2, <2>3, <2>4, AgreementBefore
<1>3. ASSUME requests' = requests
      PROVE  ~Agreed(q) /\ requests[q].status \in Agreement
  BY <1>3 DEF Agreed, Events
<1>4. ASSUME NEW t \in Txns, ChangeUser(t)
      PROVE  /\ users'[requests'[q].initiator].access = "APPROVED"
             /\ users'[requests'[q].initiator].role \in CreateRoles
  <2>1. /\ pc[t] = "admin" /\ requests' = requests
        /\ users'[change[t].user] = change[t].row
        /\ \A u \in Users \ {change[t].user} : users'[u] = users[u]
    BY <1>0, <1>4, ChangeUserStep
  <2>2. ~Agreed(q) /\ requests[q].status \in Agreement
    BY <1>3, <2>1
  <2>3. CASE requests[q].initiator = change[t].user
    BY <1>0, <2>1, <2>2, <2>3 DEF TargetsClaimed
  <2>4. CASE requests[q].initiator # change[t].user
    BY <1>1, <2>1, <2>2, <2>4
  <2> QED
    BY <2>3, <2>4
<1>5. users' = users \/ \E t \in Txns : ChangeUser(t)
  BY OnlyChangeUserWrites
<1> QED
  BY <1>1, <1>2, <1>3, <1>4, <1>5, OnlyPostWrites

-----------------------------------------------------------------------------
(* The theorems                                                             *)

LEMMA InitIInv == Init => IInv
<1> SUFFICES ASSUME Init PROVE IInv
  OBVIOUS
<1>1. /\ requests = [q \in Requests |-> NoRequest] /\ pc = [t \in Txns |-> "idle"]
      /\ cmd = [t \in Txns |-> None] /\ change = [t \in Txns |-> None]
      /\ held = [t \in Txns |-> {}] /\ answer = [t \in Txns |-> None] /\ calls = {}
  BY DEF Init
<1>2. NoRequest \in RequestRows /\ NoRequest.status = "NONE" /\ NoRequest.log = <<>>
      /\ NoRequest.revisions = <<>> /\ NoRequest.version = 0
  BY DEF NoRequest, RequestRows
<1>3. users \in [Users -> UserRows]
  BY ProcurementAssumption DEF Init, UserRows
<1>4. items \in [Items -> ItemRows]
  <2>1. [status : {"ACTIVE"}, signature : Signatures] \cup {NoItem} \subseteq ItemRows
    BY DEF ItemRows, NoItem
  <2> QED
    BY <2>1 DEF Init
<1>5. Typed
  BY <1>1, <1>2, <1>3, <1>4 DEF Typed, Stages
<1>6. \A q \in Requests : requests[q] = NoRequest /\ Events(q) = {}
  BY <1>1, <1>2 DEF Events
<1>7. TablesInv
  <2>1. RequestsShaped /\ EventsShaped /\ KeysUnique /\ AllTold
    BY <1>2, <1>6 DEF RequestsShaped, EventsShaped, KeysUnique, AllTold
  <2>2. SeenIsApplied /\ PurchasesAgreed
    BY <1>2, <1>6 DEF SeenIsApplied, PurchasesAgreed
  <2>3. LinesKeepItems /\ AggregatesHold
    BY <1>2, <1>6 DEF LinesKeepItems, AggregatesHold, Range
  <2> QED
    BY <2>1, <2>2, <2>3 DEF TablesInv
<1>8. TxnsInv
  BY <1>1 DEF TxnsInv, LocksExclusive, CommandsShaped, RequestsClaimed, ActorsClaimed,
              ManagersClaimed, ItemsClaimed, AggregatesClaimed, AnswersLogged,
              TargetsClaimed
<1>9. InitiatorsKeepAgreement
  BY <1>2, <1>6 DEF InitiatorsKeepAgreement, Agreement
<1> QED
  BY <1>5, <1>7, <1>8, <1>9 DEF IInv

LEMMA NextIInv == IInv /\ [Next]_vars => IInv'
<1> SUFFICES ASSUME IInv, [Next]_vars PROVE IInv'
  OBVIOUS
<1>1. Kinds
  BY NextKinds
<1> QED
  BY <1>1, NextTyped, NextTables, NextLocks, NextCommands, NextRequestsClaimed, NextActors,
     NextManagers, NextItems, NextAggregates, NextAnswers, NextTargets, NextInitiators
  DEF IInv, TxnsInv

\* At every stage of a command, what it has checked holds and is protected by
\* the rows it has locked; the tables are as the commands that were applied
\* have left them.
THEOREM Invariant == Spec => []IInv
<1>1. Init => IInv
  BY InitIInv
<1>2. IInv /\ [Next]_vars => IInv'
  BY NextIInv
<1> QED
  BY <1>1, <1>2, PTL DEF Spec

\* The version counts the events, and an event that is not the first was sent
\* for a version below the bound.
LEMMA VersionsBounded ==
  ASSUME IInv, NEW q \in Requests
  PROVE  requests[q].version \in 0 .. MaxVersion
<1>1. /\ requests[q].log \in Seq(Sent) /\ requests[q].version = Len(requests[q].log)
      /\ MaxVersion \in Nat \ {0}
  BY ProcurementAssumption DEF IInv, Typed, RequestRows, TablesInv, SeenIsApplied
<1> DEFINE n == Len(requests[q].log)
<1>6. n \in Nat
  BY <1>1
<1> HIDE DEF n
<1>b. requests[q].version = n
  BY <1>1 DEF n
<1>2. CASE n \in {0, 1}
  BY <1>1, <1>b, <1>2
<1>3. CASE n > 1
  <2>1. n \in Events(q) \ {1}
    <3>1. Events(q) = 1 .. n
      BY <1>1 DEF Events, n
    <3> QED
      BY <1>6, <1>3, <3>1
  <2>2. requests[q].log[n].version = n - 1 /\ requests[q].log[n].op # "create"
    BY <2>1 DEF IInv, TablesInv, SeenIsApplied, EventsShaped
  <2>3. requests[q].log[n].version < MaxVersion
    BY <2>1, <2>2 DEF IInv, TablesInv, EventsShaped, CommandShape
  <2> QED
    BY <1>1, <1>6, <1>b, <1>3, <2>2, <2>3
<1> QED
  BY <1>6, <1>2, <1>3

\* Every variable keeps its type; in particular no version passes the bound.
THEOREM TypeCorrect == Spec => []TypeOK
<1>1. IInv => TypeOK
  <2> SUFFICES ASSUME IInv PROVE TypeOK
    OBVIOUS
  <2>1. Typed /\ RequestsShaped /\ LocksExclusive
    BY DEF IInv, TablesInv, TxnsInv
  <2>2. ASSUME NEW q \in Requests
        PROVE  /\ requests[q] # NoRequest =>
                    requests[q].status \in Statuses /\ requests[q].revisions # <<>>
               /\ {requests[q].initiator, requests[q].manager} \subseteq Users \cup {None}
               /\ Range(requests[q].log) \subseteq Sent
               /\ \A order \in Range(requests[q].revisions) : Range(order) \subseteq Lines
    <3>1. requests[q] \in RequestRows
      BY <2>1 DEF Typed
    <3>2. /\ requests[q].log \in Seq(Sent) /\ requests[q].revisions \in Seq(Seq(Lines))
          /\ requests[q].status \in Statuses \cup {"NONE"}
          /\ {requests[q].initiator, requests[q].manager} \subseteq Users \cup {None}
      BY <3>1 DEF RequestRows
    <3>3. Range(requests[q].log) \subseteq Sent
      BY <3>2 DEF Range
    <3>4. ASSUME NEW order \in Range(requests[q].revisions) PROVE Range(order) \subseteq Lines
      <4>1. order \in Seq(Lines)
        BY <3>2 DEF Range
      <4> QED
        BY <4>1 DEF Range
    <3>5. requests[q] # NoRequest => requests[q].status \in Statuses /\ requests[q].revisions # <<>>
      BY <2>1, <3>2 DEF RequestsShaped
    <3> QED
      BY <3>2, <3>3, <3>4, <3>5
  <2>3. \A q \in Requests : requests[q].version \in 0 .. MaxVersion
    BY VersionsBounded
  <2>4. \A t \in Txns : pc[t] = "idle" => held[t] = {}
    BY <2>1 DEF LocksExclusive
  <2> QED
    BY <2>1, <2>2, <2>3, <2>4 DEF TypeOK, Typed, UserRows, ItemRows
<1> QED
  BY <1>1, Invariant, PTL

\* No command is applied on top of one its author has not seen, however the
\* commands interleave.
THEOREM NoLostUpdates == Spec => []SeenIsApplied
<1>1. IInv => SeenIsApplied
  BY DEF IInv, TablesInv
<1> QED
  BY <1>1, Invariant, PTL

\* A response names the event that its own command has become, and no command
\* is applied twice under one key.
THEOREM RetriesAreSafe == Spec => []RetriesAgree
<1>1. IInv => RetriesAgree
  <2> SUFFICES ASSUME IInv, NEW t \in Txns, answer[t] # None
               PROVE  /\ requests[answer[t][1]].log[answer[t][2]] = cmd[t]
                      /\ Known(answer[t][1], cmd[t]) = {answer[t][2]}
                      /\ cmd[t].op = "create" => Created(cmd[t]) = {answer[t][1]}
    BY DEF RetriesAgree
  <2>1. answer[t] \in Requests \X Nat
    BY DEF IInv, Typed
  <2> DEFINE q == answer[t][1]
             n == answer[t][2]
  <2>2. q \in Requests /\ n \in Events(q) /\ requests[q].log[n] = cmd[t]
    BY <2>1 DEF IInv, TxnsInv, AnswersLogged
  <2>3. KeysUnique /\ EventsShaped /\ RequestsShaped
    BY DEF IInv, TablesInv
  <2> HIDE DEF q, n
  <2>4. Known(q, cmd[t]) = {n}
    BY <2>2, <2>3 DEF Known, KeysUnique
  <2>5. ASSUME cmd[t].op = "create" PROVE Created(cmd[t]) = {q}
    <3>1. n = 1
      BY <2>2, <2>3, <2>5 DEF EventsShaped
    <3>2. requests[q].status # "NONE"
      <4>1. requests[q].log # <<>>
        BY <2>2 DEF Events
      <4> QED
        BY <2>2, <2>3, <4>1 DEF RequestsShaped, NoRequest
    <3> QED
      BY <2>2, <2>3, <3>1, <3>2 DEF Created, KeysUnique
  <2> QED
    BY <2>2, <2>4, <2>5 DEF q, n
<1> QED
  BY <1>1, Invariant, PTL

\* The version moves with every change of a request.
THEOREM VersionsMove == Spec => VersionCoversState
<1>1. ASSUME IInv, [Next]_vars
      PROVE  \A q \in Requests :
               requests'[q] # requests[q] => requests'[q].version > requests[q].version
  <2>1. Kinds
    BY <1>1, NextKinds
  <2>2. ASSUME NEW t \in Txns, Post(t), NEW q \in Requests, requests'[q] # requests[q]
        PROVE  requests'[q].version > requests[q].version
    <3>1. PICK p \in Requests : Posted(t, p)
      BY <1>1, <2>2, PostPosts
    <3>2. p = q /\ requests'[q].version = requests[q].version + 1
      BY <2>2, <3>1 DEF Posted, Columns
    <3>3. requests[q].version \in Nat
      BY <1>1 DEF IInv, Typed, RequestRows
    <3> QED
      BY <3>2, <3>3
  <2> QED
    BY <1>1, <2>1, <2>2, OnlyPostWrites
<1>2. IInv /\ [Next]_vars =>
        [\A q \in Requests :
           requests'[q] # requests[q] => requests'[q].version > requests[q].version]_vars
  BY <1>1
<1> QED
  BY <1>2, Invariant, PTL DEF Spec, VersionCoversState

\* Nothing is accepted but ACTIVE items with the approved signatures, although
\* the catalog is edited while the acceptance runs.
THEOREM AcceptanceIsApproved == Spec => AcceptedAsApproved
<1>1. ASSUME IInv, [Next]_vars, NEW q \in Requests,
             requests[q].status # "COMPLETED", requests'[q].status = "COMPLETED",
             NEW l \in Range(Order(q))
      PROVE  l.item # None /\ items[l.item] = [status |-> "ACTIVE", signature |-> l.signature]
  <2>1. Kinds
    BY <1>1, NextKinds
  <2>2. PICK t \in Txns : Post(t)
    BY <1>1, <2>1, OnlyPostWrites
  <2>3. PICK p \in Requests : Posted(t, p)
    BY <1>1, <2>2, PostPosts
  <2>4. p = q /\ pc[t] = "post"
    BY <1>1, <2>2, <2>3 DEF Posted, Post
  <2>5. cmd[t].op = "complete"
    BY <1>1, <2>3, <2>4 DEF Posted, Columns, StatusAfter
  <2>6. /\ q = cmd[t].req
        /\ \A i \in ItemsOf(cmd[t]) : items[i].status = "ACTIVE"
        /\ l.item # None /\ items[l.item].signature = l.signature
    BY <1>1, <2>3, <2>4, <2>5 DEF Posted, IInv, TxnsInv, ItemsClaimed, Matches
  <2>7. l.item \in ItemsOf(cmd[t])
    BY <1>1, <2>5, <2>6 DEF ItemsOf, Outcome
  <2>8. cmd[t] \in Sent /\ CommandShape(cmd[t])
    BY <1>1, <2>4, AtPost
  <2>9. l.item \in Items
    BY <1>1, <2>5, <2>7, <2>8, ItemsAreItems DEF IInv, TablesInv
  <2>10. items[l.item] \in ItemRows
    BY <1>1, <2>9 DEF IInv, Typed
  <2> QED
    BY <2>6, <2>7, <2>10 DEF ItemRows
<1>2. IInv /\ [Next]_vars =>
        [\A q \in Requests :
           requests[q].status # "COMPLETED" /\ requests'[q].status = "COMPLETED" =>
             \A l \in Range(Order(q)) :
               /\ l.item # None
               /\ items[l.item] = [status |-> "ACTIVE", signature |-> l.signature]]_vars
  BY <1>1
<1> QED
  BY <1>2, Invariant, PTL DEF Spec, AcceptedAsApproved

\* No item that procurement has ever named is deleted, although deletions look
\* for uses while commands are on their way.
THEOREM NamedItemsStay == Spec => []LinesKeepItems
<1>1. IInv => LinesKeepItems
  BY DEF IInv, TablesInv
<1> QED
  BY <1>1, Invariant, PTL

\* What an order holds of one item never exceeds what a receipt can, although
\* its lines are bound one by one and an item created for a line is not counted.
THEOREM AggregatesAreHeld == Spec => []AggregatesHold
<1>1. IInv => AggregatesHold
  BY DEF IInv, TablesInv
<1> QED
  BY <1>1, Invariant, PTL

\* Whoever becomes responsible for a request has been told so, if there is a
\* Telegram identity to tell, although roles change and accounts are reset while
\* the assignment is on its way.
THEOREM ManagersAreTold == Spec => []ManagersTold
<1>1. IInv => ManagersTold
  <2> SUFFICES ASSUME IInv PROVE ManagersTold
    OBVIOUS
  <2>1. AllTold
    BY DEF IInv, TablesInv
  <2>2. \A q \in Requests : requests[q].status \in Active => requests[q].status # "NONE"
    BY DEF Active, Agreement
  <2> QED
    BY <2>1, <2>2 DEF AllTold, ManagersTold, Assignments
<1> QED
  BY <1>1, Invariant, PTL

\* No administrator takes procurement.create from the initiator of a request
\* that no manager has accepted yet, although the check and the change of the
\* row are two steps.
THEOREM InitiatorsStay == Spec => []InitiatorsKeepAgreement
<1>1. IInv => InitiatorsKeepAgreement
  BY DEF IInv
<1> QED
  BY <1>1, Invariant, PTL

\* A request that a command but a creation is applied to is active.
LEMMA AppliedIsActive ==
  ASSUME IInv, NEW t \in Txns, pc[t] = "post", cmd[t].op # "create"
  PROVE  requests[cmd[t].req].status \in Active
<1>1. Permitted(cmd[t]) /\ CommandShape(cmd[t])
  BY AtPost
<1>2. requests[cmd[t].req].status \in Statuses
  BY <1>1 DEF CommandShape, IInv, Typed, RequestRows
<1> QED
  BY <1>1, <1>2 DEF Permitted, Delivered, Statuses, Active, Agreement

\* Who takes part in a request after a command: those who did, and the actor
\* of a creation and the new manager, whose rows are locked.
LEMMA PostedParts ==
  ASSUME IInv, NEW t \in Txns, Post(t), NEW q \in Requests, requests'[q].status \in Active,
         NEW u \in Part(q)'
  PROVE  \/ requests[q].status \in Active /\ u \in Part(q)
         \/ <<"user", u>> \in held[t]
<1>0. pc[t] = "post"
  BY DEF Post
<1>1. PICK p \in Requests : Posted(t, p)
  BY PostPosts
<1>2. CASE q # p
  <2>1. requests'[q] = requests[q]
    BY <1>1, <1>2 DEF Posted
  <2> QED
    BY <2>1 DEF Part
<1>3. CASE q = p
  <2>1. /\ requests'[q].initiator = IF cmd[t].op = "create" THEN cmd[t].actor
                                                          ELSE requests[q].initiator
        /\ requests'[q].manager = IF cmd[t].op \in {"create", "take", "transfer"} THEN cmd[t].manager
                                                                         ELSE requests[q].manager
    BY <1>1, <1>3 DEF Posted, Columns
  <2>2. cmd[t].op # "create" => requests[q].status \in Active
    BY <1>0, <1>1, <1>3, AppliedIsActive DEF Posted
  <2>3. ASSUME cmd[t].op = "create"
        PROVE  <<"user", cmd[t].actor>> \in held[t]
    BY <1>0, AtPost
  <2>4. ASSUME cmd[t].op \in {"create", "take", "transfer"}
        PROVE  <<"user", cmd[t].manager>> \in held[t]
    BY <1>0, <2>4 DEF IInv, TxnsInv, ManagersClaimed
  <2>5. u \in {requests'[q].initiator, requests'[q].manager}
    BY DEF Part
  <2> QED
    BY <2>1, <2>2, <2>3, <2>4, <2>5 DEF Part
<1> QED
  BY <1>2, <1>3

\* The rows that a reset and a command lock keep the target out of requests.
LEMMA NextParts ==
  ASSUME IInv, ParticipantsKeepAccounts, Kinds
  PROVE  ParticipantsKeepAccounts'
<1>0. Typed /\ TargetsClaimed /\ CommandsShaped /\ LocksExclusive /\ RequestsShaped
  BY DEF IInv, TxnsInv, TablesInv
<1>1. ASSUME NEW s \in Txns, pc'[s] = "admin", change'[s].op = "reset",
             NEW q \in Requests, requests'[q].status \in Active
      PROVE  change'[s].user \notin Part(q)'
  <2>1. CASE Stays(s)
    <3>1. pc[s] = "admin" /\ change'[s] = change[s]
      BY <1>1, <2>1 DEF Stays
    <3>2. <<"user", change[s].user>> \in held[s]
      BY <1>0, <3>1 DEF TargetsClaimed
    <3>3. \A p \in Requests : requests[p].status \in Active => change[s].user \notin Part(p)
      BY <1>1, <3>1 DEF ParticipantsKeepAccounts, Part
    <3>4. ASSUME NEW t \in Txns, Post(t), change[s].user \in Part(q)' PROVE FALSE
      <4>1. s # t
        BY <3>1, <3>4 DEF Post
      <4>2. <<"user", change[s].user>> \notin held[t]
        BY <1>0, <3>2, <4>1 DEF LocksExclusive
      <4> QED
        BY <1>1, <3>3, <3>4, <4>2, PostedParts
    <3>5. CASE requests' = requests
      BY <1>1, <3>1, <3>3, <3>5 DEF Part
    <3> QED
      BY <3>1, <3>4, <3>5, OnlyPostWrites
  <2>2. CASE Begins(s)
    BY <1>0, <1>1, <2>2, BeginsStep
  <2>3. CASE Passes(s)
    <3>1. pc'[s] \in {"actor", "manager", "items", "post"}
      BY <2>3, PassesStep DEF AfterActor
    <3> QED
      BY <1>1, <3>1
  <2>4. CASE LockTarget(s)
    <3>1. PICK op \in AdminOps, u \in Users, role \in AssignedRoles :
            /\ Spared(op, u, Change(op, u, role))
            /\ change'[s] = [op |-> op, user |-> u, row |-> Change(op, u, role)]
            /\ requests' = requests
      BY <1>0, <2>4, LockTargetStep
    <3>2. op = "reset" /\ change'[s].user = u
      BY <1>1, <3>1
    <3> QED
      BY <1>1, <3>1, <3>2 DEF Spared, Part
  <2> QED
    BY <1>1, <2>1, <2>2, <2>3, <2>4, NextViews DEF View
<1> QED
  BY <1>1 DEF ParticipantsKeepAccounts, Part

\* No account of someone who takes part in an active request is reset, although
\* the reset looks at the requests before it writes the row.
THEOREM AccountsAreKept == Spec => []ParticipantsKeepAccounts
<1>1. Init => ParticipantsKeepAccounts
  BY DEF Init, ParticipantsKeepAccounts
<1>2. IInv /\ ParticipantsKeepAccounts /\ [Next]_vars => ParticipantsKeepAccounts'
  BY NextKinds, NextParts
<1> QED
  BY <1>1, <1>2, Invariant, PTL DEF Spec
=============================================================================
