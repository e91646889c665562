# dc-inventory: models, checks and proofs

This directory holds TLA+ models of the backend of dc-inventory, the TLC runs that
check them on small instances, and TLAPS proofs, for every value of the constants, of the
safety properties that the runs check. Paths below are relative to `src/`; `PROJECT.json`
maps every definition that models code to its lines.

1. [The system](#1-the-system)
2. [Modules and how they correspond to the code](#2-modules)
3. [Runs, bounds and fairness](#3-runs)
4. [What is proved](#4-proofs)
5. [What the models show about the code](#5-what-the-models-show)
6. [What is left out](#6-what-is-left-out)
7. [Plan](#7-plan)

## 1. The system

A Telegram mini app for the equipment of a data centre. A FastAPI backend
(`backend/app`) serves the mini app and Telegram's webhook; separate worker
processes send Telegram calls and e-mail; all state is in one PostgreSQL database
used at READ COMMITTED, so concurrency is controlled by row locks, advisory locks,
constraints and triggers. There is no other shared state: API processes and workers
interact only through the database, and may be stopped at any moment.

| Part | State | Operations | What makes it correct |
|---|---|---|---|
| Warehouse (`modules/inventory`, triggers in `migrations`) | append-only journal of movements; projections: stock per item and location, custody per user and item; locations | receipt, issue, return, transfer, write-off, correction, reversal; archive a location | the projections are what the journal adds up to; balances stay in range; custody only with eligible users; archived locations are empty; a movement is undone at most once; a retry is not booked twice |
| Movement feed (`modules/inventory/feed_cursor.py`, `list_movements_cursor`, `pages/inventory/MovementsPage.tsx`) | none in the server: a signed cursor carries a database snapshot; the browser keeps a stack of cursors | first page, next page, back, ask again, change a filter | the pages together are the journal as it was at the first page, whatever commits meanwhile |
| Catalog (`modules/catalog`, triggers in `migrations`) | items with an identity signature, attribute values, manufacturers | create, edit, archive, delete, search, facets | an item somebody refers to is not deleted; no equipment is entered twice, however it is written, and no manufacturer in another case; no edit is lost; service and triggers agree; facet counts are what a choice leads to |
| Procurement (`modules/procurement`) | requests with revisions, lines, events and a `state_version` | create, accept, return, submit, take over, transfer, deliver, bind, report a discrepancy, complete | nobody's command is applied to a state its author did not see; the accepted goods are the approved ones; somebody able is responsible and was told, if Telegram knows them |
| Notifications (`modules/notifications`) | outbox rows with attempts, availability, a claim token and a lease | enqueue, requeue, claim, send, finalise, withdraw, purge | sent means delivered, but for a `/start` answer that a newer `/start` made unwanted; a claim has one owner; every row is settled |
| Telegram bot (`modules/telegram_bot`) | updates seen, newest `/start` and last welcome per chat; callbacks of access buttons | `/start`, approve/reject buttons | one welcome in the chat, for the newest `/start`; a button decides what the web console has not decided |
| Identity, access, auth (`modules/identity`, `access`, `auth`) | users (role, access status), Telegram identities, sessions, access requests, the configured recovery account | login, logout, ask for access, decide, block, change a role, reset an account, rotate the owner | one owner who can sign in; no session for a detached user; an approval is not undone by a stale request |
| Retention (`maintenance`) | none of its own | delete settled rows, old sessions, updates and callbacks | nothing in use is deleted |
| Bootstrap, health, schema contract, configuration | none at run time | | |
| Telegram gateway (`cloudflare`), web client (`frontend`) | none that the backend relies on | | |

How the parts interact: an acceptance of procurement posts a receipt in the warehouse
within its own transaction; administrators' changes to a user look at custody and at
procurement responsibilities; deleting an item looks at the journal and at procurement;
an edit of an item changes which movements a filtered history shows;
every business transaction enqueues its notifications in its own commit, and a worker
sends them later; a pressed button and the web console decide the same access request.

What is hard, and where the properties are aimed:

- Interleavings of transactions that lock one row after another. PostgreSQL
  re-evaluates a locking `SELECT` after waiting, but SQLAlchemy does not overwrite an
  object that is already loaded: a user row read while authenticating keeps its old
  values after it was locked. Several operations judge their actor by such a row.
- Retries: a client repeats a movement or a command under its idempotency key while the
  first attempt is running, after it committed, or with a different content.
- Provider calls outside of transactions: leases run out during a send, workers crash
  between sending and recording, answers are lost, Telegram repeats and reorders updates.
- Reads in several requests: a page of the history continues an earlier one, although
  movements get their time, their number and their visibility in different orders.
- Rules that are written twice, in Python and in PL/pgSQL triggers that run at the commit.
- Deadlocks between operations that lock in different orders, and requests that must
  nevertheless end.

`PROJECT.json` lists 40 such hazards with their lines and the properties that cover them.

## 2. Modules

| Module | Models | Built on |
|---|---|---|
| `Journal` | movements, and what a journal of them amounts to | |
| `Ledger` | abstract specification of the warehouse: one legal movement at a time is appended to a book | `Journal` |
| `Policy` | roles and the roles that hold each capability (`modules/identity/policy.py`) | |
| `Warehouse` | movements and the administration beside them, lock by lock | `Journal`, `Policy`, refines `Ledger` |
| `FiniteLemmas` | lemmas about finite sets: least and greatest numbers, sums | `TLAPS` |
| `WarehouseProofs` | theorems about `Warehouse` | `Warehouse`, `FiniteLemmas` |
| `Procurement` | procurement commands, administrators and catalog edits | `Policy` |
| `ProcurementProofs` | theorems about `Procurement` | `Procurement`, `FiniteLemmas` |
| `Outbox` | the Telegram outbox, and the e-mail outbox that works the same way | |
| `OutboxProofs` | theorems about `Outbox` | `Outbox`, `TLAPS` |
| `StartWelcome` | `/start` in one chat, composed with the outbox | `Outbox` |
| `StartWelcomeProofs` | its theorems | `StartWelcome`, `OutboxProofs` |
| `Identity` | accounts, sessions, access requests, roles, the owner | `Policy` |
| `IdentityProofs` | theorems about `Identity` | `Identity`, `FiniteLemmas` |
| `MovementFeed` | pages of the movement history under a snapshot cursor | `Policy` |
| `MovementFeedProofs` | theorems about `MovementFeed` | `MovementFeed`, `FiniteLemmas` |
| `Catalog` | items and manufacturers: validation, normalisation, signatures, concurrent edits | |
| `CatalogQuery` | search predicates and facets over the items | `Catalog` |
| `CatalogProofs` | theorems about `Catalog` and `CatalogQuery` | `CatalogQuery`, `FiniteLemmas` |
| `MC*` | model values and symmetry sets of the runs | |

Definitions whose name says what they get wrong (`FinishKeepsLocks`,
`AlreadyReversedNever`, `SharedBarrier`, ...) are variants of the definition after
them. No specification uses them; each property was checked to fail when the real
definition is replaced by one of these.

### Warehouse

A transaction `t` is one API request. `pc[t]` is the stage it has reached, `req[t]` the
movement it was asked for, `held[t]` its locks, `seen[t]` whether its actor was
eligible when authentication read the row, `answer[t]` the movement in its response.
`PostMovement`, `PostReversal` and `CompleteAcceptance` begin a request. Then each
stage takes one lock and makes the checks that the code makes there:

    LockRequest, LockAcceptor, ClaimItems    complete_acceptance only
    LockKey          advisory lock of the idempotency key; replay or conflict
    LockCustodyUser  the holder of issued equipment
    LockOriginal     the movement to be corrected or reversed; already reversed? protected?
    LockLocation     locations by id; active?
    LockItem, CheckItems   items by id; active?
    Post             balances, triggers, unique constraints, projection refresh, commit

`Post` merges the writes with the commit: what it reads and writes is covered by locks
the transaction holds, so nobody can see the parts. A movement whose actor's row is
locked by somebody else waits there, because the foreign key of the insert needs it.
`PostFails`, `Abort` and `DeadlockVictim` roll back: a refused write, a refused
check, timeout or lost connection, and the deadlock detector.

`SetUser` and its users (`UpdateUserAccess`, `UpdateUserRole`, `ResetUserAccount`),
`SetLocationArchived`, `SetItemArchived`, `DeleteUnusedItem` and `CreateItem` are
administrative requests. They are single steps: each takes the lock of the row that it
changes and finds everything else it looks at protected by that lock.

`Ledger` knows nothing of transactions, locks, projections or users' roles. A movement
is `Legal` if the book covers it (balances stay in range), if it undoes something at most
once and if a correction or reversal concerns what it refers to. `ImplementsLedger` says
the journal, taken as the book, is a behaviour of `Ledger`.

### Procurement

`users[u]` is what procurement looks at in a user: role, access and whether the user has a
Telegram identity, which a reset takes away for good. Only who has one signs in and can be told something
(`Reachable`). `requests[q]` holds the status, `version`, manager, initiator, the revisions of the order
and `log`, the applied commands. A client's command carries what the client saw
(version, revision, expected manager) and a key. It runs as a transaction that locks the
request (`LockRequest`: known key? same version?), its actor (`LockActor`: permission and
status), a manager (`LockManager`) and items (`LockItems`), and commits in `Post`.
`Resend` repeats any command ever sent; with `KeysReused` a key is also used for another
command. `LockTarget` and `ChangeUser` are the administrator's block, role change
and reset with their responsibility checks (`Spared`); `EditCatalog` changes identity,
archives or deletes items as far as `InUse` allows. `calls` records who was told of which
event, in the commit of the event. A transaction can be rolled back at every stage.

### Outbox and StartWelcome

`rows[c]` is the outbox row of the call with dedupe key `c`; `work[w]` is what worker `w`
holds in memory, `delivered` what the provider has executed. `Claim` takes an
available or a stale row (a stale one keeps its number of attempts), `Send` is the call
outside of any transaction and may be executed without the worker learning of it,
`MarkSent` and `MarkFailed` record the result only while the token is still the
worker's. `Skip` is the branch of `run_worker_once` in which a superseded `/start` answer (`Welcomes`) becomes
`SENT` without a call; the outbox alone knows nothing of the chat, so it may happen to any of them.
`Crash` also stands for a finalisation whose transaction fails. `Redeploy` changes
`max_attempts`. `Tick` lets time pass for back-off and leases.

`StartWelcome` adds the chat: `ProcessStart` is the webhook (it enqueues the removal of the
command and of the last welcome and a new welcome, if the update is the newest),
`CheckWelcome`, `SendWelcome`, `FinalizeWelcome` and `DeleteSuperseded` are the welcome's
path through the worker: it looks at the newest `/start` before the send, where it skips a superseded
welcome (`Skip`), and again after it.
`messages` are the welcomes Telegram ever showed, `shown` the ones it still shows and
`abandoned` those of which no process knows any more: the answer was lost, the worker
crashed while it alone knew the message, its immediate deletion failed, or it was too
old for Telegram to delete when a newer `/start` replaced it.

### Identity

`users`, `ident` (account -> user), `sessions` (number of live sessions), `asked` (access
requests), `configured` (`ADMIN_TELEGRAM_USER_ID`). A transaction goes through the stages
`account` (advisory lock of the Telegram account), `barrier` (advisory lock of identity
mutations, shared or exclusive), `button` (row of the callback), `rows` (user rows by id)
and `commit`. `op[t].seen` holds the rows as the ORM session loaded them. `Written` is what
an ORM flush does with such a row: only the columns that differ from the loaded values are
written. `Audited` stands for the deferred triggers that compare a change of role or access
with the audit events of the same transaction; they are what stops a flush based on an
old row. `Repair` and `RestoreOwner` are the two ways in which a login of the configured
account makes the owner; `Rotate` and `Reconfigure` are the rotation and the deployment with the new
account that follows it, which ends every running request.

### MovementFeed

A movement of writer `w` gets its time (`StampMovement`), its transaction id (`LockItem`,
the first row lock), its journal number (`InsertMovement`) and its visibility
(`CommitMovement`) in four steps, which interleave with those of the others: numbers have
gaps, and a higher number may commit before a lower one. A request for a page is
`Authorize` (role and filters), then `AcquireSnapshot` for a first page or `DecodeCursor`
for a later one, then `ReadPage`, a statement of its own that reads what is committed by
then. `Visible` is `pg_visible_in_snapshot` with the cast of the 32-bit `xmin`. The
browser's part is `GoNext`, `GoBack`, `Refetch` and `SetFilter` on `stack`. `EditItem` and `AssignRole` are
what others may change between two pages. The fields `committed` and `selected` of a cursor
are history for the properties; nothing in the model reads them.

### Catalog and CatalogQuery

A text is a word in a plain, upper-case or full-width form, so that `Compared` (casefold)
and `IdentityText` (NFKC and casefold) differ; a decimal is digits and a scale. `IsDraft` and
`IsPatch` are the request schemas. `Valid` (`Complete`, and a manufacturer that exists), `Values`, `CreatedRow` and `UpdatedRow` are the service's validation and the rows it writes;
`IdentityAsserted`, `RequiredPresent` and `TypesMatch` are the deferred triggers, which compute
the same things from the stored row. A request goes through `Lock` (row lock, read, merge,
validate), `Write`, `Index` (the unique index, where it waits for a transaction that may
still free or keep its key: `Touches`) and `Commit`. `intended[i]` collects, field by
field, what committed requests asked for. `SetStock` stands for the movements of `Warehouse`.

`CatalogQuery` has no state of its own. `Predicates` is the conjunction that
`_item_predicates` builds, with the predicates a facet leaves out; the facets count over
`Matching`. `FacetsAgree` compares each count with the number of items that the query with that choice returns.

## 3. Runs

All runs search their state space completely. Sizes are of the instances as configured.

| Run | States | Question | Properties |
|---|---|---|---|
| movements | 261k | Are retries and concurrent reversals booked once, do projections follow the journal, and do blocks, role changes, resets and archived locations leave stock where it must not be? | `TypeOK`, `CustodyHoldersEligible`, `ConstraintsNeverFire`, `ProjectionsMatchJournal`, `ArchivedLocationsEmpty`, `ImplementsLedger`, `AnswersMatchRequests` |
| acceptance | 85k | Does an acceptance race movements and item deletion safely, who takes locks in which order, and does every request end? | `HistoryKeepsItems`, `ProcurementReceiptsFinal`, `LockOrderRespected`, `DeadlocksAreKnown`, `RequestsEnd` |
| procurement_agreement | 324k | Stale, repeated and conflicting commands, creation, take-over and transfer, against blocks, role changes and resets | `InitiatorsKeepAgreement`, `SeenIsApplied`, `RetriesAgree`, `ManagersTold`, `ParticipantsKeepAccounts` |
| procurement_acceptance | 45k | Binding and acceptance against catalog edits | `AggregatesHold`, `LinesKeepItems`, `AcceptedAsApproved`, `VersionCoversState` |
| procurement_initiator | violation | Can an initiator be blocked who has to revise a request later? | `RevisionsCanBeSubmitted` |
| outbox | 111k | Claims, leases, crashes, requeues, withdrawals, skipped answers and retention | `SentMeansDelivered`, `UnexpiredClaimsKept` |
| start_welcome | 224k | Which welcomes does the chat show, and which count as sent, after lost answers, crashes and reordered updates? | `WelcomesAccounted`, `SentMeansAnswered` |
| start_answered | 17k | Is every call settled and the newest `/start` answered? | `NewestStartAnswered`, `CallsSettle` |
| identity_accounts | 246k | Logins, resets and rotation of the owner | `DetachedHaveNoSessions`, `FirstLoginOnce`, `OwnerCanSignIn` |
| identity_access | 143k | Requests made from old rows, decided twice, against blocks, promotions and resets | `DeadlocksAreKnown`, `ApprovalsStand`, `DecisionsStand` |
| movement_feed | 562k | Do the pages show each movement of the snapshot once, also after going back, and do they end? | `FeedIsSnapshot`, `PagesStay`, `PagingEnds` |
| catalog | 482k | Do concurrent edits keep each other's fields and the identity of equipment and manufacturers unique, do service and triggers agree, do facets count what a choice returns? | `EditsSurvive`, `EquipmentUnique`, `DatabaseAgrees`, `FacetsAgree` |

### Bounds

- Two transactions at a time (`Txns`). Each hazard of the list pairs one request that has
  read or locked something with another party; the second transaction may run any
  number of requests meanwhile, and so may the administrators' single steps of `Warehouse`. Deadlocks of three
  transactions are beyond these runs; for `Warehouse` and `Identity` the proofs cover them. procurement_acceptance has one transaction, because
  its other party are the catalog edits, which interleave with the stages by themselves.
- Warehouse: quantities of 1 against `MaxQuantity` 1 or 2 reach both ends of a balance.
  Three movements (`MaxMovements`) make an original, its correction or reversal and a third
  that must be refused or accepted; two or three keys make repeats and different content
  under one key. The movements run has one location, where every type but a transfer
  competes for the same balance; the acceptance run has transfers between two, so that
  location locks have an order.
- Procurement: `MaxVersion` 3 to 6 is the length of the shortest life of a request that
  reaches the question: six events lead from creation through a return, a revision and a
  binding to completion. `MaxAggregate` 3 stands for the largest quantity of a receipt, which
  a line of a known item and a proposed line bound to the same item exceed together.
- Outbox: `Limits` {1, 2} has a last attempt that is the first one and one that is not, and
  a redeployment that lowers the limit; one call may be requeued and withdrawn, the other is a `/start` answer
  that may be skipped, and `SentMeansDelivered` speaks of the first. `ClaimTTL` 2 separates a fresh, an ageing and an
  expired lease. One crash (`MaxCrashes`) is enough for each interrupted step; the properties do
  not count crashes.
- StartWelcome: two updates, in both orders and overlapping; `MaxMessages` bounds resends.
- Identity: two accounts, three user ids (a reset account signs in again as a new user),
  sessions limited to 2 instead of 5, one or two access requests. The accounts run starts
  from an empty system and from one in which an administrator is configured as recovery account;
  the access run from an owner and a rejected engineer, the state in which rows get stale in
  the most ways.
- MovementFeed: one movement per page, so that every boundary between movements is one
  between pages; two writers, of whom either may overtake the other; `MaxClock` 3 bounds
  what is stamped and edited, `CursorTTL` 2 lets a cursor expire within it; `MaxTurns` 1 is
  one return, repetition or change of filter. `XidWidth` is not reached.
- Catalog: two items and two transactions; the catalog starts with two transceivers of
  different views, with one, or with one patch cord. Drafts and edits are chosen to meet:
  a manufacturer there is already, entered in capitals and in full width (the second is accepted and
  becomes another manufacturer), its transceiver in full width and capitals, the patch cord with a length of another
  scale, a blank model and a connector in capitals, an edit of name and distance against one of the model. Queries combine category or family, view, manufacturer,
  availability, location, connector and a search word.
- Symmetry is used only over `Txns`, `Workers` and the keys of `Warehouse`, whose members
  no definition tells apart, and in no run with a liveness property.

`CHECK_DEADLOCK FALSE` stands where a run may stop: the bounds on movements, versions,
messages, clocks and requests are guards, and clients need not send anything. The outbox and
catalog runs have no such bound and are checked for deadlock.

### Fairness

- acceptance: strong fairness of each transaction's `Step`, because PostgreSQL queues for a lock
  in order of arrival and statements end; weak fairness of `DeadlockVictim`, because the
  detector runs on every long wait. `Abort` is not assumed to happen, so no timeout is
  needed for `RequestsEnd`, and clients are not assumed to send.
- start_answered: weak fairness of a worker's steps (provider calls have timeouts, a dead
  worker's work goes back to the outbox with its lease) and of `Tick`; strong fairness of the
  claim of each call, because rows are claimed in the order of `available_at`.
  `TimelyStartNext` excludes leases that run out under a live worker: the worker refuses
  to start with a lease shorter than its provider timeouts and a margin
  (`validate_notification_worker_lease`). The safety runs do not assume this.
- movement_feed: weak fairness of the request (its statements end) and of `GoNext`, the
  reader who does turn the pages; `PagingEnds` says nothing of a reader who stays. Movements,
  edits, returns and refetches are not assumed to happen or to stop.

## 4. Proofs

Every theorem holds for all values of the constants that satisfy the module's assumption:
any sets of users, items, calls, workers and, above all, any number of concurrent
transactions. The theorems about `Spec` need no fairness.

An assumption says what the constants are: ids that rows are locked by are numbers
and `None` is none of them; roles are roles. Some say more. `JournalAssumption` keeps client keys
and keys derived from a procurement apart. `ProcurementAssumption` wants ordered lines to
name an item exactly if they are not proposals, and to order at least one and at most `MaxAggregate` pieces, as the schema does
(`procurement/schemas.py:38`). `IdentityAssumption` wants initial states in which whoever has an
account has a row, and an owner, if there is one, is the only one, approved and attached: the empty database
has nobody, and the other initial states are ones the system itself can reach. `InitialsAssumption`
wants of the items a catalog starts with what the service asks of a new one, and
`CatalogAssumption` that transceivers, and no other leaves, have the attributes `reach` (a required
text) and `reach_m` (a number; `catalog/configuration.py`). `QueryAssumption` wants finitely many items, families that are no
leaves, attributes that are not called like one of the fixed facets, and queries of the shape that
`build_catalog_query_spec` gives them. `ScaleAssumption` is arithmetic: 10^s times
10^(n-s) is 10^n for the scales up to `MAX_DECIMAL_SCALE`. It is an assumption because the
provers know nothing of powers; TLC evaluates it for the instance's scale.

Sums and cardinalities occur in three properties. `FiniteLemmas` proves what they need without
the library's induction theorems: of a family of subsets of a finite set some member is
smallest (`SmallestSet`), so the smallest set at which a law fails is where the contradiction is
found. In this way a greatest number exists, the recursion behind the library's `SumFunctionOnSet` is well defined
(`SumsExist`), and a sum does not depend on the order in which its terms are taken (`SumTakes`).

None of the safety properties is inductive: each speaks of tables, and a transaction that
has passed a check will write later what a step in between could make wrong. Each proof's `IInv`
therefore says for every stage which locks a transaction holds by then and which
facts those locks keep true until it commits; in the feed, where the reader takes no lock,
which facts a snapshot keeps. TLC checked every `IInv` on the module's runs before it was proved.

The proofs do not go through the actions one by one for each conjunct. In each
module a lemma (`Kinds`, `NextKinds`; `Progress` in the feed) shows once what a step may be: one
that begins a transaction, ends one without writing, takes one to a later stage, commits, or one of a few other
changes, and what each kind leaves alone. Then there is a lemma for each conjunct, by kind of step. The last step
of each theorem combines them temporally. In the catalog, where only a commit changes tables, a lemma
shows that a step to another stage keeps the whole invariant (`StageKeeps`) and one that a committed row does
(`RowKeeps`); the actions are instances of these.

### Warehouse

| Theorem of `WarehouseProofs` | States |
|---|---|
| `TypeCorrect` | `Spec => []TypeOK`; balances stay between 0 and `MaxQuantity` |
| `Invariant` | `Spec => []IInv`, the inductive invariant |
| `ProjectionsAreRight` | `Spec => []ProjectionsMatchJournal` |
| `ArchivedLocationsStayEmpty` | `Spec => []ArchivedLocationsEmpty` |
| `CustodyStaysEligible` | `Spec => []CustodyHoldersEligible` |
| `HistoryIsKept` | `Spec => []HistoryKeepsItems` |
| `ReceiptsAreFinal` | `Spec => []ProcurementReceiptsFinal` |
| `AdvisoryLocksSuffice` | `Spec => []ConstraintsNeverFire` |
| `AnswersAreRight` | `Spec => AnswersMatchRequests` |
| `WarehouseImplementsLedger` | `Spec => ImplementsLedger` |

The strengthening:

- `LocksExclusive`: an exclusive lock has one holder.
- `LocationsClaimed`, `ItemsClaimed`: after its stage a request holds the row of each
  place and item it names, and the row still passes the check.
- `KeysClaimed`: under the advisory lock of a key the journal has no movement with it.
- `OriginalsClaimed`: under the original's lock it is neither reversed nor protected.
- `WellFormed`, `CorrectionsConcern`: the shape of requests and journal entries, and that a
  reversal mirrors its original.
- `DeliveriesClaimed`, `ReceiptsBound`: a procurement that is being accepted has no
  receipt, and a completed one has exactly one.

`ProjectionsMatchJournal` is a part of `IInv` itself: a movement appended to the journal adds its
own deltas to every sum over it and nothing else (`JournalAppends`), and the rows that
`refresh_warehouse_projection` does not touch are rows for which those deltas are
0 (`NextProjections`).

`OnlyPostWrites` gives the refinement its stuttering steps, and `PostEnters` shows that a
post is a legal entry of the ledger; `LedgerWords` restates the instance's operators in
the warehouse's words.

| Theorem about locks | States |
|---|---|
| `MovementsClimb` | the inductive invariant `IdleHoldNothing /\ LocksClimb` |
| `LocksAreOrdered` | `Spec => []LockOrderRespected` |
| `OnlyKnownDeadlocks` | `Spec => []DeadlocksAreKnown` |

`LocksClimb` says that a movement holds locks of the kinds of earlier stages only, and of its own stage's kind
only rows below all those it still needs. That `NextRow` is the least row left
(`NextRowIsLeast`) needs that ids are finitely many. `OnlyKnownDeadlocks` follows: in
a circle of movements every lock that is waited for is below another one, so none can be an
item (there is a greatest id), then none a location, and so on down to the keys.

### Outbox

| Theorem of `OutboxProofs` | States |
|---|---|
| `TypeCorrect`, `Invariant` | `Spec => []TypeOK`, `Spec => []IInv` |
| `SentIsDelivered` | `Spec => []SentMeansDelivered` |
| `ClaimsAreKept` | `Spec => UnexpiredClaimsKept` |
| `ExhaustedRowsDie` | `Spec => []ExhaustedIsDead`, if all deployments have the same limit |

`SentMeansDelivered` is stated for `Calls \ Welcomes`: an answer to `/start` may be skipped, and that this
happens only after a newer `/start` is a theorem of `StartWelcomeProofs`.
The strengthening is `SentInHand`: a worker that has seen its call executed and still owns
the row is right about it, because a row is not enqueued anew under a claim. `ExhaustedRowsDie` has
the hypothesis that all `Limits` are equal; without it the property is false (section 5).

### Procurement

| Theorem of `ProcurementProofs` | States |
|---|---|
| `TypeCorrect`, `Invariant` | `Spec => []TypeOK`, `Spec => []IInv` |
| `NoLostUpdates` | `Spec => []SeenIsApplied` |
| `RetriesAreSafe` | `Spec => []RetriesAgree` |
| `VersionsMove` | `Spec => VersionCoversState` |
| `AcceptanceIsApproved` | `Spec => AcceptedAsApproved` |
| `NamedItemsStay` | `Spec => []LinesKeepItems` |
| `AggregatesAreHeld` | `Spec => []AggregatesHold` |
| `ManagersAreTold` | `Spec => []ManagersTold` |
| `InitiatorsStay` | `Spec => []InitiatorsKeepAgreement` |
| `AccountsAreKept` | `Spec => []ParticipantsKeepAccounts` |

`IInv` has a part about the tables (`TablesInv`) and one about transactions (`TxnsInv`). The log of a
request begins with its creation, has one event per key and actor (`KeysUnique`) and an `accept` once
the purchase has begun (`PurchasesAgreed`). A command past its stage holds its request,
for which it was written (`RequestsClaimed`), its actor, who is still able to send it
(`ActorsClaimed`), its manager (`ManagersClaimed`) and its items, ACTIVE and as approved
(`ItemsClaimed`). An administrator holds the row that will be written, and while its
user is needed for an agreement the new row is an able one (`TargetsClaimed`): a creation by this
user would need the row that the administrator holds. The same argument, for the actor of a creation and the
new manager, gives `AccountsAreKept`. `ManagersTold` is about managers with a Telegram identity: nothing in
`Procurement` gives an identity to a user who has lost it, so whoever has one now had one when the event was
written (`IdentitiesEnd`). `AggregatesHold` is kept because the check of a revision or a
binding is made under the request's lock, which the command holds until it commits
(`AggregatesClaimed`); a binding that creates its item makes no check, but the new item is on no
other line (`BoundLine`, `AggregateOfOne`).

### Identity

| Theorem of `IdentityProofs` | States |
|---|---|
| `TypeCorrect`, `Invariant` | `Spec => []TypeOK`, `Spec => []IInv`; nobody has more than `MaxSessions` sessions |
| `ResetsEndSessions` | `Spec => []DetachedHaveNoSessions` |
| `FirstLoginsSucceed` | `Spec => []FirstLoginOnce` |
| `OneOwner` | `Spec => []OwnerCanSignIn` |
| `ApprovalsAreKept` | `Spec => ApprovalsStand` |
| `DecisionsAreKept` | `Spec => DecisionsStand` |
| `LocksAreOrdered` | `Spec => []LocksOrdered`: accounts, barrier, button, user rows by id, but for a reset's buttons |
| `OnlyKnownDeadlocks` | `Spec => []DeadlocksAreKnown`, if `Users` is finite |

Under the lock of its account a login knows whose the account is (`AccountsClaimed`), under
the barrier a rotation knows its heir (`HeirsClaimed`); the recovery user that was read as
approved stays approved (`RecoveryClaimed`); under the user's row a login has
counted all sessions (`SessionsCounted`). These facts survive the commits of others because
whoever could falsify them needs a conflicting lock (`LocksKept`, `LocksExclusive`); a lemma per
operation (`Effects`) says what its commit may do to the tables. `ApprovalsAreKept` rests
on the audit triggers instead of locks, as the code does. The deadlocks follow from the
lock order as in the warehouse; only a reset goes against it, and it waits for a button then.

### MovementFeed

| Theorem of `MovementFeedProofs` | States |
|---|---|
| `PagesAreSnapshots` | `Spec /\ []Unwrapped => []FeedIsSnapshot` |
| `PagesAreKept` | `Spec /\ []Unwrapped => []PagesStay` |

`Unwrapped` is `xids < XidWidth`: fewer transactions than the 32 bits of `xmin` tell apart.
Without it both are false (section 5).

The invariant is about cursors rather than pages. `Sound(c)` says that the snapshot of `c` shows
exactly the movements that were committed when it was taken: of those that are in the journal, of those whose
transaction is open, and of those still to come, since the next id is not below `xmax`. No step makes a sound
cursor unsound (`SoundKept`), because of what steps do to the tables (`Progress`): a movement
that appears carries the id of a transaction that was open. The cursor in the
request, the next cursor and every cursor in the browser's stack are sound; each page that was
left showed `Shown` of its cursor, which is a function of the snapshot and the catalog
(`PagesSound`, `AnswerSound`). That a page and its next cursor leave no gap is
arithmetic of the newest numbers of a finite set (`NewestFacts`, `PageAnswered`).

### Catalog

| Theorem of `CatalogProofs` | States |
|---|---|
| `EditsKept` | `[]EditsSurvive` |
| `EquipmentStaysUnique` | `[]EquipmentUnique`: items however they are written, manufacturers whose names differ in case |
| `TriggersAgree` | `[]DatabaseAgrees` |
| `FacetsCount` | `[]FacetsAgree` |

Each live item is the row that `create_item` would write for `intended` of it, but for its status
and normalized model (`RowsIntended`). A request that has its row locked knows what it made of
that row (`UpdateClaim`, `ArchiveClaim`, `DeleteClaim`), which stays true because a row has one
holder (`LocksExclusive`). The step from the stored row to what is meant is `EditIntended`: merging an
edit into the stored row and into the item as it is meant give the same row, although the stored
row has lost a blank model and omitted values, and has the derived metres, which the merge
takes out and derives again (`DerivedAgain`). `KeysUnique` carries the unique indexes: what a
transaction entered is neither among the committed keys nor entered by somebody else. That equal
readings have equal signatures is `SameSignature`; `ItemsApart` and `ManufacturersApart` are the two
halves of `EquipmentStaysUnique`. The triggers agree because a signature
computed from a stored row is the one that was computed from the request (`RowFacts`, `RowAccepted`).

`FacetsCount` shows for each facet that the set whose size it counts is the set that the query with
the choice returns (`ChosenMaker`, `ChosenLocation`, `ChosenCategory`, ...): leaving a choice out of the predicates and
then selecting by a value is the same as choosing that value. For texts this needs that a
value on offer stands for all the texts that read the same (`ChosenText`), for the
distance that the values are numbers and finitely many (`MetresAreNumbers`, `RangeHolds`): the invariant of the
catalog says so of every live item.

### StartWelcome

| Theorem of `StartWelcomeProofs` | States |
|---|---|
| `WelcomesAreAccounted` | `StartSpec => []WelcomesAccounted` |
| `SentIsAnswered` | `StartSpec => []SentMeansAnswered` |

A welcome
that is shown changes hands: it is in the hand of the worker that sent it, then recorded, then
superseded by a removal, and the invariant has to follow the call that goes with it. A message in a hand
answers the call the worker holds (`HandsHold`), which is why a worker never drops a message by taking
another call. The row of a removal exists only for a message that was sent, and is `SENT` only
when that message is gone (`RemovalsTrue`), because rows are finished by a worker that has
executed their call (`RowMoves`, `JobsKnown`). The recorded welcome's own row is `SENT`
(`LastFinished`), so a second welcome for the same `/start`, sent by a worker whose lease ran out, is never
recorded over the first (`RecordedOnce`): it goes to cleanup. A newer `/start` enqueues the removal of
the recorded welcome in the transaction that makes it stale (`LatestMoves`). The rows
are never purged here, as within the time considered no row gets old enough (section 6).

`SentIsAnswered` says which welcomes may be `SENT` without having been sent. A row becomes `SENT`
by a worker that has executed its call (`SendsTrue`) or found it superseded (`Overtaken`), and then
the newest `/start`, which has been registered, is a later one (`StartsKnown`). Both stay true: nothing
that was executed is forgotten while somebody holds it or its row is `SENT` (`DeliveredStays`), and registered
updates stay registered.

### Only model-checked

- Liveness: `RequestsEnd`, `CallsSettle`, `NewestStartAnswered`, `PagingEnds`. The provers have no
  rules for fairness over `ENABLED`.
- `RevisionsCanBeSubmitted`, which is false (section 5).

## 5. What the models show

One run finds a disagreement between documentation and code, `procurement_initiator`:
`update_user_access` and `update_user_role` ask for requests in the two agreement
statuses, but `return_for_correction` also leads back from acceptance. An initiator
blocked during the purchase is left with a request that only they may revise.
`docs/PROCUREMENT.md:114` forbids changes incompatible with an active responsibility.
Until the first acceptance by a manager the property holds (`InitiatorsKeepAgreement`),
and it holds against resets (`ParticipantsKeepAccounts`).

Observations made while modelling, which no run asserts:

- `complete_acceptance` locks its items before the key and the location, against the
  order documented in `docs/WAREHOUSE.md:56` (`procurement/service.py:1330`).
  `LockOrderRespected` is therefore stated for the other requests. An acceptance and a
  movement may deadlock; the detector resolves it and `RequestsEnd` holds.
- A user's own issue holds their row while a second movement of theirs needs it for its
  foreign key: two such movements may deadlock (`DeadlocksAreKnown` names this case).
- A superseded `/start` answer is recorded `SENT` with no call to Telegram (`notifications/worker.py:306`), so
  a `SENT` row is no evidence of a message; `SentMeansAnswered` says when this happens.
- An account that was reset has no Telegram identity, but the administrator's operations still accept the user: it
  can be unblocked and made a MANAGER (the answer then fails at `identity/admin_api.py:111`). `_validate_manager`
  looks at role and access only (`procurement/service.py:171`), so a request can be assigned to
  such a user, and `telegram_user_ids_for_users` joins the identities and finds nobody to tell
  (`procurement/notifications.py:52`). `ManagersTold` is therefore stated for managers who have an
  identity, and `InitiatorsKeepAgreement` asks for role and access, as the code does.
- `create_manufacturer` compares names with their case folded and no more (`catalog/service.py:678`),
  while the identity of items also normalizes width (NFKC): a name and its full-width form are two manufacturers,
  but an item entered for one cannot be entered for the other. `ManufacturersUnique` and
  `ItemsUnique`, the parts of `EquipmentUnique`, say just this.
- The manager of an active request may be blocked or change role;
  `ParticipantsKeepAccounts` protects managers only against resets.
- A worker that dies during a final attempt has its row claimed again as stale without a
  new attempt being counted; a lowered `max_attempts` leaves rows PENDING that nobody
  claims. `CallsSettle` is therefore checked, and `ExhaustedIsDead` proved, with a constant limit.
- `create_or_get_access_request` locks the user without re-reading: with an old PENDING
  row it inserts a request for a user who was decided meanwhile (`access/service.py:81`).
  With an old REJECTED row the audit trigger refuses the commit, which is why
  `ApprovalsStand` holds.
- An administrator who has just been blocked or demoted completes a web request that was
  authenticated before (`identity/locking.py:58`).
- A button of an older access request decides the pending one of the same user
  (`telegram_bot/service.py:557`).
- A button press and a reset of the same account may deadlock (callback row and user row
  in opposite orders). Nothing else in `Identity` does, with any number of transactions
  (`OnlyKnownDeadlocks`).
- `xmin` has 32 bits and is cast to a 64-bit transaction id without its epoch
  (`inventory/service.py:698`). After 2^32 transactions of a cluster every movement seems
  older than every snapshot, and `FeedIsSnapshot` fails; below that it holds.
- The equipment and long-range filters of the history are evaluated on the catalog at the
  time of each page (`inventory/service.py:590`). `FeedIsSnapshot` is therefore
  stated for movements of items that were not edited since the first page. An edit may also move
  a movement off a page and the first one of the next page onto it, so going back shows another
  page; `PagesStay` is stated for filters that do not depend on the catalog and
  for snapshots of whose items none was edited (`Calm`).
- An item of a category without manufacturers that is created with a model of nothing
  but whitespace passes validation and fails in the deferred identity trigger, as an
  unexpected error; an edit to such a model is handled (`catalog/service.py:793`).
  `DatabaseAgrees` excepts this case.
- The category facet counts all Ethernet transceivers, while choosing that category shows
  its default view, without the long-range and RJ45 ones; `FacetsAgree` compares the count
  with all views together. Facets with a single value are not offered.
- Two edits that swap the identities of two items wait for each other in the unique
  index; the detector ends one of them.
- Two managers who transfer requests to each other lock user rows in opposite orders
  (`procurement/service.py:623`); in `Procurement` the victim is one of the rollbacks that
  may happen at every stage.
- `docs/DEPLOYMENT.md:242` asks operators to stop identity changes before a rotation; the
  barrier already makes the rotation safe against them (`OwnerCanSignIn`).

## 6. What is left out

Whole parts: the validation of Telegram's init data (a function of one input), start-up checks,
health and configuration (no shared state), the bootstrap tool with its workbook (run once by
an operator on an empty warehouse), the gateway (a stateless relay, of which `Outbox` has what its caller can
observe), and the web client but for the paging of the history.

Within the modelled parts:

- Warehouse: creation and renaming of locations; requests whose positions the schema
  already refuses; the immutability triggers (the model writes the journal in one
  place); the issue's notification. Client keys and the keys derived from a procurement
  are disjoint (`JournalAssumption`), as their UUIDs are.
- Feed: an acceptance takes its transaction id before it stamps its movement, which the snapshots do
  not tell apart; the deprecated listing by offset and the stock and custody listings, which are
  single queries over the projections; the signature of a cursor (a client sends back what it
  was given); filters that depend on a movement only, like the actor's.
- Catalog: category schemas, which only migrations change, are constants; ENUM
  attributes (no category has one), length limits and the exact bounds of numbers; an optional number given as
  blank text, which is dropped; whitespace
  but for a text that is nothing else; the list of manufacturers. Uses of an item other than
  movements are in `Warehouse` and `Procurement`.
- The normalization of a text or a number is one operator for the service and the trigger: `DatabaseAgrees` compares
  which columns and attributes each of them normalizes, and when, not Python's and PostgreSQL's functions
  character by character.
- Search: the order and relevance of a listing, numbers as search words and the paging of facet
  values. No property relates them to anything else.
- Retention of sessions, Telegram updates and callbacks, which removes expired rows the way
  settled outbox rows are removed.
- In `Warehouse` and `Procurement` PENDING and REJECTED users count as BLOCKED, which is
  how capability checks treat them, and an administrator's lock on their own row is
  omitted. Only `Identity` tells the statuses apart.
- Procurement: comments and alternative proposals, which are data of an event that no
  operation reads; custody conditions of the
  administrator's operations, which are in `Warehouse`; the receipt itself, which is in
  `Warehouse`; the e-mail rows, which are in `Outbox`. The advisory lock of a creation is taken
  with the actor's row. Clients use new keys in order (`KeyChoice`), since only equality
  of keys matters.
- Outbox: a claim's random token is represented by the worker that drew it, since a
  worker that lost its claim has no use for its old token. Back-off is in ticks of unspecified length.
- StartWelcome: retention and withdrawal do not concern these calls within the time
  considered; removals of `/start` commands are not followed in the runs, since no other
  call depends on them.
- Identity: custody and procurement conditions, which are in the other modules; who
  approved and when; expiry of a button is a rollback; a button of a decided request
  only answers and changes nothing.

## 7. Plan

An abstract specification of the outbox (at-least-once, settled once) that `Outbox`
refines.
