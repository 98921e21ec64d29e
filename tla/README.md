# Here is order: TLA+ models and proofs

Here is order is an inventory and purchase-order service for a café: a Hono
API on a Cloudflare Worker (`src/`), one D1 (SQLite) database (`migrations/`),
a set of operator scripts (`scripts/`), a delivery workflow and a Next.js
frontend. This directory holds TLA+ models of the parts of it whose correctness
depends on what happens *between* two calls, of a database, an API or a file
system, TLC runs that check them on small instances, and TLAPS proofs for every
size.

Paths below are relative to the repository. In `PROJECT.json` they carry the
prefix `src/` of the checkout, so the Worker's own `src/index.ts` is
`src/src/index.ts` there.

## 1. Inventory of the system

| Component | State it keeps | Operations | Modelled in |
| --- | --- | --- | --- |
| Purchase orders, `src/purchase-orders.ts` and the `/api/orders` routes | `purchase_orders`, `order_items`; writes `items.current_stock` and `stock_transactions` on a receipt | createDraft, createDraftWithItems, getDetail, addItemsToDraft, editDraftItem, receive, revise (confirm, cancel, metadata), deleteDraft | `PurchaseOrders`, `OrderLifecycle` |
| Catalogue and stock, `src/index.ts` | `item_categories`, `items`, `stock_transactions` | create, rename, delete a category; create, patch, delete an item; adjust stock | `Inventory` (all but renames and patches of display columns) |
| Schema and triggers, `migrations/` | the tables, their triggers and unique indexes | abort the batch that breaks a rule | `Tables` |
| Integrity audit, `scripts/audit-order-item-integrity.mjs` | none in the database (read-only queries); the file of its details | count the rows that need repair, give a verdict; reserve, fill, check and take back the details file | `IntegrityAudit`, `DetailFile` |
| Catalogue seed, `scripts/notion-import-core.mjs`, `import-notion-export.mjs`, `apply-notion-seed.mjs` | three files in `data/`, a private copy, the rows it inserts | turn an export into SQL, CSV and report; verify the SQL and have Wrangler run it | `SeedFiles`; the rows are initial states of `Tables` |
| Identity and sessions, `src/identity/index.ts` and the `/api/auth`, `/api/users` routes | `users`, `sessions`, `audit_logs` | authenticate, resolveSession, logout, createUser, changeOwnPassword, resetPassword, cleanupExpiredSessions | `Accounts`, `Identity`, `SessionAuthority` |
| Password recovery, `scripts/recover-password*.mjs` | writes `users`, `sessions`, `audit_logs` over REST | preflight, confirm, batch, postflight | `AccountOperators` |
| Smoke identity, `scripts/smoke-identity-*.mjs` | one row of `users`, its sessions and audit rows | provision, rotate, disable | `AccountOperators` |
| Identity compatibility audit, `scripts/identity-compatibility-audit.mjs` | none (one read-only query) | count legacy and unsupported hashes | `LegacyHashes` in `AccountService` |
| D1 REST client and batch contract, `scripts/cloudflare-d1-rest.mjs`, `d1-rest-batch-contract.mjs` | a disposable database, the list of databases | create, probe, look up, delete, look again | `RestClient`, `DisposableDatabase` |
| Deployment verification and smoke, `scripts/production-preflight.mjs`, `verify-worker-deployment.mjs`, `smoke-*.mjs`, `authenticated-business-smoke.mjs`, `.github/workflows/deploy-worker.yml` | the deployments of two Workers, the schema, a recovery checkpoint, one session | preflight, migrate, deploy, verify, smoke | `Delivery`, `SmokeTransaction`, `Pipeline` |
| Web frontend, `frontend/` | the state of the page that is mounted, and its handlers that wait | load, type, save, confirm, submit, leave | `WebClient`, `OrderPage`, `OrderListPage`, `ItemsPage`, `DashboardPage`, `AccountPages`, `WebFrontend` |
| Read-only routes, envelope and schemas, readiness, observability | none | | not modelled |

**How they interact.** Each HTTP request is one run of a handler in a Worker
isolate. Handlers share nothing but the database: they read it with single
statements and write it with one `db.batch`, which D1 runs as a transaction.
Between two awaits of a handler any other handler may commit. Nothing locks:
every write repeats, in its own `WHERE` clauses, the conditions its handler
read before, and the triggers of migration 002 abort what still slips through.
The scripts reach the same database over the REST API. The delivery workflow
runs them as jobs one after the other, while an operator may deploy and migrate
by hand. The pages of the frontend send the requests; their handlers share the
state of a page as the Worker's share the database.

**What is hard.** Reads that are stale when the batch runs; batches of several
statements whose conditions must match all or nothing; a status column derived
from the rows inside a receipt's batch; triggers that turn a missed condition
into an aborted batch and, where no `catch` is, into a 500; a reply that is
lost after the commit. In the scripts: calls whose answer does not tell whether
they took effect, lists that lag behind, a cleanup that must know what may
exist, three files replaced one after the other, a path that others share. In
the pages: a handler of three awaits during which the user types on or leaves,
two requests of which the second may fail, flags that must not outlive their
submission. Unit tests run one request at a time, or a few pairs;
the interleavings of every pair of operations are what the models add.

**What makes each component correct.** For orders: the status says what the
rows say; nothing is received twice, too early or on a canceled order; a placed
order's rows are fixed; rows go with their order; a correct request is never
answered with a 500. For the catalogue: an item that an open order needs cannot
be deleted, a category with items cannot, and neither check can be raced. For
stock: never negative, always the sum of its ledger. For identity: a session
rests on the password its account has now, an account that is switched off has
none, a session ends only for a reason of its own account, and the login audit
counts the logins. For the scripts: success is reported only for what this run
did, however answers are lost or delayed; nothing is left behind silently and
nothing of somebody else's is removed; a checkpoint precedes what it undoes, and
only reviewed text reaches the database. For the pages: what the user was told
is saved is saved, one intention makes one order, and no page stays busy.

The hazards of the code, one by one with their lines, are the `hazards` of
`PROJECT.json`.

## 2. Modules

```
Tables ──┬── PurchaseOrders ──┐
         └── Inventory ───────┴── Backend ──┬── IntegrityAudit ── MCBackend (TLC)
                 OrderLifecycle ──(INSTANCE)┘└── BackendProofs ── LifecycleProofs (TLAPS, extends IntegrityAudit too)

Accounts ──┬── Identity ──────────┐
           └── AccountOperators ──┴── AccountService ──┬── MCAccounts (TLC)
                 SessionAuthority ──(INSTANCE)─────────┘└── AccountProofs ──┬── AuthorityProofs (TLAPS)
                                                                           └── AccountStepProofs (TLAPS)

RestClient ── DisposableDatabase ──┐
                          Delivery ─┼── Pipeline ──┬── MCDelivery (TLC)
                  SmokeTransaction ─┘              └── DeliveryProofs (TLAPS)

SeedFiles ──┬── MCFiles (TLC)
DetailFile ─┴── FileProofs (TLAPS)

WebClient ── OrderPage, OrderListPage, ItemsPage, DashboardPage, AccountPages ── WebFrontend ──┬── MCWeb (TLC)
                                                                                               └── WebProofs (TLAPS)
```

`MCRequests` extends `MCBackend`, `MCCalls` and `MCOperators` extend
`MCAccounts`: each of the three puts several workloads under one run, with a
variable `mix` that is chosen at the start and never changes. `MCResets` extends
`MCAccounts` by a history variable, `awaited`: the password an administrator has
set for a user who has not logged in since.

Orders and accounts share the database but no table the other one writes: an
order request depends on accounts only through `requireAuth`, which lets it
start. The delivery's migrations are steps of the schema alone, and the pages
see the server only through answers. Hence five specifications, and six with
the audit's file.

* **Tables**: the tables as functions, and the requests in flight.
  `orders[o]` is a row of `purchase_orders` (`status`, with "absent" for an id
  not given out yet, and the soft-delete flag); `lines[o][i]` the row of
  `order_items` for that order and item: `uq_order_items_active_order_item`
  allows one active row, and rows are deleted only together with their order,
  so a pair never has two rows. `items[i]` and `categories[k]` are the catalogue, `ledger[i]`
  the sum of an item's `stock_transactions`, and `receipts[o][i]` the part of
  it that carries the row's `order_item_id`. `InsertLineAborts`,
  `UpdateLineAborts`, `WriteItemAborts` and `UpdateStatusAborts` are the
  triggers. `req[c]` is the request client `c` has in flight: its operation,
  the await it is suspended in (`at`), its arguments and what it has read; or,
  when idle, the last reply.
* **PurchaseOrders**: each operation is a chain of actions, one per D1 call.
  `Stage...` is the first read with the refusals that follow it, `CheckItem`
  and `ScanLine` the two read loops, `...ReadLine`, `ReviseSumReceipts` and
  `ReviseCountLines` the later reads, `Commit...` the batch, `ReadBack` the
  read that fills the reply. A batch is one action: `...Guard` is what its
  first conditional statement matches on, `...Aborts` what the triggers make of
  its statements, and all statements take effect together or not at all.
* **Inventory**: the same for the catalogue and stock routes.
* **Backend**: the composition. `Next` lets each client send a request, its
  handler take a step, or the request be lost (`Abandon`: the isolate is
  evicted, a D1 call fails, the client goes away; whatever was committed
  stays). All properties, the inductive invariant `IndInv` and the refinement
  mapping are here.
* **OrderLifecycle**: the abstract specification of an order: drafted, amended
  while a draft, placed, then only received, or canceled or discarded. It has
  no requests and no status beyond the phase: `ordered`, `partially_received`
  and `fully_received` are one phase, told apart by the quantities.
* **IntegrityAudit**: the audit's counts and verdict as operators over
  `Backend`. The totals of an order, sums in the SQL, are the numbers of units in
  its rows: the cardinality of a set, which the proofs can reason about as they
  cannot about a fold.
* **MCBackend**: model values and symmetry sets for TLC.
* **BackendProofs**, **LifecycleProofs**: the theorems.
* **Accounts**: `users`, `sessions` and what is asked of `audit_logs`; the
  calls in flight (`call[c]`) and the operator runs (`run[r]`). A hash is a
  record of scheme, password and salt. A session keeps, as history, the password
  it was opened with.
* **Identity**: the calls, one action per D1 call. `Authenticated` is
  `requireAuth`: the session is resolved once, and the handler goes on with that
  principal whatever happens to the session. `CommitLogin` is the batch of three
  statements whose conditions (`SessionGuard`, `changes() = 1` in `LoginNoted`,
  `UpgradeGuard`) each decide for themselves; `Cleanup` is the deletion of
  expired sessions that `waitUntil` runs after the reply.
* **AccountOperators**: the two scripts. `WriteAnswered` applies the batch,
  whether or not the script learns of it; `WriteUnanswered` is a refusal, a
  failure or a request still on its way, which `LateWrite` may apply after the
  script has finished. Where the code rolls a batch back through the NOT NULL
  `action` of its audit row, `WriteApplies` is false.
* **AccountService**: the composition with `Expire` (the thirty days of a
  session pass), all properties, the inductive invariant `AccountInv`, and the
  mapping to **SessionAuthority**, the abstract specification: atomic logins,
  logouts, password changes and deactivations.
* **MCAccounts**: model values and symmetry sets. **AccountProofs**,
  **AuthorityProofs**, **AccountStepProofs**: the theorems.
* **RestClient**: how a call of Cloudflare's API can end and what the client
  makes of it. `Effects(a)` is the set of what may have happened behind answer
  `a`; a lost, a 5xx or an unreadable answer leaves both.
* **DisposableDatabase**: the batch contract, one action per call. `job` holds
  the local variables that outlive an await (`uuid`, `mayHaveCreated`, whether a
  lookup must find something, whether a retryable failure was seen); `dbs` is
  what exists under the run's name, `listing` what the list shows. `Kill` is a
  cancelled job, which cleans up nothing.
* **Delivery**: the preflight (`TakeBookmark`, `ReadApplied`, `Snapshot`), the
  migrations one at a time, and per Worker the deployment with its three reads
  (`ReadActive`, `ReadVersion`, `Reread`) and retries. `history[w]` are all
  deployments of a Worker, with the instant of their creation: two may share
  it, and then either may be listed first. `DeployByHand`, `MigrateByHand` and
  `Restore` are the operator.
* **SmokeTransaction**: the login, the reads and the logout under test, with the
  `finally` block that logs out again if the session was not seen to end.
* **Pipeline**: the jobs in order, `stage` being the one at hand.
* **SeedFiles**: the importer, which removes the old report, replaces seed and
  list and writes the new report last; and any number of appliers, which read,
  verify, copy and run the seed. **DetailFile**: runs of the audit that share one
  output path, with another process that swaps what is there. An inode is
  named by its creator.
* **WebClient**: a call of `lib/api.ts`, the server behind it in outline, and
  `tasks[t]`, a handler that waits: its kind, its await, its request and answer.
  `Show` sets the state of a page unless the user has left it; what was shown or
  saved then stays in `ui.to` and `ui.result`. The page modules hold the handlers
  of one page each, with the names of the source; **WebFrontend** composes them
  with other clients of the server.
* **DeliveryProofs**, **FileProofs**, **WebProofs**: the theorems about these.

Replies are `ok`, `invalid` (400), `not_found`, `conflict` (409), `error`
(500) and `lost`. Operators named after the definition they precede and
commented "Mutant:" are plausible bugs; no specification uses them. They are
what shows that a property is not vacuous: replacing the definition by its
mutant makes TLC report the property violated.

### Abstractions

* Titles, notes, memos, dates and prices are left out; a patch of those alone
  is the revision "metadata". Parsing of the request body is the choice among
  requests that pass it and, where it matters, one that does not.
* The merge of repeated items in a request is its result: a quantity per item
  (`want`, 0 for none).
* Tokens (`creation_token`, `operation_token`) let later statements of a batch
  find what the first one matched. The batch being a transaction, that is its
  guard; they have no state between batches.
* Items are looked up in any order, the code takes the client's: the model
  allows more.
* Names: reads that look for duplicates and the unique name indexes are not
  modelled.
* The audit log is modelled where it can be wrong: see `AuditedBeforeIsPrevious`.
* Accounts are named by username and never removed: no code sets `is_deleted` of
  a user or inserts a name that a row has. Cookie formatting, the token's bytes
  and the work of hashing are abstract; hashing happens between two D1 calls and
  is part of the action that uses the result. A random salt differs from all
  salts in use (`FreshSalt`).
* The smoke scripts compare the display name too; an account of that username
  with another name is one that they refuse, like an administrator's.
* Calls of Cloudflare's API: one that is applied at all is applied before its
  answer is lost (RestClient); the list of databases is exact after `Lag` lookups
  of the cleanup, fewer than its attempts; a deletion is answered 404 too early
  only while the list still shows the database. Lists of deployments and versions
  are exact or fail.
* Imports of one directory run one at a time, which the code does not enforce; a
  rename is atomic. Between the look at the details path and the `unlink` another
  process may put a file of its own there, as the source says: no property
  denies it.
* Pages: what is only shown (messages, filters, sorting, layout) is left out, and
  of the items of an order only whether it has any and how many. Handlers that
  differ only in their form's fields are one action. The server accepts what the
  modelled handlers could, and answers 401 only to the loaders, which are the
  only ones that look at it.
  The other client confirms, receives and deletes orders but changes no title.
* `refused` stands for 401, 403, 404 and 409 of the account routes; `none` is
  also a reply that was lost.
* Integers: D1 and JavaScript hold 53-bit integers; the quantities here come
  nowhere near, so no width is modelled.

### Bounds

`Quantities` are the quantities a request may ask for. `MaxOrdered` (through
`Room`) and `MaxStock` limit which requests clients send, so that rows and
stocks stay finite; `SpareOrder` and `SpareItem` let a creation begin only when
an id is left for it. All four restrict what clients ask, never what a handler
does once asked. `Workload` names the operations the clients of a run use, so
that a run can spend its states on the operations that meet. The proofs assume
none of the bounds small.

For accounts, `Salts` has more values than accounts, calls and runs can hold
hashes, so `SaltLeft` never stops a step of these instances; `Tokens` bounds the
logins, not the sessions at one time; `Provisioned` says whether the smoke
identity may exist at the start. Each operator run runs once (`idle` to `done`).

## 3. Runs

| Run | Instance | What it shows |
| --- | --- | --- |
| `orders` | 2 clients, 1 order, 2 items, quantities 1 and 2, every order operation and item deletion | `StatusMatchesRows`, `ReceiptsAreWithinOrders`, `RowsFollowTheirOrder`, `NoOrderIsStuck`, `DetailIsCoherent`, `AuditFindsSoundOrders`, `OrderRequestsNeverFail`, `AcknowledgedAddsAccumulate`, `ImplementsLifecycle` |
| `catalogue` | 2 clients, 1 order, 1 item id, 2 categories, every catalogue and stock operation with creation, receipt and revision of an order | `ActiveItemsHaveActiveCategories`, `StockRequestsNeverFail` |
| `requests` | 2 clients; 1 order of 2 items with every order request, or 2 orders of 1 item with its deletion and adjustments, or drafts of 1 item with its deletion | `OpenRowsHaveActiveItems`, `LedgerExplainsStock`, `EveryRequestEnds` (liveness) |
| `accounts` | 2 calls, 3 tokens, 2 passwords; login, logout, change and reset of 1 account, or creation of a second one | `AccountsWellTyped`, `LoginsAreAudited`, `SessionsEndForAReason`, `LoginsKeepPasswords`, `ImplementsAuthority` |
| `operator_runs` | 1 call and 2 runs: of the smoke identity, provisioned or not, or recoveries of the administrator | `InactiveAccountsHaveNoSessions`, `ReportsAreTruthful`, `SessionsHoldCurrentPassword`, `OnlyRotationReactivates` |
| `delivery` | 1 run of the workflow, 2 commits of which the second brings a migration, 5 deployments, 3 attempts of the contract, 2 of the others | `CleanupIsTruthful`, `ContractVerdictIsSound`, `OtherDatabasesStay`, `RecoveryPointPrecedesMigrations`, `VerifiedDeploymentNeverChanged`, `VerifiedSmokeLeavesNoSession`, `SeenSessionsAreEnded`, `EveryPipelineEnds` (liveness) |
| `web` | every page, 3 handlers, 3 orders, 2 titles, 1 change by another client | `SavedBeforeLeaving`, `ConfirmedAsSaved`, `PrefillDraftsOnce`, `QuickOrderReportsTruth`, `FlagsMatchSubmissions`, `BusyEnds` (liveness) |
| `files` | 2 appliers and 3 exports, one of them refused, or 2 audits of one path | `ReportDescribesSeed`, `OnlyReviewedSeedsApplied`, `DetailsAreWholeOrGone` |
| `audit_verdict`, `audit_before`, `category_race`, `reset_overwritten` | the smallest instance each | the four findings of section 5 |

Two requests in flight are enough for the races here: a handler goes wrong
when something commits between one of its reads and its batch, and what
commits is a batch of one other request, or of several one after the other,
which a second client can send in turn. Two items make the loops, the unequal
rows behind a derived status, and a scan that misses a row; two quantities make
partial receipts and an edit below what another request added. One order is
enough where orders do not meet; they meet only through an item, which
`requests` gives two of them. Two calls on one account, or two runs and a
call, are the same argument for accounts; two passwords tell an outdated hash
from the current one, and setting the same password twice makes hashes that
differ in their salt only. Three tokens let a session be kept, another one be
revoked and a third one be opened. The proofs then remove every bound.

One run of the workflow is enough: its concurrency group keeps two from
overlapping, and what a second run would do to it the operator's steps do. Five
deployments are the two Workers' first ones, the run's own two and one by hand,
which may share an instant with any of them. Three attempts over a list that
lags two lookups let the cleanup see too little, then enough; two attempts of a
verification are one failure and one success. Three handlers are one that loads,
one that submits and one that outlives both; their number is used up (a handler
that has ended is not reused), so these instances end, and `web.cfg` does not
check for deadlock. `delivery.cfg` does not either, as a run ends. Two appliers,
or two audits, with the importer or the other process between their steps, are
every pair of them.

The mixes of `requests` restrict what clients send, never a handler: with one
order a creation is sent only while no order exists and none is being created,
and the other two mixes name one item. A handler's fairness is that of the steps
its mix leaves (`MixFairness`), so a mix that held a handler back would leave its
request waiting for ever and `EveryRequestEnds` would be reported violated, not
hold of the behaviours that remain. In "drafts" `addItems` races the deletion of
the item it adds, in "one item" so do creation, receipt and adjustment.

In `audit_before` and `category_race` the property is an action property: it
speaks of the step that commits. In `reset_overwritten` it is an invariant over
`awaited`.

### Fairness

`Fairness` is weak fairness of each client's `HandlerStep`: the Workers runtime
resumes a handler whose D1 call has returned, and a handler that can go on stays able to. No fairness is assumed of clients (nobody has to send
anything) nor of `Abandon`. `RequestsSpec` asks the same of the `HandlerStep`s that
its mix allows. `EveryRequestEnds` needs no more, since no handler
waits for another one and no loop revisits an item. `PipelineSpec` has weak
fairness of `WorkflowStep`: the runner goes on with a job until it ends, every
job has a time limit, and failing counts as a step; it has none of `Cancel` or
of the operator. `WebSpec` has weak fairness of each handler's `Serve` and
`GoesOn`: a fetch is answered or rejected, and the browser resumes what awaits
it; it has none of the user. `AccountSpec`, `SeedSpec` and `DetailSpec` state no
fairness: their properties are all safety, and a script that is never resumed,
or an answer that never comes, is a case they must survive.

## 4. Proofs

`BackendProofs` proves `Invariance`: `Spec => []IndInv`, where

    IndInv == TypeOK /\ RequestsWellFormed /\ TablesSound /\ HeadersHold /\ DetailIsCoherent

for any sets of clients, orders, items and categories, any quantities, bounds
and workload. The assumptions are those of `Tables`: quantities are positive,
bounds are numbers, the seed is part of the catalogue, and `None` is no id.

* `TablesSound` is the conjunction of the six invariants of the database. None is
  inductive alone: that a receipt cannot finish an order with an open row
  (`StatusMatchesRows`) uses that no row is over-received
  (`ReceiptsAreWithinOrders`) and that active rows have a positive quantity
  (`RowsFollowTheirOrder`).
* `RequestsWellFormed` says what a request carries past its first read. The
  part that matters: a requested transition is one `revise` did not refuse, and
  a row that `addItemsToDraft` found exists still, perhaps deleted.
* `HeadersHold` says how a header that `getDetail` has read can have aged:
  statuses only move forward. `DetailIsCoherent` is inductive with it only.

Every action either only moves one request on, which the lemma `RequestStep`
settles once for all of them, or commits one batch: `OneOrderStep` reduces a
batch on an order to that order's status, rows and receipts, and
`CatalogueWriteStep` one on the catalogue to items and stock. One lemma per
action follows, then `NextSound` and the theorems:

| Theorem | States |
| --- | --- |
| `Invariance` | `IndInv` |
| `TypeSafety` | `TypeOK`: no batch drives a stock or a quantity below zero |
| `StatusSafety`, `ReceiptSafety`, `RowSafety`, `ItemSafety`, `CategorySafety`, `LedgerSafety`, `DetailSafety` | the invariants the runs check |
| `NothingStuck` | `NoOrderIsStuck`: the guard and every trigger of the receipt's batch let some row be received |
| `NeverFails`, `StockNeverFails` | `OrderRequestsNeverFail`, `StockRequestsNeverFail` |
| `AddsAccumulate` | `AcknowledgedAddsAccumulate` |
| `AuditSafety` | `AuditFindsSoundOrders` |
| `OnlyClosedOrdersNeedRepair` | a row whose item was deleted, the one thing the audit may report, is a row of a finished or canceled order |
| `Refinement` | `ImplementsLifecycle`: `InitMaps` for the initial states, one lemma per commit for the steps |

`AuditSafety` follows from `IndInv`. The count that needs an argument is
`masked_orders`, where totals call an order finished that still waits for a row
(`NoOrderIsMasked`): row by row the received units are among the ordered ones, so
their set is a subset of a finite set, and a proper one as soon as one row waits.
It assumes that the catalogue is finite (`ItemsAssumption`), as a table is.

`AccountProofs` proves `AccountInvariance`: `AccountSpec => []AccountInv`, for
any sets of callers, runs, accounts, passwords, salts and tokens, assuming that
`Null` is none of them, that there is a salt, and that the first accounts are
accounts. `AccountInv` adds to the invariants that the runs check

* `CallsSound`: a login that is about to commit carries the password behind the
  hash it has read. `SessionGuard` compares hashes, not passwords; without this
  the comparison says nothing about the session it opens.
* `RunsSound`: a batch in transit has not been applied, and the audit trail of
  the smoke identity names only runs whose batch was. That is what makes the
  postflight's operation id a proof of success (`ReportsAreTruthful`).

`SessionsHoldCurrentPassword` and `InactiveAccountsHaveNoSessions` need each
other's types of row: a created account starts without sessions because rows
belong to active accounts. The lemma `EndingInv` covers the steps that only end
sessions, `PasswordSetInv` those that set a password, `AppliedInv` the
operators' batches, and `ReadingCallInv` and `ReadingRunInv` all others.

`AccountStepProofs` proves what a step may never do. `StepInv` adds to
`AccountInv` that the hash an operator's pending batch brings is salted and
nobody else's (`HashesAreOwn`), so that applying it changes the account whose
sessions it ends, and that only a call that has committed carries a reply of
success (`RepliesComeLast`), so that such a reply is the work of this step.
`CallEffects` and `RunEffects` reduce every step to what it writes.

It also proves that the audit log counts the logins. `CountInv` adds to
`AccountInv` that the sessions ever granted to an account are finitely many and
as many as its login rows; the conjunct that carries the proof is that a token
in use is never used again, so a granted login adds one session to the set
(`LoginIsCounted`). All other steps keep the set and the rows (`GrantsKept`),
whether they end sessions or write other rows of the audit log.

| Theorem | States |
| --- | --- |
| `AccountInvariance` | `AccountInv` |
| `AccountTypeSafety`, `SessionSafety`, `DisableSafety`, `ReportSafety` | the invariants the runs check |
| `AuthorityRefinement` | `ImplementsAuthority` |
| `RotationSafety`, `LoginSafety`, `SessionEndSafety` | `OnlyRotationReactivates`, `LoginsKeepPasswords`, `SessionsEndForAReason` |
| `LoginAuditSafety` | `LoginsAreAudited` |

`DeliveryProofs` proves the invariants of the three parts under `PipelineSpec`,
each from the steps of its part (`ContractSteps`, `ReleaseSteps`,
`BusinessSteps`), for any commits, manifests and numbers of attempts, assuming
that the list is exact after fewer lookups than there are attempts.

* `ContractInv`: wherever the database may exist, the run still knows what to
  remove (`DatabaseIsTracked`): its id, or that it may have been created. Past
  the baseline nobody else has a database of that name (`NameIsOurs`), so what
  the lookup finds is the run's own. Without a failure the row has told that the
  batch rolled back (`FailureIsRemembered`).
* `ReleaseInv`: nothing takes migrations back while a run goes on, so what the
  preflight finds applied is not behind its bookmark. From it and the guard of
  the second read, whose list must show the run's own deployment as the only
  newest one, follows that a verified deployment is the last of its Worker. Its
  type needs a version number that is new (`NextVersionType`, by the pigeonhole
  principle).
* `SmokeInv`: only an observed revocation leads to the `finally` block without a
  failure.

`FileProofs` proves `SeedInv` and `DetailInv`, for any exports, appliers and
audits. `SeedInv` says that between the removal of the old report and the new
one there is none, and what an applier has verified at each step; that an
accepted export leaves a row for every record is a bijection from its positions
(`RowsOfExport`). `DetailInv` says that no inode exists before its reservation
and that all steps after the writing have the whole report.

| Theorem | States |
| --- | --- |
| `CleanupSafety`, `VerdictSafety`, `OtherDatabaseSafety` | the batch contract's |
| `RecoveryPointSafety`, `VerifiedDeploymentSafety` | the release's |
| `VerifiedSmokeSafety`, `SeenSessionSafety` | the smoke transaction's |
| `SeedReportSafety`, `ApplierSafety`, `DetailSafety` | the files' |

`WebProofs` proves `WebInvHolds`: `WebSpec => []WebInv`, for any number of
handlers, orders, titles and changes by other clients. It assumes that handlers,
bounds and titles are numbers, that a blank title is not among `Titles`, and that
`Null` is no number, item, answer or destination. None of the properties of the pages is
inductive: each is about a handler that has ended or waits for its last answer,
and rests on what that handler knew at each await before it. `WebInv` is

* `ServerSound`: the server's orders are orders, and every title one has had is
  among the titles stored. `Grows` is what no call takes back, whoever makes it: a
  title that was stored, an order that exists, has a row, or has left the drafts.
  It is what lets a handler go on relying on an answer while others write.
* `TaskSound`, page by page: what a handler at each of its awaits may rely on. On
  the order page (`OrderTask`) a handler that saves carries the title it will
  report, and once its save was answered that title is stored; on the list page
  (`ListTask`) the order of a prefill exists before the request that fills it is
  sent; a quick order is opened as confirmed only after the answer to its
  confirmation.
* `UiSound`: the state of each page, and where a page that was left has led to.
* `SubmittedOnce`, `FlagsSound`: a form has at most one submission under way, and
  its flag is set exactly while it has one. Either alone fails: the flag is what
  keeps a second submission out, and only the absence of a second one makes the
  reset of the flag at the end of the first correct.
* `AlertsSound`: no order was drafted for an alert while its address is still to
  be read or its request is still to be sent, and there are never two.

`ServedServer` and `ServedTask` say what an answer does to the server and to the
handler that waits for it (`ServeInv`); per page one lemma covers what the user
does there and one what its handlers do when they go on (`OrderPageUserInv`,
`OrderPageGoesOnInv`, and so on).

`ConfirmedAsSaved` is about a step and about the title stored at that moment, which
`WebInv`, knowing only what was stored once, cannot tell. `SavesSound` adds that
from its request to the end of its reload one handler at a time saves, the page
being busy all that while, and that the title it carries is the stored one as soon
as its save was answered. The page's other handlers send no title (`QuietMove`,
`ServeSaves`), and neither do the modelled requests of others (`OthersSaves`).

| Theorem | States |
| --- | --- |
| `WebInvHolds` | `WebInv` |
| `TitlesAreSavedBeforeLeaving`, `OrdersAreConfirmedAsSaved` | `SavedBeforeLeaving`, `ConfirmedAsSaved` |
| `AlertsDraftOneOrder`, `QuickOrdersTellTheTruth` | `PrefillDraftsOnce`, `QuickOrderReportsTruth` |
| `FlagsFollowSubmissions` | `FlagsMatchSubmissions` |

Every inductive invariant was checked by TLC on the instance of its runs before it
was proved. Every invariant and every action property that a passing run checks is
now a theorem, and so are both refinements. Only model-checked are the three
liveness properties, `EveryRequestEnds`, `EveryPipelineEnds` and `BusyEnds`: liveness
under fairness is out of TLAPS' reach.

## 5. Findings

Each is a run that expects a violation; `PROJECT.json` quotes the lines.

* `audit_verdict`: deleting an item is allowed once its orders are finished or
  canceled, as the API specification says; the audit counts the rows those
  orders keep as damage and answers `repair_required`. `AuditFindsSoundOrders`
  shows that this is the only count that normal use can raise.
* `audit_before`: the audit log's "before" of a metadata revision is the row as
  read before the batch; the update does not compare, so the entry can claim a
  status change that another request made.
* `reset_overwritten`: a change of one's own password compares the hash when it
  reads, not when it writes. In the trace an administrator resets a clerk whose
  change is under way; the reset ends the clerk's sessions, as documented, and
  then the change commits: the account opens with the clerk's password, not with
  the one the administrator has set and the clerk was to log in with. The API
  document lists the missing comparison as known and planned.
* `category_race`: creating an item in, or moving it to, a category that is
  deleted meanwhile ends in a 500, where the API specification promises 409
  for conflicts.

`createUser` has the same form as `category_race`: the loser of a race for one
username gets a 500. Looked at and *not* findings: of two logins on a legacy
hash the second may be refused, since the first one's upgrade changes the hash
it compares with; a deletion between the commit and the reply makes
a reply's data null, as `api-spec-v1.md` (lines 344 and 423) allows; the
lifecycle document describes the derived status by sums, the code by rows, and
the two agree because no row is ever over-received. On the page of an order a
save that is stored but whose reload fails leaves the old title behind: cancelling
the edit then shows it again (`orders/[id]/page.tsx:264`), `saveDraft` sees nothing
to save (229), and leaving or confirming goes on with one title stored and another
one shown. No document, comment or test says otherwise. `SavedBeforeLeaving`
therefore speaks of titles that were stored, and `ConfirmedAsSaved` separates a
confirmation that saves first, whose title is the stored one, from one that saves
nothing, of which it says only that the page shows nothing unsaved.

## 6. Plan

Done: orders and catalogue, accounts, the delivery, the files of the seed and of
the audit, and the pages, with the proofs of section 4. To come:

1. Proofs: the measures behind the liveness properties, as far as they are safety
   (a handler's await only moves forward, a loop over items shrinks).
2. Names: the reads that look for duplicates, the unique name indexes, renames.
3. Pure operators with a reference definition: the reorder projection of
   `GET /api/items`, and migration 002's merge of duplicate rows.

## 7. Not modelled

* Read-only routes, the HTTP envelope and schemas, readiness, logging, cookies and
  hashing: formats and single queries without state. A request of the models
  has passed or failed its schema.
* Names of categories and items with their indexes, and patches of columns that
  are only shown: no modelled property reads them. A name taken in between
  fails in the index outside any `catch`, as in `category_race`.
* The one-off data migration of 002: the initial states are those of a fresh
  database.
* The parsing of exports below records, of command lines, of the environment and
  of wrangler's output; report files; `manage-smoke-identity.yml`, whose script is
  modelled.
* What a page only shows, its vendored components, and the server behind it but
  for the outline in `WebClient`: orders and stock are modelled in `Backend`.
* A retry by a client whose reply was lost is a new request to the API, which has
  no idempotency key: the model contains it, and there is no promise to check.

## 8. Running

    tlc -workers 2 -config orders.cfg MCBackend.tla        # catalogue.cfg, audit_*.cfg, category_race.cfg
    tlc -workers 2 -config requests.cfg MCRequests.tla
    tlc -workers 2 -config accounts.cfg MCCalls.tla
    tlc -workers 2 -config operator_runs.cfg MCOperators.tla
    tlc -workers 2 -config reset_overwritten.cfg MCResets.tla
    tlc -workers 2 -config delivery.cfg MCDelivery.tla
    tlc -workers 2 -config web.cfg MCWeb.tla
    tlc -workers 2 -config files.cfg MCFiles.tla
    tlapm BackendProofs.tla      # LifecycleProofs, AccountProofs, AuthorityProofs,
                                 # AccountStepProofs, DeliveryProofs, FileProofs, WebProofs
