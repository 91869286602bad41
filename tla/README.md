# OK Footwear ERP: specifications and proofs

TLA+ specifications of the OK Footwear ERP backend (NestJS, Prisma on PostgreSQL, Redis, BullMQ),
kept beside its code: modules, TLC configurations, and TLAPS proofs.

Paths below are relative to the repository; `modules/` stands for `src/modules/`, `infrastructure/`
for `src/infrastructure/`, `migrations/` for `prisma/migrations/`.

## 1. How the program runs, and what the modules have in common

One Node process (or several behind nginx) serves HTTP requests. A handler is a sequence of `await`s; at
every `await` other handlers run. Three things decide what can go wrong:

* **Read, check, write.** Almost every handler reads a row, throws if its status forbids the operation, and
  later issues `UPDATE ... WHERE id = $1`. The update does not look at the status again and nothing locks
  the row in between. Transactions are READ COMMITTED.
* **Transactions.** `$transaction(async tx => ...)` is atomic, and an update in it holds its row lock until
  commit. A read in it that takes no lock is no protection.
* **Events.** `eventEmitter.emit` is called after the commit and is not awaited; `@OnEvent` handlers run
  detached, an exception in one is swallowed, and a crash loses what was not yet delivered. There is no outbox.

Every module therefore models a request as a small process. `req[c]` is what request `c` has read and is
about to do; an action is one stretch of a handler between two interleaving points that matter: the last
read with its check, a write, a transaction, an `emit`. `Crash` ends a request between two of them. The row as
the request read it stays in the request (`seen`).

A *stale* write (the row changed since the request read it) can break most promises of this code. The history
variable `overtaken` records, per row, that it happened. Properties are then of the form "P, unless a request
wrote over what it had not seen": they say that the missing re-check is the *only* way to break P. Where a
document or a comment promises P without that exception, a run expecting a violation shows the disagreement.

The younger modules share this convention as `Requests`: `Idle`, a flag `stale` in each running request, and `Overtake`, which
continues one request and marks the others that have seen what it changes. No guard reads a flag or a history variable
(`...Overtaken`, `...Stale`, `outOfStep`, `reused` and the like), so that they record behaviour and do not restrict it.

## 2. Inventory

Components, their state, operations and interactions. Properties in the last column are what makes the
component correct; those in *italics* are checked.

| component | state | operations | interacts with | hard part | properties |
|---|---|---|---|---|---|
| Document numbering (`migrations/20260624000000_document_sequences`, `modules/orders/services/doc-number.service.ts`) | one counter row per prefix | `next_doc_number`, in the caller's transaction | every service that numbers documents | row lock, rollback, padding | *unique and gapless numbers, waiters are served* |
| Sales orders (`orders.service.ts`, `order-state-machine.ts`) | order row, six milestones | create, update, transition, cancel | samples, production events, `order.confirmed` | concurrent transitions, confirm transaction | *confirmed once, complete plan, state machine* |
| Samples (`samples.service.ts`) | sample status, `orders.sample_approved` | create, update, approve, reject | sample gate of orders | approve is not re-checked | *gate before production* |
| Quotations (`quotations.service.ts`) | quotation status and price | create, update, populate from BOM, send, close | orders, BOM | only-one-won is a count before a write | *one won quotation per order, announced at its price* |
| Complaints, CAPA (`complaints.service.ts`, `capa-actions.service.ts`) | complaint and action status | create, root cause, status, auto-resolve | notifications | count under READ COMMITTED | *resolved when all actions are done, and stays so* |
| Master data (`buyers`, `articles`, `vendors`, `warehouses`, `stock-items`, `departments`, `designations` services) | rows with a unique code and an active flag | create, update, remove | every document that refers to them | count before delete, stale update over a removal | *documents keep their rows, removed stays removed* |
| Stock ledger (`stock-transactions.service.ts`, `migrations/20260806000000_sprint6_inv_schema`) | append-only ledger, balances | recordMovement, trigger, reorder check | counts, receipts | check before transaction, CHECK in trigger | *balance = ledger sum, never negative, alerts* |
| Stock counts (`stock-counts.service.ts`) | count, lines | create, updateLine, submit, approve, cancel | ledger | loop of separate transactions | *posted once per approval, reconciles* |
| Procurement (`purchase-orders.service.ts`, `goods-receipts.service.ts`) | PO, lines, GRN | create ... approve, receive, approve GRN | ledger through `grn.approved`, vendors | stale approvals, total out of step | *received = accepted, status = receipts, role and sum = total* |
| Payables (`vendor-invoices.service.ts`, `vendors.service.ts`) | invoice, paid amount, rating | create with three-way match, pay, recompute rating | GRN | lost update | *paid = sum of payments, rating = average of receipts* |
| Production (`production-orders.service.ts`, `daily-production.service.ts`, `qc-results.service.ts`) | production status, produced quantity, daily entries, QC results | create, replan, move, record, update, lock, inspect | sales orders through `production.started`/`completed` | detached events, sums recomputed in a second commit, users who move the sales order too | *produced = daily entries, production brings an order to QC only after a pass, locked entries stand* |
| Bills of material, cost sheets (`bom.service.ts`, `cost-sheets.service.ts`) | BOM versions, lines, cost sheet | create, edit, approve, delete, generate, margin | production orders, quotations | approval against edit | *approved BOMs stand, built from approved, price = total and margin* |
| Machines, scrap (`machines.service.ts`, `scrap.service.ts`) | machine status, maintenance, disposal | open and close maintenance, record, authorize | none | two commits each | *machine in maintenance is marked, disposal decided once* |
| General ledger (`finance.service.ts`, `gl.service.ts`, `migrations/20260810000000_sprint7_fin_schema`) | periods, journals | post, update, delete, close, lock, unlock, payroll handler | receivables, gratuity, payroll | posting against closing | *closed books stand, journals balance* |
| Chart of accounts, bank accounts (`chart-of-accounts.service.ts`, `bank-accounts.service.ts`, `csv-ofx-parser.ts`) | accounts and parents; bank accounts, statement lines | create, move, remove; link, import, reconcile | ledger | walk up the chart against a move; signs of two formats | *the chart is a forest, debits stay debits* |
| Delivery and receivables (`delivery-challans.service.ts`, `buyer-invoices.service.ts`) | challan, invoice, collected amount | dispatch, POD, confirm, collect, dispute | ledger | three separate commits | *delivered implies invoiced once, collected = sum* |
| Leave (`leave.service.ts`) | requests, balances | apply, approve, reject, cancel, accrue, carry forward | monthly scheduler | status not re-checked, accrual not idempotent | *used = approved days, leaves do not overlap* |
| Provident fund, gratuity (`pf.service.ts`, `gratuity.service.ts`) | balance, transactions, provisions | enroll, contribute, credit interest, accrue, post | ledger, scheduler | balance from a stale read | *balance = sum of transactions, charged = entitlement* |
| Employees, attendance (`employees.service.ts`, `attendance.service.ts`) | employee, employment events, secrets; records, corrections, sync log | hire, update, reveal; sync, correct | audit | history from a stale read; two commits | *events explain the row, manual records have a reason* |
| Sessions (`auth.service.ts`) | refresh tokens, blacklist, failed attempts | login, refresh, logout, change password; an administrator sets a password or deactivates | Redis | rotation races, attempts stored from a read | *one successor per token, sessions older than a change of password end, failures are counted* |
| Roles, users (`roles.service.ts`, `users.service.ts`) | roles, grants, members, permission cache | grant, revoke, assign, delete | Redis | cache filled after its invalidation | *no stale grant in the cache* |
| Schedulers (`infrastructure/scheduler`, `stock-summary.service.ts`, `compliance.service.ts`) | Redis locks, compliance items | SET NX EX, work, DEL; nightly check; create, update, delete items | several instances, mail | TTL expiry, unconditional DEL, items changed under a run | *one holder, one mail to the responsible user of a marked item* |
| Dead-letter listener (`infrastructure/queue`) | queues | on failed: add, remove | BullMQ | two steps, every instance listens | *one entry per exhausted job* |
| Notifications (`notifications.service.ts`, `sse.service.ts`) | rows; in each of two `SSEService`s a subject per user, connection counts | create, notify a role, mark read; open and close a stream | complaints | a subject completed while a tab is open; emitter and streams in two instances of one class | *open tabs keep their user's subject*; that a tab receives what is emitted is not so (section 7) |
| HTTP layer (`common/guards`, `shared/throttler`, all controllers) | permissions in access tokens, window of calls | guards, rate limit, routing | all | permissions as they were when a list was cached and a token signed; clocks of several instances; order of routes | *a permission taken away lets nobody in for longer than list and token live, the window holds, each route by its own permission* |
| Audit log (`audit.service.ts`, `common/interceptors/audit.interceptor.ts`) | append-only log | log, from a few services | sessions, compliance, employees | the interceptor is registered nowhere: no call is audited (section 7) | |
| Setup scripts (`scripts/`) | permissions, roles, administrator | create user, assign role, seed, wildcard | roles | a script that dies half way | *the administrator reaches every route once seeding has ended* |
| Redis, mail, SMS and storage clients, configuration, logger, board | none of their own | wrappers | all | | |

`PROJECT.json` lists the same parts with their status, and under `hazards` each place where the code is hard to
test, with the property that covers it or the module that is to.

## 3. Plan

In the order of how much depends on the part. All modules of the plan exist:

1. `DocCounter`, `DocNumber`, `DocNumberProofs`: every document goes through the counter.
2. `OrderLifecycle`, `OrderLifecycleProofs`: the state machine everything else hangs on.
3. `StockAccount`, `StockLedger`, `StockLedgerProofs`: ledger, trigger, counts, `grn.approved`.
4. `Procurement`, `ProcurementProofs`: purchase orders and receipts; emits what `StockLedger` consumes.
5. `Sessions` (with the lockout), `Access`: logging in, refresh rotation, password change, permission cache.
6. `Ledger`, `Receivables`, `Accounts`: periods and journals, challans, invoices, collections, the chart.
7. `Production`, `Boms`, `Workshop`: production orders with the sales order they move, BOM versions, machines.
8. `Leave`, `Provident`, `Gratuity`, `Employees`, `Attendance`: what employees are owed, and its history.
9. `Quotations`, `Complaints`, `Payables`, `MasterData`: the desks of sales and purchasing.
10. `Jobs`, `DeadLetters`, `Notifications`, `Throttle`, `Gateway` with `Routes`, `Setup`: what surrounds the services.
11. `Documents` and `Platform`: the parts of 6, 7 and 9, and of 5, 8 and 10, together.

12. `Sums`, `TradeProofs`, `DocumentsProofs`: sums over finite sets; the invariants of the parts of `Documents`, and of their composition.
13. `PlatformProofs`: the same for `Platform`.

Open: an atomic session that `Sessions` implements; leave types and the second factor.

## 4. The modules and the code

### DocNumber (and DocCounter)

| TLA+ | code |
|---|---|
| `lastNumber`, `rowLock` | a row of `sys.document_sequences` and the lock `SELECT ... FOR UPDATE` takes |
| `tx[c]` | the caller's transaction: waiting for the row, then holding a number |
| `Begin` | `$transaction` opens and calls `DocNumberService.generate` |
| `NextDocNumber` | the function: lock, increment, format |
| `Commit`, `Rollback` | the caller's INSERT succeeds, or anything fails and the increment is undone |
| `LPad`, `Text` | `PREFIX-YEAR-LPAD(n)`; PostgreSQL's `LPAD` cuts long numbers |
| `NewYear` | `CURRENT_DATE`; the counter is not reset |

`DocCounter` is the abstract counter: number and document in one step. `DocNumber` refines it with
`documents` mapped to its prefix and number (`ImplementsCounter`).

### OrderLifecycle

`order`, `milestones`, `approval` are `ord.orders`, `ord.order_milestones`, `ord.samples.approval_status`.
Handlers: `ReadForUpdate`/`WriteUpdate` (update), `ReadForTransition` with `WriteTransition` or
`Confirm`/`ConfirmConflict`/`AnnounceConfirmed` (transitionStatus, cancel, the handler of production.completed),
`ProductionStarted`/`StartedTransition` (handler of production.started, which reads twice), `CreateSample`,
`ApproveSample`/`AnnounceSample`, `ReadForReject`/`RejectSample`. `Confirm` is one action because the UPDATE of the
order row, its first statement, locks the row; the UNIQUE constraint on (order, milestone type) is `ConfirmConflict`.
Dates are integers; the lead days are the code's constants. Events `production.started` and `production.completed` may
arrive at any time: who emits them is in `Production`.

### StockLedger (and StockAccount)

`ledger` is `inv.stock_transactions` in commit order, `balance`/`stocked` are `inv.stock_balances` (0 where there
is no row), `count` is a stock count with its lines. `recordMovement` is `CheckMovement` (or `RejectMovement`), then
`PostMovement` (or `RefuseMovement`), then `CheckReorderLevel`. A direct request posts one movement; the handler of
`grn.approved` and `StockCountsService.approve` post a set of them (`todo`) one after the other, in the order the
rows come in. `trigger` says which body of `inv.update_stock_balance` the database has: the migration's, or the
one the integration tests install (`src/__tests__/inventory/integration/tc_db_inv.spec.ts:88`). Both are checked; they differ in
whether an outbound movement can succeed at all. Average cost is left out.

`StockAccount` is the abstract ledger: one book of bookings, nothing ever changed, what is on hand the sum of the bookings of a place,
and no booking that takes more. It has no balance rows, no checks and no requests. `StockLedger` refines it, the rows of `ledger` being the bookings
(`ImplementsAccount`).

### Procurement

`order`, `line` and `receipt` are `prc.purchase_orders`, `prc.po_lines` and `prc.goods_receipts` with their lines.

| TLA+ | code |
|---|---|
| `ReadOrder`, then `Submit`, `Approve`, `Reject` or `Cancel` | `findOne` with the check of the operation, then its `update` |
| `InsertLine` or `DeleteLine`, `ReadLines`, `WriteTotal` | addLine and removeLine: the line, then the two halves of `recalcTotal` |
| `DeleteLines`, `ReplaceLines` | the transaction of update: the lines the first statement deletes are those it sees |
| `ReadOrderToReceive`, `CreateReceipt` | create of a receipt; the foreign key keeps its order lines |
| `ReadReceipt`, then `EditLine`, `SubmitForQc`, `RejectReceipt` | updateLine, submitForQc, reject |
| `Increment`, `CommitReceipt`, `Announce` | approve: up to the query of the order's lines in the transaction, the rest of it, `grn.approved` |
| `Fail` | a foreign key, a missing line, a refused quantity, a crash |

The transactions of update and approve are split because they are READ COMMITTED: what they read can change before
they commit. Only one row wait matters (`Locked`): an approval that needs a row another approval has updated reads after
that one has committed. Two approvals that share no row do not wait for each other until both have computed a status.
The model keeps two records of stale writes: `overtaken` for orders and `outdated` for receipts; an edit that ended before its total is in
`unsummed`. `Announce` is what `StockLedger` receives as an event with `GrnLines`; that event can come twice (`MaxEvents`) because two approvals can.

### Documents: sales, purchasing, production, finance

`Documents` puts together eleven modules that share no row. A product of them would multiply their states and show nothing
more, so `desk`, chosen at the start, says which one is used; its requests overlap in every way. Where one part calls another
the callee is in the caller's module: a posting inside `confirmDelivery` is the step `PostRevenue` of `Receivables` (its
checks and its transaction are in `Ledger`), the sales order of a production order is a variable of `Production`. Amounts are small integers.

| module | state and the tables it stands for | actions and the methods they are steps of |
|---|---|---|
| `Quotations` | `quote` (`ord.quotations`: status, price), `orderOpen`, `wonEvents` | `ReadQuote`, then `UpdateQuote`, `PopulateQuote`, `SendQuote`, `LoseQuote`; `CountWinners`, `WinQuote`, `AnnounceWon` (close as won); `CreateQuote` |
| `Complaints` | `complaint`, `capa`, `escalated`, `resolvedEvents` | `InsertComplaint`, `CommitComplaint` (create with its notification); `ReadComplaint`, `SetRootCause`, `SetComplaintStatus`, `EmitResolved`; `ReadComplaintOfCapa`, `InsertCapa`; `CountCapas`, `CommitCapa` (updateStatus of an action, split at its count) |
| `Payables` | `vendorInvoice`, `rating`, `approvedReceipts`; `paidOut` is what was really paid | `MatchVendorInvoice`, `CreateVendorInvoice`; `ReadVendorInvoice`, `RecordVendorPayment`; `ComputeRating`, `CommitRating` |
| `MasterData` | `master` (all tables, which differ as `Tables` says), `used` | `CheckNewMaster`, `CreateMaster`; `ReadMaster`, `UpdateMaster`; `CountUses`, `DeleteMaster`; `CheckUsed`, `LinkUse` (a document that refers to the row) |
| `Receivables` | `challan`, `buyerInvoice`, `revenue`, `interrupted` | `ReadChallan`, `Dispatch`, `RecordPod`; `ConfirmDelivery`, `CheckChallan`, `PostRevenue`, `InsertBuyerInvoice` (confirmDelivery, commit by commit); `ReadBuyerInvoice`, `RecordCollection`, `Dispute`, `ClearDispute` |
| `Accounts`, chart | `account`: parent, active | `StartMove`, `WalkUp` (one parent per query of assertNoCycle), `MoveAccount`; `EditAccount`; `CheckRemovable`, `RemoveAccount` |
| `Accounts`, bank accounts | `bank`, `bankTxn`, `assets` | `RequireGlAccount`, `LinkBankAccount`; `ImportStatement` with what each parser makes of a line; `Reconcile`, `RemoveBankAccount` |
| `Ledger` | `period`, `journal`, `sealed` | `CheckPost`, `CheckPayroll`, `CheckPatch`, `CheckDelete`, then `BeginJournalTx` (the trigger), then `PostJournal`, `UpdateJournal`, `DeleteJournal`; `ReadPeriod`, `WritePeriod` |
| `Production` | `production`, `daily`, the sales order's status and who wrote it (`sales`, `movedBy`) | `CheckProductionOrder`, `CreateProductionOrder`; `ReadProductionOrder`, `MoveProductionOrder`, `ReplanProductionOrder`; `HandleStarted`, `HandleCompleted` (event handlers) and `PatchSales` (a user's PATCH of the order's status), then `MoveSales`; `StoreQcResult`, `ReadForCompletion`; `CheckDaily`, `RecordDaily`, `ReadDaily`, `UpdateDaily`, `SumDaily`, `StoreProduced`; `LockDailyProductions` |
| `Boms` | `bom`, `built`, the cost sheet | `ReadBom`, then `EditBom`, `ApproveBom`, `DeleteBom`; `ReadBomToBuild`, `BuildFromBom`; `ReadForSheet`, `WriteSheet` |
| `Workshop` | `machine`, `maintenance`, `disposal` | `AddMaintenance`, `MarkMachine`; `ReadMaintenance`, `EndMaintenance`, `CountOpen`, `ReleaseMachine`; `ReadScrap`, `AuthorizeDisposal` |

`Drop...` ends a request at any of its points: an exception, a lost connection, a crash.

### Platform: staff, accounts, schedulers, HTTP

`Platform` does the same for thirteen modules with fourteen parts: `Sessions` has two, the lockout and the sessions.

| module | state and the tables it stands for | actions and the methods they are steps of |
|---|---|---|
| `Leave` | `leave`, `balance`, `nextOpening`; days in halves | `CheckLeave`, `ApplyLeave`; `ReadLeave`, `ApproveByManager`, `ApproveByHr`, `RejectLeave`; `GiveBackDays`, `CancelLeave` (cancel: the balance, then the status); `AccrueMonthly`, `CarryForward` |
| `Provident` | `pfAccount`, `pfTxns`, `pfLock` | `ReadPfAccount`, `CommitCredits` (recordContribution); `TakePfLock`, `ReadPfAccounts`, `CommitCredits`, `EndPfRequest` (yearly interest); `ExpirePfLock`, `CrashPfRequest` |
| `Gratuity` | `provision`, `gratuityPosted` | `ReadProvision`, `StoreProvision`, `PostProvision` or `SkipPosting`, `LinkJournal` |
| `Employees` | `employee`, `events`, `secrets`, `revealLogged` | `Hire`; `ReadEmployee`, `UpdateEmployee` (row and events in one transaction); `UpdateSecrets`, `RevealSecrets` |
| `Attendance` | `attendance`, `corrections`, `syncLog` | `StartSync`, `StoreRecord`, `EndSync`; `ReadRecord`, `CorrectRecord`, `ExplainCorrection` |
| `Sessions`, lockout | `attempts`, `lockedUntil` | `ReadUser`, `CountFailure`, `ResetAttempts`, `UnlockByTime` |
| `Sessions` | `token`, `blacklist`, `active`; `passwords` counts those set by either way, `changedAt` is the last set by changePassword | `LogIn`; `FindToken`, `CheckBlacklist`, `RevokeToken`, `BlacklistToken`, `LoadUser`, `IssueToken` (refresh; logout ends earlier); `ReadPassword`, `ChangePassword`; `UpdateUser` (`UsersService`: password, `is_active`) |
| `Access` | `members`, `grants`, `roleRows`, `cache` | `QueryPermissions`, `FillCache`; `SetRolesOfUser`, `SetPermission`, `ReadMembers`, `InvalidateCache`; `CountMembers`, `DeleteRole` |
| `Jobs` | `lock`; `itemStatus`, `daysLeft`, `alertDays`, `responsible` (a compliance item); `marked`, `mailed`; `scheduled`, the job that is looked at | `TakeLock`, `ReadItems`, `MarkItems`, `MarkSoon`, `MailItem`, `EndRun` (nightlyCheck); `CreateItem`, `UpdateItem`, `DeleteItem`; `RunStatement` (jobs of one statement); `ExpireLock`, `PassDay`, `CrashRun` |
| `DeadLetters` | `queued`, `parked`, `heard` | `FailAttempt` (BullMQ); `GetJob`, `ParkJob`, `RemoveJob` |
| `Notifications` | `notice`; `subject` of each user in the `SSEService` of `SystemModule`, which has the streams, and of `OrdersModule`, which emits; `connections`, `tab`, `arrived` | `OpenStream`, `CloseStream`; `ReadRecipients`, `InsertNotice`, `EmitNotice`; `MarkRead` |
| `Throttle` | `hits`, `now` | `TakeTime`, `CountHit` (the MULTI), `FailOpen`, `Tick` |
| `Gateway`, `Routes` | `userPermissions`, `listing` (Redis), `accessToken`, `calls`; `deniedFor`, how long the tables have denied the user | `ChangeRoles`, `ForgetListing`, `PassTime`; `ReadListing`, `StoreListing`, `SignToken` (login and refresh); `BeginCall` (guards), `EndCall`; `Routes` lists every route in the order of registration, `Reached` is the route that answers |
| `Setup` | `rows`, `granted`, `role`, `admin`, `script` | one action per commit of the four scripts; `CrashScript` between any two |

## 5. Runs, bounds and what they show

| run | instance | shows |
|---|---|---|
| `doc_number` | 3 requests, 2 prefixes, 2 years, counters to 4 | at most one open transaction holds the next number (`HeldNumberIsNext`); committed numbers are 1..n (`Gapless`); every waiter is served (`EveryCallerServed`); refinement of `DocCounter` |
| `pad_overflow` | 2 digits of base 2 | violation: number 4 prints like number 2 |
| `orders` | 3 requests, 1 order, 1 sample, 2 dates | `AnnouncedOnce`, `MilestonesComplete`, `ProductionNeedsConfirmation`, `PlanFollowsDeliveryDate`, `NeverReconfirmed`, `FollowsStateMachine` |
| `order_terminal` | 2 requests | violation: a confirmation that read a draft revives the order when it was cancelled in between |
| `stock_ledger` | 2 requests, 1 item, 2 warehouses, 1 receipt of 2 accepted lines | `BalanceIsLedgerSum`, `LowStockAnnounced`, `GrnReachesLedger`; balances never negative (`TypeOK`) |
| `stock_count` | 2 requests, 2 items, 1 count, 2 approvals | `CountReconciles`, `PostedOncePerRun`, `CountFollowsStateMachine` |
| `purchase_orders` | 2 requests, 2 orders, 3 lines | `TotalIsSum`, `RoleMatchesTotal` for totals on all sides of the thresholds |
| `procurement` | 2 requests, 1 order of up to 2 lines, 2 receipts | `ReceivedIsAccepted`, `StatusFollowsReceipts`, `AnnouncedAsApproved`, `FollowStateMachines`; rows refer to rows that exist (`TypeOK`) |
| `documents` | 2 requests in each of eleven parts, 1 or 2 rows of each kind | see the table below |
| `platform` | 2 requests in each of fourteen parts | see the table below; `AdminReachesEveryRoute` |
| `remove_line` | 1 request at a time, 2 orders | violation: removeLine takes a line from an order that is not the draft it checked |
| `stock_backstop` | the migration's trigger | violation: an issue the balance covers is refused |

The properties of `documents` and `platform` are conjunctions of the properties of their modules, grouped by what they promise:

| property | conjuncts |
|---|---|
| `DecidedOnce` | `OneWinner`, `AllDoneResolves`, `WonAsAnnounced`, `ResolvedAsAnnounced` |
| `MoneyAddsUp` | `PaidIsSum`, `RatingIsAverage`, `CollectedIsSum`, `DebitsStayDebits`, `ProducedIsDaily`, `PriceFollowsCost` |
| `DeliveredIsInvoiced`, `ClosedBooksStand` | of `Receivables` and `Ledger` |
| `MasterRowsHold` | `ReferencesKept`, `RemovedStaysRemoved`, `ChartIsForest` |
| `ReleasedBeforeUse` | `QcFollowsFinalPass`, `BuiltFromApproved`, `MaintainedIsMarked` |
| `ApprovedRecordsStand` (of steps) | `LockedEntriesStand`, `ApprovedBomsStand`, `DisposalStands` |
| `BalancesAddUp` | `UsedIsApproved`, `LeavesDoNotOverlap`, `BalanceIsCredits`, `ChargedOnce` |
| `HistoryExplainsState` | `EventsExplainEmployee`, `ManualIsExplained` |
| `DeliveredOnce` | `JobsRunAlone`, `InterestRunsAlone`, `MarkedIsMailed`, `ParkedOnceExhausted`, `TabsKeepTheirSubject`, `NothingIsPushed` |
| `AccessIsCurrent` | `TokenRotatesOnce`, `OldSessionsEnd`, `FailuresAreCounted`, `CacheIsCurrent`, `ServedWithinTtl`, `WindowHolds` |

Each conjunct has a mutant in its module (an operator under a comment "Mutant:") that breaks it under the run's configuration, so that none is
true by construction; `PROJECT.json` lists one per property.

Why the bounds suffice. Orders, prefixes, counts and receipts share no state except through the counter row and the
balance row, so one of each (two prefixes, to see that they do not disturb each other) shows every interleaving of their
requests. Two requests give every race of one stale write with one other request; the third in `orders` lets a stale confirmation meet
both the confirmation that won and a later transition. Two values of a datum are enough where guards only compare for equality; stock counts use
0 and 2 around a balance of 1 for both signs of a variance. Named bounds: `MaxNumber` (no request starts once a counter is there), `MaxRows`
(direct movements start while the ledger is shorter), `MaxApprovals`, `MaxEvents`, `MaxEntries` (lines of one receipt), and `Revisit`: in
`Procurement`'s passing runs no new request starts on a row that a request has written over unseen. The properties say nothing of
such a row; requests that are already running on it go on. `stock_count` uses the tests' trigger only, because the migration's refuses more movements and
allows nothing else. Two receipts with a line each of one order are the smallest instance in which two approvals do not
see each other; two orders the smallest in which a request reaches a line of another order.
With `MaxEntries` 1 no receipt has two lines; such a receipt adds its increments one after the other in one transaction,
and what it shares with another is what `Locked` looks at line by line.
In `documents` and `platform` parts are independent, two requests are the smallest number that overlap, and the values are chosen
so that each comparison goes both ways: a receipt of all that was ordered and one of half of it; a journal that balances and one that does not; two
leaves that share a day, one of half a day; gratuity that falls, rises, or is the same at the later of two dates. the lockout comes at the second failure and counts to the third (`MaxFailures`), `Throttle` admits
two calls (`HitLimit`) in a window of two ticks, so that a call at the edge is neither always in nor always out. A cached
list of permissions and a token live two ticks each, so that one can be read in the last tick of the other, and `MaxLate` lets a request take a tick between them. In `Jobs`
one job is looked at (`scheduled`), since jobs share neither a lock nor rows. Named bounds of these runs: `MaxRuns` (accruals),
`MaxDays`, `MaxPfTxns`, `MaxCharged`, `MaxEvents`, `MaxCorrections`, `MaxFailures`, `MaxPasswordChanges` (by either way), `FarAway` (days to an expiry),
`MaxChanges` (of compliance items), `MaxCopies`, `MaxSubjects`, `MaxTime`, `MaxHits`, `MaxLate`.
`SYMMETRY` permutes requests, and in `documents` two accounts that are not posted to and in `platform` two rows that nothing tells apart; only in runs
without liveness properties.

Deadlock is not checked where the bounds stop the system (`doc_number`, `pad_overflow`, and the runs of `Procurement`, of
`Documents` and of `Platform`, where ids run out and rows end in a terminal status); elsewhere it is.

Fairness. `DocNumber`: strong fairness of `NextDocNumber`, because PostgreSQL queues the waiters of a row lock and the lock is
free again and again; weak fairness of ending a transaction, because Prisma cuts an interactive transaction after its timeout.
`StockLedger`: weak fairness of the steps of a running request, because Node resumes a handler when its database call returns; crashes are not excluded, and
`GrnReachesLedger` names the handlers that ended early (`abandoned`).
`Documents` and `Platform` state none: what the code promises there is safety, and every request may stop at any point without a retry.

## 6. Proofs

The proof modules show, for every number of requests, rows, dates and quantities, what the runs check on small instances: all of
`DocNumber`, `OrderLifecycle`, `StockLedger`, `Procurement`, `Documents` and `Platform` but their liveness (below).

* `Sums`: lemmas about `SumFunctionOnSet`: its type (`SumType`, `SumNat`), equal terms have equal sums (`SumSame`), the sum with one element more
  (`SumAdd`), with one term changed (`SumChange`), of two functions (`SumPlus`), against a bound of its terms (`SumAtMost`),
  over a larger set (`SumMonotone`) and of a sequence that grows (`SumAppend`); finite sets of numbers have a largest (`LargestExists`).
  All rest on `SumElement`, which takes one element out of a sum. The fold of the library takes its elements in the order of `CHOOSE`; the proof takes a
  counterexample that is minimal under strict inclusion, which is well-founded on finite sets, and so needs no induction
  rule. The models sum with `SumFunctionOnSet` for this reason.
* `DocNumberProofs`: `TypeOK`, then `HeldNumberIsNext` (a row lock has one owner, so only its holder moves the counter), from it `Gapless`;
  `NoDuplicateWithinPadding` adds the hypothesis that numbers fit the padding, without which run `pad_overflow` is a counterexample;
  `RefinesCounter` shows that `Commit` is the abstract `Issue` and everything else a stutter.
* `OrderLifecycleProofs`: the inductive invariant `IInv` strengthens `TypeOK` by what the requests remember: a confirmation in flight
  read a draft; an order with milestones is not a draft; produced states have milestones; an announcing request implies milestones (`RowInv`, `RequestInv`).
  It is needed because none of the checked properties says anything of what a request that has not written yet may still do.
  `FreshTransition` shows that a write that is not stale satisfies `CanTransition` for the row as it is, which
  `ProductionNeedsConfirmationSafe` and `FollowsStateMachineSafe` rest on.
* `StockLedgerProofs`: `TypeCorrect` needs `CreatesApart`, that two requests do not create the same count. It contains the promise of the balance `CHECK`: balances stay natural
  numbers under either trigger, however many issues passed the check on one balance.
  `BalanceIsLedgerSumSafe`: the ledger grows by one entry, its sum by that entry's quantity.
  `RefinesAccount` rests on both: the sum of a place's bookings is its balance, which the trigger keeps from going below zero, so
  every `PostMovement` is a `Book` of the abstract account, also when the check ahead of it was made on an older balance; all other steps are stutters. `LowStockAnnouncedSafe` follows the request that took
  the stock below its level until it has looked.
  `PostedOncePerRunSafe` is carried by `LoopInv`: what a loop has left to post is not in the ledger yet under its run (`LoopOK`), two
  running loops have different runs (`RunsApart`), and runs in the ledger have started (`LedgerOK`).
  `CountReconcilesSafe` adds to it what the approval of a count has computed and not yet posted (`CountInv`).
  `CountFollowsStateMachineSafe` is carried by `AllChecked`: each request that is to write a status has checked it against the count it
  read, so a write that is not stale follows the table.
* `ProcurementProofs`: `TypeCorrect` from `Typed`. `TotalIsSumSafe` (a total is the sum of the lines, unless a request wrote over what it had not
  seen) needs that a request between the two halves of `recalcTotal` still holds the sum of the lines, unless it is stale; `RoleMatchesTotalSafe` rests on it.
  `FollowStateMachinesSafe` is carried by `Follows` (what a request is about to write follows from what it read), `AnnouncedAsApprovedSafe`
  by `Logged`. `ReceivedIsAcceptedSafe` and `StatusFollowsReceiptsSafe` relate the received quantity of a line to the sum over the
  receipts that are approved, through the increments an open transaction has made and not committed.
* `TradeProofs` and `DocumentsProofs`: one invariant for each of the eleven parts, in the same shape: *a request that is not stale has read
  what is still so*, and what it is about to write follows from what it read. For each part `XPart`, a lemma shows that `Init`
  establishes it, one that a step of the part keeps it, and one that it implies the checked properties.

| part | beside the common shape, the invariant says |
|---|---|
| `LedgerInv` | a journal about to be posted has seen its period open; a period remembers that it was closed after that (`CheckedOpen`) |
| `QuotationsInv` | a winner in flight counted no other winner; an announcement under way holds the status and the price that are stored |
| `ComplaintsInv` | the number of undone actions a request has counted is right unless it is stale; no two requests insert the same row |
| `ReceivablesInv` | where a challan stands between its three commits (`ChallanOK`), and to which journal a collection went (`PostedFor`) |
| `PayablesInv` | the paid amount a payment has read (`PayRead`), the sum of payments (`InvoicePaid`); the rating is bounded by `SumAtMost` |
| `MasterDataInv` | a document in flight found its row alive; a removal counted no document that refers to the row |
| `AccountsInv` | how far the walk up the chart has come, that the account to be moved is not on that way (`Walked`), parents exist |
| `BankInv` | each stored line is a line of some statement, with its sign (`ImportedFrom`) |
| `ProductionInv` | produced quantities against daily entries, with the sum a request has computed and not stored (`ProducedOK`) |
| `BomsInv`, `WorkshopInv` | what an approval, a cost sheet, a maintenance or a disposal in flight has read |

  The parts share no variable, so a step of `Documents` is a step of one part and leaves the others as they are (`OnePartMoves`,
  `PartSteps`); `DocumentsInvAlways` puts the eleven lemmas together, and the theorems after it state what run `documents` checks.

* `PlatformProofs`: the same for the fourteen parts of `Platform`, with `PlatformInvAlways` and the theorems of its five properties.

| part | beside the common shape, the invariant says |
|---|---|
| `LeaveInv` | an application has found no leave that is not closed to overlap its own; the days of a leave are given back by one request, and nothing is decided on the leave meanwhile (`ReturnsAlone`, `ReturnsLast`) |
| `ProvidentInv` | a credit knows the balance; a run of the interest holds the lock, or one was lost to its TTL |
| `GratuityInv` | what was charged and what requests are still to charge is no more than the latest provision, which is the highest (`ChargesInOrder`) |
| `EmployeesInv` | the first event is the hire; an update has read the row as it is, so that its event continues those before it (`ToldLonger`) |
| `AttendanceInv` | of a date, at most one request is between its two commits, and it knows the record it made (`DateExplained`) |
| `LockoutInv` | a login has seen the attempts as they are |
| `SessionsInv` | once a token is on the blacklist, of the refreshes past its checks only the one that put it there is not overtaken (`TokenRead`, `RefreshesApart`) |
| `AccessInv` | a fill under way that is not stale holds the permissions the tables give; with that `CacheIsCurrent` is inductive, an outdated entry being one that a request under way `Deletes` |
| `JobsInv` | whose lock it is (`RunRight`), and at which point of its run an item nobody has changed since is marked and mailed (`RunKnows`, `MailsRight`) |
| `DeadLettersInv` | a parked job that is still in its queue is about to be removed (`RemovalFollows`) |
| `NotificationsInv` | an open tab listens to its user's subject of today; connections count the open tabs (by cardinality); nothing has arrived |
| `ThrottleInv` | a tick that a later window may hold has counted no fewer calls than it let through, and every window sums to the limit at most |
| `GatewayInv` | a list that still lets the user in was read no longer ago than it has lain in Redis, in the token and in requests (`ListFresh`, `TokenFresh`, `CallFresh`) |
| `SetupInv` | a seeding has inserted or will insert each permission, and one that has ended has granted them all |

  The proof of `ChargedOnce` corrected the model: as first stated it was false of dates and entitlements the small instance did not have. A gratuity run
  dated back to before a provision that is lower finds the same difference each time it is repeated. The exception is now in `Disturbing`,
  and the instance has such dates (section 7).

Assumptions on constants, each named in the module that declares the constant. Values that stand for "none" are none of the values they are beside (`NoClient`,
`NoLine`, `NoChallan`, `Root`); dates are integers, years start at 1, quantities are natural numbers; every sample belongs to an order; the
line ids in the event of a receipt are unique, so are line numbers of a statement; the sets of ids that a sum runs over are finite;
the tables of statuses are those of the code. TLC evaluates them on every run.

What a theorem says of a row that was written over unseen is what its property says (section 1): nothing. The theorems show
that this is the only way to break the promise.

`AdminReachesEveryRouteSafe` joins two parts. What the scripts do, in any order and dying anywhere, is `SetupInv`: a seeding that has ended has granted
every row of `PERMISSIONS` (`AdminHolds`). What the table of routes is, `RoutesFitSeed` says: each route is the first to match a call of it, and what
it asks for has a row in `PERMISSIONS`. No constant occurs in it, so it is true or false once and for all; it is the hypothesis of the theorem,
and TLC evaluates it on the whole table as an assumption of `MCPlatform` (`QuotationsParameterFirst` in `Routes`, which registers a parameter
before a static path, makes it false).

Only model-checked: liveness (`EveryCallerServed`, `GrnReachesLedger`), which is beyond this prover. Only proved: `ImplementsAccount`, whose
amounts are all integers but 0, which TLC does not enumerate; with the amounts -6 .. 6 it finds no error on the instance of `stock_ledger`.

## 7. Findings

1. `LPAD` truncates (`pad_overflow`): after 999999 documents of a prefix, numbers of one year repeat and inserts fail on the UNIQUE column.
2. Terminal order states are not terminal (`order_terminal`): a confirmation that read a draft writes `confirmed`, and the
   milestones, over an order that was cancelled in between (`orders.service.ts:399-415`). The update of the other transitions, `:437`, does not repeat the check either.
3. removeLine deletes by line id (`remove_line`): a line of a submitted or approved order goes through any draft, and that order's
   total stays.
4. The migration's balance trigger refuses every outbound movement (`stock_backstop`): PostgreSQL checks the proposed row `(…, -quantity)` before
   it takes the `ON CONFLICT` path. The integration tests replace the function before they run.
5. The migration that creates `next_doc_number` says that a rollback "MAY cause gaps in the sequence"
   (`20260624000000_document_sequences/migration.sql:77-80`), a later one that there are "No gaps from aborted transactions"
   (`20260721000000_sprint3_ord_schema/migration.sql:243`). The code does the latter: `Gapless` holds in `doc_number` under every rollback, because the
   increment is undone with the transaction and nobody else can have counted on from it. Code that relies on gaps being allowed loses nothing.
6. `OrdersModule` and `SystemModule` each provide their own `NotificationsService` and `SSEService` (`orders.module.ts:70-71`, `system.module.ts:49`).
   Streams are opened at the one of `SystemModule`; `ComplaintsService`, the only caller of `notifyRole`, emits to the other. `NothingIsPushed`
   (in `DeliveredOnce` of `platform`) says that no open tab ever receives a notification; with one service for both (`EmitsAtSystem`) it fails.

Two races the passing runs exclude by name are worth a reader's attention. Two receipts of one order approved at once leave it
`partially_received` although everything has arrived (`StatusFollowsReceipts` without its exception fails after 19 steps).
One receipt approved twice at once doubles the received quantity and posts the stock twice.

Observations made while modelling. They contradict no line of the repository's documents that a run could quote, or lie outside
what the modules keep, and are not counted as findings:

* An item the nightly compliance check has marked `expiring_soon` is not read again by it, so it does not become `expired`. The
  mails are worded by the status read before the marking, so that the mail of an expired item says it is expiring soon (`compliance.service.ts:263`).
  Nobody gets a mail about an item without a responsible user.
* A user with the permission can take an order from `in_production` to `qc` without any inspection (`PATCH /orders/:id/status`);
  only the handler of `production.completed` comes after a final pass (`QcFollowsFinalPass`).
* A line of a CSV statement that declares `PAYMENT`, `CHECK` or `WITHDRAWAL` is stored as a credit whatever its sign, one that declares `DEPOSIT`
  as a debit (`csv-ofx-parser.ts:41-44`). `DebitsStayDebits` speaks only of the lines for which the sign decides, or agrees.
* Permissions travel in the access token: one that is taken away lets its user in until the token ends (8 hours), or a token signed meanwhile
  from a cached list that Redis did not delete. `ServedWithinTtl` bounds the time; `CacheIsCurrent` is about the list alone.
* `GratuityService.accrueMonth` compares a run with the provision of the latest date, not of the latest before its own (`gratuity.service.ts:49`):
  dated back to before a provision that is lower, it charges the difference, and again each time it is repeated.
* The monthly accrual of leave has no record of its month; a second run adds the days a second time.
* `create-user.ts` inserts the user and the role in two commits. After a death between them a rerun refuses the email; `assign-role.ts` repairs it.
* `add-super-admin-wildcard.ts` deletes `permissions:<user>` in Redis database 0, the cache is in database 1.
* `AuditInterceptor` is registered nowhere: not in `main.ts:152-155`, not as `APP_INTERCEPTOR`, not by `@UseInterceptors`. It has unit tests, and controllers
  carry its `@AuditTable`, but no call is audited; only what services log themselves is. Wired in, it would find record ids only in `id`, `userId`
  and `roleId`, and log other routes and creates as `unknown`.
* login does not look at `is_active`, refresh does; a password set through `UsersService.update` (`users.service.ts:183-185`) revokes no token, so `OldSessionsEnd` speaks of `changePassword` only.
* The throttler multiplies its ttl by 1000, and the module passes it 60 000.
* An accounting date is never compared with its period (`FinanceService.postJournal`); the trial balance leaves out inactive accounts.
* `ComplaintsService` notifies through another connection while its own transaction is open.
* `payroll.disbursed` has a handler and no emitter, queues have no worker, and nothing stores a second-factor secret in `src/`.
* Streams of notifications are per process: a tab connected to another instance receives nothing.

## 8. Not modelled

`components` in `PROJECT.json` has the status of every part.

* The audit log: the interceptor that would fill it is not wired in (section 7), and no code decides on an entry.
* Pure I/O (Redis, mail, SMS, storage clients), configuration, logger, filters and response interceptors: they keep no state that a property could relate.
* Reports that only read: trial balance, ageing, conversion rate, loss of pay, AQL sample size.
* The second factor (its secret is stored by no code here), leave types (a constant of `Leave`), names and descriptions of roles and users, free text everywhere.
* Numeric detail (decimals, average cost) is abstracted to small integers; partitions of ledger tables are not modelled.
* Two hazards have no property. A rerun of the monthly accrual: nothing the code stores distinguishes it from the next month's.
  The failure between a QC result and the completion of its order: the code promises no retry, so no liveness holds. `QcFollowsFinalPass` says
  only the converse, that what was completed had passed and that the handler moves the sales order after that.
