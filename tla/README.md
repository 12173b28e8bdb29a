# Stock Master: specifications, model checking and proofs

Stock Master (`src/`) manages the stock and the sales of small shops: a NestJS
API over MongoDB (`src/api`), a Next.js application that also works offline
(`src/web`), an S3 bucket for images, an external payment provider and Web
Push. This directory holds TLA+ specifications of its core logic, the instances
TLC checks, and theorems that TLAPS proves. `PROJECT.json` maps every
definition to the lines it stands for and lists runs, mutants, hazards,
findings and theorems.

## 1. The system: components, state, operations

One API process serves all organizations (tenants). A request is an `async`
handler: between two awaits nothing else runs, at every await any other handler
may. Shared state is in MongoDB; transactions are snapshot-isolated, conflict
on the documents they write, and are started over by the driver.

| Component (`src/api/src/...`) | State it keeps | Operations | What is hard | What makes it correct |
|---|---|---|---|---|
| sales | `sales`, `saleoperations` (keys) | create with a key, replay, correct, cancel | races on the stock, on a key, resends after a crash | stock covers sales, one sale per key, audit tells the sales, executions are serial |
| products | `products`, `purgedstockadjustments` | create, modify, trash, restore, delete for good | a purge beside a sale; writes outside transactions; audit before write | a purge loses no history and no cost |
| sections | `sections` | create, move, trash, purge | check-then-act, no unique index, purge beside a move | leaves hold products, names unique, no dangling section |
| audit | `auditlogs` | insert | in or out of the transaction of its event | tells exactly what happened |
| push outbox, dispatcher | `pushjobs`, `pushdeliveries` | record, plan, claim, send, retry, finish | leases without token, crash between steps, digests | every event reaches each device, duplicates only after a fault, what ended stays ended |
| push subscriptions | `pushsubscriptions` | register, remove | upsert races, device limit | at most the limit, one owner per endpoint |
| analytics, reports | none | overview, history | several reads without a snapshot | cost and benefit agree with the collections |
| storage quota, s3 | ledger of objects, usage counters, bucket | reserve, upload, attach, detach, release, recover, recompute, reconcile | upload later than its reservation, crash between any two steps | counters = ledger, quota held, no referenced object deleted, no leak for ever |
| subscription payments, Campay | `subscriptionpayments` | open, initiate, refresh, webhook, finalize, reconcile | late, lost, duplicated, disordered answers; crash after the provider's call | at most one open payment, one period per payment |
| subscriptions | `subscriptionperiods` | grant, access decision | concurrent grants, a budget that runs out | periods apart and contiguous, no payment twice |
| organizations, invitations | `organizations`, `memberships`, invitations | invite, accept, revoke, change rights, transfer ownership | single use, old snapshots of a member | one active owner, no membership but by an open invitation |
| auth, password reset, email verification, users | users, session versions, tokens | log in, refresh, reset, verify | compare-and-set on versions | a revoked session is refused |
| rate limiting | windows | take, release | release after rollover | never more than the limit per window |
| events | sockets | connect, revoke | revoked between check and registration | no socket outlives its rights |
| notifications, legal, support, objects, trash, anti-bot, migrations | their collections | insert, list | little | - |
| web outbox (`src/web/src/lib/offline-sales-*`) | IndexedDB operations, sync lease | enqueue, sync, expire, abandon | several tabs, aborted passes, lease expiry | no sale lost or announced expired after it was applied |
| web catalog, service worker, application | caches | refresh, purge | - | - |

The last column of each line is what the properties of section 3 make precise.

How they meet: a **sale** writes `saleoperations`, `products`, `sales`,
`auditlogs` and `pushjobs` in one transaction; a **correction** and a
**cancellation** write the last four (a cancellation no job); a **permanent
deletion** reads the sales of the product, freezes its cost into them, keeps the
unexplained difference as an adjustment and removes the product, in one
transaction; a **modification** writes audit entries, checks the section and
writes the product, outside of any transaction. The web outbox resends a sale
with the same key until it gets an answer. The analytics compute the cost of
sales from products, purged sales and adjustments. The **dispatcher** turns the
jobs that events record into notifications and into deliveries to devices. A
**payment** is opened by the owner, collected by the provider, and confirmed by a
refresh, a notification or an operator, whose transaction grants the period that
opens the organization to everyone. A **change of a member**, a transfer or a
password reset closes sockets held in the memory of the process.

`PROJECT.json` lists the hazards at their lines; those of the modelled part name
the properties that would catch them, the others say why none does.

## 2. Modules

| Module | What it is |
|---|---|
| `SalesDocs` | The documents and every operation on them, as operators from a database (a record of collections) to a database. No state. |
| `SalesBook` | **Abstract specification**: the serial book. One variable `db`, one atomic action per operation. |
| `Sales` | **The implementation**: concurrent handlers, snapshots, conflicts, driver retries, crashes, non-transactional writes. Implements `SalesBook` (`Book == INSTANCE SalesBook`, property `Serializable`). |
| `MCSales` | Symmetry sets for TLC; every `sales_*.cfg` is an instance of it. |
| `SalesDocsProofs` | Every operation keeps the documents consistent (`OK`) and the drift between stock and sales; sums over functions, and that a purge leaves the cost of sales as it was. |
| `SalesBookProofs` | Theorems of the serial book. |
| `SalesProofs` | A transaction that commits without a conflict does to the current documents what its operation would have done running alone; the inductive invariant of `Sales` and its theorems, that of the alerts among them. |
| `StorageDocs` | Registry of stored files, usage counter and references, and every operation on them. No state. |
| `StorageBook` | **Abstract specification**: the accounting of stored files, one operation at a time. |
| `Storage` | **The implementation**: requests with an image, recovery, inventory and the operator's repairs as concurrent tasks around a bucket that is outside of every transaction. Implements `StorageBook` (`Serializable`). |
| `MCStorage` | Sizes of files and symmetry; every `storage_*.cfg` is an instance of it. |
| `StorageProofs` | What the operations of `StorageDocs` do and what a transaction commits; the inductive invariant of `Storage` and its theorems. |
| `PaymentLedger` | **Abstract specification**: accounts of payments (none, open, closed, paid) and the chain of periods they bought. |
| `PaymentDocs` | Payments, periods and reconciliation records, and every operation on them. No state. |
| `Payments` | **The implementation**: creation, refresh, notification, reconciliation and manual grants as concurrent tasks around a provider whose answers age. Implements `PaymentLedger` (`KeepsLedger`). |
| `MCPayments` | Symmetry. |
| `PaymentProofs` | The invariants of `Payments` and its theorems, and that it implements `PaymentLedger`. |
| `PushDispatch` | Several processes that dispatch jobs and send deliveries, beside members and devices that come and go. |
| `MCPush` | Events and windows of the instances. |
| `PushProofs` | Its invariants and theorems. |
| `OfflineOutbox` | The tabs of one browser that send the sales of one user, the database they share and the server. |
| `MCOutbox` | Symmetry and the constraints of the safety run. |
| `OutboxProofs` | The invariants of `OfflineOutbox` and its theorems. |
| `Roster` | **Abstract specification**: the members of an organization and its open invitations. |
| `MemberDocs` | Memberships, invitations and accounts, and every operation on them. No state. |
| `Memberships` | **The implementation**: concurrent requests about members, and the sockets. Implements `Roster` (`KeepsRoster`). |
| `MCMembers` | The four scenes of the run. |
| `MembersProofs` | The invariants of `Memberships`, and that it implements `Roster`. |

The groups of `Sales` and `Storage` share no state but the product, whose image `Sales` leaves out
and whose stock `Storage` leaves out; no operation writes both except the
permanent deletion, which is in each of them for its part. `PushDispatch` takes
the jobs that `Sales` records as events that just happen; `OfflineOutbox` takes
from `Sales` that a key records one sale (`OneSalePerKey`, proved); `Payments`
and `Memberships` touch other collections.

The four refinements: `Book == INSTANCE SalesBook` and `Book == INSTANCE
StorageBook` keep the documents and forget the handlers; `Ledger == INSTANCE
PaymentLedger WITH account <- Account, chain <- Chain` maps the status of a
payment and orders the periods by their sequence; `Book == INSTANCE Roster WITH
roster <- db.member, offers <- OpenOffers` keeps of an invitation what it offers
while it is pending.

### SalesDocs: data

| TLA+ | Code |
|---|---|
| `db.products[p]` | a `Product`: `isTrashed`, `initialQuantity`, `remainingQuantity`, `purchasePrice` |
| `db.sales[s]` | a `Sale`; `lastKnown` is `lastKnownUnitCost`, written by a purge |
| `db.ops[k]` | a `SaleOperation`: unique on (organization, `clientOperationId`), with the seller and the hash of the normalised payload; the hash is the payload itself (SHA-256 is taken injective) |
| `db.audit[s]` | what the `AuditLog` entries of a sale add up to: quantity last told, cancelled or not. Entries are only inserted, so two transactions never conflict on them (`MergeTrail`) |
| `db.adjustments[p]` | a `PurgedStockAdjustment` |
| `db.jobs` | the `PushJob`s of stock and sales; the trigger is the sale, or the number of the correction (`operationId`) |
| `SellOutcome`, `ChangeOutcome`, `CancelOutcome` | the errors, in the order the code meets them |
| `Sell`, `Change`, `Cancel`, `Purge`, `SetTrashed`, `Patch` | all that the transaction of the operation writes |
| `StockAlerts`, `LowCrossed` | the alert of one write: depleted, or else 80 % crossed, as `5 * consumed >= 4 * initial` |
| `CostOfSales` | `AnalyticsService.costOfSales` |

`StockCovered`, `HistoryKept`, `AuditTells`, `KeysTell`, `OK` and `Drift` are
not code: they say what consistent documents are.

### Sales: handlers

`pc[r]` is the await at which handler `r` stands, `req[r]` what it serves,
`snap[r]` the snapshot of its open transaction, `dirty[r]` the documents that
others wrote since. The body of `withTransaction` is one step on the snapshot:
nothing of it is visible before its commit, so only when the snapshot is taken
and when it commits matter, and any number of other steps may fall between
(`Begin`, then `CreateTx`, `UpdateTx`, `CancelTx` or `PurgeTx`).

| Request | Steps | Code |
|---|---|---|
| create | `ReceiveCreate`, `Lookup`, `Begin`, `CreateTx`, (`Winner`, `Replay`) or `Answer` | `SalesService.create`, `createFresh`, `replay` |
| correct | `ReceiveUpdate`, `Begin`, `UpdateTx` | `SalesService.update` |
| cancel | `ReceiveCancel`, `Begin`, `CancelTx` | `SalesService.remove` |
| delete for good | `ReceivePurge`, `Locate`, `Begin`, `PurgeTx` | `ProductsService.permanentDelete`, `preserveSalesHistory` |
| modify | `ReceivePatch`, `PatchRead`, `PatchLog`, `PatchSection`, `PatchWrite` | `ProductsService.update` |
| trash, restore | `TrashProduct`, `RestoreProduct` (one write) | `ProductsService.remove`, `restore` |

Choices worth knowing:

- **Conflicts.** A transaction may commit only if no document it writes was
  written since its snapshot; otherwise `Retry`: the same body, the same ids
  drawn before, a new snapshot. Documents it only read are not protected. The
  operation document of a key is written first, so a concurrent one is a
  conflict, and one in the snapshot a duplicate key (`Winner`). These rules are
  the database's and the driver's, marked external in `PROJECT.json`.
- **Early conflicts.** MongoDB reports a conflict at the write, the model at the
  commit; in between nothing is visible, so the outcomes are the same.
- **A write outside of a transaction** (`WriteProduct`) is atomic and newer than
  every open snapshot; MongoDB would make it wait for an open writer, which is
  the order where that writer commits first.
- **`Fail`** is the death of the process or of its connection at any await: an
  open transaction aborts, what is committed stays, the client gets no answer
  and may resend.
- **Without a key** Mongoose draws the id of a sale at every attempt while the
  trigger of its alerts is the one drawn before; one id stands for both.
- **At the start** products exist with their initial stock, and one of them may
  already miss a unit that no recorded sale explains (`StartDrift`): data older
  than the adjustments, which the code handles on purpose.

Left out: organizations (every query is filtered by the caller's), the filter
that hides the sales of others (404), names, buyers, dates, the window of
`occurredAt`, realtime events, the activity of members recorded after the
commit, unconfigured push (no job is then recorded), the image of a product.

### StorageDocs and Storage: files, tasks and the bucket

| TLA+ | Code |
|---|---|
| `db.entry[f]` | a `StoredObject` (`storage_objects`): state and source; its lease is the set `due` |
| `db.usage` | the `StorageUsage` of the organization; bytes only, the counts of objects move with them |
| `db.image[o]` | `imageKey` of a product, `logoKey` of the organization |
| `bucket`, `puts` | files in the bucket; PUTs that were sent and may land now, later or never |
| `used` | keys already drawn (`newObjectKey` takes a UUID) |

| Task | Steps | Code |
|---|---|---|
| create, replace | `StartUpload`, `ReserveTx`, `Land`/`PutFails`, `MarkTx`, `ReadOwner`, `WriteTx`, then `DeleteFile`, `ReleaseTx` of the former image, or `DiscardTx` | `store`, `ProductsService.create`, `update`, `updateBranding`, `deleteDetached`, `discard` |
| purge, clear | (`ReadOwner`), `RemoveTx`, `DeleteFile`, `ReleaseTx` | `permanentDelete`, `removeLogo` |
| recover | `StartRecover`, for each entry `Pick`, `DecideTx`, `DeleteFile`, `ReleaseTx` | `recover`, `recoverEntry` |
| inventory, initialize | `Pick`, `Fetch`, `CountTx` for each file, and the steps of a recovery for those past their grace | `reconcileInventory`, `initializeExisting` |
| orphans | `Pick`, `Fetch`, `OrphanTx`, then as a recovery | `reconcileOrphans` |
| recompute | `RecomputeTx` | `recompute` |

- **A refused reservation** runs a recovery in the same request (`freed`) and
  tries once more if that released something.
- **A PUT** ends in three ways that its task cannot tell apart: it lands before
  the answer, it lands after the task gave up (`Land` with the task elsewhere),
  or it is lost. `PutFails` covers errors and the abort at a third of the lease.
- **`lockReference`** writes the documents that refer to a file; `CommitTx` and
  `RetryTx` take those as written (`locks`) although nothing of them is modelled
  as changed.
- **Leases.** `Expire` may come at any time: what is safe is so however long a
  task waits. A renewal is a write outside of transactions, after which open
  snapshots conflict. A failed renewal is an `Expire` that follows at once.
- **A commit that seems to fail** (`"fail"` in `WriteTx`) leads to `DiscardTx`
  although the reference was written.
- **At the start** a file of earlier code may be in use without an entry, be in
  use with one, have an entry nobody refers to, or only lie in the bucket, and
  the counter may be a byte too high: the states the repairs are written for.

Left out: the check of the picture, prefixes and other storages (such files are
never touched), pages of the listing, limits of a pass, growing delays, the
creation of an empty counter (`ensureUsage`), reports, a DELETE that lands after
its process died (keys are never drawn again, and the entry is still deleting).

### PaymentDocs and Payments: tasks and the provider

| TLA+ | Code |
|---|---|
| `db.pay[p]` | a `SubscriptionPayment`: status, `open` (the field of the single-open index), key, request (the fingerprint stands for it), provider reference, period |
| `db.periods` | `SubscriptionPeriod`s: sequence, start and end in days, source |
| `db.records` | `SubscriptionPaymentReconciliation`s |
| `prov[c]` | the collection with reference `c` at Campay: merchant reference, whether it shows the values asked, state |
| `notices` | paid collections whose notification was not acknowledged |

| Task | Steps | Code |
|---|---|---|
| create | `ReceiveCreate`, `CheckOpen`, `Reserve`, `Initiate`, `RecordInitiation` (`RecordPending`, `Recheck`, `Review`) | `createPayment`, `initiateReserved`, `recordPending` |
| confirm | `ReceiveRefresh` or `ReceiveNotice`, `Fetch`, `Apply` (`RecordFailure`, `Recheck`), `Finalize`, `Respond` | `refreshPayment`, `CamPayWebhookService.handle`, `confirmPayment`, `finalize` |
| reconcile | `ReceiveReconcile`, `Consult`, `SettleTx` | `PaymentReconciliationService.apply` |
| grant | `ReceiveGrant`, `GrantTx`, `GiveUp` | `grantSubscription`, `runInGrantTransaction` |

Single writes are conditional updates on the status read in the filter; a grant
is a transaction with the unique indexes on the sequence and the source of a
period (`Collides`, retried as `isRetryableGrantCollision` says). `Fetch` takes
the state of a collection and `Apply` uses it later: in between it may be
settled, notified and confirmed by another task. The provider may lose the
answer of an initiation, reuse a reference, show another amount, and reverse a
refusal; each is a member of `Kinds`, so that a run says what it lets happen.

Left out: quotes and prices, methods and phone numbers (a request is its
length), texts, listing, the signature of a notification, and limits that only
refuse.

### PushDispatch: workers and devices

A worker is a pass of the dispatcher in a process; two run at once when one
stops while the next starts, or after a crash. `job`, `delivery` and `device`
are the three collections, `center` the notifications of members, `shown` what
a browser received (history). A date is whether it has come.

| Steps | Code |
|---|---|
| `Select`, `CatchUp`, `Assess`, `Cancel`, `Notify`, `Plan`, `Revoke`, `Deliver`, `Close` | `selectJobs`, `dispatchOne`, `planDeliveries`, `saleDigest`, `catchUpReminders`, `closeJob` |
| `Claim`, `Verify`, `Disable`, `Send`, `Record` | `sendDeliveries`, `sendOne`, `finish` |
| `Register`, `Unregister`, `RevokeSessions`, `RemoveMember`, `Lapse`, `Age`, `WindowEnds` | devices, sessions, members, subjects and time |

A claim has no token: whoever finds `lockedUntil` past takes the delivery again,
and a worker that comes back writes only if the delivery is still `sending`.
Faults (`MaxFaults`) are the death of a worker, a lease that ends under one that
still sends, and an answer that is lost.

Left out: preferences of the audience and of devices, the limit of devices,
the lanes that keep one organization from starving another, activity counts,
texts and languages.

### OfflineOutbox: tabs, one database, the server

`ops` are the operations of one partition in IndexedDB, by their sequence;
`lease` is the Web Lock or the lease of thirty seconds, chosen once (`locks`).
A pass (`pc[t]`, `pass[t]`) stops at every await of `processPartition`:
`ReadBlock`, `Unblock`, `Prepare`, `ReadHead`, `Mark`, `Send`, wait, `Apply`,
`Block`, `Release`. The server answers a key (`Serve`), records its sale, loses
the answer or serves a request nobody waits for (`ServeLate`). The user enters,
corrects, retries, abandons and deletes; tabs freeze, thaw and close.

Four variables are history, each with one meaning: `interrupted`, operations
an attempt of which was cut short (tab closed, pass aborted) and so not counted;
`resent`, those the user had sent again, which starts their count again;
`overtaken`, those that were refused before an earlier request for them came
late and recorded the sale; and `overlap`, two passes that ran at once, which is
possible without Web Locks only, when a tab is suspended past its lease. The
properties that promise less in one of these cases name it. Attempts that are
all counted put an operation in `overtaken` only, when one of them timed out, a
later one was refused, and the request of the first is then served.

Left out: corrupted records, the sessions of other users, exports, what a
sale contains.

### MemberDocs and Memberships: members, invitations, sockets

| TLA+ | Code |
|---|---|
| `db.member[u]` | the `OrganizationMembership` of the account of `u` |
| `db.invite[i]` | an `OrganizationInvitation`; `Gone` once accepted or revoked (both delete it) |
| `db.account[u]` | the `User` of that address: version of its sessions, reset link |
| `over` | invitations whose date has passed |
| `sockets` | the registry of `SocketRegistryService` |

| Task | Steps | Code |
|---|---|---|
| invite | `ReceiveInvite`, `CheckInvited`, `ExpireInvite`, `InsertInvite` | `createInvitation` |
| accept, create | `ReceiveAccept`, `AcceptTx`; `ReceiveCreateAccount`, `CreateAccountTx` | `acceptForAccount`, `createAccount` |
| link | `ReceiveLink`, `ClaimLink` | `requestAccountLink`, `claimAccountLink` |
| update, transfer | `ReceiveUpdate`, `UpdateTx`; `ReceiveTransfer`, `TransferTx`; then `CloseSockets` | `updateMembership`, `transferOwnership`, `disconnectMember` |
| reset | `SendReset`, `ReceiveReset`, `ConfirmReset`, `CloseSockets` | `claim`, `confirm`, `disconnectUserSessionsBefore` |
| connect | `ReceiveConnect`, `ReadContext`, `RegisterSocket` | the handshake and `handleConnection` |

A transaction commits if nothing it writes was written since its snapshot and
the unique indexes hold. The actor of a change is read in the transaction and
not written, so two members may change each other at once: the result need not
be that of a serial execution, and `KeepsRoster` does not claim it.
A handshake reads the account, then the membership, then the subscription, and
is registered: one that overlaps a change stays connected until its token
expires. `SocketsFollowRights` is about the others (`fresh`).

Left out: names and mails, limits that only refuse, the legal proof, the
suspension of the organization, the expiry of reset links.

## 3. Properties

| Property | Says | Hazard it answers |
|---|---|---|
| `NeverOversold` | no stock is negative, whatever runs at once | read-modify-write of the stock on snapshots |
| `StockFollowsSales` | no step separates initial − remaining from the units sold; a purge keeps the difference | lost decrement, retried callback, restock beside a sale |
| `SaleHistoryPreserved` | a sale has a frozen cost exactly when its product is gone | sale beside a purge |
| `AuditMatchesSales` | the trail tells exactly the sales and their last quantities | entries of aborted or repeated runs |
| `OneSalePerKey` | one key, one sale, and every success returned names it | resend, race, crash before the answer, replay after a cancellation |
| `AlertsMatchCrossings` | a commit records exactly the alert of the crossing it makes in the committed stock | alert computed on a stale stock |
| `PurgeKeepsCost` | a permanent deletion leaves the cost of sales as it was | freezing computed beside a sale |
| `Serializable` | the concurrent system implements the serial book | any anomaly of snapshot isolation (write skew included) |
| `EveryRequestEnds` | a request ends, or others commit for ever | retries and replays waiting on one another |
| `CounterFollows` | no step separates the counter from the registry; a recomputation may only make it exact | bytes counted or given back twice, a recovery beside the upload it recovers |
| `QuotaHeld` | in mode `enforce`, no upload takes the counted files past the quota | concurrent reservations at the limit |
| `ReferencedFileKept` | a file that a document shows is in the bucket | recovery, discard or a late deletion beside the write of the reference |
| `EntriesFollowReferences` | no step makes an entry disagree with the references | a file counted while it is detached, a replacement of a replaced image |
| `Serializable` (Storage) | every transaction of a task is one operation of the serial accounting | write skew between the references and the entries |
| `NothingLeaks` | an unused file leaves the bucket and an unfinished entry is settled, in the end | crash between two steps, failed deletion, upload that lands after the recovery |
| `PaidForPeriods` | a payment is paid exactly when it has its one period, of the length asked, and the provider collected its amount | confirmations at once, old answers, references used again |
| `KeepsLedger` | one payment is open at a time, none reopens, each buys one period at the end of the chain | two requests, resent keys, a budget that runs out |
| `PeriodsApart`, `AccessCoversPeriods` | no two periods share a moment, and the access lasts to the end of the last one | grants that compute the next period at once |
| `ReviewWaits` | a payment in review moves only with the record of an operator | an answer under way when the review began |
| `NoNoticeLost` | a notification is acknowledged only when its payment is paid or waits for an operator | failure between the notification and its effect |
| `ShownOnce` | a browser receives a notification once, and once more at most for each fault | claims without a token, retries, digests |
| `NobodyForgotten` | a dispatched job is in the center of each member, and planned for each device that could get it all along | crash while planning, members and devices that come |
| `OutcomeStays` | what ended stays ended | late answers, planning again |
| `NothingAfterRevocation` | what was lost before a claim stops the send, for a retry too | checks made once |
| `EverythingSettles` | every job is closed and every delivery ends | dead processes, devices that vanish |
| `SyncedIsRecorded` | what the user is shown as recorded is | lost answers, two tabs |
| `CorrectionsAreSafe` | while passes take turns, a correction is offered for a recorded sale in three cases only: refused before an earlier request came late (`overtaken`), expired uncounted after an attempt cut short (`interrupted`) or a manual retry (`resent`) | lost answers, repeated and late requests, expiry of what was sent |
| `FinalStays` | while passes take turns, an outcome never lands on an operation settled since it was read | the user and earlier passes beside an attempt |
| `SalesInOrder` | while passes take turns, the server records the sales in the order they were entered, late requests included; what the user had sent again (`resent`) may be passed | backoff or lost answer of the first one |
| `KeepsRoster` | always one active owner; nobody joins but by an open invitation, once, as it offered; one open invitation of an address | transfers, changes and acceptances on old snapshots |
| `SocketsFollowRights` | a socket shows the rights and the session of its member, or the request that changed them is about to close it | a change beside connections |
| `CorrectionNeverDoubles` | (violated) no correction is offered for a key that recorded a sale | an attempt that is not counted; a manual retry, then expiry; a request overtaken by a refusal |
| `AuditedRestockApplied` | (violated) a modification that fails saves nothing | audit written first |

Every property has a mutant, a plausible bug for which the same run finds it
violated: a dropped guard, a swapped sign, a conflict not seen (a write without
its session), a retry on the old snapshot, a threshold taken as a state instead
of a crossing.

## 4. Runs

| Run | Bounds | Distinct states |
|---|---|---|
| `sales_core` | 1 product (2 units), 2 sale ids, 1 key, 2 sellers, quantities 1-2, 1 correction, 2 handlers, crashes | 806 000 (symmetry) |
| `sales_stock` | 1 product (10 units), 1 sale id, quantities 8 and 10, 1 correction, 1 restock, trash and purge, 2 handlers, crashes, fairness | 112 000 |
| `sales_patch` | 1 handler; finds the violation in five states | - |
| `storage_core` | 1 product, 2 files, quota of 2, 2 tasks, 1 crash, recoveries, failed deletions, commits that seem to fail | 1 081 000 (symmetry) |
| `storage_legacy` | 1 logo, 1 earlier file of two bytes, 1 new of one byte, quota of 3, 2 tasks, every repair | 443 000 |
| `storage_leak` | 1 product, 1 new file, 2 tasks, 1 crash, recovery and inventory, fairness | 36 600 |
| `payments_core` | 2 payments, 1 reference of the provider, 2 keys, 1 manual reference, 2 tasks, every fault | 340 000 (symmetry) |
| `push_core` | 2 events of one window, 1 device, 2 users, 2 workers, 2 attempts, 1 fault | 1 306 000 (symmetry) |
| `push_live` | 1 reminder, 1 device, 1 user, 2 workers, 2 attempts, 1 fault, fairness | 144 000 |
| `outbox_core` | 2 sales, 2 tabs, 2 server attempts, 1 fault, with and without Web Locks | 1 683 000 (symmetry) |
| `outbox_edit` | 1 sale, 1 tab, 1 fault; finds the violation in fourteen states | - |
| `members_core` | 3 users, 2 invitations, 1 socket, 2 tasks, four scenes | 338 000 (symmetry) |

Why they are enough: every conflict is between two transactions, or a
transaction and a write, so two handlers suffice to meet each pair of steps at
every await, and handlers start over and over: longer histories come from
further requests of the same two. Two sales that compete for the last units
(2 units, quantities 1 and 2) reach `INSUFFICIENT_STOCK` in the snapshot and by
conflict, and let a key be resent after its sale was cancelled while another is
recorded. Quantities 8 and 10 of 10 cross 80 %, go back, reach it exactly with a
restock and run out, with one sale: that two sales beside each other record the
alerts of the serial book is part of `Serializable`. Several products are not
needed by the runs: no operation but the analytics relates two, and the proofs
hold for any number. For the files: an image replaced, a replacement refused by
the quota, two uploads that race for the last place; one upload, one recovery
and one inventory are enough for a file to be reserved, land late and be found.
For the payments, two payments, one reference that the provider may use twice, two
keys, and two tasks of any kinds; time has two moments, in and after the trial.
For the dispatcher, two events of one window with a device that changes hands,
and one reminder under fairness. For the outbox, two sales, two tabs and one
fault; once two passes run at once only one sale is entered (`OverlapOnOne`,
a state constraint), since the properties of order do not speak of such passes;
and one sale at most is interrupted or sent again by the user (`OneUncounted`),
beside another that is neither, since these marks excuse a sale each on its own
(without this bound the run passes too, with 3 162 000 states).
For the members, each scene lets happen what meets in one place: how members
join, changes beside a transfer, sockets beside a transfer, sockets beside
changes, a reset and a crash. The safety runs never bound how often the passes run.
Bounds that the code does not have: `MaxUpdates`, `MaxRestock`, the number of
sale ids, the number of keys, `MaxCrashes`, `MaxFaults`, `MaxNow`, `MaxOps`,
`MaxResets`, `MaxSockets`, `Kinds`, `Events` and `Scenes` (what the run lets
happen). Deadlock is checked, except for the dispatcher and the outbox, where
everything may be done: each event happens once and each sale is entered once.

**Fairness** (`sales_stock`): weak fairness of `Step(r)` for each handler. The
event loop runs every ready callback and the driver answers or fails, so a
handler that can go on does. Nobody has to send requests, and `Fail` is not
required. Retries are not bounded by the code beyond the driver's two minutes,
hence the disjunct "or others write for ever"; each conflict implies a commit
of another one.

For `storage_leak`: weak fairness of each step of a task (as above); a PUT lands
or is lost and a lease ends (time); `DeleteFile` strongly, because a deletion
that is tried again and again succeeds once, which is an assumption about the
bucket (nothing can be freed in one that refuses for ever); and the two passes
start again and again (strong fairness of `StartRecover` and `StartInventory`),
as the timers of `storage-recovery.ts` make them in mode `enforce` with both
intervals set. In mode `track` the operator starts the inventory, and the
property is not claimed. `MaxCrashes` is 1: a process that dies again and again
finishes nothing.

For `push_live`: weak fairness of the steps of a worker and of time (`Comes`,
`WindowEnds`), and strong fairness of the selection of a job and of the claim of
a delivery: a pass takes them oldest first, whatever else there is, so what is
due again and again is taken. The loop starts the next pass with a timer,
whatever the last one met (`scheduleNext`). Faults are bounded and not fair.

**Findings.** `sales_patch`: `ProductsService.update` writes its audit entries
before it looks at the target section; a 404 of the section leaves
`STOCK_CHANGED`, `NAME_CHANGED` or `PRICE_CHANGED` entries for changes that were
not made, against the comment at `products.service.ts:568-570`.

`offline-sales-policy.ts:271-277` says that a correction under a new key is only
offered when the old one has certainly recorded nothing. It is offered for a sale
that exists in three ways, and by `CorrectionsAreSafe` in no other while passes
take turns:

- an attempt that was cut short is not counted, so that an operation that was sent
  may expire with `attempts === 0`, which the policy takes for never sent
  (`interrupted`): the trace of `outbox_edit`;
- a manual retry after `SERVER_UNAVAILABLE` sets `attempts` back to 0 and leaves
  the date of entry (`offline-sales-outbox-db.ts:668`): the operation may expire
  before it is sent again, and look as if it never was (`resent`): the trace of
  that run with `MaxFaults = 0`, in twenty-seven states;
- a 4xx answer is taken as certain, since "une clé déjà appliquée aurait été
  rejouée en 201, jamais refusée en 4xx" (274-275); a request that its client gave
  up, counted if it timed out, may be served after a later one was refused
  (`overtaken`): with the invariant `\A o \in overtaken : ~ MayCorrect(o)` in
  that run, eighteen states.

**Met while modelling**, without a run of their own:

- A payment that failed at the provider and is put in review by a later answer
  keeps `open` false, so another one can be opened although the screen of a
  payment in review says that no collection is possible meanwhile.
- A payment left `INITIATING` by a crash has no reference; no refresh and no
  reconciliation settles it, and it holds the place of the open payment.
- `disableSubscription` (`push-dispatcher.service.ts:1073`) depends on nothing
  but the status: a device registered again between the send and the answer
  `410` is disabled with it.
- A pass checks the token and the abort signal before it sends
  (`offline-sales-sync.ts:343`), not its lease, which only the renewal timer looks
  at. Without Web Locks, a tab suspended past its lease while it marks an
  operation sends it beside the tab that took the lease, against "Un seul worker
  par partition" (37-38) and "deux onglets : un seul POST par opération"
  (`phase-1-11c2-offline-sales-outbox.md:84`, tested with Web Locks disabled too).
  The key still records one sale (`OneSalePerKey`), but the outcome of one pass may
  be written over what the other settled, and a lease that the timer takes back is
  not known to have been lost. `overlap` marks such histories: `FinalStays`,
  `SalesInOrder` and `CorrectionsAreSafe` say nothing of them.
- A handshake that overlaps a change of its member keeps its socket until the
  token expires. `SocketsFollowRights` sets such sockets aside; what it shows is
  that a change is followed by the step that closes the others.

## 5. Proofs

TLC checks small instances; these theorems hold for every value of the
constants, under named assumptions that TLC evaluates in every run.

### Sales

Any products, sale ids, keys, sellers, quantities and handlers, under
`SaleNumbers`, `SaleIdsFinite` and `ProductsFinite` (an ObjectId has twelve bytes), `TriggersApart`
(the keys of the events of a sale and of a correction differ by their prefix:
`sale:` at `sales.service.ts:262`, `sale-update:` at `:417`), `Sentinels`,
`SalesNumbers` and `NoSuchRequest`:

| Theorem | Statement |
|---|---|
| `BookDocsOK`, `BookStockFollowsSales` | the serial book keeps `OK`, and every drift |
| `Invariant` | `Spec => []IInv` |
| `SalesTyped` | `Spec => []TypeOK` |
| `StockNeverNegative` | `Spec => []NeverOversold` |
| `HistorySurvivesPurges` | `Spec => []SaleHistoryPreserved` |
| `AuditNeverOrphan` | `Spec => []AuditMatchesSales` |
| `KeysAreIdempotent` | `Spec => []OneSalePerKey` |
| `StockAndSalesTogether` | `Spec => StockFollowsSales` |
| `RequestsSerialize` | `Spec => Serializable` |
| `TriggersAreNew` | `Spec => []Triggers` |
| `AlertsWithCrossings` | `Spec => AlertsMatchCrossings` |
| `PurgesKeepCost` | `Spec => PurgeKeepsCost` |
| `RequestsDoNotLoop` | `Spec => RequestsAdvance` |

The argument has six parts.

1. *Operations* (`SalesDocsProofs`). Field lemmas say what each operation
   writes; from them each one keeps `OK` and `Drift` (`OperationOK`). The
   quantities sold are counted as a set of units (`UnitsOf`), so no induction
   over data is needed: `SoldSplit` separates the units of one sale.
2. *Commits* (`SalesProofs`, first part). None of the invariants alone is inductive
   for `Sales`: a transaction writes what it computed on an old snapshot.
   `Evolves(s, c, docs)` relates a snapshot `s` to the current documents `c` and
   the documents written in between: what was not written is as it was, a sale
   that came or went wrote its product, a product that is gone stays gone, and
   so on. It holds for every operation and composes (`EvolvesOn`). If the
   documents a transaction writes are disjoint from those, the outcome it
   computed and the documents it wrote are those of its operation run on `c`
   (`MergeSell`, `MergeChange`, `MergeCancel`, `MergePurge`). One transaction
   may write nothing, a correction without a change: it merges into a stutter.
3. *Handlers* (its second part). `IInv` = `OK(db)`, every handler holds what its
   stage allows (`HandlerOK`), a consistent snapshot from which `db` evolves
   within `dirty[r]`, no two creations with the same sale id, and what was
   acknowledged is recorded. One lemma per action gives `IInv'`, and that `db`
   is unchanged or changed by one operation of the book; `SameOperators` says
   that the book's operators are the ones used here, which gives refinement.
4. *Alerts* (its third part). What is recorded for a crossing is a set, so an event
   recorded before would hide a new one: `Triggers` says that there is none, since
   the event of a sale names a sale that has no audit yet, and that of a correction
   a number no other request has and no event uses. With it, each operation records
   the alerts of its crossings (`WriteRecords`), a stock that does not go down
   crosses nothing (`NoCrossing`), and a commit is its operation on the current
   documents (second part), not on the stock it had read.
5. *Cost* (end of `SalesDocsProofs`). `CostOfSales` adds with `SumFunction`, a
   recursive function on sets. That its recursion has a solution (`SumExists`), of
   integers (`SumRecursion`), and what lies between two sums (`SumsDiffer`) are each
   shown on a smallest counterexample (`LeastOf`, `SmallestSet`) in place of an
   induction. A purge takes from the sum over the products the unit cost times the
   units sold (`PurgeStockCost`) and adds it to the sum over the sales
   (`PurgeSaleCost`); nothing else removes a product (`OnlyPurges`).
6. *Progress* (fourth part of `SalesProofs`). `RequestsAdvance` is what the safety
   part of `EveryRequestEnds` says for any number of handlers: each step of a handler
   lowers `StagesLeft`, the number of stages before it, but for a body that runs
   again, which has a document in `dirty[r]`; and `dirty[r]` grows only with a step
   that is a write (`Writers`, the formula of `EveryRequestEnds`). The second half
   needs `Evolves`: a commit without a conflict that leaves the documents as they are
   wrote none (`CommitWrites`).

### Files

Any files, sizes, products, logos, quotas and tasks, and any number of crashes,
under `StorageSizes` (finitely many keys, each file of at least one byte),
`StorageSentinels`, `StorageTasks` and `StorageTaskSentinel`. Every property of
`storage_core` and `storage_legacy`:

| Theorem | Statement |
|---|---|
| `Invariant` | `Spec => []Inv` |
| `TypeCorrect` | `Spec => []TypeOK` |
| `ReferencedFilesKept` | `Spec => []ReferencedFileKept` |
| `CounterKept` | `Spec => CounterFollows` |
| `EntriesKept` | `Spec => EntriesFollowReferences` |
| `QuotaKept` | `Spec => QuotaHeld` |
| `TasksAreSerial` | `Spec => Serializable` |
| `TasksDoNotLoop` | `Spec => TasksAdvance` |

1. *Operations.* Each operation of the book moves the entry of one file, with
   the counter (`Shift`, along the life of an entry: `Legal`), changes one
   reference (`Refer`) or recomputes the counter (`Recount`). Such a step keeps
   the counter's gap (`StepGap`; bytes are counted as a set of cells, as the units
   of the sales are) and misfiles no entry (`StepSound`).
2. *Commits.* `Evolves(s, c, docs)` relates a snapshot to the current documents
   and to what was written since. It says two things that conflicts on the
   documents alone do not: whoever refers to a file since then wrote its entry,
   and whoever made an entry for a file in use wrote the documents that refer to
   it. The second is what `lockReference` is for: without the lock the proof of
   `CommitExisting` fails where the run `storage_legacy` finds the mutant. From
   it, one lemma per transaction: what is committed is its operation on the
   current documents (`CommitReserve` ... `CommitRecount`), the test of the quota
   included, since the counter is a document that a reservation writes.
3. *Tasks.* `ReferencedFileKept` needs to know whose file may be deleted. `Known`
   is the set of files that somebody but the task uploading it may know. A file at
   "delete" is `Condemned`: no document refers to it and its entry is to be
   deleted or gone, which no step undoes because a reference is only written to an
   entry `uploaded`, and a key is drawn once. A file whose upload is under way is
   `Unattached`, so a late PUT or an `undo` harms no document; an entry is
   marked `uploaded` only by its own task, which has heard of the PUT, and while it
   is reserved nobody deletes its file, so that an uploaded entry has its file in
   the bucket. One lemma per action (`KeepBegin` ...
   `KeepCrash`) shows that the invariant is kept, and that the documents are
   unchanged or changed by one operation of the book (`Kept`).
4. *Progress.* `TasksAdvance`: each step of a task lowers, in this order, the
   recoveries an upload has left (`Tries`: a refusal for lack of room starts the one
   recovery, and its end allows the one second try), the entries its pass has to look
   at, or its stage (`StagesLeft`); a transaction runs again only for a document
   written since its snapshot. So `NothingLeaks` depends on passes that are started,
   not on one that loops.

### Dispatcher of notifications

Any events, devices, users and numbers of attempts and faults, and a finite set
of workers (the processes of a deployment), under `PushConstants` and
`PushSentinels`. Every property of `push_core`:

| Theorem | Statement |
|---|---|
| `PushIsTyped` | `Spec => []TypeOK` |
| `OutcomesStay` | `Spec => OutcomeStays` |
| `NothingUnjustified` | `Spec => NothingAfterRevocation` |
| `NobodyIsForgotten` | `Spec => []NobodyForgotten` |
| `NotificationsShownOnce` | `Spec => []ShownOnce` |
| `PassesEnd` | `Spec => PassesShorten` |
| `FaultlessRetriesEnd` | `Spec => []RetriesEnd` |

The invariants are laid one on another. `Typed` says also what a worker holds at
each stage. `History`: what was told stays told, and a worker that dispatches a
job knows no more than was done. `Rightful`: between `Verify` and `Send` what the
checks read was true when the delivery was claimed. `Told`: a job past a stage
has told every member, and has planned or lost each device that could get it.
`Budgeted` is the count that makes `ShownOnce` inductive: what was shown, plus the
workers that may still push, plus one if the delivery may be claimed, is at most
one more than the faults. It uses cardinalities of sets of workers, hence their
finiteness; a worker that starts to push takes the chance of the delivery, and
only a fault gives it back.

The last two are the safety part of `EverythingSettles`. `PassesShorten`: each step
of a worker lowers its stage (`StagesLeft`) or takes one element from its loop, and
nothing that happens beside it adds to its work. `RetriesEnd` (inductive with
`Typed`): until the first fault, a delivery in state `sending` is in the hands of one
worker that knows the number of the attempt, and one that waits has attempts left, so
that the refusal of the last attempt ends it. A suspended worker breaks this for a
while: its late answer can reopen a delivery whose last attempt is another's.

### Members

Any users, invitations, sockets and tasks, under `MemberSentinels`,
`WorkSentinel`, `MemberConstants` and `MembershipTasks`. Every property of `members_core`, and
that an owner is always there, which `KeepsRoster` implies:

| Theorem | Statement |
|---|---|
| `AlwaysTyped`, `MembersAreTyped` | `Spec => []Typed`, `Spec => []TypeOK` |
| `AlwaysSeen` | `Spec => []Seen` |
| `RosterIsKept` | `Spec => KeepsRoster` |
| `AlwaysOneOwner` | `Spec => []OneActiveOwner` |
| `SocketsShowRights` | `Spec => []SocketsFollowRights` |

`Seen`: the snapshot of an open transaction differs from the database only in the
documents written since. A commit writes none of these, so that what it read of
the documents it writes is still so, and its step is a step of `Roster` or one
that `Roster` does not see. An owner leaves by a transfer only, which writes both
owners; so one owner stays without the help of the unique index, which the proof
does not use. For the sockets: a change of a member or of a session is followed,
in the same task, by the step that closes, and a socket that is neither fresh nor
right is one of those it will close.

### Outbox

Any number of sales, tabs, attempts and faults, under `OutboxAssumption` and
`OutboxSentinels`. Every property of `outbox_core`, and for passes that
overlap too: the proofs do not need the constraints `OverlapOnOne` and
`OneUncounted` of the run.

| Theorem | Statement |
|---|---|
| `AlwaysTyped`, `OutboxIsTyped` | `Spec => []Typed`, `Spec => []TypeOK` |
| `ShownIsRecorded` | `Spec => []SyncedIsRecorded` |
| `AlwaysCareful` | `Spec => []Careful` |
| `SafeToCorrect` | `Spec => []CorrectionsAreSafe` |
| `FinalIsFinal` | `Spec => FinalStays` |
| `RecordedInOrder` | `Spec => SalesInOrder` |

Three relations carry the steps: `Change(o)`, what may become of one operation;
`Move(q)`, what a pass may do with what it holds; `Grows`, that sales and the
marks of history only come, and what a recorded sale comes from (`Recording`).
`Honest`: an answer `SYNCED` held by a pass or written in the outbox
is a sale that exists. `Careful` holds until two passes have run at once: one tab
sends (`Alone`), what it holds is as it is in the database (`InHandAsLeft`) and is
the first that waits (`InTurn`), as was the operation of a late request
(`LateInTurn`); an operation that a request has reached neither waits nor expires
with no attempt counted, unless it is `interrupted` or `resent`, and one that was
refused has no sale, unless it is `overtaken` (`Sure`); and the same of the
answer a pass holds and has not written yet (`Known`). That the head of the queue
exists is the least element of a set of numbers, from the library's theorems on
well-founded relations.

### Payments

Any numbers of payments, collections, users, terms, grants and requests, under
`PaymentConstants`, `PaymentTasks` and `PaymentSentinels`:

| Theorem | Statement |
|---|---|
| `AlwaysBase`, `PaymentsTyped` | `Spec => []Base`, `Spec => []TypeOK` |
| `AlwaysPeriodsApart` | `Spec => PeriodsApart` |
| `AlwaysReviewWaits` | `Spec => ReviewWaits` |
| `AlwaysPaidForPeriods` | `Spec => []PaidForPeriods` |
| `PaymentsKeepLedger` | `Spec => KeepsLedger` |
| `AlwaysAccess` | `Spec => []AccessCoversPeriods` |
| `AlwaysInformed` | `Spec => []Informed` |
| `AlwaysNoNoticeLost` | `Spec => NoNoticeLost` |

`Base`: periods have the numbers 1, 2, ... and follow each other (`Numbered`,
`Following`), an answer that a task holds is still so at the provider (`Told`:
what was collected does not change), and a snapshot differs from the documents
only in payments written since, with fewer periods (`Reads`). Nothing that a
grant reads is written by another grant; what makes two of them exclude each
other is the index on the sequence: who adds the next number to its snapshot
without a collision has read all the periods (`NextNumber`, a set of numbered
periods within another of the same size). `DocStep` says what a step may do to
the documents: open a payment, rewrite one, buy its period or grant one
(`Opens`, `Rewrites`, `Buys`, `Grants`), and one lemma per action shows that it is
one of these; the properties and the refinement follow from `DocStep` alone.
`ContinuousEnd` is recursive: its solution is given in closed form (`Ends`), and
a least counterexample shows that there is no other (`ReachIs`).

`NoNoticeLost` needs to know that a task which ends "done" for a notification
left its payment paid or in review, though it decided on what it read some steps
before. `Informed` says what of that stays so. A payment has one collection, made
by the task that reserved it (`OneLink`, `Alone`), and a reference is one
payment's (`RefsApart`). The task of a notification holds the reference of its own
payment, whose collection is paid (`Noticed`): so it applies "succeeded" and
buys the period, or asks for a review. A payment is sent to review only when no
answer to come can move it but one of a collection already shown as paid, as
refused by the amounts, or as taken by another payment (`Spent`, `InReview`): so
that an operator's decision is the only way out. Paid and review are left by no
step but an operator's that has news of it (`Ended`, absorbing in `Forth`), which a
transaction's snapshot inherits (`SnapEnded`). One lemma per action shows what its
task has learned (`Learns`).

### Only model-checked

- `EveryRequestEnds`, `NothingLeaks`, `EverythingSettles`: liveness under
  fairness is out of the prover's reach. What it rests on is proved
  (`RequestsDoNotLoop`, `TasksDoNotLoop`, `PassesEnd`, `FaultlessRetriesEnd`): each
  step leads nearer to an end; that the steps are taken, and that a variant with
  finite sets cannot decrease for ever, is left to the runs.
- The two that are violated.

## 6. Plan

In this order; each module with its runs, and proofs where named.

1. `SalesDocs`, `SalesBook`, `Sales` and proofs: **done**.
2. `StorageDocs`, `StorageBook`, `Storage`; `PaymentLedger`, `PaymentDocs`,
   `Payments`; `PushDispatch`; `OfflineOutbox`; `Roster`, `MemberDocs`,
   `Memberships`: **modelled and checked**.
3. `StorageProofs`, `PushProofs`, `MembersProofs`, `OutboxProofs`,
   `PaymentProofs`: **proved**.
4. Liveness of the outbox (a sale is sent in the end, under which faults).

### Not modelled

- **Sections, names, trash** (`sections.service.ts`): `Sales` draws freely
  whether the target section of a product is there. The code checks names and
  sections before it writes, without an index or a transaction; and the rule
  that a section holds either products or sub-sections is checked by creations
  only (a product that moves and a section that is restored are not), so that it
  is no invariant of the program even for one request at a time, and nothing is
  claimed of it.
- **Reads**: the overview and the reports read several collections without a
  snapshot; nothing they compute is stored. `CostOfSales` is the one that a
  deletion must preserve.
- **The application session of a browser** (`auth-context.tsx`, the loads of
  `app/app/layout.tsx`, the interceptors of `api.ts`): a token that the tabs share
  through `localStorage`, and answers that come after the session has changed.
  `OfflineOutbox` is the outbox of one user in one organization.
- **Limits and links that only refuse**: rate limits, cooldowns, verification of
  addresses, anti-bot.
- **Cryptography, formats and pages**: passwords, tokens, signatures, mails,
  PDF and XLSX, the components of `src/web`, the service worker's caches.
- **Plain collections**: objects, support, legal acceptance, users.
- **Migrations and deployment**: run on a stopped system.

## 7. Running

    tlasany Sales.tla
    tlc -workers 2 -config sales_core.cfg MCSales
    tlapm SalesProofs.tla

and `tlapm` likewise of `SalesBookProofs`, `SalesDocsProofs`, `StorageProofs`,
`PushProofs`, `MembersProofs`, `OutboxProofs` and `PaymentProofs`.
