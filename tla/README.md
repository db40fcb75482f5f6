# TLA+ models of the businessAI hub backend

This directory models the parts of the backend that hold protocol logic: the
money core (wallet ledger, payouts to banks, settlements of what a business has
earned, the payments customers make), the stock that sales, warehouses and
production all write, and the services around them (outbox, rewards, request
idempotency, outgoing webhooks, SMS and WhatsApp campaigns).  The modules are
TLA+ specifications that TLC checks on small instances, and for most of their
safety properties TLAPS proves a theorem that holds of every instance (section
5).  `PROJECT.json` maps every definition to the source lines it stands for and
lists components, runs, mutants, findings, hazards and theorems.

Running it (inside this directory):

    tlc -workers 2 -config MCStock.cfg MCStock.tla
    tlapm ServicesProofs.tla

## 1. Inventory of the system

The backend is one Node process (plus a worker with the same code) over
PostgreSQL, reached through Prisma.  Requests, gateway webhooks and timers run
on one event loop, interleaved at every `await`; several processes may run at
once.  A statement is atomic, `$transaction` makes several statements atomic at
READ COMMITTED (a plain read in it takes no lock), and everything else can be
cut off by a crash between two statements.  No state in memory matters: what
survives is the database, the queue, the gateway, the bank and the couriers.

### The money core (`src/src/application/payments`)

| component | state | operations | what makes it correct |
|---|---|---|---|
| Wallet ledger (`wallet-ledger.service.ts`) | `Wallet` balances by bucket, `WalletTransaction`, `WalletEntry` | `post`, `getOrCreate*`, statement | balanced, no overdraft, entries replay to the balance, a key books once, all legs or none |
| Payouts (`payout.service.ts`, `paystack-webhook.routes.ts`) | `Payout` rows, the bank's transfers | `withdraw`, `disburseSettlement`, `dispatch`, `markPaid`, `markFailed`, `reconcilePending`, transfer webhook | one transfer per request, ledger and bank agree, a failed payout is given back, none is stranded |
| Settlement engine (`settlement-engine.service.ts`, `payout-sweeps.ts`) | `Settlement` rows, merchant and payable wallets | `calculate`, `approve`, `cancel`, `execute`, due run, reserve release | nothing is both available and queued, two approvers where required, the reserve comes back |
| Payment intents (`payment-intent.service.ts`) | `PaymentIntent`, `PaymentTransaction` | `create`, `applyTransaction`, `cancel`, `expireOverdue` | a charge is booked once at its amount |
| Webhooks (`payment-webhook.service.ts`) | `InboundWebhookEvent` | `ingest`, `process`, `retryFailed` | an event is processed once or retried |
| Hosted checkout (`payment-public.service.ts`) | intent metadata (gateway session) | `initiatePublicPayment`, `verifyPublicPayment` | a session is tied to an amount |
| Reconciliation (`payment-reconciliation.service.ts`) | none | `reconcilePayments` | a charge nobody reported is found |
| Settlement fan-out (`payment-settlement.service.ts`) | order, invoice, accounting record | `settlePaymentIntent` | safe to repeat; releases an order only when it is paid |
| Vhicasar Pay (`vhicasar-pay.service.ts`) | pay sessions, wallet payments | `payLinkWithWallet`, `createSettlement`, top-up, transfer, refund | a retried payment books once |
| Wallet buckets (`wallet-buckets.service.ts`) | locks, promotional balances | `planPayment`, expiry | restricted money is spent first and where allowed |

A checkout opens a gateway session for an intent.  The webhook, the browser, the
sweep and the wallet each report the payment to `applyTransaction`, then run
`settlePaymentIntent`, which updates the order.  What a business earns
accumulates in its MERCHANT wallet.  `calculate` moves it to SETTLEMENT_PAYABLE
and writes a Settlement, `execute` hands that to `disburseSettlement`, which
debits the ledger and calls `dispatch`; the bank's answer comes back
synchronously, by webhook or by the reconciliation sweep.  Customers withdraw
through the same `dispatch`.  All of these move balances only through
`walletLedger.post`.

### Stock (`src/src/application`)

All of these write the same `StockLevel` rows (`quantity`, `reserved`), each in
its own way: guarded UPDATE, read-then-write of an absolute value, blind
increment, compare-and-swap.

| component | state | operations | what makes it correct |
|---|---|---|---|
| Inventory (`inventory/inventory.service.ts`) | `StockLevel` | `adjustStock`, `createTransfer` | rows are what the movements add up to |
| Orders (`orders/orders.service.ts`, `marketing/promotions.service.ts`) | `Order`, payments, coupon use | `create`, `transition`, `refund`, `recordPayment` | a claim is owned by one order still open, an order ships or is released once, PAID means paid |
| Delivery (`delivery/delivery.service.ts`) | `Shipment`, its events | `dispatchOrder`, `setShipmentStatus`, courier callback | callbacks move an order forward only, in any order |
| Requisitions (`inventory/requisitions.service.ts`) | requisition lines, `StockTransfer` | submit, approve, reject, cancel, dispatch, receive | lines match what left and what landed; nothing stays on the road |
| Purchasing (`purchasing/purchase-orders.service.ts`) | lines, `PurchaseOrderReceipt` | place, cancel, receive | a pallet is booked once |
| Production quality (`manufacturing/production-output`, `quarantine`, `quality-control`) | batches, quarantine records | record output, inspect, hold, release, decide | a batch's hold is its own |
| Production materials (`material-requisitions`, `material-consumption`, `production-orders`) | run, requisition, issue and return notes | direct issue, issue notes, receipt, consumption, returns | issued units left the store, nothing is used that was not issued |
| Finished goods (`finished-goods-receipts.service.ts`) | receipt, tasks, deliveries | allocate, receive | tasks match the shelves, never more than allocated |

### Services

| component | state | operations | what makes it correct |
|---|---|---|---|
| Domain events (`events/event-dispatcher.ts`, `shared/event-bus.ts`) | `DomainEvent` outbox | `emitEvent`, overlapping drains, delivery | PUBLISHED means delivered, FAILED means tried out, every event ends in one of them |
| Rewards (`rewards/rewards.service.ts`) | points balance and ledger | earn, redeem, expire | the balance is explained by the ledger, points lost are value received |
| Request idempotency (`middleware/idempotency.ts`) | `IdempotencyKey` rows | claim, replay, store | an operation runs once per key and has one answer |
| Outgoing webhooks (`api-keys/webhook*.ts`) | `WebhookDelivery`, endpoint | dispatch, attempt, retry sweep, replay | nothing is dropped or given up early |
| SMS (`messaging/campaign*.ts`, `sms/*`, `billing/sms-wallet.service.ts`) | campaigns, credit, sender ids | send, scheduler, reserve, settle, purchase | a business pays for what was accepted, a scheduled campaign is sent |
| WhatsApp (`messaging/whatsapp-campaign.service.ts`) | campaign, recipients | launch, passes, park, resume, cancel | nobody is messaged twice, a campaign finishes |

A completed payment emits an event in the outbox; a drain hands it to the
rewards handler, which mints points; redeemed points are credited by the wallet
ledger.  Campaigns run in the request, in the scheduler or in the queue's worker.

### The rest

Point of sale, invoices, billing and plans, Vhicasar Pay's sessions and
refunds, appointments and sign-in hold protocol logic too and are in the plan
below.  Catalog, CRM, customers, sites, real estate, employees, roles, settings
and similar components are reads and single-row writes.  AI, inbox, marketing,
maps, documents, data transfer and the infrastructure adapters are provider and
file I/O.  `PROJECT.json` lists all of them with the reason each is or is not
modelled.

### What is hard

* **Interleaving at awaits.** Nearly every operation reads, checks, and writes
  in a later statement.  Only guarded `updateMany`s, unique indexes, the row
  lock of `applyTransaction`, the compare-and-swap of `applyMovement` and the
  advisory lock of the finished-goods receipts protect themselves.
* **Retries.** Clients, webhooks, sweeps, drains and the queue repeat what may
  already have happened; idempotency keys and unique columns must absorb it.
* **Lost answers.** A gateway call that throws may have taken effect.
* **Crashes** between a posting and the row that records it.
* **Waiting.** Postings lock wallet rows in the order of their legs.
* **One counter, many owners.** Orders, holds and releases share `reserved`.
* **Liveness.** Payouts, charges, reserves, events and campaigns depend on
  sweeps that must select the right rows and ask the right question.

## 2. The modules

### `WalletLedger` — `walletLedger.post`, statement by statement

| code | model |
|---|---|
| `Wallet` row, its buckets and `WalletEntry` rows | `row[w][b]`: newest version, a balance and its trail of entries; `committed[w][b]`: what other sessions read |
| PostgreSQL row locks | `lock[w]`, the call that holds the row |
| committed `WalletTransaction` rows | `posted`, the calls that committed; `req[c]` their input |
| program counter and local variables of `post` | `pc`, `leg`, `answer` |
| validation; duplicate lookup | `Post`; `Lookup` |
| `walletTransaction.create`, unique `idempotencyKey` | `InsertTransaction`: waits for an open transaction with the key, P2002 if one committed |
| one turn of the leg loop | `ApplyLeg` (credit, unguarded debit of suspense wallets, guarded debit), `RefuseLeg` |
| commit, P2002 handling, rollback | `Commit`, `ReturnWinner`, `Abort`/`Rollback` |

An open transaction may be rolled back at any time: Prisma bounds interactive
transactions and PostgreSQL kills deadlock victims.  The answer of a commit may
be lost too.

`AtomicLedger` is the abstract specification: whole postings, one step each, at
most once per key, never an overdraft; what a posting does to a bucket is the
sum of its legs (`Net`).  `WalletLedger!Atomic` instantiates it with committed
balances and committed requests, and `PostsAtomically` says that `WalletLedger`
implements it.  This licenses the one-step postings of the other modules.

### `Payouts` — withdrawals, dispatch, webhook, sweep

State: `funds` (the balances the component moves), `booked` (keys of the ledger
transactions), `payout` (rows, named by the request or settlement that created
them, so that two rows never share a name), `bank` and `sent` (the gateway),
`settled` (settlement status), `asked`, and `job`: each running execution with
the statement it is at and what it has read.  Actions follow the awaits of the
code: `Withdraw`, `DebitUser`, `CreatePayout`, `Send`, `Record` (the
unconditional update in `dispatch`), `MarkPaid`, `MarkFailed`, `Reverse`,
`PaySettlement`, `FailSettlement`, `TransferEvent` (webhook), `Reconcile` and
`Verify` (sweep), `BankResolves`, `Crash` (ends every job).  `GatewayAnswers`
says which outcomes of `initiateTransfer` a run includes: accepted, paid or
declined in the answer, refused with an error, or an exception after the bank
took the transfer.

### `Settlements` — extends `Payouts`

Adds the other columns of Settlement rows (`sheet`), who approved (`approvals`,
history) and the actions of the engine: `Calculate`/`MoveToPayable`/
`CreateSettlement`, `Approve`/`WriteApproval`, `Cancel`/`MoveBack`/
`WriteCancelled`, `Execute`/`DebitPayable`/`WriteOutcome`, the manual
`PayoutSettlement`/`MarkProcessing`, and the reserve sweep `ReleaseReserve`/
`MoveReserve`/`ClearReserve`.  A payout created for a settlement runs through
the actions of `Payouts`.  Risk scoring, destinations and rules are
nondeterministic verdicts or constants.  `WatchedSpec` is `Spec` watched by a
history variable: `clean` holds until a crash, a transfer declined in its
answer or an answer lost after the bank took the transfer, and the properties
about refunds and the customer's balance speak of the states before that.

`Disbursements` is the abstract specification of paying out: a debit, a transfer
of it, the bank's decision and a refund, each in one step.  A transfer needs a
debit that no transfer was made of and nothing given back of; a decision is
final; a refund needs a debit, is made once, comes after the last transfer and,
while `clean`, never concerns a transfer the bank has or has paid.
`Settlements!Promised` instantiates it with the booked keys and the bank, and
`DisbursesAsPromised` says that requests, retries, webhooks, sweeps, the engine
and crashes together implement it.

### `PaymentIntents` — intents, sessions, four ways to recognise a payment

State: `intent` rows, `charge` (the gateway's sessions and charges), `wallet`
(the ledger transaction `payintent:<id>`), `booked` (PaymentTransaction rows),
`event` (webhook events), `order`, `fannedOut` and `job`.  `applyTransaction`
locks the intent row first and is one step (`Apply`); everything else is a step
per await: raising an intent, the checkout with its two whole-metadata writes
and the unconditional PROCESSING, `Deliver`/`FindIntent`/`MarkProcessed` and
`RetryEvent`, `BrowserReturns`, `Sweep`, `PayWithWallet`/`PostToLedger`,
`ReadOrder`/`WriteOrder`/`ReleaseOrder`/`FanOut`, `Cancel`/`WriteCancelled`,
`FallDue`, `ExpireOverdue`, `Crash`.  Session 1 of an intent carries its
reference, later ones the suffixed reference the webhook does not know.

### `Stock` and the documents over it

`Stock` holds the `StockLevel` rows (`level`), the running handlers (`job`) and
the two operations that write rows by hand.  A handler reads what it checks and
writes in a later transaction; the rows a transaction writes stay locked until
it commits, so its writes are one step, and the unlocked reads before it are a
step of their own kept in the job (`saw`).  A Prisma upsert with `update: {}`
changes nothing and is such an unlocked read.  Any handler may fail or die
before its commit (`Abandon`).  Three history variables name what the code
leaves open, so that the properties can say exactly when they hold: `lost` (rows
overwritten with a value computed from an older reading), `raced` (rows changed
on the strength of a check that was out of date by then) and `overtaken`
(documents written from an out-of-date reading).

| module | extends | code |
|---|---|---|
| `Orders` | `Stock` | `create` with coupon and guarded claim, `transition`, `refund`, `recordPayment` |
| `Couriers` | `Orders` | `dispatchOrder`, `setShipmentStatus`, callbacks (`handleWebhook`) statement by statement, `projectOntoOrder` |
| `Requisitions` | `Stock` | submit, approve, reject, cancel; keyed loads and receipts |
| `Purchasing` | `Stock` | place, cancel; keyed deliveries |
| `Quarantine` | `Stock` | batches booked in, inspected, held, released, reworked, written off; `applyMovement`'s compare-and-swap |
| `Materials` | `Quarantine` | run, requisition, issue and return notes, direct issue, consumption, returns |
| `FinishedGoods` | `Quarantine` | allocation to warehouses, keyed receipts under the advisory lock |
| `Warehouse` | all of them | every desk of one business open at once over the same rows |

`Warehouse` is the composition: each desk's step leaves the other desks'
documents alone and writes the shared rows (`WarehouseSpec`), and a handler that
dies may have been at any desk.  It also states what relates the rows to the
documents of all desks: `OnHandIsExplained`, `ReservedIsSpokenFor` and
`NeverOversold`, which hold while nobody has overtaken anybody on one order,
batch or run (`InTurn`).

### The services

| module | state | actions |
|---|---|---|
| `Outbox` | `outbox` rows, `drain` (snapshot, row in hand), history `accepted`, `tries` | `EmitEvent`, `TakeBatch`, `Deliver`, `HandlersReturn`, `RecordPublished`, `RecordFailure`, `RecordThrows`, `OutboxCrash` |
| `Rewards` | `balance`, `ledger`, `till` (one operation each), history `unposted`, `astray` | `Earn`/`LookForEntry`/`Mint`/`WriteEarned`, `Redeem`/`Burn`/`CreditWallet`/`CreditRefused`, `ExpireStale`/`ClaimEntry`/`MeasureExpiry`, `StatementThrows`, `RewardsCrash` |
| `Idempotency` | the key's row, the requests | `Claim`, `Replay`, `Respond`, `StoreAnswer`, `StoreFails`, `Restart` |
| `Webhooks` | `delivery` rows, `endpoint`, `courier` (attempts and sweeps) | `NewDelivery`, `RetryDue`, `LoadDelivery` … `RecordAttempt`, `AttemptThrows`, `ToggleEndpoint`, `WebhookCrash` |
| `SmsCampaigns` | `campaign`, `credit`, `jobs`, `send`, history `late`, `refused`, `unpaid`, `kept` | `StartSend`, `Quote`, `MarkSending`, `HandToQueue`/`HandToSelf`, `Reserve`, `RecordMessages`, `CallProvider`, `SettleReservation`, `ReservationStays`, `SweepScheduled`, `GraceEnds`, `VerifyPurchase` |
| `WhatsAppCampaigns` | campaign status, recipient rows, `pass` | `Launch`, `StartPass`, `Dispatch`, `LoadPending`, `SendTemplate`, `RecordSent`/`RecordRefusal`, `Settle`, `Park`, `Resume`, `CancelCampaign`, `RestoreParked` |

### Model-checking modules

`MCWalletLedger`, `MCPayouts`, `MCSettlements`, `MCPaymentIntents`, `MCStock`
and `MCServices` give the constants values, define symmetry and the properties
that add up over several documents.  The last four compose: one behaviour
chooses its scene (`scene`), its open desks (`open`) or its service (`part`) in
the initial state, and the run explores all of them, so that each combination
that shares rows is explored without the product of all.  `MCServices` composes
the outbox with the rewards handler: `Earn` runs inside the drain's delivery,
and a crash ends both.

Each definition marked "mistake" is a mutated version of the next one of
similar name, and no specification uses it: a property counts only if replacing
the definition by its mistake violates it.

### Proof modules

`WalletLedgerProofs`, `PayoutsProofs`, `SettlementsProofs`, `IntentsProofs`,
`DesksProofs` (each desk of the warehouse), `StockProofs` (the shelves they
share) and `ServicesProofs`, over the shared lemmas of `FiniteSums`.

## 3. Runs

| run | configuration | checks |
|---|---|---|
| `ledger_safe` | 3 calls out of 10 postings, 6 wallets, 2 keys | `TypeOK`, `NoOverdraft`, `LockStep`, `KeyBookedOnce`, `SameKeySameAnswer`, `Conserved`, `EveryCallAnswers`, `PostsAtomically` |
| `settle_safe` | three scenes: 3 withdrawals of which two share a key; 2 settlements by both routes; 1 settlement under dual approval with a cancellation; every gateway answer, a crash | `DisbursesAsPromised`, `BooksMatchBank`, `RefundedWasNotPaid`, `FailedWasReversed`, `MoveIsRecorded`, `OneTransferPerKey`, `NoDoubleCount`, `TwoApprovers`, `ReferencedPayoutResolves`, `ReserveReturned` |
| `intents_safe` | three scenes: 1 intent with wallet and card; 1 intent over 2 sessions; 2 intents for part of an order each, with expiry and a crash | `ChargesBookOnce`, `NothingUnpaidIsReleased`, `ChargesAreBooked` |
| `stock_safe` | 2 handlers over 2 rows; nine sets of open desks; two rival orders where the order desk works alone | `OnHandIsExplained`, `ReservedIsSpokenFor`, `NeverOversold`, `PaidInFull`, `CouriersHeard`, `MaterialsBalance`, `GoodsArriveOnce`, `LinesMatchLoads`, `ClosedMeansArrived`, `PalletsBookedOnce` |
| `services_safe` | seven parts: events, points, counters, requests, webhooks, SMS, WhatsApp | `OutcomeEarned`, `PointsExplained`, `OnceOnly`, `Recoverable`, `CreditsExplained`, `ReachedOnce`, `EventsSettle`, `ScheduledIsSent`, `CampaignFinishes` |
| `payouts_declined` | a transfer declined in the answer | `FailedIsReversed` is **violated** |
| `payouts_keyed` | a withdrawal with a client key, no webhook | `EveryPayoutResolves` is **violated** |
| `settle_cancel` | up to 2 cancellations of one settlement (`MaxCancels = 2`) | `NeverDoubleCounted` is **violated** |
| `intents_wallet` | overlapping wallet payments | `BookedWasTaken` is **violated** |
| `stock_quarantine` | a batch and a sales order in one row | `NoReserveEaten` is **violated** |
| `stock_couriers` | an order and its courier | `DispatchedLeftTheShelf` is **violated** |
| `services_points` | two drains and the rewards handler | `EarnedOnce` is **violated** |

### Bounds, and why they are enough

* *Ledger*: amounts 1 and 2 against a balance of 2, so that any two debits
  conflict and a pair can overdraw; two keys, so that requests share a key,
  differ in it, or have none; a frozen wallet, a foreign-currency wallet and an
  id without a row, one for each refusal.  Three calls allow a committed, an
  open and a waiting transaction at once.
* *Money leaving the platform*: a balance that affords one of two debits, and
  the other once the first was refunded; a merchant wallet that affords one
  settlement's worth of overlapping ones, so that calculations compete for it.
  Two jobs at a time: a request beside its retry, its webhook or its sweep.
  `MaxCrashes = 1`: a crash ends all jobs, and the next one starts from a state
  of the same kind.  Two payouts in flight at once are the settlements' part.
  The scenes of `MCSettlements` keep cancellations, crashes and withdrawals
  apart where no property relates them.
* *Intents*: an order of 2, so that half and whole are distinct; two sessions,
  because the second is the first that the webhook does not know; `MaxTries`
  stands for the ten attempts of `retryFailed`.  Each scene of
  `MCPaymentIntents` names what it leaves to the others.
* *Stock*: 2 units, so that one order, load, delivery or batch takes all of a
  row or half of it; 2 handlers, because each hazard is between a reading and
  somebody else's write; one adjustment or transfer by hand (`MaxEdits`); 2
  keys where a retry and a second delivery must differ; 2 reports of one
  shipment, so that the later may arrive first.  A run has one material in one
  store and one issue note and one return note (`MaxNotes = 1`): a second note
  of one requisition is not covered.  Two orders of 2 units compete for one row
  of 2 where the order desk works alone; an order also meets couriers,
  adjustments, and batches held in its row.  `Simple` drops steps that only
  lengthen behaviours: READY and PAUSED of a run, a hold of less than is left of
  a batch, beside the order desk a decision on part of a record, where nobody
  adjusts by hand the coupon, payments, PROCESSING and COMPLETED of an order,
  and where couriers work its picking and packing by hand; the theorems have
  them all.  `MCNext` ends a behaviour where two
  requests have overlapped on one order, run or batch (`InTurn`), or where a
  release has eaten a foreign reserve: the code goes wrong there, as the
  findings and section 4 say.
* *Services*: two attempts stand for the code's five (outbox), six (webhooks)
  and three (WhatsApp recipients): the first may be retried, the second is the
  last.  Two drains, couriers, senders or passes are what an overlap needs; two
  events, deliveries or recipients, so that one can wait behind another.  Faults
  are bounded by `MaxFaults`, `MaxBreaks`, `MaxRestarts`, `MaxMishaps`,
  `MaxStops`, `MaxExits`, one each.  `Undemanding` allows a WhatsApp campaign
  one resume or one refused dispatch, or two turns of the platform switch.
  A behaviour of "webhooks" has a crash, a throwing statement or an endpoint
  switched off, and not two of them.  In "points" two drains overlap, beside an
  expiry; in "counters" one drain works beside two counters, one of which asks
  for all the points of a payment while the other redeems or expires, so that
  they compete for one balance.  The theorems have none of these limits.

Deadlock checking is off where the system may stop with nothing left to do; in
the ledger it is on, and the finished state has a stuttering step of its own.

### Fairness, and why the code justifies it

* Weak fairness of a job's own steps everywhere: the event loop runs every
  continuation whose await settles, and the database, gateway and providers
  answer or time out.
* Ledger: weak fairness of every call's steps, including `Abort`, which
  PostgreSQL's deadlock detector and Prisma's transaction timeout guarantee.
* `BankResolves`: a transfer the bank took is paid or failed in the end.
* Sweeps (`Reconcile`, `ReleaseReserve`, `Sweep`, the SMS scheduler) and the
  queue's worker: strong fairness, because they run on timers (`worker.ts`,
  `main.ts`) or a queue and come round to a row for as long as it qualifies,
  but need a free job to do so.  `Reconcile` is asked of rows whose key the
  gateway knows; the others are finding 2.
* Outbox: weak fairness of each drain with its timer and handlers.
* Nothing is asked of clients, browsers, customers, staff, couriers or
  webhooks: the liveness properties are exactly the claims that the sweeps make
  up for them.

## 4. What the checks show

The ledger does what it promises under every interleaving, rollback and lost
answer of the instance, and implements atomic posting.  Payouts send at most
one transfer per key even with crashes and lost answers; without crashes, lost
answers and declines the customer's balance matches the bank whenever the system
is at rest; and whatever happens, money is debited, sent and given back in the
order `Disbursements` promises.  Settlements never count money twice while
nobody cancels.  Charges are booked once, in full, and
found without webhooks.  Stock rows are explained by the documents and never
oversold, except where a history variable says that a row was overwritten or a
check was out of date.  What a key protects differs.  A keyed load of a
requisition, a keyed delivery and a keyed direct issue have a unique index and
are booked once, whatever overlaps.  A keyed receipt of a requisition and a
keyed handover of a material note have none: their retries are booked once when
they follow one another, and two copies that both looked before either wrote
are both booked; a handover is also booked again when another key came in
between, because only the last key is compared.  The properties name exactly
these cases (`twice`, `again`).  Events, webhooks and campaigns end where the
comments say, and points, SMS credit and idempotent answers are accounted for,
up to amounts that are counted (`unposted`, `astray`, `unpaid`, `kept`; below).

Seven places where the code departs from its own comments or tests are kept as
runs that must fail (`findings` in `PROJECT.json`):

1. `dispatch` writes FAILED before it calls `markFailed`, whose guard then finds
   nothing to do: a transfer declined in the gateway's answer is never reversed
   (`payouts_declined`).
2. `reconcilePending` verifies under the row's idempotency key, but the gateway
   knows the random reference; they differ for every withdrawal with a client
   key and for every settlement (`payouts_keyed`).
3. `cancel` of a settlement accepts every status but PAID and credits without
   a key, so a second cancellation of one settlement credits the gross amount
   again; the trace of `settle_cancel` is two cancellations, both posted.  A
   single one that overlaps the payout has the same effect.
4. `payLinkWithWallet` books the outstanding amount it read, not the amount of
   the ledger transaction its key returned (`intents_wallet`).  What follows
   from it: with a wallet, an order can be released for money nobody paid, when
   an intent asks for part of an order and two wallet payments of it overlap
   (`Total = 3`, `Asks = {2}`, two jobs); `intents_safe` gives its wallet scene
   an intent for the whole order, and the theorem about releases is stated for
   payments through the gateway.
5. `releaseBatch` bounds what it gives back by the row's whole `reserved`, not
   by what its batch holds, and so releases a sales order's claim
   (`stock_quarantine`).
6. `projectOntoOrder` moves an order to DISPATCHED and beyond without the stock
   effects of `transition`; the units stay on hand and reserved
   (`stock_couriers`).
7. Two drains deliver one event at once and `earnForPayment` mints its points
   twice (`services_points`).

Behaviour the passing runs leave out or exempt, because the code does not keep
the property there:

* payouts: lost answers in `RefundedWasNotPaid` (the catch refunds a transfer the
  bank may pay); a crash between the update to FAILED and the reversal; the
  plain settlement route under dual approval; a zero-day reserve window; crashes
  between the posting and the Settlement row; a bank reversal after a paid
  transfer.
* intents: second and later gateway sessions in `ChargesAreBooked` (only the
  browser's return books them).
* stock: a row `adjustStock` or a purchase delivery overwrote from an old
  reading (`lost`, `raced`); two transitions of one order, or decisions of one
  batch, that both read before either wrote (`InTurn`); overlapping requests on
  one requisition or run (`overtaken`), two copies of one keyed receipt or
  handover included; the key of a handover once another key came after it; a
  return note that gave back more than was left by then, in the bound on
  consumption; an allocation that overlaps a delivery.  Two payments of one
  order that overlap may exceed its total, and `PaidInFull` does not object.
  Units of an order refunded before its dispatch, or reported on its way by a
  courier without one, stay reserved for nobody: `ReservedIsSpokenFor` lists
  them apart (`Stranded`) from the claims of orders that may still be dispatched
  or cancelled, and says that nothing else strands any.  With
  `OverReceive = TRUE`, as in the run, the bound in `PalletsBookedOnce` on what a
  purchase order takes says nothing; the theorem covers both policies.
* services: what a failing statement, an exit or a shared key leaves behind is
  counted, and the properties bound the counts.  Points: `unposted`, where an
  operation ended between the halves of a posting; `astray`, where it ended
  between burn and credit, where the catch of `redeem` handed points back
  although the wallet had the credit (a statement after the credit threw), and
  where two redemptions of a customer fell in one millisecond and share a ledger
  key.  SMS: `unpaid`, messages the provider took and whose credit was given
  back, because its answer was lost (a gateway error after acceptance counts as
  rejected) or could not be recorded; `kept`, credit of a send cut off between
  its reservation and its settlement, by an exit or by a statement outside the
  try (`smsMessage.createMany`, the settlement, the refund in the catch).
  Exempt are: an idempotency key left IN_PROGRESS by a crash (every retry is
  answered 409); a webhook row whose first attempt was cut off, by an exit or by
  a statement that threw, which no sweep selects; a scheduled campaign more than
  six hours late, which the sweep leaves to staff (`late`); one refused, or cut
  off, after SENDING was written, which stays SENDING; two passes of one
  WhatsApp campaign at a time, which message people twice (two ticks of the
  sweep may hold one list and start them); a crash before an accepted message
  is recorded.
* sweeps: one pass of `reconcilePending` takes 50 rows and one pass of the
  payment sweep the 100 oldest intents.  The models bound neither, so the
  liveness properties speak of rows that come within a pass in the end.

## 5. What is proved

Every theorem has the form `Spec => []Property`, with the specification and the
property of the model and no assumption but the named ones of its modules (which
TLC evaluates in the runs), unless a row says otherwise.

### Sums (`FiniteSums`)

Balances, counts and stock are sums over finite sets (`SumFunction`), and
libraries prove facts about them by induction on an operator, which this prover
cannot instantiate.  `FiniteSums` proves them from the well-foundedness of `<`
instead: a set of naturals that is not empty has a least element
(`LeastNatural`), so a statement about every finite set holds when it has no
smallest counterexample.  From that come: a sum does not depend on the order of
its elements, and what it becomes when one element is added, removed or changed
(`SumAdd`, `SumRemove`, `SumChange`), when two sums are added, when sets are
joined or renamed, when all terms are zero, equal or not negative, and when
those that are zero are left out.

### The ledger (`WalletLedgerProofs`)

For every set of wallets, buckets, calls, keys and requests that satisfies
`LedgerAssumption` (opening balances are not negative outside suspense wallets,
requests have the type of `PostingInput`):

| theorem | statement |
|---|---|
| `TypeCorrect` | `Spec => []TypeOK` |
| `NeverOverdrawn` | `Spec => []NoOverdraft` |
| `BalanceIsRunningTotal` | `Spec => []LockStep` |
| `KeyBooksOnce` | `Spec => []KeyBookedOnce` |
| `SameKeyHearsTheSame` | `Spec => []SameKeySameAnswer` |
| `MoneyIsConserved` | `Spec => []Conserved` |
| `PostingIsAtomic` | `Spec => PostsAtomically` |

None of the invariants is inductive.  They speak of committed state, and a
commit publishes rows that an open transaction wrote; so `Inv` says the same of
the newest row versions (`RowsSolvent`, `RowsInStep`), ties those to the locks
(`LocksOK`: an unlocked row has a single version, a locked one belongs to an
open transaction), extends key uniqueness to open transactions
(`KeyInsertedOnce`), and remembers that a running call passed validation
(`CallsOK`: amounts are positive).  `InitInv` and `NextInv` show it inductive,
with one lemma per kind of step; `RunsOn` shows that an entry appended with the
new balance keeps a trail in step with it.

`SameKeySameAnswer` needs that an answer is only given for a committed
transaction of the caller's key, which a look-up, a commit and a lost race each
establish differently.  The refinement adds one fact about open transactions: a
row its caller has locked holds the committed balance plus the legs applied so
far.  `AtomicLedger` adds legs with the recursive function `Net`, so at the
commit the row is the committed balance plus the net of all legs, which is
`AtomicLedger`'s posting.  That `Net` of a longer prefix is `Net` of the shorter
one plus one leg, and that legs elsewhere leave a bucket alone, is shown by a
least counterexample.  `MoneyIsConserved` follows from the refinement: a posting
whose legs balance adds nothing to the sum over all buckets.

### Payouts (`PayoutsProofs`)

For every set of requests, settlements and jobs, every gateway answer and every
number of crashes that `PayoutAssumption` allows (a client's key is not the
name of a request, amounts are positive):

| theorem | statement |
|---|---|
| `PayoutsTypeCorrect` | `PayoutSpec => []PayoutTypeOK` |
| `OneTransferPerKeyAlways` | `PayoutSpec => []OneTransferPerKey` |

`OneTransferPerKey` is not inductive either: between the ledger debit and the
call to the bank nothing in it says who may still call.  What stops a second
transfer is the unique key of the row, so `Safe` adds that rows have unique keys
(`RowsUnique`) and booked debits (`RowsDebited`), that a job about to send owns
a row nothing has been sent for (`JobsOK`), that no two such jobs share a row
(`OneSender`), and that what was sent has a row (`SentOnce`).  Every action but
`CreatePayout` and `Send` is quiet — it creates no row, sends nothing and moves
jobs only where `Safe` asks little of them — and `QuietStep` settles all of
those at once.  The conclusion needs `SameDebitSameRow`: requests that would
share a ledger debit would share a row key.  A crash needs no argument of its
own: it only sends jobs to idle, and the row stays behind to stop a retry.

### Settlements (`SettlementsProofs`)

For every set of settlements, staff and overlapping jobs, with and without the
engine's fees, reserves and dual-approval rules:

| theorem | statement |
|---|---|
| `EngineTypeCorrect` | `Spec => []PayoutTypeOK` |
| `EngineSendsOnce` | `Spec => []OneTransferPerKey` |
| `EngineTwoApprovers` | `Spec => [](NoBypass => TwoApprovers)` |
| `EngineCountsOnce` | `Spec => []NoDoubleCount` |
| `EngineRecordsMoves` | `Spec => []MoveIsRecorded` |
| `RefundsAreOfUnpaid` | `WatchedSpec => []RefundedWasNotPaid` |
| `FailuresAreReversed` | `WatchedSpec => []FailedWasReversed` |
| `BooksBalanceAtRest` | `WatchedSpec => [](OneAmountPerKey => BooksMatchBank)` |
| `PayoutsDisburseAsPromised` | `WatchedSpec => DisbursesAsPromised` |

The sets are finite (`SettlementsAreFinite`), because balances are explained by
sums over them.  Here `Spec` is the composition of the engine with the payouts.  The engine never
touches a row or the bank, so `LedgerMoves` shows its steps quiet and the
argument of `PayoutsProofs` carries over; only the manual payout moves a job
from one sending step to the next (`MarkProcessing`).  `TwoApprovers` needs
more than its own words: a job that read PENDING long ago may still release the
settlement after a cancellation or a second calculation.  `Approved` therefore
says it of every settlement that is released or has a payout row
(`ReleasedOK`), of whatever any job past the desk is working on (`WorkOK`), and
of an approver about to write that it is not the one it read and that the one it
read did approve (`ApproversOK`).  Approvals are only ever added, so no step can
undo it.  `NoBypass` (`PlainRoute => DualApproval = {}`) is a real condition:
`createSettlement` of the pay routes looks at no rule, and a settlement it makes
is PENDING at once; the run `settle_safe` uses that route only for a settlement
outside the rule.

*The account of the business.*  `NoDoubleCount` and `MoveIsRecorded` speak of
the wallet and of rows, and a calculation debits the one before it writes the
other.  `MerchantAccount` closes the gap: the merchant wallet, what each
settlement keeps (`Kept`: its gross amount less a reserve given back) and what
each calculation has taken and not yet written (`Transit`) add up to what the
business earned — exactly while no job was killed, at most that after a crash,
and without any claim once a cancellation was asked for, which credits again
every time (finding 3).  Behind it stand the deals: a settlement without a row
is one that nobody but its own calculation knows (`Fresh`), so a row is written
once; a payout of a settlement is for the net amount of its sheet, which an
execution has read and nobody changes (`SheetOK`, `DealOK`); and where something
is held back, net and reserve are within the gross amount (`Holds`).  The
release key stops a second release, so `Kept` loses the reserve once.  What the
bank has been told to pay is then a part of what the settlements keep.

*The account of the customer.*  `UserAccount` says the wallet is the opening
balance less the prices of the booked debit keys plus the amounts of the booked
reversals.  That a key has a price is the hypothesis `OneAmountPerKey`: every
request that carries one client key asks for the same amount.  It is a
condition on the clients, because `withdraw` never compares a repeated key's
amount with that of the first request (`payout.service.ts:239`, `:256`); two
requests with one key and different amounts that overlap can leave a row for
one amount and a debit of the other.  What ties the keys to the bank is kept in
three parts.  `Answers`, always: a transfer the bank has was sent, a row that
says PAID and a job about to say so have the bank's word, a row is for the
amount of its request.  `Backed`, always: a reversal is of a row that is there.
`Honest`, while `clean`: what is reversed, or about to be, the bank refused, and
nobody is left to send it (`Refused` — this is what the one sender of
`PayoutsProofs` is for); what says FAILED is reversed or a job is about to
(`FailedOK`); a debit has its row or a job about to create it (`DebitsOK`).  At
rest the withdrawals with a row are therefore the paid and the refunded ones,
no withdrawal is both, and their keys are the debits, one each (`RowsAtRest`);
the sums over keys and over withdrawals are then the same sum, renamed.

*The refinement.*  A step of the system is one step of `Disbursements` or none:
`DebitUser` and `DebitPayable` are `Debit`, `Send` is `Transfer` unless the call
was refused, `BankResolves` is `Decide`, `Reverse` is `GiveBack`, and a repeated
key, a reserve release and everything else change nothing there.  That a
transfer is of a standing debit nobody used is `Safe` of `PayoutsProofs`; that
nothing was given back of it is `RefundsLast`, the invariant this proof adds.
Troubled or not, what was given back, and what a job is about to fail or give
back, has a row and nobody left to send it: rows are created once, the one
sender of a row reports a failure itself, and anybody else learns of it from the
bank, which then has the transfer.  `RefundedWasNotPaid` speaks of what the bank
does in the end, and only while `clean`; the order holds through crashes and
lost answers too.

### Payment intents (`IntentsProofs`)

For every number of intents, sessions, jobs, attempts and crashes:

| theorem | statement |
|---|---|
| `ChargesBookOnceHolds` | `Spec => []ChargesBookOnce` |
| `FannedOutWasTakenHolds` | `Spec => []FannedOutWasTaken` |
| `NothingUnpaidIsReleasedHolds` | `WithoutWallet => (Spec => []NothingUnpaidIsReleased)` |
| `BookedWasTakenHolds` | `WithoutWallet => (Spec => []BookedWasTaken)` |

What an intent shows as paid is a sum over booked rows; what the gateway took is
a sum over charges.  `Inv` ties them row by row (`BooksOK`): a row of the gateway
is a charge that was taken, with its amount, and no charge has two rows, because
the row lock of `applyTransaction` makes looking for a reference and booking it
one step.  The rest of `Inv` says what each job may still rely on although it
read it statements ago, and it can because what was taken is never given back.
Releasing an order adds over several intents, and a job sums them in one
statement and acts in another; `WalletFreeInv` bounds what it read by what has
been taken in all.  `WithoutWallet` (no job pays with a wallet) is a real
condition and not a convenience: with a wallet the code may show more as paid
than was paid, and finding 4 says when that releases an order.

### Stock (`DesksProofs`, `StockProofs`)

For every set of rows, orders, requisitions, purchases, batches, runs, receipts
and keys, every quantity and any number of handlers, with all desks of
`Warehouse` open at once.  The run opens a few desks at a time; the theorems
cover all interactions between them.

| theorem | statement | desk |
|---|---|---|
| `StockIsExplained` | `WarehouseSpec => []OnHandIsExplained` | all |
| `ReservationsAreSpokenFor` | `WarehouseSpec => []ReservedIsSpokenFor` | all |
| `StockIsNeverOversold` | `WarehouseSpec => []NeverOversold` | all |
| `PaidInFullHolds` | `WarehouseSpec => []PaidInFull` | orders |
| `CouriersHeardHolds` | `WarehouseSpec => []CouriersHeard` | couriers |
| `LinesMatchLoadsHolds` | `WarehouseSpec => []LinesMatchLoads` | requisitions |
| `ClosedMeansArrivedHolds` | `WarehouseSpec => []ClosedMeansArrived` | requisitions |
| `PalletsAreBookedOnce` | `WarehouseSpec => []PalletsBookedOnce` | purchasing |
| `MaterialsBalanceHolds` | `WarehouseSpec => []MaterialsBalance` | materials |
| `GoodsArriveOnceHolds` | `WarehouseSpec => []GoodsArriveOnce` | finished goods |

* *Other desks.*  A handler writes only its own job, and the job's `op` says at
  which desk it is.  To one desk's invariant a step of any other is a step of
  some job that is not one of its own (`Elsewhere`); it may add to `overtaken`,
  `lost` and `raced`, and takes nothing back.  So each invariant is proved
  against the steps of its own desk and that one abstract step.
* *What a handler read.*  Each desk's invariant says of every handler what its
  record entitles it to write (`ReqJob`, `PurchaseJob`, `MaterialJob`,
  `OrderJob`): either the document still is what it read, or the write will put
  the document among the overtaken.  `ReqInv`, `PurchaseInv` and `MaterialInv`
  add that loads, deliveries, slips and notes carry numbers below their count, so
  that a new one cannot coincide with an old one.  `OrderInv` carries for every event a courier reported
  that the order has heard of it, a handler is on its way with it, or the handler
  died (`HeardOf`).
* *Keys without an index.*  A receipt and a handover compare their key with what
  they read.  `KeyInv` says of a requisition nobody overtook that a handler about
  to book a receipt either finds its key still unused or will be overtaken, because
  whatever was received meanwhile changed what it read; `SlipInv` that the last
  key of a note is among its keys, that a handler about to hand over read another
  one, and that a key booked again has an overlap or a second key to show for it.
* *The lock of a task.*  `GoodsInv` is about handlers between two reads.  One
  that holds a task's advisory lock knows what the task has received for as long
  as the task exists (`HoldJob`), and what it summed up before its write is
  still there, with no less received (`SumJob`), so that the receipt it writes
  claims no more than its tasks and is RECEIVED only when all of it is in.  One that is about to
  allocate makes tasks no other handler knows (`PlanJob`), so a delivery to a task that
  was dropped fails instead of finding a new one.  Two handlers never hold the
  same task (`Apart`).  Without the lock the mutant `NoLock` breaks the property.
* *The books.*  `Books` is the conjunction of the three properties of the rows.
  `DesksInv` joins the invariants of the desks and the types of the rows, under
  which what each desk's documents add up to is a number (`AccountsOK`).  A step
  then is one of two kinds: one row moves by exactly what one account moves
  (`OneRowMoves`), or nothing moves (`NoRowMoves`).  A transfer by hand is the one step
  that moves two rows.  `ReleaseBooks` and `WriteOffBooks` are where `eaten`
  matters: a release gives back what its batch holds or it sets the flag.  The
  absolute writes of `adjustStock` and of a delivery keep the equation because
  a row whose quantity changed since it was read is `lost` from then on.

### The services (`ServicesProofs`)

| theorem | statement | for every |
|---|---|---|
| `OutcomesAreEarned` | `OutboxSpec => []OutcomeEarned` | number of events, drains, attempts, batch size, faults |
| `OperationRunsOnce` | `IdempotencySpec => []OnceOnly` | set of keys, requests, answers, number of restarts |
| `NothingIsDropped` | `WebhookSpec => []Recoverable` | number of deliveries, overlapping attempts and sweeps, attempts, exits, throwing statements |
| `NobodyIsMessagedTwice` | `WhatsAppSpec => []ReachedOnce` | number of recipients, passes, resumes, switches |
| `CreditIsExplained` | `SmsSpec => []CreditsExplained` | number of campaigns, executions, purchases, repeated jobs, exits, lost answers, throwing statements |
| `PointsAreExplained` | `RewardsSpec => []PointsExplained` | number of payments, redemptions, sweeps, exits, throwing statements, amounts |

* *Outbox.*  The danger is that a drain writes a count it read long ago.  The
  invariant bounds every count, in a row and in every drain's snapshot, by the
  deliveries really made, and says that a drain at the record of a delivery has
  made one more than its snapshot says; a drain about to write PUBLISHED has
  seen every handler return.
* *Idempotency.*  A key has at most one claimant, since only the insert of an
  absent row makes one; the invariant ties the stored answer, and every answer
  in flight, to what that claimant answered.
* *Webhooks.*  A row has no date for its next attempt only until its first
  attempt is recorded, so a courier that has recorded one may leave it; and a
  row, or a courier's reading of it, counts no more attempts than were made.
  `CourierMoves` proves all conjuncts for any courier step that records
  something or keeps the undated row in hand, and each action instantiates it.
  `closed` and `mishaps` carry the exemptions of `Recoverable` (an endpoint that
  was switched off; a crash or a throwing statement).
* *WhatsApp.*  A pass works from a list it loaded, so the invariant says that
  while passes have not overlapped a recipient still ahead on a pass's list has
  not been messaged, and that one whose message was accepted is the one in the
  pass's hands until it is recorded.
* *SMS.*  Credit moves in two statements around the provider's call; `Books`
  adds what every running send has reserved and not yet settled (`Outstanding`),
  a sum over sends, which is zero at rest.  An exit or a throwing statement
  moves such an amount to `kept`, and a lost answer moves messages to `unpaid`,
  so the equation holds without condition.
* *Points.*  A posting is a balance update and a ledger entry, a redemption also
  a wallet credit, and none is a transaction: the books disagree at most moments.
  `RewardsInv` adds to each equation what the running operations have done on one
  side and not yet on the other (`Unwritten`, `Unpaid`), and what an expiry that
  claimed its entry may still remove (`Claimed`).  At rest the terms are zero.
  A statement that throws and an exit move an operation's terms to `unposted`
  and `astray` and leave the sums as they are, so failures need no exemption.
  `RewardsSpec` is the points alone; a payment may complete at any time.

### Only model-checked

Every safety property of a passing run is stated by a theorem above, some under
the hypotheses its row names.  The liveness properties stay with TLC
(`EveryCallAnswers`, `ReferencedPayoutResolves`, `ReserveReturned`,
`ChargesAreBooked`, `EventsSettle`, `ScheduledIsSent`, `CampaignFinishes`):
liveness under fairness and ENABLED are out of this prover's reach.
The types of payouts and jobs (`PayoutTypeOK`) are proved, and no run repeats
them.

## 6. Not modelled

* *Data.*  Currency conversion and decimal rounding (amounts are integers; the
  code uses `Decimal` with rounding at the edges), prices, taxes, document
  numbers, message texts.
* *Doors.*  Authorisation, PINs and limits, parsing and signatures of webhooks,
  receipts and notifications.
* *Money.*  The accounting record and the invoice step of the fan-out, pay
  sessions, top-ups and refunds of Vhicasar Pay, bucket planning, wallet
  creation, a bank reversal after a successful transfer.
* *Stock.*  Automatic receiving of finished goods and of requisitions; several
  materials, stores and notes of one run; zero-quantity handovers and receipts;
  that output was recorded before a run completes is taken as given (`MayRun`);
  receipts exist from the start, as `ensureForOutput` leaves them.  The statuses
  OUT_FOR_DELIVERY and RETURNED of a shipment project like IN_TRANSIT and FAILED
  and stand with them.  Point of sale, which composes orders and payments in one
  request.
* *Services.*  E-mail and in-app campaigns, audiences, templates and consent
  collection, provider adapters; SCHEDULED SMS campaigns come from data, as in
  `tests/warehouse/campaign-scheduler-verify.ts:58`, because no route creates
  them.  The reward campaigns and tiers.
* *Everything else.*  Most of the repository is CRUD over Prisma, AI prompting,
  conversation text handling, import and export, page building, seeding scripts
  and provider clients.  Those parts read and write single rows; a module about
  them would restate assignments.  The mapped share of the source stays small for
  that reason, and because a definition here stands for a statement that matters
  and not for the queries, selections and messages around it.

## 7. Plan

Done: everything in section 2.  Next, in this order:

1. `PaySessions`: top-ups, transfers, pay sessions and refunds of Vhicasar Pay
   with `walletBuckets`, over `AtomicLedger`.
2. The fan-out's accounting record and invoice steps in `PaymentIntents`;
   invoices recomputed from intents.
3. Point of sale over `Orders` and `PaymentIntents`; appointment booking.
