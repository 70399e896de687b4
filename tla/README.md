# Smart ERP: a TLA+ verification of the backend

The specifications in this directory model the NestJS backend under
`src/backend/src` (paths below are relative to it). They are written from the
code; docs and comments are used only as statements the code is compared with.

## 1. Inventory of the system

One Node.js process serves HTTP requests over one PostgreSQL database through
TypeORM. Requests are asynchronous functions: between two database calls of one
request any call of another may run. Unless a method opens
`dataSource.transaction`, each repository call is a transaction of its own.
PostgreSQL runs at READ COMMITTED; nothing in the code takes a row lock or keeps
a version column. `Repository.save(entity)` reads the row again and writes the
columns in which the (perhaps stale) entity differs. Every table has a
`tenantId` and every service filters by it.

| Component | State | Operations | Talks to | What is hard |
|---|---|---|---|---|
| Inventory (`inventory/`) | products, warehouses, `stock_levels` (on hand, reserved), `stock_movements` | record movement; reserve, release, ship; consume a bill of materials; master data | called by sales and production; own transactions | stale read-modify-write, multi-line atomicity, row-lock order, row creation race |
| Sales orders (`sales/sales.service.ts`) | order status and lines | create, confirm, cancel, ship | inventory, inside its own open transaction | two commits per request, double requests, pool exhaustion |
| Quotations, DDT, pipeline (`sales/sales-depth.service.ts`, `sales-pipeline.service.ts`) | quotation and DDT status, links, activities | send, revise, accept, convert; issue, deliver, invoice; stages and timeline | creates sales orders | conversion twice, a deal told by two documents |
| Production (`production/`) | production orders, work orders | status change, work orders, quantities | inventory | as sales orders; quantity saved apart from the operation |
| Procurement (`procurement/`) | requisitions and approval chain, RFQ and responses, purchase orders, goods receipts, supplier invoices | submit, approve, convert, send, award, receive, inspect, match, pay | own documents | concurrent approvals (JSON chain), conversion twice, stale saves of lines |
| Accounting (`accounting/`) | chart of accounts, invoices, journal entries | seed, create, queue, accept invoice; post journal; liquidation of the IVA | customers | numbers by counting, entries posted twice, two roundings |
| Authentication, memberships (`auth/`, `memberships/`) | failed attempts, lock, token version, refresh hash, session start; membership status | register, login, refresh, logout; invite, consent, revoke, switch tenant | each other | parallel logins, rotation and its replay, a consent that overlaps a revocation |
| Tenants, SSO (`tenants/`, `sso/`) | plan, seats, status; configurations, SCIM bearer | create, update; upsert, rotate, activate, pause | authentication | stale saves |
| Webhooks (`webhooks/`) | subscriptions, attempts of a delivery | subscribe, pause, deliver, retry, dead letter, disable | external endpoints | retry limit, Retry-After, a subscription that changes meanwhile |
| Queues (`queues/`, `pec/`) | jobs in Redis | add, run, retry, stall, remove | BullMQ; SDI, PEC | a worker that dies, a job asked for twice |
| Treasury (`treasury/`) | accounts, bank transactions, matches | sync, match, ignore | PSD2 connectors | a sync repeated or cut |
| Conservazione (`conservazione/`) | settings per tenant | submit with failover | archive vendors | which vendor gave the receipt |
| HR (`hr/`) | employees, attendance, leave | hire, terminate, clock in and out, sweep, request and decide leave | - | three writers of one attendance |
| Intrastat (`intrastat/`) | declarations and their lines | draft, generate, submit, answer, reopen, export | invoices of both sides | lines and totals written apart from what they count |
| BI (`bi/`) | projection cursors, read model, reports, schedules | run one, run all; dashboards; report CRUD | reads all | refresh by delete and insert, crash while 'running' |
| Multi-company, marketplace (`multi-company/`, `marketplace/`) | companies and which is primary; installations | create, set primary; consolidate a year; install, cancel | invoices of both sides | the mark moved by several saves, rows without an order |
| AI copilot (`ai-copilot/`) | token counter of a day | ask, with a daily cap | a language model, the tenant's plan | judged before the answer, counted after it, midnight between |
| Audit, compliance, ESG, forecasting, scheduling, platform | small status fields or none | CRUD, read-only computations, skeletons | - | see `components` in PROJECT.json |

What makes each correct, in a sentence:

- *Inventory*: on hand equals its initial value plus logged movements; nothing
  is negative that no order line makes so; what is reserved is what confirmed orders ask.
- *Sales, production*: a status is backed by the stock effects it stands for, each
  applied once.
- *Procurement*: no purchase order without a complete approval chain; one order
  per requisition; an invoice is paid only if matched or its dispute approved.
- *Accounting*: invoices numbered without a gap; one journal entry per accepted
  invoice; the IVA declared is that of the entries, but for rounding.
- *Authentication*: a token that was exchanged or revoked never yields tokens
  again; the counter locks at its limit; nobody acts for a tenant unasked.
- *Webhooks, queues, archive*: everything sent or asked for ends, and the record
  of it explains how.
- *Everything derived* (stages, timelines, declarations, hours, read models) agrees
  with the rows it is derived from.

## 2. The core: orders and stock

### 2.1 Modules

| Module | Models | Role |
|---|---|---|
| `StockRows` | the guard and arithmetic of one line on one `stock_levels` row, and TypeORM's `save` of a row | shared operators |
| `OrderFulfilment` | confirm, cancel, ship, production status change and manual movement, one database call at a time | the detailed specification |
| `StockLedger` | `InventoryService` as its callers think of it: each call atomic | abstract specification |
| `OrderSaga` | what an order's status and its stock effects promise each other under any overlap | abstract specification |
| `OrderAccounts` | the properties over `OrderFulfilment`; the refinement mappings | properties |
| `OrderFulfilmentProofs` | theorems | proofs |
| `MCFulfilment` | instances for TLC | model checking |

A status change runs two transactions. `SalesService.confirmSalesOrder` opens
one and, inside it, awaits `InventoryService.reserveStock`, which opens a second
on another connection of the pool; that one commits first and does not roll back
with the outer one. In `OrderFulfilment`, a *worker* is a request in flight and
`req[p].pc` is the database call it makes next:

| pc | Code | Actions |
|---|---|---|
| `idle` | no request | `Receive` (BEGIN, findOne of the order, status check), `ReceiveMovement` |
| `warehouse` | `pickDefaultWarehouseId`, on a third, short-lived connection use | `PickWarehouse`, `PoolTimeout` |
| `connect` | the inner `dataSource.transaction` | `Connect`, `PoolTimeout` |
| `read` | `slRepo.findOne` of the line, the guard, the new quantities | `ReadLevel`, `SkipLine`, `Reject` |
| `reload` | the SELECT inside `slRepo.save` | `Reload` |
| `write` | its UPDATE or INSERT, and the INSERT of the movement | `Write`, `UniqueViolation`, `DeadlockVictim` |
| `commit` | COMMIT of the inner transaction | `CommitStock` |
| `save` | `orderRepo.save` and COMMIT of the outer transaction | `SaveStatus` |

`ConnectionLost` ends a request at any of them and rolls back whatever is open.
`tx[p]` holds the uncommitted writes of p, which are also the rows it has locked.
`goods` and `applied` are the movement log, summed up: per row, what the log says
has moved, and per order and kind of call, how many inventory transactions were
committed. `torn` remembers the orders whose request was lost between its two
commits.

Decisions a reader may ask about:

- A request whose status check fails answers 400 and changes nothing; it is not a
  step. The same holds for ids that do not exist.
- The SELECT inside `save` is a step of its own, because the columns written
  depend on what is committed at that moment; columns the line assigned are
  always written, since the driver returns decimals as strings and the service
  assigns numbers.
- Quantities are hundredths, as in `decimal(12,2)`, and may have either sign. The
  DTOs of orders and bills of materials have `@Min(0)`, but the quantity of a
  quotation's line is any numeric string (`sales-depth.dto.ts:24`), and the order
  it is converted to takes it over (`sales-depth.service.ts:227`). A reservation of
  less than nothing passes every guard and makes the reserved column negative. A row
  that no line asks less than nothing of is *plain* (`PlainSlots`); what is reserved
  is a promise of those only (2.3 tells what becomes of the others).
- Quantities with more than two decimals, which the DTOs and the columns of a
  quotation admit and those of the stock round, are left out (a hazard in
  PROJECT.json).
- A tenant with no warehouse at all is left out: every request that needs one
  answers 400. A warehouse cannot be deactivated through the API, so the default
  changes only by `createWarehouse` and by `updateWarehouse` of a code
  (`ChangeDefault`).
- Orders exist as DRAFT from the start; `PARTIALLY_SHIPPED` and `INVOICED` are
  statuses no method of the service sets.

### 2.2 Runs

| Run | Instance | Shows |
|---|---|---|
| `books` | one worker, six requests, two sales orders (one with a line for less than nothing), a production order, a delivery and a write-off, connections lost anywhere | `StockMatchesMovements`, `EffectsExactlyOnce`, `ReservedMatchesOrders`, and `ImplementsLedger`: served one at a time the protocol is atomic |
| `overlap` | two workers (symmetric), four requests, two warehouses, a negative line, faults | `TypeOK` (goods on hand never fewer than none, nor those reserved of a plain row), `ImplementsSaga` |
| `waits` | two workers, two connections, transfers in opposite directions, three requests | `EveryRequestEnds` |
| `ghost_reservation` | one worker, an order of one line, two requests | the first violation of 2.3 |
| `less_than_nothing` | one worker, two orders of one line, for two bolts and for one less than none, four requests, no faults | the second |

Bounds. `MaxCalls` caps the requests of a behaviour. Six, one at a time, are
enough to confirm, ship or cancel both orders and move stock in between; four
overlapping ones are enough for a confirmation of each order plus a cancellation
or shipment of one, twice over. Two workers suffice for each race of the code (a
reader between another's read and write) and for a deadlock, whose cycle has one
worker per row of the two rows. Two lines per order are the smallest number with
a "first line already written" state. Quantities of one to three make the guards
pass, fail and pass by exactly zero.

Fairness. `FairSpec` assumes weak fairness of `Serve(p)` for each worker: the
event loop resumes an awaited promise and the database answers a statement it
can run. It does not oblige a client to send a request, a connection to break,
nor the default warehouse to change. `EveryRequestEnds` holds because a wait for
a connection is ended by `connectionTimeoutMillis` and a cycle of row locks by
the deadlock detector; with the first removed it fails (its mutant).

### 2.3 What overlapping requests break

Two documented statements fail and have a run and an entry in `findings` each; the
second needs no overlap. *Ghost reservation*: a confirmation lost between its two
commits leaves a DRAFT order with reserved stock, and cancelling a DRAFT order
releases nothing. *Less than nothing*: `cancelSalesOrder` says that it releases the
reserved stock, but the floor at zero of a release, meant for what is no longer
there, keeps a piece of it when another order's line is negative: 2 and -1 reserve 1,
releasing 2 leaves 0 and not -1, releasing -1 then leaves 1 reserved for nobody.

Two more are behaviours of the model that no property may contradict under
overlap, and the reason why `StockMatchesMovements` and its like are checked one
request at a time:

- two confirmations that read a row before either writes it are both accepted for
  the same goods, and the reserved column ends at one of the two amounts
  (`inventory.service.ts:351`);
- a save overwrites on-hand with a value computed from an older read, while both
  rows of the movement log stay (`inventory.service.ts:615`).

What survives any overlap, and is proved, is `OrderSaga`, goods on hand that are
never fewer than none, and reserved quantities of plain rows that are not negative.
The saga says of a status that its effect was committed, not how often: two
confirmations of one order that overlap reserve twice, and no property denies it.

## 3. Procurement up to the purchase order

### 3.1 Module

`Sourcing` models `ProcurementService` from `createRequisition` to the purchase
order (`procurement.service.ts:145-751` and the helpers at 85-111, 1187-1209,
1241-1245); `MCSourcing` instantiates it. A document (requisition or RFQ) is a
function from its fields to their values, and an RFQ's quotes are fields of it,
one per supplier, because `getRfq` loads them with the RFQ and
`RequestForQuote.quotes` cascades a save to them. What a handler does between two
database calls is one step:

| pc | Code | Actions |
|---|---|---|
| `idle` | no request; the load, the status check and the changes in memory | `Submit`, `Approve`, `RejectRequisition`, `CancelRequisition`, `ConvertRequisition`, `SendRfq`, `RecordQuote`, `Award`, `CancelRfq`, `ConvertRfq`, `CreateOrder` |
| `quote` | `rfqQuoteRepo.save` of the answer | `SaveQuote` |
| `check` | `rfqQuoteRepo.findOne` of the quote to award | `CheckQuote` |
| `number` | the count of `nextPoNumber`, on a connection of its own | `Number` |
| `insert` | INSERT of the order; waits for an uncommitted equal number | `Insert` |
| `reload` | the SELECT of the document's `save` | `Reload` |
| `write` | its UPDATE of the fields that differ, inserts of quotes, COMMIT | `Write` |

`Refused` is each exception after the first database call and `ConnectionLost` a
failure anywhere; both leave no trace of what is not committed. `signed` and
`answered` record which approvals and answers were ever committed, and
`contended` the documents that ever had two requests in flight together.

Left out: lines and amounts (an estimate selects the approval chain and nothing
else), the year in an order's number, expiry of an RFQ and declined quotes, which
no method sets, and the role of the approver, which `approveRequisition` does not
look at: it signs the first pending level for whoever calls.

### 3.2 Runs

| Run | Instance | Shows |
|---|---|---|
| `sourcing` | two workers (symmetric), a requisition with two levels, one below the automatic threshold, an RFQ to two suppliers, five requests, connections lost anywhere | `EveryLevelSigned`, `AwardAnswered`, `NumbersConsecutive` under any overlap; `OneOrder` for documents whose own requests never overlapped, whatever happens to the others |
| `first_quote` | one worker, two requests | the first quote received is lost |

Five requests are what an RFQ needs from draft to its order (send, two quotes,
award, convert) and one more than a requisition with two levels needs; the
conversion of the one and requests on the other compete for the order number.

A documented statement fails. *First quote*: `recordSupplierQuote` saves the answer
through one object and then, to promote the RFQ, saves the RFQ, whose loaded
`quotes` still hold the same row as pending; the cascade writes status, amount and
costs back. It takes no overlap and no failure, so the first quote of every RFQ
has to be recorded twice before it can be awarded.

The status graphs call `cancelled` and `converted` terminal, but any save of an
object loaded before the cancellation writes its own status over it
(`procurement.service.ts:1201`): that is why `OneOrder` speaks of documents whose
requests did not overlap.

All four are proved (section 6).

## 4. Procurement from the order to the invoice

### 4.1 Module

`Receiving` models the rest of `ProcurementService` (`procurement.service.ts:438-472`
and 755-1231): the status of a purchase order, goods receipts with their
inspection, supplier invoices and `runThreeWayMatch` (`three-way-match.ts`).
`Documents` holds what `save()` does to a row, `MCReceiving` the instances. Orders
exist as drafts from the start; receipts and invoices enter the tables when their
transaction commits. Steps are again what a handler does between two database
calls:

| pc | Code | Actions |
|---|---|---|
| `idle` | no request; the load, the status check and the changes in memory | `MoveOrder`, `CreateReceipt`, `MoveReceipt`, `Inspect`, `CreateInvoice`, `Match`, `MoveInvoice` |
| `number` | the count of `nextGrNumber` | `Number` |
| `insert` | INSERT of a receipt or an invoice with its lines | `InsertReceipt`, `InsertInvoice` |
| `goods` | `runMatch` reads the receipt lines and judges | `ReadGoods` |
| `lines` | the `manager.save(grl)` of an inspection's loop, which lock what they change | `SaveLines` |
| `reload` | the SELECTs of the document's `save` | `Reload` |
| `write` | its UPDATEs, the receipt's lines included, and COMMIT | `Write` |

Quantities are integers, in ten-thousandths as in the columns; where
`inspectGoodsReceipt` compares sums of binary fractions that differ by exactly
one ten-thousandth, either outcome is allowed. The match computes what the code
computes: a percentage that is `undefined` makes every comparison false, and the
expected total puts the digits of bigint columns, which the driver returns as
strings, side by side. `seen`, `judged` and `contended` record what was ever
committed and which documents ever had two requests in flight.

Left out: timestamps, notes and texts, the list `poIds` that `runMatch` refreshes
(nothing reads it back), the year in a receipt's number. The code does not do what
the comment of `GoodsReceipt` announces ("`confirmed` triggers stock movements"):
no receipt touches stock, so the module has no connection with section 2. No
method sets an order to partially_received, received, invoiced or closed, or an
invoice to paid.

### 4.2 Runs

| Run | Instance | Shows |
|---|---|---|
| `receiving` | two workers (symmetric), an order of two lines, up to two receipts, an invoice with one of three bills, three requests for tolerances, five requests, connections lost anywhere | `ApprovalEarned`, `MatchedDelivered` under any overlap; `InspectedSettled` and `VerdictStays` for documents whose own requests never overlapped |
| `match_total` | one worker, two requests suffice | the right total is a discrepancy |

Five requests take an invoice from its receipt to its approval (receipt,
confirmation, invoice, match, approval) or a receipt through two overlapping
inspections. The bills agree with the deliveries, exceed them, or name a line
nobody ordered. A match succeeds in this instance only with a total tolerance of
100 %, which is what the code needs: see below. At exactly these bounds TLC also
finds a receipt `inspected` with an unsettled line when two inspections overlap,
which is why `InspectedSettled` speaks of the others only. All four properties of
the run are proved (section 6).

A documented statement fails with one request at a time. *Total*: the sum of the
lines is a concatenation, so an invoice with an amount is disputed whatever its
total, unless the caller tolerates nearly 100 %. Besides, a match asked for without
tolerances does not use the documented defaults: the `undefined` members of the
request replace them, every comparison with them is false, and everything is a
discrepancy.

## 5. One database, many handlers: `Requests` and what extends it

### 5.1 The common part

Sections 2 to 4 follow single services one database call at a time. The other
components are smaller, alike in what they do to the database, and interact through
it; `Requests` holds that once. `db` maps the id of every row that can exist to
its columns (an id that is not used yet is there with the status `absent`), and
`req[p]` is what worker p is doing:

| pc | Code | Actions |
|---|---|---|
| `idle` | no request; the reads, checks and changes in memory up to the first save | the handlers of a component, through `Begin` or `Handle` |
| a name of the handler's | it goes on after its earlier saves or reads | the same handler, through `GoOn` |
| `reload` | the SELECTs of the `save()`s of one transaction | `Reload` |
| `write` | UPDATEs, INSERTs and COMMIT; the unique indexes | `Write`, `Refused` |

`Lost` ends a request anywhere. What a handler decides is computed from the rows
as it read them (`req[p].base`); what it changes, from the rows as they are when it
saves. A save writes the columns that differ from the row as it is reloaded
(`Documents`); an `update()` or an INSERT reads nothing first. `contended` and `cut`
remember rows that ever had two requests in flight, and rows of requests that were
lost. A property that holds under any overlap does not mention them; one that
overlap breaks says so and leaves those rows out, so that it still covers everything
that happens around them. `RequestsProofs` proves once, for every component, what
makes this a sound way to speak: a row that no two requests had in hand is, for the
request that has it, as it was read, and a COMMIT leaves there what the handler
computed.

A component is a module whose handlers are operators with the worker as parameter,
collected in a `...Step(p)`; modules compose by the disjunction of their steps, as
all share `db`. What only reads is an operator over `db`.

| Module | Models | Code |
|---|---|---|
| `Selling` | customers, sales orders (numbers, tax, status), quotations, DDT, activities, the pipeline's stages and the timeline | `sales/` |
| `Accounting` | chart of accounts and seed, journal, invoices, liquidation of the IVA, the amounts of FatturaPA, `computeIva` | `accounting/` |
| `Treasury` | accounts, PSD2 import, reconciliation, proposals, cash forecast | `treasury/` |
| `People` | employees, attendance, leave | `hr/` |
| `Intrastat` | declarations, generated lines, export | `intrastat/` |
| `Shopfloor` | production and work orders, products, warehouses, valuation | `production/`, `inventory/` |
| `Reporting` | projections, read model, dashboards, reports, schedules | `bi/` |
| `Companies` | companies and the primary one, consolidation of a year, marketplace installations | `multi-company/`, `marketplace/` |
| `Identity` | users, tokens, memberships, SSO, tenants, guards | `auth/`, `memberships/`, `sso/`, `tenants/` |
| `Copilot` | the assistant's turns, the daily cap and its counter | `ai-copilot/` |
| `Webhooks` | subscriptions, one delivery and its retries | `webhooks/` |
| `Jobs` | producers, BullMQ's bookkeeping, processors | `queues/`, `pec/` |
| `Archive` | tier policy and failover | `conservazione/` |

### 5.2 Company: selling to consolidation on one database

`BackOffice` composes the first eight and says what a database is like as their
handlers leave it (`Sound`); `MCCompany` gives it its instances. A behaviour starts from one of sixteen
scenes, small databases that each serve one concern (an accepted quotation; an order
half way; an issued DDT; an empty chart; a draft invoice; an account with a sync to
do; ...); every handler that finds its rows in a scene acts on it. Three requests, two
at a time, lost anywhere: a reader and a writer in each other's way, and one more
request before or after. Clock and dates stand still (`MaxNow = 0`): no guard of
these components compares dates in a way a property here depends on. Amounts are
chosen to leave cents over (1003 at 22 %, 51 at 10 %), a line has no IVA for its
nature, one customer is under split payment, one is abroad; attendance stamps lie on
both sides of midnight. Of the twelve projections two are run, one of invoices and
one whose keys come and go with the status of a quotation; `ConsolidatedAlike`
evaluates two more. Two years make numbers per year differ from numbers. Of
the three providers with an adapter two give an account one transaction and `bper`
none, each with a cursor. An operation may report nothing produced, which reaches its
order only if another completion asks for it: a nought reported is false, the
`'0.00'` read back is true.

| Property | Says | Breaks under overlap? |
|---|---|---|
| `NumberedOneByOne`, `InvoicesWithoutGap` | `count + 1` and a unique index number without a gap | no; proved |
| `ConvertedOnce` | a converted quotation and its order know each other, and it has no other | yes: two conversions that both read `accepted` |
| `TimelineTells`, `DealsGoForward` | timeline and pipeline tell what can have happened | yes, by stale saves |
| `PostedOnce` | an accepted invoice has one entry, which balances | yes: two acceptances; a queueing saved over one |
| `LiquidationNearLedger` | the IVA of the liquidation is that of the entries, but for half a cent a line | yes, as `PostedOnce` |
| `ParentsFirst` | a seeded account has its parent, wherever seeding stops | no; proved |
| `ImportedOnce` | an account with a cursor has what its provider gives, once | yes, and by a cut sync |
| `HoursMatchTimes` | worked hours are those between the two times | yes: a clock-in saved over a clock-out |
| `FrozenTotals` | a filed declaration's lines and totals agree, each document once | yes: two generations |
| `ProducedByLastOperation` | an order's quantity comes from its last completed operation | yes |
| `ReadModelOfLastRun` | where a cursor says idle, its read model is the result of its last run, whole | yes: two refreshes collide |
| `ConsolidatedAlike` | a year's consolidation agrees with the projections at any moment, and with itself whichever row comes first | its breakdown by company, yes: two moves of the mark leave two primaries |

`ConsolidatedAlike` compares three computations of the same sums. The comment of
`isPrimary` says that exactly one company of a tenant has it and that the migration
enforces this (`company.entity.ts:72`). The migration marks one company of every
tenant there is and creates no index for it; a company created for a later tenant is
not primary until somebody says so, and `setPrimary` saves company after company in
the order of their codes, so between two saves there are two or none. The totals bear
it, because a tenant with companies always has one to count what is left for; the
breakdown needs the moves to be over, whole and one at a time. `setPrimary` also
answers with the company as it was before. A package that was installed and cancelled
cannot be installed again.

Facts of the code that the model has and no property denies: `invoiceDdt` does not
look whether the invoice exists; a conversion ignores the customer's split payment,
which `createSalesOrder` honours; the timeline lists `ddt_issued` for a cancelled
draft; a converted quotation whose order was cancelled is still `won`; an invoice may
be accepted from any status; the two totals of a typed journal entry may differ by a
cent; the liquidation counts the IVA of split payment; a top-N widget shows the rows
that come first by key (`projection.orchestrator.ts:130`), not those with the highest
revenue, which the catalogue promises (`dashboards.catalog.ts:73`); the auto-reconciler and the
cash forecast compare an enum column with `'paid'`, a value it has not
(`auto-reconciler.service.ts:86`, `cash-forecast.service.ts:48`), which PostgreSQL
refuses; leave requests of one person may overlap; Intrastat counts invoices
with their IVA and whatever their status, and a reopened declaration keeps lines under a header of
zero; a reopened operation leaves the order's quantity; an update that overlaps the
deletion of a product makes it active again; a projection that fails leaves its
cursor `running`, one without rows leaves the rows of the run before, and schedules
of a deleted report stay active.

### 5.3 Identity

Tokens are rows as well, those clients hold: `given` until exchanged, replaced or
ended, then `spent`. `MCIdentity` has a clock of two units (a lock lasts one, an
access token two, a session one), two misses to a lock, three requests, two at a
time, and six scenes: somebody signed in, a first registration, an invitation to a
second tenant, a membership, a tenant with its SSO, a tenant with the assistant. `SpentTokensStaySpent`,
`LockedAfterMisses` and `ConsentBeforeAccess` hold for users and memberships whose
requests did not overlap, whatever happens to others, and are proved for any users,
tenants, tokens and clock (section 6). With overlap, as the code
stands: parallel misses count as one, a stale save of a failed login restores the
old hash and version, a consent that read `pending` saves `active` over a
revocation, and `rotateScimToken` writes `active` over a pause. A refresh after a
switch of tenant issues tokens for the home tenant again.

`Copilot` is in the same instance, because a turn needs a caller, a plan and a clock
(a unit is a day here): plans with caps of one and two tokens, turns of one or two. A
number in the tenant's settings goes before the plan's cap (`resolveDailyCap`), and
the tenant's own update may write any there: `OwnCaps` has nought, which refuses every
turn, and two, which is more than the smaller plan's (`SeatLimits` is what the same
update may say of seats). The cap is judged before the model is asked, the usage is added after it has answered, to the
counter of that day. `CapHolds` says how far that can go for a counter no two requests
had in hand: one answer past the highest cap, and one for each turn still being answered at
midnight, which nobody judged against the new day; and that a turn is refused only for
a cap that the day's tokens reach (`refusedFor` remembers the least such cap). Turns
that overlap on one counter can lose usage, so more than that is spent then; a turn
whose process dies after the model answered is not counted at all. Both are proved for
any caps, plans and workers (section 6).

### 5.4 Delivery

`MCDelivery` joins what leaves the backend. The worker that calls `dispatchOnce` is
not in the repository, nor is BullMQ: `Deliver`, `Record`, `Take`, `Stalled` and
`Forget` model them from what the code expects of them (external in the map).
Endpoints answer 200, 410, 503, 429 with no delay and 429 with a huge one; two
requests of the management API and two workers, either of which may die at any
point; three jobs, the closing of a day, a report and a poll for a receipt; an archive
whose first vendor fails, with settings that change during a call. The repository
registers the adapters of two vendors, and `validateForTier` wants three different
registered ones for a third choice, so the step to a third vendor is in the model and
never taken.

Safety: `FateExplained` (a delivery is `delivered` exactly if the endpoint accepted
it, dead after six failures and no earlier), `AskedOnce` (a job for one purpose
exists once while it is kept, and has not failed before it was tried enough; a report
or a poll has the time in its id and is made as often as it is asked for),
`ReceiptTellsFailover`. All three are proved (section 6).

Liveness: `DeliveriesEnd`, `JobsEnd`. Fairness is weak, of each worker (taking what
is due, finishing what it began) and of BullMQ's check for stalled jobs, which runs
every 30 seconds. No client is obliged to ask for anything, no worker to die. A
subscription that is not active and a worker that dies over a delivery are exceptions
`DeliveriesEnd` names, because no code of the repository picks such a delivery up.

Facts: the waits of the retry schedule, with a Retry-After of half an hour, can add
up to more than the nine hours of the documentation; job ids without a time in them
keep duplicates out only as long as the job is kept; a settings row with a tertiary
vendor and no secondary is called `triple` and never gets to the third; the default
vendor `aruba` is not implemented and always fails over; nothing enqueues the jobs of
the SDI queue; a transient failure is recognised by digits in its message.

### 5.5 Runs

| Run | Shows |
|---|---|
| `company` | the fourteen properties of 5.2 |
| `identity` | the four properties of 5.3 |
| `delivery` | safety and liveness of 5.4 |

## 6. Proofs

`OrderFulfilmentProofs` proves, for all values of the constants that satisfy the
ASSUMEs of `OrderFulfilment` (any finite set of workers, any pool, any number of
requests, any lines):

- `TypeSafe`: `Spec => []TypeOK`, lines of either sign included. `TypeOK` is `Typed`
  and `ReservedNotNegative`, and neither is inductive. For `Typed`, a worker at `read`
  must have a line to read, and a row in memory must be one its kind computes.
  `TypeInv` adds `RequestsOK`, what a request in flight looks like (its reference
  and kind agree, the line index is within its lines, a warehouse has been picked
  once it is needed). One lemma per action, one step per conjunct.
  For `ReservedNotNegative`, `FloorInv` adds to `TypeInv`
  that the row a request computed, the columns its `save()` is going to write, and
  what any transaction sees are not negative in `reserved` for a plain row either:
  a stale row is one that was committed or seen once, and a line of a plain row adds
  or is cut at zero.
- `Refines`: `Spec => ImplementsSaga`, with `done` mapped to `applied`. It needs
  to know that a request at `save` has had its effect committed, and that a
  request about to ship or release belongs to an order that has reserved.
  `SagaInv` says so: `StatusDone` (a status is backed by effects), `CausesDone`
  (effects are backed by the effects they follow), `RequestsBacked` (so is the
  status a request in flight is going to save) and `NoLimbo`. It was checked with
  TLC on the `overlap` instance before it was proved.
- `EveryStatusBacked`: the same as a state predicate.

Under the hypothesis `OneAtATime` (there is at most one worker), and with connections
lost anywhere, the default warehouse changing at any time and any lines:

- `BooksKept`: `Spec => []StockMatchesMovements`. `BooksInv` adds what is true inside a
  transaction (`GoodsFit`): what it sees of a row is what is committed plus the goods
  its own movements have moved, and the row it holds in memory, and what `save()` will
  make of it, is what the line computes from the row as it is. The last is what a second
  worker breaks (2.3).
- `OnceEach`: `Spec => []EffectsExactlyOnce`. `OnceInv` adds to `SagaInv` that a request
  in flight is one the status of its order still allows, with the effect that status
  calls for, and that from the inner commit on the order has had what its next status
  asks. Orders in `torn` are exempt, for the reason of 2.3.
- `RefinesLedger`: `Spec => ImplementsLedger`, step by step: the COMMIT of an inner
  transaction is one call of `StockLedger`, every other step a stutter. `LedgerInv` says
  that what a transaction sees (`Seen`) is what the ledger's function over the lines
  yields for the lines done so far (`RunOf`), and that the line being written passed its
  guard on the row as it still is (`CallFit`). `RunSteps` shows by induction on the
  number of lines that the recursive function in `StockLedger` has its defining
  equation; so the same row twice, a row that does not exist and a call of no line are
  all covered.
- `ReservedForOrders`: `Spec => []ReservedMatchesOrders`, under `PlacesFixed` as well: a
  line of a sales order names its warehouse, or there is only one. Without it the
  property is about a moving target: what an order asks of a row changes when the
  default warehouse does, between its confirmation and its release. `ReservedInv` says
  of each plain row that what is reserved is the sum over the orders that are confirmed, or
  whose status is about to be saved as confirmed (`Holding`), and that a transaction
  under way has added or taken what the lines done so far ask (`ReservedFit`). It follows
  that the floor at zero in `releaseReservation` and `shipReservation` never takes
  effect while `torn` is empty: an order's part is there.

These need sums, and so do their lemmas: that `MapThenSumSet` has its recursive
equation on finite sets, does not depend on the order, and splits off an element
(`SumExists`, `SumAnyOrder`, `SumMore`, `SumPart`). The induction is done without the
library's induction theorems: a set of naturals, or of finite subsets, that had a
least counterexample would have a smaller one (`NatSubset`, `FiniteSubsets`).

`SourcingProofs` proves, for any documents, estimates, suppliers and workers:

- `NobodySkipped`: `Spec => []EveryLevelSigned`. By itself the property says
  nothing of the objects in memory, any of which may be saved over the row.
  `SignInv` adds `RequestSigned`: an approval an object carries was committed, or
  is the one its own request is about to commit, and an object that says
  "approved" has them all. Because a save mixes fields of two objects (`Written`),
  the chain and the status each carry their own evidence.
- `DocumentsTyped`: `Spec => []TypeOK`, from the same invariant.
- `AwardsAnswered`: `Spec => []AwardAnswered`, under any overlap. A quote marked
  received and an award, in the table or in any object, are of suppliers that did
  answer (`RequestAnswered`); a stale cascade can take a mark back, before the award or after
  it, never the answer.
- `OrdersNumbered`: `Spec => []NumbersConsecutive`. The number a request carries is
  at most one more than there are orders now (`RequestNumbered`), and the unique
  index refuses those there are; an order inserted and not committed holds its number.
- `OrderedOnce`: `Spec => []OneOrder`. A request that has an uncontended document in
  hand is the only one, the document is not converted, and the object says
  `converted` exactly from the insertion of its order on (`RequestAlone`). All this is
  `OrderInv`.

`ReceivingProofs` proves, for any orders, receipts, invoices, deliveries,
verdicts, bills, tolerances and workers:

- `NothingUnseen`: `Spec => []ApprovalEarned`, and `NothingUndelivered`:
  `Spec => []MatchedDelivered`. `PaperInv` adds what an object in memory may say
  before it is saved: "approved" only of an invoice already judged, "matched" only
  of one that agreed with what was accepted at some moment (`Backed`). A save takes
  the status from the object or leaves the row's, and both carry the evidence;
  bills never change and `seen` only grows (`BackedStays`).
- `PapersTyped`: `Spec => []TypeOK`, from the same invariant.
- `SettledWhenInspected`: `Spec => []InspectedSettled`, and `VerdictsStay`:
  `Spec => [][VerdictStays]_vars`. `GoodsInv` says of a receipt no two requests had
  in hand that the object of the one that has it differs from the table only by
  what that request decided (`GoodsFit`), and that no other request holds it
  (`Apart`); so its save changes quantities only together with the status
  `inspected`, and those add up. That the quantities of deliveries and verdicts are
  integers is `QuantitiesAssumption`.

`RequestsProofs` is about `Requests` alone, for any component, tables and workers:

- `RequestsHeld`: `AnySpec(loose, lasting) => []Held(loose, lasting)`. A component
  promises that its handlers read rows that are stored or free, save only rows they
  have in hand (but for the tables in `loose`) and never delete from the tables in
  `lasting`. `Held` then says that an uncontended row is in the hands of at most one
  request and equal to what that one read, and that what a second SELECT found
  dirty is what the object changes.
- `NoUpdateLost`: a COMMIT writes to an uncontended row exactly what the handler
  computed from the committed row. From here on a property of uncontended rows is
  proved handler by handler, as if they ran one after the other; `StepHeld` and the
  lemmas on `Begin`, `Handle`, `GoOn`, `Reload` and `Write` are what the proofs of
  components cite. `RowsAssumption` says that the rows to start from have a table
  and a status.

`IdentityProofs` proves, for `MCIdentity`'s specification and any users, tenants,
tokens, scenes, limit, clock and workers:

- `SpentStaySpent`: `Spec => []SpentTokensStaySpent`; `LocksAsCounted`:
  `Spec => []LockedAfterMisses`; `AccessIsAgreed`: `Spec => []ConsentBeforeAccess`.
  `IdentityInv` joins `Held` with what the rows say of each other (`RowsOK`) and with
  what each transaction on its way to the database says (`PendingOK`): a user's
  object says of the hash null, that of a token the same transaction brings, or
  leaves the one there is, and says of lock and misses both or neither (`UserOK`); a
  token it brings is for the user's own tenant or one he agreed to, any other it
  spends (`TokenOK`); a membership becomes active with its consent (`MembershipOK`).
  A switch of tenant, between reading the membership and issuing its token, still has
  one that was consented to (`MintOK`). `IdentityAssumption` (at least one miss is
  allowed, null is no time) and `ScenesAssumption` (the database to start from
  satisfies `RowsOK`) are what these three need of the constants.
- `CapNeverPassed`: `NullIsNoPair` implies `Spec => []CapHolds`, for any plans, caps and
  usages. A bound on the tokens of a counter is not inductive: what matters is who may
  still add to them. `Within` bounds them by the greatest cap and an answer for every
  worker that is `Done` with the counter, that is, neither has asked for that tenant on
  that day or one before (`Asks`) nor has an answer to save (`Adds`). Who asks while
  the counter is below the cap needs no such bound; who saves an answer is done from
  then on, and that makes room for it. `CapInv` adds that a tenant has one counter a
  day (the unique index), that a pending save of a counter is about that counter alone
  and differs from the row by one answer at most (`CountOK`), that whoever waits for an
  answer knows the counter it asked on (`AskedOK`), and that tenants keep a plan
  there is. `NullIsNoPair` says that null is no pair of a tenant and a day, because a
  unique index does not compare nulls; it is about all values, so TLC cannot evaluate
  it as an assumption, and the model value `None` of the run satisfies it.
  That a refusal had its reason stays true because tokens are only added.
  `CopilotAssumption` says that there are finitely many workers, that every plan has
  a positive cap, that a tenant's own is a whole number, that caps and usages have a
  greatest, and that the counters to start from satisfy `CapHolds` themselves.

`DeliveryProofs` proves, for `MCDelivery`'s specification and any endpoints,
answers, delays, tasks, documents, vendors, workers and crashes:

- `FatesExplained`: `Spec => []FateExplained`; `JobsAskedOnce`: `Spec => []AskedOnce`;
  `ReceiptsTell`: `Spec => []ReceiptTellsFailover`. `DeliveryInv` joins `Held` with
  what is stored (`RowsOK`) and what a request is about to store or call
  (`PendingOK`): the delivery it records is explained by the answer it got
  (`Explained`), a delivery or job in a worker's hands is still due or active, a job
  to be enqueued is new and waits, under an id made of its task and its time
  (`Asked`; BullMQ ignores one whose id is taken), and of a document under way the vendors
  before the present one, in the settings as they were read, were tried and failed
  (`Underway`). Only subscriptions and settings are ever in the hands of two
  requests. The assumptions say that a Retry-After is a number or null, that a job's
  id is not null, and that the deliveries, jobs and documents there are at the start
  are as the properties say.

`BackOfficeProofs` proves, for the specification of `BackOffice`, in which the handlers
of all eight components of 5.2 run at once, and any scenes, inputs and workers:

- `EverythingNumbered`: `Spec => []NumberedOneByOne`, under any overlap;
  `ConversionsAgree`: `Spec => []ConvertedOnce`; `TimelinesTell`:
  `Spec => []TimelineTells`; `InvoicesPostedOnce`: `Spec => []PostedOnce`;
  `HoursAsStamped`: `Spec => []HoursMatchTimes`, these four for rows no two requests
  had in hand; `BankImportsOnce`: `Spec => []ImportedOnce`; `ReadModelsOfLastRun`:
  `Spec => []ReadModelOfLastRun`; `NumbersHaveNoGap`: `Spec => []InvoicesWithoutGap`;
  `NoOrphans`: `Spec => []ParentsFirst`. All follow from
  `BackOfficeAlways`: `Spec => []BackOfficeInv`.
- `LiquidationAgrees`: `Spec => []LiquidationNearLedger`, for any lines, rates and
  natures. Three computations of the tax meet: `createInvoice` rounds every line
  (`LineTaxed`), `acceptInvoice` posts the total of that, `ivaLiquidation` adds up
  exact amounts (`LineTaxExact`) of whatever is accepted at the moment. By `Sound` an
  invoice has the amounts of its lines (`AmountsRight`) and, accepted, exactly one
  entry with its tax (`Registers`); hence the entries of a year stand one to one for
  its accepted invoices (`EntriesOfYear`), a sum over the entries is a sum over the
  invoices (`SumTaken`), and what rounding does to one line (half a cent, from the
  definition of `ToCents`) adds up over lines and then over invoices (`ExactTax`,
  `SumWithin`).
- `DealsOnlyGoForward`: `Spec => DealsGoForward`, and `QuantityOfLastOperation`:
  `Spec => ProducedByLastOperation`, what a step may never do, from the same invariant.
  Only a COMMIT changes rows (`OnlyWrites`). One that saves a converted quotation
  leaves it converted, to the order it had, and shipped goods stay shipped
  (`StaysConverted`, from `Changed`). One that saves a produced quantity is the
  second transaction of the completion of an operation: what it writes is what the
  last operation made (`Reports`), still so when it commits, because nobody saves an
  operation without having its order in hand (`Belongs`, `StillMade`).
- None of these is inductive, because what a request is about to save decides them
  as much as what is stored. `BackOfficeInv` joins `Held` with `Sound` (the stored
  rows: columns, dates and hours that fit the status, numbers in order, orders,
  entries, operations and transactions that refer to rows there are, invoices of a
  year numbered in order, accounts of the seed under their parents, conversions and
  entries that match) and with `PendingOK` for every request: each transaction still
  to commit is one that `Sound` survives (`UnitOK`: a row to insert is the only one of
  its table in it, carries at most the next number and, if it is an order from a
  quotation or the entry of an invoice, comes with the object that converts or accepts
  it; a row to update keeps what never changes), its transactions touch different
  rows, and what it read, however stale, still has those columns (`ReadOK`). `ImportInv`
  is what the import of bank transactions needs besides: an account in no hands has
  what its cursor and its provider say, and the request that has one in hand is either inserting it
  or still to commit exactly the transaction it lacks and then the cursor (`Syncs`).
  `ModelInv` is what the read models need: cursors have different projections
  (`ModelsOK`), and a request that has a cursor or a row of a read model in hand is a
  run at one of its stages (`IsRun`): its cursor is to be saved as running
  (`Starts`); it is to read the source (`Projects`); it has the new rows in memory,
  under ids nobody else has (`Refreshes`); or it is to commit a transaction that
  deletes every row there is of its projection and inserts its own (`Swaps`), and
  then the cursor that says so (`Finishes`). An uncontended cursor has one run, and
  what that has in hand nobody else has (`Alone`), so between the two commits the
  cursor says running, and after them what it says is so. This holds of runs that
  fail and of runs that are lost between the commits, so the property makes no
  exception for them.
- The argument is in two halves. A COMMIT of a transaction that is `UnitOK` keeps
  `Sound` (`StillSound`, with the unique index in `StillInOrder`) and keeps the pending
  transactions of everybody else `UnitOK` (`StillOK`), because rows of lasting tables
  never go (`Grown`) and rows two requests have in hand are `contended`. And every
  handler starts or goes on with transactions that are `UnitOK`; `BeginInv`, `GoOnInv`
  and the shapes above them (`Inserts`, `Updates`, `UpdatesEach`, `GoesOnNoMore`) reduce
  that to the row a handler computes, one lemma per handler.
- An invoice about to be inserted has a number at most one more than its year has now
  (`InYear`), because it was one more than there were when they were counted and
  invoices never go; the unique index refuses every number there is, which leaves
  exactly the next one (`StillDated`). An account about to be inserted by a seed has
  its parent there already (`UnderParent`), because the template names parents first
  and the seed goes by the first code that is missing (`ParentStored`).
- `BackOfficeAssumption` says that null is no number, no stage of a deal and no
  projection, and that the databases to start from are `Sound` with bank accounts that
  are `Imported` and read models that are `ModelsOK`, `AmountsAssumption` that lines are
  listed with whole numbers for net amount and rate, `AccountingAssumption` that the
  seed template names parents before children. TLC evaluates all three for `company`.

`Sums` holds what the proofs need of sums: `MapThenSumSet` and `FoldLeft` of the
community modules choose the next element by a CHOOSE, and the library proves nothing
of them. Its lemmas, for functions into the integers on any finite set, are by
induction on the size of the set: the order of adding does not matter
(`SumAnyOrder`, `SumMore`), a sum along a sequence is a sum over its positions
(`DownIsSum`), terms that differ by so much give sums that differ by no more than
their total (`SumWithin`), and a sum may be taken along a one-to-one function
(`SumTaken`). No lemma takes an operator, so each operator that is summed in the model
needs a short lemma that ties it to a function (`NetAdds`, `DueAdds` and the like).

All the strengthened invariants were checked with TLC, on the instance of the
component's run, before they were proved.

Only model-checked: `EveryRequestEnds`, `DeliveriesEnd` and `JobsEnd`, which are
liveness under fairness, out of the prover's reach; and `FrozenTotals` and
`ConsolidatedAlike`, which compare sums over several tables grouped by company or by
document. `FrozenTotals` needs an invariant on the lines a generation has in memory,
with the runs it was begun by, as `ModelInv` is for read models; `ConsolidatedAlike`
needs sums split by the company a row belongs to. Both invariants are TLC's alone.

## 7. Plan

1. *Orders and stock*: done (section 2).
2. *Procurement*: done (sections 3 and 4).
3. *Selling, accounting, treasury, personnel, customs, shop floor, reporting,
   consolidation*: done (5.2).
4. *Identity and the assistant*: done (5.3).
5. *Webhooks, queues, archive*: done (5.4).
6. Proofs on `RequestsProofs`, for every component on `Requests`: done (section 6).

## 8. What is not modelled

Formatting and parsing (the XML of FatturaPA, Intrastat's record layout, PDF, CSV and
HTML exports, IBAN, SEPA), the threshold and rate tables of IOSS, password hashing,
caching of product lists, logging, metrics and the audit log, the calculations over
query results of scheduling, forecasting, anomaly detection and ESG, the copilot's
tools, its redactor and the chunks it ingests (a hash looked for, then an insert
without a unique index), a tenant's settings but for its own cap, the connector stubs, migrations and seed data. Several tenants are modelled where
they meet (`Identity`, `Archive`); elsewhere every query names one tenant and one is
enough. PROJECT.json lists every component with the reason.
