# Verification of the auto-parts platform

The platform is a Go server (`cmd/api`, `internal/*`) on PostgreSQL for stores,
mechanics and consumers of auto parts, and an agent on the store's till
(`cmd/store-edge`, `internal/storeedge`) that sells while the server is out of
reach, under a manager that starts, stops and updates it
(`cmd/store-edge-manager`, `internal/storeedgemanager`). This directory holds
TLA+ models of the parts whose correctness depends on interleaving, time,
retries, failures or long sequences of calls, TLC runs that check them on small
instances, and TLAPS proofs, for every value of the constants, of every invariant
and every action property that those runs check.

## 1. Inventory

### 1.1 What keeps state, and how it changes

Every mutating method of a service is one SERIALIZABLE transaction. It reads
rows (`FOR UPDATE`), decides, writes and commits; any error rolls everything
back. HTTP clients repeat a request under the same idempotency key. There is no
background worker in the server: expiry happens when somebody lists or searches.

| component | state | operations that change it | what makes it correct |
|---|---|---|---|
| inventory (`internal/inventory`) | `inventory_balances` (`on_hand`, `reserved`, three CHECKs), movements | `Adjust`, and every document below | on hand is what the documents say; `reserved` is the sum of the open holds and never exceeds `on_hand` |
| sales (`internal/sales/service.go`) | `sales`, `sale_items`, journals | `Create` | one sale per key; never sells held stock |
| purchases, returns | `purchases`, `sales_returns`, `purchase_returns` and items | `Create`, `CreateSaleReturn`, `CreatePurchaseReturn` | nothing comes back twice |
| network reservations (`internal/reservations`, `sales/reservation_fulfillment.go`) | `network_reservations` | `Create`, `StoreTransition`, `CancelBuyer`, `FulfillReservation`, `ExpireDue` | a hold ends exactly once, by release or by sale, and not after its time |
| procurement (`internal/procurement`) | `network_procurements` | `Create`, `SellerTransition`, `BuyerCancel`, `Receive`, `ExpireDue` | as above; seller's sale and buyer's purchase exist together |
| store edge agent (`internal/storeedge`, `cmd/store-edge`) | `state.json` (queue, snapshot), `config.json` (pairing) and their copies in memory | `QueueSale`, `Retry`, `Syncer.Run`, pairing | no receipt is lost while its file can be read; a sale is in the books once; a sold unit is not offered again |
| edge, cloud side (`internal/edge`, `/v1/edge/*`) | `store_edge_pairings`, `store_edge_devices` | `CreatePairing`, `PairDevice`, `Revoke`, the sales handler | a replay posts nothing new |
| edge manager (`internal/storeedgemanager`, `cmd/store-edge-manager`, `cmd/store-edge-updater`) | child process, update state, staged executables, the executables themselves | `Start`, `Stop`, `Restart`, `Check`, `Apply`, the helper's exchange, the launcher, systemd | at most one worker, and `Stop` reaches it; a shutdown leaves none behind; a complete executable is always in place |
| trade accounts (`internal/tradeaccount`) | accounts, requests, ledger | charge, payment and adjustment requests, `resolve` | each confirmed request is one ledger entry |
| cheques, banks (`internal/finance/checks.go`, `intelligence.go`) | cheques, journals, bank lines | `CreateCheck`, `TransitionCheck`, matching | accounts agree with the cheques' statuses |
| settlements (`internal/finance/service.go`) | settlements, journals | `CreateSettlement` | nobody settles more than is due |
| daily closing (`internal/operations`), expenses (`finance/accounting.go`) | `daily_closings`, `expenses` | `CloseDay`, `CreateExpense`; `CashReport` reads seven tables | the report agrees with the journal, and says when a closed day has changed |
| pricing (`internal/pricing`) | price lists, quantity breaks, settings, the list of a customer | list, settings and breaks CRUD, `Quote` | the quote is the price a sale accepts; the margin is kept |
| units, catalogue, import (`internal/productunit`, `internal/catalog`) | products, units, import batches | `Create`, `ReplaceProductUnits`, `Import` | an import touches no stock that has a history; stock and its value agree |
| tax (`internal/tax`) | settings, rates, product codes, invoice numbers | settings, rates, numbering, void requests | official numbers rise and are not given twice; both ways to tax a line agree |
| workshop (`internal/workshop`) | jobs, items, payments | `CreateJob`, `AddItem`, `AddPayment`, `Complete` | amounts agree with the items and payments; a completed job is in the history once |
| vehicle notebook (`internal/vehiclenotebook`) | notebooks, entries, owner's code | `Create`, `AddEntry`, rotation of the code, the owner's report | a replaced code no longer works |
| the rest (stores, parties, fitment, network search, documents, management, platform, web) | rows without interplay | CRUD and queries | - |

### 1.2 How the parts interact

* Counter documents, reservations and procurements share the rows of
  `inventory_balances`; nothing but their transactions and the table's CHECKs
  keeps them apart.
* Procurement writes into two tenants at once: the seller's sale and the
  buyer's purchase.
* Several `Syncer.Run` overlap in one agent: the ticker's, one per offline sale,
  and those of the sync, retry and pair requests. Each `Store` method holds the
  mutex; the calls to the cloud do not.
* A `Check` and an `Apply` of the manager share nothing but the state of the
  `Updater`, by which an `Apply` knows that another one is under way and which
  a `Check` overwrites.
* Sales, purchases, returns, settlements and cheques write journals over the
  same accounts and entries into the same party ledger; a settlement, a cheque
  and an endorsement are compared with the sum of those entries.
* A fulfilment on a mechanic's credit creates a request in the trade accounts,
  whose ledger is another one; nothing flows back from there.
* The agent's sales reach the server through the same `sales.Service.Create`
  as the web's, under the key `edge:<device>:<local id>`.
* The manager starts and kills the agent at any time; requests, the goroutine of
  each dead worker, an update and the shutdown call the same `Supervisor`. The
  helper outlives the manager, which it stops, replaces and starts again.
* A sale looks its price up again, by code of its own, in the tables that the
  quote has read; it takes its tax and its official number from the tax settings
  and the cost of its goods from the balance that an import may have opened.
* The report of a day adds up the documents of seven tables; the journal is
  written by each service for itself.
* A completed job writes its items into the notebook of its vehicle, where the
  owner, stores and other mechanics write too.

### 1.3 What is hard here

Interleavings of transactions on one row; holds that time out on five different
paths with three different comparisons; retries of requests that did succeed;
several lines of one product in one sale; debts that documents, settlements,
cheques and endorsements change in any order; cheques that come back to a status
they had before; rounded refunds; charges that both sides may ask for; lost and
late answers between agent and cloud; a stop of the agent between a change in
memory, the write of the file and the answer, and a start that cannot read the
file; overlapping synchronisations;
pairing a till again while sales wait. Goroutines that sleep outside the lock
and then start a worker; an exchange of executables that can fail or be cut off
after every rename and copy;
documents and expenses dated into days that are closed; prices, units and taxes
that change between a quote and a sale; rounding of prices, costs and taxes over
fractional units; opening stock for products that are named twice; codes that
are checked and rotated, and a report that is read, statement by statement,
outside any transaction.
`PROJECT.json` lists these hazards at their lines with the property
that covers each, and those that no property covers yet.

## 2. Modules

| module | models | remarks |
|---|---|---|
| `Sums` | sums of amounts over rows | a sum is the cardinality of a set of single units (for amounts below zero the difference of two), so it needs no recursion and can be proved about |
| `LineTotals` | sums of quantities over document lines | likewise |
| `Stock` | `inventory_balances`, its CHECKs, `releaseStock`, the clock, `sale_items`, `purchase_items` | shared by the three modules below |
| `CounterDocuments` | sales, purchases, both returns, adjustments | one action per `Create...`; sales have several lines |
| `Reservations` | network reservations and their fulfilment | one action per outcome of `transition`, `FulfillReservation`, `ExpireDue`, `Create` |
| `Procurements` | procurement orders and `Receive` | likewise |
| `NetworkStock` | the composition, its properties, its fairness | |
| `HoldPromise` | abstract: free stock, and holds that end once | `NetworkStock` implements it (`KeepsPromise`) |
| `EdgeSync` | agent, network and cloud side of one product | mutex sections are actions, calls are three steps |
| `PartyLedger` | what counter documents and settlements do to accounts and debts; refunds with their rounding | one action per handler |
| `Checks` | cheques and their transitions | one action per `case` of `TransitionCheck` |
| `TradeAccounts` | the money side of a fulfilment; requests and the mechanics' accounts | one action per handler |
| `StoreBooks` | the composition of the three, and its properties | |
| `Supervisor` | `supervisor.go`: start, stop, restart, a worker and its goroutine | sections under the mutex are actions |
| `AgentLifecycle` | the `Updater`, the helper, launcher, unit and the manager process around `Supervisor`; its properties and its fairness | one action per statement that a crash can follow |
| `ProductUnits` | units, conversions, what the base quantity of a sale is | quantities in parts of a base unit |
| `PriceLists` | lists, breaks, settings, the choice of a price and the least one | one action per handler |
| `Catalog` | products, their units, the import with its opening stock | an import is one action per row, then a commit or a rollback |
| `TaxLines` | the tax of a line, both ways | operators only |
| `TaxDesk` | settings, rates, codes, invoice numbers, requests to void | one action per handler |
| `SaleDesk` | `sales.Create` as to price, margin, tax, number and cost, over the four above | |
| `DayBook` | payments of all documents, expenses, reports and closings | a report is two actions, one for each statement |
| `VehicleNotebook` | notebooks, entries, the owner's code | one action per statement of a rotation and of a report |
| `Workshop` | jobs, items, payments, completion, over `VehicleNotebook` | one action per handler |
| `Shop` | `SaleDesk`, `DayBook`, `Workshop` in one specification | |
| `MCNetworkStock`, `MCEdgeSync`, `MCStoreBooks`, `MCAgentLifecycle`, `MCShop` | instances for TLC | |
| `SumsProofs`, `LineTotalsProofs` | lemmas on sums: one row more, fewer or changed, unions, bounds | |
| `NetworkStockProofs`, `EdgeSyncProofs`, `AgentLifecycleProofs`, `ShopProofs` | theorems of the module each is named after | |
| `StoreBooksProofs`, `StoreMoneyProofs` | theorems of `StoreBooks`: trade accounts and cheques; balances, ledgers and refunds | the second uses the first |

There are five specifications: `NetworkStock`, `EdgeSync`, `StoreBooks`,
`AgentLifecycle` and `Shop`. The stock modules know no money and the money
modules no stock: what a document does to one does not depend on the other,
except that a refused document does neither, and refusals are steps the model
need not take. `AgentLifecycle` and `EdgeSync` meet where a worker exits: to
`EdgeSync` that is a restart, at any point.

### 2.1 Conventions of the stock modules

A transaction is one action. An error is a rollback, hence no step. A repeated
request finds its document by key and commits nothing, hence a stuttering step:
this is the guard `~Posted(...)`. `Create` of a reservation or an order first
runs `ExpireDue` in a transaction of its own and ignores its failure; the
action takes any subset `S` of the due rows, because the sweep skips locked rows
and has a limit, and `S = {}` stands for the failed sweep. Events of other
clients between the two transactions are covered, since the sweep is also an
action by itself. Quantities are whole base units. Prices, payments, journals,
customers, authorisation and offers are left out: they guard actions but do not
depend on the stock, so leaving them out only adds behaviours. There is one
clock; the server compares with its own and with the database's, which the
deployment keeps together.

An order remembers its `row` and `qty` after it has ended, as the table does.

### 2.2 Conventions of `EdgeSync`

`state` and `config` are the memory of `Store`, `stateFile` and `configFile` the
files. Every write succeeds or fails (`Saved`, `NotSaved`); a failed write
leaves the memory changed, because the code changes it first. `writeJSONAtomic`
renames a temporary file, so there are no torn files. A read may fail too: `Open`
drops both errors of `readJSON` (`store.go:33`, 34), so a restart finds either
what is in `state.json` or an empty queue, and either the device of
`config.json` or none (`OpenState`, `OpenConfig`); the next write of a process
that began with an empty queue replaces the file. Two ghosts follow this:
`unread` holds the sales that are in the file and that this process has not read,
`lost` those that such a process has written over. A push is three steps:
`PushSale` (sent), `ServePush` (the handler's transaction), and one of
`MarkSynced`, `MarkConflict`, `MarkPending`. `LosePush` ends it without an
answer, and the request may then still arrive (`ServeLate`). `HandleSale` answers
"created" or "refused": every error of the handler is a 4xx, transient ones
included. A `Run` copies the configuration when it begins. `SetSyncResult`
only writes the state again and is merged with the write before it.
The server's table of sync events is left out, since nothing in the program
reads it. Local ids are random in the code and never reused in the model, not
even by a sale that a restart has forgotten. `posted[d][s]` counts the sales the
cloud has for local sale `s` under device `d`.

Two more ghosts say what overlapping Runs do to each other. `run[w].unseen` are
the sales that other Runs have marked since `w` listed the queue, and after its
fetch those they have marked since then. `state.overlooked` are the sales that
the snapshot in use still counts as stock and that were not deducted, since
another Run marked them synced between its fetch and its application. No guard
reads a ghost.

### 2.3 Conventions of the money modules

One store of one tenant. As in the stock modules a handler is one transaction
and one action, and a repeated request is a stuttering step (`~Known(...)`).
`accounts[a]` is debit minus credit of all journal entries of account `a`, and
`owed[p]` what `partyBalanceTx` adds up: what a customer owes, or what the store
owes a supplier. Cash and card clearing are one account, and so are all bank
accounts: the code treats them alike and no property tells them apart. Accounts
on which nobody owes anything (sales, tax, inventory, cost) are left out, so a
journal shows only its other entries. A document has one line. A sale carries no
tax: a return rounds the tax of a line apart from its net amount, by the same
rule. Prices, discounts and units only decide the total, which is an input.
The receipt of a procurement is, for money, a credit sale and a credit purchase
of two stores, and adds no action of its own.

The sale of a reservation has the reservation as its key, since its idempotency
key is made of it. Its conditions on stock and time are in `Reservations`;
leaving them out here only adds behaviours. A trade account exists once there is
a request for it (`HasAccount`). Requests have no idempotency key: each call
makes a new row. The keys of cheque transitions are the clients'; a transition
in progress twice is covered, because the second finds the event of the first or
fails (`FOR UPDATE`, the unique index).

### 2.4 Conventions of the agent's lifecycle

The agent is installed as a systemd user service; the Windows service and an
installation without a service are left out. What happens under the mutex of the
supervisor or the updater is one action, and so is each statement of `Apply`, of
the helper and of its copy after which a crash leaves something else on the disk.
An executable is absent, whole or a part of some version; a staged file belongs
to its version. `Stop` is two actions: it tells the worker to exit, and later
returns, because the worker has exited, has been killed, or was not waited for
any longer. Failed calls, workers that die by themselves and crashes are faults,
and `MaxFaults` bounds them; a crash of the manager may be one of the machine and
take the helper along. Signatures and checksums are taken to be right: a loaded
file is whole or the load failed.

A `Check` may come at any time and overwrites the state of whatever `Apply` is
under way (`update.go:88`); a second `Apply` is then let in (`update.go:114`),
and may launch a second helper, or work beside the first one. The model has all
of this, with any number of `Apply`, `Check` and helpers. Two that write the same
staged file are told apart by `by`: who is writing it now. What the earlier
writer has left is never complete, whatever it has verified of its own bytes.
A helper waits for the manager that launched it (`launcher`), not for one that
systemd has started since.

`disturbed` is a ghost: two updates were under way at once (`~ OneUpdate`), or
the machine stopped while a helper copied the new worker (`CopyCutOff`), and since
then the updates have not come to an end with a complete worker in place.
`WholeCopyKept` excepts these states, because nothing holds of the files in them:
without the exception TLC finds, with no fault at all, an `Apply` that a `Check`
has hidden from a second one, and after 15 steps neither a complete worker nor a
saved one; after 19 steps both updates have ended, and the store is left with an
incomplete worker. A helper that is cut off in its copy leaves a truncated
worker, and the launcher only tests that the file can be executed. A copy that
fails is not excepted: the helper undoes it. `Noted` computes the ghost beside
the action and constrains nothing; `Alone` is for steps of the supervisor, which
touch no file.

### 2.5 Conventions of `Shop`

Its three desks share no table, except that jobs and the owner's code both
append to the entries of a notebook, which neither reads. No step of one enables,
disables or alters a step of another, and no property relates them. A behaviour
has therefore one `focus`, chosen at the start: every state of each desk is still
reached, and the sum of the desks is checked instead of their product.

*Sales.* One store, one warehouse, one line paid at once. Quantities in base
units are counted in `Parts` (two: a half can be held), so that base quantities
and costs are really rounded. A price that is looked up is a set with one price
or none; `FirstFound` takes the first set that has one. An import is one
serializable transaction over all rows of its file: `BeginImport`, an `ImportRow`
for each, and `FinishImport`, which alone writes to the tables; `importing` holds
what the transaction would write (its draft). Nothing else happens between the
rows, since a transaction that met a change would be rolled back. `AbandonImport`
is that rollback: after a row with invalid units, or after any failure. Which
product a row of an
import means is an input, so two rows may mean one product. `moves` counts the
movements of a product, the opening ones apart; `inventory` is the `INVENTORY`
account.

*Day book.* A document is what it pays: a kind, a method, an amount; `moved` holds
their sums per day, since the code adds up too. Days are UTC days, as in the
containers of the repository. A sale of an edge device counts on the day it is
synchronised. `CashReport` reads the sums (`operations/service.go:349`) and the
closing (356) in two statements on the pool, outside any transaction: `ReadSums`
and `Tell`, with any documents and closings between them. `cashFlow` is
one statement, hence one read. `changed` is a ghost: the days with a cash
document after their closing; so are `wasClosed`, `wasChanged` and `missed` of a
report: whether its day was closed, and changed, when the sums were read, and
whether a cash document came after them and before the closing.

*Jobs.* Each operation is a serializable transaction on its job. Quantities of
items are whole. A purchase that is fulfilled may be attached to any number of
jobs: nothing in the code forbids it.

*Codes.* The handlers of the notebook run each statement for itself, so a
rotation is read, store, answer, and a report is check, append. A code stands
for its hash and no notebook gets one twice. `replaced` and `retired` are ghosts:
the codes that have been replaced, and those a caller has been told of.

## 3. Runs

| run | question | bounds |
|---|---|---|
| `NetworkHolds` | do balances, holds and documents agree in every interleaving? does an overdue hold only expire? do the services implement `HoldPromise`? does every hold end? | `FairSpec`, 2 reservations, 1 procurement, 1 sale of up to 2 lines, 2 rows, clock to 3 |
| `CounterStock` | do returns, corrections, purchases and sales keep to their documents around a hold? | 1 sale, 1 purchase, 1 adjustment, 2 returns of each kind, 1 reservation |
| `EdgeSales` | are receipts kept, and settled in the end? is what is synced in the books, and once? what can overlapping Runs offer twice, and which conflicts can they reopen? | `FairSpec`, 2 sales (the first with two lines), 2 Runs, 1 device, 2 units of which 1 is sold elsewhere, 2 faults |
| `StoreCheques` | do debts, journals and cheques agree after any transitions? is a repeated request harmless? does nobody pay more than is owed? | 1 customer, 2 suppliers, 1 sale, 2 purchases, 1 return, 2 cheques, 3 transitions, amounts to 2 |
| `StoreTrade` | do refunds add up? are network sales charged once, and balances what was confirmed? | 2 reservations (one a mechanic's) of up to 2 units and prices 3 and 1, 2 returns, 1 settlement, 2 requests |
| `Agent` | is there ever a second worker, or one left after a shutdown? a moment without a complete executable? does a worker that is wanted come back? | `Spec` with the fairness of goroutines, 2 workers, `main` and 1 request, 1 helper, 1 check, 3 versions of which the third brings a manager, 1 fault |
| `Shop` | is the quoted price the price of the sale? the margin kept? stock worth its account? numbers, reports, jobs, codes and imports right after any sequence? | 1 product, 2 units, 2 lists, 1 customer, 4 changes of the books, 2 sales; 2 days, 2 documents, 1 expense, 2 closings; 2 jobs of up to 2 items and 2 payments, 1 vehicle, 3 codes, 2 calls |
| `EdgeReplay`, `EdgeStaleSnapshot`, `EdgeConflictLost`, `AgentOverlap`, `StoreReceivable` | what the documents promise and the code does not keep | section 4 |

Two stores with one row each are enough for orders between stores, and two
holds in one row for their competition; a third hold adds nothing a pair does
not show. `MaxQty = 2` with two units in stock lets one hold take all or half of
it and a two-line sale exceed the free stock only with its second line. The
clock goes to 3 with times to live of 1, so that a hold can expire, be due, and
meet the next one. Times to live of equal length are no restriction: who
expires first depends on when the orders were placed.

Three transitions let a cheque be endorsed, come back and be endorsed to the
other supplier, or be deposited and bounce beside a second one that clears.
Half of a price of 3 is rounded up, so that the second half is less than its
share; half of 1 leaves nothing for the second, which then cannot come back.
Two requests for one mechanic are a charge by each side, a rejected charge and
its repetition, or a charge and a payment.

With two sales one can be marked or posted while another is queued, listed or
pushed, and the first has the product on two lines, which together exceed what
each of them alone may take. Two Runs are enough for one to overtake the other,
and two faults for a lost answer with a restart, or two restarts of which the
second finds what the first has written over. One device is enough for what
`EdgeSales` asks; that the keys of two devices differ is what `EdgeReplay` is
about, and the theorems hold for any number of devices, Runs and sales.

A second worker needs one goroutine that sleeps and one request, or two
goroutines; two workers with one request and `main` give both. Versions 1, 2
and 3 give an exchange of the worker alone, one of both executables, and one
after the other. The fault is a failure or a crash after any one statement. One
`Check` hides an `Apply`, so that the second one, or the helper of the first and
a second `Apply`, are under way together. With more than one fault, with two requests and with
two helpers the instances are too large for the run; there `WholeCopyAlways`
stands for every number of each.

Four changes of the books are a product with a pack, a list, a break and a
customer on that list, or settings of the margin or the tax beside them; two
sales let one see what the other left. The prices asked for lie on both sides
of every price and limit that the instance can have. The imports are one with a
pack, the same with a barcode moved, and one that names the product twice. Two
closings are one of each day, an expense is dated into any of them, and every
document and closing may come between the two reads of a report. A
code is replaced twice while another rotation or a report is under way.

A fault is a lost call, a failed write, a transient refusal, a crash or a
restart; `MaxFaults` bounds them in a run, and the proofs hold for every bound.
Deadlock is checked in `NetworkHolds`, `CounterStock` and `Agent`, where it says
little, since a sweep that finds nothing due, a start or a check is always
possible; the edge runs switch it off, because an agent that has lost its pairing
and finds no device left to be paired as really stops. The money runs and `Shop`
switch it off because nothing is left to do when every document of the instance
is posted. Symmetry is used where keys, calls or jobs are interchangeable, and in no run
with liveness.

Type invariants are proved, and are an invariant of one run only
(`StoreCheques`): a wrong value shows sooner in the other properties.

### 3.1 Fairness

`HoldsEnd` (in `NetworkHolds`) assumes that time passes and that a sweep of all
due rows happens again and again. No worker does that: `ListBuyer`, `ListStore`,
`ListSeller`, the network search and every `Create` do. The property is therefore
about a platform whose lists are being opened; without that, holds last for ever,
which is what the code says.

`ReceiptsSettle` (in `EdgeSales`) assumes weak fairness of starting a `Run` (the
ticker fires every `SyncSeconds`) and of the steps of each `Run` (the HTTP client
has a timeout, so a call ends one way or the other). Faults are bounded, so they
end. It lets go of a sale when the pairing, or the file of the queue, was lost in
a restart: nothing brings them back. It is checked with two overlapping Runs and
one device; that it also holds when the till is paired again is not checked.

`WorkerComesBack` (in `Agent`) assumes that the goroutine of a worker that has
exited goes on: it takes the mutex, sleeps, and calls `Start`. Nothing is assumed
of requests, updates, the helper or systemd: nobody has to ask for anything. The
property lets go when `failed` holds: the goroutine drops the error of `Start`
and nothing tries again until the next request.

### 3.2 Mistakes

Each module defines, next to some operations, what a plausible bug would make
of them ("Mistake:" in the comments), for instance `BookSaleAgain` (the key is
not looked up), `ReservationMovesTooMany` (an ended reservation can be
cancelled), `ForgetWorkerOfAnyone` (the goroutine of a dead worker clears
`s.cmd` whosever it is), `ChangedByNet` (a closing is compared by its net sum) or
`WithOpeningStockAgain` (an import opens stock that is sold out). No action uses
them. They are listed under `mutants` in `PROJECT.json`: with the operation
replaced by the mistake, the run named there finds the property violated, which
shows that the property can fail.

## 4. What the violation runs show

1. `EdgeReplay`. `PHASE_15_7_RUN.md:20` promises that a replay makes no second
   sale, because the key is derived from device and local id. `SavePairing`
   replaces the device while sales wait in the queue; a sale that was posted but
   whose answer was lost is then pushed under a new key and posted again.
   `PostedOncePerDevice` is what does hold.
2. `EdgeStaleSnapshot`. `COMPETITIVE_ROADMAP.md:242` promises that replay against
   fresh snapshots prevents double availability. A `Run` fetches a snapshot,
   another one pushes a sale and marks it synced, and the first applies its older
   snapshot without deducting that sale. No fault is needed. It lasts until the
   next snapshot.
3. `EdgeConflictLost`. `PHASE_15_7_RUN.md:22` promises that a conflict waits for
   the operator. `MarkAttempt` writes whatever its `Run` found over what another
   `Run` recorded, so a conflict can become pending again by itself.
4. `StoreReceivable`. `PHASE_9_RUN.md:74` says that a fulfilment with something
   due needs a customer, so that Accounts Receivable and the customers' ledger
   remain balanced. A mechanic's reservation may be fulfilled on credit without
   one (`sales/reservation_fulfillment.go:131`): the receivable is debited, no
   customer owes it, and no confirmed payment in the trade account ever credits
   it. `LedgersReconcile` states what does hold: the difference is exactly what
   was left due on such sales.
5. `AgentOverlap`. `Apply` answers a second request with "an update is already in
   progress" (`update.go:114`), a helper that has taken over included. The state
   by which it knows is overwritten by every `Check` (`update.go:88`): an `Apply`,
   a `Check` and an `Apply` are two updates of the same files. No fault is needed.

What overlapping Runs cannot do is in `EdgeSales`: what is offered twice never
exceeds the units in `state.overlooked` (`DoubleAvailabilityBounded`), and only a
Run that listed the queue before another one recorded the conflict reopens it
(`OnlyOverlapReopens`). What overlapping updates can do is in section 2.4;
without them, `WholeCopyKept` holds through every failure and crash but the
stop of a machine in the middle of the helper's copy.

Some things that no document rules out came up too; the models have them as
steps. A `Stop` while the goroutine of a dead worker sleeps is undone by its
`Start`, which does not ask whether a restart is still wanted
(`supervisor.go:106`); `PHASE_15_8_1_RUN.md:150` shows the sequence without the
sleep. A helper cut off in its copy leaves a truncated worker that the launcher
starts (`cmd/store-edge-updater/main.go:122`). A start that cannot read
`state.json` begins with an empty queue and writes it over the file
(`store.go:34`). A failed restart is not tried again. A day that is closed between
the two reads of a report can be shown as changed after its closing although
nothing came after it (`operations/service.go:356`); `PHASE_11_RUN.md:50` says
that later activity sets the flag, and the page of the closing
(`web/app/store/closing/page.tsx:13`) takes it to mean nothing else. A
purchase can be charged to several jobs (`workshop/service.go:206`). A charge in
the trade account ignores what has been paid since the sale.

## 5. Theorems

All proofs are for arbitrary constants that satisfy the named assumptions, which
TLC evaluates in the runs. Most say that identifiers are apart and finite and
that bounds are numbers (`StockAssumption`, `ReservationAssumption`,
`ProcurementAssumption`, `CounterAssumption`, `EdgeAssumption`,
`MaxQtyAssumption`, `TradeAssumption`, `SupervisorAssumption`, `AgentAssumption`,
`PartsAssumption`, `TaxDeskAssumption`, `DayBookAssumption`,
`NotebookAssumption`). Some say more:

* `KeyAssumption`: the keys of fulfilments and receipts, which the code makes of
  the order's id, are not the keys of counter documents, and a reservation is not
  a procurement.
* `PartyAssumption`: customers are not suppliers, and `MaxUnits <= MaxQty`, two
  bounds of the instance, so that the units of a document can be summed up too.
* `SaleDeskAssumption` and `WorkshopAssumption`: what a request, a form, a row of
  a file or an item can say after the code's own validation of its input
  (`normalizeImportRows`, the checks at the head of `AddItem` and `Create`): a
  product that exists, a positive quantity, a price that is not negative.

A step of one part leaves the variables of the others; each invariant below has
a lemma for that, and one lemma for each action it depends on.

### 5.1 Stock: `NetworkStockProofs`

`HoldInv` makes `HoldReconciliation` inductive. By itself it is not: that giving
up a hold leaves `reserved` a natural number needs the table's CHECKs, and that
the sum changes by exactly one order's quantity needs that an open order has a
row and a quantity (`BalancesChecked`, `OrdersPlaced`). The argument is the same
for every action: either the set of open holds is unchanged, or some leave it and
`reserved` falls by their total (`TotalUnion` and the other lemmas of
`LineTotalsProofs`), or one enters it and `reserved` rises by its quantity.
`HoldsBacked` follows: the sum of a set of holds is at most `reserved`, which is
at most `on_hand`.

`DocInv` adds the documents, for `StockAccounted`, `ReturnsWithinDocument` and
`HoldsHaveTheirDocuments`. A line is found by its document's key and its number,
and a return names a line that exists and moves that line's row (`SalesInOrder`,
`PurchasesInOrder`); without this a return's check of one line would say nothing
of the sum over all returns, nor would the sum over the rows be the sum over the
lines. That an order has its documents exactly when it was fulfilled or received
needs `KeyAssumption`: nobody else can post under its key.

`OverdueOnlyExpires` is proved of each transition from its own comparison of
times (`Before`, `<=`, `After`).

`ServicesKeepThePromise` is the refinement `Spec => KeepsPromise`. Free stock is
`onHand - reserved`, the phase of a hold comes from the status of its order
(`PhaseOf`), and its claim is the order's row and quantity. A step either leaves
free stock and phases alone (a stutter: accepting, or making ready), moves some
holds from `held` to `returned` and gives back their sum, moves one to `sold`
while `on_hand` and `reserved` fall together, takes a new one out of free
stock, or is a counter document, which changes free stock and no hold. That what
is taken was free is `BalancesChecked` after the step; that the sum given back is
the abstract one is `HoldReconciliation` before and after it. A `Create` with its
sweep is one step of `HoldPromise` too, which lets holds end and one begin
together.

### 5.2 Agent and cloud: `EdgeSyncProofs`

`EdgeInv` adds to `TypeOK`, `ReceiptsKept`, `SyncedIsInBooks` and
`PostedOncePerDevice` that a Run which is pushing has a sale to push
(`RunsReady`), and that a Run which holds the answer "created" holds it
for a sale in the books (`AnsweredIsInBooks`); the second is what makes
`SyncedIsInBooks` inductive, since the answer is read after the transaction that
gave it. `ReceiptsAreKept` says of a sale with a receipt that only one way leads
out of the file: a start that did not read it, and a write of that process.

`OverlapInv` makes `DoubleAvailabilityBounded` and `OnlyOverlapReopens`
inductive. What is in the books has left the cloud's stock (`BooksLeaveStock`).
What the agent offers, in memory and in the file it may restart from, together
with all it has sold, was in the stock, but for the sales it overlooked
(`Covered`). A Run pushes what is still pending and applies a snapshot that is no
older than the last sale that was marked, but for the sales it has not seen
another Run mark (`RunsAreCurrent`). None of this assumes anything of how many Runs
there are.

### 5.3 Money: `StoreBooksProofs`, `StoreMoneyProofs`

`TradeInv` makes `TradeBalanceConfirmed` and `ChargedOnce` inductive.
`ChargedOnce` needs that a charge never comes before the sale it is for
(`ChargesHaveSale`), so that a fulfilment finds no charge in its way, and that a
key has one sale (`SaleKeysUnique`). A balance is the difference of two sums over
the confirmed requests; that a confirmation changes one of the sums by its amount
needs that requests are rows of their own (`RequestKeysUnique`). For
`ChequeMetadata` and `RequestsActOnce` a lemma for each transition
(`TransitionsAreSound`) shows that a cheque with the metadata of its status
becomes another such.

`MoneyInv` is the invariant of all other properties of `StoreBooks`, which lean
on each other: `DebtsFollowDocuments`, `LedgersReconcile`, `ChequePortfolio`,
`NobodyOverpays`, `WholeReturnsAddUp`. Every step posts one document or moves one
cheque. One document adds its amount to one sum (`SumMore`); a cheque that moves
leaves some of the sums and enters others by its amount (`TablesInv` keeps a
cheque one row, and a receivable one a customer's). `NobodyOverpays` follows from
`DebtsFollowDocuments` before the step: what a settlement, cheque or endorsement
is compared with is what the documents leave. A sale that comes back in parts
refunds its total because the return which completes it takes what the others
have left; that needs the sum of the units that are back (`UnitsWithin`).
It does not say that refunds stay below the total before that: with a total of
3 for five units each single return refunds 1 (`returns/service.go:84-101` rounds
up), and four of them refund 4; the fifth then comes to less than nothing and is
refused. The bounds of `StoreTrade` do not reach this, no document speaks of it,
and the model has the step.

### 5.4 The agent's manager: `AgentLifecycleProofs`

`LifeInv` adds to `OneWorker` and `ClosedStopsAll` that a manager that is
down has no worker, no goroutine and no request (`DownIsOver`), and that as soon
as the supervisor is closed every live worker has been told to exit, however far
the call that told it has come (`ClosedIsTold`). A worker is only started in place
of one that is not alive, so that every live worker is `cmd`; a shutdown tells
`cmd` to exit and sets `closed` in one section of the mutex, and `Start` does
nothing from then on: that is why no goroutine can start a worker behind it.

`WholeCopyAlways` assumes nothing of when a `Check` or an `Apply` may come.
`UpdateInv` says where a complete worker is at every stage of an update as long as
`disturbed` is false: there is one update at most (`OneUpdate`); what it has
verified stays whole until it is moved (`StagedIsWhole`); and between the renames
of `Apply`, or the rename and the copy of the helper, the backup or the staged
file is whole (`ExchangeIsSafe`). A step that lets a second update in sets the
ghost, and what then happens to the files is not bounded; the ghost is cleared by
a step after which no update is under way and the worker is complete, and from
that state the three parts hold again.

### 5.5 The shop: `ShopProofs`

*Day book.* `ChangeIsReported`: the sums of cash received and cash paid out only
grow, so a closing differs from its day as soon as one document came later and
stays different (`DayInv`); the net sum would not do. The same holds of the sums
that a report has read: as long as no cash document came after them they are the
sums of the day, so a closing of that time agrees with them, and one that comes
after such a document never does. `ReportsFollowJournal` is
its own invariant once the sums are known to exist (`JournalInv`): a document
enters the report of one day and the account of its method with one amount.

*Codes and numbers.* `RetiredCodesFail`: the code that works has never been
replaced, nor has one that is about to be stored, and what was retired has been
replaced (`CodesInv`). `OfficialNumbers`: the next number exceeds all given ones,
and settings only raise it (`GREATEST` in the update), so `NumbersInv` needs no
more.

*Jobs.* `WorkInv` keeps each amount of a job apart (`JobsSummed`), since what is
paid may not exceed the total, and turns `CompletedJobsAreHistory`, which counts
entries, into three facts that a step can be checked against: an entry that is
not by hand is of an item of a completed job of that vehicle, no two entries are
of one item, and every item of a completed job has one. The count is then one or
none.

*Sales.* `DeskInv` keeps the value of the stock and the `INVENTORY` account
within half a rial for each movement (a sale rounds its cost once, an opening its
value once), and says the same of the draft of an import that is under way: that
its rows leave alone what has a history (`LiveKept`) is what `LiveStockKept`
needs when the import commits, and its stock and its value agree, which
`InventoryFollowsStock` needs. `MarginGuarded` needs that units in use have a
positive factor and that the margin is at most 90 %; `AllowedPriceKeepsMargin` is
its arithmetic: the lowest price of a base unit is rounded up, so that for units
of whole base units no rounding is left to do. `SalePriceIsQuoted` compares two
programs, which look in the same places but are written apart. A break is found
by its key (`BreaksOk`), so that each place has one price at most; the two find
their prices in the same order, and a sale at another price than the first of
them is one that somebody has to explain.

*Tax.* `InclusiveFindsExclusive`: a line taxed on top, entered again at its total
with the tax included, has the same base and tax, for all amounts and rates: the
two roundings are one, since the tax is within half a rial of its exact value.

### 5.6 What stays with TLC

Liveness (`HoldsEnd`, `ReceiptsSettle`, `WorkerComesBack`) is out of the prover's
reach, as is `ENABLED`; so are the counterexamples of section 4, which are found
by search. Sums are cardinalities (`Sums`, `LineTotals`) and no folds, because
what a recursive definition computes for every input needs induction whose
theorems the installed provers cannot instantiate.

## 6. Not modelled, and the plan

Modelled in part, with what is missing:

* sales of several lines with discounts of the document, allocated to the lines;
  the tax of a return; average cost of a purchase;
* the Windows service, and an installation without a service, of the agent;
* the tax identity of a customer, and what an official invoice prints;
* accounting periods and the matching of bank lines by hand: reports and rows
  that nothing else reads.

Left out for good: queries and reports (management, finance intelligence, network
search, fitment), CRUD without interplay, the Jalali calendar of the reports,
layout of documents and labels, devices (printers, drawers, scanners),
authentication, load and smoke tools, the web interface.

Every invariant and action property of the runs is proved. Proofs to come:

1. More about the abstract side: that `HoldPromise` by itself never lets the free
   stock of a row fall below zero or a hold end twice, so that `KeepsPromise`
   carries it over to the services.
2. That the other documents are idempotent as `RequestsActOnce` states it of
   cheques, where the run can be given such a property.
3. The arithmetic of refunds in parts: by how much they can exceed the total of a
   sale before the last unit is back.
