# Gestion Magasin, verified parts

TLA+ models of the Django backend of *Gestion Magasin* (shops, a central
warehouse called MBR, a till, managers who are warned when stock runs low),
the TLC runs that check them and the theorems TLAPS proves about them.
Everything is translated from the Python source; file and line of every
definition are in `PROJECT.json`, under `map`.

## 1. The system

The backend is a set of Django applications served by Daphne (one thread per
request), a PostgreSQL database and one Celery worker of four green threads fed
through Redis. Three facts of its set-up decide what can go wrong:

* the database runs at READ COMMITTED and `ATOMIC_REQUESTS` is off: a view that
  opens no transaction commits each statement by itself;
* a view reads an object, tests it and saves it later; only
  `stock.services.get_locked_balance` takes a row lock (`select_for_update`) in
  the stock and sales code (the chat assistant's confirmation takes others);
* Celery acknowledges a task before it runs, and `docker-compose.yml` starts no
  beat service.

| Component | State it keeps | Operations | What must hold |
|---|---|---|---|
| Stock movements (`stock/services.py`) | `StockBalance` rows, `StockMovement` journal | move a row under its lock; post a transfer, purchase, inventory, request, adjustment, sale | balance = opening + movements; no stock taken that is not there; a document whole or not at all; locks never wait for ever |
| Stock documents (`stock/views.py`) | transfers, purchases, inventories, requests, their lines and status | create, edit, validate, receive, approve, reject, delete, singly or in bulk | applied exactly when its lines were moved; moved by who may; a posted document is frozen |
| Balances and alerts (`stock/views.py`, `notification/tasks.py`) | `min_stock`, `low_stock_notified_at`, notifications | edit a threshold, PUT or PATCH a row, the alert task, the sweep | an edit of the threshold loses no movement; no more alerts in a period than tasks at once; a false mark heals; low stock is told |
| Sales and promotions (`sales/`) | sales with an idempotency key, lines, customer credit, promotions | record (also offline), void, edit, delete; offer, edit and withdraw a promotion | a key is sold once; an answer is durable; a sale's movements match its status; what was sold can be given back |
| Customers, payment modes (`sales/`) | rows a sale refers to, the credit ledger | edit, delete, create by hand or by a sale | who buys on credit owes it, and nobody else |
| Accounts (`account/`) | accounts, their rights, thumbnail tasks | create, edit, profile, password, SSO, delete one or several | no combination of rights a form refuses; an administrator remains |
| Password reset (`account/`) | a code, a mail task, a deletion task | send, check, reset | only the last code sent opens the account |
| Stores and memberships (`store/`) | stores, memberships with a role | edit, delete if empty; enrol, withdraw | a form leaves the memberships it sent; lists and rights agree; no document without its store |
| Attendance (`attendance/`) | employees, records, imports | edit, record, import a week, delete | hours and lateness follow the clock; one record a day; an import whole or not at all |
| Catalogue (`catalog/`) | products, tracking lines, families, rows of stock | edit, import a workbook, open and delete a row of stock, delete | opening stock counted once; a repeated import changes nothing; a product shows its first line |
| Finance (`finance/`) | expenses | create, edit, delete | an expense is changed by managers of its store |
| Reporting (`reporting/`) | none | dashboard, exports | figures that are shown side by side add up |
| Notifications (`notification/`) | preferences, notifications | edit, list; create and broadcast | what a user chose stays; what is created arrives |
| Maintenance (`ws/`) | the current state, sockets and their groups | save, publish, connect, disconnect | browsers end up with the last state |
| Chat assistant (`chat_ai/`) | conversations, a lease on the model, prepared changes | turn, replay, prepare, confirm | one turn at a time; a change is applied once and to what was shown |
| PDF, text corrector, settings | none | - | not modelled |

How they interact: a sale and every stock document end in
`apply_stock_movement`, which registers an `on_commit` hook; the hook sends the
Celery task that reads the balance and alerts managers over the websocket.
Requests for stock and saves of the maintenance state push to the same sockets.
Every view asks `store/permissions.py` what its user may do where. Imports and
views write the same rows of the catalogue, of stock and of attendance, and
deletions are stopped by foreign keys (PROTECT) or follow them (CASCADE,
SET_NULL) into other applications.

What is hard: interleavings of requests that test a copy and then write every
column of it; transactions that lock rows in opposite orders; views that write
in several transactions; retries by tills that got no answer; workers that die;
tasks that run late, twice or at the same time; messages sent while a browser
connects. The full list is under `hazards` in `PROJECT.json`, each at its line,
with the properties that watch it.

## 2. The modules

| Module | Models | Depends on |
|---|---|---|
| `StockRules` | arithmetic: the steps of a document, when a movement is refused, the row after it | - |
| `StockLedger` | what the service promises: a document is posted in one step | `StockRules` |
| `StockService` | how: requests in transactions, row locks, rollback, deadlock abort, crash, commit, hooks | `StockRules` |
| `StockServiceProofs` | TLAPS proofs about `StockService`, and that it implements `StockLedger` | `StockService` |
| `StockDocuments` | the life of the four kinds of documents in the views | - |
| `StockDocumentsProofs` | TLAPS proofs about `StockDocuments` | `StockDocuments` |
| `Sales` | the till: idempotent recording, void, edits; promotions, customers, modes | - |
| `SalesProofs` | TLAPS proofs about `Sales` | `Sales` |
| `StockAlerts` | one balance row, its editors and the alert task | - |
| `ChatActions` | a change the chat assistant prepares: card, confirmation, purge | - |
| `ChatTurns` | turns of a conversation, the lease on the model, replay | - |
| `ChatProofs` | TLAPS proofs about the two modules of the assistant | `ChatActions`, `ChatTurns` |
| `Accounts` | accounts, their rights, memberships, and who may work where | - |
| `AccountsProofs` | TLAPS proofs about `Accounts` | `Accounts` |
| `Attendance` | employees, records, weekly imports, the deletion of a store | - |
| `Catalogue` | products, tracking lines, families, central stock, the import | - |
| `ImportProofs` | TLAPS proofs about the two modules that take workbooks | `Attendance`, `Catalogue` |
| `Reports` | expenses; dashboards and exports read among writers | - |
| `ReportsProofs` | TLAPS proofs about `Reports` | `Reports` |
| `Notices` | preferences, notifications, maintenance and the websockets | - |
| `NotificationProofs` | TLAPS proofs about the alert task and what it creates | `StockAlerts`, `Notices` |
| `MC...` | constants for TLC (and, for `StockService`, its liveness under what its third request may do) | |

**Composition.** `StockService` implements `StockLedger`
(`Ledger == INSTANCE StockLedger WITH posted <- ...`, `ImplementsLedger`): TLC checks
it on nine documents, `ServiceImplementsLedger` proves it for all.
That result is what lets `StockDocuments` and `Sales` post a document in one
step: they model what surrounds the transaction, `StockService` what is inside.
`StockAlerts` takes one row out of it and adds everybody else who writes the
row; `Notices` starts where `StockAlerts` ends, at the notification to create.
`Accounts` defines the rights, `StockDocuments` and `Reports` use them as
constants or as a variable anybody changes; `Attendance`, `Catalogue` and `Sales`
leave them out.

**How the tables are written.** A row that a view read and saves is in the
place of its request (`at[t]`, or `doing[t]`): Django writes back every column of the copy, so
what others wrote since is lost, and a row deleted since is inserted again. Where
primary keys matter a table is a sequence whose rows are marked `gone`, or a
function on the keys there are. A view without a transaction is one action per
statement; a transaction keeps its writes to itself and holds what it locked.

**StockService.** `balance`, `journal` and `status` are the committed tables.
Each request has a place (`pc`), the document it works on, a position in the
list of calls of `apply_stock_movement` that document makes (`Steps`), a private
copy of the rows it has locked (`view`), the movements it has inserted (`log`)
and the hooks it has registered. `LockRow` is `get_locked_balance`, `ApplyStep`
the rest of `apply_stock_movement`, `SkipStep` the inventory line whose count
agrees, `RefuseStep` a `ValidationError`, `Commit` the save of the status and the
COMMIT. `DeadlockAbort` is PostgreSQL's: a request on a cycle of waits is rolled
back. The status is read in `Open`, before the transaction, as the views do.

**StockDocuments.** `row[d]` is a document and its lines; a line remembers the
payload it came with, so that two edits can be told apart. An operation is
`Fetch` (the view reads a copy and asks for the user's role in its store), then
`Refuse` or the writes. The PUT of a transfer or a purchase ends in `Write`,
`ResetStatus`, `LoadLines`, `Post`, because the code commits between them; that
of an inventory in `Write` alone. Several requests are approved in one
transaction, several documents deleted in one statement, each with the tests the
views make for it; a document may be moved to another store while it is a draft.
`posted` remembers which lines were moved, in which store and for whom.

**Sales.** `create_sale` is `Prepare` (the key is looked up, promotions, customer
and mode resolved), `Insert` (the unique index, which makes a second insert of
the same key wait and then fail) and `Post` (the movements, the credit entry;
COMMIT), then `Answer`; an insert or an edit that would bring a key another
transaction has inserted waits for its end (`Contended`). Void, PUT, PATCH and DELETE are `Fetch`, then a write
from the copy. `Write` is the save of PUT and PATCH, which may name another customer
(`NewCustomers`; `Patch`), and a store or another key too (`NewKeys`; `Move`); a constraint
may refuse it. Each sale carries its `key`, and `moved`, what its movements added to each stock
row. `OfferOne` and `OfferMany` create promotions for one store and for several,
`EditPromotion`, `AddLine` and `EndEdit` are the PUT line by line, `SetStatus` and
`Withdraw` the rest; customers are edited, moved and deleted (`sale.customer`
SET_NULL, the ledger CASCADE), modes created by hand, by a sale, and edited. Stock
is per article and store; prices and totals are left out.

**StockAlerts.** `BeginMove`/`CommitMove`/`RunHook` are a movement, which goes below
zero only with `allow_negative`; `ReadRow` followed by `SaveThreshold` (the threshold
view) or `SavePatch` (PUT and PATCH of the detail view, which write the quantity, the one they read or
the one they are sent) are the edits. `TakeTask`, `Clear`, `Consider`, `SendAlert`,
`MarkNotified` are the Celery task, of which `Workers` run at once, each with the row as
it read it. `alone` remembers whether the last task taken found no other running.
`Elapse` lets a user's repeat period go by.

**ChatActions.** A confirmation walks through `confirm` lock by lock:
`LockAction`, `LockTarget`, `LockRights` once for each row the user's rights come from
(user, store, membership, role: `RestsOn`, in the order of the statements), then `Check` (everything is tested
again under the locks) and `Write` (the native view, `consumed_at` and the audit
row, in one COMMIT). `Abort` is a refusal by the native view, a lock or statement
that takes more than five seconds, or a dying worker. Around it edits
(`Read`, `Save`: a stale copy, as in the views), deletions, new rows that refer
to the record (`Refer`), changes of rights, `Expire` and `Purge`. A statement of
theirs that needs a locked row waits. Two confirmations can lock the rows of their rights
in opposite orders; `DeadlockAbort` is PostgreSQL's detector. A record's content is the
fingerprint.

**ChatTurns.** `Receive`, `Acquire`, `Ask`, `Run`, `SaveAnswer`, `Finish` are the
statements of `ChatAIConversationService.run` that commit by themselves; each
refusal is an action of its own, and every end gives the lease back if it is
still the turn's (`GiveBack`). `told` is what the client holds for final; until
it does it sends its ask again. `Crash` leaves the lease with `Dead`;
`ExpireLease` is `expires_at`, and `late` remembers the turns that outlast it. The model and
its tools are `Run`.

**Accounts.** `users` and `members` are the tables. `FetchUser`, `FetchProfile`,
`FetchBySSO` and `TakeThumb` read an account, `SaveUser` writes all of it.
A user form goes through `BeginCreate`, `InsertUser`, then `_sync_store_memberships`
statement by statement: `EnrolNext` for each store it sends, `WithdrawOthers` at
the end; a store it names wrongly ends it where it is. `CollectUsers` and
`DropUsers` delete several accounts. The store form is one step, as it is a
transaction. The functions of `store/permissions.py` and of the views that ask who
may work where (`StoreIds`, `HasAccess`, `StoreOfRequest`, ...) are operators on
the state. `seen` (the requester's account when the request began) and `alone`
(nobody else wrote these memberships) are recorded for the properties only.

**Attendance.** `Saved` is `AttendanceRecord.save` with the hours and the delay.
A view reads a row and saves its columns, from its copy or from the request, which may name another
entry, day or employee (`RecordEdits`; `GivenTo`, with the store that follows from it,
`Homes`). An import is one transaction: `ImportLine`
reads one row of the sheet and notes what it writes (`Noted`), `wrote` and `fresh` are
its rows, the employees and keys it touched are locked until `CommitImport` or its
abort, and the others see them afterwards (`Recorded`, `Entered`). The deletion of a store looks for
documents, then deletes, and PostgreSQL refuses if a protecting row came between.

**Catalogue.** An import keeps what it wrote in `draft`; it locks the products it
wrote and the codes and families it inserted, so that another waits, then finds
them or fails. `Written` is one row of the workbook, which finds its product by
reference or by name; `After` is what a workbook alone makes of the tables, row
by row, and what `ImportAgainChangesNothing` compares. An edit reads the product and saves it
with its lines. `StockDesk` opens, moves and deletes the central store's rows; `due` adds up what a
row was opened with and its movements.

**Reports.** A dashboard reads the stores it is about once, then the figures of
`Statements` one by one (`ReadFigure`), while sales, purchases, hours, balances,
expenses, rights and stores change. The balances below their threshold are counted (`Low`)
and listed (`Alerts`), the list cut to `AlertsShown` (`Cut`); it is ordered by name, and
names are left out, so any of them may be in it. The other lists of an answer are left
out. `quiet` says that nothing was written since it
began. An expense is fetched with the rights of its user, then saved or deleted from
the copy. `Exported` are the rows of an export.

**Notices.** `OpenForm`, `MakeForm` and `SaveForm` are the form of preferences,
of which `Forms` may be open at once, also of one user: each saves every column of the copy it read.
`chosen` is what a user asked for last, `lost` the choices that an overlapping form of the
same user put back. `Look`, `Make`, `CreateNotice` and `Broadcast` a task or a request that tells users
one after the other; both make missing preferences by `get_or_create` (`Ensured`).
`FailBroadcast` and `Crash` are Redis and the worker failing. An administrator's
save registers a hook that reads the state (`ReadSnapshot`) and sends it
(`SendState`). A socket joins its groups before it is accepted (`Greet`, `Join`,
`Accept`); then its browser reads the list and asks for the state, while messages
queue in `pending`.

## 3. The runs

| Run | Question | Answer |
|---|---|---|
| `stock_service` | three requests at once over nine documents: are movements lost, invented, posted in part; do alerts precede commits; does an inventory set the count; does the locking implementation implement the one-step ledger; do transactions that lock in opposite orders all end? | no loss; it does; they do |
| `documents_serial` | one request at a time, any order, any user: do status and movements agree, was stock moved by who may, does a posted document stay? | yes |
| `sales_offline` | retries, duplicates, crashes, promotions withdrawn and customers forgotten meanwhile: sold once, durable, owed, always settled? | yes |
| `sales_desk` | any order of void, edit, move, delete, one at a time, among changes of promotions, customers and modes: do movements match the status? | yes |
| `stock_alerts` | movements, edits and two alert tasks at once: is a user told at most once by each task running in a period; is the mark true after a task that ran alone; is low stock told in the end? | yes |
| `chat_actions` | the deletion of a customer and the edit of a presence, confirmed twice at once by users whose rights rest on the same rows in opposite orders, among edits, deletions and changes of rights: applied once, to what was shown, hiding nothing, ending always? | yes |
| `chat_turns` | asks repeated, turns that fail, die with the lease or outlast it: one turn at a time, the answer to the question, every ask settled? | yes |
| `accounts` | two forms, profiles, deletions, tasks and SSO at once: combinations of rights, the last administrator, exact memberships, agreement of the scopes? | they hold |
| `attendance` | edits, imports and a store's deletion at once: hours by the clock, one record a day, whole imports, no orphan? | they hold |
| `catalogue` | imports, edits and stock at once: opening stock counted once, imports repeatable, first lines mirrored? | yes, but for a stale save |
| `reports` | a dashboard among writers, expenses from copies: do figures add up, are the alerts low rows and as many as fit, who changes an expense? | they do when nobody writes; managers |
| `notices` | two tasks, two forms, a maintenance save and a browser that comes and goes: choices kept, the last state shown, every notice delivered? | yes; two overlapping forms of one user lose a choice |

Every property has a mutant (a plausible slip in a definition) that violates it;
the slips stand next to the definitions they change.

**Bounds and why they are enough.**
Three requests are the fewest that can form a chain or a cycle of locks with a
bystander; two stores and two articles are the fewest with two lock orders; the
nine documents cover every kind, a refused zero, an overdraft with permission, an
empty document and a transfer to itself. In `MCStockService` the third request only
sells: two open any document, and a sale crosses both. Quantities are one to three,
so that stock runs out.

`documents_serial` has five documents, two of them requests, as only requests are
approved together; three users (the direction of both stores, who answers for the
shop, a seller of it); `MaxEdits` (three) payloads: a creation, an edit, and an edit after it. One
slot, because with two the code does lose what the properties say (see below);
workers die at inventories and requests only (`Fragile`), for the same reason.

`sales_offline` has a key that two payloads share, a promotion of two articles, a
customer who buys on credit by word or by a mode, two slots, `MaxSales` (three) rows
and one crash; an edit may give a sale to her. `sales_desk` has one slot, two stores and
three sales; an edit may take a key away.
`stock_alerts` has two requests and two tasks: one task reads the stock low, the stock is
put right, the other task finds no mark, and the first marks. `MaxMoves` (three), one
edit (`MaxEdits`) and one elapsed period (`MaxElapsed`) bound it. `chat_actions` has the deletion of a
customer and an edit of a presence prepared and two confirmations, which meet on one
card, or on the rows of their rights: a store and a role, locked by one action in one order and
by the other in the opposite one. `MaxEvents` (two) bounds what happens around them. `chat_turns` has two slots, two
asks, one of them with two texts; `MaxTroubles` (two) lets the lease be lost twice,
`MessageLimit` (four) makes the conversation full.

`accounts` has two administrators, who can act on each other, a third account to
create, two stores, two slots and `MaxEdits` (two) requests, so that every pair of
requests meets. `attendance` has a day of twelve times, two dates, two stores, an employee there from the start,
two slots, `MaxRequests` (three) and three workbooks: one row; two rows of one worker whose names
differ in case; two workers, or one who is renamed between her rows: an import, an edit
that meets it and one more. `catalogue` has
two workbooks whose rows find one product by reference and by name, three products,
two movements and four requests. `reports` has one row of each table and a second balance, six rows in
all (`MaxRows`), two writes during one dashboard and a list of one alert
(`AlertsShown`, ten in the code), so that more rows are low than are listed. `notices` has
two workers for two users, two forms, which may be of one user, one
administrator and one browser (browsers do not act on each other), two notices and
three events. The slots of the last five but `notices` are symmetric; no liveness is
checked there.

**What the code does not promise.** Found with other constants or stronger forms of
the properties, and kept out of the runs because no text of the repository says
otherwise, or because a later check of the same request is meant to catch it:

* *Documents.* Two validations that both read a draft post it twice
  (`stock/services.py:121` tests a copy); an inventory validated meanwhile is
  deleted by who read it as a draft (`stock/views.py:988`); an approved request can
  end rejected; a worker that dies inside the PUT of a transfer or purchase can
  leave it applied with nothing moved; two edits of one purchase keep the lines of
  both. Deleting several transfers asks for management of the store that receives,
  deleting one for that of the central stock.
* *Sales.* Two voids at once, or a void of a promotion that was edited since,
  return what was not taken (`sales/services.py:160`); a sale moved to another store
  gives its stock back there; a void does not take the debt back; `credit_limit` and
  the dates of a promotion are not looked at; PUT and PATCH may rewrite a sale's key,
  which frees it for one more sale, its customer (also to one of another store) and its
  payment status, while the ledger stays with who owed it first; a promotion of
  one store is created and edited without a transaction, and is without articles for a
  moment.
* *Alerts.* The hourly sweep is scheduled under a name no task has
  (`celery_conf.py:28`), so a threshold raised above the stock never alerts; two tasks
  at once (the worker has four threads) can alert a user twice, and leave a false mark: one reads the
  stock low, the stock is put right, the other finds no mark to take away, the first then marks
  (`notification/tasks.py:102`). It stays, and is served with the balance, until a check that runs alone;
  a worker that dies loses its alert; a PUT or PATCH of a balance
  row writes back the quantity it read (`undone` counts that).
* *Accounts.* A refused user form leaves the account and the memberships before the
  refused one, and sending it again is refused as a duplicate e-mail; two forms on one
  account can leave it no store; a stale save gives rights back or inserts a deleted
  account again; staff with a role filter list only stores they belong to though they
  may open all.
* *Attendance.* A record an import wrote over keeps its former hours and delay
  (`attendance/importers.py:141`). An employee renamed between two rows of a sheet that
  carry her two names has both rows on one record: it keeps the later one's entry
  (`Reflected` allows for that).
* *Catalogue.* A row without reference finds a product by its name and erases its
  barcode; a workbook that renames may not be repeatable; a barcode edited to another
  product's reference makes imports fail; after a row of stock is deleted an import
  writes its opening stock again; a product deleted during its edit is inserted again,
  possibly without lines; a stale save parts a product and its first line.
* *Reports.* Figures read while others write need not add up; exports list sales and
  purchases of any status, and their totals include voided sales; PDF shows the first
  500 rows; an administrator's "all" includes closed stores; `stock_alerts` lists ten rows
  (`reporting/views.py:348`), `low_stock_count` counts all.
* *Notifications.* Two PUTs of one user at once each save every column of the copy they
  read, so the second puts back what the first chose (`notification/views.py:23`).
* *Maintenance.* With two administrators the last message may be the older state.
* *Chat.* Two attempts of one ask, the second after the first's lease expired, run its
  tools twice though one answer is kept; two confirmations can lock the rows of their rights
  in opposite orders, and PostgreSQL refuses one of them, which may be sent again; an ask
  whose question fills the conversation is refused for ever if its turn fails.

**Fairness.** `MCSpec` of `stock_service`: a thread that can take its next statement
takes it (weak fairness), PostgreSQL looks at every wait (`deadlock_timeout`).
Nothing forces a request to arrive, a worker to die or a hook to fail.
`Sales!FairSpec`: work in progress goes on, and a client that has no answer keeps
its sale and sends it again; it competes for two slots, so being served is
strong fairness. Crashes are bounded: a system whose workers always die settles
nothing. `StockAlerts!FairSpec`: begun requests end, although others hold the row
now and then, and the Celery worker serves its queue.
`ChatActions!FairSpec`: a confirmation takes each step it can take again and
again, as PostgreSQL grants a row lock in the order of the requests, and the deadlock
detector looks at every wait (weak fairness of `DeadlockAbort`); nothing forces another
abort. `ChatTurns!FairTurnsSpec`: a turn goes on, time passes, and a client
without a final answer sends its ask until a slot takes it (strong fairness, as
two asks compete); without `ExpireLease` a lease left by a dead process would hold
for ever. `Notices!FairNoticesSpec`: a task goes on, a browser that opened its socket asks
for its list, a consumer delivers what is in its channel (weak fairness each);
failures and disconnections are never forced.
Deadlock is not checked in the runs: every bound lets the system stop.

## 4. The proofs

`StockServiceProofs` proves for all stores, articles, documents, opening
balances and numbers of requests:

* `TypeCorrect`: `Spec => []TypeOK`;
* `WritersExclusive`: `Spec => []WritersHoldTheirRows`. A row that is locked is
  locked by an open transaction, and only its holder has movements for it;
* `BalancesExact`: `Spec => []BalanceMatchesMovements`: no update is lost.
  The invariant is not inductive, because `Commit` writes what the transaction
  computed earlier. The strengthening says that for a row it holds, the private
  copy is the committed balance plus its own movements, and that those chain on
  from the committed ones; it needs exclusive writers;
* `NoOverdraft`: `Spec => []NoUnauthorisedOverdraft`, with the strengthening
  that the movements still private obey it too;
* `ServiceImplementsLedger`: `Spec => ImplementsLedger`, the refinement. The
  invariant (`Replays`) says that a transaction that has done `n` calls holds their
  rows, that its copies and its movements are the `n`th page of the ledger's book of
  its document (`Pages`), *begun from the tables as they are now*, and that
  this page is acceptable. A step of `t` turns one page (`ReplaySteps`). A commit of
  another transaction changes what the book starts from, but only in rows `t` does
  not hold, and the first `n` pages read and write only rows it holds: this is the
  frame (`PagesFramed`, `ReplayKept`). So when `t` commits, the last page is what
  `Post` writes (`CommitPosts`), and every other step is a stutter;
* `InventoryIsTheCount`: `Spec => InventorySetsTheCount`, with the invariant
  `Counted`: each line done so far left the quantity it counted in the private copy.
  A later line does not overwrite it, as an article is counted once
  (`CountedOnceAssumption`, the constraint `unique_inventory_product`);
* `ChecksFollow`: `Spec => []ChecksFollowCommits`. `ChecksPromised`: the movements of
  a transaction bear its name, and its hooks name exactly the rows it moved.

`SalesProofs` proves for any slots, sales, stores, articles and customers:

* `SalesTypeCorrect`: `Spec => []TypeOK`; the copies that views work on are of rows
  there were (`CopiesAreOfRows`);
* `KeysStayUnique`: `Spec => []LiveKeysDiffer`. No two sales of a store that are there
  share a key, whatever keys and stores edits give them, and what a request has inserted but
  not committed clashes with none of them (`InsertedIsNew`), because the unique index makes
  the second wait;
* `PromotionsOfSalesStay`: `Spec => []SoldPromotionStays`;
* `CreditIsAlwaysOwed`: `Spec => []CreditIsOwed`, for customers edited, moved and
  deleted while sales are recorded;
* `SoldOnce`: `Spec => []SoldOncePerKey`, where sales are neither deleted nor moved to
  another store or given another key, all of which free a key for one more sale (`AtHome`:
  every sale has the store and the key it was sent with). `Backed`: who was told
  that its sale is recorded has a row with its key, and a credit is entered only
  together with its row;
* `SalesMatchTheStock`: `Spec => []SaleMatchesStock`, with one request at a time
  (`OneAtATime`) and without edits of promotions. Both are needed: two voids at once
  return a sale twice, and a void of an edited promotion returns other articles.
  `LinesHoldWhatWasTaken` and `CopiesAreFresh` are the invariant.

`StockDocumentsProofs` proves for any documents, stores, users and payloads:

* `DocumentsTypeCorrect`: `Spec => []TypeOK`, however many requests are served at once;
* `MovesAreRightful`: `Spec => []MovedByRight`, likewise. The views check rights on the
  copy they read, which others may change; the invariant (`RightsKept`) is that each
  way to post moves stock in the store of the *copy*, or of the payload, whose rights
  were asked for (`WorksByRight`), and that a transfer never leaves for the central
  store (`TargetsAreShops`);
* `AppliedMeansPosted`: `Spec => []AppliedIffPosted`, and `PostedStaysFrozen`:
  `Spec => PostedIsFrozen`, with one request at a time (`OneAtATime`) and no worker that
  dies between the transactions of an edit (`NoHalfEdits`). Both are needed: two
  validations post a draft twice, and a worker that dies leaves a document applied and
  not posted. `InOrder` says that what a request has read is still so when it
  uses it (`UpToDate`), that a document is applied and not posted only in the window of
  its own edit, and that the movements of any other are those of its lines.

The first part of `NotificationProofs` proves of `StockAlerts`, for any number of
requests, tasks and users:

* `AlertsTypeCorrect`: `Spec => []TypeOK`; the quantity is an integer, as a movement may
  take more than there is where it is allowed to;
* `QuantityExact`: `Spec => []QuantityFollowsMovements`. Edits and the task write
  rows they read without a lock; the invariant that makes this harmless is
  `MoversHoldTheRow`: a movement under way holds the row, and what it will write
  is the present quantity plus its delta, so nobody moved the quantity since it
  read it. The variable `undone` accounts for the one exception, PUT
  and PATCH of the row;
* `AlertedOncePerTask`: `Spec => []AlertsAreFew`, with `AlertsDue`: the alerts a user got in
  this period and the tasks about to send one are together no more than the tasks that
  run at once, as a task starts to tell only who had none;
* `MarkIsTrue`: `Spec => []MarkFollowsStock`. `HooksFollow` (a movement under way will
  queue its check), `AloneIsOne` (a task taken alone has the row to itself until another
  is taken) and `TaskReadsStock` (once every check was taken, the last of them alone, and nobody edited,
  what the task goes on to do is what the stock asks for, and it leaves a true mark).

`ChatProofs` proves every safety property of the run of `ChatActions` for any number of
records, actions and requests: `CardsTypeCorrect`, `AppliedOnce`,
`DoneRemembered`, `AppliedAsShown`, `AppliedByRight`, `DeletionHidesNothing`. The
invariant says which locks a confirmation holds where, row by row (`HoldsItsLocks`), that a
locked action is open (`LockedIsOpen`), that what `Check` found is still so when
`Write` comes (`CheckedStillHolds`, which needs the locks of the action, of the record and of every row
of the rights), and how often an
action was applied in each state (`CountedByState`).

It proves the same of `ChatTurns`, for any slots, asks and texts:
`TurnsTypeCorrect`, `OneWorker`, `QuestionShown`, `ToldSaved`, `AnswersRemain`.
`WorkersOwnTheLease` needs that the owner of the lease works (`OwnerWorks`) and
that an expired lease belongs to a turn that has outlasted it (`DueIsLate`), so
that whoever takes it takes it from nobody in time; `ToldIsSaved` needs
`SavedIsThere`.

`AccountsProofs` proves for any accounts, stores, roles and requests at once:

* `AccountsTypeCorrect`: `Spec => []TypeOK`. No two accounts share an e-mail, no
  account is twice in a store, and no membership outlives its account. Every write
  is from a copy, so the invariant (`CopiesAreSane`) says what a copy may be: a
  row of a key that was given out, with rights an account may have. One lemma per
  kind of write (`UserSaved`, `MembersJoined`, ...) says what it leaves unique;
* `RightsAllowed`: `Spec => []PointageRights`, from the same invariant;
* `LastAdministratorStays`: `Spec => AdministratorsRemain`. `CopiesAreHonest` is
  needed: what a request saves is its own account as it was read, or another's
  read by an administrator, and a deletion spares who asks for it;
* `ScopesAlwaysAgree`: `Spec => []ScopesAgree`. It needs that no account is for
  the clock only and an administrator too;
* `UndisturbedFormIsExact`: `Spec => AloneAFormIsExact`. `FormsFollow` says that
  while nobody else wrote the memberships of a form's account, those the form
  enrolled so far are members as it sent them, and whose memberships a copy or a
  deletion is about.

`ReportsProofs` proves for any users, rows, rights and requests, and any finite sets
of stores and days:

* `ReportsTypeCorrect`: `Spec => []TypeOK`;
* `ExpensesManaged`: `Spec => ExpensesStayManaged`: who fetched an expense managed
  its store when the request began. The invariant `CopiesAreManaged` keeps that of
  every copy, while rights, stores and the expense itself change;
* `WholeFromParts`: `Spec => []WholeIsTheSumOfItsParts`, a fact about the tables of any
  state of the right types: a sum over stores is the sum of the sums by store
  (`SumByClass`), which takes the totals of the closed ones apart (`OpenAndClosed`);
* `QuietAdds`: `Spec => []QuietReportAdds`. `DashboardsAreFresh`: while nobody wrote
  since a dashboard began, each figure it read is what it could read now (`Figures`: the
  alerts are some of the low rows, as many as are listed).

The figures are sums by `MapThenSumSet`, a fold over a set by `CHOOSE`, of which
nothing can be said before the function it chooses is known to exist.
`SumsExist` shows that, by induction on the number of elements, `SumsAgree` that two such
functions agree, and `SumUnfolds` that the sum is what one expects. The library's induction theorems take a predicate as a parameter,
which none of the provers instantiates; the proofs go through the least
counterexample instead (`WFMin`, a theorem about sets): `NaturalsAreAll` says that a set of
naturals that has `n` whenever it has all below `n` is `Nat`. `PagesFollow` in
`StockServiceProofs` and `RowsFollow` in `ImportProofs` are proved the same way, for the
recursive functions of the ledger and of a workbook.

`ImportProofs` proves of `Catalogue`, for any products, workbooks, forms and requests
at once:

* `OpeningStockCountedOnce`: `Spec => []StockIsAccounted`. An import reads a row of stock
  long before it commits. `DraftsFollow` says that the quantity in its draft stays
  that of the committed row, as whoever would move it waits, and `DraftsApart` that two
  imports under way wrote different products;
* `OnlyOldCopiesPart`: `Spec => MirrorsFirst`. In what an import will commit, the
  tracking columns of a product are its first line's (`Firsts`, part of `Typed`);
* `CodesStayUnique`: `Spec => []TypeOK`, with its unique references and barcodes and the
  family of each product. `Sound` says that the committed tables fit together, with the
  writes of an import over them as without, and that two imports write
  different codes; so either commits first;
* `ImportsMayBeRepeated`: `Spec => []ImportAgainChangesNothing`, for workbooks of any
  length from any tables that can be reached: one whose rows have references and that
  is accepted once is accepted again, and changes nothing. The first time, by induction
  on the rows read, each product a row named is there under its code with its stock and is as
  the last such row says (`Brought`). The second time, also by induction, only what
  the rows still to come say of a product may differ (`Again`); after the last row
  nothing does. Both rest on `RowBrings` and `RowTwice`, about one row.

And of `Attendance`, for any stores, names, days, sheets and desks, from one invariant
(`AttendanceInv`):

* `AttendanceTypeCorrect`: `AttendanceSpec => []AttendanceTypeOK`, with its foreign keys
  (`Referred`), which need that what an import inserts is of employees it holds
  (`HeldHired`);
* `RecordsArePaidByTheClock`: `AttendanceSpec => []PaidByTheClock`. The property counts
  the times of the day one by one, the code subtracts; `ClockPays` shows that they
  agree, also over midnight, by the number of elements of an interval;
* `OneRecordOfADay`: `AttendanceSpec => []OneRecordADay`. A view computes which store an
  employee's record goes to from what it read; an employee who never changed stores
  is in the store of all her records (`DaysHomed`, `DesksHomed`), a day
  is recorded once in a store (`Distinct`), and what an import inserts is neither there
  (`KeysFree`) nor inserted by another (`Apart`);
* `StoresGoEmpty`: `AttendanceSpec => []DeletionSparesDocuments`;
* `ImportsAreWhole`: `AttendanceSpec => ImportsWholeOrNot`. `Covered` says that every row
  read, if no later row is of the same worker and day, is in what the import will
  write, `LocksKept` that the records it updates stay there under it.

The second part of `NotificationProofs` proves of `Notices` `NoticesTypeCorrect`
(`NoticesSpec => []NoticesTypeOK`) and `ChoicesRemain` (`NoticesSpec => []ChoicesStay`): `FormsAreFresh` says that a form finds its row there and
holds what its user chose last, but for what another form of the user saved since it
was read (`missed`) or put back (`lost`); `NoRowNoChoice` that who has no row chose nothing, so
the row a task makes meanwhile loses no choice. So whatever forms and tasks run at once, a choice is lost only to
an overlapping form of the same user. With one administrator
(`OneAdministrator`; with two the older state may be sent last) `TheStateIsShown`
proves `NoticesSpec => []ShowsTheState`, for any number of browsers: when no publication is
under way, the last a browser has in its channel about maintenance is the present
state, or it has nothing there and shows the present state or none
(`HearsTheState`); a browser shows a state, or has one to hear, only in the group
(`InTheGroup`), so no save passes it by.

Assumptions of the proofs: `StockAssumption`, `CountedOnceAssumption`,
`NobodyAssumption`, `DocumentsAssumption`, `SalesAssumption`, `AlertsAssumption`,
`ActionsAssumption`, `TurnsAssumption`, `AccountsAssumption`, `AttendanceAssumption`,
`CatalogueAssumption`, `ReportsAssumption` and `NoticesAssumption`:
the types of the constants, that the values that stand for nobody and nothing are no
request's, name or number, that an inventory counts an article once, that there are finitely
many stores, days and names, that upper case is its own upper case, and, in `Accounts`,
that the tables are sound at first. TLC evaluates them in every run of their modules. The
other hypotheses (`OneAtATime`, `NoHalfEdits`, `OneAdministrator`, the
operations that are absent) are written in the theorems that need them, and the runs
that check the same properties meet them.

What the proofs taught about the models: an edit of a sale did not wait for
the key another request had inserted and not committed, as PostgreSQL makes it
(`Contended` in `Write`), and `KeysStayUnique` needs it; before the first movement a mark
says nothing of a row that was opened below its threshold (`moves > 0` in
`MarkFollowsStock`); the reasons why `SoldOnce` and `SalesMatchTheStock` need their
hypotheses; that an employee may be renamed between two rows of the sheet that is
imported, which no run had reached before the proof of `ImportsAreWhole` asked for it
(`attendance` now has such a sheet); that the value for an empty cell must be no alert
threshold (`CatalogueAssumption`), or a repeated import need not find what it wrote.

What is proved needs no run of its own: the type invariants of all modules,
`WritersHoldTheirRows`, `NoUnauthorisedOverdraft`, `LiveKeysDiffer`,
`QuantityFollowsMovements`, `DoneIsRemembered`, `AppliedWithRights`, `ToldIsSaved`,
`AnswersStay`.

Every safety and action property that a run checks is proved, and the refinement. Only
model-checked: liveness (`EveryRequestEnds`, `EverySaleIsSettled`, `MadeLowIsTold`,
`EveryConfirmationEnds`, `EveryAskIsSettled`, `EveryNoticeArrives`), as TLAPS proves no
fairness argument.

## 5. Not modelled, and the plan

* Not at all: the layout of PDFs, the text corrector (a call of a language model),
  settings, templates, static files, vendored wheels. The password reset is a
  component of its own that shares nothing with the others but the account's row.
* *Accounts*: log-in and tokens, avatars, mails, the admin site.
* *Stores*: their creation, logos, the employees of the store form.
* *Attendance*: a schedule per employee, exports, the header rows of a workbook.
* *Catalogue*: prices, dates, the activation of a product, the rename of a family,
  the scan; units behave as families; rows of stock of the central store only.
* *Sales*: prices, change, rights, the dates of promotions, the creation of customers,
  the deletion of modes; the payment status of a sale once it is recorded, which nothing modelled reads.
* *Finance*: the categories of expenses (PROTECT while an expense uses them).
* *Notifications*: marking read and the unread count (marking "all" can mark one
  that was never shown); the echo of client messages.
* *Chat*: tools, planner, knowledge documents, feedback, remembered pages: they read,
  or choose what a turn does.

Next, in this order:

1. `PasswordReset`: code, mail task, deletion task, retries.
2. The categories of expenses, in `Reports`.
