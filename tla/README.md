# Formal models of the EV charging platform

TLA+ modules, TLC runs and TLAPS proofs for the charging platform in `src/`: an OCPP gateway, a Core API and an
ingestion worker that share Redis, Kafka, PostgreSQL and TimescaleDB. The repository has no automated tests; what it
promises is in `docs/`, in the comments and in the rules under `.cursor/`, and those are the statements the models are
held against.

## The system

| Component | State | Operations | Hard behaviour |
|---|---|---|---|
| Wallet (`wallet.service.ts`) | `wallets`, `wallet_ledger` | hold, release, capture, credit, top-up | floors at zero, ledger rows dropped as duplicates |
| Sessions (`sessions.service.ts`) | `transactions` | start, stop, bind, meter, complete | reads and writes split by awaits, no state checks in some writes |
| Billing (`billing.service.ts`) | `invoices`, the row's state | settle and invoice, then debit | two transactions, repeated on redelivery |
| Kafka consumers of the Core API (`realtime.ts`) | consumer offsets | ocpp.events, meter_values | at-least-once delivery, errors swallowed, two topics without common order |
| Remote commands (`redis.ts`) | none | look up the registry, publish | pub/sub loses messages |
| OCPP gateway (`server.ts`, `router.ts`, `registry.ts`) | sockets, pending Calls, registry entry, subscription | open, message, close, command, response, shutdown | reconnects that overlap, asynchronous set-up and clean-up, crashes |
| Ingestion worker (`batch-writer.ts`, `index.ts`) | buffer, `meter_samples`, offsets | enqueue, flush, close | concurrent flush requests, failing inserts, shutdown, crash |
| Charger status (`chargers.service.ts`, `realtime.ts`) | `chargers`, `connectors` | register, update status | late and overtaking events, two writes per event, redelivery, failing handlers |
| Payments (`payments.service.ts`) | `payments`, wallet | order, webhook | repeated and reordered webhooks |
| Tariff engine (`tariff.engine.ts`) | none | choose a tariff, price energy, time and GST | rounding, slab boundaries, slabs in disorder |
| Reservations (`reservation.service.ts`) | `reservations` | create | row written before the command fails, never changed again |
| Organisations, roles (`orgs.service.ts`, `rbac.service.ts`, `auth.service.ts`) | invites, memberships, permissions, tokens | create, invite, accept, log in, configure | acceptance in two writes, invites replaced meanwhile, a creation that stops half-way |
| Migrations (`run.mjs`, init scripts of the images) | schema, `schema_migrations` | apply, record | interrupted init, crash between a file and its record, two runners |
| Charge point (`ocpp-simulator`) | transaction, register, timers | start, meter, stop, report status | the environment of the other parts |

A session crosses most of them: the API holds funds, writes a row, publishes a command on Redis and marks the row
authorised; the gateway hands the command to the charger; the charger's StartTransaction comes back through Kafka and
binds the row; its StopTransaction completes, invoices and debits. Nothing connects these steps but the rows they read.

What makes each part correct: the wallet's ledger explains its balance and funds are not lost or released twice; a
session follows its state machine, is bound to one charging transaction and settled once; an event that was confirmed
to a charger is in Kafka; a command reaches a charger that the registry calls connected; a meter sample that was taken
from Kafka is stored; a payment is credited after a report of its capture only, to its user and by its
amount, and what the provider captured is credited in the end; a role is held only by those who were invited to it, and
the permissions of a role are those that were configured; the status shown for a charger is the one it reported last; a bill contains every unit of energy once, at the rate of its bracket; a migration that is
recorded was applied, and what failed half-way can be repeated.

## Modules

| Module | Models | Used by |
|---|---|---|
| `Wallet` | every writing operation of `WalletService`, one database transaction per action | `Payments`, `Sessions` |
| `SessionLifecycle` | abstract: what the state machine promises per idempotency key | `Sessions` (refinement) |
| `Sessions` | start, stop, bind, meter, complete and settle over the wallet, with charger, pub/sub and Kafka as environment | `SessionsMoney` |
| `SessionsMoney` | accounts: sums over ledger and invoices | `MCSessions` |
| `OcppGateway` | sockets, registry, subscription, commands, inbound messages of one charger | `MCOcppGateway` |
| `Payments` | orders and webhooks of the payment provider over the wallet, with top-ups and session holds beside them | `MCPayments` |
| `Organisations` | creation of tenants, invites, acceptance, log-in, tokens, permissions of roles | `MCOrganisations` |
| `MeterTable` | abstract: in which order and how often rows reach `meter_samples` | `MeterBatchWriter` (refinement) |
| `MeterBatchWriter` | the buffer between Kafka and TimescaleDB | its own runs |
| `Chargers` | registration and the status events of one charger, from its connections to the rows | its own run |
| `Migrations` | the runner and Docker's init scripts on both databases | `MCMigrations` |
| `TariffEngine` | the choice of a tariff and the price of a session | `MCTariffEngine` |
| `PaymentsProofs` | theorems on the wallet and the payments over it | |
| `SessionsProofs`, `GatewayProofs`, `WriterProofs`, `ChargersProofs`, `OrganisationsProofs`, `MigrationsProofs`, `TariffEngineProofs` | theorems | |

### Sessions

One row per idempotency key; `tx[k].state = "NONE"` is a key without a row. `ocpp`, `meterStart` and `energy` are the
columns of the row, `created` is the order of `created_at`. A request (`call[p]`) walks `hold`, `create`, `publish`,
`authorize`, one action for each await of `startSession`; `AbortCall` is an error or a crash at any of them, which undoes
nothing. A partition's handler walks `bind`, or `transition`, `settle`, `capture`.

- The id a StartTransaction gets is the clock in milliseconds; ids are taken as distinct. Every copy of a resent
  StartTransaction gets an id of its own and the charger works under the last. Resent messages are adjacent in the log.
- `cause` on an event is not visible to the code: it records which remote start the event answers, for one property.
- The update of `completeFromOcpp` is one step with its find: what it writes depends only on the id and the start
  reading, and both are written once (`OcppIdWriteOnce`, proved). The same holds for the find of `stopSession`. Find and
  update of `applyMeterEnergy` are one step too; a sample may be applied at any time after it was taken.
- Readings have one unit, and `amount_paise` is left out. The duration enters as a choice: `Charges[e]` is the set of
  totals a session of energy `e` may have.
- A key belongs to one user and one charger (`UserOf`, `ChargerOf`). Another user's reuse of a key is not modelled, nor
  are the access checks.
- A handler that throws is caught and its event counts as done (`FailEvent`); a crash restarts at the committed offset.
  Two consumers that own one partition at once, as during a rebalance, are not modelled.

### OcppGateway

One charger: chargers share no state but the listeners, which look only at their own channel. `client[i]` and
`subscriber[i]` are the two Redis connections of instance `i`, each a queue, because ioredis sends commands in order and
Redis answers in order; what a promise does next happens with the reply. `own` is the socket the charger itself uses;
every connection goes to any instance (`InstanceOf`). Two sockets of the charger are open at once when it comes back
before the idle timeout of 120 s closed its old one; `Overlap` allows that. `sending` holds events that were given to
the Kafka producer and not acknowledged.

A shutdown (`Drain`) refuses new connections and ends all sockets, whose close handlers only start their commands and
events; the process ends (`Exit`) at any time after, by its hooks or by the drain timeout, with whatever Redis and Kafka
did not get. It may also end without one: it dies, or the broker refuses an event, since nothing catches the rejection
of `handleInbound`. A refused event is therefore never answered. Every crash takes sockets with it, so that their number
needs no bound.

A reservation is the row and then a command (`CreateReservation`, `IsPrepared`). The expiry of the entry and of pending
Calls may come at any time. A refused payload (CallError) changes nothing. The ConnectionClosed that a close
publishes concerns the status only and is followed in `Chargers`.

### MeterBatchWriter

Messages of a partition are numbered; `copies[i]` counts message `i` in `meter_samples`, which has no unique key.
`flusher` says who awaits the insert in progress, `this.flushing` is `flusher # "none"`. An insert that fails may have
been stored. `mode` follows SIGTERM: `stopping` waits for the handler, `closing` is `close()`, `ended` is the exit; a
new process starts from the committed offset. A second signal is not modelled.

`MeterTable` knows no buffer, timer or handler: while a worker is up the table grows by the next messages of the
partition, a batch at a time, and a batch whose answer was lost comes again; where it goes on after a stop is open.
Its `next` is the first message the writer still has to write.

### Wallet

`balance`, `hold` and `ledger` are the columns and rows; every operation begins by locking or updating the wallet row, so
each is atomic. `hold()` refuses a missing wallet, the updates of release and capture touch no row for it.

### Payments

`payment[o]` is the row of order `o`; its user and amount are chosen before it exists. Order ids are taken as distinct,
although they are eight digits of a UUID and no index says so; a report for an unknown one changes nothing. The webhook
is two actions, the status and the credit, with `crediting[o]` requests between them; what the second reads never
changes. It takes every report for an order that exists, at any time and any number of times up to `MaxReports`:
`/razorpay/webhook` has neither `requireAuth` nor a signature check (`payments.router.ts:15-19`), and the service never
asks the provider or looks at the former status. That the provider has the money that is credited is therefore not so,
and is not stated. The provider (`captured`, `answered`) is one sender of reports. It repeats that of a capture until it
is answered, perhaps while another runs; which of several requests was its own is left open. Sessions are any holds, releases and
captures under references of their own.

### Organisations

A user is a phone and an organisation a slug. `call[c]` is a request of several steps: the creation walks `seed`,
`firstInvite`; a log-in walks `find`, then `accept` and `mark` for each invite it found, and signs its token from the
memberships it read first (no invites) or last; the link of an invite is `join`, a transaction. `tokens` only grows:
tokens outlive what they say. `offered`, `overtaken` and `configured` are history for the properties. An invite is
sent and permissions are changed in one step with the check of the sender's permissions. One-time codes are left out: a
log-in begins when its code was accepted. The default tariff and the lists are left out.

### Chargers

`row` and `plugs` are the `status` columns of the charger and its connectors. The charger is the simulator: it reports
its state on connecting, `Preparing` and 500 ms later `Charging` for a RemoteStart, `Finishing` and 800 ms later
`Available` for a RemoteStop; `timers` holds what is still to come. Timers of one kind fire in the order they were set;
a stop timer, being the longer, fires after every start timer set before it. A connection that ended is `unnoticed`
until its gateway closes it. Events wait in `sending` and reach the partition in any order (`StoreEvent`): a close is published at
once, a report after a round trip to Redis, and another connection may be on another instance. `updateStatus` is two
actions, the charger and then the connector; `FailHandler` is an error at either, which also stands for the errors of
Prisma when a status is none of its enum. An update of a charger that is not registered throws and is dropped.

`due` and `causes` are history. `due[x]` is the last stored report on row `x`; `causes` names what the properties except:
`late` (a close noticed after the charger was back), `overtaken` (events stored out of order), `lost` (a gateway died
with its events), `failed` (a handler gave up). Each exception is needed, the run fails without it.

### Migrations

A file is a sequence of parts, of which a later file needs some; what counts of the schema is the set of committed
parts. The first file of each database is also mounted into `docker-entrypoint-initdb.d`: it may have run there before,
statement by statement, and may have been interrupted (`torn`), after which the entrypoint never runs again. A runner is
`probe`, `record`, then `check`, `sql` and `commit` for each file, and on TimescaleDB `tsProbe` and `tsRecord` or
`tsSql` and `tsMark`. On Postgres a file and its row are one transaction; on TimescaleDB the file is one query and the
row another. Runners that apply the same file wait for each other's transaction. `Repeatable` files survive being applied
twice (`IF NOT EXISTS`, `ON CONFLICT`).

### TariffEngine

The loop over the slabs is one action per slab, `billed` and `exact` are history: the energy billed so far and its price
before rounding. The code computes with floats; here quantities are integers in the unit of their column (a ten
thousandth of a kWh, a millisecond, a hundredth of a per cent), so that the errors of binary fractions are left out and
those of `Math.round` are not. `slabs` is a JSON column that nothing validates: any sequence of bounds is allowed.

## Runs

| Run | Question | Bounds |
|---|---|---|
| `payments` | Is the wallet overdrawn only by a debit, do credits follow the reports of captures, and is captured money credited? | one order, up to three reports of a capture, also at once, any number of failed attempts, a request that dies, two times of a top-up, a session reference, a user without a wallet |
| `invites` | Do accepted invites give their role and only invited phones have one, do configured permissions stay? | one organisation, two phones, two requests at once, two invites, a crash, an administrating and another role |
| `once` | Does each row walk the state machine, is it settled once and bound to its own charger, and do wallet, ledger and rows agree? | 2 sessions on one charger, a second charger with local starts, readings 0 and 1, a failing handler |
| `live` | Is every completed session invoiced, does a stop that arrived complete it, what does redelivery cost, do paused handlers stay right? | 1 session, 2 requests, a stop sent twice, 2 crashes |
| `writer` | Does a running worker fill the table in order, lose or repeat rows, and does it store what it took? | 5 messages, batches of 2, a failing insert, a crash, clean restarts |
| `turns` | Do registry, subscription, correlation and confirmation fit together when reconnects do not overlap? | 2 sockets on any of 2 instances, a reservation and its command, a message, any number of shutdowns and crashes |
| `chargers` | Does the status shown follow the last report, through redelivery, errors and lost connections? | 2 connections, a remote start and stop, 2 events being sent, 2 in the log, one crash or error |
| `schema` | Is what is recorded there, and are the databases migrated in the end? | the 5 files, the first of four parts, 2 runners, 2 failures |
| `tariff` | Is every unit billed once and at the rate of its bracket, within the roundings? | 5 tariffs with up to 4 slabs, also unordered and with equal bounds, 12 energies at and beside the bounds |

The run `once` has no crashes, so that the committed offsets are never read; a constraint keeps them at zero. Two
sessions are the least that can be confused with each other, and enough: the code chooses between sessions only by
charger, state and age. One crash repeats any suffix of a partition and two repeat a repetition. Batches of two and
five rows reach a buffer of more than a batch while an insert runs. There are more reports than requests
that die, so that the bound ends the provider's repetition only after a credit. With one order and one organisation, orders and
organisations share nothing but the wallet and the user; the choice between several memberships at log-in is modelled
but not reached. Two connections are an old and a new one, on one instance or on two. One connector, the one the
charger stops for, is in `chargers`: the updates of several never meet. Two failures let a runner fail where another
one failed, or where Docker was interrupted. Requests (`invites`), sessions (`once`) and instances (`turns`) are
interchangeable (symmetry). Deadlock is checked for `schema`, where a runner can always be started again, and not
where the bounds stop the system.

`PricesAreProgressive` compares the loop of the code with a sum over the bounds of the slabs, which never looks at what
remains. `IdleIsAvailable` is the property for the timers of the charger and the two writes of a handler; the others of
`chargers` are about what survives redelivery and lost connections.

These runs find a statement of the repository violated by its code:

| Run | Statement | What happens |
|---|---|---|
| `twice` | settlement runs once | a StopTransaction sent twice is invoiced twice, the invoice number holds the time |
| `early` | the charger confirms with StartTransaction and the session is charging | the event is consumed before the row is AUTHORIZED, and dropped |
| `exit` | the buffer is flushed before exit | the flush of `close()` finds the timer's flush running and returns |

Observed while modelling and not given a run of their own: a meter sample that arrives after the stop was found replaces
the energy that is billed, although the rules of billing ask to capture the actual energy; with `Overlap`,
`RegisteredIsReachable` fails, because the close of the old socket unsubscribes the new one of the same instance; a close
that is noticed late or overtakes a report shows a connected charger as offline until its next report, and a gateway
that dies leaves its chargers as they were; a Docker init that was interrupted after its probed table is recorded as
applied, which the second file of Postgres notices and nothing does on TimescaleDB; a reservation whose command found no
charger stays active, and all do after their time; the id of a reservation at the charger is a sum of character codes
and may repeat; a redelivered StartTransaction binds another AUTHORIZED
session to the id of the first (with a crash, `OneSessionPerOcppId` fails); a StartTransaction that the charger
repeats has two ids, the session keeps the first and the charger the second (with `MaxSends = 2`, `QuietSessionsAgree`
fails); two concurrent starts with one key both add to `hold_paise`, and the second ledger row is skipped although the
rules of billing ask to "Audit ledger for every balance change"; the webhook believes whoever reports a capture, also before the
provider has one; a capture that is reported twice is credited
twice under one ledger key, and so are two top-ups in one millisecond; a late report of a failed attempt replaces
`captured`; an invite that is sent again while a log-in accepts it is marked accepted with its former role; an
organisation whose creation stopped half-way cannot be created again; no code assigns FAILED or CANCELLED or calls
`releaseHold`, so a failed start keeps its hold; `unregister` may delete the entry of a newer socket between its GET
and its DEL.

Fairness. `Sessions`: the consumers keep running (`WF` on the handler of each partition; requests may be abandoned and
handlers may fail only `MaxErrors` times) and a charger obeys a RemoteStop that reached it; nothing is assumed of starts,
meters or stops at the charger. `MeterBatchWriter`: Kafka delivers, the interval timer fires, the database
answers. `Payments`: the provider repeats a report that was not answered, and a request that is not
killed ends. `Chargers`: the idle timeout fires, the producer sends and the consumer handles what is there; nothing is
assumed of the charger. `Migrations`: an entrypoint that runs goes on, and a runner that ended is started again, as
`README.md` and `docs/RUNBOOK.md` make `npm run migrate` a step of every set-up and release. All of this is what
the runtime does as long as a process lives; crashes are bounded.

## Proofs

The theorems hold for all values of the constants that satisfy the assumption of the module: finiteness where something is
counted, natural numbers where there are amounts and bounds, functions with the right domains.

`PaymentsProofs`. Of the wallet alone: `TypeOK`, `LedgerKeyed` and `OverdrawnOnlyByDebit`, for any users, references and
amounts. Of the payments: `PaymentsTypeOK` and `CreditFollowsReport`. A credit is written some steps after the webhook that
causes it and checks nothing then, so the invariant adds `CreditingWasReported`: whoever is about to credit an order was
told of a capture. For the other direction it counts: of the reports of an order without credit, each waits or
has died (`Unfinished`); a step that ends one in another way writes the credit (`Accounted`), and a credit stays. `PaymentsImplementsWallet` maps
every step of payments, top-ups and sessions to a step of the wallet or to none, and carries the wallet's theorems over (`PaymentsKeepWallet`).

`SessionsProofs` shows for any number of sessions, chargers, users, requests and faults that `TypeOK`,
`OcppIdMarksStarted`, `InvoiceBacked`, `PausedStepsFit`, `BoundToOwnCharger` and `OverdraftNeedsLargeBill` are
invariants, that `OcppIdWriteOnce` holds of every step, and that the code implements `SessionLifecycle`. They are one
induction. An invoice is written for a session that a handler found some steps ago, so that "only completed sessions
are invoiced" is not inductive alone: it needs what the paused handlers know (`PausedStepsFit`), which needs that a
row with an id is started and stays so (`OcppIdMarksStarted`), which needs that an AUTHORIZED row found by a handler
is still AUTHORIZED when it is bound, since only the one handler of its charger binds it. The wallet part needs that
what a capture debits is an invoice of that user. The three are `SessionsFit`, which the run `live` checks, as `once`
does the binding and the refinement.

A second induction on top of it (`Delivered`) is about the log, since what the code does once it does once per event.
It says what a partition can contain (`LogInv`: every id is started once, in one partition, stopped after that and
`MaxSends` times at most, and the charger works under the last of its ids) and how far the rows are behind it. An
invoice uses up one delivery of a stop (`InvoicesCounted`), a bound id and a released hold have their event behind the
handler (`BoundBehind`, `ReleasedBehind`), an open session is the one at the charger or has its stop still to come
(`StopAwaited`). From this:

- `InvoicedPerDelivery` holds for any number of resends, crashes and errors. It is what remains of "run once", which is
  false as soon as a stop is sent or delivered twice (`twice`); `SettledOnce` itself is only model-checked, in `once`.
- `OneSessionPerOcppId` holds while no consumer crashed.
- `QuietSessionsAgree`, `HoldsCoverOpenSessions` and `LedgerExplainsBalance` hold while no consumer
  crashed, if a charger sends each message once (`MaxSends = 1`).

The accounts come last. `DebitWithinInvoices` needs no hypothesis: an invoice is owed until the handler that wrote it
has captured it, and what left the balance is within the invoices that are not owed (`DebitWithinDue`), so that each
debit is paid for by the invoice of its own settlement. `LedgerExplainsBalance` needs that a capture row of a session is
only there when its hold was released (`LedgerInv`): the first capture then gets its row, and there is no second. Without
the hypotheses one direction is left and proved, `CapturesAreTaken`: the ledger never shows a capture that was not
taken. What `PaymentsProofs` says of the wallet is shown for sessions too: every step is one operation of the wallet or none
(`SessionsImplementWallet`), the ledger stays keyed, and only a bill overdraws. `SessionsMoney` sums with
the operators of the community modules; that such a sum grows with its summands, stays with equal ones and takes
one more is shown for all finite sets by a smallest counterexample, because the library's induction theorems take an
operator.

The hypotheses are those under which the run `once` checks the same properties, and they are needed: a message that is
sent or delivered twice is settled twice (`twice`), and each settlement releases a hold, after the first one that of
another session. Nothing in the code rules either out.

`GatewayProofs` shows for any number of sockets, instances, commands and messages that `TypeOK`, `NoGhostEntry` and
`ConfirmedIsPublished` are invariants, overlapping reconnects included. An entry is set by a command that waits in the
queue of an instance's Redis connection, so what keeps a ghost out is that the one "set" of a socket comes before all
others of that socket in its queue, and that a socket which has unregistered has none (`ClientFits`). Without overlap
(`~Overlap`) it shows `RegisteredIsReachable` and `AnswerIsCorrelated`: the charger uses the only open socket, the
subscription of which is somewhere between the registry's queue and the subscribed channel with no unsubscription behind
it (`OwnSubscribes`), and a Call in the hands of the charger is pending until it is answered (`OwnIsAwaited`). With
overlap both are false: TLC finds the close of the old socket that takes the subscription and the pending Calls of
the new one on the same instance.

`WriterProofs` shows for any number of messages and any batch size that `TypeOK`, `NothingDropped` and
`StoredAgainOnlyByFaults` are invariants. Batch and buffer together are the newest messages in the order of arrival, and
all before them are stored (`Contiguous`); there is a batch only while somebody awaits it, and a handler that awaits one
has not counted its message (`HandlerCounted`), so that after a clean exit the successor starts behind what was taken;
what is still to be written was stored by faults only (`StoredOnce`). The worker implements `MeterTable`
(`WriterImplementsTable`): only an insert that is answered brings the writer on (`WrittenMoves`), and what any insert
writes is the batch that comes next (`InsertWrites`), which is never longer than `BatchSize`.

`ChargersProofs` shows for any number of connections, reports, crashes and redeliveries that `TypeOK`, `LastReportWins`
and `IdleIsAvailable` are invariants. `LastReportWins` speaks of the end of the log and is not inductive: a crash takes the
consumer back. The invariant says of the whole uncommitted log that its last event about a row is the one due to it
(`LastIsDue`), and that a row for which no event is waiting has what was due (`RowsFollow`), where the two writes of
a handler count apart. `SaidAvailable` is the part of the charger: idle, it has sent `Available` last.

`OrganisationsProofs` shows for any organisations, phones, roles and requests that `TypeOK`, `AcceptedTookEffect`,
`RolesWereOffered` and `ConfiguredStays` are invariants. A log-in acts on invites and memberships as it read them; the
invariant says what of that is still true (`CallsFit`): what it holds was offered, is what the invite says unless that
was replaced since, and has given its role before it is marked. `ConfiguredStays` needs that what was configured is the
row of the role (`ConfiguredIsStored`), which the rest of a creation does not overwrite.

`MigrationsProofs` shows for any files, runners and failures that `RecordedIsComplete`, `BuiltOnWhole`, `AllOrNothing`
and `DoneIsMigrated` are invariants. They are one induction over the steps of a runner: the probe of one table tells
that a whole file is there because half of it is nowhere (`AllOrNothing`), unless Docker was interrupted; a runner
that is at a file has all the files before it recorded, which is what makes `BuiltOnWhole` inductive; and a torn first
file is never built upon because the second needs all of it. What is assumed is `MigrationsAssumption`: the files have
no part in common, the second refers to all of the first, as `002` refers to its last table, and the file of TimescaleDB
can be repeated.

`TariffEngineProofs` shows for any tariffs, energies and durations that a bill is whole and not negative, that every
unit of energy is billed once (`BilledOnce`) and that the price of the energy is off by half a paisa per rounding at
most (`WithinRounding`). The invariant is `TypeOK` with these two: a span never exceeds what remains, so the loop only
moves energy from `remaining` to `billed`; the rounding of a single amount is a lemma on `Round`. `PricesAreProgressive`
(`SlabsAreBrackets`) compares what a loop subtracted from `remaining` with a sum over bounds. Its invariant, `AtSlab`,
says that the loop has priced the energy below the bound it has reached as that sum does; a slab adds the span between
two bounds, and where the loop stops early the rest of the sum changes nothing (`PriceStays`), as the bounds ascend.
That the sum, a recursive function, exists and adds a term at each bound is shown by the smallest number at which it fails.

The type invariants of sessions, migrations, the tariff engine, the writer and the wallet are proved and not given to a
run of their own, nor are `LedgerKeyed`, `OcppIdWriteOnce`, `AllOrNothing`, `DoneIsMigrated` and `CapturesAreTaken`; the
wallet's is a part of `PaymentsTypeOK`.

Every safety property of the passing runs is proved. Only model-checked are the liveness properties, which are out of the
prover's reach: `CapturedIsCredited`, `CompletedIsInvoiced`, `StopRequestedCompletes`, `HandedOverIsStored`,
`GoneIsOffline` and `MigratedInTheEnd`.

## Plan

1. Done: `Wallet`, `Sessions` with its abstraction, accounts and proofs; `MeterBatchWriter`; `OcppGateway` with its
   shutdown and reservations; `Payments`; `Organisations`; `Chargers`; `Migrations` and `TariffEngine` with proofs.
2. Done: proofs of every safety property of the runs, of the refinements of `SessionLifecycle` and `MeterTable`, and that
   sessions and payments use the wallet by its operations.
3. One-time codes and several organisations in `Organisations`.
4. Colliding transaction ids, and two consumers of one partition during a rebalance, in `Sessions`.

Not modelled: notifications and the OCPI stub (log lines and constant answers, no state); the Zod schemas (the models
take messages that passed them); the Socket.io fan-out and the queries that only read; replica counts of the deployment
files; the seed script, which fills an empty development database once.
