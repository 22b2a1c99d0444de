------------------------------ MODULE Sessions ------------------------------
(***************************************************************************)
(* A charging session from POST /sessions/start to its invoice:            *)
(* sessions.service.ts, billing.service.ts and the ocpp.events and         *)
(* meter_values consumers of realtime.ts, over the wallet (module Wallet). *)
(*                                                                         *)
(* API calls run concurrently and are split at their awaits.  Commands go  *)
(* to the charger over Redis pub/sub and may be lost.  What the charger    *)
(* reports comes back through Kafka: one partition per charger, read by    *)
(* one handler at a time, at least once.  The gateway and the charger are  *)
(* the environment; the ids the gateway gives out are taken as distinct.   *)
(*                                                                         *)
(* Meter readings count in one unit, so that Wh / 1000 is not visible.     *)
(* amount_paise is left out: it is written with the invoice and never read.*)
(***************************************************************************)
EXTENDS Integers, Sequences, FiniteSets

CONSTANTS
  Keys,          \* idempotency keys, one POST /sessions/start body each
  Chargers,
  Users,
  WalletOwners,  \* users with a wallet
  InitBalance,   \* their balances at the start
  ChargerOf,     \* the charger a key asks for
  UserOf,        \* the user a key belongs to
  Calls,         \* concurrent requests of the API
  HoldAmount,    \* paise put on hold per session, 5000 in the code
  MaxReading,    \* bound on the energy register of a charger
  Charges,       \* Charges[e]: the totals of a session of energy e, one per duration
  MaxStarts,     \* bound on the transaction ids the gateway gives out
  MaxSends,      \* bound on how often a charger sends a message before it sees the reply
  MaxCrashes,    \* bound on the crashes of a consumer
  MaxErrors,     \* bound on the handler runs that fail with an error
  NoKey

NoId == 0
Ids == 1..MaxStarts
Readings == 0..MaxReading

ASSUME SessionsAssumption ==
  /\ IsFiniteSet(Keys) /\ NoKey \notin Keys
  /\ WalletOwners \subseteq Users
  /\ InitBalance \in [WalletOwners -> Nat]
  /\ ChargerOf \in [Keys -> Chargers]
  /\ UserOf \in [Keys -> Users]
  /\ HoldAmount \in Nat /\ MaxReading \in Nat
  /\ Charges \in [Readings -> SUBSET Nat]
  /\ {MaxStarts, MaxSends, MaxCrashes, MaxErrors} \subseteq Nat

VARIABLES
  balance, hold, ledger,  \* the wallet tables
  tx,          \* transactions: the row of each key
  invoices,    \* invoices: the totals of each key's invoices, oldest first
  call,        \* the API requests in progress
  remoteStart, \* keys whose RemoteStartTransaction reached the charger
  remoteStop,  \* ids whose RemoteStopTransaction reached the charger
  charging,    \* the transaction id a charger works under, or NoId
  register,    \* the energy register of a charger
  lastId,      \* the last transaction id given out
  log,         \* ocpp.events: the partition of each charger
  pos,         \* events of the partition handled by the running consumer
  committed,   \* events of the partition committed to Kafka
  handler,     \* the event handler of each partition
  crashes, errors  \* faults used up

wallet == <<balance, hold, ledger>>
device == <<remoteStart, remoteStop, charging, register, lastId, log>>
consumer == <<pos, committed, handler>>
faults == <<crashes, errors>>
vars == <<wallet, tx, invoices, call, device, consumer, faults>>

HoldRef(k) == <<"hold", k>>

PayRefOfCharger(k) == <<"pay", ChargerOf[k]>>

PayRef(k) == <<"pay", k>>

W == INSTANCE Wallet WITH
       Refs <- {"hold", "pay"} \X Keys, Amounts <- Nat

Stage == {"NONE", "PENDING", "AUTHORIZED", "CHARGING", "STOPPING", "COMPLETED"}

(* cause is the key whose remote start the event answers, NoKey for a      *)
(* session started at the charger; the program does not see it.            *)
Event == [type : {"Start", "Stop"}, id : Ids, meter : Readings, cause : Keys \cup {NoKey}]

Idle == [pc |-> "idle", key |-> NoKey]
Poll == [pc |-> "poll", key |-> NoKey, total |-> 0]

NoRow == [state |-> "NONE", ocpp |-> NoId, created |-> 0, meterStart |-> 0, energy |-> 0]

TxRow == [state : Stage, ocpp : Ids \cup {NoId}, created : Nat,
          meterStart : Readings, energy : Readings]

CallState == [pc : {"idle", "hold", "create", "publish", "authorize"}, key : Keys \cup {NoKey}]

HandlerState == [pc : {"poll", "bind", "transition", "settle", "capture"},
                 key : Keys \cup {NoKey}, total : Nat]

TypeOK ==
  /\ W!TypeOK
  /\ tx \in [Keys -> TxRow]
  /\ invoices \in [Keys -> Seq(Nat)]
  /\ call \in [Calls -> CallState]
  /\ remoteStart \subseteq Keys
  /\ remoteStop \subseteq Ids
  /\ charging \in [Chargers -> Ids \cup {NoId}]
  /\ register \in [Chargers -> Readings]
  /\ lastId \in 0..MaxStarts
  /\ log \in [Chargers -> Seq(Event)]
  /\ pos \in [Chargers -> Nat]
  /\ committed \in [Chargers -> Nat]
  /\ \A c \in Chargers : committed[c] <= pos[c] /\ pos[c] <= Len(log[c])
  /\ handler \in [Chargers -> HandlerState]
  /\ crashes \in 0..MaxCrashes
  /\ errors \in 0..MaxErrors

Init ==
  /\ W!Init
  /\ tx = [k \in Keys |-> NoRow]
  /\ invoices = [k \in Keys |-> <<>>]
  /\ call = [p \in Calls |-> Idle]
  /\ remoteStart = {} /\ remoteStop = {}
  /\ charging = [c \in Chargers |-> NoId]
  /\ register = [c \in Chargers |-> 0]
  /\ lastId = 0
  /\ log = [c \in Chargers |-> <<>>]
  /\ pos = [c \in Chargers |-> 0]
  /\ committed = [c \in Chargers |-> 0]
  /\ handler = [c \in Chargers |-> Poll]
  /\ crashes = 0 /\ errors = 0
-----------------------------------------------------------------------------
(* updateMany ... where state in from: a row in another state is left alone. *)
MoveAlways(k, from, to) == [tx EXCEPT ![k].state = to]

Transition(k, from, to) == IF tx[k].state \in from THEN [tx EXCEPT ![k].state = to] ELSE tx

InState(c, s) == {k \in Keys : ChargerOf[k] = c /\ tx[k].state = s}

(* orderBy createdAt desc, the first row. *)
Newest(S) == {k \in S : \A j \in S : tx[j].created <= tx[k].created}

-----------------------------------------------------------------------------
(* POST /sessions/start.  An error or a crash ends the request where it is:  *)
(* nothing it did is undone.                                                 *)
At(p, pc) == call[p].pc = pc

GoTo(p, pc) == call' = [call EXCEPT ![p].pc = pc]

Return(p) == call' = [call EXCEPT ![p] = Idle]

(* The key is new: go on.  A key that has a row is answered from it and      *)
(* changes nothing.                                                          *)
StartSession(p, k) ==
  /\ At(p, "idle")
  /\ tx[k].state = "NONE"
  /\ call' = [call EXCEPT ![p] = [pc |-> "hold", key |-> k]]
  /\ UNCHANGED <<wallet, tx, invoices, device, consumer, faults>>

HoldFunds(p) ==
  /\ At(p, "hold")
  /\ W!Hold(UserOf[call[p].key], HoldAmount, HoldRef(call[p].key))
  /\ GoTo(p, "create")
  /\ UNCHANGED <<tx, invoices, device, consumer, faults>>

(* idempotency_key is unique: a second insert fails. *)
KeyIsFree(k) == tx[k].state = "NONE"

PendingRow ==
  [state |-> "PENDING", ocpp |-> NoId, meterStart |-> 0, energy |-> 0,
   created |-> 1 + Cardinality({j \in Keys : tx[j].state # "NONE"})]

CreateRow(p) ==
  LET k == call[p].key IN
    /\ At(p, "create")
    /\ KeyIsFree(k)
    /\ tx' = [tx EXCEPT ![k] = PendingRow]
    /\ GoTo(p, "publish")
    /\ UNCHANGED <<wallet, invoices, device, consumer, faults>>

(* The command is published only if the charger is in the registry; pub/sub  *)
(* gives no guarantee that the gateway still holds its socket.               *)
PublishStart(p) ==
  /\ At(p, "publish")
  /\ remoteStart' \in {remoteStart, remoteStart \cup {call[p].key}}
  /\ GoTo(p, "authorize")
  /\ UNCHANGED <<wallet, tx, invoices, consumer, faults,
                 remoteStop, charging, register, lastId, log>>

AuthorizeRow(p) ==
  /\ At(p, "authorize")
  /\ tx' = Transition(call[p].key, {"PENDING"}, "AUTHORIZED")
  /\ Return(p)
  /\ UNCHANGED <<wallet, invoices, device, consumer, faults>>

AbortCall(p) ==
  /\ ~At(p, "idle")
  /\ Return(p)
  /\ UNCHANGED <<wallet, tx, invoices, device, consumer, faults>>

(* POST /sessions/stop, once the row has its ocpp id; the command is sent     *)
(* whatever the state is, and may be lost or not sent at all.                 *)
StopSession(k) ==
  /\ tx[k].ocpp # NoId
  /\ tx' = Transition(k, {"CHARGING", "AUTHORIZED"}, "STOPPING")
  /\ remoteStop' \in {remoteStop, remoteStop \cup {tx[k].ocpp}}
  /\ UNCHANGED <<wallet, invoices, call, consumer, faults,
                 remoteStart, charging, register, lastId, log>>
-----------------------------------------------------------------------------
(* The charger behind its gateway.                                           *)
Starts(c, k, n) ==
  [i \in 1..n |-> [type |-> "Start", id |-> lastId + i, meter |-> register[c], cause |-> k]]

Stopped(c, n) ==
  [i \in 1..n |-> [type |-> "Stop", id |-> charging[c], meter |-> register[c], cause |-> NoKey]]

(* Each StartTransaction, sent again or not, gets an id of its own; the      *)
(* charger works under the one in the reply it sees.                         *)
SendStart(c, k, n) ==
  /\ charging[c] = NoId
  /\ lastId + n <= MaxStarts
  /\ log' = [log EXCEPT ![c] = @ \o Starts(c, k, n)]
  /\ lastId' = lastId + n
  /\ charging' = [charging EXCEPT ![c] = lastId + n]
  /\ UNCHANGED <<wallet, tx, invoices, call, consumer, faults, remoteStop, register>>

RemoteStart(c, k, n) ==
  /\ k \in remoteStart /\ ChargerOf[k] = c
  /\ remoteStart' = remoteStart \ {k}
  /\ SendStart(c, k, n)

(* A charger that is busy refuses a remote start. *)
RefuseStart(c, k) ==
  /\ k \in remoteStart /\ ChargerOf[k] = c
  /\ charging[c] # NoId
  /\ remoteStart' = remoteStart \ {k}
  /\ UNCHANGED <<wallet, tx, invoices, call, consumer, faults,
                 remoteStop, charging, register, lastId, log>>

(* A card is shown at the charger. *)
LocalStart(c, n) ==
  /\ SendStart(c, NoKey, n)
  /\ UNCHANGED remoteStart

DrawEnergy(c) ==
  /\ charging[c] # NoId
  /\ register[c] < MaxReading
  /\ register' = [register EXCEPT ![c] = @ + 1]
  /\ UNCHANGED <<wallet, tx, invoices, call, consumer, faults,
                 remoteStart, remoteStop, charging, lastId, log>>

(* The charger ends the transaction, on a remote stop or at the plug. *)
SendStop(c, n) ==
  /\ charging[c] # NoId
  /\ log' = [log EXCEPT ![c] = @ \o Stopped(c, n)]
  /\ charging' = [charging EXCEPT ![c] = NoId]
  /\ UNCHANGED <<wallet, tx, invoices, call, consumer, faults,
                 remoteStart, remoteStop, register, lastId>>
-----------------------------------------------------------------------------
(* The ocpp.events consumer.                                                 *)
Running(c, pc) == handler[c].pc = pc

Pending(c, type) ==
  /\ Running(c, "poll")
  /\ pos[c] < Len(log[c])
  /\ log[c][pos[c] + 1].type = type

Enter(c, pc, k, total) ==
  /\ handler' = [handler EXCEPT ![c] = [pc |-> pc, key |-> k, total |-> total]]
  /\ UNCHANGED <<pos, committed>>

DoneUnresolved(c) ==
  /\ handler' = [handler EXCEPT ![c] = Poll]
  /\ UNCHANGED <<pos, committed>>

DoneUnlessStop(c) ==
  /\ handler' = [handler EXCEPT ![c] = Poll]
  /\ pos' = IF log[c][pos[c] + 1].type = "Stop" THEN pos ELSE [pos EXCEPT ![c] = @ + 1]
  /\ UNCHANGED committed

Done(c) ==
  /\ handler' = [handler EXCEPT ![c] = Poll]
  /\ pos' = [pos EXCEPT ![c] = @ + 1]
  /\ UNCHANGED committed

(* bindStartFromOcpp: the newest authorised session of the charger, found    *)
(* with one query and updated, unconditionally, with another.                *)
OpenAt(c) == InState(c, "AUTHORIZED") \cup InState(c, "CHARGING")
AuthorizedAnywhere(c) == {k \in Keys : tx[k].state = "AUTHORIZED"}

Bindable(c) == InState(c, "AUTHORIZED")

FindStarted(c) ==
  /\ Pending(c, "Start")
  /\ IF Bindable(c) = {}
       THEN Done(c)
       ELSE \E k \in Newest(Bindable(c)) : Enter(c, "bind", k, 0)
  /\ UNCHANGED <<wallet, tx, invoices, call, device, faults>>

BindStarted(c) ==
  LET e == log[c][pos[c] + 1] IN
    /\ Running(c, "bind")
    /\ tx' = [tx EXCEPT ![handler[c].key] =
                 [@ EXCEPT !.ocpp = e.id, !.meterStart = e.meter, !.state = "CHARGING"]]
    /\ Done(c)
    /\ UNCHANGED <<wallet, invoices, call, device, faults>>

(* completeFromOcpp: find by id alone, over all chargers, then write the     *)
(* energy.  One step: the write uses only the id and the start reading.      *)
Difference(x, y) == IF x >= y THEN x - y ELSE 0

OpenSessions(id) == {k \in Keys : tx[k].state \in {"AUTHORIZED", "CHARGING"}}
ChargingUnder(id) == {k \in Keys : tx[k].ocpp = id /\ tx[k].state = "CHARGING"}

BoundTo(id) == {k \in Keys : tx[k].ocpp = id}

FindStopped(c) ==
  LET e == log[c][pos[c] + 1]
      found == BoundTo(e.id)
  IN
    /\ Pending(c, "Stop")
    /\ IF found = {}
         THEN Done(c) /\ UNCHANGED tx
         ELSE \E k \in found :
                /\ tx' = [tx EXCEPT ![k].energy = Difference(e.meter, tx[k].meterStart)]
                /\ Enter(c, "transition", k, 0)
    /\ UNCHANGED <<wallet, invoices, call, device, faults>>

CompleteRow(c) ==
  LET k == handler[c].key IN
    /\ Running(c, "transition")
    /\ tx' = Transition(k, {"STOPPING", "CHARGING"}, "COMPLETED")
    /\ Enter(c, "settle", k, 0)
    /\ UNCHANGED <<wallet, invoices, call, device, faults>>

(* settleAndInvoice: the charge is computed from the row, then the state and *)
(* an invoice under a number of its own are written in one transaction.      *)
Settle(c) ==
  LET k == handler[c].key IN
    /\ Running(c, "settle")
    /\ \E total \in Charges[tx[k].energy] :
         /\ invoices' = [invoices EXCEPT ![k] = Append(@, total)]
         /\ Enter(c, "capture", k, total)
    /\ tx' = [tx EXCEPT ![k].state = "COMPLETED"]
    /\ UNCHANGED <<wallet, call, device, faults>>

WholeHold(c) == HoldAmount

Actual(c) == handler[c].total

CaptureFunds(c) ==
  LET k == handler[c].key IN
    /\ Running(c, "capture")
    /\ W!CaptureHold(UserOf[k], HoldAmount, Actual(c), HoldRef(k), PayRef(k))
    /\ Done(c)
    /\ UNCHANGED <<tx, invoices, call, device, faults>>

(* Every error of a handler is caught and logged: the event counts as done.  *)
FailEvent(c) ==
  /\ Running(c, "poll") => pos[c] < Len(log[c])
  /\ errors < MaxErrors
  /\ errors' = errors + 1
  /\ Done(c)
  /\ UNCHANGED <<wallet, tx, invoices, call, device, crashes>>

CommitOffset(c) ==
  /\ committed[c] # pos[c]
  /\ committed' = [committed EXCEPT ![c] = pos[c]]
  /\ UNCHANGED <<wallet, tx, invoices, call, device, pos, handler, faults>>

(* The process dies; its successor starts from the committed offset. *)
RestartAt(c) == committed[c]

CrashConsumer(c) ==
  /\ crashes < MaxCrashes
  /\ crashes' = crashes + 1
  /\ pos' = [pos EXCEPT ![c] = RestartAt(c)]
  /\ handler' = [handler EXCEPT ![c] = Poll]
  /\ UNCHANGED <<wallet, tx, invoices, call, device, committed, errors>>
-----------------------------------------------------------------------------
(* The meter_values consumer, another topic in another group: a sample may   *)
(* be applied long after it was taken.                                       *)
Sampled(c, id) ==
  {r \in Readings :
     /\ \E i \in 1..Len(log[c]) :
          log[c][i].type = "Start" /\ log[c][i].id = id /\ log[c][i].meter <= r
     /\ \/ charging[c] = id /\ r <= register[c]
        \/ \E i \in 1..Len(log[c]) :
             log[c][i].type = "Stop" /\ log[c][i].id = id /\ r <= log[c][i].meter}

Metered(c, k, r) ==
  \/ tx[k].ocpp # NoId /\ r \in Sampled(c, tx[k].ocpp)
  \/ k \in Newest(InState(c, "CHARGING")) /\ r <= register[c]

ApplyMeter(c, k, r) ==
  /\ Metered(c, k, r)
  /\ tx' = [tx EXCEPT ![k].energy = r]
  /\ UNCHANGED <<wallet, invoices, call, device, consumer, faults>>
-----------------------------------------------------------------------------
StartCall(p) ==
  \/ \E k \in Keys : StartSession(p, k)
  \/ HoldFunds(p) \/ CreateRow(p) \/ PublishStart(p) \/ AuthorizeRow(p) \/ AbortCall(p)

Device(c) ==
  \/ \E k \in Keys : RefuseStart(c, k)
  \/ \E n \in 1..MaxSends :
       \/ \E k \in Keys : RemoteStart(c, k, n)
       \/ LocalStart(c, n)
       \/ SendStop(c, n)
  \/ DrawEnergy(c)

Handle(c) ==
  \/ FindStarted(c) \/ BindStarted(c) \/ FindStopped(c)
  \/ CompleteRow(c) \/ Settle(c) \/ CaptureFunds(c)

Next ==
  \/ \E p \in Calls : StartCall(p)
  \/ \E k \in Keys : StopSession(k)
  \/ \E c \in Chargers :
       \/ Device(c) \/ Handle(c)
       \/ FailEvent(c) \/ CommitOffset(c) \/ CrashConsumer(c)
       \/ \E k \in Keys, r \in Readings : ApplyMeter(c, k, r)

Spec == Init /\ [][Next]_vars

(* The consumers keep running, and a charger obeys a RemoteStop that         *)
(* reached it; nothing else is owed: requests may be abandoned and           *)
(* sessions need never be stopped.                                           *)
ObeyStop(c) == charging[c] \in remoteStop /\ SendStop(c, 1)

Fairness == \A c \in Chargers : WF_vars(Handle(c)) /\ WF_vars(ObeyStop(c))

LiveSpec == Spec /\ Fairness
-----------------------------------------------------------------------------
Held(k) == \E e \in ledger : e.ref = HoldRef(k) /\ e.reason = "hold"

Released(k) == \E e \in ledger : e.ref = HoldRef(k) /\ e.reason = "release"

Started == {"CHARGING", "STOPPING", "COMPLETED"}

(***************************************************************************)
(* A row has an OCPP id exactly while it is started, under every order of  *)
(* the API's, the handlers' and the settlement's writes.  stopSession and  *)
(* completeFromOcpp tell a started session by its id alone, and settle     *)
(* writes COMPLETED without looking at the state.                          *)
(***************************************************************************)
OcppIdMarksStarted ==
  \A k \in Keys : tx[k].ocpp # NoId <=> tx[k].state \in Started

(***************************************************************************)
(* Whatever crashes, fails or is delivered twice, no row is opened for a   *)
(* key without a hold in the ledger, only completed sessions are invoiced, *)
(* and an invoiced session never leaves COMPLETED again.                   *)
(***************************************************************************)
InvoiceBacked ==
  \A k \in Keys :
    /\ tx[k].state # "NONE" => Held(k)
    /\ invoices[k] # <<>> => tx[k].state = "COMPLETED"

(***************************************************************************)
(* What a request or a handler established before an await still holds     *)
(* after it, although the next write does not check it again: the hold of  *)
(* the row to be created, the AUTHORIZED state of the session to be bound, *)
(* the COMPLETED state and the invoice of the session to be charged for.   *)
(***************************************************************************)
HandlerFits(c) ==
  LET k == handler[c].key IN
    /\ Running(c, "bind") =>
         /\ ChargerOf[k] = c /\ tx[k].state = "AUTHORIZED"
         /\ log[c][pos[c] + 1].type = "Start"
    /\ Running(c, "transition") => tx[k].state \in Started
    /\ Running(c, "settle") \/ Running(c, "capture") => tx[k].state = "COMPLETED"
    /\ Running(c, "capture") => \E i \in 1..Len(invoices[k]) : invoices[k][i] = handler[c].total

CallFits(p) == call[p].pc \in {"create", "publish", "authorize"} => Held(call[p].key)

PausedStepsFit == (\A p \in Calls : CallFits(p)) /\ (\A c \in Chargers : HandlerFits(c))

(***************************************************************************)
(* Rows, holds, invoices and what the paused requests and handlers believe *)
(* of them fit together: the three of them hold only with each other.      *)
(***************************************************************************)
SessionsFit == OcppIdMarksStarted /\ InvoiceBacked /\ PausedStepsFit

(***************************************************************************)
(* The holds of a user exceed the balance only if one of the user's bills  *)
(* was larger than a hold: abandoned calls, repeated settlements and       *)
(* releases of holds that are gone already do not overdraw a wallet.       *)
(***************************************************************************)
OverdraftNeedsLargeBill ==
  \A u \in WalletOwners :
    hold[u] > balance[u] =>
      \E k \in Keys : UserOf[k] = u /\ \E i \in 1..Len(invoices[k]) : invoices[k][i] > HoldAmount

(***************************************************************************)
(* A session carries the id and the start reading of a StartTransaction of *)
(* its own charger: the handlers of other partitions never bind it.        *)
(***************************************************************************)
BoundToOwnCharger ==
  \A k \in Keys : tx[k].ocpp # NoId =>
    \E i \in 1..Len(log[ChargerOf[k]]) :
      LET e == log[ChargerOf[k]][i]
      IN  e.type = "Start" /\ e.id = tx[k].ocpp /\ e.meter = tx[k].meterStart

(***************************************************************************)
(* A session is invoiced at most once per delivery of a StopTransaction of *)
(* its id: a second invoice takes a resent message or a consumer crash.    *)
(***************************************************************************)
Stops(k) ==
  {i \in 1..Len(log[ChargerOf[k]]) :
     LET e == log[ChargerOf[k]][i] IN e.type = "Stop" /\ e.id = tx[k].ocpp}

InvoicedPerDelivery ==
  \A k \in Keys : Len(invoices[k]) <= Cardinality(Stops(k)) * (1 + crashes)

(***************************************************************************)
(* The OCPP id and the start reading of a row are written once: no later   *)
(* event, repeated or not, moves a session to another transaction.         *)
(***************************************************************************)
OcppIdWriteOnce ==
  [][\A k \in Keys : tx[k].ocpp # NoId =>
       tx'[k].ocpp = tx[k].ocpp /\ tx'[k].meterStart = tx[k].meterStart]_vars

(***************************************************************************)
(* The state machine of the comment above SessionsService, implemented.    *)
(***************************************************************************)
Lifecycle == INSTANCE SessionLifecycle WITH
  stage <- [k \in Keys |-> tx[k].state],
  reserved <- {k \in Keys : Held(k)},
  bills <- [k \in Keys |-> Len(invoices[k])]

ImplementsLifecycle == Lifecycle!Spec

(***************************************************************************)
(* "Billing settlement keyed by transaction_id - run once".                *)
(***************************************************************************)
SettledOnce == \A k \in Keys : Len(invoices[k]) <= 1

(***************************************************************************)
(* One charging transaction is one session: no two rows carry the same     *)
(* OCPP id, so completeFromOcpp finds the session that a stop is about.    *)
(***************************************************************************)
OneSessionPerOcppId ==
  \A j, k \in Keys : tx[j].ocpp = tx[k].ocpp /\ tx[j].ocpp # NoId => j = k

(***************************************************************************)
(* The confirmation of a remote start is not lost: a StartTransaction that *)
(* answers a RemoteStart and was handled has become a session.             *)
(***************************************************************************)
ConfirmedStartIsBound ==
  \A c \in Chargers : \A i \in 1..pos[c] :
    log[c][i].type = "Start" /\ log[c][i].cause # NoKey => BoundTo(log[c][i].id) # {}

(***************************************************************************)
(* Once every event of a charger is handled, and none failed, a session    *)
(* that is not over is the one the charger works on, so that RemoteStop    *)
(* and StopTransaction speak of the same id.                               *)
(***************************************************************************)
QuietSessionsAgree ==
  \A k \in Keys :
    LET c == ChargerOf[k] IN
      /\ tx[k].state \in {"CHARGING", "STOPPING"}
      /\ pos[c] = Len(log[c]) /\ errors = 0
      => charging[c] = tx[k].ocpp

(***************************************************************************)
(* A completed session is invoiced in the end, if its handler does not     *)
(* fail with an error: a crash between the two is repaired by redelivery.  *)
(***************************************************************************)
CompletedIsInvoiced ==
  \A k \in Keys : tx[k].state = "COMPLETED" ~> invoices[k] # <<>>

(***************************************************************************)
(* A session whose stop reached the charger completes.                     *)
(***************************************************************************)
StopRequestedCompletes ==
  \A k \in Keys :
    tx[k].ocpp \in remoteStop /\ tx[k].state = "STOPPING" ~> tx[k].state = "COMPLETED"
=============================================================================
