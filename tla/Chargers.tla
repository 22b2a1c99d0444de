------------------------------ MODULE Chargers ------------------------------
(***************************************************************************)
(* The rows of one charger and its connectors: registration                *)
(* (chargers.service.ts), the status events of its connections on their    *)
(* way through the gateway and Kafka to updateStatus (realtime.ts).  The   *)
(* charger is the simulator of tools/ocpp-simulator.                       *)
(*                                                                         *)
(* The transaction messages of the charger are in module Sessions: they    *)
(* change none of these rows.  Vendor, position, type, power and owner of  *)
(* a charger are left out: no status depends on them.                      *)
(***************************************************************************)
EXTENDS Naturals, Sequences, SequencesExt

CONSTANTS
  Connectors,      \* connectorIds that can be registered
  MaxConnections,  \* bound on the connections of the charger
  MaxCalls,        \* bound on the remote starts, and on the remote stops
  MaxInFlight,     \* bound on the events the gateway is sending when the next come
  MaxLag,          \* bound on the stored events that are not committed
  MaxFaults        \* bound on crashes of the consumer and of gateways, and on failing handlers

Whole == 0         \* connectorId 0: the charge point
NoRow == "no row"

ASSUME ChargersAssumption ==
  /\ Connectors \subseteq Nat \ {Whole} /\ 1 \in Connectors
  /\ {MaxConnections, MaxCalls, MaxInFlight, MaxLag, MaxFaults} \subseteq Nat

VARIABLES
  row, plugs,      \* the status of the charger and of each connector in the database
  due,             \* history: the last stored report on each row, if any since it is there
  link,            \* the connection the charger has: its number, or 0
  opened,          \* connections opened
  unnoticed,       \* dead connections the gateway takes for open
  charging, answered, timers, calls,  \* the charger
  sending,         \* events the gateway is sending, oldest first
  log,             \* the partition of the charger in ocpp.events, from the committed offset
  pos, handler,    \* the consumer: events handled since that offset
  causes,          \* history: what kept an event from taking its effect
  faults

rows == <<row, plugs>>
device == <<charging, answered, timers, calls>>
stream == <<sending, log, due>>
consumer == <<pos, handler>>
disturbances == <<causes, faults>>
connections == <<link, opened, unnoticed>>
vars == <<rows, connections, device, stream, consumer, disturbances>>

ChargerStatus == {"Available", "Charging", "Faulted", "Offline", "Reserved", "Unavailable"}
ConnectorStatus ==
  {"Available", "Preparing", "Charging", "SuspendedEV", "SuspendedEVSE", "Finishing",
   "Reserved", "Unavailable", "Faulted"}

Sites == {Whole} \cup Connectors

(* A StatusNotification or a ConnectionClosed.                               *)
Closed == [site |-> Whole, status |-> "closed"]
Report(k, s) == [site |-> k, status |-> s]
Event == {Closed} \cup {Report(k, s) : k \in Sites, s \in ConnectorStatus}

OwnStatusOnly(s) == IF s \in {"Charging", "Faulted", "Reserved"} THEN s ELSE "Unavailable"

mapConnectorStatusToCharger(s) ==
  IF s \in {"Charging", "Faulted", "Available", "Reserved"} THEN s ELSE "Unavailable"

RawStatus(e) == IF e = Closed THEN "Offline" ELSE e.status

PayloadStatus(e) == mapConnectorStatusToCharger(IF e = Closed THEN "Offline" ELSE e.status)

StatusOf(e) == IF e = Closed THEN "Offline" ELSE mapConnectorStatusToCharger(e.status)

(* The rows a report is about, and the status it brings them. *)
About(x, e) == x \in {Whole, e.site}

Brings(x, e) == IF x = Whole THEN StatusOf(e) ELSE e.status

Timer == {"start"} \X Connectors \cup {<<"stop", 1>>}

TypeOK ==
  /\ row \in ChargerStatus \cup {NoRow}
  /\ plugs \in [Connectors -> ConnectorStatus \cup {NoRow}]
  /\ due \in [Sites -> ChargerStatus \cup ConnectorStatus \cup {NoRow}]
  /\ {link, opened, unnoticed} \subseteq 0..MaxConnections
  /\ charging \in BOOLEAN /\ answered \in BOOLEAN
  /\ timers \in Seq(Timer)
  /\ calls \in [{"start", "stop"} -> 0..MaxCalls]
  /\ sending \in Seq(Event) /\ log \in Seq(Event)
  /\ pos \in 0..Len(log)
  /\ handler \in {"poll", "plug"}
  /\ faults \in 0..MaxFaults
  /\ causes \subseteq {"overtaken", "late", "lost", "failed"}

Init ==
  /\ row = NoRow /\ plugs = [k \in Connectors |-> NoRow]
  /\ link = 0 /\ opened = 0 /\ unnoticed = 0
  /\ charging = FALSE /\ answered = FALSE /\ timers = <<>>
  /\ calls = [t \in {"start", "stop"} |-> 0]
  /\ sending = <<>> /\ log = <<>> /\ due = [x \in Sites |-> NoRow]
  /\ pos = 0 /\ handler = "poll"
  /\ causes = {} /\ faults = 0
-----------------------------------------------------------------------------
(* upsertCharger, one transaction: new rows get the defaults of the schema,  *)
(* the status of those that are there is left alone.                         *)
ResetPlugs(S) == [k \in Connectors |-> IF k \in S THEN "Unavailable" ELSE plugs[k]]

WithPlugs(S) ==
  [k \in Connectors |-> IF k \in S /\ plugs[k] = NoRow THEN "Unavailable" ELSE plugs[k]]

(* What is due to a new row are the reports on it that are still to be       *)
(* handled.                                                                  *)
IsNew(x, S) == IF x = Whole THEN row = NoRow ELSE x \in S /\ plugs[x] = NoRow

ToHandle == (IF handler = "poll" THEN pos + 1 ELSE pos + 2)..Len(log)

UpsertCharger(S) ==
  /\ row' = IF row = NoRow THEN "Offline" ELSE row
  /\ plugs' = WithPlugs(S)
  /\ due' = [x \in Sites |->
              IF IsNew(x, S) /\ \A i \in ToHandle : ~About(x, log[i]) THEN NoRow ELSE due[x]]
  /\ UNCHANGED <<connections, device, sending, log, consumer, disturbances>>
-----------------------------------------------------------------------------
(* The charger.  Its process ends with its connection, so that a new one     *)
(* starts from the beginning.                                                *)
HasRoom == Len(sending) < MaxInFlight

Send(reports) == sending' = sending \o reports

ResetDevice ==
  /\ charging' = FALSE /\ answered' = FALSE /\ timers' = <<>>
  /\ UNCHANGED calls

Connect ==
  /\ link = 0 /\ opened < MaxConnections /\ HasRoom
  /\ opened' = opened + 1 /\ link' = opened + 1
  /\ Send(<<Report(Whole, "Available"), Report(1, "Available")>>)
  /\ ResetDevice
  /\ UNCHANGED <<rows, unnoticed, log, due, consumer, disturbances>>

Count(t) == calls[t] < MaxCalls /\ calls' = [calls EXCEPT ![t] = @ + 1]

(* Accepted whatever the charger does at the moment. *)
RemoteStart(k) ==
  /\ link # 0 /\ HasRoom /\ Count("start")
  /\ Send(<<Report(k, "Preparing")>>)
  /\ timers' = Append(timers, <<"start", k>>)
  /\ UNCHANGED <<rows, connections, charging, answered, log, due, consumer, disturbances>>

(* startCharging, 500 ms later. *)
StartTimer(i) ==
  /\ link # 0 /\ HasRoom
  /\ i \in DOMAIN timers /\ timers[i][1] = "start"
  /\ \A j \in 1..(i - 1) : timers[j][1] # "start"
  /\ timers' = RemoveAt(timers, i)
  /\ charging' = TRUE
  /\ Send(<<Report(timers[i][2], "Charging")>>)
  /\ UNCHANGED <<rows, connections, answered, calls, log, due, consumer, disturbances>>

(* The CallResult of StartTransaction brings the transaction id. *)
StartAnswered ==
  /\ link # 0 /\ charging /\ ~answered
  /\ answered' = TRUE
  /\ UNCHANGED <<rows, connections, charging, timers, calls, stream, consumer, disturbances>>

(* stopCharging does nothing before the id is there; the reports go out,     *)
(* always for connector 1.                                                   *)
RemoteStop ==
  /\ link # 0 /\ HasRoom /\ Count("stop")
  /\ IF charging /\ answered
       THEN charging' = FALSE /\ answered' = FALSE
       ELSE UNCHANGED <<charging, answered>>
  /\ Send(<<Report(1, "Finishing")>>)
  /\ timers' = Append(timers, <<"stop", 1>>)
  /\ UNCHANGED <<rows, connections, log, due, consumer, disturbances>>

(* 800 ms later: every timer set before is over. *)
StopTimer ==
  /\ link # 0 /\ HasRoom
  /\ timers # <<>> /\ Head(timers) = <<"stop", 1>>
  /\ timers' = Tail(timers)
  /\ Send(<<Report(1, "Available")>>)
  /\ UNCHANGED <<rows, connections, charging, answered, calls, log, due, consumer, disturbances>>
-----------------------------------------------------------------------------
(* A connection ends, and its gateway notices: at once, or by the idle       *)
(* timeout, when the charger may be back on another connection.              *)
LoseLink ==
  /\ link # 0
  /\ link' = 0 /\ unnoticed' = unnoticed + 1
  /\ ResetDevice
  /\ UNCHANGED <<rows, opened, stream, consumer, disturbances>>

NoticeClose ==
  /\ unnoticed # 0 /\ HasRoom
  /\ unnoticed' = unnoticed - 1
  /\ Send(<<Closed>>)
  /\ causes' = IF link = 0 THEN causes ELSE causes \cup {"late"}
  /\ UNCHANGED <<rows, link, opened, device, log, due, consumer, faults>>

(* A close is published at once, a report after a round trip to Redis, and   *)
(* another connection may be on another instance: the events under way reach *)
(* Kafka in any order.                                                       *)
StoreEvent(i) ==
  /\ i \in DOMAIN sending /\ Len(log) < MaxLag
  /\ log' = Append(log, sending[i])
  /\ due' = [x \in Sites |-> IF About(x, sending[i]) THEN Brings(x, sending[i]) ELSE due[x]]
  /\ sending' = RemoveAt(sending, i)
  /\ causes' = IF i = 1 THEN causes ELSE causes \cup {"overtaken"}
  /\ UNCHANGED <<rows, connections, device, consumer, faults>>

(* The instance of the charger dies, told to or by itself, also because the  *)
(* broker refused an event: nothing is said of the end of its connection,    *)
(* and of what it was sending only the first n events are stored.            *)
GatewayDies(n) ==
  /\ link # 0 /\ n \in 0..Len(sending)
  /\ faults < MaxFaults /\ faults' = faults + 1
  /\ link' = 0 /\ unnoticed' \in {0, unnoticed}
  /\ sending' = SubSeq(sending, 1, n)
  /\ ResetDevice
  /\ causes' = causes \cup {"lost"}
  /\ UNCHANGED <<rows, opened, log, due, consumer>>
-----------------------------------------------------------------------------
(* The ocpp.events consumer: handleOcppEvent calls updateStatus, which       *)
(* writes the charger and then, in a query of its own, the connector.        *)
InWork == log[pos + 1]

Handled == handler' = "poll" /\ pos' = pos + 1

(* An update of a row that is not there throws, and the error is logged.     *)
NamesNoConnector(e) == e = Closed

UpdateCharger ==
  /\ handler = "poll" /\ pos < Len(log)
  /\ row' = IF row = NoRow THEN NoRow ELSE StatusOf(InWork)
  /\ IF row = NoRow \/ NamesNoConnector(InWork)
       THEN Handled
       ELSE handler' = "plug" /\ UNCHANGED pos
  /\ UNCHANGED <<plugs, connections, device, stream, disturbances>>

(* updateMany changes no row if there is none. *)
PlugsAfter(e) ==
  [k \in Connectors |->
     IF k = e.site /\ plugs[k] # NoRow THEN e.status ELSE plugs[k]]

UpdateConnector ==
  /\ handler = "plug"
  /\ plugs' = PlugsAfter(InWork)
  /\ Handled
  /\ UNCHANGED <<row, connections, device, stream, disturbances>>

(* Any other error ends the handler as well, at either write, and the event  *)
(* counts as done.                                                           *)
FailHandler ==
  /\ pos < Len(log)
  /\ faults < MaxFaults /\ faults' = faults + 1
  /\ causes' = causes \cup {"failed"}
  /\ Handled
  /\ UNCHANGED <<rows, connections, device, stream>>

CommitOffset ==
  /\ pos # 0
  /\ log' = SubSeq(log, pos + 1, Len(log))
  /\ pos' = 0
  /\ UNCHANGED <<rows, connections, device, sending, due, handler, disturbances>>

(* Its successor starts from the committed offset. *)
RestartAtLatest == Len(log)

RestartAt == 0

CrashConsumer ==
  /\ faults < MaxFaults /\ faults' = faults + 1
  /\ pos' = RestartAt /\ handler' = "poll"
  /\ UNCHANGED <<rows, connections, device, stream, causes>>
-----------------------------------------------------------------------------
Handle == UpdateCharger \/ UpdateConnector

Store == \E i \in DOMAIN sending : StoreEvent(i)

Next ==
  \/ \E S \in SUBSET Connectors : UpsertCharger(S)
  \/ Connect \/ StartAnswered \/ RemoteStop \/ StopTimer
  \/ LoseLink \/ NoticeClose
  \/ \E k \in Connectors : RemoteStart(k)
  \/ \E i \in DOMAIN timers : StartTimer(i)
  \/ Store \/ \E n \in 0..Len(sending) : GatewayDies(n)
  \/ Handle \/ FailHandler \/ CommitOffset \/ CrashConsumer

Spec == Init /\ [][Next]_vars

(* The idle timeout, the producer and the consumer keep working. *)
Fairness ==
  WF_vars(NoticeClose) /\ WF_vars(Store) /\ WF_vars(Handle) /\ WF_vars(CommitOffset)

LiveSpec == Spec /\ Fairness
-----------------------------------------------------------------------------
Settled == sending = <<>> /\ pos = Len(log) /\ handler = "poll"

(***************************************************************************)
(* Redelivery after a crash of the consumer leaves no old status behind:   *)
(* once all events are handled, and none failed, the charger has the       *)
(* status of the last one and each connector that of the last one about    *)
(* it, unless its row was registered later.  Registering the charger again *)
(* resets none of them.                                                    *)
(***************************************************************************)
LastReportWins ==
  Settled /\ "failed" \notin causes =>
    /\ row # NoRow /\ due[Whole] # NoRow => row = due[Whole]
    /\ \A k \in Connectors : plugs[k] # NoRow /\ due[k] # NoRow => plugs[k] = due[k]

(***************************************************************************)
(* "Status sync": a connected charger that has nothing to do is shown as   *)
(* available, if its events were stored in order and handled, and no end   *)
(* of an old connection was noticed under it.  Two timers of the charger,  *)
(* two writes of a handler, redelivery, registration while it is connected *)
(* and the death of the gateway it had before come in between.             *)
(***************************************************************************)
Idle == link # 0 /\ timers = <<>> /\ ~charging

Undisturbed == Settled /\ causes \subseteq {"lost"}

IdleIsAvailable ==
  Idle /\ Undisturbed =>
    /\ row # NoRow /\ due[Whole] # NoRow => row = "Available"
    /\ plugs[1] # NoRow /\ due[1] # NoRow => plugs[1] = "Available"

(***************************************************************************)
(* A charger that is gone is shown as offline in the end, unless it comes  *)
(* back, its events overtook each other, its gateway died or a handler     *)
(* failed.                                                                 *)
(***************************************************************************)
GoneIsOffline ==
  row # NoRow /\ link = 0 ~>
    \/ row = "Offline" \/ link # 0
    \/ causes \intersect {"overtaken", "lost", "failed"} # {}
=============================================================================
