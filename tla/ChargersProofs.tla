--------------------------- MODULE ChargersProofs ---------------------------
(***************************************************************************)
(* Proofs about Chargers, for any connectors and any bounds on the         *)
(* connections, calls, events under way and faults.                        *)
(***************************************************************************)
EXTENDS Chargers, SequenceTheorems, TLAPS

(* No more connections have ended than were made. *)
ConnectionsCounted == unnoticed + (IF link = 0 THEN 0 ELSE 1) <= opened

(* A handler that is between its writes has an event in work, and          *)
(* connectors are registered with their charger.                           *)
HandlerFits ==
  /\ handler = "plug" => pos < Len(log)
  /\ row = NoRow => \A k \in Connectors : plugs[k] = NoRow

RowOf(x) == IF x = Whole THEN row ELSE plugs[x]

(* What the consumer is still to write into a row.  Between its writes the *)
(* charger has the status of the event in work and the connector has not.  *)
Waiting(x) == (IF handler = "plug" /\ x = Whole THEN pos + 2 ELSE pos + 1)..Len(log)

(* The last event about a row in the uncommitted log is the one due to it. *)
LastIsDue ==
  \A x \in Sites : due[x] # NoRow =>
    \A n \in 1..Len(log) :
      About(x, log[n]) /\ (\A m \in n + 1..Len(log) : ~About(x, log[m])) =>
        due[x] = Brings(x, log[n])

(* A row that no event waits for has what was due to it. *)
RowsFollow ==
  "failed" \notin causes =>
    \A x \in Sites :
      RowOf(x) # NoRow /\ due[x] # NoRow /\ (\A n \in Waiting(x) : ~About(x, log[n])) =>
        RowOf(x) = due[x]

(* A connected charger that has nothing to do has said so last. *)
SaidAvailable ==
  link # 0 /\ ~charging /\ timers = <<>> /\ causes \cap {"overtaken", "late"} = {} =>
    IF sending = <<>>
      THEN due[Whole] \in {"Available", NoRow} /\ due[1] \in {"Available", NoRow}
      ELSE sending[Len(sending)] = Report(1, "Available")

Inv ==
  /\ TypeOK /\ ConnectionsCounted /\ HandlerFits
  /\ LastIsDue /\ RowsFollow /\ SaidAvailable
-----------------------------------------------------------------------------
LEMMA AppendFacts ==
  ASSUME NEW T, NEW q \in Seq(T), NEW e \in T
  PROVE  /\ Append(q, e) \in Seq(T) /\ Len(q) \in Nat /\ Len(Append(q, e)) = Len(q) + 1
         /\ \A n \in 1..Len(q) : Append(q, e)[n] = q[n]
         /\ Append(q, e)[Len(q) + 1] = e
OBVIOUS

LEMMA ConcatFacts ==
  ASSUME NEW T, NEW q \in Seq(T), NEW r \in Seq(T), r # <<>>
  PROVE  /\ q \o r \in Seq(T) /\ q \o r # <<>>
         /\ (q \o r)[Len(q \o r)] = r[Len(r)]
OBVIOUS

LEMMA SubSeqFacts ==
  ASSUME NEW T, NEW q \in Seq(T), NEW a \in Nat, NEW b \in Nat, 1 <= a, b <= Len(q)
  PROVE  /\ SubSeq(q, a, b) \in Seq(T)
         /\ Len(SubSeq(q, a, b)) = IF a <= b THEN b - a + 1 ELSE 0
         /\ \A n \in 1..Len(SubSeq(q, a, b)) : SubSeq(q, a, b)[n] = q[a + n - 1]
OBVIOUS

LEMMA RemoveAtFacts ==
  ASSUME NEW T, NEW q \in Seq(T), NEW i \in 1..Len(q)
  PROVE  /\ RemoveAt(q, i) \in Seq(T)
         /\ Len(q) \in Nat /\ Len(RemoveAt(q, i)) = Len(q) - 1
         /\ i = 1 => \A n \in 1..Len(q) - 1 : RemoveAt(q, i)[n] = q[n + 1]
<1> DEFINE a == SubSeq(q, 1, i - 1)
           b == SubSeq(q, i + 1, Len(q))
<1>1. a \in Seq(T) /\ Len(a) = i - 1
  OBVIOUS
<1>2. /\ b \in Seq(T) /\ Len(b) = Len(q) - i
      /\ \A n \in 1..Len(q) - i : b[n] = q[i + n]
  OBVIOUS
<1>3. RemoveAt(q, i) = a \o b
  BY DEF RemoveAt
<1> HIDE DEF a, b
<1>4. a \o b \in Seq(T) /\ Len(a \o b) = Len(q) - 1
  <2>1. a \o b \in Seq(T) /\ Len(a \o b) = Len(a) + Len(b)
    BY <1>1, <1>2, ConcatProperties
  <2>2. Len(q) \in Nat /\ i \in Nat
    OBVIOUS
  <2> QED BY <1>1, <1>2, <2>1, <2>2
<1>5. ASSUME i = 1, NEW n \in 1..Len(q) - 1
      PROVE  (a \o b)[n] = q[n + 1]
  <2>1. (a \o b)[n] = b[n]
    BY <1>1, <1>2, <1>5
  <2> QED BY <1>2, <1>5, <2>1
<1> QED BY <1>3, <1>4, <1>5

LEMMA Sites1 == 1 \in Sites /\ Whole \in Sites /\ Whole \notin Connectors /\ 1 \in Connectors
BY ChargersAssumption DEF Sites

LEMMA Reports ==
  /\ Closed \in Event
  /\ \A k \in Sites, s \in ConnectorStatus : Report(k, s) \in Event
  /\ \A k, s : Report(k, s).site = k /\ Report(k, s).status = s
<1>1. Closed \in Event
  BY DEF Event
<1>2. \A k \in Sites, s \in ConnectorStatus : Report(k, s) \in Event
  BY DEF Event
<1>3. ASSUME NEW k, NEW s
      PROVE  Report(k, s).site = k /\ Report(k, s).status = s
  BY DEF Report
<1> QED BY <1>1, <1>2, <1>3

(* What an event brings is a status of the row it is about. *)
LEMMA BringsStatus ==
  ASSUME NEW e \in Event
  PROVE  /\ StatusOf(e) \in ChargerStatus
         /\ \A k \in Connectors : About(k, e) => Brings(k, e) \in ConnectorStatus /\ Brings(k, e) = e.status
         /\ About(Whole, e) /\ Brings(Whole, e) = StatusOf(e)
         /\ NoRow \notin ChargerStatus \cup ConnectorStatus
<1>1. StatusOf(e) \in ChargerStatus
  BY DEF StatusOf, mapConnectorStatusToCharger, ChargerStatus
<1>2. ASSUME NEW k \in Connectors, About(k, e)
      PROVE  Brings(k, e) = e.status /\ e.status \in ConnectorStatus
  <2>1. k # Whole /\ e.site = k
    BY <1>2, Sites1 DEF About
  <2>2. e # Closed
    BY <2>1 DEF Closed
  <2>3. PICK j \in Sites, s \in ConnectorStatus : e = Report(j, s)
    BY <2>2 DEF Event
  <2> QED BY <2>1, <2>3, Reports DEF Brings
<1>3. About(Whole, e) /\ Brings(Whole, e) = StatusOf(e)
  BY DEF About, Brings
<1>4. NoRow \notin ChargerStatus \cup ConnectorStatus
  BY DEF NoRow, ChargerStatus, ConnectorStatus
<1> QED BY <1>1, <1>2, <1>3, <1>4
-----------------------------------------------------------------------------
Basics == TypeOK /\ ConnectionsCounted /\ HandlerFits

LEMMA SendFacts ==
  ASSUME TypeOK, NEW r \in Seq(Event), r # <<>>, Send(r)
  PROVE  /\ sending' \in Seq(Event) /\ sending' # <<>>
         /\ sending'[Len(sending')] = r[Len(r)]
BY ConcatFacts DEF Send, TypeOK

LEMMA OneReport ==
  ASSUME NEW e \in Event
  PROVE  <<e>> \in Seq(Event) /\ <<e>> # <<>> /\ <<e>>[Len(<<e>>)] = e
OBVIOUS

LEMMA UpsertBasics ==
  ASSUME Basics, NEW S \in SUBSET Connectors, UpsertCharger(S)
  PROVE  Basics'
<1> USE DEF rows, device, stream, consumer, disturbances, connections
<1>1. /\ row' = IF row = NoRow THEN "Offline" ELSE row
      /\ plugs' = [k \in Connectors |-> IF k \in S /\ plugs[k] = NoRow THEN "Unavailable" ELSE plugs[k]]
      /\ \A x \in Sites : due'[x] \in {due[x], NoRow}
      /\ due' = [x \in Sites |-> due'[x]]
      /\ UNCHANGED <<link, opened, unnoticed, charging, answered, timers, calls, sending, log, pos,
                     handler, causes, faults>>
  BY DEF UpsertCharger, WithPlugs
<1>2. "Offline" \in ChargerStatus /\ "Unavailable" \in ConnectorStatus /\ "Offline" # NoRow
  BY DEF ChargerStatus, ConnectorStatus, NoRow
<1>3. row' \in ChargerStatus \cup {NoRow} /\ row' # NoRow
  BY <1>1, <1>2 DEF Basics, TypeOK
<1>4. plugs' \in [Connectors -> ConnectorStatus \cup {NoRow}]
  BY <1>1, <1>2 DEF Basics, TypeOK
<1>5. due' \in [Sites -> ChargerStatus \cup ConnectorStatus \cup {NoRow}]
  <2>1. \A x \in Sites : due'[x] \in ChargerStatus \cup ConnectorStatus \cup {NoRow}
    BY <1>1 DEF Basics, TypeOK
  <2> QED BY <1>1, <2>1
<1>6. TypeOK'
  BY <1>1, <1>3, <1>4, <1>5 DEF Basics, TypeOK
<1> QED BY <1>1, <1>3, <1>6 DEF Basics, ConnectionsCounted, HandlerFits

(* What the charger and the gateway do changes neither rows nor consumer. *)
LEMMA LinkBasics ==
  ASSUME Basics, UNCHANGED <<rows, log, due, consumer, faults>>,
         {link', opened', unnoticed'} \subseteq 0..MaxConnections, ConnectionsCounted',
         charging' \in BOOLEAN, answered' \in BOOLEAN, timers' \in Seq(Timer),
         calls' \in [{"start", "stop"} -> 0..MaxCalls], sending' \in Seq(Event),
         causes' \subseteq {"overtaken", "late", "lost", "failed"}
  PROVE  Basics'
BY DEF Basics, TypeOK, HandlerFits, rows, consumer

LEMMA DeviceStep ==
  ASSUME Basics,
         \/ Connect \/ StartAnswered \/ RemoteStop \/ StopTimer \/ LoseLink \/ NoticeClose
         \/ \E k \in Connectors : RemoteStart(k)
         \/ \E i \in DOMAIN timers : StartTimer(i)
  PROVE  Basics'
<1> USE ChargersAssumption
        DEF rows, device, stream, consumer, disturbances, connections
<1>0. /\ {link, opened, unnoticed} \subseteq 0..MaxConnections
      /\ charging \in BOOLEAN /\ answered \in BOOLEAN /\ timers \in Seq(Timer)
      /\ calls \in [{"start", "stop"} -> 0..MaxCalls] /\ sending \in Seq(Event)
      /\ causes \subseteq {"overtaken", "late", "lost", "failed"}
      /\ MaxConnections \in Nat /\ MaxCalls \in Nat
  BY DEF Basics, TypeOK
<1>1. ASSUME NEW t \in {"start", "stop"}, Count(t)
      PROVE  calls' \in [{"start", "stop"} -> 0..MaxCalls]
  BY <1>0, <1>1 DEF Count
<1>2. ASSUME NEW k \in Sites, NEW s \in ConnectorStatus, Send(<<Report(k, s)>>)
      PROVE  sending' \in Seq(Event)
  <2>1. Report(k, s) \in Event
    BY Reports
  <2> HIDE DEF rows
  <2> QED BY <1>2, <2>1, OneReport, SendFacts DEF Basics
<1>3. \A s \in {"Available", "Preparing", "Charging", "Finishing"} : s \in ConnectorStatus
  BY DEF ConnectorStatus
<1>4. CASE Connect
  <2>1. /\ link = 0 /\ opened < MaxConnections /\ opened' = opened + 1 /\ link' = opened + 1
        /\ unnoticed' = unnoticed /\ charging' = FALSE /\ answered' = FALSE /\ timers' = <<>>
        /\ Send(<<Report(Whole, "Available"), Report(1, "Available")>>)
        /\ UNCHANGED <<row, plugs, log, due, pos, handler, faults, causes, calls>>
    BY <1>4 DEF Connect, ResetDevice
  <2>2. ConnectionsCounted' /\ {link', opened', unnoticed'} \subseteq 0..MaxConnections
    BY <1>0, <2>1 DEF Basics, ConnectionsCounted
  <2>3. sending' \in Seq(Event)
    <3> DEFINE a == Report(Whole, "Available")
               b == Report(1, "Available")
    <3>1. a \in Event /\ b \in Event
      BY <1>3, Reports, Sites1
    <3> HIDE DEF a, b
    <3>2. <<a, b>> \in Seq(Event) /\ <<a, b>> # <<>>
      BY <3>1
    <3>3. Send(<<a, b>>)
      BY <2>1 DEF a, b
    <3> QED BY <3>2, <3>3, SendFacts DEF Basics
  <2>4. timers' \in Seq(Timer)
    BY <2>1
  <2> QED BY <1>0, <2>1, <2>2, <2>3, <2>4, LinkBasics
<1>5. CASE StartAnswered
  <2>1. ConnectionsCounted'
    BY <1>5 DEF StartAnswered, Basics, ConnectionsCounted
  <2> QED BY <1>0, <1>5, <2>1, LinkBasics DEF StartAnswered
<1>6. CASE RemoteStop
  <2>1. sending' \in Seq(Event) /\ calls' \in [{"start", "stop"} -> 0..MaxCalls]
    BY <1>1, <1>2, <1>3, <1>6, Sites1 DEF RemoteStop
  <2>2. timers' \in Seq(Timer)
    <3>1. <<"stop", 1>> \in Timer
      BY DEF Timer
    <3> QED BY <1>0, <1>6, <3>1, AppendFacts DEF RemoteStop
  <2>3. ConnectionsCounted'
    BY <1>6 DEF RemoteStop, Basics, ConnectionsCounted
  <2>4. charging' \in BOOLEAN /\ answered' \in BOOLEAN
    BY <1>0, <1>6 DEF RemoteStop
  <2> QED BY <1>0, <1>6, <2>1, <2>2, <2>3, <2>4, LinkBasics DEF RemoteStop
<1>7. CASE StopTimer
  <2>1. sending' \in Seq(Event)
    BY <1>2, <1>3, <1>7, Sites1 DEF StopTimer
  <2>2. timers' \in Seq(Timer)
    BY <1>0, <1>7 DEF StopTimer
  <2>3. ConnectionsCounted'
    BY <1>7 DEF StopTimer, Basics, ConnectionsCounted
  <2> QED BY <1>0, <1>7, <2>1, <2>2, <2>3, LinkBasics DEF StopTimer
<1>8. CASE LoseLink
  <2>1. /\ link # 0 /\ link' = 0 /\ unnoticed' = unnoticed + 1 /\ opened' = opened
        /\ charging' = FALSE /\ answered' = FALSE /\ timers' = <<>>
        /\ UNCHANGED <<row, plugs, log, due, pos, handler, faults, causes, calls, sending>>
    BY <1>8 DEF LoseLink, ResetDevice
  <2>2. ConnectionsCounted' /\ {link', opened', unnoticed'} \subseteq 0..MaxConnections
    BY <1>0, <2>1 DEF Basics, ConnectionsCounted
  <2>3. timers' \in Seq(Timer)
    BY <2>1
  <2> QED BY <1>0, <2>1, <2>2, <2>3, LinkBasics
<1>9. CASE NoticeClose
  <2>1. /\ unnoticed # 0 /\ unnoticed' = unnoticed - 1 /\ Send(<<Closed>>)
        /\ causes' \subseteq causes \cup {"late"}
        /\ UNCHANGED <<row, plugs, link, opened, charging, answered, timers, calls, log, due, pos,
                       handler, faults>>
    BY <1>9 DEF NoticeClose
  <2>2. ConnectionsCounted' /\ {link', opened', unnoticed'} \subseteq 0..MaxConnections
    BY <1>0, <2>1 DEF Basics, ConnectionsCounted
  <2>3. sending' \in Seq(Event)
    BY <2>1, OneReport, SendFacts, Reports DEF Basics
  <2> QED BY <1>0, <2>1, <2>2, <2>3, LinkBasics
<1>10. ASSUME NEW k \in Connectors, RemoteStart(k)
       PROVE  Basics'
  <2>1. sending' \in Seq(Event) /\ calls' \in [{"start", "stop"} -> 0..MaxCalls]
    BY <1>1, <1>2, <1>3, <1>10 DEF RemoteStart, Sites
  <2>2. timers' \in Seq(Timer)
    <3>1. <<"start", k>> \in Timer
      BY DEF Timer
    <3> QED BY <1>0, <1>10, <3>1, AppendFacts DEF RemoteStart
  <2>3. ConnectionsCounted'
    BY <1>10 DEF RemoteStart, Basics, ConnectionsCounted
  <2> QED BY <1>0, <1>10, <2>1, <2>2, <2>3, LinkBasics DEF RemoteStart
<1>11. ASSUME NEW i \in DOMAIN timers, StartTimer(i)
       PROVE  Basics'
  <2>1. timers[i] \in Timer /\ timers[i][1] = "start" /\ i \in 1..Len(timers)
    BY <1>0, <1>11 DEF StartTimer
  <2>2. timers[i][2] \in Sites
    BY <2>1 DEF Timer, Sites
  <2>3. sending' \in Seq(Event)
    BY <1>2, <1>3, <1>11, <2>2 DEF StartTimer
  <2>4. timers' \in Seq(Timer)
    BY <1>0, <1>11, <2>1, RemoveAtFacts DEF StartTimer
  <2>5. ConnectionsCounted'
    BY <1>11 DEF StartTimer, Basics, ConnectionsCounted
  <2>6. charging' \in BOOLEAN
    BY <1>11 DEF StartTimer
  <2> QED BY <1>0, <1>11, <2>3, <2>4, <2>5, <2>6, LinkBasics DEF StartTimer
<1> QED BY <1>4, <1>5, <1>6, <1>7, <1>8, <1>9, <1>10, <1>11

(* What is stored, handled and committed changes neither charger nor links. *)
LEMMA StreamBasics ==
  ASSUME Basics, UNCHANGED <<connections, device>>,
         sending' \in Seq(Event), log' \in Seq(Event),
         due' \in [Sites -> ChargerStatus \cup ConnectorStatus \cup {NoRow}],
         row' \in ChargerStatus \cup {NoRow},
         plugs' \in [Connectors -> ConnectorStatus \cup {NoRow}],
         pos' \in 0..Len(log'), handler' \in {"poll", "plug"}, HandlerFits',
         faults' \in 0..MaxFaults, causes' \subseteq {"overtaken", "late", "lost", "failed"}
  PROVE  Basics'
BY DEF Basics, TypeOK, ConnectionsCounted, connections, device

LEMMA ConsumerTypes ==
  ASSUME Basics
  PROVE  /\ log \in Seq(Event) /\ Len(log) \in Nat /\ sending \in Seq(Event) /\ Len(sending) \in Nat
         /\ pos \in Nat /\ pos <= Len(log) /\ handler \in {"poll", "plug"}
         /\ handler = "plug" => pos < Len(log)
         /\ row \in ChargerStatus \cup {NoRow}
         /\ plugs \in [Connectors -> ConnectorStatus \cup {NoRow}]
         /\ due \in [Sites -> ChargerStatus \cup ConnectorStatus \cup {NoRow}]
         /\ MaxFaults \in Nat /\ faults \in 0..MaxFaults
         /\ causes \subseteq {"overtaken", "late", "lost", "failed"}
         /\ \A n \in 1..Len(log) : log[n] \in Event
<1>1. log \in Seq(Event) /\ sending \in Seq(Event)
  BY DEF Basics, TypeOK
<1>2. Len(log) \in Nat /\ Len(sending) \in Nat /\ \A n \in 1..Len(log) : log[n] \in Event
  BY <1>1
<1>3. pos \in 0..Len(log)
  BY DEF Basics, TypeOK
<1>4. pos \in Nat /\ pos <= Len(log)
  BY <1>2, <1>3
<1> QED BY <1>1, <1>2, <1>4, ChargersAssumption DEF Basics, TypeOK, HandlerFits

LEMMA StoreFacts ==
  ASSUME Basics, NEW i \in DOMAIN sending, StoreEvent(i)
  PROVE  /\ sending[i] \in Event
         /\ log' \in Seq(Event) /\ Len(log') = Len(log) + 1
         /\ log'[Len(log) + 1] = sending[i] /\ \A n \in 1..Len(log) : log'[n] = log[n]
         /\ \A x \in Sites : due'[x] = IF About(x, sending[i]) THEN Brings(x, sending[i]) ELSE due[x]
         /\ due' \in [Sites -> ChargerStatus \cup ConnectorStatus \cup {NoRow}]
         /\ sending' \in Seq(Event)
<1>1. sending[i] \in Event /\ i \in 1..Len(sending)
  BY ConsumerTypes
<1>2. /\ log' \in Seq(Event) /\ Len(log') = Len(log) + 1
      /\ log'[Len(log) + 1] = sending[i] /\ \A n \in 1..Len(log) : log'[n] = log[n]
  BY <1>1, AppendFacts, ConsumerTypes DEF StoreEvent
<1>3. due' = [x \in Sites |-> IF About(x, sending[i]) THEN Brings(x, sending[i]) ELSE due[x]]
  BY DEF StoreEvent
<1>4. ASSUME NEW x \in Sites, About(x, sending[i])
      PROVE  Brings(x, sending[i]) \in ChargerStatus \cup ConnectorStatus
  <2>1. CASE x = Whole
    BY <1>1, <2>1, BringsStatus
  <2>2. CASE x \in Connectors
    BY <1>1, <1>4, <2>2, BringsStatus
  <2> QED BY <2>1, <2>2 DEF Sites
<1>5. due' \in [Sites -> ChargerStatus \cup ConnectorStatus \cup {NoRow}]
  BY <1>3, <1>4, ConsumerTypes
<1>6. sending' \in Seq(Event)
  BY <1>1, RemoveAtFacts, ConsumerTypes DEF StoreEvent
<1> QED BY <1>1, <1>2, <1>3, <1>5, <1>6

LEMMA StoreBasics ==
  ASSUME Basics, NEW i \in DOMAIN sending, StoreEvent(i)
  PROVE  Basics'
<1>1. /\ UNCHANGED <<connections, device, row, plugs, pos, handler, faults>>
      /\ causes' \subseteq {"overtaken", "late", "lost", "failed"}
  BY ConsumerTypes DEF StoreEvent, rows, consumer
<1>2. pos' \in 0..Len(log') /\ HandlerFits'
  BY <1>1, ConsumerTypes, StoreFacts DEF Basics, HandlerFits
<1>3. /\ row' \in ChargerStatus \cup {NoRow} /\ faults' \in 0..MaxFaults
      /\ plugs' \in [Connectors -> ConnectorStatus \cup {NoRow}] /\ handler' \in {"poll", "plug"}
  BY <1>1, ConsumerTypes
<1> QED BY <1>1, <1>2, <1>3, StoreFacts, StreamBasics

LEMMA DiesBasics ==
  ASSUME Basics, NEW n \in 0..Len(sending), GatewayDies(n)
  PROVE  Basics'
<1>1. /\ link # 0 /\ link' = 0 /\ unnoticed' \in {0, unnoticed} /\ faults' = faults + 1
      /\ faults < MaxFaults /\ charging' = FALSE /\ answered' = FALSE /\ timers' = <<>>
      /\ sending' = SubSeq(sending, 1, n) /\ causes' = causes \cup {"lost"}
      /\ UNCHANGED <<row, plugs, opened, log, due, pos, handler, calls>>
  BY DEF GatewayDies, ResetDevice, rows, consumer
<1>2. sending' \in Seq(Event)
  BY <1>1, ConsumerTypes
<1>3. {link, opened, unnoticed} \subseteq 0..MaxConnections /\ MaxConnections \in Nat
  BY ChargersAssumption DEF Basics, TypeOK
<1>4. ConnectionsCounted' /\ {link', opened', unnoticed'} \subseteq 0..MaxConnections
  BY <1>1, <1>3 DEF Basics, ConnectionsCounted
<1>5. faults' \in 0..MaxFaults /\ timers' \in Seq(Timer)
  BY <1>1, ConsumerTypes
<1> QED BY <1>1, <1>2, <1>4, <1>5 DEF Basics, TypeOK, HandlerFits

LEMMA HandleBasics ==
  ASSUME Basics, UpdateCharger \/ UpdateConnector \/ FailHandler
  PROVE  Basics'
<1> USE ConsumerTypes DEF rows, device, stream, consumer, disturbances, connections
<1>1. pos < Len(log) /\ UNCHANGED <<log, due, sending, link, opened, unnoticed, device>>
  BY DEF UpdateCharger, UpdateConnector, FailHandler
<1>2. InWork \in Event
  BY <1>1 DEF InWork
<1>3. \/ handler' = "poll" /\ pos' = pos + 1
      \/ handler' = "plug" /\ pos' = pos /\ row # NoRow
  BY DEF UpdateCharger, UpdateConnector, FailHandler, Handled
<1>4. /\ row' \in ChargerStatus \cup {NoRow}
      /\ row = NoRow <=> row' = NoRow
  <2>1. StatusOf(InWork) \in ChargerStatus \ {NoRow}
    BY <1>2, BringsStatus
  <2> QED BY <2>1 DEF UpdateCharger, UpdateConnector, FailHandler
<1>5. ASSUME NEW k \in Connectors
      PROVE  /\ plugs'[k] \in ConnectorStatus \cup {NoRow}
             /\ plugs[k] = NoRow => plugs'[k] = NoRow
  <2>1. CASE UpdateConnector
    <3>1. plugs'[k] = IF k = InWork.site /\ plugs[k] # NoRow THEN InWork.status ELSE plugs[k]
      BY <2>1 DEF UpdateConnector, PlugsAfter
    <3>2. k = InWork.site => InWork.status \in ConnectorStatus
      BY <1>2, BringsStatus DEF About
    <3> QED BY <3>1, <3>2
  <2>2. CASE UpdateCharger \/ FailHandler
    <3>1. plugs' = plugs
      BY <2>2 DEF UpdateCharger, FailHandler
    <3> QED BY <3>1
  <2> QED BY <2>1, <2>2
<1>6. plugs' = [k \in Connectors |-> plugs'[k]]
  BY DEF UpdateCharger, UpdateConnector, FailHandler, PlugsAfter
<1>7. plugs' \in [Connectors -> ConnectorStatus \cup {NoRow}]
  BY <1>5, <1>6
<1>8. HandlerFits' /\ pos' \in 0..Len(log')
  BY <1>1, <1>3, <1>4, <1>5 DEF Basics, HandlerFits
<1>9. faults' \in 0..MaxFaults /\ causes' \subseteq {"overtaken", "late", "lost", "failed"}
  BY DEF UpdateCharger, UpdateConnector, FailHandler
<1>10. /\ log' \in Seq(Event) /\ sending' \in Seq(Event) /\ handler' \in {"poll", "plug"}
       /\ due' \in [Sites -> ChargerStatus \cup ConnectorStatus \cup {NoRow}]
  BY <1>1, <1>3
<1> QED BY <1>1, <1>4, <1>7, <1>8, <1>9, <1>10, StreamBasics

LEMMA CommitFacts ==
  ASSUME Basics, CommitOffset
  PROVE  /\ log' \in Seq(Event) /\ Len(log') = Len(log) - pos
         /\ \A n \in 1..Len(log') : log'[n] = log[pos + n]
<1> DEFINE a == pos + 1
           b == Len(log)
<1>1. log \in Seq(Event) /\ a \in Nat /\ b \in Nat /\ 1 <= a /\ b <= Len(log) /\ pos \in Nat /\ pos <= b
  BY ConsumerTypes
<1>2. log' = SubSeq(log, a, b)
  BY DEF CommitOffset
<1>3. (IF a <= b THEN b - a + 1 ELSE 0) = b - pos
  BY <1>1
<1>4. \A n \in Nat : a + n - 1 = pos + n
  BY <1>1
<1> HIDE DEF a
<1>5. /\ log' \in Seq(Event) /\ Len(log') = IF a <= b THEN b - a + 1 ELSE 0
      /\ \A n \in 1..Len(log') : log'[n] = log[a + n - 1]
  BY <1>1, <1>2, SubSeqFacts
<1> QED BY <1>3, <1>4, <1>5

LEMMA RestartBasics ==
  ASSUME Basics, CommitOffset \/ CrashConsumer
  PROVE  Basics'
<1> USE ConsumerTypes DEF rows, device, stream, consumer, disturbances, connections
<1>1. /\ UNCHANGED <<link, opened, unnoticed, device, row, plugs, due, sending, causes>>
      /\ pos' = 0 /\ faults' \in 0..MaxFaults /\ handler' \in {"poll", handler}
  BY DEF CommitOffset, CrashConsumer, RestartAt
<1>2. /\ log' \in Seq(Event) /\ Len(log') \in Nat
      /\ handler' = "plug" => Len(log') > 0
  <2>1. CASE CommitOffset
    BY <1>1, <2>1, CommitFacts
  <2>2. CASE CrashConsumer
    BY <1>1, <2>2 DEF CrashConsumer
  <2> QED BY <2>1, <2>2
<1>3. HandlerFits' /\ pos' \in 0..Len(log')
  BY <1>1, <1>2 DEF Basics, HandlerFits
<1> QED BY <1>1, <1>2, <1>3, StreamBasics
-----------------------------------------------------------------------------
(* What the uncommitted log says about the rows, action by action. *)
Follows == LastIsDue /\ RowsFollow

(* The charger, its connections and the end of a gateway touch none of it.   *)
LEMMA FollowsElsewhere ==
  ASSUME Follows, UNCHANGED <<row, plugs, log, due, pos, handler>>,
         "failed" \in causes => "failed" \in causes'
  PROVE  Follows'
BY DEF Follows, LastIsDue, RowsFollow, RowOf, Waiting

LEMMA UpsertFollows ==
  ASSUME Basics, Follows, NEW S \in SUBSET Connectors, UpsertCharger(S)
  PROVE  Follows'
<1> USE ConsumerTypes
<1>1. /\ UNCHANGED <<log, pos, handler, causes>>
      /\ \A x \in Sites :
           due'[x] = IF IsNew(x, S) /\ \A i \in ToHandle : ~About(x, log[i]) THEN NoRow ELSE due[x]
  BY DEF UpsertCharger, consumer, disturbances
<1>2. LastIsDue'
  BY <1>1 DEF Follows, LastIsDue
<1>3. ASSUME NEW x \in Sites, ~IsNew(x, S)
      PROVE  RowOf(x)' = RowOf(x)
  BY <1>3 DEF IsNew, RowOf, UpsertCharger, WithPlugs, Sites
<1>4. ASSUME NEW x \in Sites
      PROVE  Waiting(x)' = Waiting(x) /\ ToHandle \subseteq Waiting(x)
  BY <1>1 DEF Waiting, ToHandle
<1>5. ASSUME "failed" \notin causes', NEW x \in Sites, RowOf(x)' # NoRow, due'[x] # NoRow,
             \A n \in Waiting(x) : ~About(x, log[n])
      PROVE  RowOf(x)' = due'[x]
  <2>1. ~IsNew(x, S) /\ due'[x] = due[x]
    BY <1>1, <1>4, <1>5
  <2> QED BY <1>1, <1>3, <1>5, <2>1 DEF Follows, RowsFollow
<1>6. RowsFollow'
  <2> SUFFICES ASSUME "failed" \notin causes', NEW x \in Sites, RowOf(x)' # NoRow, due'[x] # NoRow,
                      \A n \in Waiting(x)' : ~About(x, log'[n])
               PROVE  RowOf(x)' = due'[x]
    BY DEF RowsFollow
  <2> QED BY <1>1, <1>4, <1>5
<1> QED BY <1>2, <1>6 DEF Follows

LEMMA StoreFollows ==
  ASSUME Basics, Follows, NEW i \in DOMAIN sending, StoreEvent(i)
  PROVE  Follows'
<1> DEFINE e == sending[i]
           N == Len(log) + 1
<1>1. /\ Len(log') = N /\ log'[N] = e /\ \A n \in 1..Len(log) : log'[n] = log[n]
      /\ \A x \in Sites : due'[x] = IF About(x, e) THEN Brings(x, e) ELSE due[x]
  BY StoreFacts
<1>2. Len(log) \in Nat /\ pos \in Nat /\ pos <= Len(log) /\ (handler = "plug" => pos < Len(log))
  BY ConsumerTypes
<1>3. UNCHANGED <<row, plugs, pos, handler>> /\ causes \subseteq causes'
  BY DEF StoreEvent, rows, consumer
<1>4. N \in Nat /\ N > Len(log)
  BY <1>2
<1> HIDE DEF e
<1>5. LastIsDue'
  <2> SUFFICES ASSUME NEW x \in Sites, due'[x] # NoRow, NEW n \in 1..N, About(x, log'[n]),
                      \A m \in n + 1..N : ~About(x, log'[m])
               PROVE  due'[x] = Brings(x, log'[n])
    BY <1>1 DEF LastIsDue
  <2>1. CASE n = N
    BY <1>1, <2>1
  <2>2. CASE n # N
    <3>1. n \in 1..Len(log) /\ N \in n + 1..N
      BY <1>2, <2>2
    <3>2. ~About(x, e) /\ due'[x] = due[x]
      BY <1>1, <3>1
    <3>3. \A m \in n + 1..Len(log) : ~About(x, log[m])
      <4> SUFFICES ASSUME NEW m \in n + 1..Len(log)
                   PROVE  ~About(x, log[m])
        OBVIOUS
      <4>1. m \in 1..Len(log) /\ m \in n + 1..N
        BY <1>2, <3>1
      <4> QED BY <1>1, <4>1
    <3>4. About(x, log[n]) /\ log'[n] = log[n]
      BY <1>1, <3>1
    <3> QED BY <3>1, <3>2, <3>3, <3>4 DEF Follows, LastIsDue
  <2> QED BY <2>1, <2>2
<1>6. RowsFollow'
  <2> SUFFICES ASSUME "failed" \notin causes', NEW x \in Sites, RowOf(x)' # NoRow, due'[x] # NoRow,
                      \A n \in Waiting(x)' : ~About(x, log'[n])
               PROVE  RowOf(x)' = due'[x]
    BY DEF RowsFollow
  <2>1. Waiting(x)' = (IF handler = "plug" /\ x = Whole THEN pos + 2 ELSE pos + 1)..N
    BY <1>1, <1>3 DEF Waiting
  <2>2. N \in Waiting(x)' /\ Waiting(x) \subseteq Waiting(x)' /\ Waiting(x) \subseteq 1..Len(log)
    <3> DEFINE a == IF handler = "plug" /\ x = Whole THEN pos + 2 ELSE pos + 1
    <3>1. a \in Nat /\ 1 <= a /\ a <= N
      BY <1>2
    <3>2. Waiting(x)' = a..N /\ Waiting(x) = a..Len(log)
      BY <2>1 DEF Waiting
    <3> HIDE DEF a
    <3> QED BY <1>2, <1>4, <3>1, <3>2
  <2>3. ~About(x, e) /\ due'[x] = due[x] /\ RowOf(x)' = RowOf(x)
    BY <1>1, <1>3, <2>2 DEF RowOf
  <2>4. \A n \in Waiting(x) : ~About(x, log[n])
    BY <1>1, <2>2
  <2> QED BY <1>3, <2>3, <2>4 DEF Follows, RowsFollow
<1> QED BY <1>5, <1>6 DEF Follows

LEMMA UpdateChargerFollows ==
  ASSUME Basics, Follows, UpdateCharger
  PROVE  Follows'
<1> USE DEF rows, device, stream, consumer, disturbances, connections
<1>1. /\ handler = "poll" /\ pos < Len(log) /\ UNCHANGED <<plugs, log, due, causes>>
      /\ row' = IF row = NoRow THEN NoRow ELSE StatusOf(InWork)
      /\ IF row = NoRow \/ InWork = Closed
           THEN handler' = "poll" /\ pos' = pos + 1
           ELSE handler' = "plug" /\ pos' = pos
  BY DEF UpdateCharger, Handled, NamesNoConnector
<1>2. Len(log) \in Nat /\ pos \in Nat
  BY ConsumerTypes
<1>3. LastIsDue'
  BY <1>1 DEF Follows, LastIsDue
<1>4. ASSUME "failed" \notin causes', NEW x \in Sites, RowOf(x)' # NoRow, due'[x] # NoRow,
             \A n \in Waiting(x)' : ~About(x, log'[n])
      PROVE  RowOf(x)' = due'[x]
  <2>1. CASE x = Whole
    <3>1. \A n \in 1..Len(log) : About(x, log[n])
      BY <2>1 DEF About
    <3>2. Waiting(x)' = pos + 2..Len(log)
      BY <1>1, <1>2, <2>1 DEF Waiting
    <3>3. Waiting(x)' = {}
      BY <1>1, <1>2, <1>4, <3>1, <3>2
    <3>4. pos + 1 = Len(log)
      <4>1. ~(pos + 2 <= Len(log))
        <5> SUFFICES ASSUME pos + 2 <= Len(log)
                     PROVE  FALSE
          OBVIOUS
        <5>1. pos + 2 \in pos + 2..Len(log)
          BY <1>2
        <5> QED BY <3>2, <3>3, <5>1
      <4> QED BY <1>1, <1>2, <4>1
    <3>5. due[x] = Brings(x, log[Len(log)])
      <4>1. Len(log) \in 1..Len(log) /\ \A m \in Len(log) + 1..Len(log) : FALSE
        BY <1>2, <3>4
      <4> QED BY <1>1, <1>4, <3>1, <4>1 DEF Follows, LastIsDue
    <3>6. RowOf(x)' = StatusOf(log[pos + 1])
      BY <1>1, <1>4, <2>1 DEF RowOf, InWork
    <3> QED BY <1>1, <2>1, <3>4, <3>5, <3>6 DEF Brings
  <2>2. CASE x \in Connectors
    <3>1. x # Whole /\ RowOf(x)' = plugs[x] /\ RowOf(x) = plugs[x]
      BY <1>1, <2>2, Sites1 DEF RowOf
    <3>2. row # NoRow
      BY <1>4, <2>2, <3>1 DEF Basics, HandlerFits
    <3>3. \A n \in Waiting(x) : ~About(x, log[n])
      <4>1. CASE handler' = "plug" /\ pos' = pos
        BY <1>1, <1>4, <3>1, <4>1 DEF Waiting
      <4>2. CASE InWork = Closed /\ pos' = pos + 1
        <5>1. ~About(x, log[pos + 1])
          BY <3>1, <4>2 DEF About, InWork, Closed
        <5>2. \A n \in Waiting(x) : n = pos + 1 \/ n \in Waiting(x)'
          BY <1>1, <1>2, <3>1, <4>2 DEF Waiting
        <5> QED BY <1>1, <1>4, <5>1, <5>2
      <4> QED BY <1>1, <3>2, <4>1, <4>2
    <3> QED BY <1>1, <1>4, <3>1, <3>3 DEF Follows, RowsFollow
  <2> QED BY <2>1, <2>2 DEF Sites
<1>5. RowsFollow'
  BY <1>4 DEF RowsFollow
<1> QED BY <1>3, <1>5 DEF Follows

LEMMA UpdateConnectorFollows ==
  ASSUME Basics, Follows, UpdateConnector
  PROVE  Follows'
<1> USE DEF rows, device, stream, consumer, disturbances, connections
<1>1. /\ handler = "plug" /\ UNCHANGED <<row, log, due, causes>>
      /\ handler' = "poll" /\ pos' = pos + 1
      /\ \A k \in Connectors :
           plugs'[k] = IF k = InWork.site /\ plugs[k] # NoRow THEN InWork.status ELSE plugs[k]
  BY DEF UpdateConnector, Handled, PlugsAfter
<1>2. Len(log) \in Nat /\ pos \in Nat /\ pos < Len(log) /\ InWork \in Event
  BY <1>1, ConsumerTypes DEF InWork
<1>3. LastIsDue'
  BY <1>1 DEF Follows, LastIsDue
<1>4. ASSUME "failed" \notin causes', NEW x \in Sites, RowOf(x)' # NoRow, due'[x] # NoRow,
             \A n \in Waiting(x)' : ~About(x, log'[n])
      PROVE  RowOf(x)' = due'[x]
  <2>1. CASE x = Whole
    <3>1. RowOf(x)' = RowOf(x) /\ Waiting(x)' = Waiting(x)
      BY <1>1, <1>2, <2>1 DEF RowOf, Waiting
    <3> QED BY <1>1, <1>4, <3>1 DEF Follows, RowsFollow
  <2>2. CASE x \in Connectors
    <3>1. x # Whole /\ RowOf(x)' = plugs'[x] /\ RowOf(x) = plugs[x]
      BY <2>2, Sites1 DEF RowOf
    <3>2. Waiting(x)' = pos + 2..Len(log) /\ Waiting(x) = pos + 1..Len(log)
      BY <1>1, <1>2, <3>1 DEF Waiting
    <3>3. \A m \in pos + 2..Len(log) : ~About(x, log[m])
      BY <1>1, <1>4, <3>2
    <3>4. plugs[x] # NoRow
      BY <1>1, <1>4, <2>2, <3>1
    <3>5. CASE About(x, InWork)
      <4>1. plugs'[x] = Brings(x, InWork)
        BY <1>1, <2>2, <3>1, <3>4, <3>5 DEF About, Brings
      <4>2. pos + 1 \in 1..Len(log) /\ pos + 1 + 1 = pos + 2
        BY <1>2
      <4>3. due[x] = Brings(x, log[pos + 1])
        BY <1>1, <1>4, <3>3, <3>5, <4>2 DEF Follows, LastIsDue, InWork
      <4> QED BY <1>1, <3>1, <4>1, <4>3 DEF InWork
    <3>6. CASE ~About(x, InWork)
      <4>1. \A n \in Waiting(x) : n = pos + 1 \/ n \in pos + 2..Len(log)
        BY <1>2, <3>2
      <4>2. \A n \in Waiting(x) : ~About(x, log[n])
        BY <3>3, <3>6, <4>1 DEF InWork
      <4>3. plugs'[x] = plugs[x]
        BY <1>1, <2>2, <3>6 DEF About
      <4> QED BY <1>1, <1>4, <3>1, <4>2, <4>3 DEF Follows, RowsFollow
    <3> QED BY <3>5, <3>6
  <2> QED BY <2>1, <2>2 DEF Sites
<1>5. RowsFollow'
  BY <1>4 DEF RowsFollow
<1> QED BY <1>3, <1>5 DEF Follows

LEMMA CommitFollows ==
  ASSUME Basics, Follows, CommitOffset
  PROVE  Follows'
<1> USE DEF rows, device, stream, consumer, disturbances, connections
<1>1. UNCHANGED <<row, plugs, due, handler, causes>> /\ pos' = 0
  BY DEF CommitOffset
<1>2. Len(log) \in Nat /\ pos \in Nat /\ pos <= Len(log)
  BY ConsumerTypes
<1>3. Len(log') = Len(log) - pos /\ \A n \in 1..Len(log') : log'[n] = log[pos + n]
  BY CommitFacts
<1>4. LastIsDue'
  <2> SUFFICES ASSUME NEW x \in Sites, due'[x] # NoRow, NEW n \in 1..Len(log'), About(x, log'[n]),
                      \A m \in n + 1..Len(log') : ~About(x, log'[m])
               PROVE  due'[x] = Brings(x, log'[n])
    BY DEF LastIsDue
  <2>1. pos + n \in 1..Len(log) /\ log'[n] = log[pos + n]
    BY <1>2, <1>3
  <2>2. ASSUME NEW m \in pos + n + 1..Len(log)
        PROVE  ~About(x, log[m])
    <3>1. m - pos \in n + 1..Len(log') /\ m - pos \in 1..Len(log') /\ pos + (m - pos) = m
      BY <1>2, <1>3
    <3>2. log'[m - pos] = log[m]
      BY <1>3, <3>1
    <3> QED BY <3>1, <3>2
  <2> QED BY <1>1, <2>1, <2>2 DEF Follows, LastIsDue
<1>5. RowsFollow'
  <2> SUFFICES ASSUME "failed" \notin causes', NEW x \in Sites, RowOf(x)' # NoRow, due'[x] # NoRow,
                      \A n \in Waiting(x)' : ~About(x, log'[n])
               PROVE  RowOf(x)' = due'[x]
    BY DEF RowsFollow
  <2>1. ASSUME NEW n \in Waiting(x)
        PROVE  ~About(x, log[n])
    <3>1. n - pos \in Waiting(x)' /\ n - pos \in 1..Len(log') /\ pos + (n - pos) = n
      BY <1>1, <1>2, <1>3 DEF Waiting
    <3>2. log'[n - pos] = log[n]
      BY <1>3, <3>1
    <3> QED BY <3>1, <3>2
  <2> QED BY <1>1, <2>1 DEF Follows, RowsFollow, RowOf
<1> QED BY <1>4, <1>5 DEF Follows

LEMMA CrashFollows ==
  ASSUME Basics, Follows, CrashConsumer
  PROVE  Follows'
<1> USE DEF rows, device, stream, consumer, disturbances, connections
<1>1. UNCHANGED <<row, plugs, log, due, causes>> /\ pos' = 0 /\ handler' = "poll"
  BY DEF CrashConsumer, RestartAt
<1>2. LastIsDue'
  BY <1>1 DEF Follows, LastIsDue
<1>3. \A x \in Sites : Waiting(x) \subseteq Waiting(x)' /\ RowOf(x)' = RowOf(x)
  BY <1>1, ConsumerTypes DEF Waiting, RowOf
<1>4. RowsFollow'
  BY <1>1, <1>3 DEF Follows, RowsFollow
<1> QED BY <1>2, <1>4 DEF Follows

LEMMA FailFollows ==
  ASSUME Basics, Follows, FailHandler
  PROVE  Follows'
<1>1. UNCHANGED <<log, due>> /\ "failed" \in causes'
  BY DEF FailHandler, stream
<1> QED BY <1>1 DEF Follows, LastIsDue, RowsFollow
-----------------------------------------------------------------------------
(* What a connected charger with nothing to do has said last.               *)
LEMMA SaidElsewhere ==
  ASSUME SaidAvailable, UNCHANGED <<link, charging, timers, sending, causes>>,
         \A x \in Sites : due'[x] \in {due[x], NoRow}
  PROVE  SaidAvailable'
BY Sites1 DEF SaidAvailable

LEMMA DeviceSaid ==
  ASSUME Basics, SaidAvailable,
         \/ Connect \/ StartAnswered \/ RemoteStop \/ StopTimer \/ LoseLink \/ NoticeClose
         \/ \E k \in Connectors : RemoteStart(k)
         \/ \E i \in DOMAIN timers : StartTimer(i)
  PROVE  SaidAvailable'
<1> DEFINE available == Report(1, "Available")
<1>1. available \in Event /\ Report(Whole, "Available") \in Event
  BY Reports, Sites1 DEF ConnectorStatus
<1>2. timers \in Seq(Timer)
  BY DEF Basics, TypeOK
<1>3. ASSUME sending' # <<>>, sending'[Len(sending')] = available
      PROVE  SaidAvailable'
  BY <1>3 DEF SaidAvailable
<1>4. CASE Connect
  <2> DEFINE whole == Report(Whole, "Available")
  <2> HIDE DEF available, whole
  <2>1. /\ <<whole, available>> \in Seq(Event) /\ <<whole, available>> # <<>>
        /\ <<whole, available>>[Len(<<whole, available>>)] = available
    BY <1>1 DEF whole
  <2>2. Send(<<whole, available>>)
    BY <1>4 DEF Connect, whole, available
  <2> QED BY <1>3, <2>1, <2>2, SendFacts DEF Basics
<1>5. CASE StopTimer
  <2> HIDE DEF available
  <2>1. Send(<<available>>)
    BY <1>5 DEF StopTimer, available
  <2> QED BY <1>1, <1>3, <2>1, OneReport, SendFacts DEF Basics
<1>6. CASE StartAnswered
  BY <1>6 DEF StartAnswered, SaidAvailable
<1>7. CASE LoseLink
  BY <1>7 DEF LoseLink, SaidAvailable
<1>8. CASE NoticeClose
  <2>1. link' = 0 \/ "late" \in causes'
    BY <1>8 DEF NoticeClose
  <2> QED BY <2>1 DEF SaidAvailable
<1>9. ASSUME RemoteStop \/ \E k \in Connectors : RemoteStart(k)
      PROVE  SaidAvailable'
  <2>1. PICK t \in Timer : timers' = Append(timers, t)
    BY <1>9 DEF RemoteStop, RemoteStart, Timer
  <2>2. timers' # <<>>
    BY <1>2, <2>1
  <2> QED BY <2>2 DEF SaidAvailable
<1>10. ASSUME NEW i \in DOMAIN timers, StartTimer(i)
       PROVE  SaidAvailable'
  BY <1>10 DEF StartTimer, SaidAvailable
<1> QED BY <1>4, <1>5, <1>6, <1>7, <1>8, <1>9, <1>10

LEMMA StoreSaid ==
  ASSUME Basics, SaidAvailable, NEW i \in DOMAIN sending, StoreEvent(i)
  PROVE  SaidAvailable'
<1> DEFINE available == Report(1, "Available")
<1>1. UNCHANGED <<link, charging, timers>> /\ sending' = RemoveAt(sending, i) /\ causes \subseteq causes'
  BY DEF StoreEvent, connections, device
<1> SUFFICES ASSUME link # 0, ~charging, timers = <<>>, causes' \cap {"overtaken", "late"} = {}
             PROVE  IF sending' = <<>>
                      THEN due'[Whole] \in {"Available", NoRow} /\ due'[1] \in {"Available", NoRow}
                      ELSE sending'[Len(sending')] = available
  BY <1>1 DEF SaidAvailable
<1>2. i = 1 /\ causes \cap {"overtaken", "late"} = {}
  BY <1>1 DEF StoreEvent
<1>3. sending \in Seq(Event) /\ Len(sending) \in Nat /\ i \in 1..Len(sending)
  BY ConsumerTypes
<1>4. sending[Len(sending)] = available
  BY <1>2, <1>3 DEF SaidAvailable
<1>5. /\ sending' \in Seq(Event) /\ Len(sending') = Len(sending) - 1
      /\ \A n \in 1..Len(sending) - 1 : sending'[n] = sending[n + 1]
  BY <1>1, <1>2, <1>3, RemoveAtFacts
<1>6. CASE sending' = <<>>
  <2>1. Len(sending) = 1
    BY <1>3, <1>5, <1>6
  <2>2. sending[i] = available
    BY <1>2, <1>4, <2>1
  <2>3. About(1, available) /\ About(Whole, available)
    BY Reports DEF About
  <2>4. Brings(1, available) = "Available"
    BY Reports, Sites1 DEF Brings
  <2>5. Brings(Whole, available) = "Available"
    <3>1. available # Closed
      BY DEF Report, Closed
    <3> QED BY <3>1, Reports DEF Brings, StatusOf, mapConnectorStatusToCharger
  <2>6. due'[1] = "Available" /\ due'[Whole] = "Available"
    BY <2>2, <2>3, <2>4, <2>5, StoreFacts, Sites1
  <2> QED BY <1>6, <2>6
<1>7. CASE sending' # <<>>
  <2>1. Len(sending') # 0
    BY <1>5, <1>7
  <2>2. Len(sending') \in 1..Len(sending) - 1 /\ Len(sending') + 1 = Len(sending)
    BY <1>3, <1>5, <2>1
  <2> QED BY <1>4, <1>5, <1>7, <2>2
<1> QED BY <1>6, <1>7
-----------------------------------------------------------------------------
LEMMA InvInit == Init => Inv
<1> SUFFICES ASSUME Init
             PROVE  Inv
  OBVIOUS
<1> USE ChargersAssumption DEF Init
<1>1. TypeOK
  <2>1. calls \in [{"start", "stop"} -> 0..MaxCalls] /\ 0 \in 0..MaxConnections /\ 0 \in 0..MaxFaults
    OBVIOUS
  <2>2. /\ timers \in Seq(Timer) /\ sending \in Seq(Event) /\ log \in Seq(Event)
        /\ pos \in 0..Len(log)
    OBVIOUS
  <2>3. /\ plugs \in [Connectors -> ConnectorStatus \cup {NoRow}]
        /\ due \in [Sites -> ChargerStatus \cup ConnectorStatus \cup {NoRow}]
    OBVIOUS
  <2> QED BY <2>1, <2>2, <2>3 DEF TypeOK
<1>2. ConnectionsCounted /\ HandlerFits /\ SaidAvailable
  BY DEF ConnectionsCounted, HandlerFits, SaidAvailable
<1>3. LastIsDue /\ RowsFollow
  BY DEF LastIsDue, RowsFollow
<1> QED BY <1>1, <1>2, <1>3 DEF Inv

LEMMA InvStutters == Inv /\ UNCHANGED vars => Inv'
<1> SUFFICES ASSUME Inv, UNCHANGED vars
             PROVE  Inv'
  OBVIOUS
<1> USE DEF Inv, vars, rows, device, stream, consumer, disturbances, connections
<1>1. TypeOK' /\ ConnectionsCounted' /\ HandlerFits'
  BY DEF TypeOK, ConnectionsCounted, HandlerFits
<1>2. LastIsDue' /\ RowsFollow' /\ SaidAvailable'
  BY DEF LastIsDue, RowsFollow, SaidAvailable, RowOf, Waiting
<1> QED BY <1>1, <1>2

LEMMA InvNext == Inv /\ Next => Inv'
<1> SUFFICES ASSUME Inv, Next
             PROVE  Basics' /\ Follows' /\ SaidAvailable'
  BY DEF Inv, Basics, Follows
<1> USE DEF Inv, rows, device, stream, consumer, disturbances, connections
<1>0. Basics /\ Follows /\ SaidAvailable
  BY DEF Basics, Follows
<1> HIDE DEF Inv
<1>1. ASSUME NEW S \in SUBSET Connectors, UpsertCharger(S)
      PROVE  Basics' /\ Follows' /\ SaidAvailable'
  <2>1. /\ UNCHANGED <<link, charging, timers, sending, causes>>
        /\ \A x \in Sites : due'[x] \in {due[x], NoRow}
    BY <1>1 DEF UpsertCharger
  <2> QED BY <1>0, <1>1, <2>1, UpsertBasics, UpsertFollows, SaidElsewhere
<1>2. ASSUME \/ Connect \/ StartAnswered \/ RemoteStop \/ StopTimer \/ LoseLink \/ NoticeClose
             \/ \E k \in Connectors : RemoteStart(k)
             \/ \E i \in DOMAIN timers : StartTimer(i)
      PROVE  Basics' /\ Follows' /\ SaidAvailable'
  <2>1. UNCHANGED <<row, plugs, log, due, pos, handler>> /\ causes \subseteq causes'
    BY <1>2 DEF Connect, StartAnswered, RemoteStop, StopTimer, LoseLink, NoticeClose, RemoteStart,
                StartTimer
  <2> QED BY <1>0, <1>2, <2>1, DeviceStep, FollowsElsewhere, DeviceSaid
<1>3. ASSUME NEW i \in DOMAIN sending, StoreEvent(i)
      PROVE  Basics' /\ Follows' /\ SaidAvailable'
  BY <1>0, <1>3, StoreBasics, StoreFollows, StoreSaid
<1>4. ASSUME NEW n \in 0..Len(sending), GatewayDies(n)
      PROVE  Basics' /\ Follows' /\ SaidAvailable'
  <2>1. UNCHANGED <<row, plugs, log, due, pos, handler>> /\ causes \subseteq causes' /\ link' = 0
    BY <1>4 DEF GatewayDies
  <2>2. SaidAvailable'
    BY <2>1 DEF SaidAvailable
  <2> QED BY <1>0, <1>4, <2>1, <2>2, DiesBasics, FollowsElsewhere
<1>5. ASSUME Handle \/ FailHandler \/ CommitOffset \/ CrashConsumer
      PROVE  Basics' /\ Follows' /\ SaidAvailable'
  <2>1. Basics'
    BY <1>0, <1>5, HandleBasics, RestartBasics DEF Handle
  <2>2. Follows'
    BY <1>0, <1>5, UpdateChargerFollows, UpdateConnectorFollows, FailFollows, CommitFollows,
       CrashFollows DEF Handle
  <2>3. UNCHANGED <<link, charging, timers, sending, due>> /\ causes \subseteq causes'
    BY <1>5 DEF Handle, UpdateCharger, UpdateConnector, FailHandler, CommitOffset, CrashConsumer
  <2>4. SaidAvailable'
    BY <1>0, <2>3 DEF SaidAvailable
  <2> QED BY <2>1, <2>2, <2>4
<1> QED BY <1>1, <1>2, <1>3, <1>4, <1>5 DEF Next, Store

LEMMA Invariance == Spec => []Inv
BY InvInit, InvStutters, InvNext, PTL DEF Spec
-----------------------------------------------------------------------------
(***************************************************************************)
(* The rows, the events under way and the consumer's position keep their   *)
(* types, however the consumer crashes between the writes of a handler     *)
(* (upsertCharger, updateStatus and the producer of the gateway).          *)
(***************************************************************************)
THEOREM TypeCorrect == Spec => []TypeOK
BY Invariance, PTL DEF Inv

(***************************************************************************)
(* Once all events are handled, and none failed, the charger has the       *)
(* status of the last one stored and each connector that of the last one   *)
(* about it (handleOcppEvent and updateStatus), for any number of          *)
(* connectors, of redelivered events and of crashes.                       *)
(***************************************************************************)
THEOREM LastReportWinsAlways == Spec => []LastReportWins
<1>1. Inv => LastReportWins
  <2> SUFFICES ASSUME Inv, Settled, "failed" \notin causes
               PROVE  /\ row # NoRow /\ due[Whole] # NoRow => row = due[Whole]
                      /\ \A k \in Connectors : plugs[k] # NoRow /\ due[k] # NoRow => plugs[k] = due[k]
    BY DEF LastReportWins
  <2>1. \A x \in Sites : RowOf(x) # NoRow /\ due[x] # NoRow => RowOf(x) = due[x]
    <3>1. Len(log) \in Nat /\ pos = Len(log) /\ handler = "poll"
      BY ConsumerTypes DEF Inv, Basics, Settled
    <3>2. \A x \in Sites : Waiting(x) = {}
      BY <3>1 DEF Waiting
    <3> QED BY <3>2 DEF Inv, RowsFollow
  <2> QED BY <2>1, Sites1 DEF RowOf, Sites
<1> QED BY <1>1, Invariance, PTL

(***************************************************************************)
(* A connected charger with nothing to do is shown as available once its   *)
(* events are stored in order and handled, and no end of an old connection *)
(* was noticed under it (boot and the two timers of the simulator, the     *)
(* producer of the gateway, updateStatus).                                 *)
(***************************************************************************)
THEOREM IdleIsShownAvailable == Spec => []IdleIsAvailable
<1>1. Inv /\ LastReportWins => IdleIsAvailable
  <2> SUFFICES ASSUME Inv, LastReportWins, Idle, Undisturbed
               PROVE  /\ row # NoRow /\ due[Whole] # NoRow => row = "Available"
                      /\ plugs[1] # NoRow /\ due[1] # NoRow => plugs[1] = "Available"
    BY DEF IdleIsAvailable
  <2>1. Settled /\ sending = <<>> /\ causes \cap {"overtaken", "late"} = {} /\ "failed" \notin causes
    BY DEF Undisturbed, Settled
  <2>2. due[Whole] \in {"Available", NoRow} /\ due[1] \in {"Available", NoRow}
    BY <2>1 DEF Inv, SaidAvailable, Idle
  <2> QED BY <2>1, <2>2, Sites1 DEF LastReportWins
<1> QED BY <1>1, Invariance, LastReportWinsAlways, PTL

=============================================================================
