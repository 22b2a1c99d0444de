--------------------------- MODULE SessionsProofs ---------------------------
(***************************************************************************)
(* Proofs about Sessions, for every set of keys, chargers, users and       *)
(* calls, every tariff, hold, balance and number of faults.                *)
(***************************************************************************)
EXTENDS SessionsMoney, FiniteSetTheorems, SequenceTheorems, WellFoundedInduction, TLAPS

(* The type invariant with what makes it inductive: a request or a handler *)
(* that is under way works on a key, and its event is in the partition.    *)
CallsHaveKeys == \A p \in Calls : call[p].pc # "idle" => call[p].key \in Keys

HandlersHaveEvents ==
  \A c \in Chargers : handler[c].pc # "poll" =>
    handler[c].key \in Keys /\ pos[c] < Len(log[c])

TypeInv == TypeOK /\ CallsHaveKeys /\ HandlersHaveEvents

-----------------------------------------------------------------------------
(* What the operators of the model return.                                 *)

LEMMA TransitionType ==
  ASSUME tx \in [Keys -> TxRow], NEW k \in Keys, NEW from, NEW to \in Stage
  PROVE  /\ Transition(k, from, to) \in [Keys -> TxRow]
         /\ \A j \in Keys : j # k => Transition(k, from, to)[j] = tx[j]
         /\ Transition(k, from, to)[k].ocpp = tx[k].ocpp
         /\ Transition(k, from, to)[k].meterStart = tx[k].meterStart
         /\ Transition(k, from, to)[k].state = IF tx[k].state \in from THEN to ELSE tx[k].state
<1>1. tx[k] \in TxRow
  OBVIOUS
<1>2. /\ [tx[k] EXCEPT !.state = to] \in TxRow
      /\ [tx[k] EXCEPT !.state = to].state = to
      /\ [tx[k] EXCEPT !.state = to].ocpp = tx[k].ocpp
      /\ [tx[k] EXCEPT !.state = to].meterStart = tx[k].meterStart
  BY <1>1 DEF TxRow
<1>3. CASE tx[k].state \in from
  BY <1>2, <1>3 DEF Transition
<1>4. CASE tx[k].state \notin from
  BY <1>4 DEF Transition
<1> QED BY <1>3, <1>4

LEMMA StartsType ==
  ASSUME TypeOK, NEW c \in Chargers, NEW k \in Keys \cup {NoKey}, NEW n \in 1..MaxSends,
         lastId + n <= MaxStarts
  PROVE  Starts(c, k, n) \in Seq(Event)
<1>1. n \in Nat
  BY SessionsAssumption
<1>2. Starts(c, k, n) \in [1..n -> Event]
  BY <1>1, SessionsAssumption DEF TypeOK, Starts, Event, Ids
<1> QED BY <1>1, <1>2, SeqDef

LEMMA StoppedType ==
  ASSUME TypeOK, NEW c \in Chargers, NEW n \in 1..MaxSends, charging[c] # NoId
  PROVE  Stopped(c, n) \in Seq(Event)
<1>1. n \in Nat
  BY SessionsAssumption
<1>2. Stopped(c, n) \in [1..n -> Event]
  BY <1>1 DEF TypeOK, Stopped, Event
<1> QED BY <1>1, <1>2, SeqDef

(* A partition only grows: what was in it stays where it is.               *)
LEMMA LogGrows ==
  ASSUME TypeOK, NEW c \in Chargers, NEW s \in Seq(Event),
         log' = [log EXCEPT ![c] = @ \o s]
  PROVE  /\ log' \in [Chargers -> Seq(Event)]
         /\ \A d \in Chargers : Len(log[d]) <= Len(log'[d])
         /\ \A d \in Chargers : \A i \in 1..Len(log[d]) : log'[d][i] = log[d][i]
<1>1. log[c] \in Seq(Event) /\ log \in [Chargers -> Seq(Event)]
  BY DEF TypeOK
<1>2. /\ log[c] \o s \in Seq(Event)
      /\ Len(log[c] \o s) = Len(log[c]) + Len(s)
      /\ \A i \in 1..Len(log[c]) + Len(s) :
           (log[c] \o s)[i] = IF i <= Len(log[c]) THEN log[c][i] ELSE s[i - Len(log[c])]
  BY <1>1, ConcatProperties
<1>3. Len(log[c]) \in Nat /\ Len(s) \in Nat
  BY <1>1, LenProperties
<1>4. \A d \in Chargers : Len(log[d]) \in Nat
  BY <1>1, LenProperties
<1> QED BY <1>1, <1>2, <1>3, <1>4
LEMMA DifferenceType ==
  ASSUME NEW x \in Readings, NEW y \in Readings
  PROVE  Difference(x, y) \in Readings
<1>1. MaxReading \in Nat
  BY SessionsAssumption
<1> QED BY <1>1 DEF Difference, Readings

LEMMA PendingType ==
  ASSUME TypeOK
  PROVE  PendingRow \in TxRow
<1>1. Cardinality({j \in Keys : tx[j].state # "NONE"}) \in Nat
  BY SessionsAssumption, FS_CardinalityType, FS_Subset
<1>2. 1 + Cardinality({j \in Keys : tx[j].state # "NONE"}) \in Nat
  BY <1>1
<1> QED BY <1>2, SessionsAssumption DEF PendingRow, TxRow, Stage, Readings

(* One wallet operation of a session keeps the wallet tables typed.        *)
LEMMA HoldType ==
  ASSUME TypeOK, NEW k \in Keys, W!Hold(UserOf[k], HoldAmount, HoldRef(k))
  PROVE  W!TypeOK'
<1>1. HoldAmount \in Nat /\ UserOf[k] \in Users
  BY SessionsAssumption
<1>2. W!Entry(UserOf[k], -HoldAmount, "hold", HoldRef(k)) \in W!Row
  BY <1>1 DEF W!Entry, W!Row, HoldRef
<1> QED BY <1>1, <1>2 DEF TypeOK, W!TypeOK, W!Hold, W!SkipDuplicates

LEMMA CaptureType ==
  ASSUME TypeOK, NEW k \in Keys, NEW total \in Nat,
         W!CaptureHold(UserOf[k], HoldAmount, total, HoldRef(k), PayRef(k))
  PROVE  W!TypeOK'
<1>1. HoldAmount \in Nat /\ UserOf[k] \in Users
  BY SessionsAssumption
<1>2. /\ W!Entry(UserOf[k], HoldAmount, "release", HoldRef(k)) \in W!Row
      /\ W!Entry(UserOf[k], -total, "capture", PayRef(k)) \in W!Row
  BY <1>1 DEF W!Entry, W!Row, HoldRef, PayRef
<1> QED BY <1>1, <1>2 DEF TypeOK, W!TypeOK, W!CaptureHold, W!SubtractFloor, W!SkipDuplicates

-----------------------------------------------------------------------------
LEMMA TypeInit == Init => TypeInv
<1> SUFFICES ASSUME Init PROVE TypeInv
  OBVIOUS
<1>1. W!TypeOK
  BY SessionsAssumption DEF Init, W!Init, W!TypeOK
<1>2. NoRow \in TxRow /\ Idle \in CallState /\ Poll \in HandlerState
  BY SessionsAssumption DEF NoRow, TxRow, Stage, Readings, Idle, CallState, Poll, HandlerState
<1>3. <<>> \in Seq(Nat) /\ <<>> \in Seq(Event) /\ Len(<<>>) = 0
  OBVIOUS
<1>4. TypeOK
  BY <1>1, <1>2, <1>3, SessionsAssumption DEF Init, TypeOK, Readings
<1>5. CallsHaveKeys /\ HandlersHaveEvents
  BY DEF Init, CallsHaveKeys, HandlersHaveEvents, Idle, Poll
<1> QED BY <1>4, <1>5 DEF TypeInv

(* The steps of a request.                                                 *)
LEMMA TypeCall ==
  ASSUME TypeInv, NEW p \in Calls, StartCall(p)
  PROVE  TypeInv'
<1>0. /\ call \in [Calls -> CallState] /\ tx \in [Keys -> TxRow]
      /\ call[p] \in CallState
      /\ UNCHANGED <<invoices, charging, register, lastId, log, remoteStop, consumer, faults>>
  BY DEF StartCall, StartSession, HoldFunds, CreateRow, PublishStart, AuthorizeRow, AbortCall,
         TypeInv, TypeOK, device
<1>1. CASE \E k \in Keys : StartSession(p, k)
  <2> PICK k \in Keys : StartSession(p, k)
    BY <1>1
  <2>1. [pc |-> "hold", key |-> k] \in CallState
    BY DEF CallState
  <2> QED BY <2>1 DEF StartSession, TypeInv, TypeOK, W!TypeOK, CallsHaveKeys, HandlersHaveEvents,
             wallet, device, consumer, faults
<1>2. ASSUME ~At(p, "idle") PROVE call[p].key \in Keys
  BY <1>2 DEF At, TypeInv, CallsHaveKeys
<1>3. ASSUME NEW pc \in {"create", "publish", "authorize"}, GoTo(p, pc)
      PROVE  call' \in [Calls -> CallState]
  <2>1. [call[p] EXCEPT !.pc = pc] \in CallState
    BY <1>0 DEF CallState
  <2> QED BY <1>0, <1>3, <2>1 DEF GoTo
<1>4. ASSUME Return(p) PROVE call' \in [Calls -> CallState] /\ CallsHaveKeys'
  BY <1>0, <1>4 DEF Return, Idle, CallState, TypeInv, CallsHaveKeys
<1>5. ASSUME NEW pc, GoTo(p, pc), ~At(p, "idle")
      PROVE  CallsHaveKeys'
  BY <1>0, <1>2, <1>5 DEF GoTo, TypeInv, CallsHaveKeys, CallState
<1>6. CASE HoldFunds(p)
  <2>1. W!TypeOK'
    BY <1>2, <1>6, HoldType DEF HoldFunds, At, TypeInv
  <2>2. call' \in [Calls -> CallState] /\ CallsHaveKeys'
    BY <1>3, <1>5, <1>6 DEF HoldFunds, At
  <2> QED BY <1>0, <1>6, <2>1, <2>2
          DEF HoldFunds, TypeInv, TypeOK, HandlersHaveEvents, device, consumer, faults
<1>7. CASE CreateRow(p)
  <2>1. tx' \in [Keys -> TxRow]
    <3>1. PendingRow \in TxRow
      BY PendingType DEF TypeInv
    <3> QED BY <1>0, <1>7, <3>1 DEF CreateRow
  <2>2. call' \in [Calls -> CallState] /\ CallsHaveKeys'
    BY <1>3, <1>5, <1>7 DEF CreateRow, At
  <2> QED BY <1>0, <1>7, <2>1, <2>2
          DEF CreateRow, TypeInv, TypeOK, W!TypeOK, HandlersHaveEvents, wallet, device, consumer, faults
<1>8. CASE PublishStart(p)
  <2>1. call' \in [Calls -> CallState] /\ CallsHaveKeys'
    BY <1>3, <1>5, <1>8 DEF PublishStart, At
  <2>2. remoteStart' \subseteq Keys
    BY <1>2, <1>8 DEF PublishStart, At, TypeInv, TypeOK
  <2> QED BY <1>0, <1>8, <2>1, <2>2
          DEF PublishStart, TypeInv, TypeOK, W!TypeOK, HandlersHaveEvents, wallet, consumer, faults
<1>9. CASE AuthorizeRow(p)
  <2>1. tx' \in [Keys -> TxRow]
    BY <1>0, <1>2, <1>9, TransitionType DEF AuthorizeRow, At, Stage
  <2> QED BY <1>0, <1>4, <1>9, <2>1
          DEF AuthorizeRow, TypeInv, TypeOK, W!TypeOK, HandlersHaveEvents, wallet, device, consumer, faults
<1>10. CASE AbortCall(p)
  BY <1>0, <1>4, <1>10
  DEF AbortCall, TypeInv, TypeOK, W!TypeOK, HandlersHaveEvents, wallet, device, consumer, faults
<1> QED BY <1>1, <1>6, <1>7, <1>8, <1>9, <1>10 DEF StartCall

(* The steps of a charger: they write nothing of the platform's but the    *)
(* end of a partition.                                                     *)
LEMMA DeviceWrites ==
  ASSUME TypeOK, NEW c \in Chargers, Device(c)
  PROVE  /\ UNCHANGED <<wallet, tx, invoices, call, consumer, faults, remoteStop>>
         /\ remoteStart' \subseteq remoteStart
         /\ charging' \in [Chargers -> Ids \cup {NoId}]
         /\ register' \in [Chargers -> Readings]
         /\ lastId' \in 0..MaxStarts
         /\ \/ UNCHANGED log
            \/ \E s \in Seq(Event) : log' = [log EXCEPT ![c] = @ \o s]
<1>0. /\ charging \in [Chargers -> Ids \cup {NoId}]
      /\ register \in [Chargers -> Readings]
      /\ lastId \in 0..MaxStarts
      /\ MaxStarts \in Nat /\ MaxSends \in Nat /\ MaxReading \in Nat
  BY SessionsAssumption DEF TypeOK
<1>1. ASSUME NEW k \in Keys \cup {NoKey}, NEW n \in 1..MaxSends, SendStart(c, k, n)
      PROVE  /\ UNCHANGED <<wallet, tx, invoices, call, consumer, faults, remoteStop>>
             /\ charging' \in [Chargers -> Ids \cup {NoId}]
             /\ register' \in [Chargers -> Readings]
             /\ lastId' \in 0..MaxStarts
             /\ \E s \in Seq(Event) : log' = [log EXCEPT ![c] = @ \o s]
  <2>1. Starts(c, k, n) \in Seq(Event)
    BY <1>1, StartsType DEF SendStart
  <2>2. lastId + n \in Ids /\ lastId + n \in 0..MaxStarts
    BY <1>0, <1>1 DEF SendStart, Ids
  <2> QED BY <1>0, <1>1, <2>1, <2>2 DEF SendStart
<1>2. CASE \E k \in Keys : RefuseStart(c, k)
  BY <1>0, <1>2 DEF RefuseStart
<1>3. CASE \E n \in 1..MaxSends, k \in Keys : RemoteStart(c, k, n)
  BY <1>1, <1>3 DEF RemoteStart
<1>4. CASE \E n \in 1..MaxSends : LocalStart(c, n)
  BY <1>1, <1>4 DEF LocalStart
<1>5. CASE \E n \in 1..MaxSends : SendStop(c, n)
  <2> PICK n \in 1..MaxSends : SendStop(c, n)
    BY <1>5
  <2>1. Stopped(c, n) \in Seq(Event)
    BY StoppedType DEF SendStop
  <2> QED BY <1>0, <2>1 DEF SendStop
<1>6. CASE DrawEnergy(c)
  BY <1>0, <1>6 DEF DrawEnergy, Readings
<1> QED BY <1>2, <1>3, <1>4, <1>5, <1>6 DEF Device

LEMMA TypeDevice ==
  ASSUME TypeInv, NEW c \in Chargers, Device(c)
  PROVE  TypeInv'
<1>0. TypeOK
  BY DEF TypeInv
<1>1. /\ log' \in [Chargers -> Seq(Event)]
      /\ \A d \in Chargers : Len(log[d]) <= Len(log'[d])
      /\ \A d \in Chargers : Len(log[d]) \in Nat /\ Len(log'[d]) \in Nat
  <2>1. CASE UNCHANGED log
    BY <1>0, <2>1, LenProperties DEF TypeOK
  <2>2. CASE \E s \in Seq(Event) : log' = [log EXCEPT ![c] = @ \o s]
    BY <1>0, <2>2, LogGrows, LenProperties DEF TypeOK
  <2> QED BY <1>0, <2>1, <2>2, DeviceWrites
<1>2. TypeOK'
  <2>1. \A d \in Chargers : committed'[d] <= pos'[d] /\ pos'[d] <= Len(log'[d])
    BY <1>0, <1>1, DeviceWrites DEF TypeOK, consumer
  <2> QED BY <1>0, <1>1, <2>1, DeviceWrites DEF TypeOK, W!TypeOK, wallet, consumer, faults
<1>3. CallsHaveKeys'
  BY <1>0, DeviceWrites DEF TypeInv, CallsHaveKeys
<1>4. HandlersHaveEvents'
  BY <1>0, <1>1, DeviceWrites DEF TypeInv, TypeOK, HandlersHaveEvents, consumer
<1> QED BY <1>2, <1>3, <1>4 DEF TypeInv

-----------------------------------------------------------------------------
(* The steps of a handler.                                                 *)
LEMMA EnterType ==
  ASSUME TypeInv, NEW c \in Chargers, NEW k \in Keys, NEW total \in Nat,
         NEW pc \in {"bind", "transition", "settle", "capture"},
         Enter(c, pc, k, total), pos[c] < Len(log[c]), UNCHANGED log
  PROVE  /\ handler' \in [Chargers -> HandlerState]
         /\ pos' = pos /\ committed' = committed
         /\ HandlersHaveEvents'
         /\ handler'[c] = [pc |-> pc, key |-> k, total |-> total]
         /\ \A d \in Chargers : d # c => handler'[d] = handler[d]
<1>1. [pc |-> pc, key |-> k, total |-> total] \in HandlerState
  BY DEF HandlerState
<1>2. handler \in [Chargers -> HandlerState]
  BY DEF TypeInv, TypeOK
<1> QED BY <1>1, <1>2 DEF Enter, TypeInv, HandlersHaveEvents

LEMMA DoneType ==
  ASSUME TypeInv, NEW c \in Chargers, Done(c), pos[c] < Len(log[c]), UNCHANGED log
  PROVE  /\ handler' \in [Chargers -> HandlerState]
         /\ pos' \in [Chargers -> Nat] /\ committed' = committed
         /\ \A d \in Chargers : committed'[d] <= pos'[d] /\ pos'[d] <= Len(log'[d])
         /\ HandlersHaveEvents'
         /\ handler'[c].pc = "poll"
         /\ \A d \in Chargers : d # c => handler'[d] = handler[d]
<1>1. Poll \in HandlerState /\ Poll.pc = "poll"
  BY DEF Poll, HandlerState
<1>2. /\ handler \in [Chargers -> HandlerState]
      /\ pos \in [Chargers -> Nat] /\ committed \in [Chargers -> Nat]
      /\ \A d \in Chargers : committed[d] <= pos[d] /\ pos[d] <= Len(log[d])
      /\ \A d \in Chargers : Len(log[d]) \in Nat
  BY LenProperties DEF TypeInv, TypeOK
<1>3. \A d \in Chargers : pos'[d] = IF d = c THEN pos[c] + 1 ELSE pos[d]
  BY <1>2 DEF Done
<1>4. HandlersHaveEvents'
  BY <1>1, <1>2, <1>3 DEF Done, TypeInv, HandlersHaveEvents
<1> QED BY <1>1, <1>2, <1>3, <1>4 DEF Done

LEMMA CurrentEvent ==
  ASSUME TypeInv, NEW c \in Chargers, pos[c] < Len(log[c])
  PROVE  log[c][pos[c] + 1] \in Event
<1>1. log[c] \in Seq(Event) /\ Len(log[c]) \in Nat /\ pos[c] \in Nat
  BY LenProperties DEF TypeInv, TypeOK
<1>2. pos[c] + 1 \in 1..Len(log[c])
  BY <1>1
<1> QED BY <1>1, <1>2, ElementOfSeq

LEMMA TypeHandle ==
  ASSUME TypeInv, NEW c \in Chargers, Handle(c)
  PROVE  TypeInv'
<1>0. /\ TypeOK /\ tx \in [Keys -> TxRow] /\ handler \in [Chargers -> HandlerState]
      /\ handler[c] \in HandlerState
  BY DEF TypeInv, TypeOK
<1>1. ASSUME handler[c].pc # "poll" PROVE handler[c].key \in Keys /\ pos[c] < Len(log[c])
  BY <1>1 DEF TypeInv, HandlersHaveEvents
<1>2. SUFFICES ASSUME UNCHANGED <<call, device, faults>>
               PROVE  TypeInv'
  BY DEF Handle, FindStarted, BindStarted, FindStopped, CompleteRow, Settle, CaptureFunds
<1>3. ASSUME tx' \in [Keys -> TxRow], invoices' \in [Keys -> Seq(Nat)], W!TypeOK',
             handler' \in [Chargers -> HandlerState], HandlersHaveEvents',
             pos' \in [Chargers -> Nat], committed' = committed,
             \A d \in Chargers : committed'[d] <= pos'[d] /\ pos'[d] <= Len(log'[d])
      PROVE  TypeInv'
  BY <1>2, <1>3 DEF TypeInv, TypeOK, CallsHaveKeys, device, faults
<1>4. ASSUME UNCHANGED wallet PROVE W!TypeOK'
  BY <1>0, <1>4 DEF TypeOK, W!TypeOK, wallet
<1>5. UNCHANGED log
  BY <1>2 DEF device
<1>6. ASSUME pos' = pos, committed' = committed
      PROVE  \A d \in Chargers : committed'[d] <= pos'[d] /\ pos'[d] <= Len(log'[d])
  BY <1>0, <1>5, <1>6 DEF TypeOK
<1>7. CASE FindStarted(c)
  <2>1. pos[c] < Len(log[c])
    BY <1>7 DEF FindStarted, Pending
  <2>2. CASE Done(c)
    BY <1>0, <1>3, <1>4, <1>5, <1>7, <2>1, <2>2, DoneType DEF FindStarted, TypeOK
  <2>3. CASE \E k \in Newest(Bindable(c)) : Enter(c, "bind", k, 0)
    <3> PICK k \in Keys : Enter(c, "bind", k, 0)
      BY <2>3 DEF Newest, Bindable, InState
    <3>1. /\ handler' \in [Chargers -> HandlerState] /\ HandlersHaveEvents'
          /\ pos' = pos /\ committed' = committed
      BY <1>5, <2>1, EnterType
    <3> QED BY <1>0, <1>3, <1>4, <1>6, <1>7, <3>1 DEF FindStarted, TypeOK
  <2> QED BY <1>7, <2>2, <2>3 DEF FindStarted
<1>8. CASE BindStarted(c)
  <2>1. handler[c].key \in Keys /\ pos[c] < Len(log[c])
    BY <1>1, <1>8 DEF BindStarted, Running
  <2>2. log[c][pos[c] + 1] \in Event
    BY <2>1, CurrentEvent
  <2> DEFINE e == log[c][pos[c] + 1]
             row == [tx[handler[c].key] EXCEPT !.ocpp = e.id, !.meterStart = e.meter,
                                               !.state = "CHARGING"]
  <2>3. tx' \in [Keys -> TxRow]
    <3>1. e.id \in Ids /\ e.meter \in Readings /\ tx[handler[c].key] \in TxRow
      BY <1>0, <2>1, <2>2 DEF Event
    <3>2. row \in TxRow
      BY <3>1 DEF TxRow, Stage
    <3>3. tx' = [tx EXCEPT ![handler[c].key] = row]
      BY <1>8 DEF BindStarted
    <3> QED BY <1>0, <3>2, <3>3
  <2> QED BY <1>0, <1>3, <1>4, <1>5, <1>8, <2>1, <2>3, DoneType DEF BindStarted, TypeOK
<1>9. CASE FindStopped(c)
  <2> DEFINE e == log[c][pos[c] + 1]
  <2>1. pos[c] < Len(log[c])
    BY <1>9 DEF FindStopped, Pending
  <2>2. e \in Event
    BY <2>1, CurrentEvent
  <2>3. CASE Done(c) /\ UNCHANGED tx
    BY <1>0, <1>3, <1>4, <1>5, <1>9, <2>1, <2>3, DoneType DEF FindStopped, TypeOK
  <2>4. CASE \E k \in Keys :
               /\ tx' = [tx EXCEPT ![k].energy = Difference(e.meter, tx[k].meterStart)]
               /\ Enter(c, "transition", k, 0)
    <3> PICK k \in Keys :
               /\ tx' = [tx EXCEPT ![k].energy = Difference(e.meter, tx[k].meterStart)]
               /\ Enter(c, "transition", k, 0)
      BY <2>4
    <3>1. Difference(e.meter, tx[k].meterStart) \in Readings
      <4>1. e.meter \in Readings /\ tx[k].meterStart \in Readings
        BY <1>0, <2>2 DEF TxRow, Event
      <4> QED BY <4>1, DifferenceType
    <3> HIDE DEF e
    <3>2. tx' \in [Keys -> TxRow]
      BY <1>0, <3>1 DEF TxRow
    <3>3. /\ handler' \in [Chargers -> HandlerState] /\ HandlersHaveEvents'
          /\ pos' = pos /\ committed' = committed
      BY <1>5, <2>1, EnterType
    <3> QED BY <1>0, <1>3, <1>4, <1>6, <1>9, <3>2, <3>3 DEF FindStopped, TypeOK
  <2> QED BY <1>9, <2>3, <2>4 DEF FindStopped, BoundTo
<1>10. CASE CompleteRow(c)
  <2>1. handler[c].key \in Keys /\ pos[c] < Len(log[c])
    BY <1>1, <1>10 DEF CompleteRow, Running
  <2>2. tx' \in [Keys -> TxRow]
    BY <1>0, <1>10, <2>1, TransitionType DEF CompleteRow, Stage
  <2>3. /\ handler' \in [Chargers -> HandlerState] /\ HandlersHaveEvents'
        /\ pos' = pos /\ committed' = committed
    BY <1>5, <1>10, <2>1, EnterType DEF CompleteRow
  <2> QED BY <1>0, <1>3, <1>4, <1>6, <1>10, <2>2, <2>3 DEF CompleteRow, TypeOK
<1>11. CASE Settle(c)
  <2> DEFINE k == handler[c].key
  <2>1. k \in Keys /\ pos[c] < Len(log[c])
    BY <1>1, <1>11 DEF Settle, Running
  <2>2. tx' \in [Keys -> TxRow]
    BY <1>0, <1>11, <2>1 DEF Settle, TxRow, Stage
  <2>3. PICK total \in Charges[tx[k].energy] :
          /\ invoices' = [invoices EXCEPT ![k] = Append(@, total)]
          /\ Enter(c, "capture", k, total)
    BY <1>11 DEF Settle
  <2>4. total \in Nat
    BY <1>0, <2>1, SessionsAssumption DEF TxRow
  <2>5. invoices' \in [Keys -> Seq(Nat)]
    BY <1>0, <2>1, <2>3, <2>4 DEF TypeOK
  <2>6. /\ handler' \in [Chargers -> HandlerState] /\ HandlersHaveEvents'
        /\ pos' = pos /\ committed' = committed
    BY <1>5, <2>1, <2>3, <2>4, EnterType
  <2> QED BY <1>0, <1>3, <1>4, <1>6, <1>11, <2>2, <2>5, <2>6 DEF Settle, TypeOK
<1>12. CASE CaptureFunds(c)
  <2>1. handler[c].key \in Keys /\ pos[c] < Len(log[c])
    BY <1>1, <1>12 DEF CaptureFunds, Running
  <2>2. W!TypeOK'
    BY <1>0, <1>12, <2>1, CaptureType DEF CaptureFunds, Actual, HandlerState
  <2> QED BY <1>0, <1>3, <1>5, <1>12, <2>1, <2>2, DoneType DEF CaptureFunds, TypeOK
<1> QED BY <1>7, <1>8, <1>9, <1>10, <1>11, <1>12 DEF Handle

-----------------------------------------------------------------------------
(* The type invariant is inductive.                                        *)
LEMMA TypeStep == TypeInv /\ [Next]_vars => TypeInv'
<1> SUFFICES ASSUME TypeInv, [Next]_vars PROVE TypeInv'
  OBVIOUS
<1>0. TypeOK /\ tx \in [Keys -> TxRow]
  BY DEF TypeInv, TypeOK
<1>1. CASE \E p \in Calls : StartCall(p)
  BY <1>1, TypeCall
<1>2. CASE \E c \in Chargers : Device(c)
  BY <1>2, TypeDevice
<1>3. CASE \E c \in Chargers : Handle(c)
  BY <1>3, TypeHandle
<1>4. ASSUME NEW k \in Keys, StopSession(k) PROVE TypeInv'
  <2>1. tx' \in [Keys -> TxRow]
    BY <1>0, <1>4, TransitionType DEF StopSession, Stage
  <2>2. remoteStop' \subseteq Ids
    <3>1. tx[k].ocpp \in Ids
      BY <1>0, <1>4 DEF StopSession, TxRow
    <3> QED BY <1>0, <1>4, <3>1 DEF StopSession, TypeOK
  <2> QED BY <1>4, <2>1, <2>2
          DEF StopSession, TypeInv, TypeOK, W!TypeOK, CallsHaveKeys, HandlersHaveEvents,
              wallet, consumer, faults
<1>5. ASSUME NEW c \in Chargers, FailEvent(c) PROVE TypeInv'
  <2>1. pos[c] < Len(log[c])
    BY <1>5 DEF FailEvent, Running, TypeInv, HandlersHaveEvents
  <2>2. errors' \in 0..MaxErrors
    BY <1>0, <1>5, SessionsAssumption DEF FailEvent, TypeOK
  <2>3. Done(c) /\ UNCHANGED log
    BY <1>5 DEF FailEvent, device
  <2> QED BY <1>5, <2>1, <2>2, <2>3, DoneType
          DEF FailEvent, TypeInv, TypeOK, W!TypeOK, CallsHaveKeys, wallet, device
<1>6. ASSUME NEW c \in Chargers, CommitOffset(c) PROVE TypeInv'
  BY <1>6 DEF CommitOffset, TypeInv, TypeOK, W!TypeOK, CallsHaveKeys, HandlersHaveEvents,
              wallet, device, faults
<1>7. ASSUME NEW c \in Chargers, CrashConsumer(c) PROVE TypeInv'
  <2>1. crashes' \in 0..MaxCrashes
    BY <1>0, <1>7, SessionsAssumption DEF CrashConsumer, TypeOK
  <2>2. Poll \in HandlerState /\ Poll.pc = "poll"
    BY DEF Poll, HandlerState
  <2>3. \A d \in Chargers : committed[d] <= Len(log[d])
    BY <1>0, LenProperties DEF TypeOK
  <2> QED BY <1>7, <2>1, <2>2, <2>3
          DEF CrashConsumer, RestartAt, TypeInv, TypeOK, W!TypeOK, CallsHaveKeys,
              HandlersHaveEvents, wallet, device
<1>8. ASSUME NEW c \in Chargers, NEW k \in Keys, NEW r \in Readings, ApplyMeter(c, k, r)
      PROVE  TypeInv'
  <2>1. tx' \in [Keys -> TxRow]
    BY <1>0, <1>8 DEF ApplyMeter, TxRow
  <2> QED BY <1>8, <2>1
          DEF ApplyMeter, TypeInv, TypeOK, W!TypeOK, CallsHaveKeys, HandlersHaveEvents,
              wallet, device, consumer, faults
<1>9. CASE UNCHANGED vars
  BY <1>9 DEF vars, TypeInv, TypeOK, W!TypeOK, CallsHaveKeys, HandlersHaveEvents,
              wallet, device, consumer, faults
<1> QED BY <1>1, <1>2, <1>3, <1>4, <1>5, <1>6, <1>7, <1>8, <1>9 DEF Next

(* Every reachable state is typed: readings, totals and offsets stay in    *)
(* range, and no handler runs past the end of its partition.               *)
THEOREM TypeCorrect == Spec => []TypeOK
<1>1. TypeInv => TypeOK
  BY DEF TypeInv
<1> QED BY <1>1, TypeInit, TypeStep, PTL DEF Spec

-----------------------------------------------------------------------------
(* The inductive invariant.  A session's id, state and invoices hold       *)
(* together only because of what the requests and handlers in progress     *)
(* know of it (PausedStepsFit), since bindStartFromOcpp and                *)
(* settleAndInvoice write without looking at the state again.              *)
IInv ==
  /\ TypeInv
  /\ OcppIdMarksStarted
  /\ InvoiceBacked
  /\ PausedStepsFit
  /\ BoundToOwnCharger
  /\ OverdraftNeedsLargeBill

LEMMA InvInit == Init => IInv
<1> SUFFICES ASSUME Init PROVE IInv
  OBVIOUS
<1>1. OcppIdMarksStarted /\ InvoiceBacked /\ BoundToOwnCharger
  BY DEF Init, OcppIdMarksStarted, InvoiceBacked, BoundToOwnCharger, NoRow, Started
<1>2. PausedStepsFit
  BY DEF Init, PausedStepsFit, CallFits, HandlerFits, Running, Idle, Poll
<1>3. OverdraftNeedsLargeBill
  BY SessionsAssumption DEF Init, W!Init, OverdraftNeedsLargeBill
<1> QED BY <1>1, <1>2, <1>3, TypeInit DEF IInv

(* The ledger only grows, so a hold that is in it stays in it.             *)
LEMMA HeldStays ==
  ASSUME ledger \subseteq ledger', NEW k, Held(k)
  PROVE  Held(k)'
BY DEF Held, HoldRef

(* A step that leaves rows, invoices, partitions and handlers alone and    *)
(* does not spend what is held keeps the invariant, but for the requests.  *)
LEMMA RowsUntouched ==
  ASSUME IInv, TypeInv', ledger \subseteq ledger', UNCHANGED <<tx, invoices, log, pos, handler>>,
         \A u \in WalletOwners : balance'[u] = balance[u] /\
                                 (hold'[u] = hold[u] \/ hold'[u] <= balance'[u]),
         \A p \in Calls : CallFits(p)'
  PROVE  IInv'
<1>1. \A k \in Keys : Held(k) => Held(k)'
  BY HeldStays
<1>2. OcppIdMarksStarted' /\ BoundToOwnCharger'
  BY DEF IInv, OcppIdMarksStarted, BoundToOwnCharger
<1>3. InvoiceBacked'
  BY <1>1 DEF IInv, InvoiceBacked
<1>4. PausedStepsFit'
  <2>1. ASSUME NEW c \in Chargers PROVE HandlerFits(c)'
    <3>1. HandlerFits(c)
      BY DEF IInv, PausedStepsFit
    <3> QED BY <3>1 DEF HandlerFits, Running
  <2> QED BY <2>1 DEF PausedStepsFit
<1>5. OverdraftNeedsLargeBill'
  <2>1. \A u \in WalletOwners : balance'[u] \in Nat /\ hold'[u] \in Nat
    BY DEF TypeInv, TypeOK, W!TypeOK
  <2> QED BY <2>1 DEF IInv, OverdraftNeedsLargeBill
<1> QED BY <1>2, <1>3, <1>4, <1>5 DEF IInv

LEMMA InvHoldFunds ==
  ASSUME IInv, TypeInv', NEW p \in Calls, HoldFunds(p)
  PROVE  IInv'
<1>0. call[p].key \in Keys /\ call \in [Calls -> CallState] /\ HoldAmount \in Nat
  BY SessionsAssumption DEF IInv, TypeInv, TypeOK, CallsHaveKeys, HoldFunds, At
<1> PICK k \in Keys : k = call[p].key
  BY <1>0
<1>1. k = call[p].key /\ call \in [Calls -> CallState] /\ HoldAmount \in Nat
  BY <1>0
<1>2. ledger \subseteq ledger'
  BY DEF HoldFunds, W!Hold, W!SkipDuplicates
<1>3. Held(k)'
  <2> DEFINE r == W!Entry(UserOf[k], -HoldAmount, "hold", HoldRef(k))
  <2>1. r.ref = HoldRef(k) /\ r.reason = "hold"
    BY DEF W!Entry
  <2>2. ledger' = ledger \cup {x \in {r} : \A e \in ledger : e.ref # x.ref \/ e.reason # x.reason}
    BY DEF HoldFunds, W!Hold, W!SkipDuplicates
  <2> HIDE DEF r
  <2>3. CASE r \in ledger'
    BY <2>1, <2>3 DEF Held, HoldRef
  <2>4. CASE \E e \in ledger : e.ref = r.ref /\ e.reason = r.reason
    BY <2>1, <2>2, <2>4 DEF Held, HoldRef
  <2> QED BY <2>2, <2>3, <2>4
<1>4. \A u \in WalletOwners : balance'[u] = balance[u] /\
                              (hold'[u] = hold[u] \/ hold'[u] <= balance'[u])
  BY <1>1 DEF HoldFunds, W!Hold, W!Available, IInv, TypeInv, TypeOK, W!TypeOK
<1>5. ASSUME NEW q \in Calls PROVE CallFits(q)'
  <2>1. CASE q = p
    <3>1. call'[p].key = k
      <4>1. call' = [call EXCEPT ![p].pc = "create"]
        BY DEF HoldFunds, GoTo
      <4> QED BY <1>1, <4>1 DEF CallState
    <3> QED BY <1>3, <2>1, <3>1 DEF CallFits, Held, HoldRef
  <2>2. CASE q # p
    <3>1. call'[q] = call[q]
      BY <1>1, <2>2 DEF HoldFunds, GoTo
    <3>2. CallFits(q)
      BY DEF IInv, PausedStepsFit
    <3> QED BY <1>2, <3>1, <3>2, HeldStays DEF CallFits
  <2> QED BY <2>1, <2>2
<1> QED BY <1>2, <1>4, <1>5, RowsUntouched DEF HoldFunds, consumer, device

(* The writes to one row.                                                  *)
LEMMA RowWritten ==
  ASSUME IInv, TypeInv', UNCHANGED <<wallet, invoices, log, pos, handler>>,
         NEW k \in Keys, \A j \in Keys : j # k => tx'[j] = tx[j],
         tx'[k].ocpp = tx[k].ocpp, tx[k].ocpp # NoId => tx'[k].meterStart = tx[k].meterStart,
         tx'[k].state # "NONE" => Held(k),
         \/ tx'[k].state = tx[k].state
         \/ tx[k].state \notin Started \cup {"AUTHORIZED"} /\ tx'[k].state \notin Started
         \/ tx[k].state \in {"CHARGING", "STOPPING"} /\ tx'[k].state \in Started,
         \A p \in Calls : CallFits(p)'
  PROVE  IInv'
<1>0. \A j \in Keys : Held(j)' = Held(j)
  BY DEF Held, HoldRef, wallet
<1>1. OcppIdMarksStarted'
  BY DEF IInv, OcppIdMarksStarted, Started
<1>2. InvoiceBacked'
  BY <1>0 DEF IInv, InvoiceBacked, Started
<1>3. BoundToOwnCharger'
  BY DEF IInv, BoundToOwnCharger
<1>4. ASSUME NEW c \in Chargers PROVE HandlerFits(c)'
  <2>1. HandlerFits(c) /\ (handler[c].pc # "poll" => handler[c].key \in Keys)
    BY DEF IInv, PausedStepsFit, TypeInv, HandlersHaveEvents
  <2>2. CASE handler[c].key = k
    BY <2>1, <2>2 DEF HandlerFits, Running, Started
  <2>3. CASE handler[c].key # k
    BY <2>1, <2>3 DEF HandlerFits, Running
  <2> QED BY <2>2, <2>3
<1>5. PausedStepsFit'
  BY <1>4 DEF PausedStepsFit
<1>6. OverdraftNeedsLargeBill'
  BY DEF IInv, OverdraftNeedsLargeBill, wallet
<1> QED BY <1>1, <1>2, <1>3, <1>5, <1>6 DEF IInv

LEMMA InvCall ==
  ASSUME IInv, TypeInv', NEW p \in Calls, StartCall(p)
  PROVE  IInv'
<1>0. /\ call \in [Calls -> CallState] /\ call[p] \in CallState /\ tx \in [Keys -> TxRow]
      /\ (~At(p, "idle") => call[p].key \in Keys)
      /\ \A q \in Calls : CallFits(q)
  BY DEF IInv, TypeInv, TypeOK, CallsHaveKeys, At, PausedStepsFit
<1>1. ASSUME UNCHANGED ledger, NEW pc \in {"publish", "authorize"}, GoTo(p, pc),
             call[p].pc \in {"create", "publish"}
      PROVE  \A q \in Calls : CallFits(q)'
  <2>1. call'[p].key = call[p].key /\ \A q \in Calls : q # p => call'[q] = call[q]
    BY <1>0, <1>1 DEF GoTo, CallState
  <2> QED BY <1>0, <1>1, <2>1 DEF CallFits, Held, HoldRef
<1>2. ASSUME UNCHANGED ledger, NEW s \in CallState, s.pc \in {"idle", "hold"},
             call' = [call EXCEPT ![p] = s]
      PROVE  \A q \in Calls : CallFits(q)'
  BY <1>0, <1>2 DEF CallFits, Held, HoldRef
<1>3. Idle \in CallState /\ Idle.pc = "idle"
  BY DEF Idle, CallState
<1>4. CASE \E k \in Keys : StartSession(p, k)
  <2> PICK k \in Keys : StartSession(p, k)
    BY <1>4
  <2>1. \A q \in Calls : CallFits(q)'
    <3>1. [pc |-> "hold", key |-> k] \in CallState
      BY DEF CallState
    <3> QED BY <1>2, <3>1 DEF StartSession, wallet
  <2>2. \A u \in WalletOwners : balance'[u] = balance[u] /\ hold'[u] = hold[u]
    BY DEF StartSession, wallet
  <2> QED BY <2>1, <2>2, RowsUntouched DEF StartSession, wallet, consumer, device
<1>5. CASE HoldFunds(p)
  BY <1>5, InvHoldFunds
<1>6. CASE CreateRow(p)
  <2> PICK k \in Keys : k = call[p].key
    BY <1>0, <1>6 DEF CreateRow, At
  <2>1. \A q \in Calls : CallFits(q)'
    BY <1>1, <1>6 DEF CreateRow, At, wallet
  <2>2. /\ \A j \in Keys : j # k => tx'[j] = tx[j]
        /\ tx'[k] = PendingRow /\ tx[k].state = "NONE"
    BY <1>0, <1>6 DEF CreateRow, KeyIsFree
  <2>3. PendingRow.state = "PENDING" /\ PendingRow.ocpp = NoId
    BY DEF PendingRow
  <2>4. tx[k].ocpp = NoId
    BY <2>2 DEF IInv, OcppIdMarksStarted, Started
  <2>5. Held(k)
    BY <1>0, <1>6 DEF CreateRow, At, CallFits
  <2> QED BY <1>6, <2>1, <2>2, <2>3, <2>4, <2>5, RowWritten
          DEF CreateRow, Started, device, consumer
<1>7. CASE PublishStart(p)
  <2>1. \A q \in Calls : CallFits(q)'
    BY <1>1, <1>7 DEF PublishStart, At, wallet
  <2>2. \A u \in WalletOwners : balance'[u] = balance[u] /\ hold'[u] = hold[u]
    BY <1>7 DEF PublishStart, wallet
  <2> QED BY <1>7, <2>1, <2>2, RowsUntouched DEF PublishStart, wallet, consumer
<1>8. CASE AuthorizeRow(p)
  <2> PICK k \in Keys : k = call[p].key
    BY <1>0, <1>8 DEF AuthorizeRow, At
  <2>1. \A q \in Calls : CallFits(q)'
    BY <1>2, <1>3, <1>8 DEF AuthorizeRow, Return, wallet
  <2>2. \A j \in Keys : j # k => tx'[j] = tx[j]
    BY <1>0, <1>8, TransitionType DEF AuthorizeRow, Stage
  <2>4. /\ tx'[k].ocpp = tx[k].ocpp /\ tx'[k].meterStart = tx[k].meterStart
        /\ \/ tx'[k].state = tx[k].state
           \/ tx[k].state = "PENDING" /\ tx'[k].state = "AUTHORIZED"
    BY <1>0, <1>8, TransitionType DEF AuthorizeRow, Stage
  <2>5. Held(k)
    BY <1>0, <1>8 DEF AuthorizeRow, At, CallFits
  <2> QED BY <1>8, <2>1, <2>2, <2>4, <2>5, RowWritten
          DEF AuthorizeRow, Started, device, consumer
<1>9. CASE AbortCall(p)
  <2>1. \A q \in Calls : CallFits(q)'
    BY <1>2, <1>3, <1>9 DEF AbortCall, Return, wallet
  <2>2. \A u \in WalletOwners : balance'[u] = balance[u] /\ hold'[u] = hold[u]
    BY <1>9 DEF AbortCall, wallet
  <2> QED BY <1>9, <2>1, <2>2, RowsUntouched DEF AbortCall, wallet, consumer, device
<1> QED BY <1>4, <1>5, <1>6, <1>7, <1>8, <1>9 DEF StartCall

LEMMA InvStop ==
  ASSUME IInv, TypeInv', NEW k \in Keys, StopSession(k)
  PROVE  IInv'
<1>0. tx \in [Keys -> TxRow] /\ tx[k] \in TxRow
  BY DEF IInv, TypeInv, TypeOK
<1>1. tx[k].state \in Started
  BY DEF StopSession, IInv, OcppIdMarksStarted
<1>2. /\ \A j \in Keys : j # k => tx'[j] = tx[j]
      /\ tx'[k].ocpp = tx[k].ocpp /\ tx'[k].meterStart = tx[k].meterStart
      /\ tx'[k].state =
           IF tx[k].state \in {"CHARGING", "AUTHORIZED"} THEN "STOPPING" ELSE tx[k].state
  BY <1>0, TransitionType DEF StopSession, Stage
<1>3. \/ tx'[k].state = tx[k].state
      \/ tx[k].state = "CHARGING" /\ tx'[k].state = "STOPPING"
  BY <1>1, <1>2 DEF Started
<1>4. Held(k)
  BY <1>1 DEF IInv, InvoiceBacked, Started
<1>5. \A q \in Calls : CallFits(q)'
  BY DEF IInv, PausedStepsFit, CallFits, Held, HoldRef, StopSession, wallet
<1> QED BY <1>2, <1>3, <1>4, <1>5, RowWritten DEF StopSession, Started, consumer

LEMMA InvMeter ==
  ASSUME IInv, TypeInv', NEW c \in Chargers, NEW k \in Keys, NEW r \in Readings, ApplyMeter(c, k, r)
  PROVE  IInv'
<1>0. tx \in [Keys -> TxRow] /\ tx[k] \in TxRow
  BY DEF IInv, TypeInv, TypeOK
<1>1. /\ \A j \in Keys : j # k => tx'[j] = tx[j]
      /\ tx'[k].ocpp = tx[k].ocpp /\ tx'[k].meterStart = tx[k].meterStart
      /\ tx'[k].state = tx[k].state
  BY <1>0 DEF ApplyMeter, TxRow
<1>2. tx'[k].state # "NONE" => Held(k)
  BY <1>1 DEF IInv, InvoiceBacked
<1>3. \A q \in Calls : CallFits(q)'
  BY DEF IInv, PausedStepsFit, CallFits, Held, HoldRef, ApplyMeter, wallet
<1> QED BY <1>1, <1>2, <1>3, RowWritten DEF ApplyMeter, device, consumer

(* What a step leaves to a handler that does not move: the partition below *)
(* its position, and a session that did not leave the states it relies on. *)
LEMMA HandlerUndisturbed ==
  ASSUME IInv, NEW d \in Chargers, handler'[d] = handler[d], pos'[d] = pos[d],
         \A i \in 1..Len(log[d]) : log'[d][i] = log[d][i],
         \A k \in Keys : ChargerOf[k] = d /\ tx[k].state = "AUTHORIZED" => tx'[k].state = "AUTHORIZED",
         \A k \in Keys : tx[k].state \in Started => tx'[k].state \in Started,
         \A k \in Keys : tx[k].state = "COMPLETED" => tx'[k].state = "COMPLETED",
         \A k \in Keys : \A i \in 1..Len(invoices[k]) :
           i \in 1..Len(invoices'[k]) /\ invoices'[k][i] = invoices[k][i]
  PROVE  HandlerFits(d)'
<1>1. HandlerFits(d)
  BY DEF IInv, PausedStepsFit
<1>2. CASE handler[d].pc = "poll"
  BY <1>2 DEF HandlerFits, Running
<1>3. CASE handler[d].pc # "poll"
  <2>1. handler[d].key \in Keys /\ pos[d] < Len(log[d]) /\ pos[d] \in Nat /\ Len(log[d]) \in Nat
    BY <1>3, LenProperties DEF IInv, TypeInv, TypeOK, HandlersHaveEvents
  <2>2. pos[d] + 1 \in 1..Len(log[d])
    BY <2>1
  <2> QED BY <1>1, <2>1, <2>2 DEF HandlerFits, Running
<1> QED BY <1>2, <1>3

LEMMA CallsFitStill ==
  ASSUME IInv, ledger \subseteq ledger', UNCHANGED call
  PROVE  \A q \in Calls : CallFits(q)'
BY HeldStays DEF IInv, PausedStepsFit, CallFits

LEMMA InvDevice ==
  ASSUME IInv, TypeInv', NEW c \in Chargers, Device(c)
  PROVE  IInv'
<1>0. TypeOK /\ UNCHANGED <<wallet, tx, invoices, call, consumer>>
  BY DeviceWrites DEF IInv, TypeInv
<1>1. /\ \A d \in Chargers : Len(log[d]) <= Len(log'[d])
      /\ \A d \in Chargers : Len(log[d]) \in Nat /\ Len(log'[d]) \in Nat
      /\ \A d \in Chargers : \A i \in 1..Len(log[d]) : log'[d][i] = log[d][i]
  <2>1. CASE UNCHANGED log
    BY <1>0, <2>1, LenProperties DEF TypeOK
  <2>2. CASE \E s \in Seq(Event) : log' = [log EXCEPT ![c] = @ \o s]
    BY <1>0, <2>2, LogGrows, LenProperties DEF TypeOK
  <2> QED BY <1>0, <2>1, <2>2, DeviceWrites
<1>2. \A k \in Keys : Held(k)' = Held(k)
  BY <1>0 DEF Held, HoldRef, wallet
<1>3. OcppIdMarksStarted' /\ InvoiceBacked' /\ OverdraftNeedsLargeBill'
  BY <1>0, <1>2 DEF IInv, OcppIdMarksStarted, InvoiceBacked, OverdraftNeedsLargeBill, wallet
<1>4. BoundToOwnCharger'
  <2> SUFFICES ASSUME NEW k \in Keys, tx'[k].ocpp # NoId
               PROVE  \E i \in 1..Len(log'[ChargerOf[k]]) :
                        LET e == log'[ChargerOf[k]][i]
                        IN  e.type = "Start" /\ e.id = tx'[k].ocpp /\ e.meter = tx'[k].meterStart
    BY DEF BoundToOwnCharger
  <2> PICK d \in Chargers : d = ChargerOf[k]
    BY SessionsAssumption
  <2> PICK i \in 1..Len(log[d]) :
        log[d][i].type = "Start" /\ log[d][i].id = tx[k].ocpp /\ log[d][i].meter = tx[k].meterStart
    BY <1>0 DEF IInv, BoundToOwnCharger
  <2>1. i \in 1..Len(log'[d]) /\ log'[d][i] = log[d][i]
    BY <1>1
  <2> QED BY <1>0, <2>1
<1>5. PausedStepsFit'
  <2>1. ASSUME NEW d \in Chargers PROVE HandlerFits(d)'
    BY <1>0, <1>1, HandlerUndisturbed DEF consumer
  <2>2. \A q \in Calls : CallFits(q)'
    BY <1>0, CallsFitStill DEF wallet
  <2> QED BY <2>1, <2>2 DEF PausedStepsFit
<1> QED BY <1>3, <1>4, <1>5 DEF IInv

(* A handler that moves, with a session it may write, and leaves the       *)
(* wallet alone.                                                           *)
LEMMA HandlerMoved ==
  ASSUME IInv, TypeInv', NEW c \in Chargers,
         UNCHANGED <<wallet, call, log>>,
         \A d \in Chargers : d # c => handler'[d] = handler[d] /\ pos'[d] = pos[d],
         HandlerFits(c)',
         \A k \in Keys : ChargerOf[k] # c /\ tx[k].state = "AUTHORIZED" => tx'[k].state = "AUTHORIZED",
         \A k \in Keys : tx[k].state \in Started => tx'[k].state \in Started,
         \A k \in Keys : tx[k].state = "COMPLETED" => tx'[k].state = "COMPLETED",
         \A k \in Keys : tx[k].state = "NONE" => tx'[k].state = "NONE",
         \A k \in Keys : invoices'[k] # invoices[k] => tx'[k].state = "COMPLETED",
         \A k \in Keys : \A i \in 1..Len(invoices[k]) :
           i \in 1..Len(invoices'[k]) /\ invoices'[k][i] = invoices[k][i],
         OcppIdMarksStarted', BoundToOwnCharger'
  PROVE  IInv'
<1>1. \A k \in Keys : Held(k)' = Held(k)
  BY DEF Held, HoldRef, wallet
<1>2. InvoiceBacked'
  BY <1>1 DEF IInv, InvoiceBacked
<1>3. PausedStepsFit'
  <2>1. ASSUME NEW d \in Chargers, d # c PROVE HandlerFits(d)'
    BY <2>1, HandlerUndisturbed
  <2>2. \A q \in Calls : CallFits(q)'
    BY CallsFitStill DEF wallet
  <2> QED BY <2>1, <2>2 DEF PausedStepsFit
<1>4. OverdraftNeedsLargeBill'
  <2> SUFFICES ASSUME NEW u \in WalletOwners, hold'[u] > balance'[u]
               PROVE  \E k \in Keys : UserOf[k] = u /\
                        \E i \in 1..Len(invoices'[k]) : invoices'[k][i] > HoldAmount
    BY DEF OverdraftNeedsLargeBill
  <2>1. PICK k \in Keys : UserOf[k] = u /\ \E i \in 1..Len(invoices[k]) : invoices[k][i] > HoldAmount
    BY DEF IInv, OverdraftNeedsLargeBill, wallet
  <2> QED BY <2>1
<1> QED BY <1>2, <1>3, <1>4 DEF IInv

(* A handler that stops working and leaves the tables alone.               *)
LEMMA HandlerIdles ==
  ASSUME IInv, TypeInv', NEW c \in Chargers, handler' = [handler EXCEPT ![c] = Poll],
         \A d \in Chargers : d # c => pos'[d] = pos[d],
         UNCHANGED <<wallet, tx, invoices, call, log>>
  PROVE  IInv'
<1>1. handler'[c].pc = "poll" /\ \A d \in Chargers : d # c => handler'[d] = handler[d]
  BY DEF IInv, TypeInv, TypeOK, Poll
<1>2. HandlerFits(c)'
  BY <1>1 DEF HandlerFits, Running
<1>3. OcppIdMarksStarted' /\ BoundToOwnCharger'
  BY DEF IInv, OcppIdMarksStarted, BoundToOwnCharger
<1> QED BY <1>1, <1>2, <1>3, HandlerMoved

LEMMA InvFindStarted ==
  ASSUME IInv, TypeInv', NEW c \in Chargers, FindStarted(c)
  PROVE  IInv'
<1>0. /\ UNCHANGED <<wallet, tx, invoices, call, log>>
      /\ handler \in [Chargers -> HandlerState] /\ pos \in [Chargers -> Nat]
  BY DEF FindStarted, device, IInv, TypeInv, TypeOK
<1>1. CASE Done(c)
  BY <1>0, <1>1, HandlerIdles DEF Done
<1>2. CASE \E k \in Newest(Bindable(c)) : Enter(c, "bind", k, 0)
  <2> PICK k \in Bindable(c) : Enter(c, "bind", k, 0)
    BY <1>2 DEF Newest
  <2>1. k \in Keys /\ ChargerOf[k] = c /\ tx[k].state = "AUTHORIZED"
    BY DEF Bindable, InState
  <2>2. /\ handler'[c].pc = "bind" /\ handler'[c].key = k /\ pos' = pos
        /\ \A d \in Chargers : d # c => handler'[d] = handler[d]
    BY <1>0 DEF Enter
  <2>3. log[c][pos[c] + 1].type = "Start"
    BY DEF FindStarted, Pending
  <2>4. HandlerFits(c)'
    BY <1>0, <2>1, <2>2, <2>3 DEF HandlerFits, Running
  <2>5. OcppIdMarksStarted' /\ BoundToOwnCharger'
    BY <1>0 DEF IInv, OcppIdMarksStarted, BoundToOwnCharger
  <2> QED BY <1>0, <2>2, <2>4, <2>5, HandlerMoved
<1> QED BY <1>1, <1>2 DEF FindStarted

(* What BindStarted does to the rows.                                      *)
LEMMA BindEffect ==
  ASSUME IInv, NEW c \in Chargers, BindStarted(c)
  PROVE  \E k \in Keys :
           /\ ChargerOf[k] = c /\ tx[k].state = "AUTHORIZED"
           /\ tx'[k].state = "CHARGING"
           /\ tx'[k].ocpp = log[c][pos[c] + 1].id /\ tx'[k].ocpp # NoId
           /\ tx'[k].meterStart = log[c][pos[c] + 1].meter
           /\ \A j \in Keys : j # k => tx'[j] = tx[j]
           /\ log[c][pos[c] + 1].type = "Start" /\ pos[c] + 1 \in 1..Len(log[c])
<1>1. /\ handler[c].key \in Keys /\ pos[c] < Len(log[c])
      /\ tx \in [Keys -> TxRow] /\ pos[c] \in Nat /\ Len(log[c]) \in Nat
  BY LenProperties DEF BindStarted, Running, IInv, TypeInv, TypeOK, HandlersHaveEvents
<1> PICK k \in Keys : k = handler[c].key
  BY <1>1
<1>2. /\ ChargerOf[k] = c /\ tx[k].state = "AUTHORIZED"
      /\ log[c][pos[c] + 1].type = "Start"
  <2>1. HandlerFits(c)
    BY DEF IInv, PausedStepsFit
  <2>2. Running(c, "bind")
    BY DEF BindStarted
  <2> QED BY <2>1, <2>2 DEF HandlerFits
<1> PICK e \in Event : e = log[c][pos[c] + 1]
  BY <1>1, CurrentEvent DEF IInv
<1>3. e.id \in Ids /\ e.id # NoId
  BY SessionsAssumption DEF Event, Ids, NoId
<1>4. tx' = [tx EXCEPT ![k] = [tx[k] EXCEPT !.ocpp = e.id, !.meterStart = e.meter,
                                            !.state = "CHARGING"]]
  BY DEF BindStarted
<1>5. tx[k] \in TxRow
  BY <1>1
<1>6. tx'[k] = [tx[k] EXCEPT !.ocpp = e.id, !.meterStart = e.meter, !.state = "CHARGING"]
      /\ \A j \in Keys : j # k => tx'[j] = tx[j]
  BY <1>1, <1>4
<1>7. tx'[k].ocpp = e.id /\ tx'[k].meterStart = e.meter /\ tx'[k].state = "CHARGING"
  BY <1>5, <1>6 DEF TxRow
<1>8. pos[c] + 1 \in 1..Len(log[c])
  BY <1>1
<1> QED BY <1>2, <1>3, <1>6, <1>7, <1>8

LEMMA InvBindStarted ==
  ASSUME IInv, TypeInv', NEW c \in Chargers, BindStarted(c)
  PROVE  IInv'
<1>0. /\ UNCHANGED <<wallet, invoices, call, log>> /\ Done(c)
      /\ handler \in [Chargers -> HandlerState] /\ pos \in [Chargers -> Nat]
  BY DEF BindStarted, device, IInv, TypeInv, TypeOK
<1>1. /\ handler'[c].pc = "poll"
      /\ \A d \in Chargers : d # c => handler'[d] = handler[d] /\ pos'[d] = pos[d]
  BY <1>0 DEF Done, Poll
<1>2. HandlerFits(c)'
  BY <1>1 DEF HandlerFits, Running
<1> PICK k \in Keys :
      /\ ChargerOf[k] = c /\ tx[k].state = "AUTHORIZED"
      /\ tx'[k].state = "CHARGING"
      /\ tx'[k].ocpp = log[c][pos[c] + 1].id /\ tx'[k].ocpp # NoId
      /\ tx'[k].meterStart = log[c][pos[c] + 1].meter
      /\ \A j \in Keys : j # k => tx'[j] = tx[j]
      /\ log[c][pos[c] + 1].type = "Start" /\ pos[c] + 1 \in 1..Len(log[c])
  BY BindEffect
<1>3. OcppIdMarksStarted'
  BY DEF IInv, OcppIdMarksStarted, Started
<1>4. BoundToOwnCharger'
  <2> SUFFICES ASSUME NEW j \in Keys, tx'[j].ocpp # NoId
               PROVE  \E i \in 1..Len(log[ChargerOf[j]]) :
                        LET e == log[ChargerOf[j]][i]
                        IN  e.type = "Start" /\ e.id = tx'[j].ocpp /\ e.meter = tx'[j].meterStart
    BY <1>0 DEF BoundToOwnCharger
  <2>1. CASE j = k
    BY <2>1
  <2>2. CASE j # k
    BY <2>2 DEF IInv, BoundToOwnCharger
  <2> QED BY <2>1, <2>2
<1> QED BY <1>0, <1>1, <1>2, <1>3, <1>4, HandlerMoved DEF Started

(* A handler that goes on with a started session, writing at most its      *)
(* energy and its state.                                                   *)
LEMMA HandlerAdvances ==
  ASSUME IInv, TypeInv', NEW c \in Chargers, NEW k \in Keys,
         UNCHANGED <<wallet, invoices, call, log, pos>>,
         handler'[c].pc \in {"transition", "settle"}, handler'[c].key = k,
         \A d \in Chargers : d # c => handler'[d] = handler[d],
         \A j \in Keys : j # k => tx'[j] = tx[j],
         tx'[k].ocpp = tx[k].ocpp, tx'[k].meterStart = tx[k].meterStart,
         tx[k].state \in Started, tx'[k].state \in {tx[k].state, "COMPLETED"},
         handler'[c].pc = "settle" => tx'[k].state = "COMPLETED"
  PROVE  IInv'
<1>1. HandlerFits(c)'
  BY DEF HandlerFits, Running, Started
<1>2. OcppIdMarksStarted' /\ BoundToOwnCharger'
  BY DEF IInv, OcppIdMarksStarted, BoundToOwnCharger, Started
<1> QED BY <1>1, <1>2, HandlerMoved DEF Started

LEMMA InvFindStopped ==
  ASSUME IInv, TypeInv', NEW c \in Chargers, FindStopped(c)
  PROVE  IInv'
<1>0. /\ UNCHANGED <<wallet, invoices, call, log>>
      /\ tx \in [Keys -> TxRow] /\ handler \in [Chargers -> HandlerState]
      /\ pos \in [Chargers -> Nat]
  BY DEF FindStopped, device, IInv, TypeInv, TypeOK
<1>1. CASE Done(c) /\ UNCHANGED tx
  BY <1>0, <1>1, HandlerIdles DEF Done
<1>2. CASE \E k \in BoundTo(log[c][pos[c] + 1].id) : \E r :
             tx' = [tx EXCEPT ![k].energy = r] /\ Enter(c, "transition", k, 0)
  <2> PICK k \in Keys : /\ tx[k].ocpp = log[c][pos[c] + 1].id
                        /\ \E r : tx' = [tx EXCEPT ![k].energy = r]
                        /\ Enter(c, "transition", k, 0)
    BY <1>2 DEF BoundTo
  <2> PICK r : tx' = [tx EXCEPT ![k].energy = r]
    OBVIOUS
  <2>1. tx[k].state \in Started
    <3>1. log[c][pos[c] + 1] \in Event
      BY CurrentEvent DEF IInv, FindStopped, Pending
    <3>2. tx[k].ocpp # NoId
      BY <3>1, SessionsAssumption DEF Event, Ids, NoId
    <3> QED BY <3>2 DEF IInv, OcppIdMarksStarted
  <2>2. /\ \A j \in Keys : j # k => tx'[j] = tx[j]
        /\ tx'[k].ocpp = tx[k].ocpp /\ tx'[k].meterStart = tx[k].meterStart
        /\ tx'[k].state = tx[k].state
    BY <1>0 DEF TxRow
  <2>3. /\ handler'[c].pc = "transition" /\ handler'[c].key = k /\ pos' = pos
        /\ \A d \in Chargers : d # c => handler'[d] = handler[d]
    BY <1>0 DEF Enter
  <2> QED BY <1>0, <2>1, <2>2, <2>3, HandlerAdvances
<1> QED BY <1>1, <1>2 DEF FindStopped

LEMMA InvCompleteRow ==
  ASSUME IInv, TypeInv', NEW c \in Chargers, CompleteRow(c)
  PROVE  IInv'
<1>0. /\ UNCHANGED <<wallet, invoices, call, log>> /\ handler[c].key \in Keys
      /\ tx \in [Keys -> TxRow] /\ handler \in [Chargers -> HandlerState]
  BY DEF CompleteRow, Running, device, IInv, TypeInv, TypeOK, HandlersHaveEvents
<1> PICK k \in Keys : k = handler[c].key
  BY <1>0
<1>1. tx[k].state \in Started
  <2>1. HandlerFits(c)
    BY DEF IInv, PausedStepsFit
  <2> QED BY <2>1 DEF HandlerFits, CompleteRow
<1>2. /\ \A j \in Keys : j # k => tx'[j] = tx[j]
      /\ tx'[k].ocpp = tx[k].ocpp /\ tx'[k].meterStart = tx[k].meterStart
      /\ tx'[k].state =
           IF tx[k].state \in {"STOPPING", "CHARGING"} THEN "COMPLETED" ELSE tx[k].state
  BY <1>0, TransitionType DEF CompleteRow, Stage
<1>3. /\ handler'[c].pc = "settle" /\ handler'[c].key = k /\ pos' = pos
      /\ \A d \in Chargers : d # c => handler'[d] = handler[d]
  BY <1>0 DEF CompleteRow, Enter
<1>4. tx'[k].state = "COMPLETED"
  BY <1>1, <1>2 DEF Started
<1> QED BY <1>0, <1>1, <1>2, <1>3, <1>4, HandlerAdvances

LEMMA InvSettle ==
  ASSUME IInv, TypeInv', NEW c \in Chargers, Settle(c)
  PROVE  IInv'
<1>0. /\ UNCHANGED <<wallet, call, log>> /\ handler[c].key \in Keys
      /\ tx \in [Keys -> TxRow] /\ handler \in [Chargers -> HandlerState]
      /\ invoices \in [Keys -> Seq(Nat)]
  BY DEF Settle, Running, device, IInv, TypeInv, TypeOK, HandlersHaveEvents
<1> PICK k \in Keys : k = handler[c].key
  BY <1>0
<1>1. tx[k].state = "COMPLETED"
  <2>1. HandlerFits(c) /\ Running(c, "settle")
    BY DEF IInv, PausedStepsFit, Settle
  <2> QED BY <2>1 DEF HandlerFits
<1> PICK total \in Charges[tx[k].energy] :
      /\ invoices' = [invoices EXCEPT ![k] = Append(@, total)]
      /\ Enter(c, "capture", k, total)
  BY DEF Settle
<1>2. total \in Nat
  BY <1>0, SessionsAssumption DEF TxRow
<1>3. /\ \A j \in Keys : j # k => tx'[j] = tx[j]
      /\ tx'[k].ocpp = tx[k].ocpp /\ tx'[k].meterStart = tx[k].meterStart
      /\ tx'[k].state = "COMPLETED"
  BY <1>0 DEF Settle, TxRow
<1>4. /\ handler'[c] = [pc |-> "capture", key |-> k, total |-> total] /\ pos' = pos
      /\ \A d \in Chargers : d # c => handler'[d] = handler[d]
  BY <1>0 DEF Enter
<1>5. /\ invoices[k] \in Seq(Nat) /\ Len(invoices[k]) \in Nat
      /\ \A j \in Keys : j # k => invoices'[j] = invoices[j]
      /\ Len(invoices'[k]) = Len(invoices[k]) + 1
      /\ \A i \in 1..Len(invoices[k]) : invoices'[k][i] = invoices[k][i]
      /\ invoices'[k][Len(invoices[k]) + 1] = total
  BY <1>0, <1>2, AppendProperties, LenProperties
<1>6. \A j \in Keys : \A i \in 1..Len(invoices[j]) :
        i \in 1..Len(invoices'[j]) /\ invoices'[j][i] = invoices[j][i]
  BY <1>5
<1>7. HandlerFits(c)'
  <2>1. Len(invoices[k]) + 1 \in 1..Len(invoices'[k])
    BY <1>5
  <2> QED BY <1>3, <1>4, <1>5, <2>1 DEF HandlerFits, Running
<1>8. \A j \in Keys : /\ tx'[j].state = tx[j].state
                     /\ tx'[j].ocpp = tx[j].ocpp /\ tx'[j].meterStart = tx[j].meterStart
  BY <1>1, <1>3
<1>9. OcppIdMarksStarted'
  BY <1>8 DEF IInv, OcppIdMarksStarted
<1>10. BoundToOwnCharger'
  BY <1>0, <1>8 DEF IInv, BoundToOwnCharger
<1>11. \A j \in Keys : invoices'[j] # invoices[j] => tx'[j].state = "COMPLETED"
  BY <1>3, <1>5
<1> QED BY <1>0, <1>4, <1>6, <1>7, <1>8, <1>9, <1>10, <1>11, HandlerMoved

LEMMA InvCaptureFunds ==
  ASSUME IInv, TypeInv', NEW c \in Chargers, CaptureFunds(c)
  PROVE  IInv'
<1>0. /\ UNCHANGED <<tx, invoices, call, log>> /\ handler[c].key \in Keys /\ Done(c)
      /\ handler \in [Chargers -> HandlerState] /\ HoldAmount \in Nat
      /\ pos \in [Chargers -> Nat] /\ W!TypeOK /\ W!TypeOK' /\ handler[c].total \in Nat
  BY SessionsAssumption
     DEF CaptureFunds, Running, device, IInv, TypeInv, TypeOK, HandlersHaveEvents, HandlerState
<1> PICK k \in Keys, total \in Nat : k = handler[c].key /\ total = handler[c].total
  BY <1>0
<1>1. /\ W!CaptureHold(UserOf[k], HoldAmount, total, HoldRef(k), PayRef(k))
      /\ Running(c, "capture")
  BY DEF CaptureFunds, Actual
<1>2. ledger \subseteq ledger'
  BY <1>1 DEF W!CaptureHold, W!SkipDuplicates
<1>3. \A j \in Keys : Held(j) => Held(j)'
  BY <1>2, HeldStays
<1>4. OcppIdMarksStarted' /\ BoundToOwnCharger' /\ InvoiceBacked'
  BY <1>0, <1>3 DEF IInv, OcppIdMarksStarted, BoundToOwnCharger, InvoiceBacked
<1>5. PausedStepsFit'
  <2>1. /\ handler'[c].pc = "poll"
        /\ \A d \in Chargers : d # c => handler'[d] = handler[d] /\ pos'[d] = pos[d]
    BY <1>0 DEF Done, Poll
  <2>2. HandlerFits(c)'
    BY <2>1 DEF HandlerFits, Running
  <2>3. ASSUME NEW d \in Chargers, d # c PROVE HandlerFits(d)'
    BY <1>0, <2>1, <2>3, HandlerUndisturbed
  <2>4. \A q \in Calls : CallFits(q)'
    BY <1>0, <1>2, CallsFitStill
  <2> QED BY <2>2, <2>3, <2>4 DEF PausedStepsFit
<1>6. \E i \in 1..Len(invoices[k]) : invoices[k][i] = total
  <2>1. HandlerFits(c)
    BY DEF IInv, PausedStepsFit
  <2> QED BY <1>1, <2>1 DEF HandlerFits
<1>7. OverdraftNeedsLargeBill'
  <2> SUFFICES ASSUME NEW u \in WalletOwners, hold'[u] > balance'[u]
               PROVE  \E j \in Keys : UserOf[j] = u /\
                        \E i \in 1..Len(invoices[j]) : invoices[j][i] > HoldAmount
    BY <1>0 DEF OverdraftNeedsLargeBill
  <2>0. balance[u] \in Nat /\ hold[u] \in Nat
    BY <1>0 DEF W!TypeOK
  <2>1. CASE hold[u] > balance[u]
    BY <2>1 DEF IInv, OverdraftNeedsLargeBill
  <2>2. CASE hold[u] <= balance[u] /\ UserOf[k] # u
    BY <1>1, <2>0, <2>2 DEF W!CaptureHold
  <2>3. CASE hold[u] <= balance[u] /\ UserOf[k] = u
    <3>1. total > HoldAmount
      BY <1>0, <1>1, <2>0, <2>3 DEF W!CaptureHold, W!SubtractFloor
    <3> QED BY <1>6, <2>3, <3>1
  <2> QED BY <2>0, <2>1, <2>2, <2>3
<1> QED BY <1>4, <1>5, <1>7 DEF IInv

LEMMA InvStep == IInv /\ [Next]_vars => IInv'
<1> SUFFICES ASSUME IInv, [Next]_vars PROVE IInv'
  OBVIOUS
<1>0. TypeInv'
  BY TypeStep DEF IInv
<1>1. CASE \E p \in Calls : StartCall(p)
  BY <1>0, <1>1, InvCall
<1>2. CASE \E k \in Keys : StopSession(k)
  BY <1>0, <1>2, InvStop
<1>3. CASE \E c \in Chargers : Device(c)
  BY <1>0, <1>3, InvDevice
<1>4. CASE \E c \in Chargers : Handle(c)
  BY <1>0, <1>4, InvFindStarted, InvBindStarted, InvFindStopped, InvCompleteRow, InvSettle,
     InvCaptureFunds DEF Handle
<1>5. ASSUME NEW c \in Chargers, FailEvent(c) PROVE IInv'
  <2>1. \A d \in Chargers : d # c => pos'[d] = pos[d]
    BY <1>5 DEF FailEvent, Done, IInv, TypeInv, TypeOK
  <2> QED BY <1>0, <1>5, <2>1, HandlerIdles DEF FailEvent, Done, device
<1>6. ASSUME NEW c \in Chargers, CrashConsumer(c) PROVE IInv'
  <2>1. \A d \in Chargers : d # c => pos'[d] = pos[d]
    BY <1>6 DEF CrashConsumer, IInv, TypeInv, TypeOK
  <2> QED BY <1>0, <1>6, <2>1, HandlerIdles DEF CrashConsumer, device
<1>7. ASSUME NEW c \in Chargers, CommitOffset(c) PROVE IInv'
  <2>1. UNCHANGED <<wallet, tx, invoices, log, pos, handler, call>>
    BY <1>7 DEF CommitOffset, device
  <2>2. \A p \in Calls : CallFits(p)'
    BY <2>1, CallsFitStill DEF wallet
  <2> QED BY <1>0, <2>1, <2>2, RowsUntouched DEF wallet
<1>8. CASE \E c \in Chargers, k \in Keys, r \in Readings : ApplyMeter(c, k, r)
  BY <1>0, <1>8, InvMeter
<1>9. CASE UNCHANGED vars
  <2>1. UNCHANGED <<wallet, tx, invoices, log, pos, handler, call>>
    BY <1>9 DEF vars, device, consumer
  <2>2. \A p \in Calls : CallFits(p)'
    BY <2>1, CallsFitStill DEF wallet
  <2> QED BY <1>0, <2>1, <2>2, RowsUntouched DEF wallet
<1> QED BY <1>1, <1>2, <1>3, <1>4, <1>5, <1>6, <1>7, <1>8, <1>9 DEF Next

LEMMA Inductive == Spec => []IInv
BY InvInit, InvStep, PTL DEF Spec

-----------------------------------------------------------------------------
(* A row has an OCPP id exactly while it is started, whatever the order of *)
(* requests, events, faults and settlements.                               *)
THEOREM IdMarksStarted == Spec => []OcppIdMarksStarted
<1>1. IInv => OcppIdMarksStarted
  BY DEF IInv
<1> QED BY <1>1, Inductive, PTL

(* No row without a hold in the ledger, and only completed sessions are    *)
(* invoiced, under any number of crashes, errors and repeated messages.    *)
THEOREM InvoicesAreBacked == Spec => []InvoiceBacked
<1>1. IInv => InvoiceBacked
  BY DEF IInv
<1> QED BY <1>1, Inductive, PTL

(* The unconditional writes after an await find what they rely on.         *)
THEOREM PausedSteps == Spec => []PausedStepsFit
<1>1. IInv => PausedStepsFit
  BY DEF IInv
<1> QED BY <1>1, Inductive, PTL

(* Rows, holds, invoices and paused steps fit together, in every reachable *)
(* state of any instance.                                                  *)
THEOREM RowsAndStepsFit == Spec => []SessionsFit
<1>1. IInv => SessionsFit
  BY DEF IInv, SessionsFit
<1> QED BY <1>1, Inductive, PTL

(* A session is bound to a StartTransaction of its own charger.            *)
THEOREM OwnCharger == Spec => []BoundToOwnCharger
<1>1. IInv => BoundToOwnCharger
  BY DEF IInv
<1> QED BY <1>1, Inductive, PTL

(* Only a bill larger than a hold can leave a wallet with more held than   *)
(* it has, for any amount of the hold and any tariff.                      *)
THEOREM Overdraft == Spec => []OverdraftNeedsLargeBill
<1>1. IInv => OverdraftNeedsLargeBill
  BY DEF IInv
<1> QED BY <1>1, Inductive, PTL

-----------------------------------------------------------------------------
(* The steps, seen through the refinement mapping.                         *)
Forward == {<<"NONE", "PENDING">>, <<"PENDING", "AUTHORIZED">>, <<"AUTHORIZED", "CHARGING">>,
            <<"CHARGING", "STOPPING">>, <<"CHARGING", "COMPLETED">>, <<"STOPPING", "COMPLETED">>}

LEMMA RowAdvances ==
  ASSUME IInv, IInv', UNCHANGED <<wallet, invoices>>, NEW k \in Keys,
         \A j \in Keys : j # k => tx'[j] = tx[j],
         tx'[k].state = tx[k].state \/ <<tx[k].state, tx'[k].state>> \in Forward
  PROVE  [Lifecycle!Next]_(Lifecycle!vars)
<1> DEFINE stage == [j \in Keys |-> tx[j].state]
           reserved == {j \in Keys : Held(j)}
           bills == [j \in Keys |-> Len(invoices[j])]
<1>1. \A j \in Keys : Held(j)' = Held(j)
  BY DEF Held, HoldRef, wallet
<1>2. reserved' = reserved /\ bills' = bills
  BY <1>1
<1>3. stage' = [stage EXCEPT ![k] = tx'[k].state]
  OBVIOUS
<1>4. CASE tx'[k].state = tx[k].state
  <2>1. stage' = stage
    BY <1>3, <1>4
  <2> QED BY <1>2, <2>1 DEF Lifecycle!vars
<1>5. CASE <<tx[k].state, tx'[k].state>> \in Forward
  <2>1. stage[k] = tx[k].state
    OBVIOUS
  <2>2. k \in reserved
    BY <1>1, <1>5 DEF Forward, IInv, InvoiceBacked
  <2>3. ASSUME NEW from, NEW to, tx[k].state \in from, tx'[k].state = to
        PROVE  Lifecycle!Advance(k, from, to)
    BY <1>2, <1>3, <2>1, <2>3 DEF Lifecycle!Advance
  <2>4. \/ Lifecycle!Open(k) \/ Lifecycle!Authorize(k) \/ Lifecycle!Charge(k)
        \/ Lifecycle!Stop(k) \/ Lifecycle!Complete(k)
    BY <1>5, <2>2, <2>3
    DEF Forward, Lifecycle!Open, Lifecycle!Authorize, Lifecycle!Charge, Lifecycle!Stop,
        Lifecycle!Complete
  <2> QED BY <2>4 DEF Lifecycle!Next
<1> QED BY <1>4, <1>5

IdsKept(k) ==
  tx[k].ocpp # NoId => tx'[k].ocpp = tx[k].ocpp /\ tx'[k].meterStart = tx[k].meterStart

RowWrite(k) ==
  /\ UNCHANGED <<wallet, invoices>>
  /\ \A j \in Keys : j # k => tx'[j] = tx[j]
  /\ tx'[k].state = tx[k].state \/ <<tx[k].state, tx'[k].state>> \in Forward
  /\ IdsKept(k)

(* Every step writes no row, one row forwards, or settles a session.       *)
LEMMA StepEffect ==
  ASSUME IInv, Next
  PROVE  \/ UNCHANGED <<wallet, tx, invoices>>
         \/ \E k \in Keys : RowWrite(k)
         \/ \E p \in Calls : HoldFunds(p)
         \/ \E c \in Chargers : CaptureFunds(c) \/ Settle(c)
<1>0. tx \in [Keys -> TxRow]
  BY DEF IInv, TypeInv, TypeOK
<1>1. ASSUME NEW p \in Calls, StartCall(p)
      PROVE  UNCHANGED <<wallet, tx, invoices>> \/ (\E k \in Keys : RowWrite(k)) \/ HoldFunds(p)
  <2>1. CASE CreateRow(p) \/ AuthorizeRow(p)
    <3> PICK k \in Keys : k = call[p].key
      BY <2>1 DEF CreateRow, AuthorizeRow, At, IInv, TypeInv, CallsHaveKeys
    <3>1. CASE CreateRow(p)
      <4>1. /\ \A j \in Keys : j # k => tx'[j] = tx[j]
            /\ tx'[k] = PendingRow /\ tx[k].state = "NONE" /\ UNCHANGED <<wallet, invoices>>
        BY <1>0, <3>1 DEF CreateRow, KeyIsFree
      <4>2. PendingRow.state = "PENDING"
        BY DEF PendingRow
      <4>3. tx[k].ocpp = NoId
        BY <4>1 DEF IInv, OcppIdMarksStarted, Started
      <4> QED BY <4>1, <4>2, <4>3 DEF RowWrite, IdsKept, Forward
    <3>2. CASE AuthorizeRow(p)
      <4>1. /\ UNCHANGED <<wallet, invoices>> /\ \A j \in Keys : j # k => tx'[j] = tx[j]
            /\ tx'[k].ocpp = tx[k].ocpp /\ tx'[k].meterStart = tx[k].meterStart
            /\ tx'[k].state = IF tx[k].state \in {"PENDING"} THEN "AUTHORIZED" ELSE tx[k].state
        BY <1>0, <3>2, TransitionType DEF AuthorizeRow, Stage
      <4> QED BY <4>1 DEF RowWrite, IdsKept, Forward
    <3> QED BY <2>1, <3>1, <3>2
  <2> QED BY <1>1, <2>1 DEF StartCall, StartSession, PublishStart, AbortCall
<1>2. ASSUME NEW k \in Keys, StopSession(k) PROVE RowWrite(k)
  <2>1. tx[k].state \in Started
    BY <1>2 DEF StopSession, IInv, OcppIdMarksStarted
  <2>2. /\ UNCHANGED <<wallet, invoices>> /\ \A j \in Keys : j # k => tx'[j] = tx[j]
        /\ tx'[k].ocpp = tx[k].ocpp /\ tx'[k].meterStart = tx[k].meterStart
        /\ tx'[k].state =
             IF tx[k].state \in {"CHARGING", "AUTHORIZED"} THEN "STOPPING" ELSE tx[k].state
    BY <1>0, <1>2, TransitionType DEF StopSession, Stage
  <2> QED BY <2>1, <2>2 DEF RowWrite, IdsKept, Forward, Started
<1>3. ASSUME NEW c \in Chargers, Device(c) PROVE UNCHANGED <<wallet, tx, invoices>>
  BY <1>3, DeviceWrites DEF IInv, TypeInv
<1>4. ASSUME NEW c \in Chargers, BindStarted(c) PROVE \E k \in Keys : RowWrite(k)
  <2> PICK k \in Keys :
           /\ tx[k].state = "AUTHORIZED" /\ tx'[k].state = "CHARGING"
           /\ \A j \in Keys : j # k => tx'[j] = tx[j]
    BY <1>4, BindEffect
  <2>1. tx[k].ocpp = NoId
    BY DEF IInv, OcppIdMarksStarted, Started
  <2>2. UNCHANGED <<wallet, invoices>>
    BY <1>4 DEF BindStarted
  <2> QED BY <2>1, <2>2 DEF RowWrite, IdsKept, Forward
<1>5. ASSUME NEW k \in Keys, NEW r, tx' = [tx EXCEPT ![k].energy = r], UNCHANGED <<wallet, invoices>>
      PROVE  RowWrite(k)
  <2>1. /\ \A j \in Keys : j # k => tx'[j] = tx[j]
        /\ tx'[k].ocpp = tx[k].ocpp /\ tx'[k].meterStart = tx[k].meterStart
        /\ tx'[k].state = tx[k].state
    BY <1>0, <1>5 DEF TxRow
  <2> QED BY <1>5, <2>1 DEF RowWrite, IdsKept
<1>6. ASSUME NEW c \in Chargers, FindStopped(c)
      PROVE  UNCHANGED <<wallet, tx, invoices>> \/ \E k \in Keys : RowWrite(k)
  <2>1. UNCHANGED <<wallet, invoices>>
    BY <1>6 DEF FindStopped
  <2>2. UNCHANGED tx \/ \E k \in Keys, r \in {Difference(log[c][pos[c] + 1].meter, tx[j].meterStart) : j \in Keys} :
                          tx' = [tx EXCEPT ![k].energy = r]
    BY <1>6 DEF FindStopped, BoundTo
  <2> QED BY <1>5, <2>1, <2>2
<1>7. ASSUME NEW c \in Chargers, CompleteRow(c) PROVE \E k \in Keys : RowWrite(k)
  <2> PICK k \in Keys : k = handler[c].key
    BY <1>7 DEF CompleteRow, Running, IInv, TypeInv, HandlersHaveEvents
  <2>1. /\ UNCHANGED <<wallet, invoices>> /\ \A j \in Keys : j # k => tx'[j] = tx[j]
        /\ tx'[k].ocpp = tx[k].ocpp /\ tx'[k].meterStart = tx[k].meterStart
        /\ tx'[k].state =
             IF tx[k].state \in {"STOPPING", "CHARGING"} THEN "COMPLETED" ELSE tx[k].state
    BY <1>0, <1>7, TransitionType DEF CompleteRow, Stage
  <2> QED BY <2>1 DEF RowWrite, IdsKept, Forward
<1>8. ASSUME NEW c \in Chargers, NEW k \in Keys, NEW r \in Readings, ApplyMeter(c, k, r)
      PROVE  RowWrite(k)
  BY <1>5, <1>8 DEF ApplyMeter
<1>9. ASSUME NEW c \in Chargers, FindStarted(c) \/ FailEvent(c) \/ CommitOffset(c) \/ CrashConsumer(c)
      PROVE  UNCHANGED <<wallet, tx, invoices>>
  BY <1>9 DEF FindStarted, FailEvent, CommitOffset, CrashConsumer
<1> QED BY <1>1, <1>2, <1>3, <1>4, <1>6, <1>7, <1>8, <1>9 DEF Next, Handle

(* What Settle does to the session, whose state is COMPLETED already.      *)
LEMMA SettleEffect ==
  ASSUME IInv, NEW c \in Chargers, Settle(c)
  PROVE  \E k \in Keys, total \in Nat :
           /\ tx[k].state = "COMPLETED" /\ UNCHANGED wallet
           /\ invoices' = [invoices EXCEPT ![k] = Append(@, total)]
           /\ \A j \in Keys : /\ tx'[j].state = tx[j].state
                              /\ IdsKept(j)
<1>0. /\ handler[c].key \in Keys /\ tx \in [Keys -> TxRow]
  BY DEF Settle, Running, IInv, TypeInv, TypeOK, HandlersHaveEvents
<1> PICK k \in Keys : k = handler[c].key
  BY <1>0
<1>1. tx[k].state = "COMPLETED"
  <2>1. HandlerFits(c) /\ Running(c, "settle")
    BY DEF IInv, PausedStepsFit, Settle
  <2> QED BY <2>1 DEF HandlerFits
<1> PICK total \in Charges[tx[k].energy] : invoices' = [invoices EXCEPT ![k] = Append(@, total)]
  BY DEF Settle
<1>2. total \in Nat
  BY <1>0, SessionsAssumption DEF TxRow
<1>3. /\ \A j \in Keys : j # k => tx'[j] = tx[j]
      /\ tx'[k].ocpp = tx[k].ocpp /\ tx'[k].meterStart = tx[k].meterStart
      /\ tx'[k].state = "COMPLETED"
  BY <1>0 DEF Settle, TxRow
<1>4. UNCHANGED wallet
  BY DEF Settle
<1>5. \A j \in Keys : tx'[j].state = tx[j].state /\ IdsKept(j)
  BY <1>1, <1>3 DEF IdsKept
<1> QED BY <1>1, <1>2, <1>4, <1>5

LEMMA IdsStay ==
  ASSUME IInv, Next, NEW k \in Keys
  PROVE  IdsKept(k)
<1>1. CASE UNCHANGED <<wallet, tx, invoices>>
  BY <1>1 DEF IdsKept
<1>2. CASE \E j \in Keys : RowWrite(j)
  BY <1>2 DEF RowWrite, IdsKept
<1>3. CASE (\E p \in Calls : HoldFunds(p)) \/ \E c \in Chargers : CaptureFunds(c)
  BY <1>3 DEF HoldFunds, CaptureFunds, IdsKept
<1>4. CASE \E c \in Chargers : Settle(c)
  BY <1>4, SettleEffect
<1> QED BY <1>1, <1>2, <1>3, <1>4, StepEffect

(* No event, repeated, late or failed half way, ever moves a session to    *)
(* another charging transaction.                                           *)
THEOREM IdWriteOnce == Spec => OcppIdWriteOnce
<1> DEFINE Kept == \A k \in Keys : tx[k].ocpp # NoId =>
                     tx'[k].ocpp = tx[k].ocpp /\ tx'[k].meterStart = tx[k].meterStart
<1>1. IInv /\ [Next]_vars => [Kept]_vars
  BY IdsStay DEF IdsKept
<1> QED BY <1>1, Inductive, PTL DEF Spec, OcppIdWriteOnce

-----------------------------------------------------------------------------
LEMMA MapHoldFunds ==
  ASSUME IInv, NEW p \in Calls, HoldFunds(p)
  PROVE  [Lifecycle!Next]_(Lifecycle!vars)
<1> PICK k \in Keys : k = call[p].key
  BY DEF IInv, TypeInv, CallsHaveKeys, HoldFunds, At
<1> DEFINE r == W!Entry(UserOf[k], -HoldAmount, "hold", HoldRef(k))
           held == {j \in Keys : Held(j)}
<1>1. r.ref = HoldRef(k) /\ r.reason = "hold" /\ UNCHANGED <<tx, invoices>>
  BY DEF W!Entry, HoldFunds
<1>2. ledger' = ledger \cup {x \in {r} : \A e \in ledger : e.ref # x.ref \/ e.reason # x.reason}
  BY DEF HoldFunds, W!Hold, W!SkipDuplicates
<1> HIDE DEF r
<1>3. \A j \in Keys : Held(j)' => Held(j) \/ j = k
  BY <1>1, <1>2 DEF Held, HoldRef
<1>4. \A j \in Keys : Held(j) => Held(j)'
  BY <1>2, HeldStays
<1>5. held' \in {held, held \cup {k}}
  BY <1>3, <1>4
<1> QED BY <1>1, <1>5 DEF Lifecycle!Next, Lifecycle!Reserve, Lifecycle!vars

LEMMA MapCaptureFunds ==
  ASSUME IInv, NEW c \in Chargers, CaptureFunds(c)
  PROVE  UNCHANGED Lifecycle!vars
<1> PICK k \in Keys : k = handler[c].key
  BY DEF IInv, TypeInv, HandlersHaveEvents, CaptureFunds, Running
<1> DEFINE new == {W!Entry(UserOf[k], HoldAmount, "release", HoldRef(k)),
                   W!Entry(UserOf[k], -handler[c].total, "capture", PayRef(k))}
<1>1. \A r \in new : r.reason # "hold"
  BY DEF W!Entry
<1>2. ledger' = ledger \cup {x \in new : \A e \in ledger : e.ref # x.ref \/ e.reason # x.reason}
  BY DEF CaptureFunds, Actual, W!CaptureHold, W!SkipDuplicates
<1> HIDE DEF new
<1>3. \A j \in Keys : Held(j)' <=> Held(j)
  BY <1>1, <1>2 DEF Held, HoldRef
<1>4. UNCHANGED <<tx, invoices>>
  BY DEF CaptureFunds
<1> QED BY <1>3, <1>4 DEF Lifecycle!vars

LEMMA MapSettle ==
  ASSUME IInv, NEW c \in Chargers, Settle(c)
  PROVE  Lifecycle!Next
<1> PICK k \in Keys, total \in Nat :
      /\ tx[k].state = "COMPLETED" /\ UNCHANGED wallet
      /\ invoices' = [invoices EXCEPT ![k] = Append(@, total)]
      /\ \A j \in Keys : tx'[j].state = tx[j].state
  BY SettleEffect
<1> DEFINE bills == [j \in Keys |-> Len(invoices[j])]
<1>1. invoices \in [Keys -> Seq(Nat)]
  BY DEF IInv, TypeInv, TypeOK
<1>2. Len(Append(invoices[k], total)) = Len(invoices[k]) + 1
  BY <1>1, AppendProperties
<1>3. bills' = [bills EXCEPT ![k] = @ + 1]
  BY <1>1, <1>2
<1>4. \A j \in Keys : Held(j)' <=> Held(j)
  BY DEF Held, HoldRef, wallet
<1>5. Lifecycle!Bill(k)
  BY <1>3, <1>4 DEF Lifecycle!Bill
<1> QED BY <1>5 DEF Lifecycle!Next

(* The session machine refines its abstract specification: each step of a  *)
(* request, a handler, a charger or a fault moves at most one session one  *)
(* step forwards.                                                          *)
THEOREM RefinesLifecycle == Spec => ImplementsLifecycle
<1>1. Init => Lifecycle!Init
  BY DEF Init, W!Init, Lifecycle!Init, NoRow, Held
<1>2. IInv /\ IInv' /\ [Next]_vars => [Lifecycle!Next]_(Lifecycle!vars)
  <2> SUFFICES ASSUME IInv, IInv', [Next]_vars PROVE [Lifecycle!Next]_(Lifecycle!vars)
    OBVIOUS
  <2>1. CASE UNCHANGED <<wallet, tx, invoices>>
    BY <2>1 DEF Lifecycle!vars, Held, HoldRef, wallet
  <2>2. CASE \E k \in Keys : RowWrite(k)
    BY <2>2, RowAdvances DEF RowWrite
  <2>3. CASE \E p \in Calls : HoldFunds(p)
    BY <2>3, MapHoldFunds
  <2>4. CASE \E c \in Chargers : CaptureFunds(c)
    BY <2>4, MapCaptureFunds
  <2>5. CASE \E c \in Chargers : Settle(c)
    BY <2>5, MapSettle
  <2>6. CASE UNCHANGED vars
    BY <2>1, <2>6 DEF vars
  <2> QED BY <2>1, <2>2, <2>3, <2>4, <2>5, <2>6, StepEffect
<1> QED BY <1>1, <1>2, Inductive, PTL DEF Spec, ImplementsLifecycle, Lifecycle!Spec
-----------------------------------------------------------------------------
(* What the partitions say about the ids: the invariant of the charger and *)
(* its gateway, whatever the program does with their events.               *)
StartAt(c, i, x) == log[c][i].type = "Start" /\ log[c][i].id = x

StopAt(c, i, x) == log[c][i].type = "Stop" /\ log[c][i].id = x

(* Ids are given out once, each to one charger.                            *)
IdsGivenOut == \A c \in Chargers : \A i \in 1..Len(log[c]) : log[c][i].id <= lastId

StartsApart ==
  \A c, d \in Chargers : \A i \in 1..Len(log[c]), j \in 1..Len(log[d]) :
    StartAt(c, i, log[d][j].id) /\ log[d][j].type = "Start" => c = d /\ i = j

(* A charger works under, and stops, what it has started.                  *)
WorksUnderStarted ==
  \A c \in Chargers : charging[c] # NoId => \E i \in 1..Len(log[c]) : StartAt(c, i, charging[c])

StopsFollowStarts ==
  \A c \in Chargers : \A i \in 1..Len(log[c]) :
    log[c][i].type = "Stop" => \E j \in 1..Len(log[c]) : StartAt(c, j, log[c][i].id)

(* A transaction is stopped once, and sent MaxSends times at most.         *)
StopsOf(c, x) == {i \in 1..Len(log[c]) : StopAt(c, i, x)}

StoppedIsOver == \A c \in Chargers : \A i \in 1..Len(log[c]) : ~StopAt(c, i, charging[c])

StopsCounted == \A c \in Chargers, x \in Ids : Cardinality(StopsOf(c, x)) <= MaxSends

(* Without resending, every start is the one the charger works under, or ended. *)
StartsEnd ==
  MaxSends = 1 =>
    \A c \in Chargers : \A i \in 1..Len(log[c]) :
      log[c][i].type = "Start" =>
        \/ charging[c] = log[c][i].id
        \/ \E j \in i + 1..Len(log[c]) : StopAt(c, j, log[c][i].id)

LogInv ==
  /\ IdsGivenOut /\ StartsApart /\ WorksUnderStarted /\ StopsFollowStarts
  /\ StoppedIsOver /\ StopsCounted /\ StartsEnd

LEMMA EventType ==
  ASSUME TypeOK, NEW c \in Chargers, NEW i \in 1..Len(log[c])
  PROVE  /\ log[c][i] \in Event /\ log[c][i].id \in Nat \ {NoId}
         /\ log[c][i].id \in Ids /\ log[c][i].type \in {"Start", "Stop"}
<1>1. log[c] \in Seq(Event)
  BY DEF TypeOK
<1>2. log[c][i] \in Event
  BY <1>1
<1> QED BY <1>2, SessionsAssumption DEF Event, Ids, NoId

(* A partition with the events of one message at its end.                  *)
LEMMA Appended ==
  ASSUME TypeOK, NEW c \in Chargers, NEW s \in Seq(Event), log' = [log EXCEPT ![c] = @ \o s]
  PROVE  /\ \A d \in Chargers : Len(log[d]) \in Nat
         /\ \A d \in Chargers : d # c => log'[d] = log[d]
         /\ Len(log'[c]) = Len(log[c]) + Len(s)
         /\ \A i \in 1..Len(log[c]) : log'[c][i] = log[c][i]
         /\ \A j \in 1..Len(s) : log'[c][Len(log[c]) + j] = s[j]
<1>1. log[c] \in Seq(Event) /\ log \in [Chargers -> Seq(Event)]
  BY DEF TypeOK
<1>2. /\ Len(log[c] \o s) = Len(log[c]) + Len(s)
      /\ \A i \in 1..Len(log[c]) + Len(s) :
           (log[c] \o s)[i] = IF i <= Len(log[c]) THEN log[c][i] ELSE s[i - Len(log[c])]
  BY <1>1, ConcatProperties
<1>3. Len(log[c]) \in Nat /\ Len(s) \in Nat /\ \A d \in Chargers : Len(log[d]) \in Nat
  BY <1>1, LenProperties
<1>4. log'[c] = log[c] \o s
  BY <1>1
<1>5. \A i \in 1..Len(log[c]) : log'[c][i] = log[c][i]
  BY <1>2, <1>3, <1>4
<1>6. ASSUME NEW j \in 1..Len(s)
      PROVE  log'[c][Len(log[c]) + j] = s[j]
  <2>1. Len(log[c]) + j \in 1..Len(log[c]) + Len(s) /\ ~(Len(log[c]) + j <= Len(log[c]))
    BY <1>3
  <2>2. (Len(log[c]) + j) - Len(log[c]) = j
    BY <1>3
  <2> QED BY <1>2, <1>4, <2>1, <2>2
<1> QED BY <1>1, <1>2, <1>3, <1>4, <1>5, <1>6

LEMMA StartEffect ==
  ASSUME TypeOK, NEW c \in Chargers, NEW k \in Keys \cup {NoKey}, NEW n \in 1..MaxSends,
         SendStart(c, k, n)
  PROVE  /\ \A d \in Chargers : d # c => log'[d] = log[d] /\ charging'[d] = charging[d]
         /\ Len(log'[c]) = Len(log[c]) + n /\ Len(log[c]) \in Nat /\ n \in Nat /\ n >= 1
         /\ \A i \in 1..Len(log[c]) : log'[c][i] = log[c][i]
         /\ \A i \in Len(log[c]) + 1..Len(log[c]) + n :
              log'[c][i].type = "Start" /\ log'[c][i].id = lastId + (i - Len(log[c]))
         /\ charging[c] = NoId /\ charging'[c] = lastId + n /\ lastId' = lastId + n /\ lastId \in Nat
<1>1. /\ charging \in [Chargers -> Ids \cup {NoId}] /\ lastId \in Nat /\ n \in Nat /\ n >= 1
      /\ log' = [log EXCEPT ![c] = @ \o Starts(c, k, n)]
      /\ charging[c] = NoId /\ charging' = [charging EXCEPT ![c] = lastId + n]
      /\ lastId' = lastId + n
  BY SessionsAssumption DEF SendStart, TypeOK
<1>2. Starts(c, k, n) \in Seq(Event)
  BY StartsType DEF SendStart
<1>3. /\ Len(Starts(c, k, n)) = n
      /\ \A j \in 1..n : Starts(c, k, n)[j].type = "Start" /\ Starts(c, k, n)[j].id = lastId + j
  BY <1>1 DEF Starts
<1>4. \A i \in Len(log[c]) + 1..Len(log[c]) + n :
        log'[c][i].type = "Start" /\ log'[c][i].id = lastId + (i - Len(log[c]))
  <2> TAKE i \in Len(log[c]) + 1..Len(log[c]) + n
  <2>1. Len(log[c]) \in Nat
    BY <1>1, <1>2, Appended
  <2>2. i - Len(log[c]) \in 1..n /\ Len(log[c]) + (i - Len(log[c])) = i
    BY <1>1, <2>1
  <2>3. log'[c][Len(log[c]) + (i - Len(log[c]))] = Starts(c, k, n)[i - Len(log[c])]
    <3> DEFINE s == Starts(c, k, n)
    <3>1. s \in Seq(Event) /\ log' = [log EXCEPT ![c] = @ \o s] /\ Len(s) = n
      BY <1>1, <1>2, <1>3
    <3> HIDE DEF s
    <3>2. \A j \in 1..Len(s) : log'[c][Len(log[c]) + j] = s[j]
      BY <3>1, Appended
    <3> QED BY <2>2, <3>1, <3>2 DEF s
  <2>4. log'[c][i] = Starts(c, k, n)[i - Len(log[c])]
    BY <2>2, <2>3
  <2> QED BY <1>3, <2>2, <2>4
<1> QED BY <1>1, <1>2, <1>3, <1>4, Appended

LEMMA StopEffect ==
  ASSUME TypeOK, NEW c \in Chargers, NEW n \in 1..MaxSends, SendStop(c, n)
  PROVE  /\ \A d \in Chargers : d # c => log'[d] = log[d] /\ charging'[d] = charging[d]
         /\ Len(log'[c]) = Len(log[c]) + n /\ Len(log[c]) \in Nat /\ n \in Nat /\ n >= 1
         /\ \A i \in 1..Len(log[c]) : log'[c][i] = log[c][i]
         /\ \A i \in Len(log[c]) + 1..Len(log[c]) + n :
              log'[c][i].type = "Stop" /\ log'[c][i].id = charging[c]
         /\ charging[c] # NoId /\ charging'[c] = NoId /\ lastId' = lastId
<1>1. /\ charging \in [Chargers -> Ids \cup {NoId}] /\ n \in Nat /\ n >= 1
      /\ log' = [log EXCEPT ![c] = @ \o Stopped(c, n)]
      /\ charging[c] # NoId /\ charging' = [charging EXCEPT ![c] = NoId] /\ lastId' = lastId
  BY SessionsAssumption DEF SendStop, TypeOK
<1>2. Stopped(c, n) \in Seq(Event)
  BY <1>1, StoppedType
<1>3. /\ Len(Stopped(c, n)) = n
      /\ \A j \in 1..n : Stopped(c, n)[j].type = "Stop" /\ Stopped(c, n)[j].id = charging[c]
  BY <1>1 DEF Stopped
<1>4. \A i \in Len(log[c]) + 1..Len(log[c]) + n :
        log'[c][i].type = "Stop" /\ log'[c][i].id = charging[c]
  <2> TAKE i \in Len(log[c]) + 1..Len(log[c]) + n
  <2>1. Len(log[c]) \in Nat
    BY <1>1, <1>2, Appended
  <2>2. i - Len(log[c]) \in 1..n /\ Len(log[c]) + (i - Len(log[c])) = i
    BY <1>1, <2>1
  <2>3. log'[c][Len(log[c]) + (i - Len(log[c]))] = Stopped(c, n)[i - Len(log[c])]
    <3> DEFINE s == Stopped(c, n)
    <3>1. s \in Seq(Event) /\ log' = [log EXCEPT ![c] = @ \o s] /\ Len(s) = n
      BY <1>1, <1>2, <1>3
    <3> HIDE DEF s
    <3>2. \A j \in 1..Len(s) : log'[c][Len(log[c]) + j] = s[j]
      BY <3>1, Appended
    <3> QED BY <2>2, <3>1, <3>2 DEF s
  <2>4. log'[c][i] = Stopped(c, n)[i - Len(log[c])]
    BY <2>2, <2>3
  <2> QED BY <1>3, <2>2, <2>4
<1> QED BY <1>1, <1>2, <1>3, <1>4, Appended

LEMMA LogStart ==
  ASSUME TypeOK, TypeOK', LogInv, NEW c \in Chargers, NEW k \in Keys \cup {NoKey}, NEW n \in 1..MaxSends,
         SendStart(c, k, n)
  PROVE  LogInv'
<1> DEFINE L == Len(log[c])
<1>1. /\ \A d \in Chargers : d # c => log'[d] = log[d] /\ charging'[d] = charging[d]
      /\ Len(log'[c]) = L + n /\ L \in Nat /\ n \in Nat /\ n >= 1
      /\ \A i \in 1..L : log'[c][i] = log[c][i]
      /\ \A i \in L + 1..L + n : log'[c][i].type = "Start" /\ log'[c][i].id = lastId + (i - L)
      /\ charging[c] = NoId /\ charging'[c] = lastId + n /\ lastId' = lastId + n /\ lastId \in Nat
  BY StartEffect
<1>2. \A d \in Chargers : \A i \in 1..Len(log[d]) :
        i \in 1..Len(log'[d]) /\ log'[d][i] = log[d][i] /\ log[d][i].id <= lastId
        /\ log[d][i].id \in Nat \ {NoId}
  <2> TAKE d \in Chargers
  <2> TAKE i \in 1..Len(log[d])
  <2>1. log[d][i].id \in Nat \ {NoId} /\ log[d][i].id <= lastId
    BY EventType DEF LogInv, IdsGivenOut
  <2> QED BY <1>1, <2>1
<1>3. \A d \in Chargers : \A i \in 1..Len(log'[d]) :
        i \in 1..Len(log[d]) \/ (d = c /\ i \in L + 1..L + n)
  BY <1>1
<1>4. \A i \in L + 1..L + n : lastId + (i - L) > lastId /\ lastId + (i - L) <= lastId + n
  <2>1. L \in Nat /\ n \in Nat /\ lastId \in Nat
    BY <1>1
  <2> HIDE DEF L
  <2> QED BY <2>1
<1>5. \A d \in Chargers : \A i \in 1..Len(log'[d]) :
        \/ /\ i \in 1..Len(log[d]) /\ log'[d][i] = log[d][i]
           /\ log'[d][i].id <= lastId /\ log'[d][i].id \in Nat \ {NoId}
        \/ /\ d = c /\ i \in L + 1..L + n /\ log'[d][i].type = "Start"
           /\ log'[d][i].id = lastId + (i - L)
           /\ log'[d][i].id > lastId
  <2> TAKE d \in Chargers
  <2> TAKE i \in 1..Len(log'[d])
  <2>1. CASE i \in 1..Len(log[d])
    BY <1>2, <2>1
  <2>2. CASE d = c /\ i \in L + 1..L + n
    <3> HIDE DEF L
    <3>1. log'[c][i].type = "Start" /\ log'[c][i].id = lastId + (i - L)
      BY <1>1, <2>2
    <3> QED BY <1>4, <2>2, <3>1
  <2> QED BY <1>3, <2>1, <2>2
<1>6. L + n \in 1..Len(log'[c]) /\ L + n \in L + 1..L + n /\ (L + n) - L = n
  BY <1>1
<1> HIDE DEF L
<1>7. IdsGivenOut'
  <2> SUFFICES ASSUME NEW d \in Chargers, NEW i \in 1..Len(log'[d])
               PROVE  log'[d][i].id <= lastId + n
    BY <1>1 DEF IdsGivenOut
  <2>1. CASE log'[d][i].id <= lastId /\ log'[d][i].id \in Nat \ {NoId}
    BY <1>1, <2>1
  <2>2. CASE i \in L + 1..L + n /\ log'[d][i].id = lastId + (i - L)
    BY <1>1, <1>4, <2>2
  <2> QED BY <1>5, <2>1, <2>2
<1>8. StartsApart'
  <2> SUFFICES ASSUME NEW d \in Chargers, NEW e \in Chargers,
                      NEW i \in 1..Len(log'[d]), NEW j \in 1..Len(log'[e]),
                      log'[d][i].type = "Start", log'[e][j].type = "Start",
                      log'[d][i].id = log'[e][j].id
               PROVE  d = e /\ i = j
    BY DEF StartsApart, StartAt
  <2>1. CASE i \in 1..Len(log[d]) /\ log'[d][i] = log[d][i] /\ log'[d][i].id <= lastId
             /\ log'[d][i].id \in Nat
    <3>1. ~(log'[d][i].id > lastId)
      BY <1>1, <2>1
    <3>2. j \in 1..Len(log[e]) /\ log'[e][j] = log[e][j]
      BY <1>5, <3>1
    <3> QED BY <2>1, <3>2 DEF LogInv, StartsApart, StartAt
  <2>2. CASE d = c /\ i \in L + 1..L + n /\ log'[d][i].id = lastId + (i - L) /\ log'[d][i].id > lastId
    <3>1. e = c /\ j \in L + 1..L + n /\ log'[e][j].id = lastId + (j - L)
      <4>1. ~(log'[e][j].id <= lastId /\ log'[e][j].id \in Nat)
        <5> DEFINE x == log'[e][j].id
        <5>1. x > lastId /\ lastId \in Nat
          BY <1>1, <2>2
        <5> HIDE DEF x
        <5>2. ~(x <= lastId /\ x \in Nat)
          BY <5>1
        <5> QED BY <5>2 DEF x
      <4> QED BY <1>5, <4>1
    <3>2. lastId + (i - L) = lastId + (j - L)
      BY <2>2, <3>1
    <3>3. i = j
      BY <1>1, <2>2, <3>1, <3>2
    <3> QED BY <2>2, <3>1, <3>3
  <2> QED BY <1>5, <2>1, <2>2
<1>9. WorksUnderStarted'
  <2> SUFFICES ASSUME NEW d \in Chargers, charging'[d] # NoId
               PROVE  \E i \in 1..Len(log'[d]) :
                        log'[d][i].type = "Start" /\ log'[d][i].id = charging'[d]
    BY DEF WorksUnderStarted, StartAt
  <2>1. CASE d = c
    BY <1>1, <1>6, <2>1
  <2>2. CASE d # c
    BY <1>1, <2>2 DEF LogInv, WorksUnderStarted, StartAt
  <2> QED BY <2>1, <2>2
<1>10. StopsFollowStarts'
  <2> SUFFICES ASSUME NEW d \in Chargers, NEW i \in 1..Len(log'[d]), log'[d][i].type = "Stop"
               PROVE  \E j \in 1..Len(log'[d]) :
                        log'[d][j].type = "Start" /\ log'[d][j].id = log'[d][i].id
    BY DEF StopsFollowStarts, StartAt
  <2>1. i \in 1..Len(log[d]) /\ log'[d][i] = log[d][i]
    BY <1>5
  <2>2. PICK j \in 1..Len(log[d]) : log[d][j].type = "Start" /\ log[d][j].id = log[d][i].id
    BY <2>1 DEF LogInv, StopsFollowStarts, StartAt
  <2> QED BY <1>2, <2>1, <2>2
<1>11. StoppedIsOver'
  <2> SUFFICES ASSUME NEW d \in Chargers, NEW i \in 1..Len(log'[d]),
                      log'[d][i].type = "Stop", log'[d][i].id = charging'[d]
               PROVE  FALSE
    BY DEF StoppedIsOver, StopAt
  <2>1. i \in 1..Len(log[d]) /\ log'[d][i] = log[d][i] /\ log'[d][i].id <= lastId
        /\ log'[d][i].id \in Nat
    BY <1>5
  <2>2. CASE d = c
    <3>1. log'[d][i].id = lastId + n
      BY <1>1, <2>2
    <3> QED BY <1>1, <2>1, <3>1
  <2>3. CASE d # c
    BY <1>1, <2>1, <2>3 DEF LogInv, StoppedIsOver, StopAt
  <2> QED BY <2>2, <2>3
<1>12. StopsCounted'
  <2>1. ASSUME NEW d \in Chargers, NEW x \in Ids
        PROVE  StopsOf(d, x)' = StopsOf(d, x)
    <3>1. StopsOf(d, x)' \subseteq StopsOf(d, x)
      BY <1>5 DEF StopsOf, StopAt
    <3>2. StopsOf(d, x) \subseteq StopsOf(d, x)'
      BY <1>2 DEF StopsOf, StopAt
    <3> QED BY <3>1, <3>2
  <2> QED BY <2>1 DEF LogInv, StopsCounted
<1>13. StartsEnd'
  <2> SUFFICES ASSUME MaxSends = 1, NEW d \in Chargers, NEW i \in 1..Len(log'[d]),
                      log'[d][i].type = "Start"
               PROVE  \/ charging'[d] = log'[d][i].id
                      \/ \E j \in i + 1..Len(log'[d]) :
                           log'[d][j].type = "Stop" /\ log'[d][j].id = log'[d][i].id
    BY DEF StartsEnd, StopAt
  <2>1. CASE i \in 1..Len(log[d]) /\ log'[d][i] = log[d][i] /\ log'[d][i].id \in Nat \ {NoId}
    <3>1. \/ charging[d] = log[d][i].id
          \/ \E j \in i + 1..Len(log[d]) : log[d][j].type = "Stop" /\ log[d][j].id = log[d][i].id
      BY <2>1 DEF LogInv, StartsEnd, StopAt
    <3>2. CASE d # c
      BY <1>1, <2>1, <3>1, <3>2
    <3>3. CASE d = c
      <4>1. PICK j \in i + 1..Len(log[d]) : log[d][j].type = "Stop" /\ log[d][j].id = log[d][i].id
        BY <1>1, <2>1, <3>1, <3>3
      <4>2. j \in 1..Len(log[d]) /\ j \in i + 1..Len(log'[d])
        <5>1. Len(log[d]) \in Nat /\ Len(log'[d]) = Len(log[d]) + n
          BY <1>1, <3>3 DEF L
        <5> QED BY <1>1, <2>1, <4>1, <5>1
      <4>3. log'[d][j] = log[d][j]
        BY <1>2, <4>2
      <4> QED BY <2>1, <4>1, <4>2, <4>3
    <3> QED BY <3>2, <3>3
  <2>2. CASE d = c /\ i \in L + 1..L + n /\ log'[d][i].id = lastId + (i - L)
    <3>1. n = 1
      BY <1>1
    <3>2. i - L = n
      BY <1>1, <2>2, <3>1
    <3> QED BY <1>1, <2>2, <3>2
  <2> QED BY <1>5, <2>1, <2>2
<1> QED BY <1>7, <1>8, <1>9, <1>10, <1>11, <1>12, <1>13 DEF LogInv

LEMMA LogStop ==
  ASSUME TypeOK, TypeOK', LogInv, NEW c \in Chargers, NEW n \in 1..MaxSends, SendStop(c, n)
  PROVE  LogInv'
<1> DEFINE L == Len(log[c])
<1>1. /\ \A d \in Chargers : d # c => log'[d] = log[d] /\ charging'[d] = charging[d]
      /\ Len(log'[c]) = L + n /\ L \in Nat /\ n \in Nat /\ n >= 1
      /\ \A i \in 1..L : log'[c][i] = log[c][i]
      /\ \A i \in L + 1..L + n : log'[c][i].type = "Stop" /\ log'[c][i].id = charging[c]
      /\ charging[c] # NoId /\ charging'[c] = NoId /\ lastId' = lastId
  BY StopEffect
<1>2. \A d \in Chargers : \A i \in 1..Len(log[d]) :
        i \in 1..Len(log'[d]) /\ log'[d][i] = log[d][i] /\ log[d][i].id \in Nat \ {NoId}
  <2> TAKE d \in Chargers
  <2> TAKE i \in 1..Len(log[d])
  <2>1. log[d][i].id \in Nat \ {NoId}
    BY EventType
  <2> QED BY <1>1, <2>1
<1>3. \A d \in Chargers : \A i \in 1..Len(log'[d]) :
        \/ i \in 1..Len(log[d]) /\ log'[d][i] = log[d][i] /\ log'[d][i].id \in Nat \ {NoId}
        \/ /\ d = c /\ i \in L + 1..L + n
           /\ log'[d][i].type = "Stop" /\ log'[d][i].id = charging[c]
  <2> TAKE d \in Chargers
  <2> TAKE i \in 1..Len(log'[d])
  <2>1. CASE i \in 1..Len(log[d])
    BY <1>2, <2>1
  <2>2. CASE d = c /\ i \in L + 1..L + n
    <3> HIDE DEF L
    <3> QED BY <1>1, <2>2
  <2>3. i \in 1..Len(log[d]) \/ (d = c /\ i \in L + 1..L + n)
    BY <1>1
  <2> QED BY <2>1, <2>2, <2>3
<1>4. L + 1 \in 1..Len(log'[c]) /\ L + 1 \in L + 1..L + n
  BY <1>1
<1>5. PICK s \in 1..Len(log[c]) : log[c][s].type = "Start" /\ log[c][s].id = charging[c]
  BY <1>1 DEF LogInv, WorksUnderStarted, StartAt
<1> HIDE DEF L
<1>6. IdsGivenOut'
  <2> SUFFICES ASSUME NEW d \in Chargers, NEW i \in 1..Len(log'[d])
               PROVE  log'[d][i].id <= lastId
    BY <1>1 DEF IdsGivenOut
  <2>1. \A e \in Chargers : \A j \in 1..Len(log[e]) : log[e][j].id <= lastId
    BY DEF LogInv, IdsGivenOut
  <2>2. CASE i \in 1..Len(log[d]) /\ log'[d][i] = log[d][i]
    BY <2>1, <2>2
  <2>3. CASE log'[d][i].id = charging[c]
    BY <1>5, <2>1, <2>3
  <2> QED BY <1>3, <2>2, <2>3
<1>7. StartsApart'
  <2> SUFFICES ASSUME NEW d \in Chargers, NEW e \in Chargers,
                      NEW i \in 1..Len(log'[d]), NEW j \in 1..Len(log'[e]),
                      log'[d][i].type = "Start", log'[e][j].type = "Start",
                      log'[d][i].id = log'[e][j].id
               PROVE  d = e /\ i = j
    BY DEF StartsApart, StartAt
  <2>1. i \in 1..Len(log[d]) /\ log'[d][i] = log[d][i]
    BY <1>3
  <2>2. j \in 1..Len(log[e]) /\ log'[e][j] = log[e][j]
    BY <1>3
  <2> QED BY <2>1, <2>2 DEF LogInv, StartsApart, StartAt
<1>8. WorksUnderStarted'
  <2> SUFFICES ASSUME NEW d \in Chargers, charging'[d] # NoId
               PROVE  \E i \in 1..Len(log'[d]) :
                        log'[d][i].type = "Start" /\ log'[d][i].id = charging'[d]
    BY DEF WorksUnderStarted, StartAt
  <2> QED BY <1>1 DEF LogInv, WorksUnderStarted, StartAt
<1>9. StopsFollowStarts'
  <2> SUFFICES ASSUME NEW d \in Chargers, NEW i \in 1..Len(log'[d]), log'[d][i].type = "Stop"
               PROVE  \E j \in 1..Len(log'[d]) :
                        log'[d][j].type = "Start" /\ log'[d][j].id = log'[d][i].id
    BY DEF StopsFollowStarts, StartAt
  <2>1. CASE i \in 1..Len(log[d]) /\ log'[d][i] = log[d][i]
    <3> PICK j \in 1..Len(log[d]) : log[d][j].type = "Start" /\ log[d][j].id = log[d][i].id
      BY <2>1 DEF LogInv, StopsFollowStarts, StartAt
    <3> QED BY <1>2, <2>1
  <2>2. CASE d = c /\ log'[d][i].id = charging[c]
    BY <1>2, <1>5, <2>2
  <2> QED BY <1>3, <2>1, <2>2
<1>10. StoppedIsOver'
  <2> SUFFICES ASSUME NEW d \in Chargers, NEW i \in 1..Len(log'[d]),
                      log'[d][i].type = "Stop", log'[d][i].id = charging'[d]
               PROVE  FALSE
    BY DEF StoppedIsOver, StopAt
  <2>1. CASE d = c
    BY <1>1, <1>3, <2>1
  <2>2. CASE d # c
    <3>1. i \in 1..Len(log[d]) /\ log'[d][i] = log[d][i]
      BY <1>3, <2>2
    <3> QED BY <1>1, <2>2, <3>1 DEF LogInv, StoppedIsOver, StopAt
  <2> QED BY <2>1, <2>2
<1>11. StopsCounted'
  <2> SUFFICES ASSUME NEW d \in Chargers, NEW x \in Ids
               PROVE  Cardinality(StopsOf(d, x)') <= MaxSends
    BY DEF StopsCounted
  <2>1. CASE d = c /\ x = charging[c]
    <3>1. \A i \in 1..Len(log[c]) : ~(log[c][i].type = "Stop" /\ log[c][i].id = charging[c])
      BY DEF LogInv, StoppedIsOver, StopAt
    <3>2. StopsOf(d, x)' = {i \in 1..Len(log'[c]) : log'[c][i].type = "Stop" /\ log'[c][i].id = charging[c]}
      BY <2>1 DEF StopsOf, StopAt
    <3>3. \A i \in StopsOf(d, x)' : i \in L + 1..L + n
      BY <1>3, <3>1, <3>2
    <3>4. \A i \in L + 1..L + n : i \in 1..Len(log'[c])
      BY <1>1
    <3>5. StopsOf(d, x)' = L + 1..L + n
      BY <1>1, <3>2, <3>3, <3>4
    <3>6. Cardinality(L + 1..L + n) = n
      <4>1. L + 1 \in Int /\ L + n \in Int /\ L + 1 <= L + n /\ (L + n) - (L + 1) + 1 = n
        BY <1>1
      <4> QED BY <4>1, FS_Interval
    <3>7. n <= MaxSends
      BY SessionsAssumption
    <3> QED BY <3>5, <3>6, <3>7
  <2>2. CASE d # c \/ x # charging[c]
    <3>1. StopsOf(d, x)' \subseteq StopsOf(d, x)
      BY <1>3, <2>2 DEF StopsOf, StopAt
    <3>2. StopsOf(d, x) \subseteq StopsOf(d, x)'
      BY <1>2 DEF StopsOf, StopAt
    <3>3. StopsOf(d, x)' = StopsOf(d, x)
      BY <3>1, <3>2
    <3> QED BY <3>3 DEF LogInv, StopsCounted
  <2> QED BY <2>1, <2>2
<1>12. StartsEnd'
  <2> SUFFICES ASSUME MaxSends = 1, NEW d \in Chargers, NEW i \in 1..Len(log'[d]),
                      log'[d][i].type = "Start"
               PROVE  \/ charging'[d] = log'[d][i].id
                      \/ \E j \in i + 1..Len(log'[d]) :
                           log'[d][j].type = "Stop" /\ log'[d][j].id = log'[d][i].id
    BY DEF StartsEnd, StopAt
  <2>1. i \in 1..Len(log[d]) /\ log'[d][i] = log[d][i]
    BY <1>3
  <2>2. \/ charging[d] = log[d][i].id
        \/ \E j \in i + 1..Len(log[d]) : log[d][j].type = "Stop" /\ log[d][j].id = log[d][i].id
    BY <2>1 DEF LogInv, StartsEnd, StopAt
  <2>3. Len(log[d]) \in Nat /\ Len(log'[d]) \in Nat /\ Len(log[d]) <= Len(log'[d])
    <3>1. log[d] \in Seq(Event) /\ log[c] \in Seq(Event)
      BY DEF TypeOK
    <3>2. Len(log[d]) \in Nat
      BY <3>1, LenProperties
    <3> QED BY <1>1, <3>2 DEF L
  <2>4. ASSUME NEW j \in i + 1..Len(log[d]), log[d][j].type = "Stop", log[d][j].id = log[d][i].id
        PROVE  j \in i + 1..Len(log'[d]) /\ log'[d][j].type = "Stop" /\ log'[d][j].id = log'[d][i].id
    <3>1. j \in 1..Len(log[d]) /\ j \in i + 1..Len(log'[d])
      BY <2>3
    <3> QED BY <1>2, <2>1, <2>4, <3>1
  <2>5. CASE d = c /\ charging[d] = log[d][i].id
    <3>1. L + 1 \in i + 1..Len(log'[d])
      BY <1>1, <1>4, <2>1, <2>5 DEF L
    <3>2. log'[d][L + 1].type = "Stop" /\ log'[d][L + 1].id = log'[d][i].id
      BY <1>1, <1>4, <2>1, <2>5
    <3> QED BY <3>1, <3>2
  <2>6. CASE d # c /\ charging[d] = log[d][i].id
    BY <1>1, <2>1, <2>6
  <2> QED BY <2>2, <2>4, <2>5, <2>6
<1> QED BY <1>6, <1>7, <1>8, <1>9, <1>10, <1>11, <1>12 DEF LogInv

LEMMA LogElsewhere ==
  ASSUME LogInv, UNCHANGED <<log, charging, lastId>>
  PROVE  LogInv'
<1>1. \A d, x : StopsOf(d, x)' = StopsOf(d, x)
  BY DEF StopsOf, StopAt
<1>2. StopsCounted'
  BY <1>1 DEF LogInv, StopsCounted
<1> QED BY <1>2 DEF LogInv, IdsGivenOut, StartsApart, WorksUnderStarted, StopsFollowStarts, StoppedIsOver,
                StartsEnd, StartAt, StopAt

LEMMA LogDevice ==
  ASSUME TypeOK, TypeOK', LogInv, NEW c \in Chargers, Device(c)
  PROVE  LogInv'
<1>1. CASE (\E k \in Keys : RefuseStart(c, k)) \/ DrawEnergy(c)
  BY <1>1, LogElsewhere DEF RefuseStart, DrawEnergy
<1>2. CASE \E n \in 1..MaxSends : SendStop(c, n)
  BY <1>2, LogStop
<1>3. CASE \E n \in 1..MaxSends : LocalStart(c, n) \/ \E k \in Keys : RemoteStart(c, k, n)
  <2> PICK n \in 1..MaxSends, k \in Keys \cup {NoKey} : SendStart(c, k, n)
    BY <1>3 DEF LocalStart, RemoteStart
  <2> QED BY LogStart
<1> QED BY <1>1, <1>2, <1>3 DEF Device

LEMMA LogInit == Init => LogInv
<1> SUFFICES ASSUME Init PROVE LogInv
  OBVIOUS
<1>1. \A c \in Chargers : Len(log[c]) = 0 /\ charging[c] = NoId
  BY DEF Init
<1>2. \A c \in Chargers, x \in Ids : StopsOf(c, x) = {}
  BY <1>1 DEF StopsOf
<1>3. StopsCounted
  <2>1. Cardinality({}) = 0 /\ MaxSends \in Nat
    BY FS_EmptySet, SessionsAssumption
  <2> SUFFICES ASSUME NEW c \in Chargers, NEW x \in Ids
               PROVE  Cardinality(StopsOf(c, x)) <= MaxSends
    BY DEF StopsCounted
  <2>2. StopsOf(c, x) = {}
    BY <1>2
  <2>3. 0 <= MaxSends
    BY <2>1
  <2> QED BY <2>1, <2>2, <2>3
<1> QED BY <1>1, <1>3
    DEF LogInv, IdsGivenOut, StartsApart, WorksUnderStarted, StopsFollowStarts, StoppedIsOver, StartsEnd
-----------------------------------------------------------------------------
(* What the handlers make of the events.  The second invariant: a handler  *)
(* works on a stop of its own session, a delivery of a stop is used for    *)
(* one invoice, and while no consumer crashed the events behind a handler  *)
(* are not handled again.                                                  *)
Stopping == {"transition", "settle", "capture"}

HandlesOwnStop ==
  \A c \in Chargers : handler[c].pc \in Stopping =>
    StopAt(c, pos[c] + 1, tx[handler[c].key].ocpp)

Used(k) ==
  LET c == ChargerOf[k] IN
    {i \in Stops(k) :
       i <= pos[c] \/ (handler[c].pc = "capture" /\ handler[c].key = k /\ i = pos[c] + 1)}

InvoicesCounted ==
  \A k \in Keys :
    Len(invoices[k]) <= Cardinality(Stops(k)) * crashes + Cardinality(Used(k))

BoundBehind ==
  crashes = 0 =>
    \A k \in Keys : tx[k].ocpp # NoId =>
      \E i \in 1..pos[ChargerOf[k]] : StartAt(ChargerOf[k], i, tx[k].ocpp)

OneSession == crashes = 0 => OneSessionPerOcppId

StopAwaited ==
  MaxSends = 1 /\ crashes = 0 /\ errors = 0 =>
    \A k \in Keys : tx[k].state \in {"CHARGING", "STOPPING"} =>
      LET c == ChargerOf[k] IN
        \/ charging[c] = tx[k].ocpp
        \/ \E i \in pos[c] + 1..Len(log[c]) : StopAt(c, i, tx[k].ocpp)

ReleasedBehind ==
  crashes = 0 =>
    \A k \in Keys : Released(k) =>
      \E i \in 1..pos[ChargerOf[k]] : StopAt(ChargerOf[k], i, tx[k].ocpp)

HoldsCover == MaxSends = 1 /\ crashes = 0 => HoldsCoverOpenSessions

Delivered ==
  /\ LogInv /\ HandlesOwnStop /\ InvoicesCounted
  /\ BoundBehind /\ OneSession /\ StopAwaited
  /\ ReleasedBehind /\ HoldsCover

LEMMA Times ==
  ASSUME NEW a \in Nat, NEW b \in Nat, NEW n \in Nat, a <= b
  PROVE  a * n \in Nat /\ a * n <= b * n /\ a * (n + 1) = a * n + a
OBVIOUS

(* A stop of a session's id is in the partition of its charger only.       *)
LEMMA OwnStop ==
  ASSUME IInv, LogInv, NEW c \in Chargers, NEW k \in Keys, NEW i \in 1..Len(log[c]),
         StopAt(c, i, tx[k].ocpp)
  PROVE  tx[k].ocpp # NoId /\ ChargerOf[k] = c /\ i \in Stops(k)
<1>1. tx[k].ocpp # NoId
  BY EventType DEF StopAt, IInv, TypeInv
<1>2. ChargerOf[k] \in Chargers
  BY SessionsAssumption
<1>3. PICK m \in 1..Len(log[ChargerOf[k]]) : StartAt(ChargerOf[k], m, tx[k].ocpp)
  BY <1>1 DEF IInv, BoundToOwnCharger, StartAt
<1>4. PICK j \in 1..Len(log[c]) : StartAt(c, j, tx[k].ocpp)
  BY DEF LogInv, StopsFollowStarts, StopAt
<1>5. ChargerOf[k] = c
  BY <1>2, <1>3, <1>4 DEF LogInv, StartsApart, StartAt
<1> QED BY <1>1, <1>5 DEF Stops, StopAt

LEMMA StopsFinite ==
  ASSUME TypeOK, NEW k \in Keys
  PROVE  /\ IsFiniteSet(Stops(k)) /\ IsFiniteSet(Used(k))
         /\ Cardinality(Stops(k)) \in Nat /\ Cardinality(Used(k)) \in Nat
         /\ Cardinality(Used(k)) <= Cardinality(Stops(k))
<1>1. ChargerOf[k] \in Chargers
  BY SessionsAssumption
<1>2. log[ChargerOf[k]] \in Seq(Event)
  BY <1>1 DEF TypeOK
<1>3. Len(log[ChargerOf[k]]) \in Nat
  BY <1>2, LenProperties
<1>4. IsFiniteSet(1..Len(log[ChargerOf[k]]))
  BY <1>3, FS_Interval
<1>5. Stops(k) \subseteq 1..Len(log[ChargerOf[k]])
  BY DEF Stops
<1>6. IsFiniteSet(Stops(k))
  BY <1>4, <1>5, FS_Subset
<1>7. Used(k) \subseteq Stops(k)
  BY DEF Used
<1>8. IsFiniteSet(Used(k)) /\ Cardinality(Used(k)) <= Cardinality(Stops(k))
  BY <1>6, <1>7, FS_Subset
<1> QED BY <1>6, <1>8, FS_CardinalityType

(* No step takes an event out of a partition.                              *)
LogKept ==
  \A d \in Chargers : \A i \in 1..Len(log[d]) :
    i \in 1..Len(log'[d]) /\ log'[d][i] = log[d][i]

LEMMA LogStays ==
  ASSUME IInv, Next
  PROVE  LogKept
<1>0. TypeOK
  BY DEF IInv, TypeInv
<1>1. CASE UNCHANGED log
  BY <1>1 DEF LogKept
<1>2. ASSUME NEW c \in Chargers, NEW s \in Seq(Event), log' = [log EXCEPT ![c] = @ \o s]
      PROVE  LogKept
  <2>1. /\ \A d \in Chargers : Len(log[d]) <= Len(log'[d])
        /\ \A d \in Chargers : \A i \in 1..Len(log[d]) : log'[d][i] = log[d][i]
        /\ log' \in [Chargers -> Seq(Event)]
    BY <1>0, <1>2, LogGrows
  <2>2. \A d \in Chargers : Len(log[d]) \in Nat /\ Len(log'[d]) \in Nat
    BY <1>0, <2>1, LenProperties DEF TypeOK
  <2> QED BY <2>1, <2>2 DEF LogKept
<1>3. CASE \E c \in Chargers : Device(c)
  BY <1>0, <1>1, <1>2, <1>3, DeviceWrites
<1>4. CASE ~(\E c \in Chargers : Device(c)) /\ Next
  <2>1. UNCHANGED log
    BY <1>4 DEF Next, StartCall, StartSession, HoldFunds, CreateRow, PublishStart, AuthorizeRow, AbortCall,
                StopSession, Handle, FindStarted, BindStarted, FindStopped, CompleteRow, Settle,
                CaptureFunds, FailEvent, CommitOffset, CrashConsumer, ApplyMeter, device
  <2> QED BY <1>1, <2>1
<1> QED BY <1>3, <1>4

LEMMA StopsStay ==
  ASSUME IInv, LogKept, NEW k \in Keys, tx'[k].ocpp = tx[k].ocpp
  PROVE  Stops(k) \subseteq Stops(k)'
BY SessionsAssumption DEF Stops, LogKept
(* A handler at work, or failing, leaves the others alone and moves on.    *)
LEMMA HandleEffect ==
  ASSUME IInv, NEW c \in Chargers, Handle(c) \/ FailEvent(c)
  PROVE  /\ pos[c] \in Nat /\ pos[c] + 1 \in 1..Len(log[c])
         /\ UNCHANGED <<call, device, crashes>>
         /\ \A d \in Chargers : d # c => handler'[d] = handler[d] /\ pos'[d] = pos[d]
         /\ \/ pos'[c] = pos[c] + 1 /\ handler'[c].pc = "poll"
            \/ /\ pos'[c] = pos[c] /\ handler[c].pc # "capture"
               /\ ~BindStarted(c) /\ ~CaptureFunds(c) /\ ~FailEvent(c)
               /\ handler'[c].pc # "poll"
<1>0. /\ handler \in [Chargers -> HandlerState] /\ pos \in [Chargers -> Nat]
      /\ log[c] \in Seq(Event) /\ Poll.pc = "poll"
  BY DEF IInv, TypeInv, TypeOK, Poll
<1>1. Len(log[c]) \in Nat /\ pos[c] \in Nat
  BY <1>0, LenProperties
<1>2. pos[c] < Len(log[c])
  BY DEF Handle, FindStarted, BindStarted, FindStopped, CompleteRow, Settle, CaptureFunds, FailEvent, Pending,
         Running, IInv, TypeInv, HandlersHaveEvents
<1>3. pos[c] + 1 \in 1..Len(log[c])
  BY <1>1, <1>2
<1>4. UNCHANGED <<call, device, crashes>>
  BY DEF Handle, FindStarted, BindStarted, FindStopped, CompleteRow, Settle, CaptureFunds, FailEvent, faults
<1>5. ASSUME Done(c)
      PROVE  /\ \A d \in Chargers : d # c => handler'[d] = handler[d] /\ pos'[d] = pos[d]
             /\ pos'[c] = pos[c] + 1 /\ handler'[c].pc = "poll"
  BY <1>0, <1>5 DEF Done
<1>6. ASSUME NEW pc, NEW k, NEW total, Enter(c, pc, k, total)
      PROVE  /\ \A d \in Chargers : d # c => handler'[d] = handler[d] /\ pos'[d] = pos[d]
             /\ pos'[c] = pos[c] /\ handler'[c].pc = pc
  BY <1>0, <1>6 DEF Enter
<1>7. CASE BindStarted(c) \/ CaptureFunds(c) \/ FailEvent(c)
  BY <1>1, <1>3, <1>4, <1>5, <1>7 DEF BindStarted, CaptureFunds, FailEvent
<1>8. ASSUME NEW pc \in {"bind", "transition", "settle", "capture"}, NEW k, NEW total,
             Enter(c, pc, k, total), handler[c].pc # "capture"
      PROVE  ~BindStarted(c) /\ ~CaptureFunds(c) /\ ~FailEvent(c)
  <2>1. pos'[c] = pos[c]
    BY <1>6, <1>8
  <2>2. ~Done(c)
    BY <1>1, <1>5, <2>1
  <2> QED BY <2>2 DEF BindStarted, CaptureFunds, FailEvent
<1>9. CASE FindStarted(c)
  <2>1. handler[c].pc = "poll"
    BY <1>9 DEF FindStarted, Pending, Running
  <2>2. Done(c) \/ \E k \in Keys : Enter(c, "bind", k, 0)
    BY <1>9 DEF FindStarted, Bindable, InState, Newest
  <2> QED BY <1>1, <1>3, <1>4, <1>5, <1>6, <1>8, <2>1, <2>2
<1>10. CASE FindStopped(c)
  <2>1. handler[c].pc = "poll"
    BY <1>10 DEF FindStopped, Pending, Running
  <2>2. Done(c) \/ \E k \in Keys : Enter(c, "transition", k, 0)
    BY <1>10 DEF FindStopped, BoundTo
  <2> QED BY <1>1, <1>3, <1>4, <1>5, <1>6, <1>8, <2>1, <2>2
<1>11. CASE CompleteRow(c)
  <2>1. handler[c].pc = "transition" /\ Enter(c, "settle", handler[c].key, 0)
    BY <1>11 DEF CompleteRow, Running
  <2> QED BY <1>1, <1>3, <1>4, <1>6, <1>8, <2>1
<1>12. CASE Settle(c)
  <2>1. handler[c].pc = "settle" /\ \E total : Enter(c, "capture", handler[c].key, total)
    BY <1>12 DEF Settle, Running
  <2> QED BY <1>1, <1>3, <1>4, <1>6, <1>8, <2>1
<1> QED BY <1>7, <1>9, <1>10, <1>11, <1>12 DEF Handle

(* The steps of requests, of the charger, of the meter consumer and of the *)
(* commit leave handlers and invoices as they are.                         *)
Aside ==
  \/ \E p \in Calls : StartCall(p)
  \/ \E k \in Keys : StopSession(k)
  \/ \E c \in Chargers : Device(c) \/ CommitOffset(c) \/ \E k \in Keys, r \in Readings : ApplyMeter(c, k, r)

LEMMA AsideEffect ==
  ASSUME IInv, Aside
  PROVE  /\ UNCHANGED <<handler, pos, crashes, errors, invoices>>
         /\ \A k \in Keys : tx'[k].ocpp = tx[k].ocpp
<1>0. TypeOK /\ tx \in [Keys -> TxRow]
  BY DEF IInv, TypeInv, TypeOK
<1>1. ASSUME NEW p \in Calls, StartCall(p)
      PROVE  \A k \in Keys : tx'[k].ocpp = tx[k].ocpp
  <2> PICK j \in Keys : j = call[p].key \/ UNCHANGED tx
    BY <1>1 DEF StartCall, StartSession, HoldFunds, CreateRow, PublishStart, AuthorizeRow, AbortCall, At, IInv, TypeInv,
                CallsHaveKeys
  <2>1. CASE CreateRow(p) /\ j = call[p].key
    <3>1. tx[j].ocpp = NoId
      BY <2>1 DEF CreateRow, KeyIsFree, IInv, OcppIdMarksStarted, Started
    <3>2. PendingRow.ocpp = NoId
      BY DEF PendingRow
    <3> QED BY <1>0, <2>1, <3>1, <3>2 DEF CreateRow
  <2>2. CASE AuthorizeRow(p) /\ j = call[p].key
    BY <1>0, <2>2, TransitionType DEF AuthorizeRow, Stage
  <2>3. CASE UNCHANGED tx
    BY <2>3
  <2> QED BY <1>1, <2>1, <2>2, <2>3 DEF StartCall, StartSession, HoldFunds, PublishStart, AbortCall
<1>2. ASSUME NEW k \in Keys, StopSession(k)
      PROVE  \A j \in Keys : tx'[j].ocpp = tx[j].ocpp
  BY <1>0, <1>2, TransitionType DEF StopSession, Stage
<1>3. ASSUME NEW c \in Chargers, NEW k \in Keys, NEW r \in Readings, ApplyMeter(c, k, r)
      PROVE  \A j \in Keys : tx'[j].ocpp = tx[j].ocpp
  BY <1>0, <1>3 DEF ApplyMeter, TxRow
<1>4. ASSUME NEW c \in Chargers, Device(c) \/ CommitOffset(c)
      PROVE  UNCHANGED tx
  BY <1>0, <1>4, DeviceWrites DEF CommitOffset
<1>5. \A k \in Keys : tx'[k].ocpp = tx[k].ocpp
  BY <1>1, <1>2, <1>3, <1>4 DEF Aside
<1>6. ASSUME NEW c \in Chargers, Device(c)
      PROVE  UNCHANGED <<handler, pos, crashes, errors, invoices>>
  BY <1>0, <1>6, DeviceWrites DEF consumer, faults
<1>7. UNCHANGED <<handler, pos, crashes, errors, invoices>>
  BY <1>6 DEF Aside, StartCall, StartSession, HoldFunds, CreateRow, PublishStart, AuthorizeRow, AbortCall, StopSession,
              CommitOffset, ApplyMeter, consumer, faults
<1> QED BY <1>5, <1>7

LEMMA OwnStopStep ==
  ASSUME IInv, LogInv, HandlesOwnStop, Next
  PROVE  HandlesOwnStop'
<1>0. LogKept /\ \A k \in Keys : tx[k].ocpp # NoId => tx'[k].ocpp = tx[k].ocpp
  BY LogStays, IdsStay DEF IdsKept
<1>1. ASSUME NEW d \in Chargers, handler[d].pc \in Stopping
      PROVE  LET k == handler[d].key IN
               /\ k \in Keys /\ tx'[k].ocpp = tx[k].ocpp
               /\ log'[d][pos[d] + 1].type = "Stop" /\ log'[d][pos[d] + 1].id = tx[k].ocpp
  <2>1. handler[d].key \in Keys /\ pos[d] < Len(log[d]) /\ pos[d] \in Nat /\ log[d] \in Seq(Event)
    BY <1>1 DEF IInv, TypeInv, TypeOK, HandlersHaveEvents, Stopping
  <2>2. pos[d] + 1 \in 1..Len(log[d])
    BY <2>1, LenProperties
  <2>3. StopAt(d, pos[d] + 1, tx[handler[d].key].ocpp)
    BY <1>1 DEF HandlesOwnStop
  <2>4. tx[handler[d].key].ocpp # NoId
    BY <2>1, <2>2, <2>3, OwnStop
  <2> QED BY <1>0, <2>1, <2>2, <2>3, <2>4 DEF LogKept, StopAt
<1>2. ASSUME NEW d \in Chargers, handler'[d] = handler[d], pos'[d] = pos[d], handler'[d].pc \in Stopping
      PROVE  StopAt(d, pos[d] + 1, tx[handler[d].key].ocpp)'
  BY <1>1, <1>2 DEF StopAt
<1>3. CASE Aside
  BY <1>2, <1>3, AsideEffect DEF HandlesOwnStop
<1>4. ASSUME NEW c \in Chargers, Handle(c) \/ FailEvent(c)
      PROVE  HandlesOwnStop'
  <2>1. /\ \A d \in Chargers : d # c => handler'[d] = handler[d] /\ pos'[d] = pos[d]
        /\ handler'[c].pc # "poll" =>
             /\ pos'[c] = pos[c] /\ ~BindStarted(c) /\ ~CaptureFunds(c) /\ ~FailEvent(c)
        /\ log' = log /\ pos[c] + 1 \in 1..Len(log[c])
    BY <1>4, HandleEffect DEF device
  <2>2. ASSUME handler'[c].pc \in Stopping
        PROVE  log[c][pos[c] + 1].type = "Stop" /\ tx'[handler'[c].key].ocpp = log[c][pos[c] + 1].id
    <3>0. handler \in [Chargers -> HandlerState] /\ tx \in [Keys -> TxRow] /\ Poll.pc = "poll"
      BY DEF IInv, TypeInv, TypeOK, Poll
    <3>1. pos'[c] = pos[c] /\ ~BindStarted(c) /\ ~CaptureFunds(c) /\ ~FailEvent(c)
      BY <2>1, <2>2 DEF Stopping
    <3>2. CASE FindStarted(c)
      <4>1. handler'[c].pc \in {"poll", "bind"}
        BY <3>0, <3>2 DEF FindStarted, Done, Enter
      <4> QED BY <2>2, <4>1 DEF Stopping
    <3>3. CASE FindStopped(c)
      <4>1. log[c][pos[c] + 1].type = "Stop"
        BY <3>3 DEF FindStopped, Pending
      <4>2. PICK k \in BoundTo(log[c][pos[c] + 1].id) : Enter(c, "transition", k, 0)
        BY <2>2, <3>0, <3>3 DEF FindStopped, Done, Stopping
      <4>3. k \in Keys /\ tx[k].ocpp = log[c][pos[c] + 1].id /\ handler'[c].key = k
        BY <3>0, <4>2 DEF BoundTo, Enter
      <4>4. tx[k].ocpp # NoId
        BY <2>1, <4>3, EventType DEF IInv, TypeInv
      <4> QED BY <1>0, <4>1, <4>3, <4>4
    <3>4. CASE CompleteRow(c) \/ Settle(c)
      <4>1. handler[c].pc \in Stopping /\ handler'[c].key = handler[c].key
        BY <3>0, <3>4 DEF CompleteRow, Settle, Running, Enter, Stopping
      <4> QED BY <1>1, <2>1, <4>1
    <3> QED BY <1>4, <3>1, <3>2, <3>3, <3>4 DEF Handle
  <2>3. ASSUME NEW d \in Chargers, handler'[d].pc \in Stopping
        PROVE  StopAt(d, pos[d] + 1, tx[handler[d].key].ocpp)'
    <3>1. CASE d # c
      BY <1>2, <2>1, <2>3, <3>1
    <3>2. CASE d = c
      <4>1. pos'[c] = pos[c]
        BY <2>1, <2>3, <3>2 DEF Stopping
      <4> QED BY <2>1, <2>2, <2>3, <3>2, <4>1 DEF StopAt
    <3> QED BY <3>1, <3>2
  <2> QED BY <2>3 DEF HandlesOwnStop
<1>5. ASSUME NEW c \in Chargers, CrashConsumer(c)
      PROVE  HandlesOwnStop'
  <2>1. /\ \A d \in Chargers : d # c => handler'[d] = handler[d] /\ pos'[d] = pos[d]
        /\ handler'[c].pc = "poll"
    BY <1>5 DEF CrashConsumer, IInv, TypeInv, TypeOK, Poll
  <2>2. ASSUME NEW d \in Chargers, handler'[d].pc \in Stopping
        PROVE  StopAt(d, pos[d] + 1, tx[handler[d].key].ocpp)'
    BY <1>2, <2>1, <2>2 DEF Stopping
  <2> QED BY <2>2 DEF HandlesOwnStop
<1> QED BY <1>3, <1>4, <1>5 DEF Next, Aside

LEMMA StopsFiniteThen ==
  ASSUME NEW k \in Keys
  PROVE  TypeOK' =>
           /\ IsFiniteSet(Stops(k)') /\ IsFiniteSet(Used(k)')
           /\ Cardinality(Stops(k)') \in Nat /\ Cardinality(Used(k)') \in Nat
<1> DEFINE Finite == /\ IsFiniteSet(Stops(k)) /\ IsFiniteSet(Used(k))
                     /\ Cardinality(Stops(k)) \in Nat /\ Cardinality(Used(k)) \in Nat
<1>1. TypeOK => Finite
  BY StopsFinite
<1> HIDE DEF Finite
<1>2. TypeOK' => Finite'
  BY <1>1, PTL
<1> QED BY <1>2 DEF Finite

(* A step that neither settles nor crashes.                                *)
LEMMA CountedStill ==
  ASSUME IInv, TypeOK', InvoicesCounted, NEW k \in Keys, LogKept,
         UNCHANGED <<crashes>>, invoices'[k] = invoices[k],
         tx'[k].ocpp = tx[k].ocpp \/ invoices[k] = <<>>,
         pos[ChargerOf[k]] <= pos'[ChargerOf[k]],
         handler[ChargerOf[k]].pc = "capture" =>
           \/ handler'[ChargerOf[k]] = handler[ChargerOf[k]] /\ pos'[ChargerOf[k]] = pos[ChargerOf[k]]
           \/ pos'[ChargerOf[k]] = pos[ChargerOf[k]] + 1
  PROVE  Len(invoices'[k]) <= Cardinality(Stops(k)') * crashes' + Cardinality(Used(k)')
<1> DEFINE c == ChargerOf[k]
<1>1. c \in Chargers /\ pos[c] \in Nat /\ pos'[c] \in Nat /\ crashes \in Nat /\ crashes' = crashes
  BY SessionsAssumption DEF IInv, TypeInv, TypeOK
<1>2. /\ IsFiniteSet(Stops(k)) /\ IsFiniteSet(Used(k))
      /\ Cardinality(Stops(k)) \in Nat /\ Cardinality(Used(k)) \in Nat
  BY StopsFinite DEF IInv, TypeInv
<1>3. /\ IsFiniteSet(Stops(k)') /\ IsFiniteSet(Used(k)')
      /\ Cardinality(Stops(k)') \in Nat /\ Cardinality(Used(k)') \in Nat
  BY StopsFiniteThen
<1>4. CASE invoices[k] = <<>>
  <2>1. Len(invoices'[k]) = 0
    BY <1>4
  <2>2. Cardinality(Stops(k)') * crashes' \in Nat
    BY <1>1, <1>3
  <2> QED BY <1>3, <2>1, <2>2
<1>5. CASE tx'[k].ocpp = tx[k].ocpp
  <2>1. Stops(k) \subseteq Stops(k)'
    BY <1>5, StopsStay
  <2>2. \A i \in Used(k) : i <= pos'[c] \/ (handler'[c].pc = "capture" /\ handler'[c].key = k /\ i = pos'[c] + 1)
    <3> TAKE i \in Used(k)
    <3>1. i \in Nat
      BY DEF Used, Stops
    <3> QED BY <1>1, <3>1 DEF Used
  <2>3. Used(k) \subseteq Used(k)'
    <3>1. Used(k)' = {i \in Stops(k)' : i <= pos'[c] \/ (handler'[c].pc = "capture" /\ handler'[c].key = k
                                                         /\ i = pos'[c] + 1)}
      BY DEF Used
    <3>2. Used(k) \subseteq Stops(k)
      BY DEF Used
    <3> QED BY <2>1, <2>2, <3>1, <3>2
  <2>4. Cardinality(Stops(k)) <= Cardinality(Stops(k)') /\ Cardinality(Used(k)) <= Cardinality(Used(k)')
    BY <1>3, <2>1, <2>3, FS_Subset
  <2> DEFINE s == Cardinality(Stops(k))
             t == Cardinality(Stops(k)')
             u == Cardinality(Used(k))
             v == Cardinality(Used(k)')
  <2>5. s * crashes <= t * crashes /\ s * crashes \in Nat /\ t * crashes \in Nat
    <3>1. s \in Nat /\ t \in Nat /\ s <= t
      BY <1>2, <1>3, <2>4
    <3> HIDE DEF s, t
    <3> QED BY <1>1, <3>1, Times
  <2>6. Len(invoices[k]) <= s * crashes + u /\ Len(invoices[k]) \in Nat
    <3>1. invoices[k] \in Seq(Nat)
      BY DEF IInv, TypeInv, TypeOK
    <3> QED BY <3>1, LenProperties DEF InvoicesCounted
  <2> HIDE DEF s, t, u, v
  <2>7. Len(invoices[k]) <= t * crashes + v
    <3>1. u \in Nat /\ v \in Nat /\ u <= v
      BY <1>2, <1>3, <2>4 DEF u, v
    <3> DEFINE x == s * crashes
               y == t * crashes
               l == Len(invoices[k])
    <3>2. x \in Nat /\ y \in Nat /\ x <= y /\ l <= x + u /\ l \in Nat
      BY <2>5, <2>6
    <3> HIDE DEF x, y, l
    <3>3. l <= y + v
      BY <3>1, <3>2
    <3> QED BY <3>3 DEF l, y
  <2> QED BY <1>1, <2>7 DEF t, v
<1> QED BY <1>4, <1>5

LEMMA CountedStep ==
  ASSUME IInv, TypeOK', LogInv, HandlesOwnStop, InvoicesCounted, Next
  PROVE  InvoicesCounted'
<1>0. /\ TypeOK /\ LogKept /\ \A k \in Keys : IdsKept(k)
      /\ pos \in [Chargers -> Nat] /\ handler \in [Chargers -> HandlerState] /\ crashes \in Nat
  <2>1. TypeOK /\ LogKept /\ \A k \in Keys : IdsKept(k)
    BY LogStays, IdsStay DEF IInv, TypeInv
  <2> QED BY <2>1, SessionsAssumption DEF TypeOK
<1>1. ASSUME NEW k \in Keys, tx[k].ocpp = NoId
      PROVE  invoices[k] = <<>>
  BY <1>1 DEF IInv, InvoiceBacked, OcppIdMarksStarted, Started
<1>2. \A k \in Keys : tx'[k].ocpp = tx[k].ocpp \/ invoices[k] = <<>>
  BY <1>0, <1>1 DEF IdsKept
<1> SUFFICES ASSUME NEW k \in Keys
             PROVE  Len(invoices'[k]) <= Cardinality(Stops(k)') * crashes' + Cardinality(Used(k)')
  BY DEF InvoicesCounted
<1>3. ChargerOf[k] \in Chargers /\ pos[ChargerOf[k]] \in Nat
  BY <1>0, SessionsAssumption
<1>4. CASE Aside
  <2>1. UNCHANGED <<handler, pos, crashes, invoices>>
    BY <1>4, AsideEffect
  <2> QED BY <1>0, <1>2, <1>3, <2>1, CountedStill
<1>5. ASSUME NEW c \in Chargers, Handle(c) \/ FailEvent(c), invoices'[k] = invoices[k]
      PROVE  Len(invoices'[k]) <= Cardinality(Stops(k)') * crashes' + Cardinality(Used(k)')
  <2>1. /\ crashes' = crashes
        /\ pos[ChargerOf[k]] <= pos'[ChargerOf[k]]
        /\ handler[ChargerOf[k]].pc = "capture" =>
             \/ handler'[ChargerOf[k]] = handler[ChargerOf[k]] /\ pos'[ChargerOf[k]] = pos[ChargerOf[k]]
             \/ pos'[ChargerOf[k]] = pos[ChargerOf[k]] + 1
    BY <1>3, <1>5, HandleEffect
  <2> QED BY <1>0, <1>2, <1>5, <2>1, CountedStill
<1>6. ASSUME NEW c \in Chargers, CrashConsumer(c)
      PROVE  Len(invoices'[k]) <= Cardinality(Stops(k)') * crashes' + Cardinality(Used(k)')
  <2>1. UNCHANGED <<invoices, tx, log>> /\ crashes' = crashes + 1
    BY <1>6 DEF CrashConsumer, device
  <2>2. Stops(k)' = Stops(k)
    BY <2>1 DEF Stops
  <2>3. /\ Cardinality(Stops(k)) \in Nat /\ Cardinality(Used(k)) \in Nat
        /\ Cardinality(Used(k)) <= Cardinality(Stops(k)) /\ Cardinality(Used(k)') \in Nat
    BY <1>0, StopsFinite, StopsFiniteThen
  <2>4. Len(invoices[k]) <= Cardinality(Stops(k)) * crashes + Cardinality(Used(k))
    BY DEF InvoicesCounted
  <2>5. Len(invoices[k]) \in Nat
    <3>1. invoices[k] \in Seq(Nat)
      BY DEF IInv, TypeInv, TypeOK
    <3> QED BY <3>1, LenProperties
  <2> DEFINE s == Cardinality(Stops(k))
             u == Cardinality(Used(k))
             v == Cardinality(Used(k)')
             x == s * crashes
             l == Len(invoices[k])
  <2>6. s * (crashes + 1) = x + s /\ x \in Nat
    <3>1. s \in Nat /\ s <= s
      BY <2>3
    <3> HIDE DEF s
    <3> QED BY <1>0, <3>1, Times
  <2>7. s \in Nat /\ u \in Nat /\ v \in Nat /\ u <= s /\ l <= x + u /\ l \in Nat
    BY <2>3, <2>4, <2>5
  <2>8. crashes' = crashes + 1 /\ Cardinality(Stops(k)') = s /\ Len(invoices'[k]) = l
    BY <2>1, <2>2
  <2> HIDE DEF s, u, v, x, l
  <2>9. l <= x + s + v
    BY <2>6, <2>7
  <2>10. Cardinality(Stops(k)') * crashes' = x + s
    BY <2>6, <2>8
  <2> QED BY <2>6, <2>7, <2>8, <2>9, <2>10 DEF v
<1>7. ASSUME NEW c \in Chargers, Settle(c), k = handler[c].key
      PROVE  Len(invoices'[k]) <= Cardinality(Stops(k)') * crashes' + Cardinality(Used(k)')
  <2>1. /\ pos[c] \in Nat /\ pos[c] + 1 \in 1..Len(log[c]) /\ UNCHANGED <<log, crashes>>
        /\ handler[c].pc = "settle" /\ handler'[c].pc = "capture" /\ handler'[c].key = k
        /\ pos'[c] = pos[c]
    <3>1. pos[c] \in Nat /\ pos[c] + 1 \in 1..Len(log[c]) /\ UNCHANGED <<log, crashes>>
      BY <1>7, HandleEffect DEF Handle, device
    <3> QED BY <1>0, <1>7, <3>1 DEF Settle, Running, Enter
  <2>2. StopAt(c, pos[c] + 1, tx[k].ocpp)
    BY <1>7, <2>1 DEF HandlesOwnStop, Stopping
  <2>3. tx[k].ocpp # NoId /\ ChargerOf[k] = c /\ pos[c] + 1 \in Stops(k)
    BY <2>1, <2>2, OwnStop
  <2>4. Stops(k)' = Stops(k)
    BY <1>0, <2>1, <2>3 DEF Stops, IdsKept
  <2>5. Used(k) = {i \in Stops(k) : i <= pos[c]}
    BY <2>1, <2>3 DEF Used
  <2>6. Used(k)' = {i \in Stops(k) : i <= pos[c] \/ i = pos[c] + 1}
    BY <2>1, <2>3, <2>4 DEF Used
  <2>7. Used(k)' = Used(k) \cup {pos[c] + 1} /\ pos[c] + 1 \notin Used(k)
    BY <2>1, <2>3, <2>5, <2>6
  <2>8. /\ IsFiniteSet(Used(k)) /\ Cardinality(Used(k)) \in Nat /\ Cardinality(Stops(k)) \in Nat
    BY <1>0, StopsFinite
  <2>9. Cardinality(Used(k)') = Cardinality(Used(k)) + 1
    BY <2>7, <2>8, FS_AddElement
  <2>10. Len(invoices'[k]) = Len(invoices[k]) + 1 /\ Len(invoices[k]) \in Nat
    <3>1. invoices \in [Keys -> Seq(Nat)]
      BY <1>0 DEF TypeOK
    <3>2. PICK total \in Charges[tx[k].energy] : invoices' = [invoices EXCEPT ![k] = Append(@, total)]
      BY <1>7 DEF Settle
    <3>3. tx[k].energy \in Readings
      BY <1>0 DEF TypeOK, TxRow
    <3>4. total \in Nat
      BY <3>2, <3>3, SessionsAssumption
    <3> QED BY <3>1, <3>2, <3>4, AppendProperties, LenProperties
  <2>11. Len(invoices[k]) <= Cardinality(Stops(k)) * crashes + Cardinality(Used(k))
    BY DEF InvoicesCounted
  <2> DEFINE x == Cardinality(Stops(k)) * crashes
             u == Cardinality(Used(k))
             l == Len(invoices[k])
  <2>12. x \in Nat
    BY <1>0, <2>8
  <2>13. l <= x + u /\ l \in Nat /\ u \in Nat
    BY <2>8, <2>10, <2>11
  <2>14. Len(invoices'[k]) = l + 1 /\ Cardinality(Used(k)') = u + 1
         /\ Cardinality(Stops(k)') * crashes' = x
    BY <2>1, <2>4, <2>9, <2>10
  <2> HIDE DEF x, u, l
  <2>15. l + 1 <= x + (u + 1)
    BY <2>12, <2>13
  <2> QED BY <2>14, <2>15
<1>8. ASSUME NEW c \in Chargers, Handle(c) \/ FailEvent(c), invoices'[k] # invoices[k]
      PROVE  Settle(c) /\ k = handler[c].key
  <2>1. Settle(c)
    BY <1>8 DEF Handle, FindStarted, BindStarted, FindStopped, CompleteRow, CaptureFunds, FailEvent
  <2>2. invoices \in [Keys -> Seq(Nat)]
    BY <1>0 DEF TypeOK
  <2> QED BY <1>8, <2>1, <2>2 DEF Settle
<1> QED BY <1>4, <1>5, <1>6, <1>7, <1>8 DEF Next, Aside

(* Only bindStartFromOcpp gives a session its id.                          *)
LEMMA NewlyBound ==
  ASSUME IInv, Next, NEW k \in Keys, tx'[k].ocpp # tx[k].ocpp
  PROVE  \E c \in Chargers :
           /\ BindStarted(c) /\ ChargerOf[k] = c /\ tx[k].state = "AUTHORIZED"
           /\ tx'[k].state = "CHARGING" /\ tx'[k].ocpp = log[c][pos[c] + 1].id
           /\ log[c][pos[c] + 1].type = "Start" /\ pos[c] + 1 \in 1..Len(log[c])
           /\ \A j \in Keys : j # k => tx'[j] = tx[j]
<1>0. tx \in [Keys -> TxRow]
  BY DEF IInv, TypeInv, TypeOK
<1>1. ~Aside
  BY AsideEffect
<1>2. ASSUME NEW c \in Chargers, FindStopped(c) \/ Settle(c)
      PROVE  FALSE
  <2>1. CASE Settle(c)
    <3>1. tx' = [tx EXCEPT ![handler[c].key].state = "COMPLETED"]
      BY <2>1 DEF Settle
    <3> QED BY <1>0, <3>1 DEF TxRow
  <2>2. CASE FindStopped(c)
    <3>1. UNCHANGED tx \/ \E j \in Keys, r \in {Difference(log[c][pos[c] + 1].meter, tx[i].meterStart) : i \in Keys} :
                            tx' = [tx EXCEPT ![j].energy = r]
      BY <2>2 DEF FindStopped, BoundTo
    <3>2. \A j \in Keys : tx'[j].ocpp = tx[j].ocpp
      BY <1>0, <3>1 DEF TxRow
    <3> QED BY <3>2
  <2> QED BY <1>2, <2>1, <2>2
<1>3. ASSUME NEW c \in Chargers, CompleteRow(c)
      PROVE  FALSE
  <2> PICK j \in Keys : j = handler[c].key
    BY <1>3 DEF CompleteRow, Running, IInv, TypeInv, HandlersHaveEvents
  <2>1. tx'[j].ocpp = tx[j].ocpp /\ \A i \in Keys : i # j => tx'[i] = tx[i]
    BY <1>0, <1>3, TransitionType DEF CompleteRow, Stage
  <2> QED BY <2>1
<1>4. ASSUME NEW c \in Chargers, FindStarted(c) \/ CaptureFunds(c) \/ FailEvent(c) \/ CrashConsumer(c)
      PROVE  FALSE
  BY <1>4 DEF FindStarted, CaptureFunds, FailEvent, CrashConsumer
<1>5. PICK c \in Chargers : BindStarted(c)
  BY <1>1, <1>2, <1>3, <1>4 DEF Next, Handle, Aside
<1> QED BY <1>5, BindEffect

(* Without a crash no consumer goes back.                                  *)
LEMMA PosAdvances ==
  ASSUME IInv, TypeOK', Next, crashes' = 0
  PROVE  /\ crashes = 0
         /\ \A d \in Chargers : pos[d] \in Nat /\ pos'[d] \in Nat /\ pos[d] <= pos'[d]
<1>0. crashes \in Nat
  BY SessionsAssumption DEF IInv, TypeInv, TypeOK
<1>1. \A d \in Chargers : pos[d] \in Nat /\ pos'[d] \in Nat
  BY DEF IInv, TypeInv, TypeOK
<1>2. CASE Aside
  BY <1>1, <1>2, AsideEffect
<1>3. ASSUME NEW c \in Chargers, Handle(c) \/ FailEvent(c)
      PROVE  crashes = 0 /\ \A d \in Chargers : pos[d] <= pos'[d]
  BY <1>1, <1>3, HandleEffect
<1>4. ~\E c \in Chargers : CrashConsumer(c)
  BY <1>0 DEF CrashConsumer
<1> QED BY <1>1, <1>2, <1>3, <1>4 DEF Next, Aside

LEMMA BoundStep ==
  ASSUME IInv, TypeOK', LogInv, BoundBehind, OneSession, Next
  PROVE  BoundBehind' /\ OneSession'
<1> SUFFICES ASSUME crashes' = 0
             PROVE  /\ \A k \in Keys : tx'[k].ocpp # NoId =>
                         \E i \in 1..pos'[ChargerOf[k]] :
                           log'[ChargerOf[k]][i].type = "Start"
                           /\ log'[ChargerOf[k]][i].id = tx'[k].ocpp
                    /\ OneSessionPerOcppId'
  BY DEF BoundBehind, OneSession, StartAt
<1>0. /\ crashes = 0 /\ LogKept /\ \A k \in Keys : IdsKept(k) /\ ChargerOf[k] \in Chargers
      /\ \A d \in Chargers : pos[d] \in Nat /\ pos'[d] \in Nat /\ pos[d] <= pos'[d]
  BY PosAdvances, LogStays, IdsStay, SessionsAssumption
<1>1. ASSUME NEW k \in Keys, tx[k].ocpp # NoId
      PROVE  \E i \in 1..pos[ChargerOf[k]] :
               /\ i \in 1..Len(log[ChargerOf[k]])
               /\ log[ChargerOf[k]][i].type = "Start" /\ log[ChargerOf[k]][i].id = tx[k].ocpp
  <2> DEFINE c == ChargerOf[k]
  <2>1. PICK i \in 1..pos[c] : StartAt(c, i, tx[k].ocpp)
    BY <1>0, <1>1 DEF BoundBehind
  <2>2. pos[c] \in Nat /\ pos[c] <= Len(log[c]) /\ log[c] \in Seq(Event)
    BY <1>0 DEF IInv, TypeInv, TypeOK
  <2>3. i \in 1..Len(log[c])
    BY <2>2, LenProperties
  <2> QED BY <2>1, <2>3 DEF StartAt
<1>2. ASSUME NEW k \in Keys, tx'[k].ocpp # NoId
      PROVE  \E i \in 1..pos'[ChargerOf[k]] :
               log'[ChargerOf[k]][i].type = "Start" /\ log'[ChargerOf[k]][i].id = tx'[k].ocpp
  <2>1. CASE tx[k].ocpp # NoId
    <3> PICK i \in 1..pos[ChargerOf[k]] :
               /\ i \in 1..Len(log[ChargerOf[k]])
               /\ log[ChargerOf[k]][i].type = "Start" /\ log[ChargerOf[k]][i].id = tx[k].ocpp
      BY <1>1, <2>1
    <3>1. i \in 1..pos'[ChargerOf[k]]
      BY <1>0
    <3>2. log'[ChargerOf[k]][i] = log[ChargerOf[k]][i]
      BY <1>0 DEF LogKept
    <3> QED BY <1>0, <2>1, <3>1, <3>2 DEF IdsKept
  <2>2. CASE tx[k].ocpp = NoId
    <3> PICK c \in Chargers :
               /\ BindStarted(c) /\ ChargerOf[k] = c /\ tx'[k].ocpp = log[c][pos[c] + 1].id
               /\ log[c][pos[c] + 1].type = "Start" /\ pos[c] + 1 \in 1..Len(log[c])
      BY <1>2, <2>2, NewlyBound
    <3>1. pos'[c] = pos[c] + 1 /\ log' = log
      BY HandleEffect DEF Handle, device
    <3>2. pos[c] + 1 \in 1..pos'[c]
      BY <1>0, <3>1
    <3> QED BY <3>1, <3>2
  <2> QED BY <2>1, <2>2
<1>3. OneSessionPerOcppId'
  <2> SUFFICES ASSUME NEW j \in Keys, NEW k \in Keys, tx'[j].ocpp = tx'[k].ocpp, tx'[j].ocpp # NoId,
                      j # k
               PROVE  FALSE
    BY DEF OneSessionPerOcppId
  <2>1. ASSUME NEW a \in Keys, NEW b \in Keys, a # b, tx[a].ocpp = NoId, tx'[a].ocpp # NoId,
               tx'[a].ocpp = tx'[b].ocpp
        PROVE  FALSE
    <3> PICK c \in Chargers :
               /\ BindStarted(c) /\ ChargerOf[a] = c /\ tx'[a].ocpp = log[c][pos[c] + 1].id
               /\ log[c][pos[c] + 1].type = "Start" /\ pos[c] + 1 \in 1..Len(log[c])
               /\ \A i \in Keys : i # a => tx'[i] = tx[i]
      BY <2>1, NewlyBound
    <3>1. tx[b].ocpp = log[c][pos[c] + 1].id /\ tx[b].ocpp # NoId
      BY <2>1
    <3> PICK i \in 1..pos[ChargerOf[b]] :
               /\ i \in 1..Len(log[ChargerOf[b]])
               /\ log[ChargerOf[b]][i].type = "Start" /\ log[ChargerOf[b]][i].id = tx[b].ocpp
      BY <1>1, <3>1
    <3>2. ChargerOf[b] = c /\ i = pos[c] + 1
      BY <1>0, <3>1 DEF LogInv, StartsApart, StartAt
    <3> QED BY <1>0, <3>2
  <2>2. CASE tx[j].ocpp # NoId /\ tx[k].ocpp # NoId
    <3>1. tx'[j].ocpp = tx[j].ocpp /\ tx'[k].ocpp = tx[k].ocpp
      BY <1>0, <2>2 DEF IdsKept
    <3> QED BY <1>0, <2>2, <3>1 DEF OneSession, OneSessionPerOcppId
  <2> QED BY <2>1, <2>2
<1> QED BY <1>2, <1>3

(* A row under way was under way before, or is being bound.                *)
LEMMA WasUnderWay ==
  ASSUME IInv, IInv', Next, NEW k \in Keys, tx'[k].state \in {"CHARGING", "STOPPING"},
         tx'[k].ocpp = tx[k].ocpp
  PROVE  tx[k].state \in {"CHARGING", "STOPPING"} /\ tx[k].ocpp # NoId
<1>1. tx'[k].ocpp # NoId
  BY DEF IInv, OcppIdMarksStarted, Started
<1>2. tx[k].state \in Started
  BY <1>1 DEF IInv, OcppIdMarksStarted
<1>3. tx[k].state # "COMPLETED"
  <2>1. CASE UNCHANGED <<wallet, tx, invoices>>
    BY <2>1
  <2>2. CASE \E j \in Keys : RowWrite(j)
    BY <2>2 DEF RowWrite, Forward
  <2>3. CASE (\E p \in Calls : HoldFunds(p)) \/ \E c \in Chargers : CaptureFunds(c)
    BY <2>3 DEF HoldFunds, CaptureFunds
  <2>4. CASE \E c \in Chargers : Settle(c)
    BY <2>4, SettleEffect
  <2> QED BY <2>1, <2>2, <2>3, <2>4, StepEffect
<1> QED BY <1>1, <1>2, <1>3 DEF Started

(* The stop that a session under way waits for is not passed over: the     *)
(* handler that passes it has completed the one session it is about.       *)
LEMMA AwaitedStep ==
  ASSUME IInv, IInv', LogInv, HandlesOwnStop, OneSession, StopAwaited, Next
  PROVE  StopAwaited'
<1> SUFFICES ASSUME MaxSends = 1, crashes' = 0, errors' = 0, NEW k \in Keys,
                    tx'[k].state \in {"CHARGING", "STOPPING"}
             PROVE  LET c == ChargerOf[k] IN
                      \/ charging'[c] = tx'[k].ocpp
                      \/ \E i \in pos'[c] + 1..Len(log'[c]) :
                           log'[c][i].type = "Stop" /\ log'[c][i].id = tx'[k].ocpp
  BY DEF StopAwaited, StopAt
<1> PICK c \in Chargers : c = ChargerOf[k]
  BY SessionsAssumption
<1>0. /\ TypeOK /\ LogKept /\ errors \in Nat /\ crashes = 0 /\ pos[c] \in Nat /\ pos'[c] \in Nat
      /\ pos[c] <= Len(log[c]) /\ Len(log[c]) \in Nat /\ Len(log'[c]) \in Nat
  <2>1. TypeOK /\ TypeOK' /\ LogKept
    BY LogStays DEF IInv, TypeInv
  <2>2. log[c] \in Seq(Event) /\ log'[c] \in Seq(Event) /\ errors \in Nat
        /\ pos[c] \in Nat /\ pos[c] <= Len(log[c])
    BY <2>1, SessionsAssumption DEF TypeOK
  <2> QED BY <2>1, <2>2, PosAdvances, LenProperties
<1>1. errors = 0 /\ ~\E d \in Chargers : FailEvent(d)
  <2>1. ~\E d \in Chargers : FailEvent(d)
    BY <1>0 DEF FailEvent
  <2>2. CASE Aside
    BY <2>1, <2>2, AsideEffect
  <2>3. CASE \E d \in Chargers : Handle(d) \/ CrashConsumer(d)
    BY <2>1, <2>3 DEF Handle, FindStarted, BindStarted, FindStopped, CompleteRow, Settle, CaptureFunds,
                      CrashConsumer, faults
  <2> QED BY <2>1, <2>2, <2>3 DEF Next, Aside
<1>2. CASE tx'[k].ocpp # tx[k].ocpp
  <2>1. /\ BindStarted(c) /\ tx'[k].ocpp = log[c][pos[c] + 1].id
        /\ log[c][pos[c] + 1].type = "Start" /\ pos[c] + 1 \in 1..Len(log[c])
    BY <1>2, NewlyBound
  <2>2. UNCHANGED <<log, charging>> /\ pos'[c] = pos[c] + 1
    BY <2>1, HandleEffect DEF Handle, device
  <2>3. \/ charging[c] = log[c][pos[c] + 1].id
        \/ \E j \in pos[c] + 1 + 1..Len(log[c]) :
             log[c][j].type = "Stop" /\ log[c][j].id = log[c][pos[c] + 1].id
    BY <2>1 DEF LogInv, StartsEnd, StopAt
  <2> QED BY <2>1, <2>2, <2>3
<1>3. ASSUME tx'[k].ocpp = tx[k].ocpp, NEW i \in pos[c] + 1..Len(log[c]), StopAt(c, i, tx[k].ocpp),
             tx[k].state \in {"CHARGING", "STOPPING"}
      PROVE  \E n \in pos'[c] + 1..Len(log'[c]) :
               log'[c][n].type = "Stop" /\ log'[c][n].id = tx'[k].ocpp
  <2>1. i \in 1..Len(log[c])
    BY <1>0
  <2>2. i \in 1..Len(log'[c]) /\ log'[c][i] = log[c][i]
    BY <1>0, <2>1 DEF LogKept
  <2>3. pos'[c] < i
    <3>1. CASE pos'[c] = pos[c]
      BY <1>0, <3>1
    <3>2. CASE pos'[c] # pos[c]
      <4>1. ~Aside /\ ~\E d \in Chargers : CrashConsumer(d)
        <5>1. ~Aside
          BY <3>2, AsideEffect
        <5>2. ~\E d \in Chargers : CrashConsumer(d)
          BY <1>0 DEF CrashConsumer
        <5> QED BY <5>1, <5>2
      <4>2. PICK d \in Chargers : Handle(d)
        BY <1>1, <4>1 DEF Next, Aside
      <4>3. d = c /\ pos'[c] = pos[c] + 1 /\ handler'[c].pc = "poll"
        BY <3>2, <4>2, HandleEffect
      <4>4. SUFFICES ASSUME i = pos[c] + 1
                     PROVE  FALSE
        BY <1>0, <4>3
      <4>5. log[c][pos[c] + 1].type = "Stop" /\ log[c][pos[c] + 1].id = tx[k].ocpp
        BY <1>3, <4>4 DEF StopAt
      <4>6. CASE FindStarted(c)
        BY <4>5, <4>6 DEF FindStarted, Pending
      <4>7. CASE BindStarted(c)
        BY <4>5, <4>7, BindEffect
      <4>8. CASE FindStopped(c)
        <5>1. k \in BoundTo(log[c][pos[c] + 1].id)
          BY <4>5 DEF BoundTo
        <5>2. pos' = pos
          BY <4>8, <5>1 DEF FindStopped, Enter
        <5> QED BY <3>2, <5>2
      <4>9. CASE CompleteRow(c) \/ Settle(c)
        <5>1. pos' = pos
          BY <4>9 DEF CompleteRow, Settle, Enter
        <5> QED BY <3>2, <5>1
      <4>10. CASE CaptureFunds(c)
        <5>1. handler[c].pc = "capture" /\ handler[c].key \in Keys
          BY <4>10 DEF CaptureFunds, Running, IInv, TypeInv, HandlersHaveEvents
        <5>2. tx[handler[c].key].ocpp = tx[k].ocpp /\ tx[k].ocpp # NoId
          <6>1. StopAt(c, pos[c] + 1, tx[handler[c].key].ocpp)
            BY <5>1 DEF HandlesOwnStop, Stopping
          <6>2. tx[k].ocpp # NoId
            BY <1>3, <2>1, OwnStop
          <6> QED BY <4>5, <6>1, <6>2 DEF StopAt
        <5>3. handler[c].key = k
          BY <1>0, <5>1, <5>2 DEF OneSession, OneSessionPerOcppId
        <5>4. HandlerFits(c)
          BY DEF IInv, PausedStepsFit
        <5>5. tx[k].state = "COMPLETED"
          BY <5>1, <5>3, <5>4 DEF HandlerFits, Running
        <5> QED BY <1>3, <5>5
      <4> QED BY <4>2, <4>3, <4>6, <4>7, <4>8, <4>9, <4>10 DEF Handle
    <3> QED BY <3>1, <3>2
  <2>4. i \in pos'[c] + 1..Len(log'[c])
    BY <1>0, <2>2, <2>3
  <2> QED BY <1>3, <2>2, <2>4 DEF StopAt
<1>4. ASSUME tx'[k].ocpp = tx[k].ocpp, charging[c] = tx[k].ocpp, charging[c] # NoId
      PROVE  \/ charging'[c] = tx'[k].ocpp
             \/ \E n \in pos'[c] + 1..Len(log'[c]) :
                  log'[c][n].type = "Stop" /\ log'[c][n].id = tx'[k].ocpp
  <2>1. ASSUME NEW n \in 1..MaxSends, SendStop(c, n)
        PROVE  \E m \in pos'[c] + 1..Len(log'[c]) :
                 log'[c][m].type = "Stop" /\ log'[c][m].id = tx'[k].ocpp
    <3>1. /\ Len(log'[c]) = Len(log[c]) + n /\ n \in Nat /\ n >= 1
          /\ \A m \in Len(log[c]) + 1..Len(log[c]) + n :
               log'[c][m].type = "Stop" /\ log'[c][m].id = charging[c]
      BY <1>0, <2>1, StopEffect
    <3>2. pos'[c] = pos[c]
      BY <2>1 DEF SendStop, consumer
    <3>3. Len(log[c]) + 1 \in pos'[c] + 1..Len(log'[c]) /\ Len(log[c]) + 1 \in Len(log[c]) + 1..Len(log[c]) + n
      BY <1>0, <3>1, <3>2
    <3> QED BY <1>4, <3>1, <3>3
  <2>2. CASE ~\E n \in 1..MaxSends : SendStop(c, n)
    <3>1. charging'[c] = charging[c]
      <4>1. ASSUME NEW d \in Chargers, Device(d)
            PROVE  charging'[c] = charging[c]
        <5>1. ASSUME NEW n \in 1..MaxSends, SendStop(d, n)
              PROVE  charging'[c] = charging[c]
          <6>1. d # c
            BY <2>2, <5>1
          <6> QED BY <1>0, <5>1, <6>1, StopEffect
        <5>2. ASSUME NEW n \in 1..MaxSends, NEW j \in Keys \cup {NoKey}, SendStart(d, j, n)
              PROVE  charging'[c] = charging[c]
          <6>1. d # c
            BY <1>4, <5>2 DEF SendStart
          <6> QED BY <1>0, <5>2, <6>1, StartEffect
        <5>3. CASE (\E j \in Keys : RefuseStart(d, j)) \/ DrawEnergy(d)
          BY <5>3 DEF RefuseStart, DrawEnergy
        <5> QED BY <4>1, <5>1, <5>2, <5>3 DEF Device, RemoteStart, LocalStart
      <4>2. CASE ~\E d \in Chargers : Device(d)
        BY <4>2 DEF Next, StartCall, StartSession, HoldFunds, CreateRow, PublishStart, AuthorizeRow, AbortCall,
                    StopSession, Handle, FindStarted, BindStarted, FindStopped, CompleteRow, Settle,
                    CaptureFunds, FailEvent, CommitOffset, CrashConsumer, ApplyMeter, device
      <4> QED BY <4>1, <4>2
    <3> QED BY <1>4, <3>1
  <2> QED BY <2>1, <2>2
<1>5. CASE tx'[k].ocpp = tx[k].ocpp
  <2>1. tx[k].state \in {"CHARGING", "STOPPING"} /\ tx[k].ocpp # NoId
    BY <1>5, WasUnderWay
  <2>2. charging[c] = tx[k].ocpp \/ \E i \in pos[c] + 1..Len(log[c]) : StopAt(c, i, tx[k].ocpp)
    BY <1>0, <1>1, <2>1 DEF StopAwaited
  <2> QED BY <1>3, <1>4, <1>5, <2>1, <2>2
<1> QED BY <1>2, <1>5

(* Holds are placed by the requests and released by the settlements.       *)
LEMMA WalletStep ==
  ASSUME IInv, Next
  PROVE  \/ UNCHANGED wallet
         \/ \E p \in Calls : HoldFunds(p) /\ call[p].key \in Keys
         \/ \E c \in Chargers : CaptureFunds(c) /\ handler[c].key \in Keys
<1>1. ASSUME NEW p \in Calls, HoldFunds(p)
      PROVE  call[p].key \in Keys
  BY <1>1 DEF HoldFunds, At, IInv, TypeInv, CallsHaveKeys
<1>2. ASSUME NEW c \in Chargers, CaptureFunds(c)
      PROVE  handler[c].key \in Keys
  BY <1>2 DEF CaptureFunds, Running, IInv, TypeInv, HandlersHaveEvents
<1>3. CASE (\E c \in Chargers : Settle(c)) \/ \E k \in Keys : RowWrite(k)
  BY <1>3 DEF Settle, RowWrite
<1> QED BY <1>1, <1>2, <1>3, StepEffect

LEMMA HoldLedger ==
  ASSUME NEW p \in Calls, HoldFunds(p)
  PROVE  /\ \A k \in Keys : Released(k)' <=> Released(k)
         /\ \A k \in Keys : Held(k)' => Held(k) \/ k = call[p].key
<1> DEFINE r == W!Entry(UserOf[call[p].key], -HoldAmount, "hold", HoldRef(call[p].key))
<1>1. r.ref = HoldRef(call[p].key) /\ r.reason = "hold"
  BY DEF W!Entry
<1>2. ledger' = ledger \cup {x \in {r} : \A e \in ledger : e.ref # x.ref \/ e.reason # x.reason}
  BY DEF HoldFunds, W!Hold, W!SkipDuplicates
<1> HIDE DEF r
<1> QED BY <1>1, <1>2 DEF Held, Released, HoldRef

LEMMA CaptureLedger ==
  ASSUME NEW c \in Chargers, CaptureFunds(c)
  PROVE  /\ \A k \in Keys : Held(k)' <=> Held(k)
         /\ \A k \in Keys : Released(k)' <=> Released(k) \/ k = handler[c].key
<1> DEFINE j == handler[c].key
           r == W!Entry(UserOf[j], HoldAmount, "release", HoldRef(j))
           s == W!Entry(UserOf[j], -handler[c].total, "capture", PayRef(j))
<1>1. r.ref = HoldRef(j) /\ r.reason = "release" /\ s.reason = "capture"
  BY DEF W!Entry
<1>2. ledger' = ledger \cup {x \in {r, s} : \A e \in ledger : e.ref # x.ref \/ e.reason # x.reason}
  BY DEF CaptureFunds, Actual, W!CaptureHold, W!SkipDuplicates
<1> HIDE DEF r, s
<1>3. \A k \in Keys : Held(k)' <=> Held(k)
  BY <1>1, <1>2 DEF Held
<1>4. \A k \in Keys : Released(k)' => Released(k) \/ k = j
  BY <1>1, <1>2 DEF Released, HoldRef
<1>5. \A k \in Keys : Released(k) => Released(k)'
  BY <1>2 DEF Released
<1>6. \E e \in ledger' : e.ref = HoldRef(j) /\ e.reason = "release"
  <2>1. CASE \E e \in ledger : e.ref = HoldRef(j) /\ e.reason = "release"
    BY <1>2, <2>1
  <2>2. CASE ~\E e \in ledger : e.ref = HoldRef(j) /\ e.reason = "release"
    <3>1. r \in ledger'
      BY <1>1, <1>2, <2>2
    <3> QED BY <1>1, <3>1
  <2> QED BY <2>1, <2>2
<1>7. \A k \in Keys : k = j => Released(k)'
  BY <1>6 DEF Released, HoldRef
<1> QED BY <1>3, <1>4, <1>5, <1>7

LEMMA ReleasedStep ==
  ASSUME IInv, TypeOK', LogInv, HandlesOwnStop, ReleasedBehind, Next
  PROVE  ReleasedBehind'
<1> SUFFICES ASSUME crashes' = 0, NEW k \in Keys, Released(k)'
             PROVE  \E i \in 1..pos'[ChargerOf[k]] :
                      log'[ChargerOf[k]][i].type = "Stop" /\ log'[ChargerOf[k]][i].id = tx'[k].ocpp
  BY DEF ReleasedBehind, StopAt
<1> PICK c \in Chargers : c = ChargerOf[k]
  BY SessionsAssumption
<1>0. /\ crashes = 0 /\ LogKept /\ pos[c] \in Nat /\ pos'[c] \in Nat /\ pos[c] <= pos'[c]
      /\ pos[c] <= Len(log[c]) /\ Len(log[c]) \in Nat
  <2>1. pos[c] <= Len(log[c]) /\ log[c] \in Seq(Event)
    BY DEF IInv, TypeInv, TypeOK
  <2> QED BY <2>1, PosAdvances, LogStays, LenProperties
<1>1. CASE Released(k)
  <2> PICK i \in 1..pos[c] : StopAt(c, i, tx[k].ocpp)
    BY <1>0, <1>1 DEF ReleasedBehind
  <2>1. i \in 1..Len(log[c]) /\ i \in 1..pos'[c]
    BY <1>0
  <2>2. tx'[k].ocpp = tx[k].ocpp
    BY <2>1, OwnStop, IdsStay DEF IdsKept
  <2> QED BY <1>0, <2>1, <2>2 DEF LogKept, StopAt
<1>2. CASE ~Released(k)
  <2>1. ~UNCHANGED wallet
    BY <1>2 DEF Released, wallet
  <2>2. ~\E p \in Calls : HoldFunds(p)
    BY <1>2, HoldLedger
  <2> PICK d \in Chargers : CaptureFunds(d)
    BY <2>1, <2>2, WalletStep
  <2>3. handler[d].key = k
    BY <1>2, CaptureLedger
  <2>4. /\ UNCHANGED <<tx, log>> /\ pos'[d] = pos[d] + 1 /\ pos[d] \in Nat /\ pos[d] + 1 \in 1..Len(log[d])
    <3>1. handler'[d].pc = "poll"
      BY DEF CaptureFunds, Done, Poll, IInv, TypeInv, TypeOK
    <3> QED BY <3>1, HandleEffect DEF Handle, CaptureFunds, device
  <2>5. StopAt(d, pos[d] + 1, tx[k].ocpp)
    BY <2>3 DEF HandlesOwnStop, CaptureFunds, Running, Stopping
  <2>6. c = d
    BY <2>4, <2>5, OwnStop
  <2>7. pos[d] + 1 \in 1..pos'[c]
    BY <2>4, <2>6
  <2> QED BY <2>4, <2>5, <2>6, <2>7 DEF StopAt
<1> QED BY <1>1, <1>2

(* Without crashes and resending, a hold is released for the first time.   *)
LEMMA FirstRelease ==
  ASSUME IInv, LogInv, HandlesOwnStop, ReleasedBehind, MaxSends = 1, crashes = 0,
         NEW c \in Chargers, CaptureFunds(c)
  PROVE  ~Released(handler[c].key)
<1> PICK k \in Keys : k = handler[c].key
  BY DEF CaptureFunds, Running, IInv, TypeInv, HandlersHaveEvents
<1> DEFINE m == pos[c] + 1
<1>1. m \in 1..Len(log[c]) /\ pos[c] \in Nat /\ Len(log[c]) \in Nat
  <2>1. log[c] \in Seq(Event)
    BY DEF IInv, TypeInv, TypeOK
  <2> QED BY <2>1, HandleEffect, LenProperties DEF Handle
<1>2. StopAt(c, m, tx[k].ocpp)
  BY DEF HandlesOwnStop, CaptureFunds, Running, Stopping
<1>3. ChargerOf[k] = c /\ tx[k].ocpp \in Ids
  <2>1. log[c][m].id \in Ids
    BY <1>1, EventType DEF IInv, TypeInv
  <2> QED BY <1>1, <1>2, <2>1, OwnStop DEF StopAt
<1> SUFFICES ASSUME Released(k)
             PROVE  FALSE
  OBVIOUS
<1>4. PICK i \in 1..pos[c] : StopAt(c, i, tx[k].ocpp)
  BY <1>3 DEF ReleasedBehind
<1>5. i # m /\ i \in 1..Len(log[c])
  BY <1>1
<1> DEFINE S == StopsOf(c, tx[k].ocpp)
<1>6. i \in S /\ m \in S /\ S \subseteq 1..Len(log[c])
  BY <1>1, <1>2, <1>4, <1>5 DEF StopsOf
<1>7. Cardinality(S) <= 1
  BY <1>3 DEF LogInv, StopsCounted
<1> HIDE DEF S, m
<1>8. IsFiniteSet(S)
  <2>1. 1 \in Int /\ Len(log[c]) \in Int
    BY <1>1
  <2>2. IsFiniteSet(1..Len(log[c]))
    BY <2>1, FS_Interval
  <2> QED BY <1>6, <2>2, FS_Subset
<1>9. Cardinality({i, m}) = 2
  <2>1. IsFiniteSet({i}) /\ Cardinality({i}) = 1
    BY FS_Singleton
  <2>2. {i, m} = {i} \cup {m} /\ m \notin {i}
    BY <1>5
  <2>3. Cardinality({i} \cup {m}) = Cardinality({i}) + 1
    BY <2>1, <2>2, FS_AddElement
  <2> QED BY <2>1, <2>2, <2>3
<1>10. Cardinality({i, m}) <= Cardinality(S) /\ Cardinality(S) \in Nat
  BY <1>6, <1>8, FS_Subset, FS_CardinalityType
<1> QED BY <1>7, <1>9, <1>10

OpenSet(u) == {k \in KeysOf(u) : Held(k) /\ ~Released(k)}

LEMMA OpenFinite ==
  ASSUME NEW u
  PROVE  IsFiniteSet(OpenSet(u)) /\ Cardinality(OpenSet(u)) \in Nat
<1>1. OpenSet(u) \subseteq Keys /\ IsFiniteSet(Keys)
  BY SessionsAssumption DEF OpenSet, KeysOf
<1> QED BY <1>1, FS_Subset, FS_CardinalityType

LEMMA CoverStep ==
  ASSUME IInv, TypeOK', LogInv, HandlesOwnStop, ReleasedBehind, HoldsCover, Next
  PROVE  HoldsCover'
<1> SUFFICES ASSUME MaxSends = 1, crashes' = 0, NEW u \in WalletOwners
             PROVE  hold'[u] >= HoldAmount * Cardinality(OpenSet(u)')
  BY DEF HoldsCover, HoldsCoverOpenSessions, OpenHolds, OpenSet
<1> DEFINE n == Cardinality(OpenSet(u))
<1>0. /\ crashes = 0 /\ HoldAmount \in Nat /\ n \in Nat /\ IsFiniteSet(OpenSet(u))
      /\ hold \in [WalletOwners -> Nat] /\ hold[u] \in Nat
  BY PosAdvances, OpenFinite, SessionsAssumption DEF IInv, TypeInv, TypeOK, W!TypeOK
<1>1. hold[u] >= HoldAmount * n
  BY <1>0 DEF HoldsCover, HoldsCoverOpenSessions, OpenHolds, OpenSet
<1>2. CASE UNCHANGED wallet
  <2>1. OpenSet(u)' = OpenSet(u)
    BY <1>2 DEF OpenSet, Held, Released, KeysOf, wallet
  <2> QED BY <1>1, <1>2, <2>1 DEF wallet
<1>3. ASSUME NEW p \in Calls, HoldFunds(p), call[p].key \in Keys
      PROVE  hold'[u] >= HoldAmount * Cardinality(OpenSet(u)')
  <2> DEFINE j == call[p].key
             m == Cardinality(OpenSet(u)')
  <2>1. hold' = [hold EXCEPT ![UserOf[j]] = @ + HoldAmount]
    BY <1>3 DEF HoldFunds, W!Hold
  <2>2. OpenSet(u)' = {k \in KeysOf(u) : Held(k)' /\ ~Released(k)'}
    BY DEF OpenSet, KeysOf
  <2>3. OpenSet(u)' \subseteq OpenSet(u) \cup {j}
    BY <1>3, <2>2, HoldLedger DEF OpenSet, KeysOf
  <2>4. CASE UserOf[j] = u
    <3>1. /\ IsFiniteSet(OpenSet(u) \cup {j}) /\ Cardinality(OpenSet(u) \cup {j}) <= n + 1
          /\ Cardinality(OpenSet(u) \cup {j}) \in Nat
      <4>1. IsFiniteSet(OpenSet(u) \cup {j})
        BY <1>0, FS_AddElement
      <4>2. CASE j \in OpenSet(u)
        <5>1. OpenSet(u) \cup {j} = OpenSet(u)
          BY <4>2
        <5>2. Cardinality(OpenSet(u) \cup {j}) = n
          BY <5>1
        <5> HIDE DEF n
        <5> QED BY <1>0, <4>1, <5>2
      <4>3. CASE j \notin OpenSet(u)
        <5>1. Cardinality(OpenSet(u) \cup {j}) = n + 1
          BY <1>0, <4>3, FS_AddElement
        <5> HIDE DEF n
        <5> QED BY <1>0, <4>1, <5>1
      <4> QED BY <4>2, <4>3
    <3>2. IsFiniteSet(OpenSet(u)') /\ m <= Cardinality(OpenSet(u) \cup {j})
      BY <2>3, <3>1, FS_Subset
    <3>3. m \in Nat
      BY <3>2, FS_CardinalityType
    <3>4. hold'[u] = hold[u] + HoldAmount
      BY <1>0, <2>1, <2>4
    <3> HIDE DEF m, n
    <3>5. m <= n + 1
      BY <1>0, <3>1, <3>2, <3>3
    <3>6. m * HoldAmount <= (n + 1) * HoldAmount /\ HoldAmount * (n + 1) = HoldAmount * n + HoldAmount
      BY <1>0, <3>3, <3>5, Times
    <3>7. HoldAmount * m <= HoldAmount * n + HoldAmount
      BY <1>0, <3>3, <3>6
    <3>8. HoldAmount * n \in Nat /\ HoldAmount * m \in Nat
      BY <1>0, <3>3
    <3> QED BY <1>0, <1>1, <3>4, <3>7, <3>8 DEF m
  <2>5. CASE UserOf[j] # u
    <3>1. j \notin KeysOf(u)
      BY <2>5 DEF KeysOf
    <3>2. OpenSet(u)' \subseteq OpenSet(u)
      BY <2>2, <2>3, <3>1
    <3>3. m <= n /\ IsFiniteSet(OpenSet(u)')
      BY <1>0, <3>2, FS_Subset
    <3>4. m \in Nat /\ hold'[u] = hold[u]
      BY <1>0, <2>1, <2>5, <3>3, FS_CardinalityType
    <3> HIDE DEF m, n
    <3>5. m * HoldAmount <= n * HoldAmount
      BY <1>0, <3>3, <3>4, Times
    <3>6. HoldAmount * m <= HoldAmount * n /\ HoldAmount * n \in Nat /\ HoldAmount * m \in Nat
      BY <1>0, <3>4, <3>5
    <3> QED BY <1>0, <1>1, <3>4, <3>6 DEF m
  <2> QED BY <2>4, <2>5
<1>4. ASSUME NEW c \in Chargers, CaptureFunds(c), handler[c].key \in Keys
      PROVE  hold'[u] >= HoldAmount * Cardinality(OpenSet(u)')
  <2> DEFINE j == handler[c].key
             m == Cardinality(OpenSet(u)')
  <2>1. hold' = [w \in WalletOwners |-> IF w = UserOf[j] THEN W!SubtractFloor(hold[w], HoldAmount) ELSE hold[w]]
    BY <1>4 DEF CaptureFunds, W!CaptureHold
  <2>2. OpenSet(u)' = {k \in KeysOf(u) : Held(k)' /\ ~Released(k)'}
    BY DEF OpenSet, KeysOf
  <2>3. OpenSet(u)' = OpenSet(u) \ {j}
    BY <1>4, <2>2, CaptureLedger DEF OpenSet, KeysOf
  <2>4. CASE UserOf[j] = u
    <3>1. j \in OpenSet(u)
      <4>1. ~Released(j)
        BY <1>0, <1>4, FirstRelease
      <4>2. HandlerFits(c)
        BY DEF IInv, PausedStepsFit
      <4>3. tx[j].state = "COMPLETED"
        BY <1>4, <4>2 DEF HandlerFits, CaptureFunds
      <4>4. Held(j)
        BY <1>4, <4>3 DEF IInv, InvoiceBacked
      <4> QED BY <1>4, <2>4, <4>1, <4>4 DEF OpenSet, KeysOf
    <3>2. m = n - 1
      <4>1. Cardinality(OpenSet(u) \ {j}) = Cardinality(OpenSet(u)) - 1
        <5>1. IsFiniteSet(OpenSet(u))
          BY <1>0
        <5>2. Cardinality(OpenSet(u) \ {j})
                = IF j \in OpenSet(u) THEN Cardinality(OpenSet(u)) - 1 ELSE Cardinality(OpenSet(u))
          BY <5>1, FS_RemoveElement, Zenon
        <5> QED BY <3>1, <5>2, Zenon
      <4> QED BY <2>3, <4>1
    <3>3. n >= 1
      <4>1. m \in Nat
        BY <1>0, <2>3, FS_RemoveElement, FS_CardinalityType
      <4> HIDE DEF m, n
      <4> QED BY <1>0, <3>2, <4>1
    <3>4. hold'[u] = IF hold[u] >= HoldAmount THEN hold[u] - HoldAmount ELSE 0
      BY <1>0, <2>1, <2>4 DEF W!SubtractFloor
    <3> HIDE DEF m, n
    <3>5. m \in Nat /\ n = m + 1
      BY <1>0, <3>2, <3>3
    <3>6. HoldAmount * (m + 1) = HoldAmount * m + HoldAmount /\ HoldAmount * m \in Nat
      BY <1>0, <3>5, Times
    <3>7. hold[u] >= HoldAmount * m + HoldAmount
      BY <1>1, <3>5, <3>6
    <3> QED BY <1>0, <3>4, <3>6, <3>7 DEF m
  <2>5. CASE UserOf[j] # u
    <3>1. OpenSet(u)' = OpenSet(u)
      BY <2>3, <2>5 DEF OpenSet, KeysOf
    <3>2. hold'[u] = hold[u]
      BY <1>0, <2>1, <2>5
    <3> QED BY <1>1, <3>1, <3>2
  <2> QED BY <2>4, <2>5
<1> QED BY <1>2, <1>3, <1>4, WalletStep

-----------------------------------------------------------------------------
LEMMA DeliveredInit == Init => Delivered
<1> SUFFICES ASSUME Init PROVE Delivered
  OBVIOUS
<1>1. LogInv /\ TypeOK
  BY LogInit, TypeInit DEF TypeInv
<1>2. /\ \A k \in Keys : invoices[k] = <<>> /\ tx[k].ocpp = NoId /\ tx[k].state = "NONE"
      /\ \A c \in Chargers : handler[c].pc = "poll"
      /\ ledger = {} /\ crashes = 0
      /\ \A u \in WalletOwners : hold[u] = 0
  BY DEF Init, NoRow, Poll, W!Init
<1>3. HandlesOwnStop /\ BoundBehind /\ OneSession /\ StopAwaited /\ ReleasedBehind
  BY <1>2 DEF HandlesOwnStop, Stopping, BoundBehind, OneSession, OneSessionPerOcppId,
              StopAwaited, ReleasedBehind, Released
<1>4. InvoicesCounted
  <2> SUFFICES ASSUME NEW k \in Keys
               PROVE  Len(invoices[k]) <= Cardinality(Stops(k)) * crashes + Cardinality(Used(k))
    BY DEF InvoicesCounted
  <2> DEFINE a == Cardinality(Stops(k))
             b == Cardinality(Used(k))
  <2>1. a \in Nat /\ b \in Nat
    BY <1>1, StopsFinite
  <2>2. Len(invoices[k]) = 0 /\ crashes = 0
    BY <1>2
  <2> HIDE DEF a, b
  <2>3. Len(invoices[k]) <= a * crashes + b
    BY <2>1, <2>2
  <2> QED BY <2>3 DEF a, b
<1>5. HoldsCover
  <2> SUFFICES ASSUME NEW u \in WalletOwners
               PROVE  hold[u] >= HoldAmount * OpenHolds(u)
    BY DEF HoldsCover, HoldsCoverOpenSessions
  <2>1. {k \in KeysOf(u) : Held(k) /\ ~Released(k)} = {}
    BY <1>2 DEF Held
  <2>2. OpenHolds(u) = 0
    BY <2>1, FS_EmptySet DEF OpenHolds
  <2> QED BY <1>2, <2>2, SessionsAssumption
<1> QED BY <1>1, <1>3, <1>4, <1>5 DEF Delivered

LEMMA DeliveredStep == IInv /\ IInv' /\ Delivered /\ [Next]_vars => Delivered'
<1> SUFFICES ASSUME IInv, IInv', Delivered, [Next]_vars
             PROVE  Delivered'
  OBVIOUS
<1>1. TypeOK /\ TypeOK'
  BY DEF IInv, TypeInv
<1>2. CASE UNCHANGED vars
  <2>1. \A c, x : StopsOf(c, x)' = StopsOf(c, x)
    BY <1>2 DEF vars, device, StopsOf, StopAt
  <2>2. \A k : Stops(k)' = Stops(k) /\ Used(k)' = Used(k)
    BY <1>2 DEF vars, device, consumer, Stops, Used
  <2>3. \A u : OpenHolds(u)' = OpenHolds(u)
    BY <1>2 DEF vars, wallet, OpenHolds, KeysOf, Held, Released
  <2>4. LogInv'
    BY <1>2, LogElsewhere DEF vars, device, Delivered
  <2>5. InvoicesCounted'
    BY <1>2, <2>2 DEF vars, faults, Delivered, InvoicesCounted
  <2>6. HoldsCover'
    BY <1>2, <2>3 DEF vars, wallet, faults, Delivered, HoldsCover, HoldsCoverOpenSessions
  <2>7. HandlesOwnStop' /\ BoundBehind' /\ OneSession'
    BY <1>2 DEF vars, device, consumer, faults, Delivered, HandlesOwnStop, StopAt, BoundBehind,
                StartAt, OneSession, OneSessionPerOcppId
  <2>8. StopAwaited' /\ ReleasedBehind'
    BY <1>2 DEF vars, wallet, device, consumer, faults, Delivered, StopAwaited, StopAt,
                ReleasedBehind, Released
  <2> QED BY <2>4, <2>5, <2>6, <2>7, <2>8 DEF Delivered
<1>3. CASE Next
  <2>1. LogInv'
    <3>1. ASSUME NEW c \in Chargers, Device(c)
          PROVE  LogInv'
      BY <1>1, <3>1, LogDevice DEF Delivered
    <3>2. ASSUME NEW p \in Calls, StartCall(p)
          PROVE  UNCHANGED <<log, charging, lastId>>
      BY <3>2 DEF StartCall, StartSession, HoldFunds, CreateRow, PublishStart, AuthorizeRow,
                  AbortCall, device
    <3>3. ASSUME NEW c \in Chargers, Handle(c) \/ FailEvent(c) \/ CommitOffset(c) \/ CrashConsumer(c)
          PROVE  UNCHANGED <<log, charging, lastId>>
      BY <3>3 DEF Handle, FindStarted, BindStarted, FindStopped, CompleteRow, Settle, CaptureFunds,
                  FailEvent, CommitOffset, CrashConsumer, device
    <3>4. ASSUME NEW k \in Keys, StopSession(k)
          PROVE  UNCHANGED <<log, charging, lastId>>
      BY <3>4 DEF StopSession
    <3>5. ASSUME NEW c \in Chargers, NEW k \in Keys, NEW r \in Readings, ApplyMeter(c, k, r)
          PROVE  UNCHANGED <<log, charging, lastId>>
      BY <3>5 DEF ApplyMeter, device
    <3>6. UNCHANGED <<log, charging, lastId>> => LogInv'
      BY LogElsewhere DEF Delivered
    <3> QED BY <1>3, <3>1, <3>2, <3>3, <3>4, <3>5, <3>6 DEF Next
  <2>2. HandlesOwnStop' /\ InvoicesCounted'
    BY <1>1, <1>3, OwnStopStep, CountedStep DEF Delivered
  <2>3. BoundBehind' /\ OneSession' /\ StopAwaited'
    BY <1>1, <1>3, BoundStep, AwaitedStep DEF Delivered
  <2>4. ReleasedBehind' /\ HoldsCover'
    BY <1>1, <1>3, ReleasedStep, CoverStep DEF Delivered
  <2> QED BY <2>1, <2>2, <2>3, <2>4 DEF Delivered
<1> QED BY <1>2, <1>3

LEMMA Invariance == Spec => [](IInv /\ Delivered)
<1>1. IInv /\ Delivered /\ [Next]_vars => (IInv /\ Delivered)'
  BY InvStep, DeliveredStep
<1> QED BY <1>1, InvInit, DeliveredInit, PTL DEF Spec

(* A second invoice of a session takes a second delivery of its stop: one  *)
(* per StopTransaction the charger sent, and as many again per crash.      *)
THEOREM InvoicesFollowDeliveries == Spec => []InvoicedPerDelivery
<1>1. IInv /\ Delivered => InvoicedPerDelivery
  <2> SUFFICES ASSUME IInv, Delivered, NEW k \in Keys
               PROVE  Len(invoices[k]) <= Cardinality(Stops(k)) * (1 + crashes)
    BY DEF InvoicedPerDelivery
  <2> DEFINE a == Cardinality(Stops(k))
             b == Cardinality(Used(k))
             n == Len(invoices[k])
  <2>1. TypeOK /\ crashes \in Nat
    BY SessionsAssumption DEF IInv, TypeInv, TypeOK
  <2>2. a \in Nat /\ b \in Nat /\ b <= a
    BY <2>1, StopsFinite
  <2>3. n \in Nat
    <3>1. invoices[k] \in Seq(Nat)
      BY <2>1 DEF TypeOK
    <3> QED BY <3>1
  <2>4. n <= a * crashes + b
    BY DEF Delivered, InvoicesCounted
  <2> HIDE DEF a, b, n
  <2>5. a * crashes \in Nat /\ a * (crashes + 1) = a * crashes + a
    BY <2>1, <2>2, Times
  <2>6. a * (1 + crashes) = a * crashes + a
    <3>1. 1 + crashes = crashes + 1
      BY <2>1
    <3> QED BY <2>5, <3>1
  <2>7. n <= a * (1 + crashes)
    BY <2>2, <2>3, <2>4, <2>5, <2>6
  <2> QED BY <2>7 DEF a, n
<1> QED BY <1>1, Invariance, PTL

(* While no consumer crashed, no two sessions carry the same OCPP id.      *)
THEOREM IdsAreUnique == Spec => [](crashes = 0 => OneSessionPerOcppId)
<1>1. Delivered => (crashes = 0 => OneSessionPerOcppId)
  BY DEF Delivered, OneSession
<1> QED BY <1>1, Invariance, PTL

(* Once every event is handled, the open session of a charger is the one   *)
(* the charger works on, if no message is repeated and nothing failed.     *)
THEOREM QuietChargersAgree ==
  ASSUME MaxSends = 1
  PROVE  Spec => [](crashes = 0 => QuietSessionsAgree)
<1>1. IInv /\ Delivered => (crashes = 0 => QuietSessionsAgree)
  <2> SUFFICES ASSUME IInv, Delivered, crashes = 0, errors = 0,
                      NEW k \in Keys, tx[k].state \in {"CHARGING", "STOPPING"},
                      pos[ChargerOf[k]] = Len(log[ChargerOf[k]])
               PROVE  charging[ChargerOf[k]] = tx[k].ocpp
    BY DEF QuietSessionsAgree
  <2>1. ChargerOf[k] \in Chargers
    BY SessionsAssumption
  <2>2. pos[ChargerOf[k]] \in Nat
    BY <2>1 DEF IInv, TypeInv, TypeOK
  <2>3. \/ charging[ChargerOf[k]] = tx[k].ocpp
        \/ \E i \in pos[ChargerOf[k]] + 1..Len(log[ChargerOf[k]]) : TRUE
    BY DEF Delivered, StopAwaited
  <2> QED BY <2>2, <2>3
<1> QED BY <1>1, Invariance, PTL

(* The column hold_paise covers every hold that is still open: no release  *)
(* takes a hold that is not its own, if no message is repeated.            *)
THEOREM HoldsAreCovered ==
  ASSUME MaxSends = 1
  PROVE  Spec => [](crashes = 0 => HoldsCoverOpenSessions)
<1>1. Delivered => (crashes = 0 => HoldsCoverOpenSessions)
  BY DEF Delivered, HoldsCover
<1> QED BY <1>1, Invariance, PTL

-----------------------------------------------------------------------------
(* Sums.  The library's induction theorems take an operator, so facts about *)
(* sums are proved by a smallest set that would violate them.  The table   *)
(* of the sums of all subsets is what the community module computes from.  *)
AnyOf(S) == CHOOSE x \in S : TRUE

SumTable(f, S, g) ==
  g = [T \in SUBSET S |-> IF T = {} THEN 0 ELSE f[AnyOf(T)] + g[T \ {AnyOf(T)}]]

(* Finite sets are well founded: of sets of subsets of a finite set one is *)
(* minimal.                                                                *)
LEMMA Smallest ==
  ASSUME NEW S, IsFiniteSet(S), NEW X \in SUBSET (SUBSET S), X # {}
  PROVE  \E T \in X : \A U \in X : U \subseteq T => U = T
<1>1. IsWellFoundedOn(StrictSubsetOrdering(S), FiniteSubsetsOf(S)) /\ FiniteSubsetsOf(S) = SUBSET S
  BY FS_StrictSubsetOrderingWellFounded, FS_FiniteSubsetsOfFinite
<1>2. PICK T \in X : \A U \in X : ~(<<U, T>> \in StrictSubsetOrdering(S))
  BY <1>1, WFMin
<1>3. ASSUME NEW U \in X, U \subseteq T, U # T
      PROVE  <<U, T>> \in StrictSubsetOrdering(S)
  <2>1. U \in SUBSET S /\ T \in SUBSET S
    OBVIOUS
  <2> DEFINE p == <<U, T>>
  <2>2. p \in (SUBSET S) \X (SUBSET S) /\ p[1] = U /\ p[2] = T
    BY <2>1
  <2>3. p[1] \subseteq p[2] /\ p[1] # p[2]
    BY <1>3, <2>2
  <2> HIDE DEF p
  <2>4. p \in StrictSubsetOrdering(S)
    BY <2>2, <2>3 DEF StrictSubsetOrdering
  <2> QED BY <2>4 DEF p
<1>4. \A U \in X : U \subseteq T => U = T
  <2> SUFFICES ASSUME NEW U \in X, U \subseteq T, U # T
               PROVE  FALSE
    OBVIOUS
  <2> QED BY <1>2, <1>3
<1> QED BY <1>4

LEMMA AnyIsIn == \A S : S # {} => AnyOf(S) \in S
BY DEF AnyOf

(* Two tables agree.                                                       *)
LEMMA SumTableUnique ==
  ASSUME NEW f, NEW S, NEW T, NEW g, NEW h, IsFiniteSet(S), T \subseteq S,
         SumTable(f, S, g), SumTable(f, T, h), NEW U \in SUBSET T
  PROVE  g[U] = h[U]
<1> SUFFICES ASSUME g[U] # h[U] PROVE FALSE
  OBVIOUS
<1> DEFINE X == {V \in SUBSET T : g[V] # h[V]}
<1>0. X \in SUBSET (SUBSET S) /\ X # {}
  OBVIOUS
<1>1. PICK V \in X : \A L \in X : L \subseteq V => L = V
  <2> HIDE DEF X
  <2> QED BY <1>0, Smallest
<1>2. V \in SUBSET S /\ V \in SUBSET T /\ g[V] # h[V]
  OBVIOUS
<1>3. /\ g[V] = IF V = {} THEN 0 ELSE f[AnyOf(V)] + g[V \ {AnyOf(V)}]
      /\ h[V] = IF V = {} THEN 0 ELSE f[AnyOf(V)] + h[V \ {AnyOf(V)}]
  BY <1>2 DEF SumTable
<1>4. V # {}
  BY <1>2, <1>3
<1> DEFINE L == V \ {AnyOf(V)}
<1>5. L \in SUBSET T /\ L # V /\ L \subseteq V
  BY <1>2, <1>4, AnyIsIn
<1>6. L \notin X
  BY <1>1, <1>5
<1>7. g[L] = h[L]
  BY <1>5, <1>6
<1> QED BY <1>2, <1>3, <1>4, <1>7

LEMMA SumTableExists ==
  ASSUME NEW f, NEW S, IsFiniteSet(S)
  PROVE  \E g : SumTable(f, S, g)
<1> SUFFICES ASSUME ~\E g : SumTable(f, S, g) PROVE FALSE
  OBVIOUS
<1> DEFINE X == {V \in SUBSET S : ~\E g : SumTable(f, V, g)}
<1>0. X \in SUBSET (SUBSET S) /\ X # {}
  OBVIOUS
<1>1. PICK V \in X : \A L \in X : L \subseteq V => L = V
  <2> HIDE DEF X
  <2> QED BY <1>0, Smallest
<1>2. V \in SUBSET S /\ ~\E g : SumTable(f, V, g)
  OBVIOUS
<1> DEFINE G(L) == CHOOSE g : SumTable(f, L, g)
<1>3. ASSUME NEW L \in SUBSET V, L # V
      PROVE  SumTable(f, L, G(L)) /\ IsFiniteSet(L)
  <2>1. L \notin X /\ L \in SUBSET S
    BY <1>1, <1>2, <1>3
  <2>2. \E g : SumTable(f, L, g)
    BY <2>1
  <2> QED BY <2>1, <2>2, FS_Subset
<1> DEFINE Sum(L) == IF L = {} THEN 0 ELSE f[AnyOf(L)] + G(L \ {AnyOf(L)})[L \ {AnyOf(L)}]
           h == [L \in SUBSET V |-> Sum(L)]
<1>4. ASSUME NEW L \in SUBSET V, L # V
      PROVE  h[L] = G(L)[L]
  <2>1. h[L] = Sum(L)
    OBVIOUS
  <2>2. G(L)[L] = IF L = {} THEN 0 ELSE f[AnyOf(L)] + G(L)[L \ {AnyOf(L)}]
    <3>1. SumTable(f, L, G(L))
      BY <1>3, <1>4
    <3> HIDE DEF G
    <3> QED BY <3>1 DEF SumTable
  <2>3. CASE L = {}
    BY <2>1, <2>2, <2>3
  <2>4. CASE L # {}
    <3> DEFINE Y == L \ {AnyOf(L)}
    <3>1. Y \subseteq L /\ Y \in SUBSET V /\ Y # V
      BY <1>4
    <3>2. SumTable(f, L, G(L)) /\ SumTable(f, Y, G(Y)) /\ IsFiniteSet(L)
      BY <1>3, <1>4, <3>1
    <3>3. G(L)[Y] = G(Y)[Y]
      <4> HIDE DEF G, Y
      <4> QED BY <3>1, <3>2, SumTableUnique
    <3> QED BY <2>1, <2>2, <2>4, <3>3
  <2> QED BY <2>3, <2>4
<1>5. ASSUME NEW L \in SUBSET V
      PROVE  h[L] = IF L = {} THEN 0 ELSE f[AnyOf(L)] + h[L \ {AnyOf(L)}]
  <2>1. h[L] = Sum(L)
    OBVIOUS
  <2>2. CASE L # {}
    <3>1. L \ {AnyOf(L)} \in SUBSET V /\ L \ {AnyOf(L)} # V
      BY <2>2, AnyIsIn
    <3>2. h[L \ {AnyOf(L)}] = G(L \ {AnyOf(L)})[L \ {AnyOf(L)}]
      BY <3>1, <1>4
    <3> QED BY <2>1, <2>2, <3>2
  <2> QED BY <2>1, <2>2
<1>6. h = [L \in SUBSET V |-> IF L = {} THEN 0 ELSE f[AnyOf(L)] + h[L \ {AnyOf(L)}]]
  <2>1. h = [L \in SUBSET V |-> h[L]]
    OBVIOUS
  <2> HIDE DEF h
  <2> QED BY <1>5, <2>1
<1>7. SumTable(f, V, h)
  <2> HIDE DEF h
  <2> QED BY <1>6 DEF SumTable
<1> QED BY <1>2, <1>7

LEMMA SumIsTable ==
  ASSUME NEW f, NEW S, IsFiniteSet(S)
  PROVE  \E g : SumTable(f, S, g) /\ SumFunctionOnSet(f, S) = g[S]
<1> DEFINE g == CHOOSE g : SumTable(f, S, g)
<1>1. SumTable(f, S, g)
  BY SumTableExists
<1>2. SumFunctionOnSet(f, S) = g[S]
  BY DEF SumFunctionOnSet, FoldFunctionOnSet, MapThenFoldSet, SumTable, AnyOf
<1> QED BY <1>1, <1>2

(* A sum is of one element, whichever is first, and the others.            *)
LEMMA SumEmpty ==
  ASSUME NEW f
  PROVE  SumFunctionOnSet(f, {}) = 0
<1>1. IsFiniteSet({})
  BY FS_EmptySet
<1> PICK g : SumTable(f, {}, g) /\ SumFunctionOnSet(f, {}) = g[{}]
  BY <1>1, SumIsTable
<1> QED BY DEF SumTable

LEMMA SumOfAny ==
  ASSUME NEW f, NEW S, IsFiniteSet(S), S # {}
  PROVE  SumFunctionOnSet(f, S) = f[AnyOf(S)] + SumFunctionOnSet(f, S \ {AnyOf(S)})
<1> DEFINE R == S \ {AnyOf(S)}
<1>1. IsFiniteSet(R) /\ R \subseteq S
  BY FS_RemoveElement
<1> PICK g : SumTable(f, S, g) /\ SumFunctionOnSet(f, S) = g[S]
  BY SumIsTable
<1> PICK h : SumTable(f, R, h) /\ SumFunctionOnSet(f, R) = h[R]
  BY <1>1, SumIsTable
<1>2. g[R] = h[R]
  <2> HIDE DEF R
  <2> QED BY <1>1, SumTableUnique
<1>3. S \in SUBSET S
  OBVIOUS
<1>4. g[S] = f[AnyOf(S)] + g[R]
  BY <1>3 DEF SumTable
<1> QED BY <1>2, <1>4

LEMMA SumIsInt ==
  ASSUME NEW f, NEW S, IsFiniteSet(S), \A x \in S : f[x] \in Int
  PROVE  SumFunctionOnSet(f, S) \in Int
<1> DEFINE X == {T \in SUBSET S : SumFunctionOnSet(f, T) \notin Int}
<1> SUFFICES ASSUME SumFunctionOnSet(f, S) \notin Int PROVE FALSE
  OBVIOUS
<1>0. X \in SUBSET (SUBSET S) /\ X # {}
  OBVIOUS
<1>1. PICK T \in X : \A U \in X : U \subseteq T => U = T
  <2> HIDE DEF X
  <2> QED BY <1>0, Smallest
<1>2. T \in SUBSET S /\ SumFunctionOnSet(f, T) \notin Int
  OBVIOUS
<1>3. T # {}
  BY <1>2, SumEmpty
<1>4. AnyOf(T) \in T /\ IsFiniteSet(T)
  BY <1>2, <1>3, AnyIsIn, FS_Subset
<1> DEFINE R == T \ {AnyOf(T)}
<1>5. R \subseteq T /\ R # T /\ R \in SUBSET S
  BY <1>2, <1>4
<1>6. R \notin X
  BY <1>1, <1>5
<1>7. SumFunctionOnSet(f, R) \in Int
  BY <1>5, <1>6
<1>8. f[AnyOf(T)] \in Int
  BY <1>2, <1>4
<1> QED BY <1>2, <1>3, <1>4, <1>7, <1>8, SumOfAny

LEMMA SumWithout ==
  ASSUME NEW f, NEW S, IsFiniteSet(S), \A x \in S : f[x] \in Int, NEW y \in S
  PROVE  SumFunctionOnSet(f, S) = f[y] + SumFunctionOnSet(f, S \ {y})
<1> DEFINE Splits(T) == \A z \in T : SumFunctionOnSet(f, T) = f[z] + SumFunctionOnSet(f, T \ {z})
           X == {T \in SUBSET S : ~Splits(T)}
<1> SUFFICES ASSUME ~Splits(S) PROVE FALSE
  OBVIOUS
<1>0. X \in SUBSET (SUBSET S) /\ X # {}
  OBVIOUS
<1>1. PICK T \in X : \A U \in X : U \subseteq T => U = T
  <2> HIDE DEF X
  <2> QED BY <1>0, Smallest
<1>2. T \in SUBSET S /\ ~Splits(T)
  OBVIOUS
<1>3. PICK z \in T : SumFunctionOnSet(f, T) # f[z] + SumFunctionOnSet(f, T \ {z})
  BY <1>2
<1> DEFINE a == AnyOf(T)
           R == T \ {a}
           Z == T \ {z}
           B == T \ {a, z}
<1>4. a \in T /\ IsFiniteSet(T)
  BY <1>2, <1>3, AnyIsIn, FS_Subset
<1>5. SumFunctionOnSet(f, T) = f[a] + SumFunctionOnSet(f, R)
  BY <1>3, <1>4, SumOfAny
<1>6. a # z
  BY <1>3, <1>5
<1>7. R \subseteq T /\ R # T /\ Z \subseteq T /\ Z # T /\ R \in SUBSET S /\ Z \in SUBSET S
  BY <1>2, <1>4
<1>8. Splits(R) /\ Splits(Z)
  <2>1. R \notin X /\ Z \notin X
    BY <1>1, <1>7
  <2> HIDE DEF Splits, R, Z
  <2> QED BY <1>7, <2>1
<1>9. z \in R /\ a \in Z /\ R \ {z} = B /\ Z \ {a} = B
  BY <1>4, <1>6
<1>10. /\ SumFunctionOnSet(f, R) = f[z] + SumFunctionOnSet(f, B)
       /\ SumFunctionOnSet(f, Z) = f[a] + SumFunctionOnSet(f, B)
  <2>1. SumFunctionOnSet(f, R) = f[z] + SumFunctionOnSet(f, R \ {z})
    BY <1>8, <1>9
  <2>2. SumFunctionOnSet(f, Z) = f[a] + SumFunctionOnSet(f, Z \ {a})
    BY <1>8, <1>9
  <2> QED BY <1>9, <2>1, <2>2
<1>11. f[a] \in Int /\ f[z] \in Int /\ SumFunctionOnSet(f, B) \in Int
  <2>1. IsFiniteSet(B) /\ \A x \in B : f[x] \in Int
    BY <1>2, <1>4, FS_Subset
  <2>2. SumFunctionOnSet(f, B) \in Int
    <3> HIDE DEF B
    <3> QED BY <2>1, SumIsInt
  <2> QED BY <1>2, <1>4, <2>2
<1> HIDE DEF a, R, Z, B
<1>12. SumFunctionOnSet(f, T) = f[z] + SumFunctionOnSet(f, Z)
  BY <1>5, <1>10, <1>11
<1> QED BY <1>3, <1>12 DEF Z

LEMMA SumWith ==
  ASSUME NEW f, NEW S, IsFiniteSet(S), NEW y, y \notin S, \A x \in S \cup {y} : f[x] \in Int
  PROVE  SumFunctionOnSet(f, S \cup {y}) = SumFunctionOnSet(f, S) + f[y]
<1>1. IsFiniteSet(S \cup {y}) /\ (S \cup {y}) \ {y} = S /\ y \in S \cup {y}
  BY FS_AddElement
<1>2. SumFunctionOnSet(f, S) \in Int /\ f[y] \in Int
  BY SumIsInt
<1>3. SumFunctionOnSet(f, S \cup {y}) = f[y] + SumFunctionOnSet(f, (S \cup {y}) \ {y})
  <2> DEFINE U == S \cup {y}
  <2>1. IsFiniteSet(U) /\ y \in U /\ \A x \in U : f[x] \in Int
    BY <1>1
  <2> HIDE DEF U
  <2>2. SumFunctionOnSet(f, U) = f[y] + SumFunctionOnSet(f, U \ {y})
    BY <2>1, SumWithout
  <2> QED BY <2>2 DEF U
<1>4. SumFunctionOnSet(f, S \cup {y}) = f[y] + SumFunctionOnSet(f, S)
  BY <1>1, <1>3
<1> QED BY <1>2, <1>4

(* Larger numbers have a larger sum.                                       *)
LEMMA SumGrows ==
  ASSUME NEW f, NEW h, NEW S, IsFiniteSet(S),
         \A x \in S : f[x] \in Int /\ h[x] \in Int /\ f[x] <= h[x]
  PROVE  SumFunctionOnSet(f, S) <= SumFunctionOnSet(h, S)
<1> DEFINE X == {T \in SUBSET S : ~(SumFunctionOnSet(f, T) <= SumFunctionOnSet(h, T))}
<1> SUFFICES ASSUME ~(SumFunctionOnSet(f, S) <= SumFunctionOnSet(h, S)) PROVE FALSE
  OBVIOUS
<1>0. X \in SUBSET (SUBSET S) /\ X # {}
  OBVIOUS
<1>1. PICK T \in X : \A U \in X : U \subseteq T => U = T
  <2> HIDE DEF X
  <2> QED BY <1>0, Smallest
<1>2. T \in SUBSET S /\ ~(SumFunctionOnSet(f, T) <= SumFunctionOnSet(h, T))
  OBVIOUS
<1>3. T # {}
  <2> SUFFICES ASSUME T = {} PROVE FALSE
    OBVIOUS
  <2>1. SumFunctionOnSet(f, {}) = 0 /\ SumFunctionOnSet(h, {}) = 0
    BY SumEmpty
  <2> QED BY <1>2, <2>1
<1> DEFINE a == AnyOf(T)
           R == T \ {a}
<1>4. a \in T /\ IsFiniteSet(T) /\ IsFiniteSet(R)
  BY <1>2, <1>3, AnyIsIn, FS_Subset
<1>5. R \subseteq T /\ R # T /\ R \in SUBSET S
  BY <1>2, <1>4
<1>6. SumFunctionOnSet(f, R) <= SumFunctionOnSet(h, R)
  <2>1. R \notin X
    BY <1>1, <1>5
  <2> QED BY <1>5, <2>1
<1>7. /\ SumFunctionOnSet(f, T) = f[a] + SumFunctionOnSet(f, R)
      /\ SumFunctionOnSet(h, T) = h[a] + SumFunctionOnSet(h, R)
  BY <1>3, <1>4, SumOfAny
<1>8. SumFunctionOnSet(f, R) \in Int /\ SumFunctionOnSet(h, R) \in Int
  <2> HIDE DEF R
  <2> QED BY <1>4, <1>5, SumIsInt
<1>9. f[a] \in Int /\ h[a] \in Int /\ f[a] <= h[a]
  BY <1>2, <1>4
<1> HIDE DEF a, R
<1> QED BY <1>2, <1>6, <1>7, <1>8, <1>9

LEMMA SumSame ==
  ASSUME NEW f, NEW h, NEW S, IsFiniteSet(S),
         \A x \in S : f[x] \in Int /\ h[x] = f[x]
  PROVE  SumFunctionOnSet(h, S) = SumFunctionOnSet(f, S)
<1>1. \A x \in S : f[x] \in Int /\ h[x] \in Int /\ f[x] <= h[x] /\ h[x] <= f[x]
  OBVIOUS
<1>2. SumFunctionOnSet(f, S) <= SumFunctionOnSet(h, S) /\ SumFunctionOnSet(h, S) <= SumFunctionOnSet(f, S)
  BY <1>1, SumGrows
<1>3. SumFunctionOnSet(f, S) \in Int /\ SumFunctionOnSet(h, S) \in Int
  BY <1>1, SumIsInt
<1> QED BY <1>2, <1>3

(* One number that is larger by t makes the sum larger by t.               *)
LEMMA SumGrowsAt ==
  ASSUME NEW f, NEW h, NEW S, IsFiniteSet(S), NEW y \in S, NEW t \in Int,
         \A x \in S : f[x] \in Int /\ h[x] \in Int /\ f[x] <= h[x], f[y] + t <= h[y]
  PROVE  SumFunctionOnSet(f, S) + t <= SumFunctionOnSet(h, S)
<1> DEFINE R == S \ {y}
<1>1. IsFiniteSet(R) /\ \A x \in R : f[x] \in Int /\ h[x] \in Int /\ f[x] <= h[x]
  BY FS_RemoveElement
<1>2. /\ SumFunctionOnSet(f, S) = f[y] + SumFunctionOnSet(f, R)
      /\ SumFunctionOnSet(h, S) = h[y] + SumFunctionOnSet(h, R)
  BY SumWithout
<1> HIDE DEF R
<1>3. /\ SumFunctionOnSet(f, R) \in Int /\ SumFunctionOnSet(h, R) \in Int
      /\ SumFunctionOnSet(f, R) <= SumFunctionOnSet(h, R)
  BY <1>1, SumIsInt, SumGrows
<1>4. f[y] \in Int /\ h[y] \in Int
  OBVIOUS
<1> QED BY <1>2, <1>3, <1>4

LEMMA SumOfZeros ==
  ASSUME NEW f, NEW S, IsFiniteSet(S), \A x \in S : f[x] = 0
  PROVE  SumFunctionOnSet(f, S) = 0
<1> DEFINE X == {T \in SUBSET S : SumFunctionOnSet(f, T) # 0}
<1> SUFFICES ASSUME SumFunctionOnSet(f, S) # 0 PROVE FALSE
  OBVIOUS
<1>0. X \in SUBSET (SUBSET S) /\ X # {}
  OBVIOUS
<1>1. PICK T \in X : \A U \in X : U \subseteq T => U = T
  <2> HIDE DEF X
  <2> QED BY <1>0, Smallest
<1>2. T \in SUBSET S /\ SumFunctionOnSet(f, T) # 0
  OBVIOUS
<1>3. T # {}
  BY <1>2, SumEmpty
<1>4. AnyOf(T) \in T /\ IsFiniteSet(T)
  BY <1>2, <1>3, AnyIsIn, FS_Subset
<1> DEFINE R == T \ {AnyOf(T)}
<1>5. R \subseteq T /\ R # T /\ R \in SUBSET S
  BY <1>2, <1>4
<1>6. SumFunctionOnSet(f, R) = 0
  <2>1. R \notin X
    BY <1>1, <1>5
  <2> QED BY <1>5, <2>1
<1>7. f[AnyOf(T)] = 0
  BY <1>2, <1>4
<1> QED BY <1>2, <1>3, <1>4, <1>6, <1>7, SumOfAny

-----------------------------------------------------------------------------
(* Invoices and captures.  A debit is covered by invoices of which every   *)
(* one is owed until its own capture: an invoice that is still owed cannot *)
(* cover the debit of another.                                             *)
LEMMA TotalIsInt ==
  ASSUME NEW s \in Seq(Nat)
  PROVE  Total(s) \in Int
<1> DEFINE S == DOMAIN s
<1>1. S = 1..Len(s) /\ Len(s) \in Int
  OBVIOUS
<1>2. IsFiniteSet(S)
  <2>1. IsFiniteSet(1..Len(s))
    BY <1>1, FS_Interval
  <2> QED BY <1>1, <2>1
<1>3. \A i \in S : s[i] \in Int
  BY <1>1
<1> HIDE DEF S
<1>4. SumFunctionOnSet(s, S) \in Int
  BY <1>2, <1>3, SumIsInt
<1> QED BY <1>4 DEF Total, SumFunction, S

LEMMA AppendTotal ==
  ASSUME NEW s \in Seq(Nat), NEW t \in Nat
  PROVE  Total(Append(s, t)) = Total(s) + t
<1> DEFINE r == Append(s, t)
           S == 1..Len(s)
           y == Len(s) + 1
<1>1. /\ DOMAIN s = S /\ DOMAIN r = S \cup {y} /\ Len(s) \in Int /\ y \notin S
      /\ \A i \in S : s[i] \in Int /\ r[i] = s[i]
      /\ r[y] = t
  OBVIOUS
<1>2. IsFiniteSet(S)
  BY <1>1, FS_Interval
<1> HIDE DEF r, S, y
<1>3. \A i \in S \cup {y} : r[i] \in Int
  BY <1>1
<1>4. SumFunctionOnSet(r, S \cup {y}) = SumFunctionOnSet(r, S) + r[y]
  BY <1>1, <1>2, <1>3, SumWith
<1>5. SumFunctionOnSet(r, S) = SumFunctionOnSet(s, S)
  BY <1>1, <1>2, SumSame
<1>6. Total(r) = SumFunctionOnSet(r, S \cup {y}) /\ Total(s) = SumFunctionOnSet(s, S)
  BY <1>1 DEF Total, SumFunction
<1>7. Total(r) = Total(s) + t
  BY <1>1, <1>4, <1>5, <1>6
<1> QED BY <1>7 DEF r

(* What a handler has invoiced and not captured yet.                       *)
Owed(k) ==
  LET h == handler[ChargerOf[k]]
  IN  IF h.pc = "capture" /\ h.key = k THEN h.total ELSE 0

Due(k) == Total(invoices[k]) - Owed(k)

DebitWithinDue ==
  \A u \in WalletOwners : InitBalance[u] - balance[u] <= SumFunctionOnSet([k \in Keys |-> Due(k)], KeysOf(u))

LEMMA DueIsInt == TypeOK => \A k \in Keys : Owed(k) \in Nat /\ Due(k) \in Int
<1> SUFFICES ASSUME TypeOK, NEW k \in Keys PROVE Owed(k) \in Nat /\ Due(k) \in Int
  OBVIOUS
<1>1. handler[ChargerOf[k]] \in HandlerState /\ invoices[k] \in Seq(Nat)
  BY SessionsAssumption DEF TypeOK
<1>2. Total(invoices[k]) \in Int
  BY <1>1, TotalIsInt
<1>3. Owed(k) \in Nat
  BY <1>1 DEF Owed, HandlerState
<1> QED BY <1>2, <1>3 DEF Due

LEMMA DueIsIntThen == TypeOK' => \A k \in Keys : Owed(k)' \in Nat /\ Due(k)' \in Int
<1> DEFINE Typed == \A k \in Keys : Owed(k) \in Nat /\ Due(k) \in Int
<1>1. TypeOK => Typed
  BY DueIsInt
<1> HIDE DEF Typed
<1>2. TypeOK' => Typed'
  BY <1>1, PTL
<1> QED BY <1>2 DEF Typed

LEMMA KeysFinite == \A u : IsFiniteSet(KeysOf(u)) /\ KeysOf(u) \subseteq Keys
BY SessionsAssumption, FS_Subset DEF KeysOf

(* Invoices are added and what is owed is paid or given up.                *)
LEMMA DueGrows ==
  ASSUME TypeOK, TypeOK', DebitWithinDue, UNCHANGED balance, \A k \in Keys : Due(k) <= Due(k)'
  PROVE  DebitWithinDue'
<1> SUFFICES ASSUME NEW u \in WalletOwners
             PROVE  InitBalance[u] - balance[u] <= SumFunctionOnSet([k \in Keys |-> Due(k)'], KeysOf(u))
  BY DEF DebitWithinDue, KeysOf
<1> DEFINE f == [k \in Keys |-> Due(k)]
           h == [k \in Keys |-> Due(k)']
           S == KeysOf(u)
<1>1. IsFiniteSet(S) /\ \A k \in S : f[k] \in Int /\ h[k] \in Int /\ f[k] <= h[k]
  BY KeysFinite, DueIsInt, DueIsIntThen
<1>2. InitBalance[u] - balance[u] <= SumFunctionOnSet(f, S) /\ InitBalance[u] \in Int /\ balance[u] \in Int
  BY SessionsAssumption DEF DebitWithinDue, TypeOK, W!TypeOK
<1> HIDE DEF f, h, S
<1>3. SumFunctionOnSet(f, S) <= SumFunctionOnSet(h, S)
  BY <1>1, SumGrows
<1>4. SumFunctionOnSet(f, S) \in Int /\ SumFunctionOnSet(h, S) \in Int
  BY <1>1, SumIsInt
<1>5. InitBalance[u] - balance[u] <= SumFunctionOnSet(h, S)
  BY <1>2, <1>3, <1>4
<1> QED BY <1>5 DEF h, S

(* The key of a settlement belongs to the partition that is handled.       *)
LEMMA OwnKey ==
  ASSUME IInv, LogInv, HandlesOwnStop, NEW c \in Chargers, handler[c].pc \in Stopping
  PROVE  handler[c].key \in Keys /\ ChargerOf[handler[c].key] = c
<1> PICK k \in Keys : k = handler[c].key
  BY DEF IInv, TypeInv, HandlersHaveEvents, Stopping
<1>1. pos[c] < Len(log[c]) /\ pos[c] \in Nat /\ log[c] \in Seq(Event)
  BY DEF IInv, TypeInv, TypeOK, HandlersHaveEvents, Stopping
<1>2. pos[c] + 1 \in 1..Len(log[c])
  BY <1>1, LenProperties
<1>3. StopAt(c, pos[c] + 1, tx[k].ocpp)
  BY DEF HandlesOwnStop
<1> QED BY <1>2, <1>3, OwnStop

(* A handler that stops working, or is not at its capture yet.             *)
LEMMA DueStays ==
  ASSUME TypeOK, TypeOK', UNCHANGED invoices, NEW c \in Chargers,
         \A d \in Chargers : d # c => handler'[d] = handler[d], handler'[c].pc # "capture"
  PROVE  \A k \in Keys : Due(k) <= Due(k)'
<1> SUFFICES ASSUME NEW k \in Keys PROVE Due(k) <= Due(k)'
  OBVIOUS
<1>1. ChargerOf[k] \in Chargers /\ Owed(k) \in Nat /\ Owed(k)' \in Nat
  BY SessionsAssumption, DueIsInt, DueIsIntThen
<1>2. Total(invoices[k]) \in Int /\ Total(invoices[k])' = Total(invoices[k])
  BY TotalIsInt DEF TypeOK
<1>3. Owed(k)' <= Owed(k)
  <2>1. CASE ChargerOf[k] = c
    <3>1. Owed(k)' = 0
      BY <2>1 DEF Owed
    <3> QED BY <1>1, <3>1
  <2>2. CASE ChargerOf[k] # c
    <3>1. Owed(k)' = Owed(k)
      BY <1>1, <2>2 DEF Owed
    <3> QED BY <1>1, <3>1
  <2> QED BY <2>1, <2>2
<1> QED BY <1>1, <1>2, <1>3 DEF Due

(* An invoice is owed until its capture.                                   *)
LEMMA DueSettle ==
  ASSUME IInv, TypeOK', LogInv, HandlesOwnStop, NEW c \in Chargers, Settle(c)
  PROVE  \A k \in Keys : Due(k)' = Due(k)
<1>0. TypeOK /\ handler[c].pc = "settle" /\ invoices \in [Keys -> Seq(Nat)] /\ handler \in [Chargers -> HandlerState]
  BY DEF IInv, TypeInv, TypeOK, Settle, Running
<1>1. handler[c].key \in Keys /\ ChargerOf[handler[c].key] = c
  BY <1>0, OwnKey DEF Stopping
<1> PICK j \in Keys : j = handler[c].key
  BY <1>1
<1> PICK total \in Charges[tx[j].energy] :
         invoices' = [invoices EXCEPT ![j] = Append(@, total)] /\ Enter(c, "capture", j, total)
  BY DEF Settle
<1>2. total \in Nat
  BY SessionsAssumption, <1>0 DEF TypeOK, TxRow
<1>3. handler'[c] = [pc |-> "capture", key |-> j, total |-> total] /\ \A d \in Chargers : d # c => handler'[d] = handler[d]
  BY <1>0 DEF Enter
<1> SUFFICES ASSUME NEW k \in Keys PROVE Due(k)' = Due(k)
  OBVIOUS
<1>4. Total(invoices[k]) \in Int /\ ChargerOf[k] \in Chargers
  BY <1>0, TotalIsInt, SessionsAssumption
<1>5. CASE k = j
  <2>1. invoices'[k] = Append(invoices[k], total)
    BY <1>0, <1>5
  <2>2. Total(invoices'[k]) = Total(invoices[k]) + total
    BY <1>0, <1>2, <2>1, AppendTotal
  <2>3. Owed(k) = 0 /\ Owed(k)' = total
    BY <1>0, <1>1, <1>3, <1>5 DEF Owed
  <2> QED BY <1>2, <1>4, <2>2, <2>3 DEF Due
<1>6. CASE k # j
  <2>1. invoices'[k] = invoices[k]
    BY <1>0, <1>6
  <2>2. CASE ChargerOf[k] = c
    <3>1. Owed(k) = 0
      BY <1>0, <2>2 DEF Owed
    <3>2. Owed(k)' = 0
      BY <1>3, <1>6, <2>2 DEF Owed
    <3> QED BY <2>1, <3>1, <3>2 DEF Due
  <2>3. CASE ChargerOf[k] # c
    <3>1. Owed(k)' = Owed(k)
      BY <1>3, <1>4, <2>3 DEF Owed
    <3> QED BY <2>1, <3>1 DEF Due
  <2> QED BY <2>2, <2>3
<1> QED BY <1>5, <1>6

(* A capture takes no more than was owed.                                  *)
LEMMA DueCapture ==
  ASSUME IInv, TypeOK', LogInv, HandlesOwnStop, DebitWithinDue, NEW c \in Chargers, CaptureFunds(c)
  PROVE  DebitWithinDue'
<1>0. /\ TypeOK /\ handler[c].pc = "capture" /\ handler \in [Chargers -> HandlerState]
      /\ balance \in [WalletOwners -> Nat] /\ handler[c].total \in Nat
  BY DEF IInv, TypeInv, TypeOK, W!TypeOK, CaptureFunds, Running, HandlerState
<1>1. handler[c].key \in Keys /\ ChargerOf[handler[c].key] = c
  BY <1>0, OwnKey DEF Stopping
<1> PICK j \in Keys : j = handler[c].key
  BY <1>1
<1>2. /\ \A d \in Chargers : d # c => handler'[d] = handler[d]
      /\ handler'[c].pc # "capture" /\ UNCHANGED invoices
  BY <1>0 DEF CaptureFunds, Done, Poll
<1>3. \A k \in Keys : Due(k) <= Due(k)'
  BY <1>0, <1>2, DueStays
<1> DEFINE t == handler[c].total
<1>4. Due(j) + t <= Due(j)'
  <2>1. Owed(j) = t /\ Owed(j)' = 0
    BY <1>0, <1>1, <1>2 DEF Owed
  <2>2. Total(invoices[j]) \in Int /\ Total(invoices[j])' = Total(invoices[j])
    BY <1>0, <1>2, TotalIsInt DEF TypeOK
  <2>3. t \in Nat
    BY <1>0
  <2> HIDE DEF t
  <2>4. Due(j) = Total(invoices[j]) - t /\ Due(j)' = Total(invoices[j])
    BY <2>1, <2>2 DEF Due
  <2> QED BY <2>2, <2>3, <2>4
<1>5. balance' = [w \in WalletOwners |-> IF w = UserOf[j] THEN W!SubtractFloor(balance[w], t) ELSE balance[w]]
  BY DEF CaptureFunds, W!CaptureHold, Actual
<1> SUFFICES ASSUME NEW u \in WalletOwners
             PROVE  InitBalance[u] - balance'[u] <= SumFunctionOnSet([k \in Keys |-> Due(k)'], KeysOf(u))
  BY DEF DebitWithinDue, KeysOf
<1> DEFINE f == [k \in Keys |-> Due(k)]
           h == [k \in Keys |-> Due(k)']
           S == KeysOf(u)
<1>6. IsFiniteSet(S) /\ \A k \in S : f[k] \in Int /\ h[k] \in Int /\ f[k] <= h[k]
  BY <1>0, <1>3, KeysFinite, DueIsInt, DueIsIntThen
<1>7. InitBalance[u] - balance[u] <= SumFunctionOnSet(f, S) /\ InitBalance[u] \in Int /\ balance[u] \in Nat
  BY <1>0, SessionsAssumption DEF DebitWithinDue
<1>8. f[j] + t <= h[j] /\ t \in Nat
  BY <1>0, <1>4
<1>9. j \in S <=> UserOf[j] = u
  BY DEF KeysOf
<1>10. balance'[u] = IF u = UserOf[j] THEN IF balance[u] >= t THEN balance[u] - t ELSE 0 ELSE balance[u]
  BY <1>5 DEF W!SubtractFloor
<1> HIDE DEF f, h, S, t
<1>11. SumFunctionOnSet(f, S) \in Int /\ SumFunctionOnSet(h, S) \in Int
  BY <1>6, SumIsInt
<1>12. CASE UserOf[j] = u
  <2>1. SumFunctionOnSet(f, S) + t <= SumFunctionOnSet(h, S)
    BY <1>6, <1>8, <1>9, <1>12, SumGrowsAt
  <2>2. InitBalance[u] - balance'[u] <= SumFunctionOnSet(h, S)
    BY <1>7, <1>8, <1>10, <1>11, <2>1
  <2> QED BY <2>2 DEF h, S
<1>13. CASE UserOf[j] # u
  <2>1. SumFunctionOnSet(f, S) <= SumFunctionOnSet(h, S)
    BY <1>6, SumGrows
  <2>2. InitBalance[u] - balance'[u] <= SumFunctionOnSet(h, S)
    BY <1>7, <1>10, <1>11, <1>13, <2>1
  <2> QED BY <2>2 DEF h, S
<1> QED BY <1>12, <1>13

LEMMA DebitStep ==
  ASSUME IInv, TypeOK', LogInv, HandlesOwnStop, DebitWithinDue, Next
  PROVE  DebitWithinDue'
<1>0. TypeOK
  BY DEF IInv, TypeInv
<1>1. CASE \E c \in Chargers : CaptureFunds(c)
  BY <1>1, DueCapture
<1>2. ASSUME ~\E c \in Chargers : CaptureFunds(c)
      PROVE  UNCHANGED balance
  BY <1>2, WalletStep DEF HoldFunds, W!Hold, wallet
<1>3. ASSUME \A k \in Keys : Due(k) <= Due(k)', ~\E c \in Chargers : CaptureFunds(c)
      PROVE  DebitWithinDue'
  BY <1>0, <1>2, <1>3, DueGrows
<1>4. ASSUME Aside \/ UNCHANGED <<handler, invoices>>
      PROVE  \A k \in Keys : Due(k) <= Due(k)'
  <2>1. UNCHANGED <<handler, invoices>>
    BY <1>4, AsideEffect
  <2>2. \A k \in Keys : Due(k)' = Due(k)
    BY <2>1 DEF Due, Owed
  <2> QED BY <1>0, <2>2, DueIsInt
<1>5. ASSUME NEW c \in Chargers, Settle(c)
      PROVE  \A k \in Keys : Due(k) <= Due(k)'
  BY <1>0, <1>5, DueSettle, DueIsInt
<1>6. ASSUME NEW c \in Chargers, (Handle(c) /\ ~Settle(c) /\ ~CaptureFunds(c)) \/ FailEvent(c) \/ CrashConsumer(c)
      PROVE  \A k \in Keys : Due(k) <= Due(k)'
  <2>0. handler \in [Chargers -> HandlerState] /\ Poll.pc = "poll"
    BY <1>0 DEF TypeOK, Poll
  <2>1. UNCHANGED invoices
    BY <1>6 DEF Handle, FindStarted, BindStarted, FindStopped, CompleteRow, FailEvent, CrashConsumer
  <2>2. \A d \in Chargers : d # c => handler'[d] = handler[d]
    BY <1>6, <2>0, HandleEffect DEF CrashConsumer
  <2>3. handler'[c].pc # "capture"
    BY <1>6, <2>0 DEF Handle, FindStarted, BindStarted, FindStopped, CompleteRow, FailEvent, CrashConsumer, Done, Enter
  <2> QED BY <1>0, <2>1, <2>2, <2>3, DueStays
<1> QED BY <1>1, <1>3, <1>4, <1>5, <1>6 DEF Next, Aside

LEMMA DebitInit == Init => DebitWithinDue
<1> SUFFICES ASSUME Init, NEW u \in WalletOwners
             PROVE  InitBalance[u] - balance[u] <= SumFunctionOnSet([k \in Keys |-> Due(k)], KeysOf(u))
  BY DEF DebitWithinDue
<1> DEFINE f == [k \in Keys |-> Due(k)]
           S == KeysOf(u)
<1>1. \A k \in Keys : Due(k) = 0
  <2> SUFFICES ASSUME NEW k \in Keys PROVE Due(k) = 0
    OBVIOUS
  <2>1. invoices[k] = << >> /\ handler[ChargerOf[k]].pc = "poll"
    BY SessionsAssumption DEF Init, Poll
  <2>2. DOMAIN << >> = {}
    OBVIOUS
  <2>3. Total(<< >>) = 0
    BY <2>2, SumEmpty DEF Total, SumFunction
  <2> QED BY <2>1, <2>3 DEF Due, Owed
<1>2. balance[u] = InitBalance[u] /\ InitBalance[u] \in Nat
  BY SessionsAssumption DEF Init, W!Init
<1>3. IsFiniteSet(S) /\ \A k \in S : f[k] = 0
  BY <1>1, KeysFinite
<1> HIDE DEF f, S
<1>4. SumFunctionOnSet(f, S) = 0
  BY <1>3, SumOfZeros
<1> QED BY <1>2, <1>4 DEF f, S

(* A user never pays more than the invoices say, whatever is repeated,     *)
(* fails or crashes: a capture that comes again was invoiced again.        *)
THEOREM DebitsAreInvoiced == Spec => []DebitWithinInvoices
<1>1. IInv /\ Delivered /\ DebitWithinDue => DebitWithinInvoices
  <2> SUFFICES ASSUME TypeOK, DebitWithinDue, NEW u \in WalletOwners
               PROVE  InitBalance[u] - balance[u] <= SumFunctionOnSet([k \in Keys |-> Total(invoices[k])], KeysOf(u))
    BY DEF DebitWithinInvoices, Invoiced, IInv, TypeInv
  <2> DEFINE f == [k \in Keys |-> Due(k)]
             h == [k \in Keys |-> Total(invoices[k])]
             S == KeysOf(u)
  <2>1. \A k \in Keys : f[k] \in Int /\ h[k] \in Int /\ f[k] <= h[k]
    <3> SUFFICES ASSUME NEW k \in Keys PROVE f[k] \in Int /\ h[k] \in Int /\ f[k] <= h[k]
      OBVIOUS
    <3>1. Total(invoices[k]) \in Int /\ Owed(k) \in Nat
      BY TotalIsInt, DueIsInt DEF TypeOK
    <3> QED BY <3>1 DEF Due
  <2>2. IsFiniteSet(S) /\ \A k \in S : f[k] \in Int /\ h[k] \in Int /\ f[k] <= h[k]
    BY <2>1, KeysFinite
  <2>3. InitBalance[u] - balance[u] <= SumFunctionOnSet(f, S) /\ InitBalance[u] \in Int /\ balance[u] \in Int
    BY SessionsAssumption DEF DebitWithinDue, TypeOK, W!TypeOK
  <2> HIDE DEF f, h, S
  <2>4. SumFunctionOnSet(f, S) <= SumFunctionOnSet(h, S)
    BY <2>2, SumGrows
  <2>5. SumFunctionOnSet(f, S) \in Int /\ SumFunctionOnSet(h, S) \in Int
    BY <2>2, SumIsInt
  <2>6. InitBalance[u] - balance[u] <= SumFunctionOnSet(h, S)
    BY <2>3, <2>4, <2>5
  <2> QED BY <2>6 DEF h, S
<1>2. IInv /\ Delivered /\ TypeOK' /\ DebitWithinDue /\ [Next]_vars => DebitWithinDue'
  <2>1. CASE UNCHANGED vars
    <3>1. UNCHANGED <<balance, handler, invoices>>
      BY <2>1 DEF vars, wallet, consumer
    <3> QED BY <3>1 DEF DebitWithinDue, Due, Owed, KeysOf
  <2> QED BY <2>1, DebitStep DEF Delivered
<1>3. IInv => TypeOK
  BY DEF IInv, TypeInv
<1> QED BY <1>1, <1>2, <1>3, DebitInit, Invariance, PTL DEF Spec

-----------------------------------------------------------------------------
(* The ledger and the balance.                                             *)
CaptureRow(k) == \E e \in ledger : e.ref = PayRef(k) /\ e.reason = "capture"

(* The rows of one settlement are written together.                        *)
LedgerInv ==
  /\ IsFiniteSet(ledger)
  /\ \A k \in Keys : CaptureRow(k) => Released(k)

Explained == MaxSends = 1 /\ crashes = 0 => LedgerExplainsBalance

LEMMA HoldRows ==
  ASSUME NEW p \in Calls, HoldFunds(p)
  PROVE  \E r : /\ r.reason = "hold" /\ UNCHANGED balance
                /\ ledger \subseteq ledger' /\ ledger' \subseteq ledger \cup {r}
<1> DEFINE r == W!Entry(UserOf[call[p].key], -HoldAmount, "hold", HoldRef(call[p].key))
<1>1. r.reason = "hold"
  BY DEF W!Entry
<1>2. ledger' = ledger \cup {x \in {r} : \A e \in ledger : e.ref # x.ref \/ e.reason # x.reason}
  BY DEF HoldFunds, W!Hold, W!SkipDuplicates
<1>3. UNCHANGED balance
  BY DEF HoldFunds, W!Hold
<1> HIDE DEF r
<1>4. ledger \subseteq ledger' /\ ledger' \subseteq ledger \cup {r}
  BY <1>2
<1> QED BY <1>1, <1>3, <1>4

LEMMA CaptureRows ==
  ASSUME NEW c \in Chargers, CaptureFunds(c), handler[c].total \in Int
  PROVE  \E r, s :
           /\ r.reason = "release"
           /\ s.reason = "capture" /\ s.ref = PayRef(handler[c].key)
           /\ s.user = UserOf[handler[c].key] /\ -s.delta = handler[c].total
           /\ ledger \subseteq ledger' /\ ledger' \subseteq ledger \cup {r, s}
           /\ ~CaptureRow(handler[c].key) => s \in ledger' /\ s \notin ledger
<1> DEFINE j == handler[c].key
           t == handler[c].total
           r == W!Entry(UserOf[j], HoldAmount, "release", HoldRef(j))
           s == W!Entry(UserOf[j], -t, "capture", PayRef(j))
<1>1. r.reason = "release" /\ s.reason = "capture" /\ s.ref = PayRef(j) /\ s.user = UserOf[j] /\ s.delta = -t
  BY DEF W!Entry
<1>2. ledger' = ledger \cup {x \in {r, s} : \A e \in ledger : e.ref # x.ref \/ e.reason # x.reason}
  BY DEF CaptureFunds, Actual, W!CaptureHold, W!SkipDuplicates
<1>3. t \in Int
  OBVIOUS
<1> HIDE DEF r, s, t
<1>4. -s.delta = t
  BY <1>1, <1>3
<1>5. ledger \subseteq ledger' /\ ledger' \subseteq ledger \cup {r, s}
  BY <1>2
<1>6. ASSUME ~CaptureRow(j)
      PROVE  s \in ledger' /\ s \notin ledger
  <2>1. \A e \in ledger : e.ref # s.ref \/ e.reason # s.reason
    BY <1>1, <1>6 DEF CaptureRow
  <2> QED BY <1>2, <2>1
<1> QED BY <1>1, <1>4, <1>5, <1>6 DEF t

LEMMA LedgerStep ==
  ASSUME IInv, LedgerInv, Next
  PROVE  LedgerInv'
<1>1. CASE UNCHANGED wallet
  BY <1>1 DEF wallet, LedgerInv, CaptureRow, Released
<1>2. ASSUME NEW p \in Calls, HoldFunds(p)
      PROVE  LedgerInv'
  <2> PICK r : r.reason = "hold" /\ ledger \subseteq ledger' /\ ledger' \subseteq ledger \cup {r}
    BY <1>2, HoldRows
  <2>1. IsFiniteSet(ledger')
    <3>1. IsFiniteSet(ledger \cup {r})
      BY FS_AddElement DEF LedgerInv
    <3> QED BY <3>1, FS_Subset
  <2>2. \A k \in Keys : CaptureRow(k)' => CaptureRow(k)
    BY DEF CaptureRow, PayRef
  <2> QED BY <1>2, <2>1, <2>2, HoldLedger DEF LedgerInv
<1>3. ASSUME NEW c \in Chargers, CaptureFunds(c), handler[c].key \in Keys
      PROVE  LedgerInv'
  <2>0. handler[c].total \in Int
    BY DEF IInv, TypeInv, TypeOK, HandlerState
  <2> PICK r, s : /\ r.reason = "release" /\ s.reason = "capture" /\ s.ref = PayRef(handler[c].key)
                  /\ ledger \subseteq ledger' /\ ledger' \subseteq ledger \cup {r, s}
    BY <1>3, <2>0, CaptureRows
  <2>1. IsFiniteSet(ledger')
    <3>1. IsFiniteSet({r}) /\ IsFiniteSet({s})
      BY FS_Singleton
    <3>2. IsFiniteSet(ledger \cup {r})
      BY FS_AddElement DEF LedgerInv
    <3>3. IsFiniteSet((ledger \cup {r}) \cup {s})
      BY <3>2, FS_AddElement
    <3>4. ledger' \subseteq (ledger \cup {r}) \cup {s}
      OBVIOUS
    <3> QED BY <3>3, <3>4, FS_Subset
  <2>2. \A k \in Keys : CaptureRow(k)' => CaptureRow(k) \/ k = handler[c].key
    BY DEF CaptureRow, PayRef
  <2> QED BY <1>3, <2>1, <2>2, CaptureLedger DEF LedgerInv
<1> QED BY <1>1, <1>2, <1>3, WalletStep

(* The amounts that the captures of a user take.                           *)
LEMMA CapturesTyped ==
  TypeOK /\ LedgerInv =>
    \A u : /\ IsFiniteSet(Captures(u))
           /\ \A e \in Captures(u) : e \in ledger /\ -e.delta \in Int
           /\ Captured(u) \in Int
<1> SUFFICES ASSUME TypeOK, LedgerInv, NEW u
             PROVE  /\ IsFiniteSet(Captures(u))
                    /\ \A e \in Captures(u) : e \in ledger /\ -e.delta \in Int
                    /\ Captured(u) \in Int
  OBVIOUS
<1>1. Captures(u) \subseteq ledger /\ IsFiniteSet(Captures(u))
  BY FS_Subset DEF Captures, LedgerInv
<1>2. \A e \in Captures(u) : -e.delta \in Int
  BY <1>1 DEF TypeOK, W!TypeOK, W!Row
<1> DEFINE f == [e \in ledger |-> -e.delta]
           S == Captures(u)
<1>3. IsFiniteSet(S) /\ \A e \in S : f[e] \in Int
  BY <1>1, <1>2
<1> HIDE DEF f, S
<1>4. SumFunctionOnSet(f, S) \in Int
  BY <1>3, SumIsInt
<1> QED BY <1>1, <1>2, <1>4 DEF Captured, f, S

(* Other rows do not count.                                                *)
LEMMA CapturedSame ==
  ASSUME TypeOK, LedgerInv, NEW u, ledger \subseteq ledger', Captures(u)' = Captures(u)
  PROVE  Captured(u)' = Captured(u)
<1> DEFINE f == [e \in ledger |-> -e.delta]
           h == [e \in ledger' |-> -e.delta]
           S == Captures(u)
<1>1. IsFiniteSet(S) /\ \A e \in S : f[e] \in Int /\ h[e] = f[e]
  BY CapturesTyped
<1>2. Captured(u)' = SumFunctionOnSet(h, S) /\ Captured(u) = SumFunctionOnSet(f, S)
  BY DEF Captured
<1> HIDE DEF f, h, S
<1> QED BY <1>1, <1>2, SumSame

LEMMA CapturedMore ==
  ASSUME TypeOK, LedgerInv, NEW u, NEW s \in ledger', s \notin ledger, -s.delta \in Int,
         ledger \subseteq ledger', Captures(u)' = Captures(u) \cup {s}
  PROVE  Captured(u)' = Captured(u) + (-s.delta)
<1> DEFINE f == [e \in ledger |-> -e.delta]
           h == [e \in ledger' |-> -e.delta]
           S == Captures(u)
<1>1. IsFiniteSet(S) /\ s \notin S /\ \A e \in S : f[e] \in Int /\ h[e] = f[e]
  BY CapturesTyped
<1>2. h[s] = -s.delta
  OBVIOUS
<1>3. Captured(u)' = SumFunctionOnSet(h, S \cup {s}) /\ Captured(u) = SumFunctionOnSet(f, S)
  BY DEF Captured
<1> HIDE DEF f, h, S
<1>4. \A e \in S \cup {s} : h[e] \in Int
  BY <1>1, <1>2
<1>5. SumFunctionOnSet(h, S \cup {s}) = SumFunctionOnSet(h, S) + h[s]
  BY <1>1, <1>4, SumWith
<1>6. SumFunctionOnSet(h, S) = SumFunctionOnSet(f, S)
  BY <1>1, SumSame
<1> QED BY <1>2, <1>3, <1>5, <1>6

(* What a capture does to the balance of a user and to the captures in the *)
(* ledger.  A capture that is repeated takes the money again, but its row  *)
(* is in the ledger already.                                               *)
LEMMA CaptureEffect ==
  ASSUME IInv, LedgerInv, NEW c \in Chargers, CaptureFunds(c), NEW j \in Keys, j = handler[c].key,
         NEW u \in WalletOwners
  PROVE  /\ handler[c].total \in Nat
         /\ UserOf[j] = u =>
              /\ balance'[u] = Difference(balance[u], handler[c].total)
              /\ \/ Captured(u)' = Captured(u) + handler[c].total
                 \/ CaptureRow(j) /\ Captured(u)' = Captured(u)
         /\ UserOf[j] # u => balance'[u] = balance[u] /\ Captured(u)' = Captured(u)
<1> DEFINE t == handler[c].total
<1>0. TypeOK /\ t \in Nat
  BY DEF IInv, TypeInv, TypeOK, HandlerState
<1>1. balance' = [w \in WalletOwners |-> IF w = UserOf[j] THEN W!SubtractFloor(balance[w], t) ELSE balance[w]]
  BY DEF CaptureFunds, W!CaptureHold, Actual
<1> HIDE DEF t
<1>2. balance'[u] = IF UserOf[j] = u THEN Difference(balance[u], t) ELSE balance[u]
  BY <1>1 DEF W!SubtractFloor, Difference
<1> PICK r, s : /\ r.reason = "release"
                /\ s.reason = "capture" /\ s.user = UserOf[j] /\ -s.delta = t
                /\ ledger \subseteq ledger' /\ ledger' \subseteq ledger \cup {r, s}
                /\ ~CaptureRow(j) => s \in ledger' /\ s \notin ledger
  BY <1>0, CaptureRows DEF t
<1>3. CASE UserOf[j] = u /\ s \in ledger' /\ s \notin ledger
  <2>1. Captures(u)' = Captures(u) \cup {s}
    BY <1>3 DEF Captures
  <2>2. Captured(u)' = Captured(u) + t
    BY <1>0, <1>3, <2>1, CapturedMore
  <2> QED BY <1>0, <1>2, <1>3, <2>2 DEF t
<1>4. CASE UserOf[j] = u /\ ~(s \in ledger' /\ s \notin ledger)
  <2>1. Captures(u)' = Captures(u)
    BY <1>4 DEF Captures
  <2>2. Captured(u)' = Captured(u)
    BY <1>0, <2>1, CapturedSame
  <2> QED BY <1>0, <1>2, <1>4, <2>2 DEF t
<1>5. CASE UserOf[j] # u
  <2>1. Captures(u)' = Captures(u)
    BY <1>5 DEF Captures
  <2>2. Captured(u)' = Captured(u)
    BY <1>0, <2>1, CapturedSame
  <2> QED BY <1>0, <1>2, <1>5, <2>2 DEF t
<1> QED BY <1>3, <1>4, <1>5

LEMMA HoldEffect ==
  ASSUME IInv, LedgerInv, NEW p \in Calls, HoldFunds(p), NEW u \in WalletOwners
  PROVE  balance'[u] = balance[u] /\ Captured(u)' = Captured(u)
<1> PICK r : r.reason = "hold" /\ UNCHANGED balance /\ ledger \subseteq ledger' /\ ledger' \subseteq ledger \cup {r}
  BY HoldRows
<1>1. Captures(u)' = Captures(u)
  BY DEF Captures
<1>2. Captured(u)' = Captured(u)
  BY <1>1, CapturedSame DEF IInv, TypeInv
<1> QED BY <1>2

LEMMA AccountTyped ==
  ASSUME IInv, LedgerInv, NEW u \in WalletOwners
  PROVE  balance[u] \in Nat /\ InitBalance[u] \in Nat /\ Captured(u) \in Int
BY SessionsAssumption, CapturesTyped DEF IInv, TypeInv, TypeOK, W!TypeOK

LEMMA ExplainedStep ==
  ASSUME IInv, TypeOK', LogInv, HandlesOwnStop, ReleasedBehind, LedgerInv, Explained, Next
  PROVE  Explained'
<1> SUFFICES ASSUME MaxSends = 1, crashes' = 0, NEW u \in WalletOwners
             PROVE  balance'[u] = Difference(InitBalance[u], Captured(u)')
  BY DEF Explained, LedgerExplainsBalance
<1>0. crashes = 0 /\ balance[u] \in Nat /\ InitBalance[u] \in Nat /\ Captured(u) \in Int
  BY PosAdvances, AccountTyped
<1>1. balance[u] = Difference(InitBalance[u], Captured(u))
  BY <1>0 DEF Explained, LedgerExplainsBalance
<1>2. CASE UNCHANGED wallet
  <2>1. Captured(u)' = Captured(u)
    BY <1>2 DEF wallet, Captured, Captures
  <2> QED BY <1>1, <1>2, <2>1 DEF wallet
<1>3. ASSUME NEW p \in Calls, HoldFunds(p)
      PROVE  balance'[u] = Difference(InitBalance[u], Captured(u)')
  BY <1>1, <1>3, HoldEffect
<1>4. ASSUME NEW c \in Chargers, CaptureFunds(c), handler[c].key \in Keys
      PROVE  balance'[u] = Difference(InitBalance[u], Captured(u)')
  <2> PICK j \in Keys : j = handler[c].key
    BY <1>4
  <2>1. ~CaptureRow(j)
    BY <1>0, <1>4, FirstRelease DEF LedgerInv
  <2>2. CASE UserOf[j] = u
    BY <1>0, <1>1, <1>4, <2>1, <2>2, CaptureEffect DEF Difference
  <2>3. CASE UserOf[j] # u
    BY <1>1, <1>4, <2>3, CaptureEffect
  <2> QED BY <2>2, <2>3
<1> QED BY <1>2, <1>3, <1>4, WalletStep

(* What is left is never more than the ledger says.                        *)
CapturesAreTaken ==
  \A u \in WalletOwners : balance[u] <= Difference(InitBalance[u], Captured(u))

LEMMA TakenStep ==
  ASSUME IInv, TypeOK', LedgerInv, CapturesAreTaken, Next
  PROVE  CapturesAreTaken'
<1> SUFFICES ASSUME NEW u \in WalletOwners
             PROVE  balance'[u] <= Difference(InitBalance[u], Captured(u)')
  BY DEF CapturesAreTaken
<1>0. balance[u] \in Nat /\ InitBalance[u] \in Nat /\ Captured(u) \in Int
  BY AccountTyped
<1>1. balance[u] <= Difference(InitBalance[u], Captured(u))
  BY DEF CapturesAreTaken
<1>2. CASE UNCHANGED wallet
  <2>1. Captured(u)' = Captured(u)
    BY <1>2 DEF wallet, Captured, Captures
  <2> QED BY <1>1, <1>2, <2>1 DEF wallet
<1>3. ASSUME NEW p \in Calls, HoldFunds(p)
      PROVE  balance'[u] <= Difference(InitBalance[u], Captured(u)')
  BY <1>1, <1>3, HoldEffect
<1>4. ASSUME NEW c \in Chargers, CaptureFunds(c), handler[c].key \in Keys
      PROVE  balance'[u] <= Difference(InitBalance[u], Captured(u)')
  <2> PICK j \in Keys : j = handler[c].key
    BY <1>4
  <2>1. CASE UserOf[j] = u
    BY <1>0, <1>1, <1>4, <2>1, CaptureEffect DEF Difference
  <2>2. CASE UserOf[j] # u
    BY <1>1, <1>4, <2>2, CaptureEffect
  <2> QED BY <2>1, <2>2
<1> QED BY <1>2, <1>3, <1>4, WalletStep

LEMMA LedgerInit == Init => LedgerInv /\ Explained /\ CapturesAreTaken
<1> SUFFICES ASSUME Init PROVE LedgerInv /\ Explained /\ CapturesAreTaken
  OBVIOUS
<1>1. ledger = {} /\ balance = InitBalance
  BY DEF Init, W!Init
<1>2. LedgerInv
  BY <1>1, FS_EmptySet DEF LedgerInv, CaptureRow
<1>3. ASSUME NEW u \in WalletOwners
      PROVE  balance[u] = Difference(InitBalance[u], Captured(u)) /\ balance[u] \in Nat
  <2>1. Captures(u) = {}
    BY <1>1 DEF Captures
  <2>2. Captured(u) = 0
    BY <2>1, SumEmpty DEF Captured
  <2>3. InitBalance[u] \in Nat
    BY SessionsAssumption
  <2> QED BY <1>1, <2>2, <2>3 DEF Difference
<1>4. \A u \in WalletOwners : balance[u] <= Difference(InitBalance[u], Captured(u))
  BY <1>3
<1> QED BY <1>2, <1>3, <1>4 DEF Explained, LedgerExplainsBalance, CapturesAreTaken

LEMMA AccountsInvariance == Spec => [](LedgerInv /\ Explained /\ CapturesAreTaken)
<1>1. /\ IInv /\ IInv' /\ Delivered /\ LedgerInv /\ Explained /\ CapturesAreTaken /\ [Next]_vars
      => LedgerInv' /\ Explained' /\ CapturesAreTaken'
  <2>1. CASE UNCHANGED vars
    <3>1. UNCHANGED <<balance, ledger, crashes>>
      BY <2>1 DEF vars, wallet, faults
    <3> QED BY <3>1 DEF LedgerInv, CaptureRow, Released, Explained, LedgerExplainsBalance,
                        CapturesAreTaken, Captured, Captures
  <2>2. CASE Next
    BY <2>2, LedgerStep, ExplainedStep, TakenStep DEF Delivered, IInv, TypeInv
  <2> QED BY <2>1, <2>2
<1> QED BY <1>1, LedgerInit, Invariance, PTL DEF Spec

(* While each message is sent once and no consumer crashes, the ledger     *)
(* accounts for every paisa of a balance, floored captures included.       *)
THEOREM LedgerExplains ==
  ASSUME MaxSends = 1
  PROVE  Spec => [](crashes = 0 => LedgerExplainsBalance)
<1>1. Explained => (crashes = 0 => LedgerExplainsBalance)
  BY DEF Explained
<1> QED BY <1>1, AccountsInvariance, PTL

(* Whatever crashes or is sent again, the ledger never records a capture   *)
(* that was not taken: it can only explain too little of a balance.        *)
THEOREM LedgerNeverOverstates == Spec => []CapturesAreTaken
BY AccountsInvariance, PTL

-----------------------------------------------------------------------------
(* The wallet, used by its operations.                                     *)
LEMMA RefsUsed ==
  ASSUME NEW k \in Keys
  PROVE  /\ UserOf[k] \in Users /\ HoldAmount \in Nat
         /\ HoldRef(k) \in {"hold", "pay"} \X Keys /\ PayRef(k) \in {"hold", "pay"} \X Keys
BY SessionsAssumption DEF HoldRef, PayRef

(* Sessions use the wallet through its operations, one at a time.          *)
THEOREM SessionsImplementWallet == Spec => W!Spec
<1>1. Init => W!Init
  BY DEF Init
<1>2. IInv /\ [Next]_vars => [W!Next]_<<balance, hold, ledger>>
  <2> SUFFICES ASSUME IInv, [Next]_vars PROVE W!Next \/ UNCHANGED <<balance, hold, ledger>>
    OBVIOUS
  <2>1. ASSUME NEW p \in Calls, HoldFunds(p), call[p].key \in Keys
        PROVE  W!Next
    <3> PICK k \in Keys : k = call[p].key
      BY <2>1
    <3>1. W!Hold(UserOf[k], HoldAmount, HoldRef(k))
      BY <2>1 DEF HoldFunds
    <3> QED BY <3>1, RefsUsed DEF W!Next
  <2>2. ASSUME NEW c \in Chargers, CaptureFunds(c), handler[c].key \in Keys
        PROVE  W!Next
    <3> PICK k \in Keys : k = handler[c].key
      BY <2>2
    <3> DEFINE t == handler[c].total
    <3>1. t \in Nat
      BY DEF IInv, TypeInv, TypeOK, HandlerState
    <3>2. W!CaptureHold(UserOf[k], HoldAmount, t, HoldRef(k), PayRef(k))
      BY <2>2 DEF CaptureFunds, Actual
    <3> HIDE DEF t
    <3> QED BY <3>1, <3>2, RefsUsed DEF W!Next
  <2>3. CASE UNCHANGED vars
    BY <2>3 DEF vars, wallet
  <2>4. CASE Next
    BY <2>1, <2>2, <2>4, WalletStep DEF wallet
  <2> QED BY <2>3, <2>4
<1>3. IInv /\ [Next]_vars => [W!Next]_(W!vars)
  BY <1>2 DEF W!vars
<1> QED BY <1>1, <1>3, Inductive, PTL DEF Spec, W!Spec

(* Reference and reason identify a row of the ledger, however often a start *)
(* or a settlement is repeated.                                            *)
LEMMA InsertKeyed ==
  ASSUME W!LedgerKeyed, NEW rows, ledger' = W!SkipDuplicates(rows),
         \A e, f \in rows : e.ref = f.ref /\ e.reason = f.reason => e = f
  PROVE  W!LedgerKeyed'
BY DEF W!LedgerKeyed, W!SkipDuplicates

THEOREM SessionsKeepLedgerKeyed == Spec => []W!LedgerKeyed
<1>1. Init => W!LedgerKeyed
  BY DEF Init, W!Init, W!LedgerKeyed
<1>2. IInv /\ W!LedgerKeyed /\ [Next]_vars => W!LedgerKeyed'
  <2> SUFFICES ASSUME IInv, W!LedgerKeyed, [Next]_vars PROVE W!LedgerKeyed'
    OBVIOUS
  <2>1. CASE UNCHANGED wallet \/ UNCHANGED vars
    BY <2>1 DEF vars, wallet, W!LedgerKeyed
  <2>2. ASSUME NEW p \in Calls, HoldFunds(p)
        PROVE  W!LedgerKeyed'
    <3> DEFINE r == W!Entry(UserOf[call[p].key], -HoldAmount, "hold", HoldRef(call[p].key))
    <3>1. ledger' = W!SkipDuplicates({r})
      BY <2>2 DEF HoldFunds, W!Hold
    <3> HIDE DEF r
    <3> QED BY <3>1, InsertKeyed
  <2>3. ASSUME NEW c \in Chargers, CaptureFunds(c)
        PROVE  W!LedgerKeyed'
    <3> DEFINE j == handler[c].key
               r == W!Entry(UserOf[j], HoldAmount, "release", HoldRef(j))
               s == W!Entry(UserOf[j], -handler[c].total, "capture", PayRef(j))
    <3>1. ledger' = W!SkipDuplicates({r, s})
      BY <2>3 DEF CaptureFunds, Actual, W!CaptureHold
    <3>2. r.reason = "release" /\ s.reason = "capture"
      BY DEF W!Entry
    <3> HIDE DEF r, s
    <3>3. \A e, f \in {r, s} : e.ref = f.ref /\ e.reason = f.reason => e = f
      BY <3>2
    <3> QED BY <3>1, <3>3, InsertKeyed
  <2>4. CASE Next
    BY <2>1, <2>2, <2>3, <2>4, WalletStep
  <2> QED BY <2>1, <2>4
<1> QED BY <1>1, <1>2, Inductive, PTL DEF Spec

(* A hold never overdraws a wallet and neither does a release that finds   *)
(* its hold gone: only the bill does.                                      *)
THEOREM SessionsOverdrawOnlyByDebit == Spec => W!OverdrawnOnlyByDebit
<1>1. IInv /\ [Next]_vars =>
        [\A u \in WalletOwners :
           hold[u] <= balance[u] /\ hold'[u] > balance'[u] => balance'[u] < balance[u]]_(W!vars)
  <2> SUFFICES ASSUME IInv, [Next]_vars, ~UNCHANGED <<balance, hold, ledger>>,
                      NEW u \in WalletOwners, hold[u] <= balance[u], hold'[u] > balance'[u]
               PROVE  balance'[u] < balance[u]
    BY DEF W!vars
  <2>0. /\ balance \in [WalletOwners -> Nat] /\ hold \in [WalletOwners -> Nat]
        /\ balance[u] \in Nat /\ hold[u] \in Nat /\ HoldAmount \in Nat
    BY SessionsAssumption DEF IInv, TypeInv, TypeOK, W!TypeOK
  <2>1. Next /\ ~UNCHANGED wallet
    BY DEF vars, wallet
  <2>2. ASSUME NEW p \in Calls, HoldFunds(p)
        PROVE  FALSE
    <3> DEFINE v == UserOf[call[p].key]
    <3>1. /\ v \in WalletOwners /\ balance[v] - hold[v] >= HoldAmount /\ balance' = balance
          /\ hold' = [hold EXCEPT ![v] = @ + HoldAmount]
      BY <2>2 DEF HoldFunds, W!Hold, W!Available
    <3> HIDE DEF v
    <3>2. hold'[u] = IF u = v THEN hold[u] + HoldAmount ELSE hold[u]
      BY <2>0, <3>1
    <3>3. CASE u = v
      BY <2>0, <3>1, <3>2, <3>3
    <3>4. CASE u # v
      BY <2>0, <3>1, <3>2, <3>4
    <3> QED BY <3>3, <3>4
  <2>3. ASSUME NEW c \in Chargers, CaptureFunds(c)
        PROVE  balance'[u] < balance[u]
    <3> DEFINE v == UserOf[handler[c].key]
               t == handler[c].total
    <3>1. t \in Nat
      BY DEF IInv, TypeInv, TypeOK, HandlerState
    <3>2. /\ hold' = [w \in WalletOwners |->
                        IF w = v THEN W!SubtractFloor(hold[w], HoldAmount) ELSE hold[w]]
          /\ balance' = [w \in WalletOwners |->
                           IF w = v THEN W!SubtractFloor(balance[w], t) ELSE balance[w]]
      BY <2>3 DEF CaptureFunds, W!CaptureHold, Actual
    <3> HIDE DEF v, t
    <3> QED BY <2>0, <3>1, <3>2 DEF W!SubtractFloor
  <2> QED BY <2>1, <2>2, <2>3, WalletStep
<1> QED BY <1>1, Inductive, PTL DEF Spec, W!OverdrawnOnlyByDebit
=============================================================================
