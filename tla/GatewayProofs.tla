--------------------------- MODULE GatewayProofs ----------------------------
(***************************************************************************)
(* Proofs about OcppGateway, for any sockets, instances, commands and      *)
(* messages.                                                               *)
(***************************************************************************)
EXTENDS OcppGateway, SequenceTheorems, FiniteSetTheorems, TLAPS

(* A shutdown closes finitely many sockets: no more are open. *)
OpenIsFinite == IsFiniteSet({s \in Sockets : ws[s] = "open"})

(* What the charger uses is open, on an instance; nothing is known of a    *)
(* socket that is still to be opened.                                      *)
SocketsFit ==
  /\ own # NoSocket => ws[own] = "open"
  /\ \A s \in Sockets : ws[s] # "new" => InstanceOf[s] \in Instances
  /\ \A s \in Sockets : ws[s] = "new" =>
       /\ InstanceOf[s] = NoSocket /\ entry # s
       /\ s \notin unregistered \cup listeners
       /\ \A c \in pending \cup inbox : c[2] # s

SubscriberFits ==
  \A i \in Instances : \A n \in 1..Len(subscriber[i]) : subscriber[i][n][2] \in SocketsOf(i)

(* A queue of registry commands has commands of the sockets S only, the    *)
(* "set" of a socket comes first, and is not that of one of the sockets    *)
(* done.                                                                   *)
SetsFirst(q) ==
  \A n \in 1..Len(q) : q[n][1] = "set" => \A m \in 1..n - 1 : q[m][2] # q[n][2]

QueueFits(q, S, done) ==
  /\ SetsFirst(q)
  /\ \A n \in 1..Len(q) : q[n][2] \in S /\ (q[n][1] = "set" => q[n][2] \notin done)

(* A socket whose "set" is still to be executed is not in the registry,    *)
(* nor has it unregistered.                                                *)
ClientFits ==
  \A i \in Instances : QueueFits(client[i], SocketsOf(i), unregistered \cup {entry})

(* Without overlapping reconnects the charger uses the only open socket,   *)
(* and what its open() set off is somewhere between the registry and the   *)
(* subscription, with no unsubscription behind it.                         *)
OnlyOwnIsOpen == \A s \in Sockets : ws[s] = "open" => own = s

StaysSubscribed(q, n) == \A m \in n + 1..Len(q) : q[m][1] # "unsubscribe"

Registering(q, s) == \E n \in 1..Len(q) : q[n] = <<"set", s>>

Subscribing(q, s) ==
  \E n \in 1..Len(q) : q[n] = <<"subscribe", s>> /\ StaysSubscribed(q, n)

OwnSubscribes ==
  \A s \in Sockets : own = s =>
    LET i == InstanceOf[s] IN
      \/ Registering(client[i], s)
      \/ Subscribing(subscriber[i], s)
      \/ s \in listeners /\ i \in subscribed /\ StaysSubscribed(subscriber[i], 0)

(* A Call is known under its command only once that is published, it is    *)
(* correlated once, and until it is, or is over, the gateway waits for it. *)
CallsFit ==
  \A c \in Calls :
    /\ c \in pending \cup inbox => c[1] \in published
    /\ c \notin inbox \/ c \in pending => audits[c] = 0
    /\ audits[c] <= 1

OwnIsAwaited ==
  \A c \in inbox :
    own = c[2] /\ c \notin expired => c \in pending \/ audits[c] = 1

Inv ==
  /\ TypeOK /\ OpenIsFinite
  /\ SocketsFit /\ SubscriberFits /\ ClientFits
  /\ NoGhostEntry /\ ConfirmedIsPublished

InvWithoutOverlap ==
  /\ OnlyOwnIsOpen /\ OwnSubscribes /\ CallsFit /\ OwnIsAwaited /\ AnswerIsCorrelated
-----------------------------------------------------------------------------
(* Sequences, as the connections use them. *)
LEMMA TailFacts ==
  ASSUME NEW T, NEW q \in Seq(T), q # <<>>
  PROVE  /\ Tail(q) \in Seq(T) /\ Len(q) \in Nat \ {0} /\ Len(Tail(q)) = Len(q) - 1
         /\ \A n \in 1..Len(q) - 1 : Tail(q)[n] = q[n + 1]
         /\ Head(q) = q[1] /\ Head(q) \in T
OBVIOUS

LEMMA AppendFacts ==
  ASSUME NEW T, NEW q \in Seq(T), NEW op \in T
  PROVE  /\ Append(q, op) \in Seq(T) /\ Len(q) \in Nat /\ Len(Append(q, op)) = Len(q) + 1
         /\ \A n \in 1..Len(q) : Append(q, op)[n] = q[n]
         /\ Append(q, op)[Len(q) + 1] = op
OBVIOUS

LEMMA ConcatFacts ==
  ASSUME NEW T, NEW q \in Seq(T), NEW r \in Seq(T)
  PROVE  /\ q \o r \in Seq(T) /\ Len(q) \in Nat /\ Len(r) \in Nat
         /\ Len(q \o r) = Len(q) + Len(r)
         /\ \A n \in 1..Len(q) : (q \o r)[n] = q[n]
         /\ \A n \in Len(q) + 1..Len(q) + Len(r) :
              (q \o r)[n] = r[n - Len(q)] /\ n - Len(q) \in 1..Len(r)
OBVIOUS

(* What is executed first leaves the rest in order, and a "set" of its     *)
(* socket is not among that.                                               *)
LEMMA FitsTail ==
  ASSUME NEW T, NEW q \in Seq(T), q # <<>>, NEW S, NEW done, QueueFits(q, S, done)
  PROVE  QueueFits(Tail(q), S, done \cup {Head(q)[2]})
<1>1. /\ Len(q) \in Nat \ {0} /\ Len(Tail(q)) = Len(q) - 1
      /\ \A n \in 1..Len(q) - 1 : Tail(q)[n] = q[n + 1]
      /\ Head(q) = q[1]
  BY TailFacts
<1>2. SetsFirst(Tail(q))
  <2> SUFFICES ASSUME NEW n \in 1..Len(q) - 1, Tail(q)[n][1] = "set", NEW m \in 1..n - 1
               PROVE  Tail(q)[m][2] # Tail(q)[n][2]
    BY <1>1 DEF SetsFirst
  <2>1. Tail(q)[n] = q[n + 1] /\ Tail(q)[m] = q[m + 1] /\ n + 1 \in 1..Len(q) /\ m + 1 \in 1..(n + 1) - 1
    BY <1>1
  <2> QED BY <2>1 DEF QueueFits, SetsFirst
<1>3. ASSUME NEW n \in 1..Len(q) - 1
      PROVE  Tail(q)[n][2] \in S
             /\ (Tail(q)[n][1] = "set" => Tail(q)[n][2] \notin done \cup {Head(q)[2]})
  <2>1. Tail(q)[n] = q[n + 1] /\ n + 1 \in 1..Len(q) /\ 1 \in 1..(n + 1) - 1
    BY <1>1
  <2> QED BY <1>1, <2>1 DEF QueueFits, SetsFirst
<1> QED BY <1>1, <1>2, <1>3 DEF QueueFits

(* Only what the queue's own sockets have done matters to it. *)
LEMMA FitsDone ==
  ASSUME NEW q, NEW S, NEW done, NEW more, QueueFits(q, S, done), more \cap S \subseteq done
  PROVE  QueueFits(q, S, more)
BY DEF QueueFits

(* Commands other than "set" may follow at any time. *)
LEMMA FitsConcat ==
  ASSUME NEW T, NEW q \in Seq(T), NEW r \in Seq(T), NEW S, NEW done,
         QueueFits(q, S, done),
         \A n \in 1..Len(r) : r[n][1] # "set" /\ r[n][2] \in S
  PROVE  QueueFits(q \o r, S, done)
<1>1. /\ Len(q) \in Nat /\ Len(r) \in Nat
      /\ Len(q \o r) = Len(q) + Len(r)
      /\ \A n \in 1..Len(q) : (q \o r)[n] = q[n]
      /\ \A n \in Len(q) + 1..Len(q) + Len(r) :
           (q \o r)[n] = r[n - Len(q)] /\ n - Len(q) \in 1..Len(r)
  BY ConcatFacts
<1>2. ASSUME NEW n \in 1..Len(q) + Len(r)
      PROVE  n \in 1..Len(q) \/ n \in Len(q) + 1..Len(q) + Len(r)
  BY <1>1
<1>3. SetsFirst(q \o r)
  <2> SUFFICES ASSUME NEW n \in 1..Len(q) + Len(r), (q \o r)[n][1] = "set", NEW m \in 1..n - 1
               PROVE  (q \o r)[m][2] # (q \o r)[n][2]
    BY <1>1 DEF SetsFirst
  <2>1. n \in 1..Len(q)
    BY <1>1, <1>2
  <2>2. m \in 1..Len(q)
    BY <1>1, <2>1
  <2> QED BY <1>1, <2>1, <2>2 DEF QueueFits, SetsFirst
<1>4. ASSUME NEW n \in 1..Len(q) + Len(r)
      PROVE  (q \o r)[n][2] \in S /\ ((q \o r)[n][1] = "set" => (q \o r)[n][2] \notin done)
  BY <1>1, <1>2 DEF QueueFits
<1> QED BY <1>1, <1>3, <1>4 DEF QueueFits

LEMMA FitsAppend ==
  ASSUME NEW T, NEW q \in Seq(T), NEW op \in T, NEW S, NEW done,
         QueueFits(q, S, done), op[1] # "set", op[2] \in S
  PROVE  QueueFits(Append(q, op), S, done)
<1>1. /\ Len(q) \in Nat /\ Len(Append(q, op)) = Len(q) + 1
      /\ \A n \in 1..Len(q) : Append(q, op)[n] = q[n]
      /\ Append(q, op)[Len(q) + 1] = op
  BY AppendFacts
<1>2. SetsFirst(Append(q, op))
  <2> SUFFICES ASSUME NEW n \in 1..Len(q) + 1, Append(q, op)[n][1] = "set", NEW m \in 1..n - 1
               PROVE  Append(q, op)[m][2] # Append(q, op)[n][2]
    BY <1>1 DEF SetsFirst
  <2>1. n \in 1..Len(q) /\ m \in 1..Len(q)
    BY <1>1
  <2> QED BY <1>1, <2>1 DEF QueueFits, SetsFirst
<1>3. ASSUME NEW n \in 1..Len(q) + 1
      PROVE  Append(q, op)[n][2] \in S /\ (Append(q, op)[n][1] = "set" => Append(q, op)[n][2] \notin done)
  <2>1. n \in 1..Len(q) \/ n = Len(q) + 1
    BY <1>1
  <2> QED BY <1>1, <2>1 DEF QueueFits
<1> QED BY <1>1, <1>2, <1>3 DEF QueueFits

(* The "set" of a socket that the queue knows nothing of may follow too. *)
LEMMA FitsOpen ==
  ASSUME NEW T, NEW q \in Seq(T), NEW S, NEW done, NEW s, <<"set", s>> \in T,
         QueueFits(q, S, done), s \notin S, s \notin done
  PROVE  QueueFits(Append(q, <<"set", s>>), S \cup {s}, done)
<1> DEFINE op == <<"set", s>>
<1>1. /\ Len(q) \in Nat /\ Len(Append(q, op)) = Len(q) + 1
      /\ \A n \in 1..Len(q) : Append(q, op)[n] = q[n]
      /\ Append(q, op)[Len(q) + 1] = op
  BY AppendFacts
<1>2. op[2] = s
  OBVIOUS
<1> HIDE DEF op
<1>3. SetsFirst(Append(q, op))
  <2> SUFFICES ASSUME NEW n \in 1..Len(q) + 1, Append(q, op)[n][1] = "set", NEW m \in 1..n - 1
               PROVE  Append(q, op)[m][2] # Append(q, op)[n][2]
    BY <1>1 DEF SetsFirst
  <2>1. m \in 1..Len(q)
    BY <1>1
  <2>2. CASE n \in 1..Len(q)
    BY <1>1, <2>1, <2>2 DEF QueueFits, SetsFirst
  <2>3. CASE n = Len(q) + 1
    BY <1>1, <1>2, <2>1, <2>3 DEF QueueFits
  <2> QED BY <1>1, <2>2, <2>3
<1>4. ASSUME NEW n \in 1..Len(q) + 1
      PROVE  Append(q, op)[n][2] \in S \cup {s}
             /\ (Append(q, op)[n][1] = "set" => Append(q, op)[n][2] \notin done)
  <2>1. n \in 1..Len(q) \/ n = Len(q) + 1
    BY <1>1
  <2> QED BY <1>1, <1>2, <2>1 DEF QueueFits
<1> QED BY <1>1, <1>3, <1>4 DEF QueueFits, op
-----------------------------------------------------------------------------
(* The close handlers of the sockets S of instance i, however they come to *)
(* run: one "unsubscribe" and one "get" for each.                          *)
Closing(i, S) ==
  /\ S \subseteq {s \in SocketsOf(i) : ws[s] = "open"} /\ IsFiniteSet(S)
  /\ CloseSockets(i, S)

LEMMA ClosingQueues ==
  ASSUME NEW i \in Instances, NEW S, TypeOK, Closing(i, S)
  PROVE  \E a \in Seq({"unsubscribe"} \X S), b \in Seq({"get"} \X S) :
           /\ subscriber' = [subscriber EXCEPT ![i] = @ \o a]
           /\ client' = [client EXCEPT ![i] = @ \o b]
           /\ S = {} => a = <<>> /\ b = <<>>
<1>1. PICK q \in SetToSeqs(S) :
        /\ subscriber' = [subscriber EXCEPT ![i] = @ \o [n \in DOMAIN q |-> <<"unsubscribe", q[n]>>]]
        /\ client' = [client EXCEPT ![i] = @ \o [n \in DOMAIN q |-> <<"get", q[n]>>]]
  BY DEF Closing, CloseSockets
<1> DEFINE k == Cardinality(S)
           a == [n \in DOMAIN q |-> <<"unsubscribe", q[n]>>]
           b == [n \in DOMAIN q |-> <<"get", q[n]>>]
<1>2. k \in Nat /\ (S = {} => k = 0)
  BY FS_CardinalityType, FS_EmptySet DEF Closing
<1>3. q \in [1..k -> S]
  BY DEF SetToSeqs
<1> HIDE DEF k
<1>4. a \in [1..k -> {"unsubscribe"} \X S] /\ b \in [1..k -> {"get"} \X S]
  BY <1>3
<1>5. a \in Seq({"unsubscribe"} \X S) /\ b \in Seq({"get"} \X S) /\ Len(a) = k /\ Len(b) = k
  BY <1>2, <1>4
<1>6. S = {} => a = <<>> /\ b = <<>>
  BY <1>2, <1>5
<1> QED BY <1>1, <1>5, <1>6

LEMMA ClosingHappens ==
  ASSUME OpenIsFinite, SocketsFit
  PROVE  /\ \A s \in Sockets : Close(s) => \E i \in Instances : Closing(i, {s})
         /\ \A i \in Instances : Drain(i) => \E S : Closing(i, S)
<1>1. ASSUME NEW s \in Sockets, Close(s)
      PROVE  Closing(InstanceOf[s], {s}) /\ InstanceOf[s] \in Instances
  BY <1>1, FS_Singleton DEF Close, Closing, SocketsOf, SocketsFit
<1>2. ASSUME NEW i \in Instances, Drain(i)
      PROVE  Closing(i, {s \in SocketsOf(i) : ws[s] = "open"})
  <2>1. {s \in SocketsOf(i) : ws[s] = "open"} \subseteq {s \in Sockets : ws[s] = "open"}
    BY DEF SocketsOf
  <2> QED BY <1>2, <2>1, FS_Subset DEF Drain, Closing, OpenIsFinite
<1> QED BY <1>1, <1>2

LEMMA ClosingTypes ==
  ASSUME NEW i \in Instances, NEW S, TypeOK, Closing(i, S), draining' \subseteq Instances
  PROVE  TypeOK'
<1>1. PICK a \in Seq({"unsubscribe"} \X S), b \in Seq({"get"} \X S) :
        /\ subscriber' = [subscriber EXCEPT ![i] = @ \o a]
        /\ client' = [client EXCEPT ![i] = @ \o b]
        /\ S = {} => a = <<>> /\ b = <<>>
  BY ClosingQueues
<1>2. S \subseteq Sockets
  BY DEF Closing, SocketsOf
<1>3. a \in Seq(SubscriberOp) /\ b \in Seq(ClientOp)
  BY <1>2 DEF SubscriberOp, ClientOp
<1>4. client' \in [Instances -> Seq(ClientOp)] /\ subscriber' \in [Instances -> Seq(SubscriberOp)]
  <2>1. client[i] \o b \in Seq(ClientOp) /\ subscriber[i] \o a \in Seq(SubscriberOp)
    BY <1>3, ConcatFacts DEF TypeOK
  <2> QED BY <1>1, <2>1 DEF TypeOK
<1>5. /\ own' \in Sockets \cup {NoSocket} /\ ws' \in [Sockets -> {"new", "open", "closed"}]
      /\ pending' \subseteq Calls
  BY <1>2 DEF TypeOK, Closing, CloseSockets
<1> QED BY <1>4, <1>5 DEF TypeOK, Closing, CloseSockets, inbound

LEMMA TypeStep ==
  ASSUME TypeOK, OpenIsFinite, SocketsFit, Next
  PROVE  TypeOK'
<1> USE GatewayAssumption
<1>1. ASSUME NEW s \in Sockets, Close(s)
      PROVE  TypeOK'
  BY <1>1, ClosingHappens, ClosingTypes DEF Close, TypeOK
<1>2. ASSUME NEW i \in Instances, Drain(i)
      PROVE  TypeOK'
  <2>1. draining' \subseteq Instances
    BY <1>2 DEF Drain, TypeOK
  <2> QED BY <1>2, <2>1, ClosingHappens, ClosingTypes
<1>3. ASSUME NEW s \in Sockets, NEW i \in Instances, Open(s, i)
      PROVE  TypeOK'
  <2>1. Append(client[i], <<"set", s>>) \in Seq(ClientOp)
    BY AppendFacts DEF TypeOK, ClientOp
  <2>2. client' \in [Instances -> Seq(ClientOp)]
    BY <1>3, <2>1 DEF Open, Write, TypeOK
  <2> QED BY <1>3, <2>2 DEF Open, TypeOK, commands, inbound
<1>4. ASSUME NEW i \in Instances, Subscription(i)
      PROVE  TypeOK'
  <2>1. Tail(subscriber[i]) \in Seq(SubscriberOp) /\ Head(subscriber[i])[2] \in Sockets
    BY <1>4, TailFacts DEF Subscription, TypeOK, SubscriberOp
  <2>2. subscriber' \in [Instances -> Seq(SubscriberOp)]
    BY <1>4, <2>1 DEF Subscription, TypeOK
  <2>3. subscribed' \subseteq Instances /\ listeners' \subseteq Sockets
    BY <1>4, <2>1 DEF Subscription, TypeOK
  <2> QED BY <1>4, <2>2, <2>3 DEF Subscription, TypeOK, commands, inbound, sockets
<1>5. ASSUME NEW i \in Instances, Exit(i)
      PROVE  TypeOK'
  <2>1. client' \in [Instances -> Seq(ClientOp)] /\ subscriber' \in [Instances -> Seq(SubscriberOp)]
    BY <1>5 DEF Exit, TypeOK
  <2>2. own' \in Sockets \cup {NoSocket} /\ ws' \in [Sockets -> {"new", "open", "closed"}]
    BY <1>5 DEF Exit, TypeOK
  <2>3. /\ subscribed' \subseteq Instances /\ listeners' \subseteq Sockets
        /\ pending' \subseteq Calls /\ sending' \subseteq Event /\ draining' \subseteq Instances
    BY <1>5 DEF Exit, TypeOK
  <2> QED BY <1>5, <2>1, <2>2, <2>3 DEF Exit, TypeOK
<1>6. ASSUME NEW i \in Instances, NEW s \in Sockets, NEW kind, Reply(i, kind, s)
      PROVE  /\ Tail(client[i]) \in Seq(ClientOp)
             /\ Append(Tail(client[i]), <<"del", s>>) \in Seq(ClientOp)
             /\ [client EXCEPT ![i] = Tail(@)] \in [Instances -> Seq(ClientOp)]
             /\ [client EXCEPT ![i] = Append(Tail(@), <<"del", s>>)] \in [Instances -> Seq(ClientOp)]
  <2>1. Tail(client[i]) \in Seq(ClientOp)
    BY <1>6, TailFacts DEF Reply, TypeOK
  <2>2. Append(Tail(client[i]), <<"del", s>>) \in Seq(ClientOp)
    BY <2>1, AppendFacts DEF ClientOp
  <2> QED BY <2>1, <2>2 DEF TypeOK
<1>7. ASSUME NEW i \in Instances, NEW s \in Sockets, SetEntry(i, s)
      PROVE  TypeOK'
  <2>1. Append(subscriber[i], <<"subscribe", s>>) \in Seq(SubscriberOp)
    BY AppendFacts DEF TypeOK, SubscriberOp
  <2>2. subscriber' \in [Instances -> Seq(SubscriberOp)] /\ client' \in [Instances -> Seq(ClientOp)]
    BY <1>6, <1>7, <2>1 DEF SetEntry, Write, TypeOK
  <2> QED BY <1>7, <2>2 DEF SetEntry, TypeOK, sockets, commands, inbound
<1>8. ASSUME NEW i \in Instances, NEW s \in Sockets, GetEntry(i, s)
      PROVE  TypeOK'
  <2>1. client' \in [Instances -> Seq(ClientOp)]
    <3>1. Reply(i, "get", s)
      BY <1>8 DEF GetEntry
    <3>2. /\ [client EXCEPT ![i] = Tail(@)] \in [Instances -> Seq(ClientOp)]
          /\ [client EXCEPT ![i] = Append(Tail(@), <<"del", s>>)] \in [Instances -> Seq(ClientOp)]
      BY <1>6, <3>1
    <3> QED BY <1>8, <3>2 DEF GetEntry
  <2>2. unregistered' \subseteq Sockets
    BY <1>8 DEF GetEntry, TypeOK
  <2> QED BY <1>8, <2>1, <2>2 DEF GetEntry, TypeOK, sockets, commands, inbound
<1>9. ASSUME NEW i \in Instances, NEW s \in Sockets, DeleteEntry(i, s)
      PROVE  TypeOK'
  <2>1. client' \in [Instances -> Seq(ClientOp)]
    BY <1>6, <1>9 DEF DeleteEntry
  <2> QED BY <1>9, <2>1 DEF DeleteEntry, TypeOK, sockets, commands, inbound
<1>10. ASSUME NEW i \in Instances, NEW s \in Sockets, NEW m \in Messages, Refresh(i, m, s)
       PROVE  TypeOK'
  <2>1. Reply(i, m, s)
    BY <1>10 DEF Refresh, Refreshed
  <2>2. client' \in [Instances -> Seq(ClientOp)]
    BY <1>6, <1>10, <2>1 DEF Refresh, Refreshed
  <2>3. sending' \subseteq Event
    BY <1>10 DEF Refresh, Refreshed, TypeOK, Event
  <2> QED BY <1>10, <2>2, <2>3 DEF Refresh, Refreshed, TypeOK, sockets, commands
<1>11. CASE ExpireEntry
  BY <1>11 DEF ExpireEntry, TypeOK, sockets, commands, inbound
<1>12. ASSUME NEW c \in Commands, CreateReservation(c) \/ CheckRegistry(c)
       PROVE  TypeOK'
  BY <1>12 DEF CreateReservation, CheckRegistry, TypeOK, sockets, redis, inbound
<1>13. ASSUME NEW c \in Commands, Publish(c)
       PROVE  TypeOK'
  <2>1. pending' \subseteq Calls /\ inbox' \subseteq Calls /\ answers \subseteq inbox'
    BY <1>13 DEF Publish, TypeOK, Calls
  <2>2. published' \subseteq checked
    BY <1>13 DEF Publish, ToRegistered, TypeOK
  <2> QED BY <1>13, <2>1, <2>2 DEF Publish, TypeOK, sockets, redis, inbound
<1>14. ASSUME NEW call \in Calls, ForgetPending(call)
       PROVE  TypeOK'
  BY <1>14 DEF ForgetPending, TypeOK, sockets, redis, inbound
<1>15. ASSUME NEW call \in Calls, Answer(call)
       PROVE  TypeOK'
  <2>1. audits' \in [Calls -> Nat] /\ pending' \subseteq Calls /\ answers' \subseteq inbox
    BY <1>15 DEF Answer, Consumed, TypeOK
  <2> QED BY <1>15, <2>1 DEF Answer, TypeOK, sockets, redis, inbound
<1>16. ASSUME NEW m \in Messages, NEW s \in Sockets, Receive(m, s)
       PROVE  TypeOK'
  <2>1. InstanceOf[s] \in Instances
    BY <1>16 DEF Receive, SocketsFit
  <2>2. Append(client[InstanceOf[s]], <<m, s>>) \in Seq(ClientOp)
    BY <2>1, AppendFacts DEF TypeOK, ClientOp
  <2>3. client' \in [Instances -> Seq(ClientOp)]
    BY <1>16, <2>1, <2>2 DEF Receive, Write, TypeOK
  <2>4. received' \subseteq Messages \X Sockets
    BY <1>16 DEF Receive, TypeOK
  <2> QED BY <1>16, <2>3, <2>4 DEF Receive, TypeOK, sockets, commands
<1>17. ASSUME NEW e \in Event, StoreEvent(e)
       PROVE  TypeOK'
  <2>1. confirmed' \subseteq Messages
    BY <1>17 DEF StoreEvent, Confirm, TypeOK, Event
  <2> QED BY <1>17, <2>1 DEF StoreEvent, TypeOK, sockets, redis, commands
<1>18. ASSUME NEW i \in Instances, NEW s \in SocketsOf(i)
       PROVE  s \in Sockets
  BY DEF SocketsOf
<1> QED BY <1>1, <1>2, <1>3, <1>4, <1>5, <1>7, <1>8, <1>9, <1>10, <1>11, <1>12, <1>13, <1>14,
           <1>15, <1>16, <1>17, <1>18 DEF Next

LEMMA FiniteStep ==
  ASSUME TypeOK, OpenIsFinite, SocketsFit, Next
  PROVE  OpenIsFinite'
<1> DEFINE open == {s \in Sockets : ws[s] = "open"}
<1>1. ASSUME open' \subseteq open
      PROVE  OpenIsFinite'
  BY <1>1, FS_Subset DEF OpenIsFinite
<1>2. ASSUME NEW i \in Instances, NEW S, Closing(i, S)
      PROVE  OpenIsFinite'
  <2>1. open' \subseteq open
    BY <1>2 DEF Closing, CloseSockets
  <2> QED BY <2>1, <1>1
<1>3. ASSUME NEW s \in Sockets, NEW i \in Instances, Open(s, i)
      PROVE  OpenIsFinite'
  <2>1. open' \subseteq open \cup {s}
    BY <1>3 DEF Open, TypeOK
  <2>2. IsFiniteSet(open \cup {s})
    BY FS_AddElement DEF OpenIsFinite
  <2> QED BY <2>1, <2>2, FS_Subset DEF OpenIsFinite
<1>4. ASSUME NEW i \in Instances, Exit(i)
      PROVE  OpenIsFinite'
  <2>1. open' \subseteq open
    BY <1>4 DEF Exit
  <2> QED BY <2>1, <1>1
<1>5. ASSUME ws' = ws
      PROVE  OpenIsFinite'
  BY <1>1, <1>5
<1>6. ASSUME NEW i \in Instances, NEW s \in Sockets,
             \/ SetEntry(i, s) \/ GetEntry(i, s) \/ DeleteEntry(i, s)
             \/ \E m \in Messages : Refresh(i, m, s)
      PROVE  ws' = ws
  BY <1>6 DEF SetEntry, GetEntry, DeleteEntry, Refresh, Refreshed, sockets
<1>7. ASSUME NEW c \in Commands, CreateReservation(c) \/ CheckRegistry(c) \/ Publish(c)
      PROVE  ws' = ws
  BY <1>7 DEF CreateReservation, CheckRegistry, Publish, sockets
<1>8. ASSUME NEW call \in Calls, ForgetPending(call) \/ Answer(call)
      PROVE  ws' = ws
  BY <1>8 DEF ForgetPending, Answer, sockets
<1>9. ASSUME NEW m \in Messages, NEW s \in Sockets, Receive(m, s)
      PROVE  ws' = ws
  BY <1>9 DEF Receive, sockets
<1>10. ASSUME NEW e \in Event, StoreEvent(e)
       PROVE  ws' = ws
  BY <1>10 DEF StoreEvent, sockets
<1>11. ASSUME NEW i \in Instances, Subscription(i)
       PROVE  ws' = ws
  BY <1>11 DEF Subscription, sockets
<1>12. CASE ExpireEntry
  BY <1>5, <1>12 DEF ExpireEntry, sockets
<1>13. ASSUME NEW i \in Instances, NEW s \in SocketsOf(i)
       PROVE  s \in Sockets
  BY DEF SocketsOf
<1> HIDE DEF open
<1> QED BY <1>2, <1>3, <1>4, <1>5, <1>6, <1>7, <1>8, <1>9, <1>10, <1>11, <1>12, <1>13,
           ClosingHappens DEF Next

LEMMA SocketsStep ==
  ASSUME TypeOK, OpenIsFinite, SocketsFit, SubscriberFits, Next
  PROVE  SocketsFit'
<1> USE GatewayAssumption
<1>1. ASSUME NEW i \in Instances, NEW S, Closing(i, S)
      PROVE  SocketsFit'
  <2>1. /\ own' # NoSocket => own' = own /\ own \notin S
        /\ \A s \in Sockets : ws'[s] = IF s \in S THEN "closed" ELSE ws[s]
        /\ \A s \in S : ws[s] = "open"
        /\ pending' \subseteq pending
        /\ UNCHANGED <<InstanceOf, entry, unregistered, listeners, inbox>>
    BY <1>1 DEF Closing, CloseSockets
  <2>2. \A s \in Sockets : (ws'[s] = "new") <=> (ws[s] = "new")
    BY <2>1
  <2>3. own' # NoSocket => ws'[own'] = "open"
    BY <2>1 DEF SocketsFit, TypeOK
  <2> QED BY <2>1, <2>2, <2>3 DEF SocketsFit
<1>2. ASSUME NEW s \in Sockets, NEW i \in Instances, Open(s, i)
      PROVE  SocketsFit'
  <2>1. /\ own' = s /\ ws' = [ws EXCEPT ![s] = "open"]
        /\ InstanceOf' = [InstanceOf EXCEPT ![s] = i]
        /\ UNCHANGED <<entry, unregistered, listeners, pending, inbox>>
    BY <1>2 DEF Open, commands
  <2> QED BY <2>1 DEF SocketsFit, TypeOK
<1>3. ASSUME NEW i \in Instances, Exit(i)
      PROVE  SocketsFit'
  <2> DEFINE gone == {s \in SocketsOf(i) : ws[s] = "open"}
  <2>1. /\ own' = IF own \in gone THEN NoSocket ELSE own
        /\ \A s \in Sockets : ws'[s] = IF s \in gone THEN "closed" ELSE ws[s]
        /\ \A s \in gone : ws[s] = "open"
        /\ pending' \subseteq pending /\ listeners' \subseteq listeners
        /\ UNCHANGED <<InstanceOf, entry, unregistered, inbox>>
    BY <1>3 DEF Exit
  <2> HIDE DEF gone
  <2>2. \A s \in Sockets : (ws'[s] = "new") <=> (ws[s] = "new")
    BY <2>1
  <2>3. own' # NoSocket => ws'[own'] = "open"
    BY <2>1 DEF SocketsFit, TypeOK
  <2> QED BY <2>1, <2>2, <2>3 DEF SocketsFit
<1>4. ASSUME NEW i \in Instances, Subscription(i)
      PROVE  SocketsFit'
  <2>1. /\ listeners' \subseteq listeners \cup {Head(subscriber[i])[2]}
        /\ UNCHANGED <<own, ws, InstanceOf, entry, unregistered, pending, inbox>>
    BY <1>4 DEF Subscription, sockets, commands
  <2>2. Head(subscriber[i])[2] \in SocketsOf(i)
    BY <1>4, TailFacts DEF Subscription, TypeOK, SubscriberFits
  <2> QED BY <2>1, <2>2 DEF SocketsFit, SocketsOf
<1>5. ASSUME NEW i \in Instances, NEW s \in SocketsOf(i),
             SetEntry(i, s) \/ GetEntry(i, s) \/ DeleteEntry(i, s)
      PROVE  SocketsFit'
  <2>1. /\ entry' \in {entry, s, NoSocket} /\ unregistered' \subseteq unregistered \cup {s}
        /\ UNCHANGED <<own, ws, InstanceOf, listeners, pending, inbox>>
    BY <1>5 DEF SetEntry, GetEntry, DeleteEntry, sockets, commands
  <2> QED BY <2>1 DEF SocketsFit, SocketsOf
<1>6. CASE ExpireEntry
  <2>1. entry' = NoSocket /\ UNCHANGED <<own, ws, InstanceOf, unregistered, listeners, pending, inbox>>
    BY <1>6 DEF ExpireEntry, sockets, commands
  <2> QED BY <2>1 DEF SocketsFit
<1>7. ASSUME NEW c \in Commands, Publish(c)
      PROVE  SocketsFit'
  <2>1. /\ pending' \cup inbox' \subseteq pending \cup inbox \cup ({c} \X listeners)
        /\ UNCHANGED <<own, ws, InstanceOf, entry, unregistered, listeners>>
    BY <1>7 DEF Publish, sockets, redis
  <2> QED BY <2>1 DEF SocketsFit
<1>8. ASSUME pending' \subseteq pending, UNCHANGED <<sockets, entry, unregistered, listeners, inbox>>
      PROVE  SocketsFit'
  BY <1>8 DEF SocketsFit, sockets
<1>9. ASSUME NEW c \in Commands, CreateReservation(c) \/ CheckRegistry(c)
      PROVE  SocketsFit'
  BY <1>8, <1>9 DEF CreateReservation, CheckRegistry, redis
<1>10. ASSUME NEW call \in Calls, ForgetPending(call) \/ Answer(call)
       PROVE  SocketsFit'
  <2>1. pending' \subseteq pending
    BY <1>10 DEF ForgetPending, Answer, Consumed
  <2> QED BY <1>8, <1>10, <2>1 DEF ForgetPending, Answer, redis
<1>11. ASSUME NEW m \in Messages, NEW s \in Sockets, Receive(m, s)
       PROVE  SocketsFit'
  BY <1>8, <1>11 DEF Receive, commands
<1>12. ASSUME NEW e \in Event, StoreEvent(e)
       PROVE  SocketsFit'
  BY <1>8, <1>12 DEF StoreEvent, redis, commands
<1>13. ASSUME NEW i \in Instances, NEW s, NEW m \in Messages, Refresh(i, m, s)
       PROVE  SocketsFit'
  BY <1>8, <1>13 DEF Refresh, Refreshed, commands
<1> QED BY <1>1, <1>2, <1>3, <1>4, <1>5, <1>6, <1>7, <1>9, <1>10, <1>11, <1>12, <1>13,
           ClosingHappens DEF Next

LEMMA SubscriberStep ==
  ASSUME TypeOK, OpenIsFinite, SocketsFit, SubscriberFits, Next
  PROVE  SubscriberFits'
<1> USE GatewayAssumption
<1>0. \A i \in Instances : subscriber[i] \in Seq(SubscriberOp) /\ Len(subscriber[i]) \in Nat
  BY DEF TypeOK
<1>1. ASSUME NEW i \in Instances, NEW S, Closing(i, S)
      PROVE  SubscriberFits'
  <2>1. PICK a \in Seq({"unsubscribe"} \X S), b \in Seq({"get"} \X S) :
          /\ subscriber' = [subscriber EXCEPT ![i] = @ \o a]
          /\ client' = [client EXCEPT ![i] = @ \o b]
          /\ S = {} => a = <<>> /\ b = <<>>
    BY <1>1, ClosingQueues
  <2>2. S \subseteq SocketsOf(i) /\ UNCHANGED InstanceOf
    BY <1>1 DEF Closing, CloseSockets
  <2>3. a \in Seq(SubscriberOp) /\ \A n \in 1..Len(a) : a[n][2] \in SocketsOf(i)
    BY <2>2 DEF SubscriberOp, SocketsOf
  <2>4. ASSUME NEW n \in 1..Len(subscriber[i] \o a)
        PROVE  (subscriber[i] \o a)[n][2] \in SocketsOf(i)
    <3>1. /\ Len(subscriber[i]) \in Nat /\ Len(a) \in Nat
          /\ Len(subscriber[i] \o a) = Len(subscriber[i]) + Len(a)
          /\ \A k \in 1..Len(subscriber[i]) : (subscriber[i] \o a)[k] = subscriber[i][k]
          /\ \A k \in Len(subscriber[i]) + 1..Len(subscriber[i]) + Len(a) :
               (subscriber[i] \o a)[k] = a[k - Len(subscriber[i])]
               /\ k - Len(subscriber[i]) \in 1..Len(a)
      BY <1>0, <2>3, ConcatFacts
    <3>2. n \in 1..Len(subscriber[i]) \/ n \in Len(subscriber[i]) + 1..Len(subscriber[i]) + Len(a)
      BY <3>1
    <3> QED BY <2>3, <3>1, <3>2 DEF SubscriberFits
  <2> QED BY <2>1, <2>2, <2>4 DEF SubscriberFits, SocketsOf, TypeOK
<1>2. ASSUME NEW s \in Sockets, NEW i \in Instances, Open(s, i)
      PROVE  SubscriberFits'
  <2>1. /\ InstanceOf[s] = NoSocket
        /\ InstanceOf' = [InstanceOf EXCEPT ![s] = i] /\ subscriber' = subscriber
    BY <1>2 DEF Open, SocketsFit
  <2>2. \A j \in Instances : SocketsOf(j) \subseteq SocketsOf(j)'
    BY <2>1 DEF SocketsOf, TypeOK
  <2> QED BY <2>1, <2>2 DEF SubscriberFits
<1>3. ASSUME NEW i \in Instances, Subscription(i)
      PROVE  SubscriberFits'
  <2>1. subscriber' = [subscriber EXCEPT ![i] = Tail(@)] /\ UNCHANGED InstanceOf
    BY <1>3 DEF Subscription, sockets
  <2>2. ASSUME NEW n \in 1..Len(Tail(subscriber[i]))
        PROVE  Tail(subscriber[i])[n][2] \in SocketsOf(i)
    <3>1. Tail(subscriber[i])[n] = subscriber[i][n + 1] /\ n + 1 \in 1..Len(subscriber[i])
      BY <1>0, <1>3, TailFacts DEF Subscription
    <3> QED BY <3>1 DEF SubscriberFits
  <2> QED BY <2>1, <2>2 DEF SubscriberFits, SocketsOf, TypeOK
<1>4. ASSUME NEW i \in Instances, NEW s \in SocketsOf(i), SetEntry(i, s)
      PROVE  SubscriberFits'
  <2> DEFINE op == <<"subscribe", s>>
             q == Append(subscriber[i], op)
  <2>1. UNCHANGED InstanceOf /\ subscriber' \in {subscriber, [subscriber EXCEPT ![i] = q]}
    BY <1>4 DEF SetEntry, Write, sockets
  <2>2. op \in SubscriberOp /\ op[2] \in SocketsOf(i)
    BY DEF SubscriberOp, SocketsOf
  <2> HIDE DEF op
  <2>3. ASSUME NEW n \in 1..Len(q)
        PROVE  q[n][2] \in SocketsOf(i)
    <3>1. /\ Len(q) = Len(subscriber[i]) + 1 /\ q[Len(subscriber[i]) + 1] = op
          /\ \A k \in 1..Len(subscriber[i]) : q[k] = subscriber[i][k]
      BY <1>0, <2>2, AppendFacts
    <3> HIDE DEF q
    <3>2. n \in 1..Len(subscriber[i]) \/ n = Len(subscriber[i]) + 1
      BY <1>0, <3>1
    <3> QED BY <2>2, <3>1, <3>2 DEF SubscriberFits
  <2> HIDE DEF q
  <2>4. CASE subscriber' = subscriber
    BY <2>1, <2>4 DEF SubscriberFits, SocketsOf
  <2>5. CASE subscriber' = [subscriber EXCEPT ![i] = q]
    <3>1. \A j \in Instances : subscriber'[j] = IF j = i THEN q ELSE subscriber[j]
      BY <2>5 DEF TypeOK
    <3> QED BY <2>1, <2>3, <3>1 DEF SubscriberFits, SocketsOf
  <2> QED BY <2>1, <2>4, <2>5
<1>5. ASSUME NEW i \in Instances, Exit(i)
      PROVE  SubscriberFits'
  BY <1>5 DEF Exit, SubscriberFits, SocketsOf, TypeOK
<1>6. ASSUME UNCHANGED <<sockets, subscriber>>
      PROVE  SubscriberFits'
  BY <1>6 DEF SubscriberFits, SocketsOf, sockets
<1>7. ASSUME NEW i \in Instances, NEW s \in Sockets,
             GetEntry(i, s) \/ DeleteEntry(i, s) \/ \E m \in Messages : Refresh(i, m, s)
      PROVE  SubscriberFits'
  BY <1>6, <1>7 DEF GetEntry, DeleteEntry, Refresh, Refreshed
<1>8. CASE ExpireEntry
  BY <1>6, <1>8 DEF ExpireEntry
<1>9. ASSUME NEW c \in Commands, CreateReservation(c) \/ CheckRegistry(c) \/ Publish(c)
      PROVE  SubscriberFits'
  BY <1>6, <1>9 DEF CreateReservation, CheckRegistry, Publish, redis
<1>10. ASSUME NEW call \in Calls, ForgetPending(call) \/ Answer(call)
       PROVE  SubscriberFits'
  BY <1>6, <1>10 DEF ForgetPending, Answer, redis
<1>11. ASSUME NEW m \in Messages, NEW s \in Sockets, Receive(m, s)
       PROVE  SubscriberFits'
  BY <1>6, <1>11 DEF Receive
<1>12. ASSUME NEW e \in Event, StoreEvent(e)
       PROVE  SubscriberFits'
  BY <1>6, <1>12 DEF StoreEvent, redis
<1>13. ASSUME NEW i \in Instances, NEW s \in SocketsOf(i)
       PROVE  s \in Sockets
  BY DEF SocketsOf
<1> QED BY <1>1, <1>2, <1>3, <1>4, <1>5, <1>7, <1>8, <1>9, <1>10, <1>11, <1>12, <1>13,
           ClosingHappens DEF Next

(* A step that puts q into the queue of instance i.  What the sockets of   *)
(* the other instances have done changes only by what i executes.          *)
LEMMA ClientFitsAfter ==
  ASSUME TypeOK, ClientFits, NEW i \in Instances, NEW q,
         client' = [client EXCEPT ![i] = q], UNCHANGED InstanceOf,
         QueueFits(q, SocketsOf(i), (unregistered \cup {entry})'),
         (unregistered \cup {entry})' \subseteq unregistered \cup {entry, NoSocket} \cup SocketsOf(i)
  PROVE  ClientFits'
<1> USE GatewayAssumption
<1>1. ASSUME NEW j \in Instances
      PROVE  QueueFits(client'[j], SocketsOf(j), (unregistered \cup {entry})')
  <2>1. CASE j = i
    BY <2>1 DEF TypeOK
  <2>2. CASE j # i
    <3>1. client'[j] = client[j]
      BY <2>2 DEF TypeOK
    <3>2. (unregistered \cup {entry})' \cap SocketsOf(j) \subseteq unregistered \cup {entry}
      BY <2>2 DEF SocketsOf
    <3>3. QueueFits(client[j], SocketsOf(j), unregistered \cup {entry})
      BY DEF ClientFits
    <3> QED BY <3>1, <3>2, <3>3, FitsDone
  <2> QED BY <2>1, <2>2
<1> QED BY <1>1 DEF ClientFits, SocketsOf

(* The same when no queue changes. *)
LEMMA ClientFitsStill ==
  ASSUME TypeOK, ClientFits, UNCHANGED <<client, InstanceOf, unregistered>>,
         entry' \in {entry, NoSocket}
  PROVE  ClientFits'
<1>1. ASSUME NEW j \in Instances
      PROVE  QueueFits(client[j], SocketsOf(j), unregistered \cup {entry'})
  <2>1. (unregistered \cup {entry'}) \cap SocketsOf(j) \subseteq unregistered \cup {entry}
    BY GatewayAssumption DEF SocketsOf
  <2> QED BY <2>1, FitsDone DEF ClientFits
<1> QED BY <1>1 DEF ClientFits, SocketsOf

LEMMA ClientStep ==
  ASSUME TypeOK, OpenIsFinite, SocketsFit, ClientFits, NoGhostEntry, Next
  PROVE  ClientFits' /\ NoGhostEntry'
<1> USE GatewayAssumption
<1> DEFINE done == unregistered \cup {entry}
<1>0. ASSUME NEW i \in Instances
      PROVE  client[i] \in Seq(ClientOp) /\ QueueFits(client[i], SocketsOf(i), done)
  BY DEF TypeOK, ClientFits
<1>1. ASSUME NEW i \in Instances, NEW S, Closing(i, S)
      PROVE  ClientFits' /\ NoGhostEntry'
  <2>1. PICK a \in Seq({"unsubscribe"} \X S), b \in Seq({"get"} \X S) :
          /\ subscriber' = [subscriber EXCEPT ![i] = @ \o a]
          /\ client' = [client EXCEPT ![i] = @ \o b]
          /\ S = {} => a = <<>> /\ b = <<>>
    BY <1>1, ClosingQueues
  <2>2. S \subseteq SocketsOf(i) /\ UNCHANGED <<InstanceOf, entry, unregistered>>
    BY <1>1 DEF Closing, CloseSockets
  <2>3. b \in Seq(ClientOp) /\ \A n \in 1..Len(b) : b[n][1] # "set" /\ b[n][2] \in SocketsOf(i)
    <3>1. {"get"} \X S \subseteq ClientOp
      BY <2>2 DEF ClientOp, SocketsOf
    <3>2. \A n \in 1..Len(b) : b[n] \in {"get"} \X S
      OBVIOUS
    <3> QED BY <2>2, <3>1, <3>2
  <2>4. QueueFits(client[i] \o b, SocketsOf(i), done)
    BY <1>0, <2>3, FitsConcat
  <2> QED BY <2>1, <2>2, <2>4, ClientFitsAfter DEF NoGhostEntry
<1>2. ASSUME NEW s \in Sockets, NEW i \in Instances, Open(s, i)
      PROVE  ClientFits' /\ NoGhostEntry'
  <2>1. /\ client' = [client EXCEPT ![i] = Append(@, <<"set", s>>)]
        /\ InstanceOf' = [InstanceOf EXCEPT ![s] = i] /\ UNCHANGED <<entry, unregistered>>
    BY <1>2 DEF Open, Write
  <2>2. InstanceOf[s] = NoSocket /\ s \notin done
    BY <1>2 DEF Open, SocketsFit
  <2>3. \A j \in Instances : s \notin SocketsOf(j) /\ SocketsOf(j)' = IF j = i THEN SocketsOf(j) \cup {s} ELSE SocketsOf(j)
    BY <2>1, <2>2 DEF SocketsOf, TypeOK
  <2>4. QueueFits(Append(client[i], <<"set", s>>), SocketsOf(i) \cup {s}, done)
    <3>1. <<"set", s>> \in ClientOp
      BY DEF ClientOp
    <3> QED BY <1>0, <2>2, <2>3, <3>1, FitsOpen
  <2>5. ASSUME NEW j \in Instances
        PROVE  QueueFits(client'[j], SocketsOf(j)', done)
    BY <1>0, <2>1, <2>3, <2>4 DEF TypeOK
  <2>6. done' = done
    BY <2>1
  <2> QED BY <2>1, <2>5, <2>6 DEF ClientFits, NoGhostEntry
<1>3. ASSUME NEW i \in Instances, Exit(i)
      PROVE  ClientFits' /\ NoGhostEntry'
  <2>1. client' = [client EXCEPT ![i] = <<>>] /\ UNCHANGED <<InstanceOf, entry, unregistered>>
    BY <1>3 DEF Exit
  <2>2. QueueFits(<<>>, SocketsOf(i), done)
    BY DEF QueueFits, SetsFirst
  <2> QED BY <2>1, <2>2, ClientFitsAfter DEF NoGhostEntry
<1>4. ASSUME NEW i \in Instances, NEW s \in SocketsOf(i), NEW kind, Reply(i, kind, s)
      PROVE  /\ client[i] # <<>> /\ Tail(client[i]) \in Seq(ClientOp)
             /\ QueueFits(Tail(client[i]), SocketsOf(i), done \cup {s})
             /\ kind = "set" => s \notin unregistered
  <2>1. client[i] # <<>> /\ Head(client[i])[1] = kind /\ Head(client[i])[2] = s
    BY <1>4 DEF Reply
  <2>2. /\ Tail(client[i]) \in Seq(ClientOp) /\ 1 \in 1..Len(client[i]) /\ Head(client[i]) = client[i][1]
    BY <1>0, <2>1, TailFacts
  <2>3. QueueFits(Tail(client[i]), SocketsOf(i), done \cup {s})
    BY <1>0, <2>1, FitsTail
  <2> QED BY <1>0, <2>1, <2>2, <2>3 DEF QueueFits
<1>5. ASSUME NEW i \in Instances, NEW s \in SocketsOf(i), SetEntry(i, s)
      PROVE  ClientFits' /\ NoGhostEntry'
  <2>1. /\ Reply(i, "set", s) /\ client' = [client EXCEPT ![i] = Tail(@)]
        /\ entry' = s /\ UNCHANGED <<InstanceOf, unregistered>>
    BY <1>5 DEF SetEntry, sockets
  <2>2. QueueFits(Tail(client[i]), SocketsOf(i), done')
    BY <1>4, <2>1, FitsDone
  <2>3. s \notin unregistered
    BY <1>4, <2>1
  <2> QED BY <2>1, <2>2, <2>3, ClientFitsAfter DEF NoGhostEntry
<1>6. ASSUME NEW i \in Instances, NEW s \in SocketsOf(i), GetEntry(i, s)
      PROVE  ClientFits' /\ NoGhostEntry'
  <2>1. Reply(i, "get", s) /\ UNCHANGED <<InstanceOf, entry>>
    BY <1>6 DEF GetEntry, sockets
  <2>2. CASE entry = s
    <3>1. client' = [client EXCEPT ![i] = Append(Tail(@), <<"del", s>>)] /\ UNCHANGED unregistered
      BY <1>6, <2>2 DEF GetEntry, Owns
    <3>2. QueueFits(Tail(client[i]), SocketsOf(i), done)
      BY <1>4, <2>1, FitsDone
    <3>3. <<"del", s>> \in ClientOp /\ <<"del", s>>[1] # "set" /\ <<"del", s>>[2] \in SocketsOf(i)
      BY DEF ClientOp, SocketsOf
    <3>4. QueueFits(Append(Tail(client[i]), <<"del", s>>), SocketsOf(i), done)
      BY <1>4, <2>1, <3>2, <3>3, FitsAppend
    <3> QED BY <2>1, <3>1, <3>4, ClientFitsAfter DEF NoGhostEntry
  <2>3. CASE entry # s
    <3>1. client' = [client EXCEPT ![i] = Tail(@)] /\ unregistered' = unregistered \cup {s}
      BY <1>6, <2>3 DEF GetEntry, Owns
    <3>2. QueueFits(Tail(client[i]), SocketsOf(i), done')
      <4>1. QueueFits(Tail(client[i]), SocketsOf(i), done \cup {s})
        BY <1>4, <2>1
      <4>2. done' = done \cup {s}
        BY <2>1, <3>1
      <4> QED BY <4>1, <4>2
    <3> QED BY <2>1, <2>3, <3>1, <3>2, ClientFitsAfter DEF NoGhostEntry
  <2> QED BY <2>2, <2>3
<1>7. ASSUME NEW i \in Instances, NEW s \in SocketsOf(i), DeleteEntry(i, s)
      PROVE  ClientFits' /\ NoGhostEntry'
  <2>1. /\ Reply(i, "del", s) /\ client' = [client EXCEPT ![i] = Tail(@)] /\ UNCHANGED InstanceOf
        /\ entry' = NoSocket /\ unregistered' = unregistered \cup {s}
    BY <1>7 DEF DeleteEntry, sockets
  <2>2. done' \cap SocketsOf(i) \subseteq done \cup {s}
    BY <2>1 DEF SocketsOf
  <2>3. QueueFits(Tail(client[i]), SocketsOf(i), done')
    <3>1. QueueFits(Tail(client[i]), SocketsOf(i), done \cup {s})
      BY <1>4, <2>1
    <3> HIDE DEF done
    <3> QED BY <2>2, <3>1, FitsDone
  <2>4. NoGhostEntry'
    BY <2>1 DEF NoGhostEntry, SocketsOf, TypeOK
  <2> QED BY <2>1, <2>3, <2>4, ClientFitsAfter
<1>8. ASSUME NEW i \in Instances, NEW s \in SocketsOf(i), NEW m \in Messages, Refresh(i, m, s)
      PROVE  ClientFits' /\ NoGhostEntry'
  <2>1. /\ Reply(i, m, s) /\ client' = [client EXCEPT ![i] = Tail(@)]
        /\ UNCHANGED <<InstanceOf, entry, unregistered>>
    BY <1>8 DEF Refresh, Refreshed, sockets
  <2>2. QueueFits(Tail(client[i]), SocketsOf(i), done')
    BY <1>4, <2>1, FitsDone
  <2> QED BY <2>1, <2>2, ClientFitsAfter DEF NoGhostEntry
<1>9. ASSUME NEW m \in Messages, NEW s \in Sockets, Receive(m, s)
      PROVE  ClientFits' /\ NoGhostEntry'
  <2> DEFINE i == InstanceOf[s]
             op == <<m, s>>
  <2>1. /\ client' = [client EXCEPT ![i] = Append(@, op)]
        /\ UNCHANGED <<InstanceOf, entry, unregistered>>
    BY <1>9 DEF Receive, Write, sockets
  <2>2. i \in Instances /\ s \in SocketsOf(i)
    BY <1>9 DEF Receive, SocketsFit, SocketsOf
  <2>3. op \in ClientOp /\ op[1] # "set" /\ op[2] \in SocketsOf(i)
    BY <2>2 DEF ClientOp
  <2> HIDE DEF i, op
  <2>4. QueueFits(Append(client[i], op), SocketsOf(i), done)
    BY <1>0, <2>2, <2>3, FitsAppend
  <2> QED BY <2>1, <2>2, <2>4, ClientFitsAfter DEF NoGhostEntry
<1>10. ASSUME UNCHANGED <<client, InstanceOf, unregistered>>, entry' \in {entry, NoSocket}
       PROVE  ClientFits' /\ NoGhostEntry'
  BY <1>10, ClientFitsStill DEF NoGhostEntry, TypeOK
<1>11. CASE ExpireEntry
  BY <1>10, <1>11 DEF ExpireEntry, sockets
<1>12. ASSUME NEW i \in Instances, Subscription(i)
       PROVE  ClientFits' /\ NoGhostEntry'
  BY <1>10, <1>12 DEF Subscription, sockets
<1>13. ASSUME NEW c \in Commands, CreateReservation(c) \/ CheckRegistry(c) \/ Publish(c)
       PROVE  ClientFits' /\ NoGhostEntry'
  BY <1>10, <1>13 DEF CreateReservation, CheckRegistry, Publish, sockets, redis
<1>14. ASSUME NEW call \in Calls, ForgetPending(call) \/ Answer(call)
       PROVE  ClientFits' /\ NoGhostEntry'
  BY <1>10, <1>14 DEF ForgetPending, Answer, sockets, redis
<1>15. ASSUME NEW e \in Event, StoreEvent(e)
       PROVE  ClientFits' /\ NoGhostEntry'
  BY <1>10, <1>15 DEF StoreEvent, sockets, redis
<1> QED BY <1>1, <1>2, <1>3, <1>5, <1>6, <1>7, <1>8, <1>9, <1>11, <1>12, <1>13, <1>14, <1>15,
           ClosingHappens DEF Next

LEMMA ConfirmedStep ==
  ASSUME TypeOK, ConfirmedIsPublished, Next
  PROVE  ConfirmedIsPublished'
<1>1. CASE UNCHANGED <<events, confirmed>>
  BY <1>1 DEF ConfirmedIsPublished
<1>2. ASSUME NEW e \in Event, StoreEvent(e)
      PROVE  ConfirmedIsPublished'
  <2>1. events' = events \cup {e} /\ confirmed' \subseteq confirmed \cup {e[1]}
    BY <1>2 DEF StoreEvent, Confirm
  <2>2. e = <<e[1], e[2]>> /\ e[2] \in Sockets
    BY DEF Event
  <2> QED BY <2>1, <2>2 DEF ConfirmedIsPublished
<1>3. ASSUME NEW s \in Sockets, Close(s) \/ \E i \in Instances : Open(s, i)
      PROVE  UNCHANGED <<events, confirmed>>
  BY <1>3 DEF Close, CloseSockets, Open, inbound
<1>4. ASSUME NEW i \in Instances, Subscription(i) \/ Drain(i) \/ Exit(i)
      PROVE  UNCHANGED <<events, confirmed>>
  BY <1>4 DEF Subscription, Drain, CloseSockets, Exit, inbound
<1>5. ASSUME NEW i \in Instances, NEW s \in SocketsOf(i),
             \/ SetEntry(i, s) \/ GetEntry(i, s) \/ DeleteEntry(i, s)
             \/ \E m \in Messages : Refresh(i, m, s)
      PROVE  UNCHANGED <<events, confirmed>>
  BY <1>5 DEF SetEntry, GetEntry, DeleteEntry, Refresh, Refreshed, inbound
<1>6. CASE ExpireEntry
  BY <1>1, <1>6 DEF ExpireEntry, inbound
<1>7. ASSUME NEW c \in Commands, CreateReservation(c) \/ CheckRegistry(c) \/ Publish(c)
      PROVE  UNCHANGED <<events, confirmed>>
  BY <1>7 DEF CreateReservation, CheckRegistry, Publish, inbound
<1>8. ASSUME NEW call \in Calls, ForgetPending(call) \/ Answer(call)
      PROVE  UNCHANGED <<events, confirmed>>
  BY <1>8 DEF ForgetPending, Answer, inbound
<1>9. ASSUME NEW m \in Messages, NEW s \in Sockets, Receive(m, s)
      PROVE  UNCHANGED <<events, confirmed>>
  BY <1>9 DEF Receive
<1> QED BY <1>1, <1>2, <1>3, <1>4, <1>5, <1>6, <1>7, <1>8, <1>9 DEF Next
-----------------------------------------------------------------------------
LEMMA InvInit == Init => Inv
<1> USE GatewayAssumption
<1> SUFFICES ASSUME Init PROVE Inv
  OBVIOUS
<1>1. TypeOK
  <2>1. <<>> \in Seq(ClientOp) /\ <<>> \in Seq(SubscriberOp)
    OBVIOUS
  <2> QED BY <2>1 DEF Init, TypeOK
<1>2. OpenIsFinite
  <2>1. {s \in Sockets : ws[s] = "open"} = {}
    BY DEF Init
  <2> QED BY <2>1, FS_EmptySet DEF OpenIsFinite
<1>3. SocketsFit /\ SubscriberFits /\ ClientFits
  BY DEF Init, SocketsFit, SubscriberFits, ClientFits, QueueFits, SetsFirst
<1>4. NoGhostEntry /\ ConfirmedIsPublished
  BY DEF Init, NoGhostEntry, ConfirmedIsPublished
<1> QED BY <1>1, <1>2, <1>3, <1>4 DEF Inv

LEMMA InvStutters == Inv /\ UNCHANGED vars => Inv'
<1> SUFFICES ASSUME Inv, UNCHANGED vars PROVE Inv'
  OBVIOUS
<1> USE DEF Inv, vars, sockets, redis, commands, inbound
<1>1. TypeOK'
  BY DEF TypeOK
<1>2. OpenIsFinite' /\ SocketsFit'
  BY DEF OpenIsFinite, SocketsFit
<1>3. SubscriberFits' /\ ClientFits'
  BY DEF SubscriberFits, ClientFits, SocketsOf
<1>4. NoGhostEntry' /\ ConfirmedIsPublished'
  BY DEF NoGhostEntry, ConfirmedIsPublished
<1> QED BY <1>1, <1>2, <1>3, <1>4

LEMMA Invariance == Spec => []Inv
<1>1. Inv /\ [Next]_vars => Inv'
  <2>1. Inv /\ Next => Inv'
    BY TypeStep, FiniteStep, SocketsStep, SubscriberStep, ClientStep, ConfirmedStep DEF Inv
  <2> QED BY <2>1, InvStutters
<1> QED BY <1>1, InvInit, PTL DEF Spec

(* The variables of the gateway keep their types. *)
THEOREM TypeCorrect == Spec => []TypeOK
<1>1. Inv => TypeOK
  BY DEF Inv
<1> QED BY <1>1, Invariance, PTL

(* A socket that has unregistered is never in the registry again, however  *)
(* many sockets and instances there are and whenever they connect, close,  *)
(* drain or die: unregister() comes behind register() on one connection    *)
(* and deletes only its own entry.                                         *)
THEOREM UnregisteredStaysOut == Spec => []NoGhostEntry
<1>1. Inv => NoGhostEntry
  BY DEF Inv
<1> QED BY <1>1, Invariance, PTL

(* handleInbound() answers a Call when its event is in Kafka, and not      *)
(* before.                                                                 *)
THEOREM AnsweredIsStored == Spec => []ConfirmedIsPublished
<1>1. Inv => ConfirmedIsPublished
  BY DEF Inv
<1> QED BY <1>1, Invariance, PTL
-----------------------------------------------------------------------------
(***************************************************************************)
(* What holds when the charger comes back only after its old socket is     *)
(* closed.                                                                 *)
(***************************************************************************)
LEMMA OnlyOwnStep ==
  ASSUME ~Overlap, TypeOK, OpenIsFinite, SocketsFit, OnlyOwnIsOpen, Next
  PROVE  OnlyOwnIsOpen'
<1>1. CASE UNCHANGED <<own, ws>>
  BY <1>1 DEF OnlyOwnIsOpen
<1>2. ASSUME NEW s \in Sockets, NEW i \in Instances, Open(s, i)
      PROVE  OnlyOwnIsOpen'
  BY <1>2 DEF Open, OnlyOwnIsOpen, TypeOK
<1>3. ASSUME NEW i \in Instances, NEW S, Closing(i, S)
      PROVE  OnlyOwnIsOpen'
  BY <1>3 DEF Closing, CloseSockets, OnlyOwnIsOpen
<1>4. ASSUME NEW i \in Instances, Exit(i)
      PROVE  OnlyOwnIsOpen'
  <2> DEFINE gone == {s \in SocketsOf(i) : ws[s] = "open"}
  <2>1. /\ own' = IF own \in gone THEN NoSocket ELSE own
        /\ ws' = [s \in Sockets |-> IF s \in gone THEN "closed" ELSE ws[s]]
    BY <1>4 DEF Exit
  <2> HIDE DEF gone
  <2> QED BY <2>1 DEF OnlyOwnIsOpen
<1>5. ASSUME NEW i \in Instances, NEW s \in SocketsOf(i),
             \/ SetEntry(i, s) \/ GetEntry(i, s) \/ DeleteEntry(i, s)
             \/ \E m \in Messages : Refresh(i, m, s)
      PROVE  UNCHANGED <<own, ws>>
  BY <1>5 DEF SetEntry, GetEntry, DeleteEntry, Refresh, Refreshed, sockets
<1>6. CASE ExpireEntry
  BY <1>1, <1>6 DEF ExpireEntry, sockets
<1>7. ASSUME NEW c \in Commands, CreateReservation(c) \/ CheckRegistry(c) \/ Publish(c)
      PROVE  UNCHANGED <<own, ws>>
  BY <1>7 DEF CreateReservation, CheckRegistry, Publish, sockets
<1>8. ASSUME NEW call \in Calls, ForgetPending(call) \/ Answer(call)
      PROVE  UNCHANGED <<own, ws>>
  BY <1>8 DEF ForgetPending, Answer, sockets
<1>9. ASSUME NEW m \in Messages, NEW s \in Sockets, Receive(m, s)
      PROVE  UNCHANGED <<own, ws>>
  BY <1>9 DEF Receive, sockets
<1>10. ASSUME NEW e \in Event, StoreEvent(e)
       PROVE  UNCHANGED <<own, ws>>
  BY <1>10 DEF StoreEvent, sockets
<1>11. ASSUME NEW i \in Instances, Subscription(i)
       PROVE  UNCHANGED <<own, ws>>
  BY <1>11 DEF Subscription, sockets
<1> QED BY <1>1, <1>2, <1>3, <1>4, <1>5, <1>6, <1>7, <1>8, <1>9, <1>10, <1>11, ClosingHappens DEF Next

(* The one socket that may close is the charger's. *)
LEMMA ClosingOwn ==
  ASSUME NEW i \in Instances, NEW S, TypeOK, OnlyOwnIsOpen, Closing(i, S), own' # NoSocket
  PROVE  S = {} /\ UNCHANGED <<own, pending>>
<1>1. own' = own /\ own \notin S
  BY DEF Closing, CloseSockets
<1>2. S = {}
  BY <1>1 DEF Closing, SocketsOf, OnlyOwnIsOpen
<1> QED BY <1>1, <1>2 DEF Closing, CloseSockets

(* What a queue keeps when its first command is executed. *)
LEMMA StaysInTail ==
  ASSUME NEW T, NEW q \in Seq(T), q # <<>>, NEW s
  PROVE  /\ Registering(q, s) /\ Head(q) # <<"set", s>> => Registering(Tail(q), s)
         /\ Subscribing(q, s) /\ Head(q) # <<"subscribe", s>> => Subscribing(Tail(q), s)
         /\ Subscribing(q, s) /\ Head(q) = <<"subscribe", s>> =>
              Subscribing(Tail(q), s) \/ StaysSubscribed(Tail(q), 0)
         /\ StaysSubscribed(q, 0) => Head(q)[1] # "unsubscribe" /\ StaysSubscribed(Tail(q), 0)
<1>1. /\ Len(q) \in Nat \ {0} /\ Len(Tail(q)) = Len(q) - 1
      /\ \A n \in 1..Len(q) - 1 : Tail(q)[n] = q[n + 1]
      /\ Head(q) = q[1]
  BY TailFacts
<1>2. ASSUME NEW n \in 1..Len(q), n # 1
      PROVE  n - 1 \in 1..Len(Tail(q)) /\ Tail(q)[n - 1] = q[n]
  <2> DEFINE k == n - 1
  <2>1. k \in 1..Len(q) - 1 /\ k + 1 = n
    BY <1>1, <1>2
  <2> HIDE DEF k
  <2>2. k \in 1..Len(Tail(q)) /\ Tail(q)[k] = q[n]
    BY <1>1, <2>1
  <2> QED BY <2>2 DEF k
<1>3. Registering(q, s) /\ Head(q) # <<"set", s>> => Registering(Tail(q), s)
  BY <1>1, <1>2 DEF Registering
<1>4. ASSUME NEW n \in 1..Len(q), StaysSubscribed(q, n)
      PROVE  StaysSubscribed(Tail(q), n - 1)
  <2> SUFFICES ASSUME NEW m \in (n - 1) + 1..Len(Tail(q))
               PROVE  Tail(q)[m][1] # "unsubscribe"
    BY DEF StaysSubscribed
  <2>1. m + 1 \in n + 1..Len(q) /\ m \in 1..Len(q) - 1
    BY <1>1
  <2> QED BY <1>1, <1>4, <2>1 DEF StaysSubscribed
<1>5. ASSUME NEW n \in 1..Len(q), n # 1, q[n] = <<"subscribe", s>>, StaysSubscribed(q, n)
      PROVE  Subscribing(Tail(q), s)
  <2>1. n - 1 \in 1..Len(Tail(q)) /\ Tail(q)[n - 1] = <<"subscribe", s>>
    BY <1>2, <1>5
  <2>2. StaysSubscribed(Tail(q), n - 1)
    BY <1>4, <1>5
  <2> QED BY <2>1, <2>2 DEF Subscribing
<1>6. Subscribing(q, s) => \/ Subscribing(Tail(q), s)
                           \/ Head(q) = <<"subscribe", s>> /\ StaysSubscribed(Tail(q), 0)
  <2> SUFFICES ASSUME NEW n \in 1..Len(q), q[n] = <<"subscribe", s>>, StaysSubscribed(q, n)
               PROVE  \/ Subscribing(Tail(q), s)
                      \/ Head(q) = <<"subscribe", s>> /\ StaysSubscribed(Tail(q), 0)
    BY DEF Subscribing
  <2>1. CASE n = 1
    <3>1. StaysSubscribed(Tail(q), n - 1) /\ n - 1 = 0
      BY <1>4, <2>1
    <3> QED BY <1>1, <2>1, <3>1
  <2>2. CASE n # 1
    BY <1>5, <2>2
  <2> QED BY <2>1, <2>2
<1>7. ASSUME StaysSubscribed(q, 0)
      PROVE  Head(q)[1] # "unsubscribe" /\ StaysSubscribed(Tail(q), 0)
  BY <1>1, <1>7 DEF StaysSubscribed
<1> QED BY <1>3, <1>6, <1>7

(* And when another is put behind it. *)
LEMMA StaysInAppend ==
  ASSUME NEW T, NEW q \in Seq(T), NEW op \in T, NEW s
  PROVE  /\ Registering(q, s) \/ op = <<"set", s>> => Registering(Append(q, op), s)
         /\ op = <<"subscribe", s>> => Subscribing(Append(q, op), s)
         /\ Subscribing(q, s) /\ op[1] # "unsubscribe" => Subscribing(Append(q, op), s)
         /\ StaysSubscribed(q, 0) /\ op[1] # "unsubscribe" => StaysSubscribed(Append(q, op), 0)
<1>1. /\ Len(q) \in Nat /\ Len(Append(q, op)) = Len(q) + 1
      /\ \A n \in 1..Len(q) : Append(q, op)[n] = q[n]
      /\ Append(q, op)[Len(q) + 1] = op
  BY AppendFacts
<1>2. Registering(q, s) \/ op = <<"set", s>> => Registering(Append(q, op), s)
  BY <1>1 DEF Registering
<1>3. ASSUME NEW n \in 0..Len(q), StaysSubscribed(q, n), op[1] # "unsubscribe"
      PROVE  StaysSubscribed(Append(q, op), n)
  <2> SUFFICES ASSUME NEW m \in n + 1..Len(q) + 1
               PROVE  Append(q, op)[m][1] # "unsubscribe"
    BY <1>1 DEF StaysSubscribed
  <2>1. (m \in n + 1..Len(q) /\ m \in 1..Len(q)) \/ m = Len(q) + 1
    BY <1>1
  <2> QED BY <1>1, <1>3, <2>1 DEF StaysSubscribed
<1>4. ASSUME op = <<"subscribe", s>>
      PROVE  Subscribing(Append(q, op), s)
  <2>1. Len(q) + 1 \in 1..Len(Append(q, op)) /\ Append(q, op)[Len(q) + 1] = <<"subscribe", s>>
    BY <1>1, <1>4
  <2>2. StaysSubscribed(Append(q, op), Len(q) + 1)
    BY <1>1 DEF StaysSubscribed
  <2> QED BY <2>1, <2>2 DEF Subscribing
<1>5. ASSUME Subscribing(q, s), op[1] # "unsubscribe"
      PROVE  Subscribing(Append(q, op), s)
  <2>1. PICK n \in 1..Len(q) : q[n] = <<"subscribe", s>> /\ StaysSubscribed(q, n)
    BY <1>5 DEF Subscribing
  <2>2. n \in 1..Len(Append(q, op)) /\ Append(q, op)[n] = <<"subscribe", s>>
    BY <1>1, <2>1
  <2>3. StaysSubscribed(Append(q, op), n)
    BY <1>1, <1>3, <1>5, <2>1
  <2> QED BY <2>2, <2>3 DEF Subscribing
<1>6. StaysSubscribed(q, 0) /\ op[1] # "unsubscribe" => StaysSubscribed(Append(q, op), 0)
  BY <1>1, <1>3
<1> QED BY <1>2, <1>4, <1>5, <1>6

(* What open() set off, s on instance i, in any state. *)
LEMMA OwnSubscribesAfter ==
  ASSUME TypeOK, OwnSubscribes, UNCHANGED <<own, InstanceOf>>,
         \A s \in Sockets : own = s =>
           LET i == InstanceOf[s] IN
             /\ Registering(client[i], s) =>
                  Registering(client'[i], s) \/ Subscribing(subscriber'[i], s)
             /\ Subscribing(subscriber[i], s) =>
                  \/ Subscribing(subscriber'[i], s)
                  \/ s \in listeners' /\ i \in subscribed' /\ StaysSubscribed(subscriber'[i], 0)
             /\ s \in listeners /\ i \in subscribed /\ StaysSubscribed(subscriber[i], 0) =>
                  s \in listeners' /\ i \in subscribed' /\ StaysSubscribed(subscriber'[i], 0)
  PROVE  OwnSubscribes'
<1> SUFFICES ASSUME NEW s \in Sockets, own = s
             PROVE  \/ Registering(client'[InstanceOf[s]], s)
                    \/ Subscribing(subscriber'[InstanceOf[s]], s)
                    \/ /\ s \in listeners' /\ InstanceOf[s] \in subscribed'
                       /\ StaysSubscribed(subscriber'[InstanceOf[s]], 0)
  BY DEF OwnSubscribes, Registering, Subscribing, StaysSubscribed
<1> QED BY DEF OwnSubscribes

LEMMA OwnSubscribesStep ==
  ASSUME ~Overlap, TypeOK, OpenIsFinite, SocketsFit, OnlyOwnIsOpen, OwnSubscribes, Next
  PROVE  OwnSubscribes'
<1> USE GatewayAssumption
<1>0. ASSUME NEW i \in Instances
      PROVE  client[i] \in Seq(ClientOp) /\ subscriber[i] \in Seq(SubscriberOp)
  BY DEF TypeOK
<1>1. CASE UNCHANGED <<own, InstanceOf, client, subscriber, subscribed, listeners>>
  BY <1>1, OwnSubscribesAfter
<1>2. CASE own' = NoSocket
  BY <1>2 DEF OwnSubscribes
<1>3. ASSUME NEW i \in Instances, NEW S, Closing(i, S)
      PROVE  OwnSubscribes'
  <2>1. CASE own' # NoSocket
    <3>1. S = {} /\ UNCHANGED <<own, InstanceOf, subscribed, listeners>>
      BY <1>3, <2>1, ClosingOwn DEF Closing, CloseSockets
    <3>2. PICK a \in Seq({"unsubscribe"} \X S), b \in Seq({"get"} \X S) :
            /\ subscriber' = [subscriber EXCEPT ![i] = @ \o a]
            /\ client' = [client EXCEPT ![i] = @ \o b]
            /\ S = {} => a = <<>> /\ b = <<>>
      BY <1>3, ClosingQueues
    <3>3. subscriber[i] \o a = subscriber[i] /\ client[i] \o b = client[i]
      BY <1>0, <3>1, <3>2
    <3>4. UNCHANGED <<client, subscriber>>
      BY <3>2, <3>3 DEF TypeOK
    <3> QED BY <1>1, <3>1, <3>4
  <2> QED BY <1>2, <2>1
<1>4. ASSUME NEW s \in Sockets, NEW i \in Instances, Open(s, i)
      PROVE  OwnSubscribes'
  <2>1. /\ own' = s /\ client' = [client EXCEPT ![i] = Append(@, <<"set", s>>)]
        /\ InstanceOf' = [InstanceOf EXCEPT ![s] = i]
    BY <1>4 DEF Open, Write
  <2>2. <<"set", s>> \in ClientOp
    BY DEF ClientOp
  <2>3. Registering(Append(client[i], <<"set", s>>), s)
    BY <1>0, <2>2, StaysInAppend
  <2>4. InstanceOf'[s] = i /\ client'[i] = Append(client[i], <<"set", s>>)
    BY <2>1 DEF TypeOK
  <2>5. Registering(client'[InstanceOf'[s]], s)
    BY <2>3, <2>4
  <2> QED BY <2>1, <2>5 DEF OwnSubscribes, Registering, Subscribing, StaysSubscribed
<1>5. ASSUME NEW i \in Instances, Exit(i)
      PROVE  OwnSubscribes'
  <2>1. CASE own' # NoSocket
    <3>1. /\ UNCHANGED <<own, InstanceOf>> /\ ~(own \in SocketsOf(i) /\ ws[own] = "open")
          /\ client' = [client EXCEPT ![i] = <<>>] /\ subscriber' = [subscriber EXCEPT ![i] = <<>>]
          /\ subscribed' = subscribed \ {i} /\ listeners' = listeners \ SocketsOf(i)
      BY <1>5, <2>1 DEF Exit
    <3>2. ASSUME NEW s \in Sockets, own = s
          PROVE  InstanceOf[s] # i /\ InstanceOf[s] \in Instances
      BY <3>1, <3>2 DEF SocketsFit, SocketsOf
    <3>3. ASSUME NEW s \in Sockets, own = s
          PROVE  /\ client'[InstanceOf[s]] = client[InstanceOf[s]]
                 /\ subscriber'[InstanceOf[s]] = subscriber[InstanceOf[s]]
                 /\ s \in listeners => s \in listeners'
                 /\ InstanceOf[s] \in subscribed => InstanceOf[s] \in subscribed'
      BY <3>1, <3>2, <3>3 DEF SocketsOf, TypeOK
    <3> QED BY <3>1, <3>3, OwnSubscribesAfter
  <2> QED BY <1>2, <2>1
<1>6. ASSUME NEW j \in Instances, Subscription(j)
      PROVE  OwnSubscribes'
  <2> DEFINE op == Head(subscriber[j])
  <2>1. /\ subscriber[j] # <<>> /\ subscriber' = [subscriber EXCEPT ![j] = Tail(@)]
        /\ UNCHANGED <<own, InstanceOf, client>>
        /\ \/ /\ op[1] = "subscribe" /\ subscribed' = subscribed \cup {j}
              /\ listeners' = listeners \cup {op[2]}
           \/ op[1] = "unsubscribe" /\ subscribed' = subscribed \ {j} /\ listeners' = listeners
    BY <1>6 DEF Subscription, sockets
  <2> HIDE DEF op
  <2>2. ASSUME NEW s \in Sockets, own = s, InstanceOf[s] = j
        PROVE  /\ Registering(client'[j], s) <=> Registering(client[j], s)
               /\ Subscribing(subscriber[j], s) =>
                    \/ Subscribing(subscriber'[j], s)
                    \/ s \in listeners' /\ j \in subscribed' /\ StaysSubscribed(subscriber'[j], 0)
               /\ s \in listeners /\ j \in subscribed /\ StaysSubscribed(subscriber[j], 0) =>
                    s \in listeners' /\ j \in subscribed' /\ StaysSubscribed(subscriber'[j], 0)
    <3>1. subscriber'[j] = Tail(subscriber[j])
      BY <2>1 DEF TypeOK
    <3>2. /\ Subscribing(subscriber[j], s) =>
               Subscribing(Tail(subscriber[j]), s)
               \/ (op = <<"subscribe", s>> /\ StaysSubscribed(Tail(subscriber[j]), 0))
          /\ StaysSubscribed(subscriber[j], 0) =>
               op[1] # "unsubscribe" /\ StaysSubscribed(Tail(subscriber[j]), 0)
      <4> DEFINE q == subscriber[j]
      <4>1. q \in Seq(SubscriberOp) /\ q # <<>> /\ op = Head(q)
        BY <1>0, <2>1 DEF op
      <4> HIDE DEF q
      <4>2. /\ Subscribing(q, s) =>
                 Subscribing(Tail(q), s) \/ (op = <<"subscribe", s>> /\ StaysSubscribed(Tail(q), 0))
            /\ StaysSubscribed(q, 0) => op[1] # "unsubscribe" /\ StaysSubscribed(Tail(q), 0)
        <5>1. /\ Subscribing(q, s) /\ Head(q) # <<"subscribe", s>> => Subscribing(Tail(q), s)
              /\ Subscribing(q, s) /\ Head(q) = <<"subscribe", s>> =>
                   Subscribing(Tail(q), s) \/ StaysSubscribed(Tail(q), 0)
              /\ StaysSubscribed(q, 0) => Head(q)[1] # "unsubscribe" /\ StaysSubscribed(Tail(q), 0)
          BY <4>1, StaysInTail
        <5> QED BY <4>1, <5>1
      <4> QED BY <4>2 DEF q
    <3>3. op = <<"subscribe", s>> => s \in listeners' /\ j \in subscribed'
      BY <2>1
    <3> QED BY <2>1, <3>1, <3>2, <3>3
  <2>3. ASSUME NEW s \in Sockets, own = s, InstanceOf[s] # j
        PROVE  /\ client'[InstanceOf[s]] = client[InstanceOf[s]]
               /\ subscriber'[InstanceOf[s]] = subscriber[InstanceOf[s]]
               /\ s \in listeners => s \in listeners'
               /\ InstanceOf[s] \in subscribed => InstanceOf[s] \in subscribed'
    <3>1. InstanceOf[s] \in Instances
      BY <2>3 DEF SocketsFit
    <3> QED BY <2>1, <2>3, <3>1 DEF TypeOK
  <2> QED BY <2>1, <2>2, <2>3, OwnSubscribesAfter
<1>7. ASSUME NEW j \in Instances, NEW s \in SocketsOf(j), SetEntry(j, s)
      PROVE  OwnSubscribes'
  <2> DEFINE op == <<"subscribe", s>>
  <2>1. /\ client[j] # <<>> /\ Head(client[j]) = <<"set", s>>
        /\ client' = [client EXCEPT ![j] = Tail(@)]
        /\ subscriber' = [subscriber EXCEPT ![j] = Append(@, op)]
        /\ UNCHANGED <<own, InstanceOf, subscribed, listeners>>
    BY <1>7 DEF SetEntry, Reply, MustSubscribe, Write, sockets
  <2>2. op \in SubscriberOp /\ op[1] # "unsubscribe"
    BY DEF SubscriberOp, SocketsOf
  <2> HIDE DEF op
  <2>3. ASSUME NEW t \in Sockets, own = t, InstanceOf[t] = j
        PROVE  /\ Registering(client[j], t) =>
                    Registering(client'[j], t) \/ Subscribing(subscriber'[j], t)
               /\ Subscribing(subscriber[j], t) => Subscribing(subscriber'[j], t)
               /\ StaysSubscribed(subscriber[j], 0) => StaysSubscribed(subscriber'[j], 0)
    <3>1. client'[j] = Tail(client[j]) /\ subscriber'[j] = Append(subscriber[j], op)
      BY <2>1 DEF TypeOK
    <3>2. Registering(client[j], t) /\ Head(client[j]) # <<"set", t>> => Registering(Tail(client[j]), t)
      BY <1>0, <2>1, StaysInTail
    <3>3. Head(client[j]) = <<"set", t>> => op = <<"subscribe", t>>
      BY <2>1 DEF op
    <3>4. /\ op = <<"subscribe", t>> => Subscribing(Append(subscriber[j], op), t)
          /\ Subscribing(subscriber[j], t) => Subscribing(Append(subscriber[j], op), t)
          /\ StaysSubscribed(subscriber[j], 0) => StaysSubscribed(Append(subscriber[j], op), 0)
      BY <1>0, <2>2, StaysInAppend
    <3> QED BY <3>1, <3>2, <3>3, <3>4
  <2>4. ASSUME NEW t \in Sockets, own = t, InstanceOf[t] # j
        PROVE  /\ client'[InstanceOf[t]] = client[InstanceOf[t]]
               /\ subscriber'[InstanceOf[t]] = subscriber[InstanceOf[t]]
    <3>1. InstanceOf[t] \in Instances
      BY <2>4 DEF SocketsFit
    <3> QED BY <2>1, <2>4, <3>1 DEF TypeOK
  <2> QED BY <2>1, <2>3, <2>4, OwnSubscribesAfter
(* The other commands of the registry leave the subscription alone. *)
<1>8. ASSUME NEW j \in Instances, NEW q,
             client' = [client EXCEPT ![j] = q],
             \A s \in Sockets : Registering(client[j], s) => Registering(q, s),
             UNCHANGED <<own, InstanceOf, subscriber, subscribed, listeners>>
      PROVE  OwnSubscribes'
  <2>1. ASSUME NEW s \in Sockets, own = s, Registering(client[InstanceOf[s]], s)
        PROVE  Registering(client'[InstanceOf[s]], s)
    <3>1. InstanceOf[s] \in Instances
      BY <2>1 DEF SocketsFit
    <3> QED BY <1>8, <2>1, <3>1 DEF TypeOK
  <2> QED BY <1>8, <2>1, OwnSubscribesAfter
<1>9. ASSUME NEW j \in Instances, NEW s \in SocketsOf(j), NEW kind, Reply(j, kind, s), kind # "set"
      PROVE  \A t \in Sockets : Registering(client[j], t) =>
               /\ Registering(Tail(client[j]), t)
               /\ Registering(Append(Tail(client[j]), <<"del", s>>), t)
  <2>1. client[j] # <<>> /\ Head(client[j])[1] # "set"
    BY <1>9 DEF Reply
  <2>2. ASSUME NEW t \in Sockets, Registering(client[j], t)
        PROVE  Registering(Tail(client[j]), t)
    BY <1>0, <2>1, <2>2, StaysInTail
  <2>3. Tail(client[j]) \in Seq(ClientOp) /\ <<"del", s>> \in ClientOp
    BY <1>0, <2>1, TailFacts DEF ClientOp, SocketsOf
  <2> QED BY <2>2, <2>3, StaysInAppend
<1>10. ASSUME NEW j \in Instances, NEW s \in SocketsOf(j), GetEntry(j, s)
       PROVE  OwnSubscribes'
  <2>1. /\ Reply(j, "get", s) /\ UNCHANGED <<own, InstanceOf, subscriber, subscribed, listeners>>
        /\ \/ client' = [client EXCEPT ![j] = Append(Tail(@), <<"del", s>>)]
           \/ client' = [client EXCEPT ![j] = Tail(@)]
    BY <1>10 DEF GetEntry, sockets
  <2> QED BY <1>8, <1>9, <2>1
<1>11. ASSUME NEW j \in Instances, NEW s \in SocketsOf(j), DeleteEntry(j, s)
       PROVE  OwnSubscribes'
  <2>1. /\ Reply(j, "del", s) /\ UNCHANGED <<own, InstanceOf, subscriber, subscribed, listeners>>
        /\ client' = [client EXCEPT ![j] = Tail(@)]
    BY <1>11 DEF DeleteEntry, sockets
  <2> QED BY <1>8, <1>9, <2>1
<1>12. ASSUME NEW j \in Instances, NEW s \in SocketsOf(j), NEW m \in Messages, Refresh(j, m, s)
       PROVE  OwnSubscribes'
  <2>1. /\ Reply(j, m, s) /\ UNCHANGED <<own, InstanceOf, subscriber, subscribed, listeners>>
        /\ client' = [client EXCEPT ![j] = Tail(@)] /\ m # "set"
    BY <1>12 DEF Refresh, Refreshed, sockets
  <2> QED BY <1>8, <1>9, <2>1
<1>13. ASSUME NEW m \in Messages, NEW s \in Sockets, Receive(m, s)
       PROVE  OwnSubscribes'
  <2>1. /\ client' = [client EXCEPT ![InstanceOf[s]] = Append(@, <<m, s>>)]
        /\ InstanceOf[s] \in Instances
        /\ UNCHANGED <<own, InstanceOf, subscriber, subscribed, listeners>>
    BY <1>13 DEF Receive, Write, SocketsFit, sockets
  <2>2. <<m, s>> \in ClientOp
    BY DEF ClientOp
  <2>3. \A t \in Sockets :
          Registering(client[InstanceOf[s]], t) => Registering(Append(client[InstanceOf[s]], <<m, s>>), t)
    BY <1>0, <2>1, <2>2, StaysInAppend
  <2> QED BY <1>8, <2>1, <2>3
<1>14. CASE ExpireEntry
  BY <1>1, <1>14 DEF ExpireEntry, sockets
<1>15. ASSUME NEW c \in Commands, CreateReservation(c) \/ CheckRegistry(c) \/ Publish(c)
       PROVE  OwnSubscribes'
  BY <1>1, <1>15 DEF CreateReservation, CheckRegistry, Publish, sockets, redis
<1>16. ASSUME NEW call \in Calls, ForgetPending(call) \/ Answer(call)
       PROVE  OwnSubscribes'
  BY <1>1, <1>16 DEF ForgetPending, Answer, sockets, redis
<1>17. ASSUME NEW e \in Event, StoreEvent(e)
       PROVE  OwnSubscribes'
  BY <1>1, <1>17 DEF StoreEvent, sockets, redis
<1> QED BY <1>3, <1>4, <1>5, <1>6, <1>7, <1>10, <1>11, <1>12, <1>13, <1>14, <1>15, <1>16, <1>17,
           ClosingHappens DEF Next

LEMMA CallsStep ==
  ASSUME TypeOK, OpenIsFinite, SocketsFit, CallsFit, Next
  PROVE  CallsFit'
<1>1. ASSUME pending' \subseteq pending, UNCHANGED <<inbox, audits, published>>
      PROVE  CallsFit'
  BY <1>1 DEF CallsFit
<1>2. ASSUME NEW c \in Commands, Publish(c)
      PROVE  CallsFit'
  <2> DEFINE heard == {s \in listeners : InstanceOf[s] \in subscribed}
             read  == {s \in heard : ws[s] = "open" /\ s = own}
  <2>1. /\ c \notin published /\ published' = published \cup {c}
        /\ pending' = pending \cup ({c} \X heard) /\ inbox' = inbox \cup ({c} \X read)
        /\ audits' = audits
    BY <1>2 DEF Publish, ToRegistered
  <2>2. read \subseteq heard
    OBVIOUS
  <2> HIDE DEF heard, read
  <2>3. ASSUME NEW d \in Calls
        PROVE  /\ d \in pending' \cup inbox' => d[1] \in published'
               /\ d \notin inbox' \/ d \in pending' => audits[d] = 0
    <3>1. CASE d \in {c} \X heard
      <4>1. d[1] = c /\ d \notin pending \cup inbox
        BY <2>1, <3>1 DEF CallsFit
      <4> QED BY <2>1, <4>1 DEF CallsFit
    <3>2. CASE d \notin {c} \X heard
      <4>1. d \notin {c} \X read
        BY <2>2, <3>2
      <4> QED BY <2>1, <3>2, <4>1 DEF CallsFit
    <3> QED BY <3>1, <3>2
  <2> QED BY <2>1, <2>3 DEF CallsFit
<1>3. ASSUME NEW call \in Calls, Answer(call)
      PROVE  CallsFit'
  <2>1. call \in inbox /\ UNCHANGED <<inbox, published>>
    BY <1>3 DEF Answer
  <2>2. CASE call \in pending
    <3>1. audits' = [audits EXCEPT ![call] = @ + 1] /\ pending' = pending \ {call}
      BY <1>3, <2>2 DEF Answer, Consumed
    <3>2. audits[call] = 0
      BY <2>2 DEF CallsFit
    <3>3. \A d \in Calls : audits'[d] = IF d = call THEN 1 ELSE audits[d]
      BY <3>1, <3>2 DEF TypeOK
    <3> QED BY <2>1, <3>1, <3>3 DEF CallsFit
  <2>3. CASE call \notin pending
    BY <1>1, <1>3, <2>1, <2>3 DEF Answer
  <2> QED BY <2>2, <2>3
<1>4. ASSUME NEW i \in Instances, NEW S, Closing(i, S)
      PROVE  CallsFit'
  BY <1>1, <1>4 DEF Closing, CloseSockets
<1>5. ASSUME NEW s \in Sockets, NEW i \in Instances, Open(s, i)
      PROVE  CallsFit'
  BY <1>1, <1>5 DEF Open, commands
<1>6. ASSUME NEW i \in Instances, Subscription(i) \/ Exit(i)
      PROVE  CallsFit'
  BY <1>1, <1>6 DEF Subscription, Exit, commands
<1>7. ASSUME NEW i \in Instances, NEW s \in SocketsOf(i),
             \/ SetEntry(i, s) \/ GetEntry(i, s) \/ DeleteEntry(i, s)
             \/ \E m \in Messages : Refresh(i, m, s)
      PROVE  CallsFit'
  BY <1>1, <1>7 DEF SetEntry, GetEntry, DeleteEntry, Refresh, Refreshed, commands
<1>8. CASE ExpireEntry
  BY <1>1, <1>8 DEF ExpireEntry, commands
<1>9. ASSUME NEW c \in Commands, CreateReservation(c) \/ CheckRegistry(c)
      PROVE  CallsFit'
  BY <1>1, <1>9 DEF CreateReservation, CheckRegistry
<1>10. ASSUME NEW call \in Calls, ForgetPending(call)
       PROVE  CallsFit'
  BY <1>1, <1>10 DEF ForgetPending
<1>11. ASSUME NEW m \in Messages, NEW s \in Sockets, Receive(m, s)
       PROVE  CallsFit'
  BY <1>1, <1>11 DEF Receive, commands
<1>12. ASSUME NEW e \in Event, StoreEvent(e)
       PROVE  CallsFit'
  BY <1>1, <1>12 DEF StoreEvent, commands
<1> QED BY <1>2, <1>3, <1>4, <1>5, <1>6, <1>7, <1>8, <1>9, <1>10, <1>11, <1>12, ClosingHappens DEF Next

LEMMA AwaitedStep ==
  ASSUME TypeOK, OpenIsFinite, SocketsFit, OnlyOwnIsOpen, CallsFit, OwnIsAwaited, AnswerIsCorrelated,
         Next
  PROVE  OwnIsAwaited' /\ AnswerIsCorrelated'
<1> USE GatewayAssumption
<1>0. \A c \in inbox : c \in Calls /\ c[2] \in Sockets
  BY DEF TypeOK, Calls
<1>1. ASSUME own' \in {own, NoSocket}, own' # NoSocket => pending' = pending,
             UNCHANGED <<inbox, expired, answers, audits>>
      PROVE  OwnIsAwaited' /\ AnswerIsCorrelated'
  <2>1. OwnIsAwaited'
    BY <1>0, <1>1 DEF OwnIsAwaited
  <2> QED BY <1>1, <2>1 DEF AnswerIsCorrelated
<1>2. ASSUME NEW i \in Instances, NEW S, Closing(i, S)
      PROVE  OwnIsAwaited' /\ AnswerIsCorrelated'
  <2>1. own' \in {own, NoSocket} /\ UNCHANGED <<inbox, expired, answers, audits>>
    BY <1>2 DEF Closing, CloseSockets
  <2>2. own' # NoSocket => pending' = pending
    BY <1>2, ClosingOwn
  <2> QED BY <1>1, <2>1, <2>2
<1>3. ASSUME NEW s \in Sockets, NEW i \in Instances, Open(s, i)
      PROVE  OwnIsAwaited' /\ AnswerIsCorrelated'
  <2>1. own' = s /\ UNCHANGED <<pending, inbox, expired, answers, audits>>
    BY <1>3 DEF Open, commands
  <2>2. \A c \in inbox : c[2] # s
    BY <1>3 DEF Open, SocketsFit
  <2>3. OwnIsAwaited'
    BY <2>1, <2>2 DEF OwnIsAwaited
  <2> QED BY <2>1, <2>3 DEF AnswerIsCorrelated
<1>4. ASSUME NEW i \in Instances, Exit(i)
      PROVE  OwnIsAwaited' /\ AnswerIsCorrelated'
  <2>1. /\ own' # NoSocket => own' = own /\ ~(own \in SocketsOf(i) /\ ws[own] = "open")
        /\ pending' = pending \ PendingHere(i) /\ UNCHANGED <<inbox, expired, answers, audits>>
    BY <1>4 DEF Exit
  <2>2. ASSUME NEW c \in inbox, own' = c[2], c \notin expired
        PROVE  c \in pending' \/ audits[c] = 1
    <3>1. own = c[2] /\ c[2] \in Sockets /\ InstanceOf[c[2]] # i
      BY <1>0, <2>1, <2>2 DEF SocketsOf, SocketsFit
    <3> QED BY <2>1, <2>2, <3>1 DEF OwnIsAwaited, PendingHere
  <2>3. OwnIsAwaited'
    BY <2>1, <2>2 DEF OwnIsAwaited
  <2> QED BY <2>1, <2>3 DEF AnswerIsCorrelated
<1>5. ASSUME NEW c \in Commands, Publish(c)
      PROVE  OwnIsAwaited' /\ AnswerIsCorrelated'
  <2>1. /\ pending \subseteq pending' /\ inbox' \subseteq inbox \cup pending'
        /\ UNCHANGED <<own, expired, answers, audits>>
    BY <1>5 DEF Publish, sockets
  <2>2. OwnIsAwaited'
    BY <2>1 DEF OwnIsAwaited
  <2> QED BY <2>1, <2>2 DEF AnswerIsCorrelated
<1>6. ASSUME NEW call \in Calls, ForgetPending(call)
      PROVE  OwnIsAwaited' /\ AnswerIsCorrelated'
  <2>1. /\ pending' = pending \ {call} /\ expired' = expired \cup {call}
        /\ UNCHANGED <<own, inbox, answers, audits>>
    BY <1>6 DEF ForgetPending, sockets
  <2>2. OwnIsAwaited'
    BY <2>1 DEF OwnIsAwaited
  <2> QED BY <2>1, <2>2 DEF AnswerIsCorrelated
<1>7. ASSUME NEW call \in Calls, Answer(call)
      PROVE  OwnIsAwaited' /\ AnswerIsCorrelated'
  <2>1. /\ call \in inbox /\ own = call[2] /\ answers' = answers \cup {call}
        /\ UNCHANGED <<own, inbox, expired>>
    BY <1>7 DEF Answer, sockets
  <2>2. audits[call] \in {0, 1} /\ (call \notin expired => call \in pending \/ audits[call] = 1)
    BY <2>1 DEF CallsFit, OwnIsAwaited, TypeOK
  <2>3. CASE call \in pending
    <3>1. audits' = [audits EXCEPT ![call] = @ + 1] /\ pending' = pending \ {call}
      BY <1>7, <2>3 DEF Answer, Consumed
    <3>2. audits[call] = 0
      BY <2>3 DEF CallsFit
    <3>3. \A d \in Calls : audits'[d] = IF d = call THEN 1 ELSE audits[d]
      BY <3>1, <3>2 DEF TypeOK
    <3>4. \A d \in answers : d \in Calls
      BY <1>0 DEF TypeOK
    <3>5. OwnIsAwaited'
      BY <1>0, <2>1, <3>1, <3>3 DEF OwnIsAwaited
    <3>6. AnswerIsCorrelated'
      BY <2>1, <3>3, <3>4 DEF AnswerIsCorrelated
    <3> QED BY <3>5, <3>6
  <2>4. CASE call \notin pending
    <3>1. UNCHANGED <<audits, pending>>
      BY <1>7, <2>4 DEF Answer
    <3> QED BY <2>1, <2>2, <2>4, <3>1 DEF OwnIsAwaited, AnswerIsCorrelated
  <2> QED BY <2>3, <2>4
<1>8. ASSUME NEW i \in Instances, Subscription(i)
      PROVE  OwnIsAwaited' /\ AnswerIsCorrelated'
  BY <1>1, <1>8 DEF Subscription, sockets, commands
<1>9. ASSUME NEW i \in Instances, NEW s \in SocketsOf(i),
             \/ SetEntry(i, s) \/ GetEntry(i, s) \/ DeleteEntry(i, s)
             \/ \E m \in Messages : Refresh(i, m, s)
      PROVE  OwnIsAwaited' /\ AnswerIsCorrelated'
  BY <1>1, <1>9 DEF SetEntry, GetEntry, DeleteEntry, Refresh, Refreshed, sockets, commands
<1>10. CASE ExpireEntry
  BY <1>1, <1>10 DEF ExpireEntry, sockets, commands
<1>11. ASSUME NEW c \in Commands, CreateReservation(c) \/ CheckRegistry(c)
       PROVE  OwnIsAwaited' /\ AnswerIsCorrelated'
  BY <1>1, <1>11 DEF CreateReservation, CheckRegistry, sockets
<1>12. ASSUME NEW m \in Messages, NEW s \in Sockets, Receive(m, s)
       PROVE  OwnIsAwaited' /\ AnswerIsCorrelated'
  BY <1>1, <1>12 DEF Receive, sockets, commands
<1>13. ASSUME NEW e \in Event, StoreEvent(e)
       PROVE  OwnIsAwaited' /\ AnswerIsCorrelated'
  BY <1>1, <1>13 DEF StoreEvent, sockets, commands
<1> QED BY <1>2, <1>3, <1>4, <1>5, <1>6, <1>7, <1>8, <1>9, <1>10, <1>11, <1>12, <1>13,
           ClosingHappens DEF Next

LEMMA ReachableFollows ==
  ASSUME TypeOK, SocketsFit, ClientFits, OwnSubscribes
  PROVE  RegisteredIsReachable
<1> SUFFICES ASSUME NEW s \in Sockets, own = s, entry = s, subscriber[InstanceOf[s]] = <<>>
             PROVE  s \in listeners /\ InstanceOf[s] \in subscribed
  BY DEF RegisteredIsReachable
<1>1. InstanceOf[s] \in Instances
  BY GatewayAssumption DEF SocketsFit
<1>2. ~Registering(client[InstanceOf[s]], s)
  BY <1>1 DEF Registering, ClientFits, QueueFits
<1>3. ~Subscribing(subscriber[InstanceOf[s]], s)
  BY DEF Subscribing
<1> QED BY <1>2, <1>3 DEF OwnSubscribes

LEMMA InvarianceWithoutOverlap ==
  ASSUME ~Overlap
  PROVE  Spec => []InvWithoutOverlap
<1>1. Init => InvWithoutOverlap
  <2> SUFFICES ASSUME Init PROVE InvWithoutOverlap
    OBVIOUS
  <2>1. OnlyOwnIsOpen /\ OwnSubscribes
    BY GatewayAssumption DEF Init, OnlyOwnIsOpen, OwnSubscribes
  <2>2. CallsFit /\ OwnIsAwaited /\ AnswerIsCorrelated
    BY DEF Init, CallsFit, OwnIsAwaited, AnswerIsCorrelated
  <2> QED BY <2>1, <2>2 DEF InvWithoutOverlap
<1>2. Inv /\ InvWithoutOverlap /\ [Next]_vars => InvWithoutOverlap'
  <2> SUFFICES ASSUME Inv, InvWithoutOverlap, [Next]_vars PROVE InvWithoutOverlap'
    OBVIOUS
  <2>1. CASE Next
    BY <2>1, OnlyOwnStep, OwnSubscribesStep, CallsStep, AwaitedStep DEF Inv, InvWithoutOverlap
  <2>2. CASE UNCHANGED vars
    <3> USE <2>2 DEF InvWithoutOverlap, vars, sockets, redis, commands
    <3>1. OnlyOwnIsOpen' /\ CallsFit' /\ OwnIsAwaited' /\ AnswerIsCorrelated'
      BY DEF OnlyOwnIsOpen, CallsFit, OwnIsAwaited, AnswerIsCorrelated
    <3>2. OwnSubscribes'
      BY DEF OwnSubscribes, Registering, Subscribing, StaysSubscribed
    <3> QED BY <3>1, <3>2
  <2> QED BY <2>1, <2>2
<1> QED BY <1>1, <1>2, Invariance, PTL DEF Spec

(* A charger that comes back only after its old socket is closed, to       *)
(* whatever instance, is reachable as soon as the registry says so and its *)
(* subscription is through, whatever drains, dies or expires meanwhile.    *)
THEOREM RegistryIsTrue ==
  ASSUME ~Overlap
  PROVE  Spec => []RegisteredIsReachable
<1>1. Inv /\ InvWithoutOverlap => RegisteredIsReachable
  BY ReachableFollows DEF Inv, InvWithoutOverlap
<1> QED BY <1>1, Invariance, InvarianceWithoutOverlap, PTL

(* Its answer to a Call is correlated with it, once, unless the Call has   *)
(* timed out.                                                              *)
THEOREM AnswersAreCorrelated ==
  ASSUME ~Overlap
  PROVE  Spec => []AnswerIsCorrelated
<1>1. InvWithoutOverlap => AnswerIsCorrelated
  BY DEF InvWithoutOverlap
<1> QED BY <1>1, InvarianceWithoutOverlap, PTL

=============================================================================
