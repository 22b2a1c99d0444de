---------------------------- MODULE OcppGateway ----------------------------
(***************************************************************************)
(* The OCPP gateway (server.ts, router.ts, registry.ts) as one charger     *)
(* sees it: several instances that share the Redis registry entry and the  *)
(* command channel of the charger, and one socket after another on them.   *)
(*                                                                         *)
(* Each instance has two Redis connections, one for the registry and one   *)
(* for the subscription.  What is written to a connection is executed in   *)
(* its order; the two connections, the instances and Kafka are not ordered *)
(* among each other.  A payload that fails validation is answered with an  *)
(* error and changes nothing; the audit copies of sent commands that go to *)
(* the commands topic are read by nobody and left out.                     *)
(***************************************************************************)
EXTENDS Naturals, Sequences, SequencesExt

CONSTANTS
  Sockets,     \* socketIds, one per connection of the charger
  Instances,   \* gateway processes
  Commands,    \* commands of the Core API for the charger
  Reserving,   \* those that are a ReserveNow
  Messages,    \* Calls of the charger
  Overlap,     \* TRUE: the charger may come back before its old socket is closed
  NoSocket

ASSUME GatewayAssumption ==
  /\ NoSocket \notin Sockets \cup Instances
  /\ Reserving \subseteq Commands
  /\ Messages \cap {"set", "get", "del"} = {}
  /\ Overlap \in BOOLEAN

VARIABLES
  own,         \* the socket the charger uses, or NoSocket
  ws,          \* the state of each socket at the gateway
  InstanceOf,  \* the instance each connection goes to, or NoSocket before it is made
  entry,       \* the socket named by charger:{id}, or NoSocket
  unregistered, \* sockets whose unregister() is done
  client,      \* registry commands in flight, per instance
  subscriber,  \* subscription commands in flight, per instance
  subscribed,  \* instances subscribed to cmd:{id}
  listeners,   \* sockets with a message listener on their instance's subscriber
  reserved,    \* commands with a row in reservations
  checked,     \* commands for which the API found an entry
  published,   \* commands published
  pending,     \* pendingCalls: <<command, socket>>, one Call for each
  inbox,       \* Calls the charger received
  expired,     \* Calls whose two minutes are over
  answers,     \* Calls the charger answered
  audits,      \* how many CallResults were correlated with each Call
  received,    \* Calls of the charger that the gateway works on: <<message, socket>>
  sending,     \* events handed to the Kafka producer
  events,      \* events in ocpp.events
  confirmed,   \* messages whose CallResult the charger saw
  draining     \* instances that are shutting down

sockets == <<own, ws, InstanceOf>>
redis == <<entry, unregistered, client, subscriber, subscribed, listeners>>
commands == <<reserved, checked, published, pending, inbox, expired, answers, audits>>
inbound == <<received, sending, events, confirmed>>
vars == <<sockets, redis, commands, inbound, draining>>

Calls == Commands \X Sockets
Event == Messages \X Sockets
ClientOp == {"set", "get", "del"} \X Sockets \cup (Messages \X Sockets)
SubscriberOp == {"subscribe", "unsubscribe"} \X Sockets

TypeOK ==
  /\ own \in Sockets \cup {NoSocket}
  /\ ws \in [Sockets -> {"new", "open", "closed"}]
  /\ InstanceOf \in [Sockets -> Instances \cup {NoSocket}]
  /\ entry \in Sockets \cup {NoSocket}
  /\ unregistered \subseteq Sockets
  /\ client \in [Instances -> Seq(ClientOp)]
  /\ subscriber \in [Instances -> Seq(SubscriberOp)]
  /\ subscribed \subseteq Instances
  /\ listeners \subseteq Sockets
  /\ checked \subseteq Commands /\ published \subseteq checked
  /\ pending \subseteq Calls /\ inbox \subseteq Calls
  /\ expired \subseteq Calls /\ answers \subseteq inbox
  /\ audits \in [Calls -> Nat]
  /\ received \subseteq Messages \X Sockets
  /\ sending \subseteq Event /\ events \subseteq Event
  /\ confirmed \subseteq Messages
  /\ reserved \subseteq Reserving
  /\ draining \subseteq Instances

Init ==
  /\ own = NoSocket
  /\ ws = [s \in Sockets |-> "new"] /\ InstanceOf = [s \in Sockets |-> NoSocket]
  /\ entry = NoSocket /\ unregistered = {}
  /\ client = [i \in Instances |-> <<>>]
  /\ subscriber = [i \in Instances |-> <<>>]
  /\ subscribed = {} /\ listeners = {}
  /\ reserved = {} /\ checked = {} /\ published = {}
  /\ pending = {} /\ inbox = {} /\ expired = {} /\ answers = {}
  /\ audits = [c \in Calls |-> 0]
  /\ received = {} /\ sending = {} /\ events = {} /\ confirmed = {}
  /\ draining = {}
-----------------------------------------------------------------------------
Write(connection, i, op) == [connection EXCEPT ![i] = Append(@, op)]

SocketsOf(i) == {s \in Sockets : InstanceOf[s] = i}

(* The charger connects, to any instance: open() starts register().  One     *)
(* that is shutting down refuses it.                                         *)
Open(s, i) ==
  /\ ws[s] = "new" /\ i \notin draining
  /\ Overlap \/ \A t \in Sockets : ws[t] # "open"
  /\ own' = s
  /\ ws' = [ws EXCEPT ![s] = "open"]
  /\ InstanceOf' = [InstanceOf EXCEPT ![s] = i]
  /\ client' = Write(client, i, <<"set", s>>)
  /\ UNCHANGED <<entry, unregistered, subscriber, subscribed, listeners,
                 commands, inbound, draining>>

(* clearPendingForCharger: the Calls of this instance. *)
PendingHere(i) == {c \in pending : InstanceOf[c[2]] = i}

(* The close handlers of the sockets S of instance i, one after another.     *)
(* What becomes of their ConnectionClosed is in module Chargers.             *)
CloseSockets(i, S) ==
  /\ ws' = [s \in Sockets |-> IF s \in S THEN "closed" ELSE ws[s]]
  /\ own' = IF own \in S THEN NoSocket ELSE own
  /\ pending' = IF S = {} THEN pending ELSE pending \ PendingHere(i)
  /\ \E q \in SetToSeqs(S) :
       /\ subscriber' = [subscriber EXCEPT ![i] = @ \o [n \in DOMAIN q |-> <<"unsubscribe", q[n]>>]]
       /\ client' = [client EXCEPT ![i] = @ \o [n \in DOMAIN q |-> <<"get", q[n]>>]]
  /\ UNCHANGED <<InstanceOf, entry, unregistered, subscribed, listeners, reserved, checked,
                 published, inbox, expired, answers, audits, inbound>>

(* A socket ends, at the charger or by the idle timeout. *)
Close(s) ==
  /\ ws[s] = "open"
  /\ CloseSockets(InstanceOf[s], {s})
  /\ UNCHANGED draining

(* SIGTERM: close() ends all sockets, which calls their handlers. *)
Drain(i) ==
  /\ i \notin draining
  /\ draining' = draining \cup {i}
  /\ CloseSockets(i, {s \in SocketsOf(i) : ws[s] = "open"})
-----------------------------------------------------------------------------
(* The replies of Redis, each with what its promise goes on to do.           *)
Reply(i, kind, s) == client[i] # <<>> /\ Head(client[i]) = <<kind, s>>

IfNotSubscribed(i) == i \notin subscribed

MustSubscribe(i) == TRUE

SetEntry(i, s) ==
  /\ Reply(i, "set", s)
  /\ entry' = s
  /\ client' = [client EXCEPT ![i] = Tail(@)]
  /\ subscriber' = IF MustSubscribe(i) THEN Write(subscriber, i, <<"subscribe", s>>) ELSE subscriber
  /\ UNCHANGED <<sockets, unregistered, subscribed, listeners, commands, inbound, draining>>

(* unregister() deletes the entry if it names this socket: two commands.     *)
NamesAnother(s) == entry \notin {s, NoSocket}

Owns(s) == entry = s

GetEntry(i, s) ==
  /\ Reply(i, "get", s)
  /\ IF Owns(s)
       THEN client' = [client EXCEPT ![i] = Append(Tail(@), <<"del", s>>)] /\ UNCHANGED unregistered
       ELSE client' = [client EXCEPT ![i] = Tail(@)] /\ unregistered' = unregistered \cup {s}
  /\ UNCHANGED <<sockets, entry, subscriber, subscribed, listeners, commands, inbound, draining>>

DeleteEntry(i, s) ==
  /\ Reply(i, "del", s)
  /\ entry' = NoSocket
  /\ client' = [client EXCEPT ![i] = Tail(@)]
  /\ unregistered' = unregistered \cup {s}
  /\ UNCHANGED <<sockets, subscriber, subscribed, listeners, commands, inbound, draining>>

(* The entry lives 600 s after the last message of the charger. *)
ExpireEntry ==
  /\ entry # NoSocket
  /\ entry' = NoSocket
  /\ UNCHANGED <<sockets, unregistered, client, subscriber, subscribed, listeners,
                 commands, inbound, draining>>

(* A listener is never removed. *)
Subscription(i) ==
  /\ subscriber[i] # <<>>
  /\ subscriber' = [subscriber EXCEPT ![i] = Tail(@)]
  /\ LET op == Head(subscriber[i]) IN
       \/ /\ op[1] = "subscribe"
          /\ subscribed' = subscribed \cup {i}
          /\ listeners' = listeners \cup {op[2]}
       \/ /\ op[1] = "unsubscribe"
          /\ subscribed' = subscribed \ {i}
          /\ UNCHANGED listeners
  /\ UNCHANGED <<sockets, entry, unregistered, client, commands, inbound, draining>>
-----------------------------------------------------------------------------
(* A reservation is a row, active for ever, before its command goes out.     *)
CreateReservation(c) ==
  /\ c \in Reserving \ reserved
  /\ reserved' = reserved \cup {c}
  /\ UNCHANGED <<sockets, redis, checked, published, pending, inbox, expired, answers, audits,
                 inbound, draining>>

IsPrepared(c) == c \notin checked /\ (c \in Reserving => c \in reserved)

(* publishChargerCommand: the registry is asked first, and then every        *)
(* listener of every subscribed instance gets the command.  It is sent as a  *)
(* Call with an id of its own; sending on a closed socket fails.             *)
CheckRegistry(c) ==
  /\ IsPrepared(c) /\ entry # NoSocket
  /\ checked' = checked \cup {c}
  /\ UNCHANGED <<sockets, redis, reserved, published, pending, inbox, expired, answers, audits,
                 inbound, draining>>

ToEveryone(c) == c \notin published

ToRegistered(c) == c \in checked \ published

Publish(c) ==
  LET heard == {s \in listeners : InstanceOf[s] \in subscribed} IN
    /\ ToRegistered(c)
    /\ published' = published \cup {c}
    /\ pending' = pending \cup ({c} \X heard)
    /\ inbox' = inbox \cup ({c} \X {s \in heard : ws[s] = "open" /\ s = own})
    /\ UNCHANGED <<sockets, redis, reserved, checked, expired, answers, audits, inbound, draining>>

ForgetPending(call) ==
  /\ call \in pending
  /\ pending' = pending \ {call}
  /\ expired' = expired \cup {call}
  /\ UNCHANGED <<sockets, redis, reserved, checked, published, inbox, answers, audits, inbound,
                 draining>>

(* The charger answers a Call on the socket it came from, perhaps again; the *)
(* answer is correlated once.                                                *)
KeepPending(call) == pending

Consumed(call) == pending \ {call}

Answer(call) ==
  /\ call \in inbox /\ own = call[2]
  /\ answers' = answers \cup {call}
  /\ IF call \in pending
       THEN audits' = [audits EXCEPT ![call] = @ + 1] /\ pending' = Consumed(call)
       ELSE UNCHANGED <<audits, pending>>
  /\ UNCHANGED <<sockets, redis, reserved, checked, published, inbox, expired, inbound, draining>>
-----------------------------------------------------------------------------
(* handleInbound: refresh, publish, answer, each after the one before.       *)
Receive(m, s) ==
  /\ own = s /\ ws[s] = "open"
  /\ m \notin confirmed
  /\ <<m, s>> \notin received
  /\ received' = received \cup {<<m, s>>}
  /\ client' = Write(client, InstanceOf[s], <<m, s>>)
  /\ UNCHANGED <<sockets, entry, unregistered, subscriber, subscribed, listeners,
                 commands, sending, events, confirmed, draining>>

(* The charger sees the result if it still listens to that socket. *)
Confirm(e) ==
  confirmed' = IF own = e[2] /\ ws[e[2]] = "open" THEN confirmed \cup {e[1]} ELSE confirmed

(* EXPIRE changes no entry: it moves the expiry of the one that is there.    *)
Refreshed(i, e) ==
  /\ Reply(i, e[1], e[2])
  /\ client' = [client EXCEPT ![i] = Tail(@)]
  /\ sending' = sending \cup {e}
  /\ UNCHANGED <<sockets, entry, unregistered, subscriber, subscribed, listeners,
                 commands, received, events, draining>>

RefreshAndAnswer(i, m, s) == Refreshed(i, <<m, s>>) /\ Confirm(<<m, s>>)

Refresh(i, m, s) == Refreshed(i, <<m, s>>) /\ UNCHANGED confirmed

StoreEvent(e) ==
  /\ e \in sending
  /\ sending' = sending \ {e}
  /\ events' = events \cup {e}
  /\ Confirm(e)
  /\ UNCHANGED <<sockets, redis, commands, received, draining>>
-----------------------------------------------------------------------------
(* An instance ends with what it had in flight: it dies, or the hooks of its *)
(* shutdown are through, or its drain timeout is over.  An event that the    *)
(* broker refuses is an unhandled rejection and ends it as well.  Another    *)
(* takes its place.                                                          *)
Exit(i) ==
  LET gone == {s \in SocketsOf(i) : ws[s] = "open"} IN
    /\ ws' = [s \in Sockets |-> IF s \in gone THEN "closed" ELSE ws[s]]
    /\ own' = IF own \in gone THEN NoSocket ELSE own
    /\ client' = [client EXCEPT ![i] = <<>>]
    /\ subscriber' = [subscriber EXCEPT ![i] = <<>>]
    /\ subscribed' = subscribed \ {i}
    /\ listeners' = listeners \ SocketsOf(i)
    /\ pending' = pending \ PendingHere(i)
    /\ sending' = {e \in sending : InstanceOf[e[2]] # i}
    /\ draining' = draining \ {i}
    /\ UNCHANGED <<InstanceOf, entry, unregistered, reserved, checked, published, inbox, expired,
                   answers, audits, received, events, confirmed>>
-----------------------------------------------------------------------------
Next ==
  \/ \E s \in Sockets : Close(s) \/ \E i \in Instances : Open(s, i)
  \/ \E i \in Instances : Subscription(i) \/ Drain(i) \/ Exit(i)
  \/ \E i \in Instances : \E s \in SocketsOf(i) :
       \/ SetEntry(i, s) \/ GetEntry(i, s) \/ DeleteEntry(i, s)
       \/ \E m \in Messages : Refresh(i, m, s)
  \/ ExpireEntry
  \/ \E c \in Commands : CreateReservation(c) \/ CheckRegistry(c) \/ Publish(c)
  \/ \E call \in Calls : ForgetPending(call) \/ Answer(call)
  \/ \E m \in Messages, s \in Sockets : Receive(m, s)
  \/ \E e \in Event : StoreEvent(e)

Spec == Init /\ [][Next]_vars
-----------------------------------------------------------------------------
(***************************************************************************)
(* A socket that has unregistered stays out of the registry: neither its   *)
(* own register() nor the refresh of a message that was still being worked *)
(* on when it closed brings its entry back.                                *)
(***************************************************************************)
NoGhostEntry == entry \notin unregistered

(***************************************************************************)
(* The registry says where commands arrive: if its entry names the socket  *)
(* that the charger uses and open() has done all it set off, that socket   *)
(* listens to the commands of the charger on a subscribed instance.        *)
(***************************************************************************)
RegisteredIsReachable ==
  \A s \in Sockets :
    own = s /\ entry = s /\ subscriber[InstanceOf[s]] = <<>>
      => s \in listeners /\ InstanceOf[s] \in subscribed

(***************************************************************************)
(* "Tracks outbound CSMS Calls so CallResult/CallError can be correlated": *)
(* the answer to a Call that has not timed out is correlated, and once.    *)
(***************************************************************************)
AnswerIsCorrelated ==
  \A c \in answers : audits[c] <= 1 /\ (c \notin expired => audits[c] = 1)

(***************************************************************************)
(* What the charger was told is accepted is in Kafka, also when the        *)
(* instance dies, drains or is refused the event.                          *)
(***************************************************************************)
ConfirmedIsPublished ==
  \A m \in confirmed : \E s \in Sockets : <<m, s>> \in events
=============================================================================
