------------------------------ MODULE Payments ------------------------------
(***************************************************************************)
(* How money enters the wallet: orders and the provider's webhook          *)
(* (payments.service.ts), and the direct top-up, beside the holds and      *)
(* captures that sessions make (module Wallet).                            *)
(*                                                                         *)
(* The webhook takes every report for an order that exists, of a capture   *)
(* or of a failed attempt, whoever sends it and whatever happened before:  *)
(* its route asks for no token and no signature.  The provider is one of   *)
(* the senders; it repeats the report of a capture until it is answered.   *)
(* Reports for the same order may run at once.                             *)
(***************************************************************************)
EXTENDS Wallet

CONSTANTS
  Orders,       \* payment ids
  SessionRefs,  \* ref_ids of sessions
  MaxBalance,   \* bound: no top-up lifts a balance above this value
  MaxClock,     \* bound on the times of top-ups
  MaxReports,   \* bound on the reports of a capture for one order
  MaxCrashes    \* bound on the requests that die after their first write

PayRef(o) == <<"pay", o>>
TopUpRef(t) == <<"topup", t>>

ASSUME PaymentsAssumption ==
  /\ {MaxBalance, MaxClock, MaxReports, MaxCrashes} \subseteq Nat
  /\ Refs = {PayRef(o) : o \in Orders} \cup {TopUpRef(t) : t \in 0..MaxClock} \cup SessionRefs

VARIABLES
  payment,   \* the rows of payments
  reports,   \* how often an order was reported as captured
  crediting, \* webhook requests that are about to credit an order
  captured,  \* orders whose money the provider has
  answered,  \* those of them for which the provider was answered
  now,       \* the clock, in milliseconds
  crashes

tables == <<balance, hold, ledger, payment>>
requests == <<reports, crediting>>
provider == <<captured, answered>>
paymentVars == <<tables, requests, provider, now, crashes>>

Payment == [status : {"none", "created", "captured", "failed"}, user : Users, amount : Amounts]

PaymentsTypeOK ==
  /\ TypeOK
  /\ payment \in [Orders -> Payment]
  /\ reports \in [Orders -> 0..MaxReports]
  /\ crediting \in [Orders -> 0..MaxReports]
  /\ captured \subseteq Orders /\ answered \subseteq captured
  /\ now \in 0..MaxClock
  /\ crashes \in 0..MaxCrashes

PaymentsInit ==
  /\ Init
  /\ payment \in [Orders -> {p \in Payment : p.status = "none"}]
  /\ reports = [o \in Orders |-> 0] /\ crediting = [o \in Orders |-> 0]
  /\ captured = {} /\ answered = {}
  /\ now = 0 /\ crashes = 0
-----------------------------------------------------------------------------
Exists(o) == payment[o].status # "none"

SetStatus(o, status) == payment' = [payment EXCEPT ![o].status = status]

(* User and amount of a row that does not exist yet are those of the order   *)
(* it will be.                                                               *)
CreateOrder(o) ==
  /\ ~Exists(o)
  /\ SetStatus(o, "created")
  /\ UNCHANGED <<vars, requests, provider, now, crashes>>

ProviderCaptures(o) ==
  /\ Exists(o)
  /\ captured' = captured \cup {o}
  /\ UNCHANGED <<tables, requests, answered, now, crashes>>

(* handleRazorpayWebhook: the status is written first, whatever it was.  A   *)
(* report for an unknown order changes nothing.                              *)
FailedIsCredited(o) ==
  /\ Exists(o)
  /\ SetStatus(o, "failed")
  /\ crediting' = [crediting EXCEPT ![o] = 1]
  /\ UNCHANGED <<vars, reports, provider, now, crashes>>

WebhookFailed(o) ==
  /\ Exists(o)
  /\ SetStatus(o, "failed")
  /\ UNCHANGED <<vars, requests, provider, now, crashes>>

IfNotCaptured(o) == payment[o].status # "captured"

MustCredit(o) == TRUE

(* Whether the request that is answered is the provider's is left open.      *)
Answer(o) == answered' \in {answered, answered \cup ({o} \cap captured)}

WebhookCaptured(o) ==
  /\ Exists(o)
  /\ reports[o] < MaxReports
  /\ reports' = [reports EXCEPT ![o] = @ + 1]
  /\ SetStatus(o, "captured")
  /\ IF MustCredit(o)
       THEN crediting' = [crediting EXCEPT ![o] = @ + 1] /\ UNCHANGED answered
       ELSE Answer(o) /\ UNCHANGED crediting
  /\ UNCHANGED <<vars, captured, now, crashes>>

EndRequest(o) ==
  /\ crediting[o] > 0
  /\ crediting' = [crediting EXCEPT ![o] = @ - 1]
  /\ UNCHANGED reports

(* Then the row is read and its user credited: of the row, the next write    *)
(* uses what never changes.                                                  *)
CreditPayment(o) ==
  /\ EndRequest(o)
  /\ Credit(payment[o].user, payment[o].amount, PayRef(o))
  /\ Answer(o)
  /\ UNCHANGED <<payment, captured, now, crashes>>

(* Without a wallet the update throws, and the report is not answered.       *)
CreditFails(o) ==
  /\ EndRequest(o)
  /\ payment[o].user \notin WalletOwners
  /\ UNCHANGED <<tables, provider, now, crashes>>

RequestDies(o) ==
  /\ EndRequest(o)
  /\ crashes < MaxCrashes
  /\ crashes' = crashes + 1
  /\ UNCHANGED <<tables, provider, now>>

(* Two top-ups of one millisecond have the same reference.                   *)
TopUp(u, a) ==
  /\ now' \in now..MaxClock
  /\ u \in WalletOwners => balance[u] + a <= MaxBalance
  /\ Credit(u, a, TopUpRef(now'))
  /\ UNCHANGED <<payment, requests, provider, crashes>>

Session(u, a, r) ==
  /\ Hold(u, a, r) \/ ReleaseHold(u, a, r) \/ \E c \in Amounts : CaptureHold(u, a, c, r, r)
  /\ UNCHANGED <<payment, requests, provider, now, crashes>>

PaymentsNext ==
  \/ \E o \in Orders :
       \/ CreateOrder(o) \/ ProviderCaptures(o) \/ WebhookFailed(o) \/ WebhookCaptured(o)
       \/ CreditPayment(o) \/ CreditFails(o) \/ RequestDies(o)
  \/ \E u \in Users, a \in Amounts :
       \/ TopUp(u, a)
       \/ \E r \in SessionRefs : Session(u, a, r)

PaymentsSpec == PaymentsInit /\ [][PaymentsNext]_paymentVars

(* The API answers or fails, and the provider repeats what is not answered.  *)
ProviderReports(o) == o \in captured \ answered /\ WebhookCaptured(o)

Fairness ==
  \A o \in Orders :
    /\ WF_paymentVars(ProviderReports(o))
    /\ WF_paymentVars(CreditPayment(o) \/ CreditFails(o))

PaymentsLiveSpec == PaymentsSpec /\ Fairness
-----------------------------------------------------------------------------
Credited(o) == \E e \in ledger : e.ref = PayRef(o) /\ e.reason = "credit"

(***************************************************************************)
(* The ledger follows the reports of captures, although status and credit  *)
(* are two writes and other reports of the order come in between: an order *)
(* is credited only if one was reported, for its user and its amount, and  *)
(* it is credited if one was reported and neither waits nor has died.      *)
(***************************************************************************)
CreditFollowsReport ==
  \A o \in Orders :
    /\ \A e \in ledger : e.reason = "credit" /\ e.ref = PayRef(o) =>
         reports[o] > 0 /\ e.user = payment[o].user /\ e.delta = payment[o].amount
    /\ payment[o].user \in WalletOwners /\ reports[o] > crediting[o] + crashes => Credited(o)

(***************************************************************************)
(* Captured money is credited in the end, although a request may die       *)
(* between the status and the credit while another one is answered.        *)
(***************************************************************************)
CapturedIsCredited ==
  \A o \in Orders :
    o \in captured /\ payment[o].user \in WalletOwners ~> Credited(o)
=============================================================================
