--------------------------- MODULE PaymentsProofs ---------------------------
(***************************************************************************)
(* Proofs about Wallet, for every set of users, references and amounts,    *)
(* and about Payments, which is shown to use the wallet by its operations  *)
(* only, for any orders and any number of requests and crashes.            *)
(***************************************************************************)
EXTENDS Payments, TLAPS

-----------------------------------------------------------------------------
(* The wallet.                                                             *)

(* A subtraction from a wallet stays a natural number and never grows. *)
LEMMA FloorBounds ==
  ASSUME NEW x \in Nat, NEW y \in Nat
  PROVE  SubtractFloor(x, y) \in Nat /\ SubtractFloor(x, y) <= x
BY DEF SubtractFloor

(* Inserting typed rows keeps the ledger typed. *)
LEMMA InsertTyped ==
  ASSUME ledger \subseteq Row, NEW rows \in SUBSET Row
  PROVE  SkipDuplicates(rows) \subseteq Row
BY DEF SkipDuplicates

(* Inserting rows of pairwise different keys keeps the ledger keyed. *)
LEMMA InsertKeyed ==
  ASSUME LedgerKeyed, NEW rows,
         \A e, f \in rows : e.ref = f.ref /\ e.reason = f.reason => e = f,
         ledger' = SkipDuplicates(rows)
  PROVE  LedgerKeyed'
BY DEF LedgerKeyed, SkipDuplicates

(* An operation keeps the tables typed.                                    *)
LEMMA WalletTyped == TypeOK /\ [Next]_vars => TypeOK'
<1> SUFFICES ASSUME TypeOK, [Next]_vars PROVE TypeOK'
  OBVIOUS
<1>1. CASE UNCHANGED vars
  BY <1>1 DEF vars, TypeOK
<1>2. CASE Next
  <2> PICK u \in Users, a \in Amounts, r \in Refs :
        \/ Hold(u, a, r)
        \/ ReleaseHold(u, a, r)
        \/ \E c \in Amounts, s \in Refs : CaptureHold(u, a, c, r, s)
        \/ Credit(u, a, r)
    BY <1>2 DEF Next
  <2>0. a \in Nat
    BY WalletAssumption
  <2>1. CASE Hold(u, a, r)
    <3>1. Entry(u, -a, "hold", r) \in Row
      BY <2>0 DEF Entry, Row
    <3> QED BY <2>0, <2>1, <3>1, InsertTyped DEF Hold, TypeOK
  <2>2. CASE ReleaseHold(u, a, r)
    <3>1. Entry(u, a, "release", r) \in Row
      BY <2>0 DEF Entry, Row
    <3> QED BY <2>0, <2>2, <3>1, InsertTyped, FloorBounds DEF ReleaseHold, TypeOK
  <2>3. CASE \E c \in Amounts, s \in Refs : CaptureHold(u, a, c, r, s)
    <3> PICK c \in Amounts, s \in Refs : CaptureHold(u, a, c, r, s)
      BY <2>3
    <3>0. c \in Nat
      BY WalletAssumption
    <3>1. {Entry(u, a, "release", r), Entry(u, -c, "capture", s)} \subseteq Row
      BY <2>0, <3>0 DEF Entry, Row
    <3> QED BY <2>0, <3>0, <3>1, InsertTyped, FloorBounds DEF CaptureHold, TypeOK
  <2>4. CASE Credit(u, a, r)
    <3>1. Entry(u, a, "credit", r) \in Row
      BY <2>0 DEF Entry, Row
    <3> QED BY <2>0, <2>4, <3>1, InsertTyped DEF Credit, TypeOK
  <2> QED BY <2>1, <2>2, <2>3, <2>4
<1> QED BY <1>1, <1>2

(* The balances and holds of all wallets stay natural numbers and the      *)
(* ledger keeps its shape: CHECK (balance_paise >= 0) never fires.         *)
THEOREM TypeCorrect == Spec => []TypeOK
<1>1. Init => TypeOK
  BY WalletAssumption DEF Init, TypeOK
<1> QED BY <1>1, WalletTyped, PTL DEF Spec

(* (ref_id, reason) identifies a ledger row under every sequence of        *)
(* operations: the two rows of captureHold differ in their reason.         *)
THEOREM KeyedLedger == Spec => []LedgerKeyed
<1>1. Init => LedgerKeyed
  BY DEF Init, LedgerKeyed
<1>2. LedgerKeyed /\ [Next]_vars => LedgerKeyed'
  <2> SUFFICES ASSUME LedgerKeyed, [Next]_vars PROVE LedgerKeyed'
    OBVIOUS
  <2>1. CASE UNCHANGED vars
    BY <2>1 DEF vars, LedgerKeyed
  <2>2. CASE Next
    <3>1. ASSUME NEW u, NEW d, NEW reason, NEW r, ledger' = SkipDuplicates({Entry(u, d, reason, r)})
          PROVE  LedgerKeyed'
      BY <3>1, InsertKeyed
    <3>2. ASSUME NEW u, NEW h, NEW c, NEW r, NEW s, CaptureHold(u, h, c, r, s)
          PROVE  LedgerKeyed'
      <4> DEFINE rows == {Entry(u, h, "release", r), Entry(u, -c, "capture", s)}
      <4>1. \A e, f \in rows : e.ref = f.ref /\ e.reason = f.reason => e = f
        BY DEF Entry
      <4>2. ledger' = SkipDuplicates(rows)
        BY <3>2 DEF CaptureHold
      <4> HIDE DEF rows
      <4> QED BY <4>1, <4>2, InsertKeyed
    <3> QED BY <2>2, <3>1, <3>2 DEF Next, Hold, ReleaseHold, Credit
  <2> QED BY <2>1, <2>2
<1> QED BY <1>1, <1>2, PTL DEF Spec

(* Only a step that debits a wallet can leave its hold above its balance.  *)
THEOREM OnlyDebitsOverdraw == Spec => OverdrawnOnlyByDebit
<1> DEFINE Step == \A u \in WalletOwners :
      hold[u] <= balance[u] /\ hold'[u] > balance'[u] => balance'[u] < balance[u]
<1>1. TypeOK /\ [Next]_vars => [Step]_vars
  <2> SUFFICES ASSUME TypeOK, Next
               PROVE  Step
    OBVIOUS
  <2> SUFFICES ASSUME NEW w \in WalletOwners,
                      hold[w] <= balance[w], hold'[w] > balance'[w]
               PROVE  balance'[w] < balance[w]
    OBVIOUS
  <2> PICK u \in Users, a \in Amounts, r \in Refs :
        \/ Hold(u, a, r)
        \/ ReleaseHold(u, a, r)
        \/ \E c \in Amounts, s \in Refs : CaptureHold(u, a, c, r, s)
        \/ Credit(u, a, r)
    BY DEF Next
  <2>0. a \in Nat /\ balance[w] \in Nat /\ hold[w] \in Nat
    BY WalletAssumption DEF TypeOK
  <2>1. CASE Hold(u, a, r)
    BY <2>0, <2>1 DEF Hold, Available, TypeOK
  <2>2. CASE ReleaseHold(u, a, r)
    BY <2>0, <2>2 DEF ReleaseHold, SubtractFloor
  <2>3. CASE \E c \in Amounts, s \in Refs : CaptureHold(u, a, c, r, s)
    <3> PICK c \in Amounts, s \in Refs : CaptureHold(u, a, c, r, s)
      BY <2>3
    <3>1. c \in Nat
      BY WalletAssumption
    <3> QED BY <2>0, <3>1 DEF CaptureHold, SubtractFloor
  <2>4. CASE Credit(u, a, r)
    BY <2>0, <2>4 DEF Credit, TypeOK
  <2> QED BY <2>1, <2>2, <2>3, <2>4
<1> QED BY <1>1, TypeCorrect, PTL DEF Spec, OverdrawnOnlyByDebit
-----------------------------------------------------------------------------
(* Payments.  What a step of it does to the wallet tables is one of the    *)
(* operations of the wallet, with a user, an amount and a reference of it. *)

(* The references of orders, top-ups and sessions are among the ref_ids.   *)
LEMMA RefsAreRefs ==
  /\ \A o \in Orders : PayRef(o) \in Refs
  /\ \A t \in 0..MaxClock : TopUpRef(t) \in Refs
  /\ SessionRefs \subseteq Refs
BY PaymentsAssumption

(* A reference tells whether it is that of an order, and of which one.     *)
LEMMA RefsDiffer ==
  /\ \A o, p : PayRef(o) = PayRef(p) => o = p
  /\ \A o, t : PayRef(o) # TopUpRef(t)
BY DEF PayRef, TopUpRef

(* The status of a row is all that changes of it.                          *)
LEMMA StatusOnly ==
  ASSUME payment \in [Orders -> Payment], NEW o \in Orders,
         NEW status \in {"created", "captured", "failed"}, SetStatus(o, status)
  PROVE  /\ payment' \in [Orders -> Payment]
         /\ \A p \in Orders : payment'[p].user = payment[p].user
                            /\ payment'[p].amount = payment[p].amount
<1>1. payment[o] \in Payment
  OBVIOUS
<1>2. [payment[o] EXCEPT !.status = status] \in Payment
  BY <1>1 DEF Payment
<1>3. /\ [payment[o] EXCEPT !.status = status].user = payment[o].user
      /\ [payment[o] EXCEPT !.status = status].amount = payment[o].amount
  BY <1>1 DEF Payment
<1> DEFINE row == [payment[o] EXCEPT !.status = status]
<1>4. payment' = [payment EXCEPT ![o] = row]
  BY DEF SetStatus
<1> HIDE DEF row
<1> QED BY <1>2, <1>3, <1>4 DEF row

LEMMA EndRequestTyped ==
  ASSUME PaymentsTypeOK, NEW o \in Orders, EndRequest(o)
  PROVE  /\ crediting' \in [Orders -> 0..MaxReports] /\ crediting[o] > 0 /\ reports' = reports
         /\ \A p \in Orders : crediting'[p] = IF p = o THEN crediting[p] - 1 ELSE crediting[p]
<1>1. MaxReports \in Nat /\ crediting \in [Orders -> 0..MaxReports]
  BY PaymentsAssumption DEF PaymentsTypeOK
<1>2. crediting[o] - 1 \in 0..MaxReports
  BY <1>1 DEF EndRequest
<1> QED BY <1>1, <1>2 DEF EndRequest

(* A step of Payments is a step of the wallet or leaves it alone.          *)
LEMMA WalletStep ==
  ASSUME PaymentsTypeOK, PaymentsNext
  PROVE  Next \/ UNCHANGED vars
<1>1. ASSUME NEW o \in Orders,
             \/ CreateOrder(o) \/ ProviderCaptures(o) \/ WebhookFailed(o)
             \/ WebhookCaptured(o) \/ CreditFails(o) \/ RequestDies(o)
      PROVE  UNCHANGED vars
  BY <1>1 DEF CreateOrder, ProviderCaptures, WebhookFailed, WebhookCaptured, CreditFails,
              RequestDies, vars, tables
<1>2. ASSUME NEW o \in Orders, CreditPayment(o) PROVE Next
  <2>1. payment[o] \in Payment
    BY DEF PaymentsTypeOK
  <2>2. payment[o].user \in Users /\ payment[o].amount \in Amounts /\ PayRef(o) \in Refs
    BY <2>1, RefsAreRefs DEF Payment
  <2> QED BY <1>2, <2>2 DEF CreditPayment, Next
<1>3. ASSUME NEW u \in Users, NEW a \in Amounts, TopUp(u, a) PROVE Next
  <2>1. now' \in 0..MaxClock
    BY <1>3, PaymentsAssumption DEF TopUp, PaymentsTypeOK
  <2> QED BY <1>3, <2>1, RefsAreRefs DEF TopUp, Next
<1>4. ASSUME NEW u \in Users, NEW a \in Amounts, NEW r \in SessionRefs, Session(u, a, r)
      PROVE  Next
  BY <1>4, RefsAreRefs DEF Session, Next
<1> QED BY <1>1, <1>2, <1>3, <1>4 DEF PaymentsNext

(* Two counts make the credits right.  A request that is about to credit   *)
(* an order has reported it, so that a credit has a report; and a request  *)
(* ends with a credit, unless it dies or finds no wallet, so that a report *)
(* without a credit is still at work or was lost with its request.         *)
CreditingWasReported == \A o \in Orders : crediting[o] <= reports[o]

PaymentsInv == PaymentsTypeOK /\ CreditingWasReported /\ CreditFollowsReport

LEMMA PaymentsInvInit == PaymentsInit => PaymentsInv
<1> SUFFICES ASSUME PaymentsInit PROVE PaymentsInv
  OBVIOUS
<1>1. TypeOK
  BY WalletAssumption DEF PaymentsInit, Init, TypeOK
<1>2. PaymentsTypeOK
  BY <1>1, PaymentsAssumption DEF PaymentsInit, PaymentsTypeOK
<1> QED BY <1>2 DEF PaymentsInit, Init, PaymentsInv, CreditingWasReported, CreditFollowsReport

(* What a step does to an order: no report is forgotten, the rows that it  *)
(* inserts are right, and a report is done with only by a credit, or by a  *)
(* request that has died or found no wallet.                               *)
Unfinished(o) == reports[o] - crediting[o] - crashes

Accounted(o) ==
  /\ payment'[o].user = payment[o].user /\ payment'[o].amount = payment[o].amount
  /\ reports[o] <= reports'[o]
  /\ \A e \in ledger' \ ledger : e.reason = "credit" /\ e.ref = PayRef(o) =>
       reports[o] > 0 /\ e.user = payment[o].user /\ e.delta = payment[o].amount
  /\ Unfinished(o)' <= Unfinished(o) \/ payment[o].user \notin WalletOwners \/ Credited(o)'

LEMMA CreditStays ==
  ASSUME PaymentsInv, PaymentsTypeOK', ledger \subseteq ledger', \A o \in Orders : Accounted(o)
  PROVE  CreditFollowsReport'
<1> SUFFICES ASSUME NEW o \in Orders
             PROVE  /\ \A e \in ledger' : e.reason = "credit" /\ e.ref = PayRef(o) =>
                         /\ reports'[o] > 0 /\ e.user = payment'[o].user
                         /\ e.delta = payment'[o].amount
                    /\ payment'[o].user \in WalletOwners /\ reports'[o] > crediting'[o] + crashes'
                         => Credited(o)'
  BY DEF CreditFollowsReport, PayRef
<1>0. /\ reports[o] \in Nat /\ crediting[o] \in Nat /\ crashes \in Nat
      /\ reports'[o] \in Nat /\ crediting'[o] \in Nat /\ crashes' \in Nat
  BY PaymentsAssumption DEF PaymentsInv, PaymentsTypeOK
<1>1. Credited(o) => Credited(o)'
  BY DEF Credited, PayRef
<1>2. \A e \in ledger' : e.reason = "credit" /\ e.ref = PayRef(o) =>
        /\ reports'[o] > 0 /\ e.user = payment'[o].user /\ e.delta = payment'[o].amount
  BY <1>0 DEF PaymentsInv, CreditFollowsReport, Accounted
<1>3. payment[o].user \in WalletOwners /\ reports[o] > crediting[o] + crashes => Credited(o)
  BY DEF PaymentsInv, CreditFollowsReport
<1>4. payment'[o].user \in WalletOwners /\ reports'[o] > crediting'[o] + crashes' => Credited(o)'
  <2>1. payment'[o].user = payment[o].user
    BY DEF Accounted
  <2>2. CASE Unfinished(o)' <= Unfinished(o)
    BY <1>0, <1>1, <1>3, <2>1, <2>2 DEF Unfinished
  <2> QED BY <2>1, <2>2 DEF Accounted
<1> QED BY <1>2, <1>4

LEMMA PaymentsInvStep == PaymentsInv /\ [PaymentsNext]_paymentVars => PaymentsInv'
<1> SUFFICES ASSUME PaymentsInv, [PaymentsNext]_paymentVars PROVE PaymentsInv'
  OBVIOUS
<1>0. /\ PaymentsTypeOK /\ CreditingWasReported /\ TypeOK /\ crashes \in 0..MaxCrashes
      /\ payment \in [Orders -> Payment] /\ now \in 0..MaxClock
      /\ reports \in [Orders -> 0..MaxReports] /\ crediting \in [Orders -> 0..MaxReports]
      /\ {MaxClock, MaxReports, MaxCrashes} \subseteq Nat
      /\ captured \subseteq Orders /\ answered \subseteq captured
  BY PaymentsAssumption DEF PaymentsInv, PaymentsTypeOK
<1>1. CASE UNCHANGED paymentVars
  BY <1>0, <1>1 DEF paymentVars, tables, requests, provider, PaymentsInv, PaymentsTypeOK, TypeOK,
                    CreditingWasReported, CreditFollowsReport, Credited, PayRef
<1>2. CASE PaymentsNext
  <2>1. TypeOK' /\ ledger \subseteq ledger'
    <3>1. Next \/ UNCHANGED vars
      BY <1>0, <1>2, WalletStep
    <3>2. ledger \subseteq ledger'
      BY <3>1 DEF Next, vars, Hold, ReleaseHold, CaptureHold, Credit, SkipDuplicates
    <3> QED BY <1>0, <3>1, <3>2, WalletTyped
  <2>a. ASSUME PaymentsTypeOK', CreditingWasReported', \A o \in Orders : Accounted(o)
        PROVE  PaymentsInv'
    BY <2>1, <2>a, CreditStays DEF PaymentsInv
  <2>b. ASSUME UNCHANGED <<requests, crashes>>, payment' \in [Orders -> Payment],
               NEW p \in Orders,
               /\ payment'[p].user = payment[p].user /\ payment'[p].amount = payment[p].amount,
               \A e \in ledger' \ ledger : e.reason = "credit" => e.ref # PayRef(p)
        PROVE  Accounted(p)
    BY <1>0, <2>b DEF Accounted, Unfinished, requests
  (* The status of a row, the provider's part, top-ups and sessions.       *)
  <2>2. ASSUME NEW o \in Orders, CreateOrder(o) \/ WebhookFailed(o) \/ ProviderCaptures(o)
        PROVE  PaymentsInv'
    <3>1. /\ payment' \in [Orders -> Payment]
          /\ \A p \in Orders : payment'[p].user = payment[p].user
                              /\ payment'[p].amount = payment[p].amount
      BY <1>0, <2>2, StatusOnly DEF CreateOrder, WebhookFailed, ProviderCaptures, tables
    <3>2. UNCHANGED <<ledger, requests, crashes, now>>
      BY <2>2 DEF CreateOrder, WebhookFailed, ProviderCaptures, tables, vars
    <3>3. \A p \in Orders : Accounted(p)
      BY <2>b, <3>1, <3>2
    <3>4. captured' \subseteq Orders /\ answered' \subseteq captured'
      BY <1>0, <2>2 DEF CreateOrder, WebhookFailed, ProviderCaptures, provider
    <3>5. PaymentsTypeOK' /\ CreditingWasReported'
      BY <1>0, <2>1, <3>1, <3>2, <3>4 DEF PaymentsTypeOK, CreditingWasReported, requests
    <3> QED BY <2>a, <3>3, <3>5
  <2>3. ASSUME NEW u \in Users, NEW a \in Amounts, TopUp(u, a) PROVE PaymentsInv'
    <3>1. \A e \in ledger' \ ledger : e.ref = TopUpRef(now')
      BY <2>3 DEF TopUp, Credit, SkipDuplicates, Entry
    <3>2. UNCHANGED <<payment, requests, provider, crashes>> /\ now' \in 0..MaxClock
      BY <1>0, <2>3 DEF TopUp
    <3>3. \A p \in Orders : Accounted(p)
      BY <1>0, <2>b, <3>1, <3>2, RefsDiffer
    <3>4. PaymentsTypeOK' /\ CreditingWasReported'
      BY <1>0, <2>1, <3>2 DEF PaymentsTypeOK, CreditingWasReported, requests, provider
    <3> QED BY <2>a, <3>3, <3>4
  <2>4. ASSUME NEW u \in Users, NEW a \in Amounts, NEW r \in SessionRefs, Session(u, a, r)
        PROVE  PaymentsInv'
    <3>1. \A e \in ledger' \ ledger : e.reason # "credit"
      BY <2>4 DEF Session, Hold, ReleaseHold, CaptureHold, SkipDuplicates, Entry
    <3>2. UNCHANGED <<payment, requests, provider, crashes, now>>
      BY <2>4 DEF Session
    <3>3. \A p \in Orders : Accounted(p)
      BY <1>0, <2>b, <3>1, <3>2
    <3>4. PaymentsTypeOK' /\ CreditingWasReported'
      BY <1>0, <2>1, <3>2 DEF PaymentsTypeOK, CreditingWasReported, requests, provider
    <3> QED BY <2>a, <3>3, <3>4
  (* The two halves of a webhook.                                          *)
  <2>5. ASSUME NEW o \in Orders, WebhookCaptured(o) PROVE PaymentsInv'
    <3>1. /\ payment' \in [Orders -> Payment]
          /\ \A p \in Orders : payment'[p].user = payment[p].user
                              /\ payment'[p].amount = payment[p].amount
      BY <1>0, <2>5, StatusOnly DEF WebhookCaptured
    <3>2. /\ reports' = [reports EXCEPT ![o] = @ + 1] /\ reports[o] < MaxReports
          /\ crediting' = [crediting EXCEPT ![o] = @ + 1]
          /\ UNCHANGED <<ledger, captured, answered, now, crashes>>
      BY <2>5 DEF WebhookCaptured, MustCredit, vars
    <3>3. /\ reports' \in [Orders -> 0..MaxReports]
          /\ \A p \in Orders : /\ reports'[p] = IF p = o THEN reports[p] + 1 ELSE reports[p]
                              /\ crediting'[p] = IF p = o THEN crediting[p] + 1 ELSE crediting[p]
      BY <1>0, <3>2
    <3>4. CreditingWasReported'
      BY <1>0, <3>3 DEF CreditingWasReported
    <3>5. crediting' \in [Orders -> 0..MaxReports]
      <4>1. crediting[o] + 1 \in 0..MaxReports
        BY <1>0, <3>2 DEF CreditingWasReported
      <4> QED BY <1>0, <3>2, <4>1
    <3>6. \A p \in Orders : Accounted(p)
      BY <1>0, <3>1, <3>2, <3>3 DEF Accounted, Unfinished
    <3>7. PaymentsTypeOK'
      BY <1>0, <2>1, <3>1, <3>2, <3>3, <3>5 DEF PaymentsTypeOK
    <3> QED BY <2>a, <3>4, <3>6, <3>7
  <2>6. ASSUME NEW o \in Orders, EndRequest(o), UNCHANGED <<payment, captured, now>>,
               crashes' \in 0..MaxCrashes, answered' \subseteq captured
        PROVE  PaymentsTypeOK' /\ CreditingWasReported'
    <3>1. CreditingWasReported'
      BY <1>0, <2>6, EndRequestTyped DEF CreditingWasReported
    <3> QED BY <1>0, <2>1, <2>6, <3>1, EndRequestTyped DEF PaymentsTypeOK
  <2>7. ASSUME NEW o \in Orders, CreditPayment(o) PROVE PaymentsInv'
    <3>1. /\ EndRequest(o) /\ UNCHANGED <<payment, captured, now, crashes>>
          /\ answered' \subseteq captured
      BY <1>0, <2>7 DEF CreditPayment, Answer
    <3>2. crediting[o] \in Nat /\ reports[o] > 0 /\ reports' = reports
      BY <1>0, <3>1, EndRequestTyped DEF CreditingWasReported
    <3>3. \A e \in ledger' \ ledger :
            /\ e.ref = PayRef(o)
            /\ e.user = payment[o].user /\ e.delta = payment[o].amount
      BY <2>7 DEF CreditPayment, Credit, SkipDuplicates, Entry
    <3>4. Credited(o)'
      <4> DEFINE row == Entry(payment[o].user, payment[o].amount, "credit", PayRef(o))
      <4>1. ledger' = SkipDuplicates({row}) /\ row.ref = PayRef(o) /\ row.reason = "credit"
        BY <2>7 DEF CreditPayment, Credit, Entry
      <4> HIDE DEF row
      <4> QED BY <4>1 DEF SkipDuplicates, Credited, PayRef
    <3>5. \A p \in Orders : Accounted(p)
      <4> TAKE p \in Orders
      <4>1. p # o => Unfinished(p)' <= Unfinished(p)
        BY <1>0, <3>1, <3>2, EndRequestTyped DEF Unfinished
      <4>2. \A e \in ledger' \ ledger : e.reason = "credit" /\ e.ref = PayRef(p) =>
              reports[p] > 0 /\ e.user = payment[p].user /\ e.delta = payment[p].amount
        BY <3>2, <3>3, RefsDiffer
      <4> QED BY <1>0, <3>1, <3>2, <3>4, <4>1, <4>2 DEF Accounted
    <3> QED BY <1>0, <2>6, <2>a, <3>1, <3>5
  <2>8. ASSUME NEW o \in Orders, CreditFails(o) \/ RequestDies(o) PROVE PaymentsInv'
    <3>1. /\ EndRequest(o) /\ UNCHANGED <<payment, captured, answered, now, ledger>>
          /\ crashes' \in 0..MaxCrashes /\ crashes <= crashes'
          /\ payment[o].user \notin WalletOwners \/ crashes' = crashes + 1
      BY <1>0, <2>8 DEF CreditFails, RequestDies, tables, provider
    <3>2. \A p \in Orders : Accounted(p)
      <4> TAKE p \in Orders
      <4>1. Unfinished(p)' <= Unfinished(p) \/ payment[p].user \notin WalletOwners
        BY <1>0, <3>1, EndRequestTyped DEF Unfinished
      <4> QED BY <1>0, <3>1, <4>1, EndRequestTyped DEF Accounted
    <3> QED BY <1>0, <2>6, <2>a, <3>1, <3>2
  <2> QED BY <1>2, <2>2, <2>3, <2>4, <2>5, <2>7, <2>8 DEF PaymentsNext
<1> QED BY <1>1, <1>2

(* The rows and counters of payments stay in range.                        *)
THEOREM PaymentsTypeCorrect == PaymentsSpec => []PaymentsTypeOK
<1>1. PaymentsInv => PaymentsTypeOK
  BY DEF PaymentsInv
<1> QED BY <1>1, PaymentsInvInit, PaymentsInvStep, PTL DEF PaymentsSpec

(* Under any reports, repeated, concurrent or dying half-way: an order is  *)
(* credited if a report of its capture came through, and only then.        *)
THEOREM CreditsFollowReports == PaymentsSpec => []CreditFollowsReport
<1>1. PaymentsInv => CreditFollowsReport
  BY DEF PaymentsInv
<1> QED BY <1>1, PaymentsInvInit, PaymentsInvStep, PTL DEF PaymentsSpec

(* Payments implements Wallet: webhooks, top-ups and sessions change the   *)
(* wallet tables by the operations of the wallet only, one at a time.      *)
THEOREM PaymentsImplementsWallet == PaymentsSpec => Spec
<1>1. PaymentsInit => Init
  BY DEF PaymentsInit
<1>2. PaymentsInv /\ [PaymentsNext]_paymentVars => [Next]_vars
  BY WalletStep DEF PaymentsInv, paymentVars, tables, vars
<1> QED BY <1>1, <1>2, PaymentsInvInit, PaymentsInvStep, PTL DEF PaymentsSpec, Spec

(* So that a ledger row is keyed, and a wallet overdrawn by debits only,   *)
(* in every behaviour of payments.                                         *)
THEOREM PaymentsKeepWallet == PaymentsSpec => []LedgerKeyed /\ OverdrawnOnlyByDebit
BY PaymentsImplementsWallet, KeyedLedger, OnlyDebitsOverdraw, PTL
=============================================================================
