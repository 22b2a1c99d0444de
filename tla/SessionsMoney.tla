--------------------------- MODULE SessionsMoney ----------------------------
(***************************************************************************)
(* The accounts of Sessions: what the wallet, its ledger and the invoices  *)
(* say about each other.                                                   *)
(***************************************************************************)
EXTENDS Sessions, Functions

KeysOf(u) == {k \in Keys : UserOf[k] = u}

Total(s) == SumFunction(s)

Invoiced(u) == SumFunctionOnSet([k \in Keys |-> Total(invoices[k])], KeysOf(u))

Captures(u) == {e \in ledger : e.user = u /\ e.reason = "capture"}

Captured(u) == SumFunctionOnSet([e \in ledger |-> -e.delta], Captures(u))

OpenHolds(u) == Cardinality({k \in KeysOf(u) : Held(k) /\ ~Released(k)})

(***************************************************************************)
(* A user never pays more than the invoices say, also when a settlement is *)
(* repeated after a crash between the invoice and the capture.             *)
(***************************************************************************)
DebitWithinInvoices == \A u \in WalletOwners : InitBalance[u] - balance[u] <= Invoiced(u)

(***************************************************************************)
(* The hold of a session that is still open is there for it: settling one  *)
(* session does not release the funds of another.                          *)
(***************************************************************************)
HoldsCoverOpenSessions == \A u \in WalletOwners : hold[u] >= HoldAmount * OpenHolds(u)

(***************************************************************************)
(* The ledger accounts for the balance: it is what is left of the initial  *)
(* balance after the captures in the ledger, floored at zero.              *)
(***************************************************************************)
LedgerExplainsBalance ==
  \A u \in WalletOwners : balance[u] = Difference(InitBalance[u], Captured(u))
=============================================================================
