------------------------------- MODULE Wallet -------------------------------
(***************************************************************************)
(* The prepaid wallet of the Core API (wallet.service.ts) over its two     *)
(* tables, wallets and wallet_ledger.                                      *)
(*                                                                         *)
(* Every exported operation runs inside one database transaction whose     *)
(* first statement locks or updates the wallet row, so two operations on   *)
(* one wallet are serialised and each of them is one atomic action here.   *)
(* An operation that throws rolls back and is a step that is not taken.    *)
(***************************************************************************)
EXTENDS Integers

CONSTANTS
  Users,         \* rows of the users table
  WalletOwners,  \* the users that have a wallets row (a seeded user may not)
  InitBalance,   \* balance_paise of every wallet at the start
  Refs,          \* the ref_id values callers pass
  Amounts        \* the amounts callers pass

ASSUME WalletAssumption ==
  /\ WalletOwners \subseteq Users
  /\ InitBalance \in [WalletOwners -> Nat]
  /\ Amounts \subseteq Nat

VARIABLES
  balance,  \* wallets.balance_paise
  hold,     \* wallets.hold_paise
  ledger    \* the rows of wallet_ledger

vars == <<balance, hold, ledger>>

Row == [user : Users, delta : Int, reason : {"hold", "release", "capture", "credit"}, ref : Refs]

Entry(u, delta, reason, ref) ==
  [user |-> u, delta |-> delta, reason |-> reason, ref |-> ref]

TypeOK ==
  /\ balance \in [WalletOwners -> Nat]
  /\ hold \in [WalletOwners -> Nat]
  /\ ledger \subseteq Row

Init ==
  /\ balance = InitBalance
  /\ hold = [u \in WalletOwners |-> 0]
  /\ ledger = {}
-----------------------------------------------------------------------------
(***************************************************************************)
(* createMany with skipDuplicates: the rows whose (ref_id, reason) is      *)
(* already in the table are dropped without an error, whoever owns them.   *)
(***************************************************************************)
InsertAll(rows) == ledger \cup rows

SkipDuplicates(rows) ==
  ledger \cup {r \in rows : \A e \in ledger : e.ref # r.ref \/ e.reason # r.reason}

(* The funds a new hold may use. *)
BalanceOnly(u) == balance[u]

Available(u) == balance[u] - hold[u]

(* GREATEST(x - y, 0), the SQL of every subtraction from a wallet. *)
NoFloor(x, y) == x - y

SubtractFloor(x, y) == IF x >= y THEN x - y ELSE 0

Hold(u, amount, ref) ==
  /\ u \in WalletOwners
  /\ Available(u) >= amount
  /\ hold' = [hold EXCEPT ![u] = @ + amount]
  /\ ledger' = SkipDuplicates({Entry(u, -amount, "hold", ref)})
  /\ UNCHANGED balance

(* An UPDATE of a user without a wallet touches no row; the ledger row is  *)
(* still inserted.                                                         *)
ReleaseHold(u, amount, ref) ==
  /\ hold' = [w \in WalletOwners |-> IF w = u THEN SubtractFloor(hold[w], amount) ELSE hold[w]]
  /\ ledger' = SkipDuplicates({Entry(u, amount, "release", ref)})
  /\ UNCHANGED balance

CaptureHold(u, held, capture, holdRef, captureRef) ==
  /\ hold' = [w \in WalletOwners |-> IF w = u THEN SubtractFloor(hold[w], held) ELSE hold[w]]
  /\ balance' = [w \in WalletOwners |->
                   IF w = u THEN SubtractFloor(balance[w], capture) ELSE balance[w]]
  /\ ledger' = SkipDuplicates({Entry(u, held, "release", holdRef),
                               Entry(u, -capture, "capture", captureRef)})

Credit(u, amount, ref) ==
  /\ u \in WalletOwners
  /\ balance' = [balance EXCEPT ![u] = @ + amount]
  /\ ledger' = SkipDuplicates({Entry(u, amount, "credit", ref)})
  /\ UNCHANGED hold

(* The exported operations called in any order, with any reference.        *)
Next ==
  \E u \in Users, a \in Amounts, r \in Refs :
    \/ Hold(u, a, r)
    \/ ReleaseHold(u, a, r)
    \/ \E c \in Amounts, s \in Refs : CaptureHold(u, a, c, r, s)
    \/ Credit(u, a, r)

Spec == Init /\ [][Next]_vars
-----------------------------------------------------------------------------
(***************************************************************************)
(* The ledger is an audit trail: a row once written is never changed or    *)
(* removed, and (ref_id, reason) identifies a row across all users, for    *)
(* any sequence of repeated, crossed and floored operations.               *)
(***************************************************************************)
LedgerKeyed ==
  \A e, f \in ledger : e.ref = f.ref /\ e.reason = f.reason => e = f

(***************************************************************************)
(* Only a debit overdraws a wallet: placing, releasing or double-releasing *)
(* holds and crediting never make the held amount exceed the balance, so   *)
(* the guard of hold() and the floors of the updates fit together.         *)
(***************************************************************************)
OverdrawnOnlyByDebit ==
  [][\A u \in WalletOwners :
       hold[u] <= balance[u] /\ hold'[u] > balance'[u] => balance'[u] < balance[u]]_vars
=============================================================================
