-------------------------- MODULE SessionLifecycle --------------------------
(***************************************************************************)
(* What the session state machine promises for every idempotency key,      *)
(* whatever the processes that drive it do: the line                       *)
(*                                                                         *)
(*   PENDING -> AUTHORIZED -> CHARGING -> STOPPING -> COMPLETED            *)
(*                                                                         *)
(* is walked forwards only, a row is opened only for a key whose funds     *)
(* were put on hold, and only a completed session is invoiced.             *)
(***************************************************************************)
EXTENDS Naturals

CONSTANT Keys  \* idempotency keys

VARIABLES
  stage,     \* the state of the row with this key, "NONE" before it exists
  reserved,  \* the keys whose hold is in the wallet ledger
  bills      \* how many invoices the session has

vars == <<stage, reserved, bills>>

Stage == {"NONE", "PENDING", "AUTHORIZED", "CHARGING", "STOPPING", "COMPLETED"}

Init ==
  /\ stage = [k \in Keys |-> "NONE"]
  /\ reserved = {}
  /\ bills = [k \in Keys |-> 0]

Reserve(k) ==
  /\ reserved' = reserved \cup {k}
  /\ UNCHANGED <<stage, bills>>

Advance(k, from, to) ==
  /\ stage[k] \in from
  /\ stage' = [stage EXCEPT ![k] = to]
  /\ UNCHANGED <<reserved, bills>>

Open(k) == k \in reserved /\ Advance(k, {"NONE"}, "PENDING")

Authorize(k) == Advance(k, {"PENDING"}, "AUTHORIZED")

Charge(k) == Advance(k, {"AUTHORIZED"}, "CHARGING")

Stop(k) == Advance(k, {"CHARGING"}, "STOPPING")

Complete(k) == Advance(k, {"CHARGING", "STOPPING"}, "COMPLETED")

Bill(k) ==
  /\ stage[k] = "COMPLETED"
  /\ bills' = [bills EXCEPT ![k] = @ + 1]
  /\ UNCHANGED <<stage, reserved>>

Next ==
  \E k \in Keys :
    \/ Reserve(k) \/ Open(k) \/ Authorize(k) \/ Charge(k)
    \/ Stop(k) \/ Complete(k) \/ Bill(k)

Spec == Init /\ [][Next]_vars
=============================================================================
