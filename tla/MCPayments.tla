----------------------------- MODULE MCPayments -----------------------------
(* Two users, one of them without a wallet row, and one session reference, *)
(* so that every repetition of an operation meets a row in the ledger.     *)
EXTENDS Payments, TLC

CONSTANTS u1, u2, o1, hold1

MCBalance == u1 :> 2

MCRefs == {PayRef(o) : o \in Orders} \cup {TopUpRef(t) : t \in 0..MaxClock} \cup SessionRefs
=============================================================================
