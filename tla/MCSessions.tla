----------------------------- MODULE MCSessions -----------------------------
(* Small instances of Sessions.                                            *)
EXTENDS SessionsMoney, TLC

CONSTANTS k1, k2, c1, c2, u1, p1, p2

MCBalance == u1 :> 4

OneCharger == [k \in Keys |-> c1]
OneUser == [k \in Keys |-> u1]

(* A session costs less than its hold, or more if it drew energy or took long. *)
MCCharges == [e \in Readings |-> {1 + 2 * e, 3}]

(* The committed offsets are read by a restart only: without crashes one   *)
(* of them stands for all.                                                 *)
NothingCommitted == \A c \in Chargers : committed[c] = 0

Symmetry == Permutations(Keys) \cup Permutations(Calls)
=============================================================================
