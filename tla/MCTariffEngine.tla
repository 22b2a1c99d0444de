--------------------------- MODULE MCTariffEngine ---------------------------
(* Flat, progressive and disordered tariffs, with rates that do not divide *)
(* and bounds that are met exactly, missed by a unit, and passed.          *)
EXTENDS TariffEngine

S(b, r) == [upTo |-> b, rate |-> r]

T(k, m, s, g) == [kwh |-> k, min |-> m, slabs |-> s, gst |-> g]

MCTariffs == {
  T(1201, 33, <<>>, 1800),
  T(1501, 50, <<S(10000, 803), S(20000, 1203)>>, 1800),
  T(900, 0, <<S(5000, 1501), S(5000, 7), S(15000, 1001), S(20001, 999)>>, 500),
  T(1000, 1, <<S(20000, 1501), S(5000, 701), S(15000, 1103)>>, 1250),
  T(0, 7, <<S(0, 5), S(10000, 3)>>, 0)}

MCEnergies == {0, 1, 4999, 5000, 5001, 10000, 10007, 15000, 19999, 20000, 20001, 31415}

MCDurations == {1, 59999, 60001, 5400000}
=============================================================================
