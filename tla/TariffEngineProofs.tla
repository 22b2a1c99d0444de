------------------------- MODULE TariffEngineProofs -------------------------
(***************************************************************************)
(* The loop over the slabs bills every unit of energy once, rounds within  *)
(* its bound and prices ordered slabs as progressive brackets, for all     *)
(* tariffs, energies and durations.                                        *)
(***************************************************************************)
EXTENDS TariffEngine, WellFoundedInduction, TLAPS

(* What Round returns.                                                     *)
LEMMA RoundPaise ==
  ASSUME NEW x \in Nat
  PROVE  /\ Round(x, Kwh) \in Nat /\ Round(x, Minute) \in Nat /\ Round(x, Whole) \in Nat
         /\ 2 * (Kwh * Round(x, Kwh) - x) <= Kwh
         /\ 2 * (x - Kwh * Round(x, Kwh)) <= Kwh
BY DEF Round, Kwh, Minute, Whole

LEMMA ProductNat == \A a, b \in Nat : a * b \in Nat
OBVIOUS

(* What a slab takes is there.                                             *)
LEMMA SpanFits ==
  ASSUME NEW slab \in Slab, remaining \in Nat, prev \in Nat
  PROVE  Span(slab) \in Nat /\ Span(slab) <= remaining
BY DEF Span, Most, Least, Slab

LEMMA SlabAt ==
  ASSUME tariff \in Tariff, NEW k \in Nat \ {0}, k <= Len(tariff.slabs)
  PROVE  tariff.slabs[k] \in Slab
BY DEF Tariff

(* The counters of the loop.                                               *)
LEMMA AddsWithinRounding ==
  ASSUME total \in Nat, billed \in Nat, exact \in Nat,
         NEW span \in Nat, NEW rate \in Nat, NEW n \in Nat, Adds(span, rate),
         2 * (Kwh * total - exact) <= Kwh * n, 2 * (exact - Kwh * total) <= Kwh * n
  PROVE  /\ total' \in Nat /\ billed' = billed + span /\ exact' \in Nat
         /\ 2 * (Kwh * total' - exact') <= Kwh * (n + 1)
         /\ 2 * (exact' - Kwh * total') <= Kwh * (n + 1)
<1> DEFINE x == span * rate
<1> DEFINE paise == Round(x, Kwh)
<1>1. x \in Nat
  BY ProductNat
<1>2. /\ paise \in Nat
      /\ 2 * (Kwh * paise - x) <= Kwh /\ 2 * (x - Kwh * paise) <= Kwh
  BY <1>1, RoundPaise
<1>3. total' = total + paise /\ billed' = billed + span /\ exact' = exact + x
  BY DEF Adds
<1> HIDE DEF x, paise
<1> QED
  BY <1>1, <1>2, <1>3 DEF Kwh

TariffInv == TypeOK /\ BilledOnce /\ WithinRounding
-----------------------------------------------------------------------------
LEMMA InitTariff == Init => TariffInv
<1> SUFFICES ASSUME Init PROVE TariffInv
  OBVIOUS
<1>1. TypeOK
  <2>1. Fallback \in Tariff
    BY DEF Fallback, Tariff
  <2>2. NoBill \in Bill
    BY DEF NoBill, Bill
  <2>3. energy \in Nat /\ duration \in Nat
    BY TariffAssumption DEF Init
  <2> QED
    BY <2>1, <2>2, <2>3 DEF Init, TypeOK
<1>2. BilledOnce
  BY <1>1 DEF Init, BilledOnce, TypeOK
<1>3. WithinRounding
  BY DEF Init, WithinRounding, Roundings, Kwh
<1> QED
  BY <1>1, <1>2, <1>3 DEF TariffInv

LEMMA NextTariff == TariffInv /\ [Next]_vars => TariffInv'
<1> SUFFICES ASSUME TariffInv, [Next]_vars PROVE TariffInv'
  OBVIOUS
<1>0. TypeOK /\ BilledOnce /\ WithinRounding
  BY DEF TariffInv
<1>1. CASE Load
  <2>1. tariff' \in Tariff
    <3>1. Fallback \in Tariff
      BY DEF Fallback, Tariff
    <3> QED
      BY <1>0, <1>1, <3>1, TariffAssumption DEF Load, TypeOK
  <2>2. UNCHANGED <<inputs, loop, bill>> /\ pc = "load" /\ pc' = "slabs"
    BY <1>1 DEF Load
  <2>3. TypeOK'
    BY <2>1, <2>2, <1>0 DEF TypeOK, inputs, loop
  <2>4. BilledOnce' /\ WithinRounding'
    BY <2>2, <1>0 DEF BilledOnce, WithinRounding, Roundings, inputs, loop
  <2> QED
    BY <2>2, <2>3, <2>4 DEF TariffInv
<1>2. CASE NextSlab
  <2> DEFINE slab == tariff.slabs[i]
  <2>1. /\ pc = "slabs" /\ i <= Len(tariff.slabs)
        /\ Adds(Span(slab), slab.rate) /\ remaining' = remaining - Span(slab)
        /\ prev' = slab.upTo /\ i' = i + 1 /\ UNCHANGED <<inputs, pc, tariff, bill>>
    BY <1>2 DEF NextSlab, More
  <2>2. /\ slab \in Slab /\ slab.rate \in Nat /\ slab.upTo \in Nat
    <3>1. slab \in Slab
      BY <1>0, <2>1, SlabAt DEF TypeOK
    <3> QED
      BY <3>1 DEF Slab
  <2>3. Span(slab) \in Nat /\ Span(slab) <= remaining
    BY <1>0, <2>2, SpanFits DEF TypeOK
  <2> HIDE DEF slab
  <2>4. /\ total \in Nat /\ billed \in Nat /\ exact \in Nat /\ i - 1 \in Nat
        /\ 2 * (Kwh * total - exact) <= Kwh * (i - 1)
        /\ 2 * (exact - Kwh * total) <= Kwh * (i - 1)
    BY <1>0, <2>1 DEF TypeOK, WithinRounding, Roundings
  <2>5. /\ total' \in Nat /\ billed' = billed + Span(slab) /\ exact' \in Nat
        /\ 2 * (Kwh * total' - exact') <= Kwh * ((i - 1) + 1)
        /\ 2 * (exact' - Kwh * total') <= Kwh * ((i - 1) + 1)
    BY <2>1, <2>2, <2>3, <2>4, AddsWithinRounding
  <2>6. TypeOK'
    <3>1. remaining' \in Nat
      <4>1. remaining \in Nat /\ remaining' = remaining - Span(slab)
        BY <1>0, <2>1 DEF TypeOK
      <4> QED
        BY <2>3, <4>1
    <3>2. i' \in Nat \ {0} /\ prev' \in Nat /\ UNCHANGED <<inputs, pc, tariff, bill>>
      BY <1>0, <2>1, <2>2 DEF TypeOK
    <3>3. billed' \in Nat
      BY <2>3, <2>4, <2>5
    <3> QED
      BY <1>0, <2>5, <3>1, <3>2, <3>3 DEF TypeOK, inputs
  <2>7. BilledOnce'
    <3>1. billed + remaining = energy /\ energy' = energy /\ pc' = "slabs" /\ remaining \in Nat
      BY <1>0, <2>1 DEF BilledOnce, TypeOK, inputs
    <3> DEFINE span == Span(slab)
    <3>4. /\ span \in Nat /\ span <= remaining /\ billed \in Nat
          /\ billed' = billed + span /\ remaining' = remaining - span
      BY <2>1, <2>3, <2>4, <2>5
    <3> HIDE DEF span
    <3>2. billed' + remaining' = energy' /\ billed' \in Nat /\ remaining' \in Nat
      BY <3>1, <3>4
    <3>3. billed' \in 0..energy'
      BY <3>2
    <3> QED
      BY <3>1, <3>2, <3>3 DEF BilledOnce
  <2>8. WithinRounding'
    <3>1. Roundings' = (i - 1) + 1
      BY <1>0, <2>1 DEF Roundings, TypeOK
    <3> QED
      BY <2>5, <3>1 DEF WithinRounding
  <2> QED
    BY <2>1, <2>6, <2>7, <2>8 DEF TariffInv
<1>3. CASE Rest
  <2>1. /\ pc = "slabs" /\ pc' = "bill" /\ Adds(remaining, tariff.kwh)
        /\ UNCHANGED <<inputs, tariff, i, remaining, prev, bill>>
    BY <1>3 DEF Rest
  <2>2. /\ total \in Nat /\ billed \in Nat /\ exact \in Nat /\ i - 1 \in Nat
        /\ remaining \in Nat /\ tariff.kwh \in Nat
        /\ 2 * (Kwh * total - exact) <= Kwh * (i - 1)
        /\ 2 * (exact - Kwh * total) <= Kwh * (i - 1)
    BY <1>0, <2>1 DEF TypeOK, WithinRounding, Roundings, Tariff
  <2>3. /\ total' \in Nat /\ billed' = billed + remaining /\ exact' \in Nat
        /\ 2 * (Kwh * total' - exact') <= Kwh * ((i - 1) + 1)
        /\ 2 * (exact' - Kwh * total') <= Kwh * ((i - 1) + 1)
    BY <2>1, <2>2, AddsWithinRounding
  <2>4. TypeOK'
    BY <1>0, <2>1, <2>2, <2>3 DEF TypeOK, inputs
  <2>5. BilledOnce'
    BY <1>0, <2>1, <2>3 DEF BilledOnce, TypeOK, inputs
  <2>6. WithinRounding'
    <3>1. Roundings' = (i - 1) + 1
      BY <1>0, <2>1 DEF Roundings, TypeOK
    <3> QED
      BY <2>3, <3>1 DEF WithinRounding
  <2> QED
    BY <2>1, <2>4, <2>5, <2>6 DEF TariffInv
<1>4. CASE Charge
  <2>1. pc = "bill" /\ pc' = "done" /\ UNCHANGED <<inputs, tariff, loop>>
    BY <1>4 DEF Charge
  <2> DEFINE timePaise == Round(Timed * tariff.min, Minute)
  <2> DEFINE gstPaise == Round((total + timePaise) * tariff.gst, Whole)
  <2>2. bill' = [energyPaise |-> total, timePaise |-> timePaise, gstPaise |-> gstPaise,
                 totalPaise |-> total + timePaise + gstPaise]
    BY <1>4 DEF Charge
  <2>3. total \in Nat /\ Timed \in Nat /\ tariff.min \in Nat /\ tariff.gst \in Nat
    BY <1>0 DEF TypeOK, Timed, Most, Minute, Tariff
  <2>4. timePaise \in Nat
    <3>1. Timed * tariff.min \in Nat
      BY <2>3, ProductNat
    <3> QED
      BY <3>1, RoundPaise
  <2>5. gstPaise \in Nat
    <3>1. total + timePaise \in Nat
      BY <2>3, <2>4
    <3>2. (total + timePaise) * tariff.gst \in Nat
      BY <3>1, <2>3, ProductNat
    <3> QED
      BY <3>2, RoundPaise
  <2> HIDE DEF timePaise, gstPaise
  <2>6. bill' \in Bill
    BY <2>2, <2>3, <2>4, <2>5 DEF Bill
  <2>7. TypeOK'
    BY <1>0, <2>1, <2>6 DEF TypeOK, inputs, loop
  <2>8. BilledOnce' /\ WithinRounding'
    BY <1>0, <2>1 DEF BilledOnce, WithinRounding, Roundings, inputs, loop
  <2> QED
    BY <2>1, <2>7, <2>8 DEF TariffInv
<1>5. CASE UNCHANGED vars
  BY <1>5 DEF vars, inputs, loop, TariffInv, TypeOK, BilledOnce, WithinRounding, Roundings
<1> QED
  BY <1>1, <1>2, <1>3, <1>4, <1>5 DEF Next

THEOREM TariffSafe == Spec => []TariffInv
BY InitTariff, NextTariff, PTL DEF Spec

(***************************************************************************)
(* All amounts of a bill are whole paise and none is negative, whatever    *)
(* the slabs are.                                                          *)
(***************************************************************************)
THEOREM TariffTypes == Spec => []TypeOK
<1>1. TariffInv => TypeOK
  BY DEF TariffInv
<1> QED
  BY <1>1, TariffSafe, PTL

(***************************************************************************)
(* No unit of energy is billed twice or forgotten, in any order of slabs.  *)
(***************************************************************************)
THEOREM EnergyIsBilledOnce == Spec => []BilledOnce
<1>1. TariffInv => BilledOnce
  BY DEF TariffInv
<1> QED
  BY <1>1, TariffSafe, PTL

(***************************************************************************)
(* The price of the energy is as near to the exact one as its slabs allow. *)
(***************************************************************************)
THEOREM EnergyPriceIsNear == Spec => []WithinRounding
<1>1. TariffInv => WithinRounding
  BY DEF TariffInv
<1> QED
  BY <1>1, TariffSafe, PTL
-----------------------------------------------------------------------------
(* The reference price, a sum over the bounds.  An induction over the       *)
(* number of slabs is a search for the smallest number that violates the   *)
(* claim: the library's induction theorems take an operator.               *)
LEMMA LeastOf ==
  ASSUME NEW S \in SUBSET Nat, S # {}
  PROVE  \E n \in S : \A m \in S : n <= m
<1> DEFINE R == OpToRel(<, Nat)
<1>0. IsWellFoundedOn(R, Nat)
  BY NatLessThanWellFounded
<1>1. \A m, n \in Nat : m < n => <<m, n>> \in R
  BY DEF OpToRel
<1> HIDE DEF R
<1>2. PICK n \in S : \A m \in S : ~(<<m, n>> \in R)
  BY <1>0, WFMin
<1>3. ASSUME NEW m \in S
      PROVE  n <= m
  <2>1. m \in Nat /\ n \in Nat
    OBVIOUS
  <2>2. ~(m < n)
    BY <1>1, <1>2, <2>1
  <2> QED BY <2>1, <2>2
<1> QED BY <1>3

(* The sums over the first n bounds.                                       *)
UpTo(t, e, n, sum) ==
  sum = [k \in 0..n |-> IF k = 0 THEN 0 ELSE sum[k - 1] + AtBound(t, e, k)]

LEMMA UpToExists ==
  ASSUME NEW t, NEW e, NEW n \in Nat
  PROVE  \E sum : UpTo(t, e, n, sum)
<1> DEFINE X == {m \in Nat : ~\E sum : UpTo(t, e, m, sum)}
<1> SUFFICES ASSUME X # {} PROVE FALSE
  OBVIOUS
<1>1. PICK m \in X : \A j \in X : m <= j
  <2> X \in SUBSET Nat
    OBVIOUS
  <2> HIDE DEF X
  <2> QED BY LeastOf
<1>2. CASE m = 0
  <2> DEFINE s == [k \in 0..0 |-> 0]
  <2>1. s = [k \in 0..0 |-> IF k = 0 THEN 0 ELSE s[k - 1] + AtBound(t, e, k)]
    OBVIOUS
  <2> QED BY <1>2, <2>1 DEF UpTo
<1>3. CASE m # 0
  <2>1. m - 1 \in Nat /\ m - 1 \notin X
    BY <1>1, <1>3
  <2> PICK s : UpTo(t, e, m - 1, s)
    BY <2>1
  <2>2. \A k \in 0..m - 1 : s[k] = IF k = 0 THEN 0 ELSE s[k - 1] + AtBound(t, e, k)
    <3> DEFINE b(k) == IF k = 0 THEN 0 ELSE s[k - 1] + AtBound(t, e, k)
    <3>1. s = [k \in 0..m - 1 |-> b(k)]
      BY DEF UpTo
    <3> HIDE DEF b
    <3>2. \A k \in 0..m - 1 : s[k] = b(k)
      BY <3>1
    <3> QED BY <3>2 DEF b
  <2> DEFINE r == [k \in 0..m |-> IF k = m THEN s[m - 1] + AtBound(t, e, m) ELSE s[k]]
  <2>3. \A k \in 0..m : r[k] = IF k = 0 THEN 0 ELSE r[k - 1] + AtBound(t, e, k)
    <3> SUFFICES ASSUME NEW k \in 0..m
                 PROVE  r[k] = IF k = 0 THEN 0 ELSE r[k - 1] + AtBound(t, e, k)
      OBVIOUS
    <3>1. CASE k = m
      <4>1. r[k - 1] = s[m - 1]
        BY <1>3, <3>1
      <4> QED BY <1>3, <3>1, <4>1
    <3>2. CASE k # m
      <4>1. k \in 0..m - 1 /\ r[k] = s[k]
        BY <3>2
      <4>2. k # 0 => r[k - 1] = s[k - 1]
        BY <3>2
      <4> QED BY <2>2, <4>1, <4>2
    <3> QED BY <3>1, <3>2
  <2>4. r = [k \in 0..m |-> r[k]]
    OBVIOUS
  <2> HIDE DEF r
  <2>5. r = [k \in 0..m |-> IF k = 0 THEN 0 ELSE r[k - 1] + AtBound(t, e, k)]
    BY <2>3, <2>4
  <2>6. UpTo(t, e, m, r)
    BY <2>5 DEF UpTo
  <2> QED BY <2>6
<1> QED BY <1>2, <1>3

LEMMA UpToBoundSums ==
  ASSUME NEW t \in Tariff, NEW e
  PROVE  \A k \in 0..Len(t.slabs) :
           UpToBound(t, e)[k] = IF k = 0 THEN 0 ELSE UpToBound(t, e)[k - 1] + AtBound(t, e, k)
<1> DEFINE n == Len(t.slabs)
           s == UpToBound(t, e)
           b(k) == IF k = 0 THEN 0 ELSE s[k - 1] + AtBound(t, e, k)
<1>1. n \in Nat
  BY DEF Tariff
<1>2. s = CHOOSE sum : UpTo(t, e, n, sum)
  BY DEF UpToBound, UpTo
<1>3. UpTo(t, e, n, s)
  <2> HIDE DEF s
  <2> QED BY <1>1, <1>2, UpToExists
<1>4. s = [k \in 0..n |-> b(k)]
  BY <1>3 DEF UpTo
<1> HIDE DEF s, b, n
<1>5. \A k \in 0..n : s[k] = b(k)
  BY <1>4
<1> QED BY <1>5 DEF s, b, n

(* Every part of the price is a whole number.                              *)
LEMMA RateIsNat ==
  ASSUME NEW t \in Tariff, NEW k \in Nat \ {0}
  PROVE  RateFrom(t, k) \in Nat
<1>1. CASE k > Len(t.slabs)
  BY <1>1 DEF RateFrom, Tariff
<1>2. CASE ~(k > Len(t.slabs))
  <2>1. t.slabs[k] \in Slab
    BY <1>2 DEF Tariff
  <2> QED BY <1>2, <2>1 DEF RateFrom, Slab
<1> QED BY <1>1, <1>2

(* The bound below which the first k slabs lie.                            *)
Bound(t, k) == IF k = 0 THEN 0 ELSE t.slabs[k].upTo

LEMMA BoundIsNat ==
  ASSUME NEW t \in Tariff, NEW k \in 0..Len(t.slabs)
  PROVE  Bound(t, k) \in Nat
<1>1. CASE k # 0
  <2>1. t.slabs[k] \in Slab
    BY <1>1 DEF Tariff
  <2> QED BY <1>1, <2>1 DEF Bound, Slab
<1> QED BY <1>1 DEF Bound

(* One bound more.                                                         *)
LEMMA NextBound ==
  ASSUME NEW t \in Tariff, NEW e \in Nat, NEW k \in 1..Len(t.slabs)
  PROVE  UpToBound(t, e)[k] =
           UpToBound(t, e)[k - 1] + (RateFrom(t, k) - RateFrom(t, k + 1)) * Least(e, Bound(t, k))
<1>1. k \in 0..Len(t.slabs) /\ k # 0
  BY DEF Tariff
<1> QED BY <1>1, UpToBoundSums DEF AtBound, Bound

LEMMA ProductInt == \A a, b \in Int : a * b \in Int
OBVIOUS

LEMMA LeastIsNat == \A a, b \in Nat : Least(a, b) \in Nat
BY DEF Least

LEMMA UpToBoundIsInt ==
  ASSUME NEW t \in Tariff, NEW e \in Nat
  PROVE  \A k \in 0..Len(t.slabs) : UpToBound(t, e)[k] \in Int
<1> DEFINE X == {k \in 0..Len(t.slabs) : UpToBound(t, e)[k] \notin Int}
<1> SUFFICES ASSUME X # {} PROVE FALSE
  OBVIOUS
<1>0. Len(t.slabs) \in Nat
  BY DEF Tariff
<1>1. PICK k \in X : \A j \in X : k <= j
  <2> X \in SUBSET Nat
    BY <1>0
  <2> HIDE DEF X
  <2> QED BY LeastOf
<1>2. k # 0
  <2>1. 0 \in 0..Len(t.slabs)
    BY <1>0
  <2> QED BY <2>1, UpToBoundSums
<1>3. k \in 1..Len(t.slabs) /\ k - 1 \in 0..Len(t.slabs) /\ k - 1 \notin X
  BY <1>0, <1>1, <1>2
<1> DEFINE d == RateFrom(t, k) - RateFrom(t, k + 1)
           m == Least(e, Bound(t, k))
<1>4. d \in Int /\ m \in Int
  <2>1. k \in Nat \ {0} /\ k + 1 \in Nat \ {0} /\ k \in 0..Len(t.slabs)
    BY <1>0, <1>3
  <2>2. RateFrom(t, k) \in Nat /\ RateFrom(t, k + 1) \in Nat /\ Bound(t, k) \in Nat
    BY <2>1, RateIsNat, BoundIsNat
  <2>3. m \in Nat
    BY <2>2, LeastIsNat
  <2>4. d \in Int
    BY <2>2
  <2> QED BY <2>3, <2>4
<1>5. UpToBound(t, e)[k] = UpToBound(t, e)[k - 1] + d * m
  BY <1>3, NextBound
<1> HIDE DEF d, m
<1>6. d * m \in Int
  BY <1>4, ProductInt
<1> QED BY <1>3, <1>5, <1>6

(* The price of the energy below the first k bounds.                       *)
PriceBelow(t, e, k) == UpToBound(t, e)[k] + RateFrom(t, k + 1) * Least(e, Bound(t, k))

LEMMA Distribute ==
  ASSUME NEW r \in Int, NEW q \in Int, NEW m \in Int, NEW p \in Int
  PROVE  (r - q) * m + q * m = r * m /\ r * p + r * (m - p) = r * m
OBVIOUS

(* One slab more.                                                          *)
LEMMA PriceGrows ==
  ASSUME NEW t \in Tariff, NEW e \in Nat, NEW k \in 1..Len(t.slabs)
  PROVE  PriceBelow(t, e, k) =
           PriceBelow(t, e, k - 1)
             + RateFrom(t, k) * (Least(e, Bound(t, k)) - Least(e, Bound(t, k - 1)))
<1> DEFINE r == RateFrom(t, k)
           q == RateFrom(t, k + 1)
           m == Least(e, Bound(t, k))
           p == Least(e, Bound(t, k - 1))
           u == UpToBound(t, e)[k - 1]
<1>1. k \in 0..Len(t.slabs) /\ k - 1 \in 0..Len(t.slabs) /\ (k - 1) + 1 = k /\ k \in Nat \ {0}
  BY DEF Tariff
<1>2. r \in Int /\ q \in Int /\ m \in Int /\ p \in Int /\ u \in Int
  <2>1. k + 1 \in Nat \ {0}
    BY <1>1
  <2>2. RateFrom(t, k) \in Nat /\ RateFrom(t, k + 1) \in Nat
    BY <1>1, <2>1, RateIsNat
  <2>3. Bound(t, k) \in Nat /\ Bound(t, k - 1) \in Nat
    BY <1>1, BoundIsNat
  <2>4. m \in Nat /\ p \in Nat
    BY <2>3, LeastIsNat
  <2>5. u \in Int
    BY <1>1, UpToBoundIsInt
  <2>6. r \in Int /\ q \in Int
    BY <2>2
  <2> QED BY <2>4, <2>5, <2>6
<1>3. UpToBound(t, e)[k] = u + (r - q) * m
  BY NextBound
<1>4. PriceBelow(t, e, k) = (u + (r - q) * m) + q * m /\ PriceBelow(t, e, k - 1) = u + r * p
  BY <1>1, <1>3 DEF PriceBelow
<1> HIDE DEF r, q, m, p, u
<1>5. (r - q) * m \in Int /\ q * m \in Int /\ r * m \in Int /\ r * p \in Int /\ r * (m - p) \in Int
  BY <1>2, ProductInt
<1>6. (r - q) * m + q * m = r * m /\ r * p + r * (m - p) = r * m
  BY <1>2, Distribute
<1>7. PriceBelow(t, e, k) = PriceBelow(t, e, k - 1) + r * (m - p)
  BY <1>2, <1>4, <1>5, <1>6
<1> QED BY <1>7 DEF r, m, p

LEMMA BoundsAscend ==
  ASSUME NEW t \in Tariff, Ascending(t), NEW k \in 1..Len(t.slabs)
  PROVE  Bound(t, k - 1) <= Bound(t, k)
<1>1. Bound(t, k) \in Nat
  BY BoundIsNat DEF Tariff
<1>2. CASE k = 1
  BY <1>1, <1>2 DEF Bound
<1>3. CASE k # 1
  <2>1. k \in 2..Len(t.slabs) /\ k # 0 /\ k - 1 # 0
    BY <1>3 DEF Tariff
  <2> QED BY <2>1 DEF Ascending, Bound
<1> QED BY <1>2, <1>3

(* Bounds above the energy do not change its price.                        *)
LEMMA PriceStays ==
  ASSUME NEW t \in Tariff, Ascending(t), NEW e \in Nat, NEW k \in 0..Len(t.slabs), e <= Bound(t, k)
  PROVE  \A n \in k..Len(t.slabs) : e <= Bound(t, n) /\ PriceBelow(t, e, n) = PriceBelow(t, e, k)
<1> DEFINE Good(n) == e <= Bound(t, n) /\ PriceBelow(t, e, n) = PriceBelow(t, e, k)
           X == {n \in k..Len(t.slabs) : ~Good(n)}
<1> SUFFICES ASSUME X # {} PROVE FALSE
  OBVIOUS
<1>0. Len(t.slabs) \in Nat
  BY DEF Tariff
<1>1. PICK n \in X : \A j \in X : n <= j
  <2> X \in SUBSET Nat
    BY <1>0
  <2> HIDE DEF X
  <2> QED BY LeastOf
<1>2. n # k
  OBVIOUS
<1>3. /\ n \in 1..Len(t.slabs) /\ n \in 0..Len(t.slabs)
      /\ n - 1 \in k..Len(t.slabs) /\ n - 1 \in 0..Len(t.slabs)
  BY <1>0, <1>1, <1>2
<1>4. Good(n - 1)
  <2>1. n - 1 \notin X
    BY <1>0, <1>1, <1>3
  <2> HIDE DEF Good
  <2> QED BY <1>3, <2>1
<1>5. Bound(t, n - 1) <= Bound(t, n) /\ Bound(t, n - 1) \in Nat /\ Bound(t, n) \in Nat
  BY <1>3, BoundsAscend, BoundIsNat
<1>6. e <= Bound(t, n)
  BY <1>4, <1>5
<1>7. Least(e, Bound(t, n)) = e /\ Least(e, Bound(t, n - 1)) = e
  BY <1>4, <1>5, <1>6 DEF Least
<1>8. PriceBelow(t, e, n) = PriceBelow(t, e, n - 1) + RateFrom(t, n) * (e - e)
  BY <1>3, <1>7, PriceGrows
<1>9. RateFrom(t, n) * (e - e) = 0
  <2>1. RateFrom(t, n) \in Nat
    BY <1>3, RateIsNat
  <2>2. e - e = 0
    OBVIOUS
  <2> QED BY <2>1, <2>2
<1>10. PriceBelow(t, e, n - 1) \in Int
  <2> DEFINE r == RateFrom(t, n)
             u == UpToBound(t, e)[n - 1]
  <2>1. r \in Int /\ u \in Int /\ (n - 1) + 1 = n
    BY <1>3, RateIsNat, UpToBoundIsInt
  <2>2. PriceBelow(t, e, n - 1) = u + r * e
    BY <1>7, <2>1 DEF PriceBelow
  <2> HIDE DEF r, u
  <2>3. r * e \in Int
    BY <2>1, ProductInt
  <2> QED BY <2>1, <2>2, <2>3
<1>11. PriceBelow(t, e, n) = PriceBelow(t, e, n - 1)
  BY <1>8, <1>9, <1>10
<1>12. Good(n)
  BY <1>4, <1>6, <1>11
<1> QED BY <1>12

-----------------------------------------------------------------------------
(* Where the loop stands: it has priced the energy below the last bound.   *)
AtSlab ==
  pc = "slabs" /\ Ascending(tariff) =>
    /\ i - 1 <= Len(tariff.slabs)
    /\ prev = Bound(tariff, i - 1)
    /\ remaining = energy - Least(energy, prev)
    /\ exact = PriceBelow(tariff, energy, i - 1)

Fresh == pc = "load" => i = 1 /\ prev = 0 /\ remaining = energy /\ exact = 0

LoopInv == Fresh /\ AtSlab /\ PricesAreProgressive

(* What is behind the last bound has the flat rate.                        *)
LEMMA PriceOfRest ==
  ASSUME NEW t \in Tariff, NEW e \in Nat
  PROVE  LET n == Len(t.slabs) IN
         PriceBelow(t, e, n) + (e - Least(e, Bound(t, n))) * t.kwh
           = e * t.kwh + UpToBound(t, e)[n]
<1> DEFINE n == Len(t.slabs)
           q == t.kwh
           u == UpToBound(t, e)[n]
           m == Least(e, Bound(t, n))
<1>1. n \in Nat /\ n \in 0..n /\ q \in Nat
  BY DEF Tariff
<1>2. RateFrom(t, n + 1) = q
  BY <1>1 DEF RateFrom
<1>3. u \in Int
  BY <1>1, UpToBoundIsInt
<1>4. m \in Nat
  <2>1. Bound(t, n) \in Nat
    BY <1>1, BoundIsNat
  <2> QED BY <2>1, LeastIsNat
<1>5. PriceBelow(t, e, n) = u + q * m
  BY <1>2 DEF PriceBelow
<1> HIDE DEF n, q, u, m
<1>6. q * m \in Int /\ (e - m) * q \in Int /\ e * q \in Int
  BY <1>1, <1>4, ProductInt
<1>7. q * m + (e - m) * q = e * q
  <2>1. (e - m) * q + m * q = e * q
    BY <1>1, <1>4, Distribute
  <2>2. m * q = q * m
    BY <1>1, <1>4
  <2> QED BY <1>6, <2>1, <2>2
<1>8. PriceBelow(t, e, n) + (e - m) * q = e * q + u
  BY <1>3, <1>5, <1>6, <1>7
<1> QED BY <1>8 DEF n, q, u, m

(* A slab takes the energy between its bounds.                             *)
LEMMA SpanIsBetween ==
  ASSUME NEW e \in Nat, NEW slab \in Slab, prev \in Nat, prev <= slab.upTo,
         remaining = e - Least(e, prev)
  PROVE  Span(slab) = Least(e, slab.upTo) - Least(e, prev)
<1>1. slab.upTo \in Nat
  BY DEF Slab
<1> QED BY <1>1 DEF Span, Most, Least

LEMMA LoopInit == Init => LoopInv
BY DEF Init, LoopInv, Fresh, AtSlab, PricesAreProgressive

LEMMA LoopLoad ==
  ASSUME TypeOK, TypeOK', LoopInv, Load
  PROVE  LoopInv'
<1>1. /\ pc = "load" /\ pc' = "slabs" /\ i' = 1 /\ prev' = 0 /\ remaining' = energy /\ exact' = 0
      /\ energy' = energy
  BY DEF Load, LoopInv, Fresh, loop, inputs
<1>2. tariff' \in Tariff /\ energy \in Nat /\ Len(tariff'.slabs) \in Nat
  <2>1. tariff' \in Tariff /\ energy \in Nat
    BY DEF TypeOK
  <2> QED BY <2>1 DEF Tariff
<1>3. Bound(tariff', 0) = 0 /\ Least(energy, 0) = 0
  BY <1>2 DEF Bound, Least
<1>4. PriceBelow(tariff', energy, 0) = 0
  <2>1. UpToBound(tariff', energy)[0] = 0
    BY <1>2, UpToBoundSums
  <2>2. RateFrom(tariff', 0 + 1) \in Nat
    BY <1>2, RateIsNat
  <2> QED BY <1>3, <2>1, <2>2 DEF PriceBelow
<1>5. AtSlab'
  BY <1>1, <1>2, <1>3, <1>4 DEF AtSlab
<1> QED BY <1>1, <1>5 DEF LoopInv, Fresh, PricesAreProgressive

LEMMA LoopNextSlab ==
  ASSUME TypeOK, TypeOK', LoopInv, NextSlab
  PROVE  LoopInv'
<1> DEFINE slab == tariff.slabs[i]
<1>0. /\ tariff \in Tariff /\ energy \in Nat /\ prev \in Nat /\ i \in Nat \ {0} /\ exact \in Nat
      /\ Len(tariff.slabs) \in Nat /\ remaining \in Nat
  BY DEF TypeOK, Tariff
<1>1. /\ pc = "slabs" /\ i <= Len(tariff.slabs)
      /\ exact' = exact + Span(slab) * slab.rate /\ remaining' = remaining - Span(slab)
      /\ prev' = slab.upTo /\ i' = i + 1 /\ UNCHANGED <<energy, pc, tariff>>
  BY DEF NextSlab, More, Adds, inputs
<1>2. /\ i \in 1..Len(tariff.slabs) /\ i \in 0..Len(tariff.slabs) /\ i # 0
      /\ i - 1 \in 0..Len(tariff.slabs)
  BY <1>0, <1>1
<1>3. slab \in Slab /\ slab.upTo = Bound(tariff, i) /\ slab.rate = RateFrom(tariff, i)
      /\ slab.upTo \in Nat /\ slab.rate \in Nat
  <2>1. slab \in Slab
    BY <1>0, <1>2, SlabAt
  <2>2. slab.upTo \in Nat /\ slab.rate \in Nat
    BY <2>1 DEF Slab
  <2> QED BY <1>0, <1>1, <1>2, <2>1, <2>2 DEF Bound, RateFrom
<1>4. ASSUME Ascending(tariff)
      PROVE  AtSlab'
  <2> DEFINE b == Least(energy, slab.upTo)
             a == Least(energy, prev)
             r == slab.rate
             p == PriceBelow(tariff, energy, i - 1)
  <2>1. prev = Bound(tariff, i - 1) /\ remaining = energy - a /\ exact = p
    BY <1>1, <1>4 DEF LoopInv, AtSlab
  <2>2. prev <= slab.upTo
    BY <1>0, <1>2, <1>3, <1>4, <2>1, BoundsAscend
  <2>3. Span(slab) = b - a
    BY <1>0, <1>3, <2>1, <2>2, SpanIsBetween
  <2>4. a \in Nat /\ b \in Nat /\ r \in Nat
    BY <1>0, <1>3, LeastIsNat
  <2>5. PriceBelow(tariff, energy, i) = p + r * (b - a)
    BY <1>0, <1>2, <1>3, <2>1, PriceGrows
  <2>6. exact' = exact + (b - a) * r /\ remaining' = remaining - (b - a)
    BY <1>1, <2>3
  <2> HIDE DEF a, b, r, p
  <2>7. r * (b - a) = (b - a) * r
    BY <2>4
  <2>8. exact' = PriceBelow(tariff, energy, i)
    BY <2>1, <2>5, <2>6, <2>7
  <2>9. remaining' = energy - b
    BY <1>0, <2>1, <2>4, <2>6
  <2> QED BY <1>0, <1>1, <1>2, <1>3, <2>8, <2>9 DEF AtSlab, b
<1>5. AtSlab'
  BY <1>1, <1>4 DEF AtSlab
<1> QED BY <1>1, <1>5 DEF LoopInv, Fresh, PricesAreProgressive

LEMMA LoopRest ==
  ASSUME TypeOK, TypeOK', LoopInv, Rest
  PROVE  LoopInv'
<1> DEFINE n == Len(tariff.slabs)
           q == tariff.kwh
           u == UpToBound(tariff, energy)[n]
<1>0. /\ tariff \in Tariff /\ energy \in Nat /\ prev \in Nat /\ i \in Nat \ {0} /\ exact \in Nat
      /\ n \in Nat /\ remaining \in Nat /\ q \in Nat
  BY DEF TypeOK, Tariff
<1>1. /\ pc = "slabs" /\ pc' = "bill" /\ exact' = exact + remaining * q
      /\ UNCHANGED <<energy, tariff, i, remaining, prev>>
      /\ i <= n => i # 1 /\ ~(remaining > 0)
  BY DEF Rest, More, Adds, inputs
<1>2. ASSUME Ascending(tariff)
      PROVE  exact' = energy * q + u
  <2>1. /\ i - 1 \in 0..n /\ prev = Bound(tariff, i - 1)
        /\ remaining = energy - Least(energy, prev) /\ exact = PriceBelow(tariff, energy, i - 1)
    BY <1>0, <1>1, <1>2 DEF LoopInv, AtSlab
  <2>2. PriceBelow(tariff, energy, n) + (energy - Least(energy, Bound(tariff, n))) * q = energy * q + u
    BY <1>0, PriceOfRest
  <2>3. CASE i - 1 = n
    BY <1>1, <2>1, <2>2, <2>3
  <2>4. CASE i - 1 # n
    <3>1. remaining = 0
      BY <1>0, <1>1, <2>1, <2>4
    <3>2. energy <= Bound(tariff, i - 1)
      BY <1>0, <2>1, <3>1 DEF Least
    <3>3. n \in i - 1..n
      BY <1>0, <2>1
    <3>4. energy <= Bound(tariff, n) /\ PriceBelow(tariff, energy, n) = PriceBelow(tariff, energy, i - 1)
      BY <1>0, <1>2, <2>1, <3>2, <3>3, PriceStays
    <3>5. Least(energy, Bound(tariff, n)) = energy
      <4>1. Bound(tariff, n) \in Nat
        BY <1>0, BoundIsNat
      <4> QED BY <1>0, <3>4, <4>1 DEF Least
    <3>6. (energy - energy) * q = 0 /\ remaining * q = 0
      <4>1. energy - energy = 0 /\ 0 * q = 0
        BY <1>0
      <4> QED BY <3>1, <4>1
    <3>7. exact + 0 = energy * q + u
      BY <2>1, <2>2, <3>4, <3>5, <3>6
    <3> QED BY <1>1, <3>6, <3>7
  <2> QED BY <2>3, <2>4
<1> QED BY <1>1, <1>2 DEF LoopInv, Fresh, AtSlab, PricesAreProgressive

LEMMA LoopStep == TypeOK /\ TypeOK' /\ LoopInv /\ [Next]_vars => LoopInv'
<1> SUFFICES ASSUME TypeOK, TypeOK', LoopInv, [Next]_vars PROVE LoopInv'
  OBVIOUS
<1>1. CASE UNCHANGED vars \/ Charge
  <2>1. /\ UNCHANGED <<energy, tariff, i, remaining, prev, exact>>
        /\ UNCHANGED pc \/ (pc = "bill" /\ pc' = "done")
    BY <1>1 DEF vars, inputs, loop, Charge
  <2> QED BY <2>1 DEF LoopInv, Fresh, AtSlab, PricesAreProgressive
<1> QED BY <1>1, LoopLoad, LoopNextSlab, LoopRest DEF Next

(***************************************************************************)
(* Slabs in order are progressive brackets, for every tariff and energy.   *)
(***************************************************************************)
THEOREM SlabsAreBrackets == Spec => []PricesAreProgressive
<1>1. LoopInv => PricesAreProgressive
  BY DEF LoopInv
<1> QED BY <1>1, LoopInit, LoopStep, TariffTypes, PTL DEF Spec
=============================================================================
