---------------------------- MODULE TariffEngine ----------------------------
(***************************************************************************)
(* The price of a session: settleAndInvoice of the billing service chooses *)
(* a tariff, and tariff.engine.ts computes the energy over progressive     *)
(* slabs, the time and the GST in whole paise, each rounded by itself.     *)
(*                                                                         *)
(* Quantities that the code keeps as floats are integers here, in the      *)
(* unit of their column: the errors of binary fractions are left out.      *)
(***************************************************************************)
EXTENDS Integers, Sequences

CONSTANTS
  Tariffs,      \* rows of tariffs: [kwh, min, slabs, gst]
  NoTariff,
  Energies,     \* values of energy_kwh
  Durations     \* times from startedAt to stoppedAt

Kwh == 10000    \* energy_kwh has four decimals
Minute == 60000 \* of milliseconds
Whole == 10000  \* gst_pct has two decimals

Slab == [upTo : Nat, rate : Nat]

Tariff == [kwh : Nat, min : Nat, slabs : Seq(Slab), gst : Nat]

ASSUME TariffAssumption ==
  /\ Tariffs \subseteq Tariff /\ NoTariff \notin Tariff
  /\ Energies \subseteq Nat /\ Durations \subseteq Nat

VARIABLES
  ofCharger, ofOrg,   \* the tariff of the charger, the oldest active one of the organisation
  energy, duration,   \* of the session; no duration without both of its ends
  pc, tariff,
  i, remaining, prev, total,   \* the loop over the slabs
  billed, exact,      \* history: the energy in total, and its price before rounding
  bill

inputs == <<ofCharger, ofOrg, energy, duration>>
loop == <<i, remaining, prev, total, billed, exact>>
vars == <<inputs, pc, tariff, loop, bill>>

Bill == [energyPaise : Nat, timePaise : Nat, gstPaise : Nat, totalPaise : Nat]
NoBill == [energyPaise |-> 0, timePaise |-> 0, gstPaise |-> 0, totalPaise |-> 0]

TypeOK ==
  /\ ofCharger \in Tariffs \cup {NoTariff} /\ ofOrg \in Tariffs \cup {NoTariff}
  /\ energy \in Nat /\ duration \in Nat
  /\ pc \in {"load", "slabs", "bill", "done"}
  /\ tariff \in Tariff
  /\ i \in Nat \ {0} /\ remaining \in Nat /\ prev \in Nat /\ total \in Nat
  /\ billed \in Nat /\ exact \in Nat
  /\ bill \in Bill

(* No tariff of anybody: 12 rupees a unit, half a rupee a minute, 18 % GST. *)
Fallback == [kwh |-> 1200, min |-> 50, slabs |-> <<>>, gst |-> 1800]

Init ==
  /\ ofCharger \in Tariffs \cup {NoTariff} /\ ofOrg \in Tariffs \cup {NoTariff}
  /\ energy \in Energies /\ duration \in Durations \cup {0}
  /\ pc = "load" /\ tariff = Fallback
  /\ i = 1 /\ remaining = energy /\ prev = 0 /\ total = 0
  /\ billed = 0 /\ exact = 0
  /\ bill = NoBill
-----------------------------------------------------------------------------
(* Math.round of x / d: a half is rounded up.                                *)
Floor(x, d) == x \div d

Round(x, d) == (2 * x + d) \div (2 * d)

Load ==
  /\ pc = "load"
  /\ tariff' = IF ofCharger # NoTariff THEN ofCharger
               ELSE IF ofOrg # NoTariff THEN ofOrg ELSE Fallback
  /\ pc' = "slabs"
  /\ UNCHANGED <<inputs, loop, bill>>

Least(a, b) == IF a < b THEN a ELSE b
Most(a, b) == IF a > b THEN a ELSE b

SpanToTop(slab) == Least(remaining, slab.upTo)

SpanOfWhole(slab) == Most(0, slab.upTo - prev)

SpanBelow(slab) == Least(remaining, slab.upTo - prev)

Span(slab) == Most(0, Least(remaining, slab.upTo - prev))

Adds(span, rate) ==
  /\ total' = total + Round(span * rate, Kwh)
  /\ billed' = billed + span
  /\ exact' = exact + span * rate

(* The break is behind the first slab. *)
More == i <= Len(tariff.slabs) /\ (i = 1 \/ remaining > 0)

NextSlab ==
  /\ pc = "slabs" /\ More
  /\ LET slab == tariff.slabs[i] IN
       /\ Adds(Span(slab), slab.rate)
       /\ remaining' = remaining - Span(slab)
       /\ prev' = slab.upTo
  /\ i' = i + 1
  /\ UNCHANGED <<inputs, pc, tariff, bill>>

(* Without slabs this is all there is. *)
Rest ==
  /\ pc = "slabs" /\ ~More
  /\ Adds(remaining, tariff.kwh)
  /\ pc' = "bill"
  /\ UNCHANGED <<inputs, tariff, i, remaining, prev, bill>>

(* At least a minute, if it is known. *)
Timed == IF duration = 0 THEN 0 ELSE Most(Minute, duration)

Charge ==
  /\ pc = "bill"
  /\ LET timePaise == Round(Timed * tariff.min, Minute)
         gstPaise == Round((total + timePaise) * tariff.gst, Whole) IN
       bill' = [energyPaise |-> total, timePaise |-> timePaise, gstPaise |-> gstPaise,
                totalPaise |-> total + timePaise + gstPaise]
  /\ pc' = "done"
  /\ UNCHANGED <<inputs, tariff, loop>>

Next == Load \/ NextSlab \/ Rest \/ Charge

Spec == Init /\ [][Next]_vars
-----------------------------------------------------------------------------
(***************************************************************************)
(* Every unit of energy is in the bill once, at whatever rate: also when   *)
(* the slabs of the JSON column are not in order, repeat a bound, or end   *)
(* below the energy, a slab never takes back or exceeds what remains.      *)
(***************************************************************************)
BilledOnce ==
  /\ billed \in 0..energy
  /\ pc \in {"load", "slabs"} => billed + remaining = energy
  /\ pc \in {"bill", "done"} => billed = energy

(***************************************************************************)
(* Rounding slab by slab moves the price of the energy by half a paisa a   *)
(* slab at most, and half a paisa for the rest.                            *)
(***************************************************************************)
Roundings == IF pc \in {"load", "slabs"} THEN i - 1 ELSE i

WithinRounding ==
  /\ 2 * (Kwh * total - exact) <= Kwh * Roundings
  /\ 2 * (exact - Kwh * total) <= Kwh * Roundings

(***************************************************************************)
(* With slabs in order, "progressive brackets" have the price that the sum *)
(* over their bounds gives: every unit at the flat rate, and at each bound *)
(* what the energy below it saves or costs.  The sum never looks at what   *)
(* remains or at the bound before.                                         *)
(***************************************************************************)
Ascending(t) == \A k \in 2..Len(t.slabs) : t.slabs[k - 1].upTo <= t.slabs[k].upTo

RateFrom(t, k) == IF k > Len(t.slabs) THEN t.kwh ELSE t.slabs[k].rate

AtBound(t, e, k) == (RateFrom(t, k) - RateFrom(t, k + 1)) * Least(e, t.slabs[k].upTo)

UpToBound(t, e) ==
  LET sum[k \in 0..Len(t.slabs)] == IF k = 0 THEN 0 ELSE sum[k - 1] + AtBound(t, e, k)
  IN  sum

PricesAreProgressive ==
  pc \in {"bill", "done"} /\ Ascending(tariff) =>
    exact = energy * tariff.kwh + UpToBound(tariff, energy)[Len(tariff.slabs)]
=============================================================================
