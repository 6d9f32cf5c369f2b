-------------------------------- MODULE Tariff --------------------------------
(***************************************************************************)
(* What a charge costs a member: the rate of an operator's tariff for the  *)
(* charger's output, and the energy and fee of a completed charge.         *)
(*                                                                         *)
(* Decimals are integers here: outputs in 1/10 kW, rates in 1/100 won per  *)
(* kWh, energy in 1/100 kWh.  0 stands for a NULL column and for no rate.  *)
(***************************************************************************)
EXTENDS Integers, Sequences

CONSTANTS
    Bands,      \* upper ends of _OUTPUT_RATE_BANDS, ascending
    MinKwh,     \* MIN_KWH
    MaxKwh      \* MAX_KWH, and the CHECK on usage_orders.kwh

ASSUME TariffAssumption ==
    /\ Bands \in Seq(Nat) /\ Bands # <<>>
    /\ \A i, j \in 1..Len(Bands) : i <= j => Bands[i] <= Bands[j]
    /\ MinKwh \in Nat \ {0} /\ MaxKwh \in Nat

Band == 1..Len(Bands)

\* A row of ev_operator_tariffs.
IsTariff(row) == row.band \in [Band -> Nat] /\ row.default \in Nat

Least(S) == CHOOSE i \in S : \A j \in S : i <= j

\* A slip: an output equal to a band's upper end falls into the next band.
FirstBandBelow(output) ==
    LET wide == {i \in Band : 0 < output /\ output < Bands[i]}
    IN  IF output <= 0 THEN 1 ELSE IF wide = {} THEN Len(Bands) ELSE Least(wide)

\* An unknown output is 0: every band is tried.  One beyond the bands belongs
\* to the last.
FirstBand(output) ==
    LET wide == {i \in Band : output <= Bands[i]}
    IN  IF output <= 0 THEN 1 ELSE IF wide = {} THEN Len(Bands) ELSE Least(wide)

\* pick_member_rate_won: from the charger's band upwards the first band that
\* has a rate, then default_rate.
PickMemberRate(output, row) ==
    LET rated == {i \in FirstBand(output)..Len(Bands) : row.band[i] > 0}
    IN  IF rated = {} THEN row.default ELSE row.band[Least(rated)]

Fee(kwh, rate) == (kwh * rate) \div 10000

\* A slip: the energy is rounded to the nearest hundredth.
AffordableNearest(hold, rate) == (hold * 10000 + rate \div 2) \div rate

Affordable(hold, rate) == (hold * 10000) \div rate

\* _amount_mode_kwh_and_fee: down from what the hold buys, the first energy
\* whose fee fits.  0 stands for its refusal.
AmountModeKwh(hold, rate) ==
    LET most == Affordable(hold, rate)
        Fits(n) == most - n >= MinKwh /\ Fee(most - n, rate) <= hold
        First(n) == Fits(n) /\ \A m \in 0..(n - 1) : ~Fits(m)
    IN  IF \E n \in 0..most : Fits(n) THEN most - CHOOSE n \in 0..most : First(n) ELSE 0
=============================================================================
