---------------------------- MODULE ChargersProofs ----------------------------
(***************************************************************************)
(* Prices are right for every tariff, output, hold and history of orders,  *)
(* and the collector keeps its quota.                                      *)
(***************************************************************************)
EXTENDS Chargers, WellFoundedInduction, TLAPS

\* The bands an output may be priced by.
Reach(output) == {i \in Band : output <= Bands[i] \/ i = Len(Bands)}

\* A rate is one that a row asks for an output.
Covers(rate, output, row) ==
    \/ rate = row.default /\ \A i \in Reach(output) : row.band[i] = 0
    \/ \E i \in Reach(output) : /\ row.band[i] = rate
                                /\ \A j \in Reach(output) : j < i => row.band[j] = 0

----------------------------------------------------------------------------
(* The operators of Tariff.                                                *)

\* Least returns the minimum of any set of numbers that is not empty.
LEMMA LeastIsMember ==
  ASSUME NEW S \in SUBSET Nat, S # {}
  PROVE  Least(S) \in S /\ \A i \in S : Least(S) <= i
<1> DEFINE R == {ss \in Nat \X Nat : ss[1] < ss[2]}
<1>1. PICK i \in S : \A j \in S : ~ (<<j, i>> \in R)
  <2> HIDE DEF R
  <2>1. IsWellFoundedOn(R, Nat)
    BY NatLessThanWellFounded, Zenon DEF R, OpToRel
  <2> QED
    BY <2>1, WFMin
<1>2. ASSUME NEW j \in S
      PROVE  i <= j
  <2>1. <<j, i>> \in Nat \X Nat /\ <<j, i>>[1] = j /\ <<j, i>>[2] = i
    OBVIOUS
  <2>2. ~ (j < i)
    BY <1>1, <2>1
  <2> QED
    BY <2>2
<1> QED
  BY <1>2 DEF Least

\* From its first band upwards are exactly the bands that reach an output.
LEMMA FirstBandReaches ==
  ASSUME NEW output \in Nat
  PROVE  FirstBand(output) \in Band /\ Reach(output) = FirstBand(output)..Len(Bands)
<1> DEFINE wide == {i \in Band : output <= Bands[i]}
<1>1. /\ Len(Bands) \in Nat \ {0} /\ Band = 1..Len(Bands)
      /\ \A i \in Band : Bands[i] \in Nat
      /\ \A i, j \in Band : i <= j => Bands[i] <= Bands[j]
  BY TariffAssumption DEF Band
<1>2. CASE output = 0
  BY <1>1, <1>2 DEF FirstBand, Reach
<1>3. CASE output > 0 /\ wide = {}
  BY <1>1, <1>3 DEF FirstBand, Reach
<1>4. CASE output > 0 /\ wide # {}
  <2>1. FirstBand(output) = Least(wide)
    BY <1>4 DEF FirstBand
  <2>2. wide \in SUBSET Nat /\ wide # {}
    BY <1>1, <1>4
  <2>3. Least(wide) \in wide /\ \A i \in wide : Least(wide) <= i
    <3> HIDE DEF wide
    <3> QED
      BY <2>2, LeastIsMember
  <2> QED
    BY <1>1, <2>1, <2>3 DEF Reach
<1> QED
  BY <1>2, <1>3, <1>4

\* pick_member_rate_won takes the rate of the lowest rated band that reaches
\* the output, or the default where none is rated.
LEMMA PickedRateCovers ==
  ASSUME NEW output \in Nat, NEW row, IsTariff(row)
  PROVE  PickMemberRate(output, row) \in Nat /\ Covers(PickMemberRate(output, row), output, row)
<1> DEFINE rated == {i \in FirstBand(output)..Len(Bands) : row.band[i] > 0}
<1>1. Len(Bands) \in Nat /\ Band = 1..Len(Bands)
  BY TariffAssumption DEF Band
<1>2. FirstBand(output) \in Band /\ Reach(output) = FirstBand(output)..Len(Bands)
  BY FirstBandReaches
<1>3. row.default \in Nat /\ \A i \in Band : row.band[i] \in Nat
  BY DEF IsTariff
<1>4. CASE rated = {}
  <2>1. PickMemberRate(output, row) = row.default
    BY <1>4 DEF PickMemberRate
  <2> QED
    BY <1>1, <1>2, <1>3, <1>4, <2>1 DEF Covers
<1>5. CASE rated # {}
  <2>1. PickMemberRate(output, row) = row.band[Least(rated)]
    BY <1>5 DEF PickMemberRate
  <2>2. rated \in SUBSET Nat /\ rated # {}
    BY <1>1, <1>2, <1>5 DEF Band
  <2>3. Least(rated) \in rated /\ \A i \in rated : Least(rated) <= i
    <3> HIDE DEF rated
    <3> QED
      BY <2>2, LeastIsMember
  <2>4. \A j \in Reach(output) : j < Least(rated) => row.band[j] = 0
    BY <1>1, <1>2, <1>3, <2>3
  <2>5. Least(rated) \in Reach(output) /\ Least(rated) \in Band
    BY <1>1, <1>2, <2>3
  <2> QED
    <3> HIDE DEF rated
    <3> QED
      BY <1>3, <2>1, <2>4, <2>5 DEF Covers
<1> QED
  BY <1>4, <1>5

\* What a hold buys is worth at most the hold, and a hundredth more is worth
\* more than it; its fee fits.
LEMMA AffordableIsExact ==
  ASSUME NEW hold \in Nat, NEW rate \in Nat \ {0}
  PROVE  LET most == Affordable(hold, rate) IN
         /\ most \in Nat
         /\ most * rate <= hold * 10000 /\ hold * 10000 < (most + 1) * rate
         /\ Fee(most, rate) \in Nat /\ Fee(most, rate) <= hold
<1> DEFINE n == hold * 10000
           most == n \div rate
<1>1. n \in Nat
  OBVIOUS
<1>2. most \in Nat /\ most * rate <= n /\ n < (most + 1) * rate
  <2> HIDE DEF n
  <2> QED
    BY <1>1, SMT
<1>3. ASSUME NEW w \in Nat, w <= hold * 10000
      PROVE  w \div 10000 \in Nat /\ w \div 10000 <= hold
  BY <1>3, SMT
<1>4. most * rate \in Nat
  <2> HIDE DEF most
  <2> QED
    BY <1>2
<1> QED
  BY <1>2, <1>3, <1>4 DEF Affordable, Fee

\* The loop of _amount_mode_kwh_and_fee never takes a second turn.
LEMMA AmountModeIsAffordable ==
  ASSUME NEW hold \in Nat, NEW rate \in Nat \ {0}
  PROVE  AmountModeKwh(hold, rate) = IF Affordable(hold, rate) >= MinKwh
                                       THEN Affordable(hold, rate) ELSE 0
<1> DEFINE most == Affordable(hold, rate)
           Fits(n) == most - n >= MinKwh /\ Fee(most - n, rate) <= hold
           First(n) == Fits(n) /\ \A m \in 0..(n - 1) : ~Fits(m)
<1>1. MinKwh \in Nat \ {0}
  BY TariffAssumption
<1>2. most \in Nat /\ Fee(most, rate) <= hold
  BY AffordableIsExact
<1>3. AmountModeKwh(hold, rate) =
        IF \E n \in 0..most : Fits(n) THEN most - CHOOSE n \in 0..most : First(n) ELSE 0
  BY DEF AmountModeKwh
<1> HIDE DEF most
<1>4. most - 0 = most
  BY <1>2
<1>5. CASE most >= MinKwh
  <2>1. Fits(0)
    BY <1>2, <1>4, <1>5
  <2>2. \A n \in 0..most : First(n) <=> n = 0
    BY <1>2, <2>1
  <2>3. (CHOOSE n \in 0..most : First(n)) = 0
    <3> HIDE DEF First
    <3> QED
      BY <1>2, <2>2
  <2> QED
    BY <1>2, <1>3, <1>4, <1>5, <2>1, <2>3 DEF most
<1>6. CASE ~(most >= MinKwh)
  <2>1. \A n \in 0..most : ~Fits(n)
    BY <1>1, <1>2, <1>6
  <2> QED
    BY <1>3, <1>6, <2>1 DEF most
<1> QED
  BY <1>5, <1>6

----------------------------------------------------------------------------
(* Prices.                                                                 *)

\* Rows are typed, and an order that exists is of a charger.
OrdersTyped ==
    /\ operator \in [Chargers -> Operators \cup {None}]
    /\ orders \in [OrderIds -> Order]
    /\ \A o \in OrderIds : orders[o].state # "none" => orders[o].charger \in Chargers

PricesRight == OrdersTyped /\ AmountBuysExactly /\ RateCoversOutput

\* What an order that can be priced is priced at.
LEMMA RateOfCovers ==
  ASSUME OrdersTyped, NEW o \in OrderIds, Open(o)
  PROVE  /\ RateOf(o) \in Nat \ {0}
         /\ OperatorOf(o) \in Operators \cup {None}
         /\ Covers(RateOf(o), Output[orders[o].charger], Tariffs[TariffKey(OperatorOf(o))])
<1>1. /\ orders[o].charger \in Chargers /\ Output[orders[o].charger] \in Nat
      /\ orders[o].operator \in Operators \cup {None}
      /\ operator[orders[o].charger] \in Operators \cup {None}
  BY ChargersAssumption DEF OrdersTyped, Open, Order
<1>2. RateOf(o) > 0
  BY DEF Open
<1> DEFINE key == TariffKey(OperatorOf(o))
<1>3. CASE key \in DOMAIN Tariffs
  <2>1. RateOf(o) = PickMemberRate(Output[orders[o].charger], Tariffs[key])
    BY <1>3 DEF RateOf, MemberRate
  <2>2. IsTariff(Tariffs[key])
    BY <1>3, ChargersAssumption
  <2> HIDE DEF key
  <2>3. RateOf(o) \in Nat /\ Covers(RateOf(o), Output[orders[o].charger], Tariffs[key])
    BY <1>1, <2>1, <2>2, PickedRateCovers
  <2> QED
    BY <1>1, <1>2, <2>3 DEF key, OperatorOf
<1>4. CASE key \notin DOMAIN Tariffs
  <2>1. RateOf(o) = 0
    BY <1>4 DEF RateOf, MemberRate
  <2> QED
    BY <1>2, <2>1
<1> QED
  BY <1>3, <1>4

\* Pricing an order by usage or by amount keeps all prices right.
LEMMA PriceRight ==
  ASSUME PricesRight, NEW o \in OrderIds, CompleteByAmount(o) \/ CompleteByUsage(o)
  PROVE  PricesRight'
<1>1. Open(o) /\ OrdersTyped
  BY DEF PricesRight, CompleteByAmount, CompleteByUsage, Price
<1> DEFINE rate == RateOf(o)
           hold == orders[o].hold
<1>2. /\ rate \in Nat \ {0} /\ OperatorOf(o) \in Operators \cup {None}
      /\ Covers(rate, Output[orders[o].charger], Tariffs[TariffKey(OperatorOf(o))])
  BY <1>1, RateOfCovers
<1>3. hold \in Nat /\ orders[o].state # "none"
  BY <1>1 DEF OrdersTyped, Order, Open
<1>4. PICK mode \in {"amount", "usage"}, kwh \in MinKwh..MaxKwh, state \in {"metered", "priced"} :
        /\ mode = "amount" => kwh = AmountModeKwh(hold, rate)
        /\ orders' = [orders EXCEPT
             ![o].state = state, ![o].mode = mode, ![o].kwh = kwh, ![o].rate = rate,
             ![o].operator = OperatorOf(o), ![o].fee = Fee(kwh, rate)]
        /\ UNCHANGED operator
  BY DEF CompleteByAmount, CompleteByUsage, Price
<1> HIDE DEF rate, hold
<1>5. kwh \in Nat /\ kwh > 0 /\ Fee(kwh, rate) \in Nat
  <2>1. kwh \in Nat /\ kwh > 0 /\ kwh * rate \in Nat
    BY <1>2, TariffAssumption
  <2> QED
    BY <2>1 DEF Fee
<1>6. \A q \in OrderIds : q # o => orders'[q] = orders[q]
  BY <1>1, <1>4 DEF OrdersTyped
<1>7. /\ orders'[o].state = state /\ orders'[o].mode = mode /\ orders'[o].kwh = kwh
      /\ orders'[o].rate = rate /\ orders'[o].operator = OperatorOf(o)
      /\ orders'[o].fee = Fee(kwh, rate) /\ orders'[o].hold = hold
      /\ orders'[o].charger = orders[o].charger
  BY <1>1, <1>4 DEF OrdersTyped, Order, hold
<1>8. OrdersTyped'
  <2>1. orders[o] \in Order
    BY <1>1 DEF OrdersTyped
  <2>2. orders'[o] \in Order
    BY <1>1, <1>2, <1>4, <1>5, <2>1 DEF OrdersTyped, Order
  <2>3. orders' \in [OrderIds -> Order]
    BY <1>1, <1>4, <1>6, <2>2 DEF OrdersTyped
  <2>4. \A q \in OrderIds : orders'[q].state # "none" => orders'[q].charger \in Chargers
    BY <1>1, <1>3, <1>6, <1>7 DEF OrdersTyped
  <2> QED
    BY <1>1, <1>4, <2>3, <2>4 DEF OrdersTyped
<1>9. AmountBuysExactly'
  <2>1. CASE mode = "usage"
    BY <1>6, <1>7, <2>1 DEF PricesRight, AmountBuysExactly, PricedByAmount, Priced
  <2>2. CASE mode = "amount"
    <3>1. kwh = Affordable(hold, rate)
      BY <1>2, <1>3, <1>4, <1>5, <2>2, AmountModeIsAffordable
    <3>2. /\ Fee(kwh, rate) <= hold
          /\ kwh * rate <= hold * 10000 /\ hold * 10000 < (kwh + 1) * rate
      BY <1>2, <1>3, <3>1, AffordableIsExact
    <3> QED
      BY <1>6, <1>7, <3>2 DEF PricesRight, AmountBuysExactly, PricedByAmount, Priced
  <2> QED
    BY <2>1, <2>2
<1>10. RateCoversOutput'
  <2>1. ASSUME NEW q \in OrderIds, Priced(q)'
        PROVE  Covers(orders'[q].rate, Output[orders'[q].charger],
                      Tariffs[TariffKey(orders'[q].operator)])
    <3>1. CASE q = o
      BY <1>2, <1>7, <3>1
    <3>2. CASE q # o
      BY <1>6, <2>1, <3>2 DEF PricesRight, RateCoversOutput, Covers, Reach, Priced
    <3> QED
      BY <3>1, <3>2
  <2> QED
    BY <2>1 DEF RateCoversOutput, Covers, Reach, Priced
<1> QED
  BY <1>8, <1>9, <1>10 DEF PricesRight

\* Every other step leaves what is priced alone.
LEMMA OtherStepsRight ==
  ASSUME PricesRight,
         \/ \E o \in OrderIds : PreAuthorize(o) \/ Leave(o)
         \/ ChangeOperator
         \/ UNCHANGED orderVars
  PROVE  PricesRight'
<1>1. ASSUME operator' \in [Chargers -> Operators \cup {None}],
             orders' \in [OrderIds -> Order],
             \A o \in OrderIds : \/ orders'[o] = orders[o]
                                 \/ orders'[o].state = "none"
                                 \/ orders'[o].state = "held" /\ orders'[o].charger \in Chargers
      PROVE  PricesRight'
  BY <1>1 DEF PricesRight, OrdersTyped, AmountBuysExactly, RateCoversOutput, PricedByAmount, Priced
<1>2. NoOrder \in Order /\ NoOrder.state = "none"
  BY DEF NoOrder, Order
<1>3. ASSUME NEW o \in OrderIds, PreAuthorize(o)
      PROVE  PricesRight'
  <2>1. PICK offer \in WaitMemberRates, hold \in Holds :
          orders' = [orders EXCEPT ![o] =
            [NoOrder EXCEPT !.state = "held", !.charger = offer.charger,
                            !.operator = operator[offer.charger], !.hold = hold]]
    BY <1>3 DEF PreAuthorize
  <2>2. offer.charger \in Chargers /\ hold \in Nat
    BY StatusSyncAssumption, ChargersAssumption DEF WaitMemberRates
  <2>3. operator[offer.charger] \in Operators \cup {None}
    BY <2>2 DEF PricesRight, OrdersTyped
  <2> QED
    BY <1>1, <1>3, <2>1, <2>2, <2>3 DEF PricesRight, OrdersTyped, PreAuthorize, NoOrder, Order
<1>4. ASSUME NEW o \in OrderIds, Leave(o)
      PROVE  PricesRight'
  BY <1>1, <1>2, <1>4 DEF PricesRight, OrdersTyped, Leave
<1>5. CASE ChangeOperator
  BY <1>1, <1>5 DEF PricesRight, OrdersTyped, ChangeOperator
<1>6. CASE UNCHANGED orderVars
  BY <1>1, <1>6 DEF PricesRight, OrdersTyped, orderVars
<1> QED
  BY <1>3, <1>4, <1>5, <1>6

\* Prices are right in every reachable state.
THEOREM PricesAlwaysRight == ChargersSpec => []PricesRight
<1>1. ChargersInit => PricesRight
  BY DEF ChargersInit, PricesRight, OrdersTyped, NoOrder, Order, AmountBuysExactly,
     RateCoversOutput, PricedByAmount, Priced
<1>2. PricesRight /\ [ChargersNext]_chargerVars => PricesRight'
  <2> SUFFICES ASSUME PricesRight, [ChargersNext]_chargerVars
               PROVE  PricesRight'
    OBVIOUS
  <2>1. \/ \E o \in OrderIds : CompleteByAmount(o) \/ CompleteByUsage(o)
        \/ \E o \in OrderIds : PreAuthorize(o) \/ Leave(o)
        \/ ChangeOperator
        \/ UNCHANGED orderVars
    BY DEF ChargersNext, OrderStep, StatusFromElsewhere, chargerVars
  <2> QED
    BY <2>1, PriceRight, OtherStepsRight
<1> QED
  BY <1>1, <1>2, PTL DEF ChargersSpec

\* By amount a member gets all the energy the hold pays for and no more.
THEOREM EnergyExact == ChargersSpec => []AmountBuysExactly
<1>1. PricesRight => AmountBuysExactly
  BY DEF PricesRight
<1> QED
  BY <1>1, PricesAlwaysRight, PTL

\* No order is priced at a rate its operator does not ask for its charger.
THEOREM RatesCover == ChargersSpec => []RateCoversOutput
<1>1. PricesRight => RateCoversOutput
  BY DEF PricesRight
<1> QED
  BY <1>1, PricesAlwaysRight, PTL

\* An order keeps the operator it was first given, whoever runs the charger.
THEOREM OperatorStays == ChargersSpec => OperatorKept
<1> DEFINE Stays(o) == orders[o].state # "none" /\ orders'[o].state # "none" =>
                         orders[o].operator \in {None, orders'[o].operator}
<1>1. ASSUME PricesRight, ChargersNext, NEW o \in OrderIds
      PROVE  Stays(o)
  <2>1. orders \in [OrderIds -> Order]
    BY <1>1 DEF PricesRight, OrdersTyped
  <2>2. ASSUME NEW q \in OrderIds, PreAuthorize(q) \/ Leave(q)
        PROVE  Stays(o)
    <3>1. q # o => orders'[o] = orders[o]
      BY <2>1, <2>2 DEF PreAuthorize, Leave
    <3>2. CASE PreAuthorize(q) /\ q = o
      BY <3>2 DEF PreAuthorize
    <3>3. CASE Leave(q) /\ q = o
      <4>1. orders'[o] = NoOrder
        BY <2>1, <3>3 DEF Leave
      <4> QED
        BY <4>1 DEF NoOrder
    <3> QED
      BY <2>2, <3>1, <3>2, <3>3
  <2>3. ASSUME NEW q \in OrderIds, CompleteByAmount(q) \/ CompleteByUsage(q)
        PROVE  Stays(o)
    <3>1. PICK mode \in {"amount", "usage"}, kwh \in MinKwh..MaxKwh,
               state \in {"metered", "priced"} :
            orders' = [orders EXCEPT
              ![q].state = state, ![q].mode = mode, ![q].kwh = kwh, ![q].rate = RateOf(q),
              ![q].operator = OperatorOf(q), ![q].fee = Fee(kwh, RateOf(q))]
      BY <2>3 DEF CompleteByAmount, CompleteByUsage, Price
    <3>2. /\ q # o => orders'[o] = orders[o]
          /\ orders'[q].operator = OperatorOf(q)
      BY <2>1, <3>1 DEF Order
    <3>3. OperatorOf(o) = orders[o].operator \/ orders[o].operator = None
      BY DEF OperatorOf
    <3>4. CASE q = o
      BY <3>2, <3>3, <3>4
    <3>5. CASE q # o
      BY <3>2, <3>5
    <3> QED
      BY <3>4, <3>5
  <2>4. CASE UNCHANGED orders
    BY <2>4
  <2> QED
    BY <1>1, <2>2, <2>3, <2>4
    DEF ChargersNext, OrderStep, ChangeOperator, StatusFromElsewhere, orderVars
<1>2. PricesRight /\ [ChargersNext]_chargerVars => [\A o \in OrderIds : Stays(o)]_chargerVars
  BY <1>1
<1> QED
  BY <1>2, PricesAlwaysRight, PTL DEF ChargersSpec, OperatorKept

----------------------------------------------------------------------------
(* The quota.                                                              *)

\* Each process that was up today has used at most its share, the one that is
\* up now exactly what its counter says.
Counted ==
    /\ today \in {1, 2} /\ running \in BOOLEAN /\ due \subseteq Jobs
    /\ counter \in [date: 0..today, calls: Nat] /\ CallsToday <= Limit
    /\ outbound \in Nat /\ lives \in Nat
    /\ due # {} => running
    /\ running => lives > 0 /\ outbound <= Limit * (lives - 1) + CallsToday
    /\ ~running => counter = NeverCalled /\ outbound <= Limit * lives

\* One more process brings one more limit.
LEMMA OneMoreLife ==
  ASSUME NEW n \in Nat
  PROVE  Limit * (n + 1) = Limit * n + Limit
  BY StatusSyncAssumption

\* Every step keeps the count.
LEMMA StepsCounted ==
  ASSUME Counted, [ChargersNext]_chargerVars
  PROVE  Counted'
<1> DEFINE counted == <<today, running, due, counter, outbound, lives>>
<1>1. Limit \in Nat
  BY StatusSyncAssumption
<1>2. ASSUME UNCHANGED <<today, running, counter, outbound, lives>>,
             due' \subseteq Jobs, due' # {} => running
      PROVE  Counted'
  BY <1>2 DEF Counted, CallsToday
<1>3. CASE Midnight
  <2>1. CallsToday' = 0
    BY <1>3 DEF Midnight, CallsToday, Counted
  <2>2. /\ counter' = counter /\ today' = 2 /\ running' = running /\ due' = due
        /\ outbound' = 0 /\ lives' = IF running THEN 1 ELSE 0
    BY <1>3 DEF Midnight, schedule
  <2>3. counter \in [date: 0..2, calls: Nat]
    BY DEF Counted
  <2>4. Limit * 0 = 0 /\ Limit * (1 - 1) + 0 = 0
    BY <1>1
  <2> QED
    BY <1>1, <2>1, <2>2, <2>3, <2>4 DEF Counted
<1>4. CASE StartScheduler
  <2>1. /\ ~running /\ running' = TRUE /\ lives' = lives + 1 /\ due' = {"once"}
        /\ UNCHANGED <<today, counter, outbound>> /\ counter = NeverCalled
    BY <1>4 DEF StartScheduler, source, Counted
  <2>2. CallsToday = 0 /\ CallsToday' = 0
    BY <2>1 DEF CallsToday, NeverCalled, Counted
  <2>3. outbound <= Limit * lives
    BY <2>1 DEF Counted
  <2>4. lives' - 1 = lives
    BY <2>1 DEF Counted
  <2> QED
    BY <1>1, <2>1, <2>2, <2>3, <2>4 DEF Counted, Jobs
<1>5. CASE Stop
  <2>1. /\ running /\ running' = FALSE /\ due' = {} /\ counter' = NeverCalled
        /\ UNCHANGED <<today, outbound, lives>>
    BY <1>5 DEF Stop, source
  <2>2. CallsToday' = 0
    BY <2>1 DEF CallsToday, NeverCalled, Counted
  <2>3. Limit * lives = Limit * (lives - 1) + Limit
    <3>1. lives - 1 \in Nat /\ (lives - 1) + 1 = lives
      BY <2>1 DEF Counted
    <3> QED
      BY <3>1, OneMoreLife
  <2>4. Limit * (lives - 1) \in Nat /\ CallsToday \in Nat
    BY <1>1, <2>1 DEF Counted, CallsToday
  <2>5. outbound <= Limit * lives
    BY <1>1, <2>1, <2>3, <2>4 DEF Counted
  <2>6. NeverCalled \in [date: 0..today, calls: Nat]
    BY DEF NeverCalled, Counted
  <2>7. /\ running' = FALSE /\ due' = {} /\ counter' = NeverCalled'
        /\ outbound' <= Limit * lives'
    BY <2>1, <2>5 DEF NeverCalled
  <2>8. /\ today' \in {1, 2} /\ counter' \in [date: 0..today', calls: Nat]
        /\ outbound' \in Nat /\ lives' \in Nat
    BY <2>1, <2>6 DEF Counted
  <2>9. CallsToday' <= Limit
    BY <1>1, <2>2
  <2> QED
    BY <2>7, <2>8, <2>9 DEF Counted
<1>6. ASSUME NEW j \in Jobs, Ask(j)
      PROVE  Counted'
  <2>1. /\ running /\ CallsToday < Limit
        /\ counter' = [date |-> today, calls |-> CallsToday + 1]
        /\ outbound' = outbound + 1 /\ due' \subseteq due
        /\ UNCHANGED <<today, running, lives>>
    BY <1>6 DEF Ask, Record, source, Counted
  <2>2. CallsToday \in Nat
    BY DEF Counted, CallsToday
  <2>3. CallsToday' = CallsToday + 1
    BY <2>1 DEF CallsToday
  <2>4. Limit * (lives - 1) \in Nat
    BY <1>1, <2>1 DEF Counted
  <2>5. counter' \in [date: 0..today, calls: Nat]
    BY <2>1, <2>2 DEF Counted
  <2>6. CallsToday + 1 <= Limit /\ outbound + 1 <= Limit * (lives - 1) + (CallsToday + 1)
    BY <1>1, <2>1, <2>2, <2>4 DEF Counted
  <2>7. /\ outbound' <= Limit * (lives' - 1) + CallsToday' /\ CallsToday' <= Limit
        /\ outbound' \in Nat
    BY <2>1, <2>3, <2>6 DEF Counted
  <2> QED
    BY <2>1, <2>5, <2>7 DEF Counted
<1>7. \/ Midnight \/ StartScheduler \/ Stop \/ \E j \in Jobs : Ask(j)
      \/ /\ UNCHANGED <<today, running, counter, outbound, lives>>
         /\ due' \subseteq Jobs
         /\ due' # {} => running
  <2>1. CASE Change \/ Tick
    BY <2>1 DEF Change, Tick, schedule, budget, Counted, Jobs
  <2>2. CASE CollectStep
    BY <2>2 DEF CollectStep, Skip, Answer, CommitRows, Abandon, source, schedule, budget, Counted
  <2>3. CASE UNCHANGED syncVars \/ StatusFromElsewhere
    BY <2>3 DEF syncVars, StatusFromElsewhere, source, schedule, budget, Counted
  <2> QED
    BY <2>1, <2>2, <2>3 DEF ChargersNext, SyncNext, chargerVars
<1> QED
  BY <1>2, <1>3, <1>4, <1>5, <1>6, <1>7

\* The calls of a day stay within the limit of each process up that day.
THEOREM QuotaKept == ChargersSpec => []QuotaPerLife
<1>1. ChargersInit => Counted
  <2>1. Limit * 0 = 0 /\ 0 <= Limit
    BY StatusSyncAssumption
  <2>2. NeverCalled \in [date: 0..1, calls: Nat] /\ NeverCalled.date = 0
    BY DEF NeverCalled
  <2> SUFFICES ASSUME ChargersInit PROVE Counted
    OBVIOUS
  <2>3. /\ today = 1 /\ running = FALSE /\ due = {} /\ counter = NeverCalled
        /\ outbound = 0 /\ lives = 0
    BY DEF ChargersInit, SyncInit
  <2>4. CallsToday = 0
    BY <2>2, <2>3 DEF CallsToday
  <2>5. outbound <= Limit * lives
    BY <2>1, <2>3
  <2> QED
    BY <2>1, <2>2, <2>3, <2>4, <2>5 DEF Counted
<1>2. Counted /\ [ChargersNext]_chargerVars => Counted'
  BY StepsCounted
<1>3. Counted => QuotaPerLife
  <2> SUFFICES ASSUME Counted, running PROVE QuotaPerLife
    BY DEF Counted, QuotaPerLife
  <2>1. lives - 1 \in Nat /\ (lives - 1) + 1 = lives /\ Limit \in Nat
    BY StatusSyncAssumption DEF Counted
  <2>2. Limit * lives = Limit * (lives - 1) + Limit /\ Limit * (lives - 1) \in Nat
    BY <2>1, OneMoreLife
  <2> QED
    BY <2>1, <2>2 DEF Counted, QuotaPerLife, CallsToday
<1> QED
  BY <1>1, <1>2, <1>3, PTL DEF ChargersSpec
=============================================================================
