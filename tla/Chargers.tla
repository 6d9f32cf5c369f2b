------------------------------- MODULE Chargers -------------------------------
(***************************************************************************)
(* The charger table at the service of orders: the collector keeps it, and *)
(* orders are held on chargers it shows waiting and priced by the tariff   *)
(* of their operator.  Points and the settlement of orders are in          *)
(* UsageOrders; here an order is its charger, its energy and its price.    *)
(***************************************************************************)
EXTENDS StatusSync, Tariff

CONSTANTS
    OrderIds,   \* primary keys of usage_orders
    Wait,       \* CHARGER_STATUS_WAIT
    Operators,  \* busi_id of the operators
    Average,    \* TARIFF_FALLBACK_BUSI_ID
    Tariffs,    \* member rows of ev_operator_tariffs, by busi_id
    Output,     \* ev_charger_info.output of each charger
    Holds,      \* bound: the amounts clients ask for
    Energies,   \* bound: the energies clients report
    Concerns    \* bound: what one run is about, collecting, ordering or both

ASSUME ChargersAssumption ==
    /\ Wait \in Valid /\ None \notin Operators /\ Average \notin Operators
    /\ DOMAIN Tariffs \subseteq Operators \cup {Average}
    /\ \A b \in DOMAIN Tariffs : IsTariff(Tariffs[b])
    /\ Output \in [Chargers -> Nat]
    /\ Holds \subseteq Nat \ {0} /\ Energies \subseteq Nat
    /\ Concerns \subseteq SUBSET {"collect", "order"}

VARIABLES
    concern,    \* what this run is about
    operator,   \* ev_charger_info.busi_id
    orders      \* usage_orders, as far as they are priced

orderVars == <<operator, orders>>
chargerVars == <<syncVars, concern, orderVars>>

Order == [state: {"none", "held", "metered", "priced"}, charger: Chargers \cup {None},
          operator: Operators \cup {None}, hold: Nat, mode: {"amount", "usage"},
          kwh: Nat, rate: Nat, fee: Nat]
NoOrder == [state |-> "none", charger |-> None, operator |-> None, hold |-> 0,
            mode |-> "amount", kwh |-> 0, rate |-> 0, fee |-> 0]

\* Before the charger list has been imported.
ChargersInit ==
    /\ SyncInit
    /\ concern \in Concerns
    /\ operator = [c \in Chargers |-> None]
    /\ orders = [o \in OrderIds |-> NoOrder]

\* _member_tariff: the operator's row, or the average one.
TariffKey(b) == IF b \in DOMAIN Tariffs THEN b ELSE Average
MemberRate(c, b) ==
    IF TariffKey(b) \in DOMAIN Tariffs
      THEN PickMemberRate(Output[c], Tariffs[TariffKey(b)]) ELSE 0

\* list_wait_member_rates: the chargers a member can choose, with their rates.
WaitMemberRates ==
    {[charger |-> c, rate |-> MemberRate(c, operator[c])] :
       c \in {d \in Listed : stored[d] = Wait}}

----------------------------------------------------------------------------
(* Orders.                                                                 *)

\* pre_authorize: the charger's operator goes into the order.
PreAuthorize(o) ==
    /\ orders[o].state = "none"
    /\ \E offer \in WaitMemberRates, hold \in Holds :
         orders' = [orders EXCEPT ![o] =
           [NoOrder EXCEPT !.state = "held", !.charger = offer.charger,
                           !.operator = operator[offer.charger], !.hold = hold]]
    /\ UNCHANGED operator

\* A slip: the charger's operator of now prices the order.
OperatorNow(o) == operator[orders[o].charger]

\* order.busi_id or info.busi_id
OperatorOf(o) ==
    IF orders[o].operator # None THEN orders[o].operator ELSE operator[orders[o].charger]

RateOf(o) == MemberRate(orders[o].charger, OperatorOf(o))

\* A draft whose kWh come from the operator's session ("metered") is priced
\* anew by the next call; one with the member's own is final.
Open(o) == orders[o].state \in {"held", "metered"} /\ RateOf(o) > 0

Price(o, mode, kwh) ==
    /\ Open(o)
    /\ kwh \in MinKwh..MaxKwh           \* else refused, or a broken CHECK
    /\ \E state \in {"metered", "priced"} :
         orders' = [orders EXCEPT
           ![o].state = state, ![o].mode = mode, ![o].kwh = kwh, ![o].rate = RateOf(o),
           ![o].operator = OperatorOf(o), ![o].fee = Fee(kwh, RateOf(o))]
    /\ UNCHANGED operator

\* complete_order by amount and by usage.
CompleteByAmount(o) ==
    /\ Open(o)
    /\ Price(o, "amount", AmountModeKwh(orders[o].hold, RateOf(o)))
CompleteByUsage(o) == \E kwh \in Energies : Price(o, "usage", kwh)

\* pay_order and cancel_order end the draft.
Leave(o) ==
    /\ orders[o].state # "none"
    /\ orders' = [orders EXCEPT ![o] = NoOrder]
    /\ UNCHANGED operator

\* The charger list is imported anew: a charger has changed hands.
ChangeOperator ==
    /\ \E c \in Chargers, b \in Operators \cup {None} :
         b # operator[c] /\ operator' = [operator EXCEPT ![c] = b]
    /\ UNCHANGED orders

\* Without a collector here, statuses come from the host that has one.
StatusFromElsewhere ==
    /\ \E c \in Listed, s \in Statuses :
         stored' = [stored EXCEPT ![c] = Normal(s)]
    /\ UNCHANGED <<source, schedule, budget, job, orderVars>>

OrderStep ==
    \/ \E o \in OrderIds :
         PreAuthorize(o) \/ CompleteByAmount(o) \/ CompleteByUsage(o) \/ Leave(o)
    \/ ChangeOperator

ChargersNext ==
    /\ \/ "collect" \in concern /\ SyncNext /\ UNCHANGED orderVars
       \/ "collect" \notin concern /\ StatusFromElsewhere
       \/ "order" \in concern /\ OrderStep /\ UNCHANGED syncVars
    /\ UNCHANGED concern

ChargersSpec == ChargersInit /\ [][ChargersNext]_chargerVars

----------------------------------------------------------------------------
\* The shape of the collector's state and of the orders.
ChargersTypeOK ==
    /\ SyncTypeOK
    /\ operator \in [Chargers -> Operators \cup {None}]
    /\ orders \in [OrderIds -> Order]

Priced(o) == orders[o].state \in {"metered", "priced"}
PricedByAmount(o) == Priced(o) /\ orders[o].mode = "amount"

\* By amount a member gets all the energy the hold pays for and no more: what
\* is charged is worth at most the hold, and a hundredth of a kWh more would
\* be worth more than it (_amount_mode_kwh_and_fee).  The function divides
\* first, so this compares worth before the fee is rounded down; its docstring
\* compares fees, which is AmountIsLargest.
AmountBuysExactly ==
    \A o \in OrderIds : PricedByAmount(o) =>
        /\ orders[o].fee <= orders[o].hold
        /\ orders[o].kwh * orders[o].rate <= orders[o].hold * 10000
        /\ orders[o].hold * 10000 < (orders[o].kwh + 1) * orders[o].rate

\* The energy is the largest whose fee, rounded down to a won, is at most the
\* hold, as the docstring of _amount_mode_kwh_and_fee says.  It is not where
\* the rounding would let one more hundredth of a kWh through.
AmountIsLargest ==
    \A o \in OrderIds : PricedByAmount(o) =>
        /\ orders[o].fee <= orders[o].hold
        /\ orders[o].hold < Fee(orders[o].kwh + 1, orders[o].rate)

\* The rate an order is priced at is one the operator asks for a charger of
\* that output: of a band that reaches it and above no other rated band that
\* does (pick_member_rate_won), and of the operator that ran the charger when
\* the points were held, whoever runs it by the time of pricing
\* (complete_order).
RateCoversOutput ==
    \A o \in OrderIds : Priced(o) =>
        LET row == Tariffs[TariffKey(orders[o].operator)]
            output == Output[orders[o].charger]
            reach == {i \in Band : output <= Bands[i] \/ i = Len(Bands)}
        IN  \/ orders[o].rate = row.default /\ \A i \in reach : row.band[i] = 0
            \/ \E i \in reach : /\ row.band[i] = orders[o].rate
                                /\ \A j \in reach : j < i => row.band[j] = 0

\* An order keeps the operator its points were held for, and if none was known
\* then, the one it was first priced by, however often it is priced while the
\* charger changes hands (complete_order: order.busi_id or info.busi_id).
OperatorKept ==
    [][\A o \in OrderIds :
         orders[o].state # "none" /\ orders'[o].state # "none" =>
           orders[o].operator \in {None, orders'[o].operator}]_chargerVars
=============================================================================
