------------------------------ MODULE ChargersMC -------------------------------
(***************************************************************************)
(* Bounds for model checking Chargers.                                     *)
(***************************************************************************)
EXTENDS Chargers, TLC

CONSTANTS c1, c2, o1, b1, b2, b3, avg

Two == {c1, c2}
OneOrder == {o1}
ThreeOperators == {b1, b2, b3}

\* The bands of tariff.py.
NineBands == <<35, 70, 110, 140, 300, 500, 1000, 2000, 3500>>
\* b1 has gaps in its bands, b2 only a default, b3 no row of its own.
RateTable ==
    (b1 :> [band |-> <<0, 25000, 0, 30050, 0, 0, 34720, 0, 0>>, default |-> 29290])
    @@ (b2 :> [band |-> [i \in 1..9 |-> 0], default |-> 29991])
    @@ (avg :> [band |-> [i \in 1..9 |-> 31000 + i], default |-> 0])
\* On the upper end of a band, and unknown.
Outputs == (c1 :> 70) @@ (c2 :> 0)

Apart == {{"collect"}, {"order"}}
=============================================================================
