-------------------------- MODULE ChargingServiceMC ---------------------------
(***************************************************************************)
(* Bounds and symmetry for model checking ChargingService.                 *)
(***************************************************************************)
EXTENDS ChargingService, TLC

CONSTANTS u1, p1, p2, o1, o2, pay1, k1

\* One worker process, as the service is run; or a worker for every request.
OneWorker == [p \in {p1, p2} |-> 1]
OwnWorkers == [p \in {p1, p2} |-> p]

OneUser == {u1}
TwoProcs == {p1, p2}
OneOrder == {o1}
TwoOrders == {o1, o2}
OnePayment == {pay1}
OneKey == {k1}
AllRefs == {o1, o2, pay1, k1}

\* Points are counted in units of half a hold: a hold is 2.
OnlyOnePoint == {1}
TwoPoints == {2}
ThreePoints == {3}
OneUpFarDown == {1, -3}
LessOrMore == {1, 3}
LessExactMore == {1, 2, 3}
UpAndFarDown == {2, -3}

\* Request slots and order ids are interchangeable.
Interchangeable == Permutations(Procs) \cup Permutations(OrderIds)
=============================================================================
