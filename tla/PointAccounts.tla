---------------------------- MODULE PointAccounts -----------------------------
(***************************************************************************)
(* What the money core promises, without sessions, locks or rows: points   *)
(* move only together with the entry of the journal that says why, and     *)
(* never below zero.  A payment is credited once.  An order takes its hold *)
(* once and is then settled once, at one cost, or released once.           *)
(***************************************************************************)
EXTENDS Integers, Sequences

CONSTANTS Users, OrderIds, PaymentIds, None

VARIABLES
    points,     \* spendable points of each user
    journal,    \* why and by how much they moved, oldest first
    holds       \* what each order has done: [stage, user, hold, cost]

promiseVars == <<points, journal, holds>>

NoHold == [stage |-> "none", user |-> None, hold |-> 0, cost |-> 0]

PromiseInit ==
    /\ points = [u \in Users |-> 0]
    /\ journal = [u \in Users |-> <<>>]
    /\ holds = [o \in OrderIds |-> NoHold]

\* The points of u move, by an amount that is journalled for a reason.
Move(u, reason) ==
    LET delta == points'[u] - points[u] IN
    /\ points' = [points EXCEPT ![u] = points'[u]]
    /\ points'[u] >= 0
    /\ journal' = [journal EXCEPT ![u] = Append(@, [for |-> reason, delta |-> delta])]

MoveBy(u, reason, delta) == Move(u, reason) /\ points'[u] = points[u] + delta

Journalled(reason) ==
    \E u \in Users : \E i \in 1..Len(journal[u]) : journal[u][i].for = reason

CreditPayment(u, id) ==
    /\ ~Journalled(<<"charge", id>>)
    /\ Move(u, <<"charge", id>>) /\ points'[u] > points[u]
    /\ UNCHANGED holds

Adjust(u) ==
    /\ Move(u, <<"adjust", None>>) /\ points'[u] # points[u]
    /\ UNCHANGED holds

TakeHold(u, o) ==
    LET hold == points[u] - points'[u] IN
    /\ holds[o] = NoHold /\ hold > 0
    /\ Move(u, <<"hold", o>>)
    /\ holds' = [holds EXCEPT ![o] = [stage |-> "held", user |-> u, hold |-> hold, cost |-> 0]]

Release(o) ==
    /\ holds[o].stage = "held"
    /\ MoveBy(holds[o].user, <<"cancel", o>>, holds[o].hold)
    /\ holds' = [holds EXCEPT ![o].stage = "released"]

Settle(o) ==
    LET user == holds[o].user
        hold == holds[o].hold
        cost == holds'[o].cost
    IN  /\ holds[o].stage = "held"
        /\ holds' = [holds EXCEPT ![o].stage = "settled", ![o].cost = cost]
        /\ \/ cost > hold /\ MoveBy(user, <<"shortfall", o>>, hold - cost)
           \/ cost < hold /\ MoveBy(user, <<"refund", o>>, hold - cost)
           \/ cost = hold /\ UNCHANGED <<points, journal>>

PromiseNext ==
    \/ \E u \in Users :
         \/ Adjust(u)
         \/ \E id \in PaymentIds : CreditPayment(u, id)
         \/ \E o \in OrderIds : TakeHold(u, o)
    \/ \E o \in OrderIds : Release(o) \/ Settle(o)

PromiseSpec == PromiseInit /\ [][PromiseNext]_promiseVars
=============================================================================
