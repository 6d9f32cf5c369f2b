----------------------------- MODULE UsageOrders ------------------------------
(***************************************************************************)
(* Charging the car: a draft order holds points (pre_authorize), the       *)
(* charging result prices it (complete_order), and it is settled           *)
(* (pay_order) or given back (cancel_order).                               *)
(*                                                                         *)
(* pre_authorize, pay_order and cancel_order lock the users row first;     *)
(* pay_order and cancel_order then lock the order; complete_order locks    *)
(* the order only.  Their FOR UPDATE on the wallet is always taken under   *)
(* the users lock, so it is not modelled as a lock of its own: it makes    *)
(* the balance they read the committed one at any isolation level.         *)
(***************************************************************************)
EXTENDS Accounts

CONSTANTS
    OrderIds,   \* primary keys of usage_orders
    ClientKeys, \* idempotency keys clients send to pre_authorize
    MinHold,    \* MIN_HOLD_KRW
    MaxHold,    \* MAX_HOLD_KRW
    Fees        \* bound: the fees a completed charge may have

ASSUME UsageOrdersAssumption ==
    /\ OrderIds \subseteq Refs /\ ClientKeys \subseteq Refs
    /\ MinHold \in Nat \ {0} /\ MaxHold \in Nat /\ Fees \subseteq Nat

VARIABLES
    orders,     \* usage_orders rows
    orderLock,  \* session that holds SELECT ... FOR UPDATE on the order row
    found       \* the order a session found for its client key

orderVars == <<orders, orderLock, found>>

OrderStatuses == {"none", "draft", "confirmed", "cancelled"}
KwhSources == {"preset", "manual", "operator_session"}
Order == [status: OrderStatuses, user: Users \cup {None}, key: ClientKeys \cup {None},
          hold: Nat, fee: Nat, spent: Nat, source: KwhSources]

NoOrder == [status |-> "none", user |-> None, key |-> None,
            hold |-> 0, fee |-> 0, spent |-> 0, source |-> "preset"]

\* kwh_source = manual with a positive rate_member_won: complete_order is the
\* only writer of both, and writes a positive rate.
Priced(o) == orders[o].source = "manual"

OrderWithKey(k) ==
    IF k # None /\ \E o \in OrderIds : orders[o].key = k
      THEN CHOOSE o \in OrderIds : orders[o].key = k ELSE None

HoldKey(o) == <<"hold", o>>
ShortfallKey(o) == <<"shortfall", o>>
RefundKey(o) == <<"refund", o>>
CancelKey(o) == <<"cancel", o>>

OrdersInit ==
    /\ orders = [o \in OrderIds |-> NoOrder]
    /\ orderLock = [o \in OrderIds |-> None]
    /\ found = [p \in Procs |-> None]

LeaveOrder(p) ==
    /\ orderLock' = [o \in OrderIds |-> IF orderLock[o] = p THEN None ELSE orderLock[o]]
    /\ found' = [found EXCEPT ![p] = None]
EndOrders(p) == End(p) /\ LeaveOrder(p)

\* The handler refuses and rolls back.
NoWrites == UNCHANGED <<rows, orders>>

\* A repeated call is answered without a commit: the row locks stay with the
\* open Session.
Replay(p) == MoveTo(p, "answered") /\ UNCHANGED orderVars

\* A settlement row is added only if its key is not in the ledger yet.
PostOnce(p, type, amount, new, key) ==
    IF Posted(key) THEN UNCHANGED <<balance, ledger, point>>
                   ELSE Post(p, type, amount, new, key)

----------------------------------------------------------------------------
(* Step 2, pre_authorize: hold points and create the draft.                *)

BeginPreAuthorize(p) ==
    \E u \in Users, k \in ClientKeys \cup {None} :
       /\ BeginAs(p, "preauth", u, k)
       /\ found' = [found EXCEPT ![p] =
            IF Isolation = "REPEATABLE_READ" THEN OrderWithKey(k) ELSE None]
       /\ UNCHANGED <<orders, orderLock>>

LockForPreAuthorize(p) ==
    /\ session[p].op = "preauth"
    /\ LockUser(p)
    /\ found' = IF Isolation = "READ_COMMITTED"
                  THEN [found EXCEPT ![p] = OrderWithKey(session[p].ref)] ELSE found
    /\ UNCHANGED <<orders, orderLock>>

\* A slip: the balance is not compared with the hold.
HoldsUnchecked(u) == {h \in {balance[u]} \cup MinHold..MaxHold : h >= MinHold}

\* Usage mode holds the whole balance up to MaxHold, amount mode what the
\* client asks for.
Holds(u) ==
    {h \in {IF balance[u] < MaxHold THEN balance[u] ELSE MaxHold} \cup MinHold..MaxHold :
       h >= MinHold /\ balance[u] >= h}

\* A slip: the client key is not UNIQUE.
PlaceHoldAgain(p) ==
    LET u == session[p].user
        k == session[p].ref
    IN  /\ found[p] = None
        /\ \E o \in OrderIds, hold \in Holds(u) :
             /\ orders[o].status = "none"
             /\ orders' = [orders EXCEPT ![o] =
                  [status |-> "draft", user |-> u, key |-> k, hold |-> hold,
                   fee |-> hold, spent |-> 0, source |-> "preset"]]
             /\ Post(p, "use", hold, balance[u] - hold, HoldKey(o))
        /\ UNCHANGED <<active, opened>>

PlaceHold(p) ==
    LET u == session[p].user
        k == session[p].ref
    IN  /\ found[p] = None
        /\ OrderWithKey(k) = None       \* UNIQUE(idempotency_key)
        /\ \E o \in OrderIds, hold \in Holds(u) :
             /\ orders[o].status = "none"
             /\ orders' = [orders EXCEPT ![o] =
                  [status |-> "draft", user |-> u, key |-> k, hold |-> hold,
                   fee |-> hold, spent |-> 0, source |-> "preset"]]
             /\ Post(p, "use", hold, balance[u] - hold, HoldKey(o))
        /\ UNCHANGED <<active, opened>>

\* Refusals the model does not decide: no primary car, charger not waiting.  A
\* balance too small is found out after _lock_wallet, which inserts a wallet
\* that is not there.
PreAuthorize(p) ==
    /\ At(p, "preauth", "locked")
    /\ \/ PlaceHold(p) /\ EndOrders(p)
       \/ (found[p] # None \/ EntryFree(p)) /\ NoWrites /\ EndOrders(p)
       \/ found[p] # None /\ orders[found[p]].user = session[p].user /\ Replay(p)

----------------------------------------------------------------------------
(* The order lock.                                                         *)

BeginOn(p, op) ==
    /\ \E o \in OrderIds :
         orders[o].status # "none" /\ BeginAs(p, op, orders[o].user, o)
    /\ UNCHANGED orderVars

BeginCompleteOrder(p) == BeginOn(p, "complete")
BeginPayOrder(p) == BeginOn(p, "pay")
BeginCancelOrder(p) == BeginOn(p, "cancel")

LockForSettling(p) ==
    session[p].op \in {"pay", "cancel"} /\ LockUser(p) /\ UNCHANGED orderVars

\* A slip: cancel_order locks the order before it locks the user.
LockOrderFirst(p) ==
    LET o == session[p].ref IN
    /\ \/ At(p, "complete", "begun") /\ orderLock[o] = None /\ MoveTo(p, "ordered")
       \/ At(p, "pay", "locked") /\ orderLock[o] = None /\ MoveTo(p, "ordered")
       \/ At(p, "cancel", "begun") /\ orderLock[o] = None /\ MoveTo(p, "begun")
       \/ At(p, "cancel", "locked") /\ orderLock[o] = p /\ MoveTo(p, "ordered")
    /\ orderLock' = [orderLock EXCEPT ![o] = p]
    /\ UNCHANGED <<orders, found>>

LockOrder(p) ==
    /\ \/ At(p, "complete", "begun")
       \/ session[p].op \in {"pay", "cancel"} /\ session[p].at = "locked"
    /\ orderLock[session[p].ref] = None
    /\ orderLock' = [orderLock EXCEPT ![session[p].ref] = p]
    /\ MoveTo(p, "ordered")
    /\ UNCHANGED <<orders, found>>

----------------------------------------------------------------------------
(* Step 3, complete_order: the fee.  No wallet row changes.                *)

\* A slip: a repeated complete_order prices the draft again.
PriceOrderAgain(p) ==
    LET o == session[p].ref IN
    /\ orders[o].status = "draft"
    /\ \E fee \in Fees, source \in {"manual", "operator_session"} :
         orders' = [orders EXCEPT ![o].fee = fee, ![o].source = source]
    /\ UNCHANGED rows

PriceOrder(p) ==
    LET o == session[p].ref IN
    /\ orders[o].status = "draft" /\ ~Priced(o)
    /\ \E fee \in Fees, source \in {"manual", "operator_session"} :
         orders' = [orders EXCEPT ![o].fee = fee, ![o].source = source]
    /\ UNCHANGED rows

\* Refusals the model does not decide: charger or tariff missing.
CompleteOrder(p) ==
    /\ At(p, "complete", "ordered")
    /\ PriceOrder(p) \/ NoWrites
    /\ EndOrders(p)

----------------------------------------------------------------------------
(* Step 4, pay_order: settle the hold against the fee.                     *)

\* A slip: the balance is not checked for the shortfall.
PayableOnCredit(o) == orders[o].status = "draft" /\ Priced(o)

Payable(o) ==
    /\ orders[o].status = "draft" /\ Priced(o)
    /\ orders[o].fee > orders[o].hold =>
         balance[orders[o].user] >= orders[o].fee - orders[o].hold

\* Slips: the settlement is recorded as what moved instead of what the charge
\* cost; the order is settled but left a draft.
SettleByDifference(p) ==
    LET o == session[p].ref
        hold == orders[o].hold
        fee == orders[o].fee
        new == balance[session[p].user] + hold - fee
    IN  /\ Payable(o)
        /\ \/ fee > hold /\ PostOnce(p, "use", fee - hold, new, ShortfallKey(o))
           \/ fee < hold /\ PostOnce(p, "refund", hold - fee, new, RefundKey(o))
           \/ fee = hold /\ UNCHANGED <<balance, ledger, point>>
        /\ orders' = [orders EXCEPT ![o].spent = fee - hold, ![o].status = "confirmed"]
        /\ UNCHANGED <<active, opened>>

SettleAsDraft(p) ==
    LET o == session[p].ref
        hold == orders[o].hold
        fee == orders[o].fee
        new == balance[session[p].user] + hold - fee
    IN  /\ Payable(o)
        /\ \/ fee > hold /\ PostOnce(p, "use", fee - hold, new, ShortfallKey(o))
           \/ fee < hold /\ PostOnce(p, "refund", hold - fee, new, RefundKey(o))
           \/ fee = hold /\ UNCHANGED <<balance, ledger, point>>
        /\ orders' = [orders EXCEPT ![o].spent = fee]
        /\ UNCHANGED <<active, opened>>

SettleOrder(p) ==
    LET o == session[p].ref
        hold == orders[o].hold
        fee == orders[o].fee
        new == balance[session[p].user] + hold - fee
    IN  /\ Payable(o)
        /\ \/ fee > hold /\ PostOnce(p, "use", fee - hold, new, ShortfallKey(o))
           \/ fee < hold /\ PostOnce(p, "refund", hold - fee, new, RefundKey(o))
           \/ fee = hold /\ UNCHANGED <<balance, ledger, point>>
        /\ orders' = [orders EXCEPT ![o].spent = fee, ![o].status = "confirmed"]
        /\ UNCHANGED <<active, opened>>

PayOrder(p) ==
    /\ At(p, "pay", "ordered")
    /\ \/ SettleOrder(p) /\ EndOrders(p)
       \/ orders[session[p].ref].status = "confirmed" /\ Replay(p)
       \/ /\ orders[session[p].ref].status # "confirmed" /\ ~Payable(session[p].ref)
          /\ NoWrites /\ EndOrders(p)

----------------------------------------------------------------------------
(* cancel_order: the whole hold comes back.                                *)

\* Slips: the estimate is given back instead of the hold; the status is not
\* checked under the lock.
RefundEstimate(p) ==
    LET o == session[p].ref
        fee == orders[o].fee
    IN  /\ orders[o].status = "draft"
        /\ PostOnce(p, "refund", fee, balance[session[p].user] + fee, CancelKey(o))
        /\ orders' = [orders EXCEPT ![o].spent = 0, ![o].status = "cancelled"]
        /\ UNCHANGED <<active, opened>>

RefundSettled(p) ==
    LET o == session[p].ref
        hold == orders[o].hold
    IN  /\ PostOnce(p, "refund", hold, balance[session[p].user] + hold, CancelKey(o))
        /\ orders' = [orders EXCEPT ![o].spent = 0, ![o].status = "cancelled"]
        /\ UNCHANGED <<active, opened>>

RefundHold(p) ==
    LET o == session[p].ref
        hold == orders[o].hold
    IN  /\ orders[o].status = "draft"
        /\ PostOnce(p, "refund", hold, balance[session[p].user] + hold, CancelKey(o))
        /\ orders' = [orders EXCEPT ![o].spent = 0, ![o].status = "cancelled"]
        /\ UNCHANGED <<active, opened>>

CancelOrder(p) ==
    /\ At(p, "cancel", "ordered")
    /\ \/ RefundHold(p) /\ EndOrders(p)
       \/ orders[session[p].ref].status = "cancelled" /\ Replay(p)
       \/ orders[session[p].ref].status = "confirmed" /\ NoWrites /\ EndOrders(p)

BeginOrders(p) ==
    BeginPreAuthorize(p) \/ BeginCompleteOrder(p) \/ BeginPayOrder(p) \/ BeginCancelOrder(p)
LockForOrders(p) == LockForPreAuthorize(p) \/ LockForSettling(p) \/ LockOrder(p)
OrdersStep(p) == PreAuthorize(p) \/ CompleteOrder(p) \/ PayOrder(p) \/ CancelOrder(p)

----------------------------------------------------------------------------
\* The shape of the orders, of the locks on them and of what sessions found.
OrdersTypeOK ==
    /\ orders \in [OrderIds -> Order]
    /\ orderLock \in [OrderIds -> Procs \cup {None}]
    /\ found \in [Procs -> OrderIds \cup {None}]
=============================================================================
