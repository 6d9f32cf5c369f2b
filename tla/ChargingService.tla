--------------------------- MODULE ChargingService ----------------------------
(***************************************************************************)
(* The money core of the service: points charged through PortOne, usage    *)
(* orders that hold and settle them, and the account itself, working on    *)
(* the same users, point_wallets and point_transactions rows.              *)
(***************************************************************************)
EXTENDS Points, UsageOrders

vars == <<accountVars, pointVars, orderVars>>

Init == AccountsInit /\ PointsInit /\ OrdersInit

\* A request arrives.
Arrive(p) ==
    \/ BeginAccount(p) /\ UNCHANGED <<pointVars, orderVars>>
    \/ BeginPoints(p) /\ UNCHANGED orderVars
    \/ BeginOrders(p) /\ UNCHANGED pointVars

\* A session gets the row lock it waits for, or the key of the row it inserts.
Lock(p) ==
    \/ EnterWallet(p) /\ UNCHANGED <<pointVars, orderVars>>
    \/ LockForPoints(p) /\ UNCHANGED orderVars
    \/ LockForOrders(p) /\ UNCHANGED pointVars

\* A session runs to its call to PortOne or to its end.
Proceed(p) ==
    \/ AccountStep(p) /\ UNCHANGED <<pointVars, orderVars>>
    \/ PointsStep(p) /\ UNCHANGED orderVars
    \/ OrdersStep(p) /\ UNCHANGED pointVars

\* A session ends with nothing written.
Leave(p) ==
    /\ Rollback(p) /\ ForgetPayment(p) /\ LeaveOrder(p)
    /\ UNCHANGED <<payments, remote, orders>>

\* The event loop closes the Session of a request that has been answered.
Close(p) == session[p].at = "answered" /\ LoopFree(p) /\ Leave(p)

\* A session fails anywhere before its commit.
Fail(p) == Leave(p)

\* Session p is stopped at a users row, at an order row, or at the key of a
\* wallet that is not there yet.  The INSERTs and the UPDATE of handlers
\* without FOR UPDATE wait for the users row too.
AwaitsUser(p) ==
    LET op == session[p].op IN
    \/ session[p].at = "entered"
    \/ /\ session[p].at = "begun"
       /\ \/ op \notin Unlocked \cup {"complete", "fail"}
          \/ op = "create" /\ seen[p].opened
          \/ op \in Unlocked /\ ~seen[p].opened /\ Isolation = "REPEATABLE_READ"
AwaitsOrder(p) ==
    \/ At(p, "complete", "begun")
    \/ session[p].op \in {"pay", "cancel"} /\ session[p].at = "locked"
AwaitsWallet(p) ==
    \/ session[p].at = "begun" /\ session[p].op \in Unlocked /\ ~seen[p].opened
    \/ /\ session[p].at = "locked"
       /\ \/ session[p].op \in Adjusting /\ session[p].user \in active
          \/ session[p].op = "preauth" /\ found[p] = None

\* Session p waits for what q holds in the database.
RowWaitsFor(p, q) ==
    /\ p # q
    /\ \/ AwaitsUser(p) /\ userLock[session[p].user] = q
       \/ AwaitsOrder(p) /\ orderLock[session[p].ref] = q
       \/ /\ AwaitsWallet(p)
          /\ session[q].at = "entered" /\ session[q].user = session[p].user

\* The database finds two transactions that wait for each other and rolls one
\* of them back.
Victim(p) ==
    /\ \E q \in Procs : RowWaitsFor(p, q) /\ RowWaitsFor(q, p)
    /\ Leave(p)

Environment == \E id \in PaymentIds : PortOneMoves(id) /\ UNCHANGED orderVars

Next ==
    \/ \E p \in Procs : Arrive(p) \/ Lock(p) \/ Proceed(p) \/ Close(p) \/ Fail(p) \/ Victim(p)
    \/ Environment

Spec == Init /\ [][Next]_vars

\* The server keeps running a request it has accepted, and the database hands
\* a row to the sessions queued for it, be it for a FOR UPDATE or for the row
\* lock an INSERT or UPDATE takes: a waiter is not passed over for ever.  The
\* event loop takes up what is queued in order.  Both databases look for
\* deadlocks unless they are told not to (Postgres after deadlock_timeout).  No
\* fairness is asked of arrivals, failures (a database need not time a lock
\* wait out) or PortOne.
Fairness ==
    /\ \A p \in Procs : SF_vars(Lock(p)) /\ SF_vars(Proceed(p)) /\ SF_vars(Close(p))
    /\ WF_vars(\E p \in Procs : Victim(p))
FairSpec == Spec /\ Fairness

----------------------------------------------------------------------------
\* The shape of the whole state.
TypeOK == AccountsTypeOK /\ PointsTypeOK /\ OrdersTypeOK

KeysOf(u) == {ledger[u][i].key : i \in 1..Len(ledger[u])}
CountOf(u, key) == Cardinality({i \in 1..Len(ledger[u]) : ledger[u][i].key = key})
RowOf(u, key) == ledger[u][CHOOSE i \in 1..Len(ledger[u]) : ledger[u][i].key = key]
SettlementKeys(o) == {ShortfallKey(o), RefundKey(o), CancelKey(o)}

\* What order o has moved in the ledger: its hold, and the one row that
\* settles its status.
SettledInLedger(o) ==
    LET u == orders[o].user
        hold == orders[o].hold
        spent == orders[o].spent
        Only(keys) == KeysOf(u) \cap SettlementKeys(o) = keys
        Is(key, type, amount) ==
          /\ CountOf(u, key) = 1
          /\ RowOf(u, key).type = type
          /\ RowOf(u, key).amount = amount
    IN  /\ Is(HoldKey(o), "use", hold)
        /\ orders[o].status = "draft" => Only({}) /\ spent = 0
        /\ orders[o].status = "cancelled" =>
             Only({CancelKey(o)}) /\ Is(CancelKey(o), "refund", hold) /\ spent = 0
        /\ orders[o].status = "confirmed" =>
             /\ spent = orders[o].fee
             /\ \/ spent = hold /\ Only({})
                \/ spent > hold /\ Only({ShortfallKey(o)})
                   /\ Is(ShortfallKey(o), "use", spent - hold)
                \/ spent < hold /\ Only({RefundKey(o)})
                   /\ Is(RefundKey(o), "refund", hold - spent)

\* Whatever pay, cancel, complete and their retries do to one order, the
\* ledger holds for it exactly the rows its status calls for: a confirmed
\* order cost its fee, a cancelled one nothing, a draft its hold.
OrdersSettledOnce ==
    \A o \in OrderIds : orders[o].status # "none" => SettledInLedger(o)

\* Client, webhook, failure report and their retries credit a payment at most
\* once, only if PortOne has it paid in full, and never leave it marked paid
\* without the credit.
ChargedOnce ==
    \A id \in PaymentIds : payments[id].status # "none" =>
      LET u == payments[id].user
          credits == CountOf(u, ChargeKey(id))
      IN  /\ credits <= 1
          /\ credits = 1 => /\ remote[id] \in {"PAID", "CANCELLED"}
                            /\ RowOf(u, ChargeKey(id)).amount = payments[id].points
          /\ payments[id].status = "paid" => credits = 1

\* Session p waits for what q holds in the database, or to be closed by the
\* event loop q occupies.
WaitsFor(p, q) ==
    \/ RowWaitsFor(p, q)
    \/ session[p].at = "answered" /\ p # q /\ WorkerOf[p] = WorkerOf[q] /\ OnLoop(q)

\* A group of sessions that wait only for each other.
Deadlocked(S) == S # {} /\ \A p \in S : \E q \in S : WaitsFor(p, q)

\* However the handlers interleave, a group of sessions that wait for each
\* other has a session in it that is opening a user's first wallet and holds
\* its key, and another that has the users row and needs that wallet: two
\* transactions the database can tell apart and break up.  Users before orders
\* and complete_order's order alone admit no other deadlock.
DeadlockOnlyAtFirstWallet ==
    \A S \in SUBSET Procs : Deadlocked(S) =>
      \E p, q \in S :
         /\ session[p].at = "entered" /\ session[p].user \notin opened
         /\ RowWaitsFor(p, q) /\ RowWaitsFor(q, p)

\* One client key never holds points twice.
OneOrderPerKey ==
    \A o1, o2 \in OrderIds :
       orders[o1].key = orders[o2].key /\ orders[o1].key # None => o1 = o2

----------------------------------------------------------------------------
\* A settled order never changes again, and a priced draft can only be paid at
\* that price or cancelled: complete never reprices under a payment.
PricesAreFinal ==
    [][\A o \in OrderIds :
         /\ orders[o].status \in {"confirmed", "cancelled"} => orders'[o] = orders[o]
         /\ orders[o].status = "draft" /\ Priced(o) =>
              /\ orders'[o].fee = orders[o].fee /\ orders'[o].hold = orders[o].hold
              /\ Priced(o)']_vars

\* "pending -> failed": a failed status is only ever written over a pending one.
FailsOnlyPending ==
    [][\A id \in PaymentIds :
         payments'[id].status = "failed" => payments[id].status \in {"pending", "failed"}]_vars

\* Every request that has been accepted is answered and its Session closed.
RequestsAnswered == \A p \in Procs : session[p] # Idle ~> session[p] = Idle

\* "웹훅 검증 후 PAID면 적립": every webhook the server has taken is worked off.
WebhooksHandled ==
    \A p \in Procs : session[p].op = "webhook" ~> session[p].op # "webhook"

----------------------------------------------------------------------------
(* The promise of PointAccounts, implemented.                              *)

Journal(u) ==
    [i \in 1..Len(ledger[u]) |-> [for |-> ledger[u][i].key, delta |-> Signed(ledger[u][i])]]

Stage(status) ==
    CASE status = "none" -> "none" [] status = "draft" -> "held"
      [] status = "confirmed" -> "settled" [] status = "cancelled" -> "released"

HoldOf(o) == [stage |-> Stage(orders[o].status), user |-> orders[o].user,
              hold |-> orders[o].hold, cost |-> orders[o].spent]

Promise == INSTANCE PointAccounts WITH
    points <- balance,
    journal <- [u \in Users |-> Journal(u)],
    holds <- [o \in OrderIds |-> HoldOf(o)]

\* Every step of the service moves points as the promise says, or not at all:
\* no interleaving of handlers loses, repeats or misbooks a movement.
KeepsPromise == Promise!PromiseSpec
=============================================================================
