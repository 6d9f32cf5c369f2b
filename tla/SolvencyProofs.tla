---------------------------- MODULE SolvencyProofs ----------------------------
(***************************************************************************)
(* No wallet is overdrawn, at either isolation level.                      *)
(***************************************************************************)
EXTENDS ChargingServiceProofs

\* An order never changes hands.
OrdersStay ==
    \A o \in OrderIds : orders[o].status # "none" =>
       orders'[o].status # "none" /\ orders'[o].user = orders[o].user

\* A session that settles an order is its owner's.
OwnOrders ==
    \A p \in Procs :
       session[p].at # "idle" /\ session[p].op \in {"complete", "pay", "cancel"} =>
         /\ orders[session[p].ref].status # "none"
         /\ orders[session[p].ref].user = session[p].user

\* A session that has read a balance, however stale, has read one that was
\* never negative.
Solvent == NoOverdraft /\ OwnOrders /\ \A p \in Procs : seen[p].balance >= 0

----------------------------------------------------------------------------
(* One lemma per kind of step.                                             *)

\* Whoever owns an order by then still does when sessions only move on or end.
LEMMA OwnersKept ==
  ASSUME TypeInv, OwnOrders, OrdersStay,
         \A q \in Procs : \/ session'[q].at = "idle"
                          \/ /\ session'[q].op = session[q].op /\ session[q].at # "idle"
                             /\ session'[q].user = session[q].user
                             /\ session'[q].ref = session[q].ref
  PROVE  OwnOrders'
  BY DEF OwnOrders, OrdersStay, TypeInv, SessionsNamed, Named

\* Arrivals preserve Solvent.
LEMMA ArriveSolvent ==
  ASSUME TypeInv, Solvent, NEW p \in Procs, Arrive(p)
  PROVE  Solvent'
<1>1. PICK op \in Ops, u \in Users, ref \in Refs \cup {None} :
        /\ Begin(p, op, u, ref)
        /\ op \in {"complete", "pay", "cancel"} =>
             ref \in OrderIds /\ orders[ref].status # "none" /\ orders[ref].user = u
  <2>1. CASE BeginAccount(p)
    BY <2>1 DEF BeginAccount, BeginBalance, BeginWithdraw, BeginAs, Ops, TypeInv, TypeOK,
       AccountsTypeOK
  <2>2. CASE BeginPoints(p)
    BY <2>2, PointsAssumption DEF BeginPoints, BeginCreateCharge, BeginFailCharge, BeginCompleteCharge,
       BeginCredit, BeginAs, Ops, TypeInv, TypeOK, AccountsTypeOK, RowsOwned
  <2>3. CASE BeginOrders(p)
    BY <2>3, UsageOrdersAssumption DEF BeginOrders, BeginPreAuthorize, BeginCompleteOrder, BeginPayOrder,
       BeginCancelOrder, BeginOn, BeginAs, Ops, TypeInv, TypeOK, AccountsTypeOK, RowsOwned
  <2> QED
    BY <2>1, <2>2, <2>3 DEF Arrive
<1>2. UNCHANGED <<balance, orders>>
  BY <1>1 DEF Arrive, BeginOrders, BeginPreAuthorize, BeginCompleteOrder, BeginPayOrder,
     BeginCancelOrder, BeginOn, Begin, rows, orderVars
<1>3. /\ session \in [Procs -> Session] /\ seen \in [Procs -> WalletRow]
      /\ balance \in [Users -> Int]
  BY DEF TypeInv, TypeOK, AccountsTypeOK
<1>4. OwnOrders'
  BY <1>1, <1>2, <1>3 DEF Begin, Solvent, OwnOrders
<1>5. \A q \in Procs : seen'[q].balance >= 0
  BY <1>1, <1>2, <1>3 DEF Begin, Solvent, NoOverdraft, Wallet, Unread
<1> QED
  BY <1>2, <1>4, <1>5 DEF Solvent, NoOverdraft

\* Row locks preserve Solvent.
LEMMA LockSolvent ==
  ASSUME TypeInv, Solvent, NEW p \in Procs, Lock(p)
  PROVE  Solvent'
<1>1. /\ session \in [Procs -> Session] /\ seen \in [Procs -> WalletRow]
      /\ balance \in [Users -> Int] /\ SessionsNamed
  BY DEF TypeInv, TypeOK, AccountsTypeOK
<1>2. /\ UNCHANGED orders
      /\ \/ LockUser(p)
         \/ session[p].at # "idle" /\ \E stage \in {"entered", "ordered"} : MoveTo(p, stage)
  BY DEF Lock, EnterWallet, LockForPoints, LockPayer, LockCredit, LockForOrders,
         LockForPreAuthorize, LockForSettling, LockOrder, At, orderVars
<1>3. UNCHANGED balance
  BY <1>2 DEF LockUser, MoveTo, rows
<1>4. OwnOrders'
  BY <1>1, <1>2, OwnersKept DEF LockUser, MoveTo, Session, OrdersStay, Solvent
<1>5. \A q \in Procs : seen'[q].balance >= 0
  BY <1>1, <1>2 DEF LockUser, MoveTo, Wallet, Solvent, NoOverdraft, SessionsNamed, Named
<1> QED
  BY <1>3, <1>4, <1>5 DEF Solvent, NoOverdraft

\* A session that ends is solvent if what it wrote is.
LEMMA EndSolvent ==
  ASSUME TypeInv, Solvent, NEW p \in Procs, End(p), OrdersStay, NoOverdraft'
  PROVE  Solvent'
<1>1. \A q \in Procs : session'[q] = Idle \/ (session'[q] = session[q])
  BY DEF End, TypeInv, TypeOK, AccountsTypeOK
<1>2. OwnOrders'
  BY <1>1, OwnersKept DEF Idle, Solvent
<1>3. \A q \in Procs : seen'[q].balance >= 0
  BY DEF End, Unread, Solvent, TypeInv, TypeOK, AccountsTypeOK
<1> QED
  BY <1>2, <1>3 DEF Solvent

\* A posting that leaves its own wallet at zero or above overdraws no other.
LEMMA PostSolvent ==
  ASSUME TypeInv, NoOverdraft, NEW p \in Procs, NEW type, NEW amount, NEW new \in Int,
         NEW key, Post(p, type, amount, new, key), new >= 0
  PROVE  NoOverdraft'
  BY DEF Post, NoOverdraft, TypeInv, TypeOK, AccountsTypeOK

\* The points handlers preserve Solvent.
LEMMA PointsSolvent ==
  ASSUME TypeInv, Solvent, NEW p \in Procs, PointsStep(p), UNCHANGED orderVars
  PROVE  Solvent'
<1> USE DEF TypeInv, TypeOK
<1>0. seen[p].balance >= 0 /\ seen[p].balance \in Int /\ NoOverdraft
  BY DEF Solvent, AccountsTypeOK, WalletRow
<1>1. CASE session[p].at = "locked" /\ \E stage \in {"asked", "answered"} : MoveTo(p, stage)
  <2>1. OwnOrders'
    BY <1>1, OwnersKept DEF MoveTo, AccountsTypeOK, Session, OrdersStay, Solvent, orderVars
  <2> QED
    BY <1>1, <2>1 DEF MoveTo, rows, Solvent, NoOverdraft
<1>2. CASE End(p) /\ UNCHANGED balance
  BY <1>2, EndSolvent DEF OrdersStay, orderVars, Solvent, NoOverdraft
<1>3. CASE SettleCharge(p) /\ Credit(p)
  <2> DEFINE granted == payments[session[p].ref].points
             new == seen[p].balance + granted
  <2>1. granted \in Nat
    BY <1>3 DEF SettleCharge, SessionsNamed, Named, PointsTypeOK, Payment
  <2>2. new \in Int /\ new >= 0
    BY <1>0, <2>1
  <2>3. Post(p, "charge", granted, new, ChargeKey(session[p].ref))
    BY <1>3 DEF Credit
  <2>4. NoOverdraft'
    <3> HIDE DEF new, granted
    <3> QED
      BY <1>0, <2>2, <2>3, PostSolvent
  <2> QED
    BY <1>3, <2>4, EndSolvent DEF SettleCharge, EndPoints, OrdersStay, orderVars
<1>4. CASE CreditPoints(p) /\ AdjustBalance(p)
  <2>1. PICK points \in Adjustments :
          LET old == seen[p].balance
              new == IF old + points < 0 THEN 0 ELSE old + points
          IN  Post(p, "adjust", new - old, new, <<"adjust", None>>)
    BY <1>4 DEF AdjustBalance
  <2> DEFINE old == seen[p].balance
             new == IF old + points < 0 THEN 0 ELSE old + points
  <2>2. new \in Int /\ new >= 0
    BY <1>0, PointsAssumption
  <2>3. NoOverdraft'
    <3>1. Post(p, "adjust", new - old, new, <<"adjust", None>>)
      BY <2>1
    <3> HIDE DEF new, old
    <3> QED
      BY <1>0, <2>2, <3>1, PostSolvent
  <2> QED
    BY <1>4, <2>3, EndSolvent DEF CreditPoints, EndPoints, OrdersStay, orderVars
<1> QED
  BY <1>1, <1>2, <1>3, <1>4 DEF PointsStep, CreateCharge, FailCharge, AskPortOne,
     SettleCharge, CreditPoints, EndPoints, rows

\* The steps of an order preserve Solvent.
LEMMA OrdersSolvent ==
  ASSUME TypeInv, Solvent, NEW p \in Procs, OrdersStep(p), UNCHANGED pointVars
  PROVE  Solvent'
<1> USE DEF TypeInv, TypeOK
<1>0. NoOverdraft /\ balance \in [Users -> Int] /\ orders \in [OrderIds -> Order]
  BY DEF Solvent, AccountsTypeOK, OrdersTypeOK
<1>8. session[p].at # "idle"
  BY DEF OrdersStep, PreAuthorize, CompleteOrder, PayOrder, CancelOrder, At
<1>9. CASE Replay(p)
  <2>1. OwnOrders'
    BY <1>8, <1>9, OwnersKept
    DEF Replay, MoveTo, AccountsTypeOK, Session, OrdersStay, Solvent, orderVars
  <2> QED
    BY <1>9, <2>1 DEF Replay, MoveTo, rows, Solvent, NoOverdraft
<1> SUFFICES ASSUME ~Replay(p) PROVE Solvent'
  BY <1>9
<1>1. End(p) /\ session[p].at # "idle"
  BY <1>8 DEF OrdersStep, PreAuthorize, CompleteOrder, PayOrder, CancelOrder, EndOrders
<1>2. session[p].user \in Users
  BY <1>1 DEF SessionsNamed, Named
<1>3. CASE At(p, "preauth", "locked") /\ PlaceHold(p)
  <2> DEFINE u == session[p].user
  <2>1. PICK o \in OrderIds, hold \in Holds(u) :
          Post(p, "use", hold, balance[u] - hold, HoldKey(o))
    BY <1>3 DEF PlaceHold
  <2>2. balance[u] \in Int /\ hold \in Int /\ balance[u] >= hold
    BY <1>0, <1>2, UsageOrdersAssumption DEF Holds
  <2>3. balance[u] - hold \in Int /\ balance[u] - hold >= 0
    BY <2>2
  <2>4. NoOverdraft'
    BY <1>0, <2>1, <2>3, PostSolvent
  <2>5. OrdersStay
    BY <1>0, <1>3 DEF PlaceHold, OrdersStay
  <2> QED
    BY <1>1, <2>4, <2>5, EndSolvent
<1>4. CASE At(p, "complete", "ordered") /\ PriceOrder(p)
  <2>1. OrdersStay /\ UNCHANGED balance
    BY <1>0, <1>4 DEF PriceOrder, OrdersStay, Order, rows
  <2> QED
    BY <1>0, <1>1, <2>1, EndSolvent DEF NoOverdraft
<1>5. CASE At(p, "pay", "ordered") /\ SettleOrder(p)
  <2> DEFINE o == session[p].ref
             u == session[p].user
             hold == orders[o].hold
             fee == orders[o].fee
             new == balance[u] + hold - fee
  <2>1. o \in OrderIds /\ orders[o] \in Order /\ orders[o].user = u
    BY <1>0, <1>5 DEF At, SessionsNamed, Named, Solvent, OwnOrders
  <2>2. hold \in Nat /\ fee \in Nat /\ balance[u] \in Int /\ balance[u] >= 0
    BY <1>0, <1>2, <2>1 DEF Order, NoOverdraft
  <2>3. fee > hold => balance[u] >= fee - hold
    BY <1>5, <2>1 DEF SettleOrder, Payable
  <2>4. new \in Int /\ new >= 0
    BY <2>2, <2>3
  <2>5. OrdersStay
    BY <1>0, <1>5, <2>1 DEF SettleOrder, OrdersStay, Order
  <2>6. CASE Post(p, "use", fee - hold, new, ShortfallKey(o))
    <3> HIDE DEF new, fee, hold
    <3> QED
      BY <1>0, <1>1, <2>4, <2>5, <2>6, PostSolvent, EndSolvent
  <2>7. CASE Post(p, "refund", hold - fee, new, RefundKey(o))
    <3> HIDE DEF new, fee, hold
    <3> QED
      BY <1>0, <1>1, <2>4, <2>5, <2>7, PostSolvent, EndSolvent
  <2>8. CASE UNCHANGED balance
    BY <1>0, <1>1, <2>5, <2>8, EndSolvent DEF NoOverdraft
  <2> QED
    BY <1>5, <2>6, <2>7, <2>8 DEF SettleOrder, PostOnce
<1>6. CASE At(p, "cancel", "ordered") /\ RefundHold(p)
  <2> DEFINE o == session[p].ref
             u == session[p].user
             hold == orders[o].hold
             new == balance[u] + hold
  <2>1. o \in OrderIds /\ orders[o] \in Order
    BY <1>0, <1>6 DEF At, SessionsNamed, Named
  <2>2. hold \in Nat /\ balance[u] \in Int /\ balance[u] >= 0
    BY <1>0, <1>2, <2>1 DEF Order, NoOverdraft
  <2>3. new \in Int /\ new >= 0
    BY <2>2
  <2>4. OrdersStay
    BY <1>0, <1>6, <2>1 DEF RefundHold, OrdersStay, Order
  <2>5. CASE Post(p, "refund", hold, new, CancelKey(o))
    <3> HIDE DEF new, hold
    <3> QED
      BY <1>0, <1>1, <2>3, <2>4, <2>5, PostSolvent, EndSolvent
  <2>6. CASE UNCHANGED balance
    BY <1>0, <1>1, <2>4, <2>6, EndSolvent DEF NoOverdraft
  <2> QED
    BY <1>6, <2>5, <2>6 DEF RefundHold, PostOnce
<1>7. CASE NoWrites
  BY <1>0, <1>1, <1>7, EndSolvent DEF NoWrites, rows, OrdersStay, NoOverdraft
<1> QED
  BY <1>3, <1>4, <1>5, <1>6, <1>7
  DEF OrdersStep, PreAuthorize, CompleteOrder, PayOrder, CancelOrder

\* Every step preserves Solvent.
LEMMA NextSolvent == TypeInv /\ Solvent /\ [Next]_vars => Solvent'
<1> SUFFICES ASSUME TypeInv, Solvent, [Next]_vars PROVE Solvent'
  OBVIOUS
<1>1. ASSUME NEW p \in Procs, AccountStep(p), UNCHANGED orderVars PROVE Solvent'
  <2>1. End(p) /\ UNCHANGED balance
    BY <1>1 DEF AccountStep, GetBalance, WithdrawUser
  <2> QED
    BY <1>1, <2>1, EndSolvent DEF OrdersStay, orderVars, Solvent, NoOverdraft
<1>2. ASSUME NEW p \in Procs, Proceed(p) PROVE Solvent'
  BY <1>1, <1>2, PointsSolvent, OrdersSolvent DEF Proceed
<1>3. ASSUME NEW p \in Procs, Leave(p) PROVE Solvent'
  BY <1>3, EndSolvent DEF Leave, Rollback, rows, OrdersStay, Solvent, NoOverdraft
<1>4. CASE Environment
  BY <1>4 DEF Environment, PortOneMoves, accountVars, rows, orderVars, Solvent, OwnOrders,
              NoOverdraft
<1>5. CASE UNCHANGED vars
  BY <1>5 DEF vars, accountVars, orderVars, Solvent, OwnOrders, NoOverdraft
<1> QED
  BY <1>2, <1>3, <1>4, <1>5, ArriveSolvent, LockSolvent DEF Next, Close, Fail, Victim

\* Whatever requests interleave, at READ COMMITTED or at REPEATABLE READ, no
\* hold, settlement or adjustment leaves a wallet below zero.
THEOREM NeverOverdrawn == Spec => []NoOverdraft
<1>1. Init => Solvent
  BY DEF Init, AccountsInit, Idle, Unread, Solvent, OwnOrders, NoOverdraft
<1>2. Solvent => NoOverdraft
  BY DEF Solvent
<1> QED
  BY <1>1, <1>2, NextSolvent, TypeCorrect, PTL DEF Spec
=============================================================================
