------------------------ MODULE ChargingServiceProofs -------------------------
(***************************************************************************)
(* Type correctness of the money core and the only deadlock its row locks  *)
(* admit, for every set of users, requests, orders and payments and at     *)
(* both isolation levels.                                                  *)
(***************************************************************************)
EXTENDS ChargingService, TLAPS

----------------------------------------------------------------------------
(* Types.                                                                  *)

\* What a session in progress names belongs to the tables its handler reads.
Named(s) ==
    /\ s.op \in Served \cup {"idle"}
    /\ s.at # "idle" => s.user \in Users
    /\ s.at # "idle" /\ s.op \in {"charge", "webhook", "fail"} =>
         s.ref \in PaymentIds /\ payments[s.ref].status # "none"
    /\ s.at # "idle" /\ s.op \in {"complete", "pay", "cancel"} => s.ref \in OrderIds
    /\ s.at # "idle" /\ s.op = "preauth" => s.ref \in ClientKeys \cup {None}

SessionsNamed == \A p \in Procs : Named(session[p])

\* A row that exists has an owner.
RowsOwned ==
    /\ \A id \in PaymentIds : payments[id].status # "none" => payments[id].user \in Users
    /\ \A o \in OrderIds : orders[o].status # "none" => orders[o].user \in Users

\* A payments row is never deleted.
PaymentsStay ==
    \A id \in PaymentIds : payments[id].status # "none" => payments'[id].status # "none"

TypeInv == TypeOK /\ SessionsNamed /\ RowsOwned

\* The tables start empty and every slot idle.
LEMMA InitTyped == Init => TypeInv
<1> SUFFICES ASSUME Init PROVE TypeInv
  OBVIOUS
<1> USE AccountsAssumption, PointsAssumption, UsageOrdersAssumption DEF Init
<1>1. AccountsTypeOK
  <2>1. Idle \in Session /\ Unread \in WalletRow
    BY DEF Idle, Session, Stages, Ops, Unread, WalletRow
  <2>2. <<>> \in Seq(Row)
    OBVIOUS
  <2> QED
    BY <2>1, <2>2 DEF AccountsInit, AccountsTypeOK
<1>2. PointsTypeOK
  BY DEF PointsInit, PointsTypeOK, NoPayment, Payment, PaymentStatuses,
         NoPayView, PayView, RemoteStatuses
<1>3. OrdersTypeOK
  BY DEF OrdersInit, OrdersTypeOK, NoOrder, Order, OrderStatuses, KwhSources
<1>4. SessionsNamed
  BY DEF AccountsInit, SessionsNamed, Named, Idle
<1>5. RowsOwned
  BY DEF PointsInit, OrdersInit, RowsOwned, NoPayment, NoOrder
<1> QED
  BY <1>1, <1>2, <1>3, <1>4, <1>5 DEF TypeInv, TypeOK

\* A request that arrives keeps the rows and the sessions typed.
LEMMA BeginTyped ==
  ASSUME AccountsTypeOK, NEW p \in Procs, NEW op \in Ops, NEW u \in Users,
         NEW ref \in Refs \cup {None}, Begin(p, op, u, ref)
  PROVE  AccountsTypeOK'
<1> USE DEF AccountsTypeOK
<1>1. session' \in [Procs -> Session]
  BY DEF Begin, Session, Stages, LoadsUserAtBegin
<1>2. seen' \in [Procs -> WalletRow]
  BY DEF Begin, WalletRow, Wallet, Unread
<1> QED
  BY <1>1, <1>2 DEF Begin, rows

\* Taking the users lock, and the reads that follow, keep them typed.
LEMMA LockUserTyped ==
  ASSUME AccountsTypeOK, SessionsNamed, NEW p \in Procs, LockUser(p)
  PROVE  AccountsTypeOK'
<1> USE DEF AccountsTypeOK
<1>1. session[p].user \in Users /\ session[p] \in Session
  BY DEF LockUser, SessionsNamed, Named
<1>2. PointHeld(p) \in Int
  BY <1>1 DEF PointHeld, Session
<1>3. session' \in [Procs -> Session]
  BY <1>1, <1>2 DEF LockUser, Session, Stages
<1>4. seen' \in [Procs -> WalletRow]
  BY <1>1 DEF LockUser, WalletRow, Wallet
<1>5. userLock' \in [Users -> Procs \cup {None}]
  BY <1>1 DEF LockUser
<1> QED
  BY <1>3, <1>4, <1>5 DEF LockUser, rows

\* Ending a session types what ending one writes.
LEMMA EndTyped ==
  ASSUME AccountsTypeOK, NEW p \in Procs, End(p)
  PROVE  /\ session' \in [Procs -> Session]
         /\ seen' \in [Procs -> WalletRow]
         /\ userLock' \in [Users -> Procs \cup {None}]
  BY DEF AccountsTypeOK, End, Idle, Session, Stages, Unread, WalletRow

\* Moving on to the next stage keeps everything typed.
LEMMA MoveTyped ==
  ASSUME AccountsTypeOK, NEW p \in Procs, NEW stage \in Stages, MoveTo(p, stage)
  PROVE  AccountsTypeOK'
<1> USE DEF AccountsTypeOK
<1>1. session' \in [Procs -> Session]
  BY DEF MoveTo, Session
<1> QED
  BY <1>1 DEF MoveTo, rows

\* A posting with a typed row keeps the wallet and the ledger typed.
LEMMA PostTyped ==
  ASSUME AccountsTypeOK, NEW p \in Procs, session[p].user \in Users,
         NEW type \in RowTypes, NEW amount \in Int, NEW new \in Int, NEW key \in Keys,
         Post(p, type, amount, new, key)
  PROVE  /\ balance' \in [Users -> Int]
         /\ point' \in [Users -> Int]
         /\ ledger' \in [Users -> Seq(Row)]
<1> USE DEF AccountsTypeOK
<1> DEFINE row == [type |-> type, amount |-> amount, after |-> new, key |-> key]
           u == session[p].user
<1>1. row \in Row
  BY DEF Row
<1>2. Append(ledger[u], row) \in Seq(Row)
  BY <1>1
<1>3. ledger' = [ledger EXCEPT ![u] = Append(ledger[u], row)]
  BY DEF Post
<1>4. ledger' \in [Users -> Seq(Row)]
  BY <1>2, <1>3
<1> QED
  BY <1>4 DEF Post

\* A new session names rows of the right tables if its request does.
LEMMA BeginNamed ==
  ASSUME AccountsTypeOK, SessionsNamed, NEW p \in Procs, NEW op, NEW u \in Users, NEW ref,
         Begin(p, op, u, ref), UNCHANGED payments,
         op \in {"charge", "webhook", "fail"} =>
           ref \in PaymentIds /\ payments[ref].status # "none",
         op \in {"complete", "pay", "cancel"} => ref \in OrderIds,
         op = "preauth" => ref \in ClientKeys \cup {None}
  PROVE  SessionsNamed'
<1> SUFFICES ASSUME NEW q \in Procs PROVE Named(session[q])'
  BY DEF SessionsNamed
<1>1. CASE q = p
  BY <1>1 DEF Begin, Named, AccountsTypeOK
<1>2. CASE q # p
  BY <1>2 DEF Begin, Named, SessionsNamed, AccountsTypeOK
<1> QED
  BY <1>1, <1>2

\* A session that gets the users lock names what it named.
LEMMA LockUserNamed ==
  ASSUME AccountsTypeOK, SessionsNamed, NEW p \in Procs, LockUser(p), PaymentsStay
  PROVE  SessionsNamed'
<1> SUFFICES ASSUME NEW q \in Procs PROVE Named(session[q])'
  BY DEF SessionsNamed
<1>1. /\ session'[q].user = session[q].user /\ session'[q].ref = session[q].ref
      /\ session'[q].op = session[q].op
      /\ session'[q].at # "idle" => session[q].at # "idle"
  BY DEF LockUser, AccountsTypeOK, Session
<1> QED
  BY <1>1 DEF Named, SessionsNamed, PaymentsStay

\* A session that moves on names what it named.
LEMMA MoveNamed ==
  ASSUME AccountsTypeOK, SessionsNamed, NEW p \in Procs, NEW stage,
         session[p].at # "idle", MoveTo(p, stage), PaymentsStay
  PROVE  SessionsNamed'
<1> SUFFICES ASSUME NEW q \in Procs PROVE Named(session[q])'
  BY DEF SessionsNamed
<1>1. /\ session'[q].user = session[q].user /\ session'[q].ref = session[q].ref
      /\ session'[q].op = session[q].op
      /\ session'[q].at # "idle" => session[q].at # "idle"
  BY DEF MoveTo, AccountsTypeOK, Session
<1> QED
  BY <1>1 DEF Named, SessionsNamed, PaymentsStay

\* A session that has ended names nothing.
LEMMA EndNamed ==
  ASSUME AccountsTypeOK, SessionsNamed, NEW p \in Procs, End(p), PaymentsStay
  PROVE  SessionsNamed'
  BY DEF PaymentsStay, AccountsTypeOK, SessionsNamed, Named, End, Idle

\* A session that ends leaves the shape of the shared rows to what it wrote.
LEMMA EndAccounts ==
  ASSUME AccountsTypeOK, NEW p \in Procs, End(p),
         active' \subseteq Users, opened' \subseteq Users,
         point' \in [Users -> Int], balance' \in [Users -> Int],
         ledger' \in [Users -> Seq(Row)]
  PROVE  AccountsTypeOK'
  BY EndTyped DEF AccountsTypeOK

\* Every idempotency key of a posting is one of Keys.
LEMMA KeysTyped ==
  /\ \A o \in OrderIds : {HoldKey(o), ShortfallKey(o), RefundKey(o), CancelKey(o)} \subseteq Keys
  /\ \A id \in PaymentIds : ChargeKey(id) \in Keys
  /\ <<"adjust", None>> \in Keys
  BY PointsAssumption, UsageOrdersAssumption
  DEF Keys, HoldKey, ShortfallKey, RefundKey, CancelKey, ChargeKey

----------------------------------------------------------------------------
(* Every step preserves TypeInv.                                           *)

\* Arrivals preserve TypeInv.
LEMMA ArriveTyped ==
  ASSUME TypeInv, NEW p \in Procs, Arrive(p)
  PROVE  TypeInv'
<1> USE DEF TypeInv, TypeOK
<1>1. CASE BeginAccount(p) /\ UNCHANGED <<pointVars, orderVars>>
  <2>1. PICK u \in Users, op \in {"balance", "withdraw"} : Begin(p, op, u, None)
    BY <1>1 DEF BeginAccount, BeginBalance, BeginWithdraw, BeginAs
  <2>2. AccountsTypeOK' /\ SessionsNamed'
    BY <1>1, <2>1, BeginTyped, BeginNamed DEF Ops, pointVars
  <2> QED
    BY <1>1, <2>2 DEF pointVars, orderVars, PointsTypeOK, OrdersTypeOK, RowsOwned
<1>2. CASE BeginPoints(p) /\ UNCHANGED orderVars
  <2>1. OrdersTypeOK'
    BY <1>2 DEF orderVars, OrdersTypeOK
  <2>2. /\ PointsTypeOK' /\ RowsOwned' /\ UNCHANGED payments
        /\ \E u \in Users, op \in {"create", "fail", "charge", "webhook", "credit", "creditown"},
              ref \in PaymentIds \cup {None} :
             /\ Begin(p, op, u, ref)
             /\ op \in {"charge", "webhook", "fail"} =>
                  ref \in PaymentIds /\ payments[ref].status # "none"
    <3>1. CASE BeginCreateCharge(p)
      BY <1>2, <3>1
      DEF BeginCreateCharge, BeginAs, pointVars, orderVars, PointsTypeOK, RowsOwned
    <3>2. CASE BeginCredit(p)
      <4>1. \E u \in Users : Begin(p, "credit", u, None) \/ Begin(p, "creditown", u, None)
        BY <3>2 DEF BeginCredit, BeginAs
      <4> QED
        BY <1>2, <3>2, <4>1 DEF BeginCredit, pointVars, orderVars, PointsTypeOK, RowsOwned
    <3>3. ASSUME NEW id \in PaymentIds PROVE PaymentRead(id) \in PayView
      BY DEF PaymentRead, PayView, PointsTypeOK, Payment, RemoteStatuses, Posted
    <3>4. CASE BeginFailCharge(p)
      BY <1>2, <3>3, <3>4
      DEF BeginFailCharge, BeginAs, orderVars, PointsTypeOK, RowsOwned
    <3>5. CASE BeginCompleteCharge(p)
      <4>1. NoPayView \in PayView
        BY DEF NoPayView, PayView, PaymentStatuses, RemoteStatuses
      <4> QED
        BY <1>2, <3>3, <3>5, <4>1
        DEF BeginCompleteCharge, BeginAs, orderVars, PointsTypeOK, RowsOwned
    <3> QED
      BY <1>2, <3>1, <3>2, <3>4, <3>5 DEF BeginPoints
  <2>3. PICK u \in Users, op \in {"create", "fail", "charge", "webhook", "credit", "creditown"},
             ref \in PaymentIds \cup {None} :
             /\ Begin(p, op, u, ref)
             /\ op \in {"charge", "webhook", "fail"} =>
                  ref \in PaymentIds /\ payments[ref].status # "none"
    BY <2>2
  <2>4. AccountsTypeOK' /\ SessionsNamed'
    BY <2>2, <2>3, BeginTyped, BeginNamed, PointsAssumption DEF Ops
  <2> QED
    BY <2>1, <2>2, <2>4
<1>3. CASE BeginOrders(p) /\ UNCHANGED pointVars
  <2>1. PointsTypeOK'
    BY <1>3 DEF pointVars, PointsTypeOK
  <2>2. /\ OrdersTypeOK' /\ RowsOwned'
        /\ \E u \in Users, op \in {"preauth", "complete", "pay", "cancel"},
              ref \in ClientKeys \cup OrderIds \cup {None} :
             /\ Begin(p, op, u, ref)
             /\ op = "preauth" => ref \in ClientKeys \cup {None}
             /\ op # "preauth" => ref \in OrderIds
    <3>1. CASE BeginPreAuthorize(p)
      <4>1. ASSUME NEW k PROVE OrderWithKey(k) \in OrderIds \cup {None}
        BY DEF OrderWithKey
      <4> QED
        BY <1>3, <3>1, <4>1 DEF BeginPreAuthorize, BeginAs, pointVars, OrdersTypeOK, RowsOwned
    <3>2. ASSUME NEW op \in {"complete", "pay", "cancel"}, BeginOn(p, op)
          PROVE  /\ OrdersTypeOK' /\ RowsOwned'
                 /\ \E u \in Users, ref \in OrderIds : Begin(p, op, u, ref)
      BY <1>3, <3>2 DEF BeginOn, BeginAs, pointVars, orderVars, OrdersTypeOK, RowsOwned
    <3> QED
      BY <1>3, <3>1, <3>2
      DEF BeginOrders, BeginCompleteOrder, BeginPayOrder, BeginCancelOrder
  <2>3. PICK u \in Users, op \in {"preauth", "complete", "pay", "cancel"},
             ref \in ClientKeys \cup OrderIds \cup {None} :
             /\ Begin(p, op, u, ref)
             /\ op = "preauth" => ref \in ClientKeys \cup {None}
             /\ op # "preauth" => ref \in OrderIds
    BY <2>2
  <2>4. AccountsTypeOK' /\ SessionsNamed'
    BY <1>3, <2>3, BeginTyped, BeginNamed, UsageOrdersAssumption DEF Ops, pointVars
  <2> QED
    BY <2>1, <2>2, <2>4
<1> QED
  BY <1>1, <1>2, <1>3 DEF Arrive

\* What a session reads of a payment has the type of a view.
LEMMA PaymentReadTyped ==
  ASSUME TypeInv, NEW id \in PaymentIds
  PROVE  PaymentRead(id) \in PayView
  BY DEF PaymentRead, PayView, TypeInv, TypeOK, PointsTypeOK, Payment, RemoteStatuses, Posted

\* Row locks preserve TypeInv.
LEMMA LockTyped ==
  ASSUME TypeInv, NEW p \in Procs, Lock(p)
  PROVE  TypeInv'
<1> USE DEF TypeInv, TypeOK
<1>0. PaymentsStay
  BY DEF Lock, LockForPoints, LockPayer, LockCredit, pointVars, PaymentsStay
<1>3. CASE EnterWallet(p) /\ UNCHANGED <<pointVars, orderVars>>
  <2>1. session[p].at # "idle" /\ MoveTo(p, "entered")
    BY <1>3 DEF EnterWallet
  <2>2. AccountsTypeOK' /\ SessionsNamed'
    BY <2>1, MoveTyped, MoveNamed, <1>0 DEF Stages
  <2> QED
    BY <1>3, <2>2 DEF pointVars, orderVars, PointsTypeOK, OrdersTypeOK, RowsOwned
<1>1. CASE LockForPoints(p) /\ UNCHANGED orderVars
  <2>1. LockUser(p)
    BY <1>1 DEF LockForPoints, LockPayer, LockCredit
  <2>2. session[p].op \in {"charge", "webhook"} => session[p].ref \in PaymentIds
    BY <2>1 DEF LockUser, SessionsNamed, Named
  <2>3. PointsTypeOK' /\ UNCHANGED payments
    BY <1>1, <2>2, PaymentReadTyped
    DEF LockForPoints, LockPayer, LockCredit, pointVars, PointsTypeOK
  <2> QED
    BY <1>1, <2>1, <2>3, LockUserTyped, LockUserNamed, <1>0 DEF orderVars, OrdersTypeOK, RowsOwned
<1>2. CASE LockForOrders(p) /\ UNCHANGED pointVars
  <2>1. PointsTypeOK' /\ UNCHANGED payments
    BY <1>2 DEF pointVars, PointsTypeOK
  <2>2. CASE LockForPreAuthorize(p)
    <3>1. OrderWithKey(session[p].ref) \in OrderIds \cup {None}
      BY DEF OrderWithKey
    <3>2. OrdersTypeOK'
      BY <2>2, <3>1 DEF LockForPreAuthorize, OrdersTypeOK
    <3> QED
      BY <2>1, <2>2, <3>2, LockUserTyped, LockUserNamed, <1>0 DEF LockForPreAuthorize, RowsOwned
  <2>3. CASE LockForSettling(p)
    BY <2>1, <2>3, LockUserTyped, LockUserNamed, <1>0
    DEF LockForSettling, orderVars, OrdersTypeOK, RowsOwned
  <2>4. CASE LockOrder(p)
    <3>1. session[p].at # "idle"
      BY <2>4 DEF LockOrder, At
    <3>2. session[p].ref \in OrderIds
      BY <2>4 DEF LockOrder, At, SessionsNamed, Named
    <3>3. OrdersTypeOK'
      BY <2>4, <3>2 DEF LockOrder, OrdersTypeOK
    <3>4. AccountsTypeOK' /\ SessionsNamed'
      BY <2>4, <3>1, MoveTyped, MoveNamed, <1>0 DEF LockOrder, Stages
    <3> QED
      BY <2>1, <2>4, <3>3, <3>4 DEF LockOrder, RowsOwned
  <2> QED
    BY <1>2, <2>2, <2>3, <2>4 DEF LockForOrders
<1> QED
  BY <1>1, <1>2, <1>3 DEF Lock

\* get_balance and withdraw_user preserve TypeInv.
LEMMA AccountStepTyped ==
  ASSUME TypeInv, NEW p \in Procs, AccountStep(p), UNCHANGED <<pointVars, orderVars>>
  PROVE  TypeInv'
<1> USE DEF TypeInv, TypeOK
<1>1. End(p) /\ session[p].at # "idle"
  BY DEF AccountStep, GetBalance, WalletReady, WalletTaken, WithdrawUser, At
<1>2. session[p].user \in Users
  BY <1>1 DEF SessionsNamed, Named
<1>3. AccountsTypeOK'
  BY <1>1, <1>2, EndAccounts
  DEF AccountStep, GetBalance, WithdrawUser, OpenWallet, AccountsTypeOK
<1> QED
  BY <1>1, <1>3, EndNamed DEF PaymentsStay, pointVars, orderVars, PointsTypeOK, OrdersTypeOK, RowsOwned

\* The charging handlers, the webhook and the adjustment preserve TypeInv.
LEMMA PointsStepTyped ==
  ASSUME TypeInv, NEW p \in Procs, PointsStep(p), UNCHANGED orderVars
  PROVE  TypeInv'
<1> USE DEF TypeInv, TypeOK
<1>1. session[p].at # "idle" /\ session[p].user \in Users
  BY DEF PointsStep, CreateCharge, WalletReady, WalletTaken, FailCharge, AskPortOne,
         SettleCharge, CreditPoints, At, SessionsNamed, Named
<1>2. /\ session[p].op \in {"charge", "webhook", "fail"} => session[p].ref \in PaymentIds
      /\ session[p] \in Session /\ payView[p] \in PayView /\ seen[p] \in WalletRow
  BY <1>1 DEF SessionsNamed, Named, AccountsTypeOK, PointsTypeOK
<1>3. OrdersTypeOK' /\ UNCHANGED orders
  BY DEF orderVars, OrdersTypeOK
<1>4. NoPayView \in PayView
  BY DEF NoPayView, PayView, PaymentStatuses, RemoteStatuses
<1>5. ASSUME EndPoints(p), UNCHANGED remote,
             payments' \in [PaymentIds -> Payment], PaymentsStay,
             \A id \in PaymentIds :
                payments'[id].status # "none" => payments'[id].user \in Users,
             active' \subseteq Users, opened' \subseteq Users,
             point' \in [Users -> Int], balance' \in [Users -> Int],
             ledger' \in [Users -> Seq(Row)]
      PROVE  TypeInv'
  <2>1. AccountsTypeOK' /\ SessionsNamed'
    BY <1>5, EndAccounts, EndNamed DEF EndPoints
  <2>2. PointsTypeOK'
    BY <1>4, <1>5 DEF EndPoints, ForgetPayment, PointsTypeOK
  <2> QED
    BY <1>3, <1>5, <2>1, <2>2 DEF RowsOwned
<1>6. CASE CreateCharge(p)
  <2>1. ASSUME NEW id \in PaymentIds, NEW granted \in ChargeAmounts
        PROVE  [status |-> "pending", user |-> session[p].user, points |-> granted] \in Payment
    BY <1>1, PointsAssumption DEF Payment, PaymentStatuses
  <2>2. /\ payments' \in [PaymentIds -> Payment] /\ PaymentsStay
        /\ \A id \in PaymentIds :
             payments'[id].status # "none" => payments'[id].user \in Users
    BY <1>1, <1>6, <2>1 DEF CreateCharge, PointsTypeOK, RowsOwned, PaymentsStay
  <2> QED
    BY <1>1, <1>5, <1>6, <2>2 DEF CreateCharge, OpenWallet, AccountsTypeOK
<1>7. ASSUME NEW status \in PaymentStatuses \ {"none"},
             session[p].op \in {"charge", "webhook", "fail"},
             payments' \in {payments, [payments EXCEPT ![session[p].ref].status = status]}
      PROVE  /\ payments' \in [PaymentIds -> Payment] /\ PaymentsStay
             /\ \A id \in PaymentIds :
                  payments'[id].status # "none" => payments'[id].user \in Users
  <2>1. session[p].ref \in PaymentIds /\ payments[session[p].ref].status # "none"
    BY <1>1, <1>7 DEF SessionsNamed, Named
  <2> QED
    BY <1>7, <2>1 DEF PointsTypeOK, RowsOwned, Payment, PaymentsStay
<1>8. CASE FailCharge(p)
  <2>1. payments' \in {payments, [payments EXCEPT ![session[p].ref].status = "failed"]}
    BY <1>8 DEF FailCharge
  <2>2. /\ payments' \in [PaymentIds -> Payment] /\ PaymentsStay
        /\ \A id \in PaymentIds :
             payments'[id].status # "none" => payments'[id].user \in Users
    BY <1>7, <1>8, <2>1 DEF FailCharge, At, PaymentStatuses
  <2> QED
    BY <1>5, <1>8, <2>2 DEF FailCharge, rows, AccountsTypeOK
<1>9. CASE AskPortOne(p)
  <2>1. PointsTypeOK' /\ UNCHANGED payments
    BY <1>2, <1>9 DEF AskPortOne, PointsTypeOK, PayView
  <2>2. PICK stage \in {"asked", "answered"} : MoveTo(p, stage)
    BY <1>9 DEF AskPortOne
  <2>3. AccountsTypeOK' /\ SessionsNamed'
    BY <1>1, <2>1, <2>2, MoveTyped, MoveNamed DEF Stages, PaymentsStay
  <2> QED
    BY <1>3, <2>1, <2>3 DEF RowsOwned
<1>10. CASE SettleCharge(p)
  <2>1. /\ point' \in [Users -> Int] /\ balance' \in [Users -> Int]
        /\ ledger' \in [Users -> Seq(Row)] /\ UNCHANGED <<active, opened>>
    <3>1. CASE UNCHANGED rows
      BY <3>1 DEF rows, AccountsTypeOK
    <3>2. CASE Credit(p)
      <4> DEFINE id == session[p].ref
                 granted == payments[id].points
      <4>1. id \in PaymentIds /\ granted \in Int /\ seen[p].balance + granted \in Int
        BY <1>2, <1>10 DEF SettleCharge, PointsTypeOK, Payment, WalletRow
      <4>2. Post(p, "charge", granted, seen[p].balance + granted, ChargeKey(id))
        BY <3>2 DEF Credit
      <4>3. ChargeKey(id) \in Keys
        BY <4>1, KeysTyped
      <4> QED
        BY <1>1, <3>2, <4>1, <4>2, <4>3, PostTyped DEF Credit, RowTypes
    <3> QED
      BY <1>10, <3>1, <3>2 DEF SettleCharge
  <2>2. /\ payments' \in [PaymentIds -> Payment] /\ PaymentsStay
        /\ \A id \in PaymentIds :
             payments'[id].status # "none" => payments'[id].user \in Users
    <3>1. \E status \in {"paid", "failed"} :
            payments' \in {payments, [payments EXCEPT ![session[p].ref].status = status]}
      BY <1>10 DEF SettleCharge, Credit, SetPaymentStatus
    <3> QED
      BY <1>7, <1>10, <3>1 DEF SettleCharge, PaymentStatuses
  <2> QED
    BY <1>5, <1>10, <2>1, <2>2 DEF SettleCharge, AccountsTypeOK
<1>11. CASE CreditPoints(p)
  <2>1. /\ point' \in [Users -> Int] /\ balance' \in [Users -> Int]
        /\ ledger' \in [Users -> Seq(Row)] /\ opened' \subseteq Users /\ UNCHANGED active
    <3>1. CASE UNCHANGED rows
      BY <3>1 DEF rows, AccountsTypeOK
    <3>2. CASE AdjustBalance(p)
      <4>1. PICK points \in Adjustments :
              LET old == seen[p].balance
                  new == IF old + points < 0 THEN 0 ELSE old + points
              IN  /\ OpenWallet(p)
                  /\ Post(p, "adjust", new - old, new, <<"adjust", None>>)
                  /\ UNCHANGED active
        BY <3>2 DEF AdjustBalance
      <4> DEFINE old == seen[p].balance
                 new == IF old + points < 0 THEN 0 ELSE old + points
      <4>2. new \in Int /\ new - old \in Int
        BY <1>2, PointsAssumption DEF WalletRow
      <4> QED
        BY <1>1, <4>1, <4>2, PostTyped, KeysTyped DEF OpenWallet, RowTypes, AccountsTypeOK
    <3> QED
      BY <1>11, <3>1, <3>2 DEF CreditPoints
  <2> QED
    BY <1>5, <1>11, <2>1 DEF CreditPoints, AccountsTypeOK, PointsTypeOK, RowsOwned, PaymentsStay
<1> QED
  BY <1>6, <1>8, <1>9, <1>10, <1>11 DEF PointsStep

\* The four steps of a usage order preserve TypeInv.
LEMMA OrdersStepTyped ==
  ASSUME TypeInv, NEW p \in Procs, OrdersStep(p), UNCHANGED pointVars
  PROVE  TypeInv'
<1> USE DEF TypeInv, TypeOK
<1>1. session[p].at # "idle" /\ session[p].user \in Users
  BY DEF OrdersStep, PreAuthorize, CompleteOrder, PayOrder, CancelOrder, At, SessionsNamed, Named
<1>2. session[p].op \in {"complete", "pay", "cancel"} => session[p].ref \in OrderIds
  BY <1>1 DEF SessionsNamed, Named
\* A repeated call changes the session's stage and nothing else.
<1>0. CASE Replay(p)
  <2>1. MoveTo(p, "answered") /\ UNCHANGED orderVars
    BY <1>0 DEF Replay
  <2>2. AccountsTypeOK' /\ SessionsNamed'
    BY <1>1, <2>1, MoveTyped, MoveNamed DEF Stages, pointVars, PaymentsStay
  <2> QED
    BY <2>1, <2>2 DEF pointVars, orderVars, PointsTypeOK, OrdersTypeOK, RowsOwned
<1> SUFFICES ASSUME ~Replay(p) PROVE TypeInv'
  BY <1>0
<1>3. EndOrders(p) /\ UNCHANGED <<active, opened>>
  BY DEF OrdersStep, PreAuthorize, CompleteOrder, PayOrder, CancelOrder, NoWrites, PlaceHold,
         PriceOrder, SettleOrder, RefundHold, rows
<1>4. ASSUME NEW type \in RowTypes, NEW amount \in Int, NEW new \in Int, NEW key \in Keys,
             \/ Post(p, type, amount, new, key)
             \/ PostOnce(p, type, amount, new, key)
      PROVE  /\ point' \in [Users -> Int] /\ balance' \in [Users -> Int]
             /\ ledger' \in [Users -> Seq(Row)]
  <2>1. CASE Post(p, type, amount, new, key)
    BY <1>1, <2>1, PostTyped
  <2>2. CASE UNCHANGED <<balance, ledger, point>>
    BY <2>2 DEF AccountsTypeOK
  <2> QED
    BY <1>4, <2>1, <2>2 DEF PostOnce
<1>5. /\ point' \in [Users -> Int] /\ balance' \in [Users -> Int]
      /\ ledger' \in [Users -> Seq(Row)]
      /\ orders' \in [OrderIds -> Order]
      /\ \A o \in OrderIds : orders'[o].status # "none" => orders'[o].user \in Users
  <2>1. CASE UNCHANGED rows /\ UNCHANGED orders
    BY <2>1 DEF rows, AccountsTypeOK, OrdersTypeOK, RowsOwned
  <2>2. CASE At(p, "preauth", "locked") /\ PlaceHold(p)
    <3> DEFINE u == session[p].user
               k == session[p].ref
    <3>1. k \in ClientKeys \cup {None}
      BY <2>2 DEF At, SessionsNamed, Named
    <3>2. PICK o \in OrderIds, hold \in Holds(u) :
            /\ orders' = [orders EXCEPT ![o] =
                 [status |-> "draft", user |-> u, key |-> k, hold |-> hold,
                  fee |-> hold, spent |-> 0, source |-> "preset"]]
            /\ Post(p, "use", hold, balance[u] - hold, HoldKey(o))
      BY <2>2 DEF PlaceHold
    <3>3. hold \in Nat /\ balance[u] - hold \in Int
      BY <1>1, UsageOrdersAssumption DEF Holds, AccountsTypeOK
    <3>4. [status |-> "draft", user |-> u, key |-> k, hold |-> hold,
           fee |-> hold, spent |-> 0, source |-> "preset"] \in Order
      BY <1>1, <3>1, <3>3 DEF Order, OrderStatuses, KwhSources
    <3>5. /\ orders' \in [OrderIds -> Order]
          /\ \A q \in OrderIds : orders'[q].status # "none" => orders'[q].user \in Users
      BY <1>1, <3>2, <3>4 DEF OrdersTypeOK, RowsOwned
    <3> QED
      BY <1>4, <3>2, <3>3, <3>5, KeysTyped DEF RowTypes
  <2>3. CASE At(p, "complete", "ordered") /\ PriceOrder(p)
    <3>1. /\ orders' \in [OrderIds -> Order]
          /\ \A q \in OrderIds : orders'[q].status # "none" => orders'[q].user \in Users
      BY <1>2, <2>3, UsageOrdersAssumption
      DEF At, PriceOrder, OrdersTypeOK, RowsOwned, Order, KwhSources
    <3> QED
      BY <2>3, <3>1 DEF PriceOrder, rows, AccountsTypeOK
  <2>4. CASE At(p, "pay", "ordered") /\ SettleOrder(p)
    <3> DEFINE o == session[p].ref
               hold == orders[o].hold
               fee == orders[o].fee
               new == balance[session[p].user] + hold - fee
    <3>1. o \in OrderIds /\ orders[o] \in Order
      BY <1>2, <2>4 DEF At, OrdersTypeOK
    <3>2. hold \in Nat /\ fee \in Nat /\ new \in Int
      BY <1>1, <3>1 DEF Order, AccountsTypeOK
    <3>3. /\ orders' \in [OrderIds -> Order]
          /\ \A q \in OrderIds : orders'[q].status # "none" => orders'[q].user \in Users
      BY <2>4, <3>1, <3>2
      DEF SettleOrder, Payable, OrdersTypeOK, RowsOwned, Order, OrderStatuses
    <3>4. \/ PostOnce(p, "use", fee - hold, new, ShortfallKey(o))
          \/ PostOnce(p, "refund", hold - fee, new, RefundKey(o))
          \/ UNCHANGED <<balance, ledger, point>>
      BY <2>4 DEF SettleOrder
    <3>5. fee - hold \in Int /\ hold - fee \in Int
      BY <3>2
    <3>6. ShortfallKey(o) \in Keys /\ RefundKey(o) \in Keys
      BY <3>1, KeysTyped
    <3>7. CASE UNCHANGED <<balance, ledger, point>>
      BY <3>3, <3>7 DEF AccountsTypeOK
    <3> HIDE DEF new, fee, hold
    <3> QED
      BY <1>4, <3>2, <3>3, <3>4, <3>5, <3>6, <3>7 DEF RowTypes
  <2>5. CASE At(p, "cancel", "ordered") /\ RefundHold(p)
    <3> DEFINE o == session[p].ref
               hold == orders[o].hold
               new == balance[session[p].user] + hold
    <3>1. o \in OrderIds /\ orders[o] \in Order
      BY <1>2, <2>5 DEF At, OrdersTypeOK
    <3>2. hold \in Nat /\ new \in Int
      BY <1>1, <3>1 DEF Order, AccountsTypeOK
    <3>3. /\ orders' \in [OrderIds -> Order]
          /\ \A q \in OrderIds : orders'[q].status # "none" => orders'[q].user \in Users
      BY <2>5, <3>1 DEF RefundHold, OrdersTypeOK, RowsOwned, Order, OrderStatuses
    <3>4. PostOnce(p, "refund", hold, new, CancelKey(o)) /\ CancelKey(o) \in Keys
      BY <2>5, <3>1, KeysTyped DEF RefundHold
    <3> QED
      BY <1>4, <3>2, <3>3, <3>4 DEF RowTypes
  <2> QED
    BY <2>1, <2>2, <2>3, <2>4, <2>5
    DEF OrdersStep, PreAuthorize, CompleteOrder, PayOrder, CancelOrder, NoWrites, rows
<1>6. AccountsTypeOK'
  BY <1>3, <1>5, EndAccounts DEF EndOrders, AccountsTypeOK
<1>7. OrdersTypeOK' /\ PointsTypeOK' /\ UNCHANGED payments
  BY <1>3, <1>5 DEF EndOrders, LeaveOrder, OrdersTypeOK, PointsTypeOK, pointVars
<1> QED
  BY <1>3, <1>5, <1>6, <1>7, EndNamed DEF EndOrders, RowsOwned, PaymentsStay

\* A session that is closed or rolled back preserves TypeInv.
LEMMA LeaveTyped ==
  ASSUME TypeInv, NEW p \in Procs, Leave(p)
  PROVE  TypeInv'
<1> USE DEF TypeInv, TypeOK
<1>1. AccountsTypeOK'
  BY EndAccounts DEF Leave, Rollback, rows, AccountsTypeOK
<1>2. NoPayView \in PayView
  BY DEF NoPayView, PayView, PaymentStatuses, RemoteStatuses
<1>3. PointsTypeOK' /\ OrdersTypeOK'
  BY <1>2 DEF Leave, ForgetPayment, LeaveOrder, PointsTypeOK, OrdersTypeOK
<1> QED
  BY <1>1, <1>3, EndNamed DEF Leave, Rollback, RowsOwned, PaymentsStay

\* What happens at PortOne preserves TypeInv.
LEMMA EnvironmentTyped ==
  ASSUME TypeInv, Environment
  PROVE  TypeInv'
  BY DEF TypeInv, TypeOK, Environment, PortOneMoves, accountVars, rows, orderVars,
         AccountsTypeOK, PointsTypeOK, OrdersTypeOK, RemoteStatuses, SessionsNamed, Named,
         RowsOwned

\* Every step preserves TypeInv.
LEMMA NextTyped == TypeInv /\ [Next]_vars => TypeInv'
<1> SUFFICES ASSUME TypeInv, [Next]_vars PROVE TypeInv'
  OBVIOUS
<1>1. ASSUME NEW p \in Procs, Proceed(p) PROVE TypeInv'
  BY <1>1, AccountStepTyped, PointsStepTyped, OrdersStepTyped DEF Proceed
<1>2. CASE UNCHANGED vars
  BY <1>2 DEF vars, accountVars, rows, pointVars, orderVars, TypeInv, TypeOK, AccountsTypeOK,
              PointsTypeOK, OrdersTypeOK, SessionsNamed, Named, RowsOwned
<1> QED
  BY <1>1, <1>2, ArriveTyped, LockTyped, LeaveTyped, EnvironmentTyped
  DEF Next, Close, Fail, Victim

\* Every reachable state is well formed: the rows and sessions have their
\* types, and what a running session names is a row of the right table.
THEOREM TypeCorrect == Spec => []TypeInv
  BY InitTyped, NextTyped, PTL DEF Spec

\* The type invariant the runs check holds of every reachable state.
THEOREM TypesHold == Spec => []TypeOK
  BY TypeCorrect, PTL DEF TypeInv

----------------------------------------------------------------------------
(* Deadlock.                                                               *)

\* The session that holds a users lock works for that user and has got past
\* waiting for the lock, and one that holds an order lock waits for no row: it
\* only has to commit or be closed.
LockInv ==
    /\ \A u \in Users : userLock[u] # None =>
         /\ session[userLock[u]].user = u
         /\ session[userLock[u]].at \in {"locked", "asked", "ordered", "answered"}
    /\ \A o \in OrderIds : orderLock[o] # None =>
         session[orderLock[o]].at \in {"ordered", "answered"}

\* A wallet that has been read is there, and the key of one that is not there
\* has been entered by one session at most.
EntryInv ==
    /\ \A p \in Procs : seen[p].opened => session[p].user \in opened
    /\ \A p \in Procs : session[p].at = "entered" =>
         /\ Isolation = "READ_COMMITTED"
         /\ session[p].user \notin opened
         /\ EntryFree(p)

\* Every step preserves LockInv.
LEMMA LockInvHolds == TypeInv /\ LockInv /\ [Next]_vars => LockInv'
<1> SUFFICES ASSUME TypeInv, LockInv, [Next]_vars PROVE LockInv'
  OBVIOUS
<1> USE AccountsAssumption
<1> USE DEF LockInv
<1>0. /\ userLock \in [Users -> Procs \cup {None}]
      /\ orderLock \in [OrderIds -> Procs \cup {None}]
      /\ session \in [Procs -> Session] /\ SessionsNamed
  BY DEF TypeInv, TypeOK, AccountsTypeOK, OrdersTypeOK
<1>1. ASSUME NEW p \in Procs, Arrive(p) PROVE LockInv'
  <2>1. UNCHANGED <<userLock, orderLock>> /\ session[p] = Idle
    BY <1>0, <1>1 DEF Arrive, BeginAccount, BeginBalance, BeginWithdraw, BeginPoints,
         BeginCreateCharge, BeginFailCharge, BeginCompleteCharge, BeginCredit, BeginOrders,
         BeginPreAuthorize, BeginCompleteOrder, BeginPayOrder, BeginCancelOrder, BeginOn,
         BeginAs, Begin, orderVars
  <2>2. \A q \in Procs \ {p} : session'[q] = session[q]
    BY <1>0, <1>1 DEF Arrive, BeginAccount, BeginBalance, BeginWithdraw, BeginPoints,
         BeginCreateCharge, BeginFailCharge, BeginCompleteCharge, BeginCredit, BeginOrders,
         BeginPreAuthorize, BeginCompleteOrder, BeginPayOrder, BeginCancelOrder, BeginOn,
         BeginAs, Begin
  <2> QED
    BY <1>0, <2>1, <2>2 DEF Idle
<1>2. ASSUME NEW p \in Procs, LockUser(p), UNCHANGED orderLock PROVE LockInv'
  <2>1. session[p].user \in Users
    BY <1>0, <1>2 DEF LockUser, SessionsNamed, Named
  <2>2. /\ session[p].at = "begun" /\ session'[p].at = "locked"
        /\ session'[p].user = session[p].user
        /\ \A q \in Procs \ {p} : session'[q] = session[q]
    BY <1>0, <1>2 DEF LockUser, Session
  <2> QED
    BY <1>0, <1>2, <2>1, <2>2 DEF LockUser
<1>3. ASSUME NEW p \in Procs, LockOrder(p) PROVE LockInv'
  <2>1. session[p].ref \in OrderIds
    BY <1>0, <1>3 DEF LockOrder, At, SessionsNamed, Named
  <2>2. /\ session[p].at \in {"begun", "locked"} /\ session'[p].at = "ordered"
        /\ session'[p].user = session[p].user
        /\ \A q \in Procs \ {p} : session'[q] = session[q]
    BY <1>0, <1>3 DEF LockOrder, At, MoveTo, Session
  <2> QED
    BY <1>0, <1>3, <2>1, <2>2 DEF LockOrder, MoveTo
<1>4. ASSUME NEW p \in Procs, End(p),
             \/ LeaveOrder(p)
             \/ UNCHANGED orderLock /\ session[p].at \notin {"ordered", "answered"}
      PROVE  LockInv'
  BY <1>0, <1>4 DEF End, LeaveOrder
<1>5. ASSUME NEW p \in Procs, Proceed(p) PROVE LockInv'
  <2>1. CASE AccountStep(p) /\ UNCHANGED <<pointVars, orderVars>>
    BY <1>4, <2>1
    DEF AccountStep, GetBalance, WalletReady, WalletTaken, WithdrawUser, At, orderVars
  <2>2. CASE AskPortOne(p) /\ UNCHANGED orderVars
    <3>1. /\ session[p].at = "locked" /\ session'[p].at \in {"asked", "answered"}
          /\ session'[p].user = session[p].user
          /\ \A q \in Procs \ {p} : session'[q] = session[q]
      BY <1>0, <2>2 DEF AskPortOne, MoveTo, Session
    <3> QED
      BY <1>0, <2>2, <3>1 DEF AskPortOne, MoveTo, orderVars
  <2>3. CASE PointsStep(p) /\ UNCHANGED orderVars /\ End(p)
    <3>1. AskPortOne(p) \/ session[p].at \notin {"ordered", "answered"}
      BY <2>3 DEF PointsStep, CreateCharge, WalletReady, WalletTaken, FailCharge,
           SettleCharge, CreditPoints, At
    <3> QED
      BY <1>4, <2>2, <2>3, <3>1 DEF orderVars
  <2>4. CASE Replay(p)
    <3>1. /\ session'[p].at = "answered" /\ session'[p].user = session[p].user
          /\ \A q \in Procs \ {p} : session'[q] = session[q]
      BY <1>0, <2>4 DEF Replay, MoveTo, Session
    <3> QED
      BY <1>0, <2>4, <3>1 DEF Replay, MoveTo, orderVars
  <2>5. CASE OrdersStep(p) /\ ~Replay(p)
    BY <1>4, <2>5 DEF OrdersStep, PreAuthorize, CompleteOrder, PayOrder, CancelOrder, EndOrders
  <2> QED
    BY <1>5, <2>1, <2>2, <2>3, <2>4, <2>5 DEF Proceed, PointsStep, CreateCharge, FailCharge,
       SettleCharge, CreditPoints, EndPoints
<1>6. ASSUME NEW p \in Procs, Leave(p) PROVE LockInv'
  BY <1>4, <1>6 DEF Leave, Rollback
<1>7. CASE Environment
  BY <1>0, <1>7 DEF Environment, PortOneMoves, accountVars, orderVars
<1>8. CASE UNCHANGED vars
  BY <1>0, <1>8 DEF vars, accountVars, orderVars
<1>10. ASSUME NEW p \in Procs, EnterWallet(p), UNCHANGED orderLock PROVE LockInv'
  <2>1. /\ session[p].at = "begun" /\ UNCHANGED userLock
        /\ \A q \in Procs \ {p} : session'[q] = session[q]
    BY <1>0, <1>10 DEF EnterWallet, MoveTo
  <2> QED
    BY <1>0, <1>10, <2>1
<1>9. ASSUME NEW p \in Procs, Lock(p) PROVE LockInv'
  BY <1>2, <1>3, <1>9, <1>10 DEF Lock, LockForPoints, LockPayer, LockCredit, LockForOrders,
     LockForPreAuthorize, LockForSettling, orderVars
<1> QED
  BY <1>1, <1>5, <1>6, <1>7, <1>8, <1>9 DEF Next, Close, Fail, Victim

\* A step of one session that enters no key, and opens no wallet another one
\* has entered, preserves EntryInv.
LEMMA EntryKept ==
  ASSUME TypeInv, EntryInv, NEW p \in Procs,
         \A q \in Procs \ {p} : session'[q] = session[q] /\ seen'[q] = seen[q],
         session'[p].at # "entered",
         seen'[p].opened => session'[p].user \in opened',
         opened \subseteq opened',
         \A q \in Procs \ {p} :
            session[q].at = "entered" => session[q].user \notin opened'
  PROVE  EntryInv'
  BY DEF EntryInv, EntryFree

\* Every step preserves EntryInv.
LEMMA EntryInvHolds == TypeInv /\ EntryInv /\ [Next]_vars => EntryInv'
<1> SUFFICES ASSUME TypeInv, EntryInv, [Next]_vars PROVE EntryInv'
  OBVIOUS
<1> USE AccountsAssumption
<1>0. /\ session \in [Procs -> Session] /\ seen \in [Procs -> WalletRow]
      /\ opened \subseteq Users
  BY DEF TypeInv, TypeOK, AccountsTypeOK
<1>1. ASSUME NEW p \in Procs, NEW op, NEW u, NEW ref, Begin(p, op, u, ref)
      PROVE  EntryInv'
  <2>1. /\ \A q \in Procs \ {p} : session'[q] = session[q] /\ seen'[q] = seen[q]
        /\ session'[p].at = "begun" /\ session'[p].user = u
        /\ seen'[p] \in {Wallet(u), Unread} /\ UNCHANGED opened
    BY <1>0, <1>1 DEF Begin, rows
  <2>2. (Wallet(u).opened <=> u \in opened) /\ ~Unread.opened
    BY Zenon DEF Wallet, Unread
  <2> QED
    BY <1>0, <2>1, <2>2, EntryKept DEF EntryInv
<1>2. ASSUME NEW p \in Procs, LockUser(p) PROVE EntryInv'
  <2>1. /\ \A q \in Procs \ {p} : session'[q] = session[q] /\ seen'[q] = seen[q]
        /\ session'[p].at = "locked" /\ session'[p].user = session[p].user
        /\ seen'[p] \in {Wallet(session[p].user), seen[p]} /\ UNCHANGED opened
    BY <1>0, <1>2 DEF LockUser, Session, rows
  <2>2. Wallet(session[p].user).opened <=> session[p].user \in opened
    BY Zenon DEF Wallet
  <2> QED
    BY <1>0, <2>1, <2>2, EntryKept DEF EntryInv
<1>3. ASSUME NEW p \in Procs, NEW stage, stage # "entered", MoveTo(p, stage) PROVE EntryInv'
  <2>1. /\ \A q \in Procs \ {p} : session'[q] = session[q] /\ seen'[q] = seen[q]
        /\ session'[p].at = stage /\ session'[p].user = session[p].user
        /\ UNCHANGED <<opened, seen>>
    BY <1>0, <1>3 DEF MoveTo, Session, rows
  <2> QED
    BY <1>0, <1>3, <2>1, EntryKept DEF EntryInv
<1>4. ASSUME NEW p \in Procs, EnterWallet(p) PROVE EntryInv'
  <2>1. /\ \A q \in Procs \ {p} : session'[q] = session[q]
        /\ session'[p].at = "entered" /\ session'[p].user = session[p].user
        /\ UNCHANGED <<opened, seen>>
    BY <1>0, <1>4 DEF EnterWallet, MoveTo, Session, rows
  <2> QED
    BY <1>4, <2>1 DEF EntryInv, EntryFree, EnterWallet
<1>5. ASSUME NEW p \in Procs, End(p),
             \/ UNCHANGED opened
             \/ OpenWallet(p) /\ (WalletReady(p) \/ EntryFree(p))
      PROVE  EntryInv'
  <2>1. /\ \A q \in Procs \ {p} : session'[q] = session[q] /\ seen'[q] = seen[q]
        /\ session'[p].at = "idle" /\ ~seen'[p].opened
    BY <1>0, <1>5 DEF End, Idle, Unread
  <2>2. \A q \in Procs \ {p} :
           session[q].at = "entered" => session[q].user \notin opened'
    BY <1>5 DEF OpenWallet, WalletReady, EntryInv, EntryFree
  <2> QED
    BY <1>5, <2>1, <2>2, EntryKept DEF OpenWallet
<1>6. ASSUME NEW p \in Procs, Arrive(p) PROVE EntryInv'
  <2>1. CASE BeginAccount(p)
    BY <1>1, <2>1 DEF BeginAccount, BeginBalance, BeginWithdraw, BeginAs
  <2>2. CASE BeginPoints(p)
    BY <1>1, <2>2 DEF BeginPoints, BeginCreateCharge, BeginFailCharge, BeginCompleteCharge,
       BeginCredit, BeginAs
  <2>3. CASE BeginOrders(p)
    BY <1>1, <2>3 DEF BeginOrders, BeginPreAuthorize, BeginCompleteOrder, BeginPayOrder,
       BeginCancelOrder, BeginOn, BeginAs
  <2> QED
    BY <1>6, <2>1, <2>2, <2>3 DEF Arrive
<1>7. ASSUME NEW p \in Procs, Lock(p) PROVE EntryInv'
  <2>1. EnterWallet(p) \/ LockUser(p) \/ MoveTo(p, "ordered")
    BY <1>7 DEF Lock, LockForPoints, LockPayer, LockCredit, LockForOrders,
       LockForPreAuthorize, LockForSettling, LockOrder
  <2> QED
    BY <1>2, <1>3, <1>4, <2>1
<1>8. ASSUME NEW p \in Procs, Proceed(p) PROVE EntryInv'
  <2>1. CASE AccountStep(p)
    BY <1>5, <2>1 DEF AccountStep, GetBalance, WithdrawUser
  <2>2. CASE CreateCharge(p)
    BY <1>5, <2>2 DEF CreateCharge, EndPoints
  <2>3. CASE FailCharge(p) \/ SettleCharge(p)
    BY <1>5, <2>3 DEF FailCharge, SettleCharge, Credit, EndPoints, rows
  <2>4. CASE CreditPoints(p)
    BY <1>5, <2>4 DEF CreditPoints, AdjustBalance, EndPoints, rows
  <2>5. CASE AskPortOne(p)
    BY <1>3, <2>5 DEF AskPortOne
  <2>6. CASE OrdersStep(p) /\ Replay(p)
    BY <1>3, <2>6 DEF Replay
  <2>7. CASE OrdersStep(p) /\ ~Replay(p)
    BY <1>5, <2>7 DEF OrdersStep, PreAuthorize, CompleteOrder, PayOrder, CancelOrder,
       PlaceHold, PriceOrder, SettleOrder, RefundHold, NoWrites, EndOrders, rows
  <2> QED
    BY <1>8, <2>1, <2>2, <2>3, <2>4, <2>5, <2>6, <2>7 DEF Proceed, PointsStep
<1>9. ASSUME NEW p \in Procs, Leave(p) PROVE EntryInv'
  BY <1>5, <1>9 DEF Leave, Rollback, rows
<1>10. CASE UNCHANGED <<accountVars>>
  BY <1>10 DEF accountVars, rows, EntryInv, EntryFree
<1>11. Environment \/ UNCHANGED vars => UNCHANGED <<accountVars>>
  BY DEF Environment, PortOneMoves, vars
<1> QED
  BY <1>6, <1>7, <1>8, <1>9, <1>10, <1>11 DEF Next, Close, Fail, Victim

\* No request can find its event loop occupied by a webhook: no webhook is
\* served, or every request has a worker process to itself.
NoSharedLoop ==
    "webhook" \notin Served \/ \A p, q \in Procs : WorkerOf[p] = WorkerOf[q] => p = q

\* Sessions ordered by stage wait only for sessions further along, except those
\* that need a wallet another one has entered.
LEMMA WaitsAreOrdered ==
  ASSUME NoSharedLoop, TypeInv, LockInv, NEW p \in Procs, NEW q \in Procs, WaitsFor(p, q)
  PROVE  /\ RowWaitsFor(p, q)
         /\ session[p].at \in {"begun", "entered", "locked"}
         /\ \/ session[q].at \in {"asked", "ordered", "answered"}
            \/ session[p].at # "locked" /\ session[q].at = "locked"
            \/ AwaitsWallet(p) /\ session[q].at = "entered"
<1> USE AccountsAssumption
<1>1. ~(session[p].at = "answered" /\ p # q /\ WorkerOf[p] = WorkerOf[q] /\ OnLoop(q))
  BY DEF OnLoop, NoSharedLoop, TypeInv, SessionsNamed, Named
<1>2. RowWaitsFor(p, q) /\ q # None
  BY <1>1 DEF WaitsFor
<1>3. session[p].at \in {"begun", "entered", "locked"}
  BY <1>2 DEF RowWaitsFor, AwaitsUser, AwaitsOrder, AwaitsWallet, At
<1>4. /\ session[p].user \in Users
      /\ session[p].op \in {"complete", "pay", "cancel"} => session[p].ref \in OrderIds
  BY <1>3 DEF TypeInv, SessionsNamed, Named
<1>5. CASE AwaitsUser(p) /\ userLock[session[p].user] = q
  BY <1>2, <1>3, <1>4, <1>5 DEF AwaitsUser, LockInv
<1>6. CASE AwaitsOrder(p) /\ orderLock[session[p].ref] = q
  BY <1>2, <1>3, <1>4, <1>6 DEF AwaitsOrder, At, LockInv
<1> QED
  BY <1>2, <1>3, <1>5, <1>6 DEF RowWaitsFor

\* A session in the group that has entered a wallet, and the holder of its
\* user's lock, which is in the group too, wait for each other.
LEMMA DeadlockAtFirstWallet ==
  ASSUME NoSharedLoop, TypeInv, LockInv, NEW S \in SUBSET Procs, Deadlocked(S)
  PROVE  \E p, q \in S :
            /\ session[p].at = "entered"
            /\ RowWaitsFor(p, q) /\ RowWaitsFor(q, p)
<1>1. \A p \in S : session[p].at \in {"begun", "entered", "locked"}
  BY WaitsAreOrdered DEF Deadlocked
<1>2. ASSUME NEW p \in S, session[p].at = "locked"
      PROVE  AwaitsWallet(p) /\ \E q \in S : session[q].at = "entered"
  BY <1>1, <1>2, WaitsAreOrdered DEF Deadlocked
<1>3. PICK r \in S : session[r].at = "entered"
  BY <1>1, <1>2, WaitsAreOrdered DEF Deadlocked
<1>4. PICK s \in S : WaitsFor(r, s)
  BY DEF Deadlocked
<1>5. RowWaitsFor(r, s)
  BY <1>4, WaitsAreOrdered
<1>6. userLock[session[r].user] = s /\ r # s
  BY <1>3, <1>5 DEF RowWaitsFor, AwaitsOrder, AwaitsWallet, At
<1>7. session[r].user \in Users /\ s # None
  BY <1>3, AccountsAssumption DEF TypeInv, SessionsNamed, Named
<1>8. session[s].user = session[r].user /\ session[s].at = "locked"
  BY <1>1, <1>6, <1>7 DEF LockInv
<1>9. RowWaitsFor(s, r)
  BY <1>2, <1>3, <1>6, <1>8 DEF RowWaitsFor
<1> QED
  BY <1>3, <1>5, <1>9

\* The invariants hold of every reachable state.
LEMMA LocksCorrect == Spec => [](TypeInv /\ LockInv /\ EntryInv)
<1>1. Init => LockInv /\ EntryInv
  BY DEF Init, AccountsInit, OrdersInit, LockInv, EntryInv, Idle, Unread
<1> QED
  BY <1>1, LockInvHolds, EntryInvHolds, TypeCorrect, PTL DEF Spec

\* The lock orders of the handlers (users before orders, complete_order the
\* order alone) admit a single kind of deadlock, however many sessions there
\* are: on Postgres, between one that opens a user's first wallet without the
\* users lock and one that holds this lock and needs the wallet.  It holds as
\* long as no webhook blocks the event loop that has to close a session.
THEOREM OnlyFirstWalletDeadlocks ==
  ASSUME NoSharedLoop
  PROVE  Spec => []DeadlockOnlyAtFirstWallet
<1>1. TypeInv /\ LockInv /\ EntryInv => DeadlockOnlyAtFirstWallet
  BY DeadlockAtFirstWallet DEF DeadlockOnlyAtFirstWallet, EntryInv
<1> QED
  BY <1>1, LocksCorrect, PTL

\* On InnoDB, which checks the foreign key before it inserts, no group of
\* sessions waits only for each other.
NoDeadlock == \A S \in SUBSET Procs : ~Deadlocked(S)

THEOREM DeadlockFreeOnInnoDB ==
  ASSUME NoSharedLoop, Isolation = "REPEATABLE_READ"
  PROVE  Spec => []NoDeadlock
<1>1. TypeInv /\ LockInv /\ EntryInv => NoDeadlock
  BY DeadlockAtFirstWallet DEF NoDeadlock, EntryInv
<1> QED
  BY <1>1, LocksCorrect, PTL
=============================================================================
