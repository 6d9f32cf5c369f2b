---------------------------- MODULE LedgerProofs ------------------------------
(***************************************************************************)
(* The ledger and the wallet: no wallet is overdrawn at either isolation   *)
(* level, and at READ COMMITTED every ledger row continues the one before  *)
(* it and the balance is the last row's.                                   *)
(***************************************************************************)
EXTENDS ChargingServiceProofs

----------------------------------------------------------------------------
(* What one posting does.                                                  *)

\* A posting computed from the balance of its moment keeps the chain.
LEMMA PostChains ==
  ASSUME AccountsTypeOK, LedgerChain, NEW p \in Procs, session[p].user \in Users,
         NEW type \in RowTypes, NEW amount \in Int, NEW new \in Int, NEW key \in Keys,
         Post(p, type, amount, new, key),
         new = balance[session[p].user] + (IF type = "use" THEN -amount ELSE amount)
  PROVE  LedgerChain'
<1> DEFINE u == session[p].user
           row == [type |-> type, amount |-> amount, after |-> new, key |-> key]
           rowsBefore == ledger[u]
           rowsAfter == Append(rowsBefore, row)
<1>1. /\ ledger \in [Users -> Seq(Row)] /\ balance \in [Users -> Int]
      /\ rowsBefore \in Seq(Row) /\ Len(rowsBefore) \in Nat
  BY DEF AccountsTypeOK
<1>2. row \in Row
  BY DEF Row
<1>3. ledger' = [ledger EXCEPT ![u] = rowsAfter] /\ balance' = [balance EXCEPT ![u] = new]
  BY DEF Post
<1>4. /\ rowsAfter # <<>> /\ Len(rowsAfter) = Len(rowsBefore) + 1
      /\ rowsAfter[Len(rowsBefore) + 1] = row
      /\ \A i \in 1..Len(rowsBefore) : rowsAfter[i] = rowsBefore[i]
  <2> HIDE DEF rowsBefore, row
  <2>1. rowsAfter \in Seq(Row) /\ Len(rowsAfter) = Len(rowsBefore) + 1
    BY <1>1, <1>2
  <2>2. rowsAfter[Len(rowsBefore) + 1] = row
    BY <1>1, <1>2
  <2>3. \A i \in 1..Len(rowsBefore) : rowsAfter[i] = rowsBefore[i]
    BY <1>1, <1>2
  <2>4. rowsAfter # <<>>
    <3>1. Len(rowsAfter) # 0
      BY <1>1, <2>1
    <3> HIDE DEF rowsAfter
    <3> QED
      BY <3>1
  <2> QED
    BY <2>1, <2>2, <2>3, <2>4
<1>5. /\ balance[u] = IF rowsBefore = <<>> THEN 0 ELSE rowsBefore[Len(rowsBefore)].after
      /\ \A i \in 1..Len(rowsBefore) :
           rowsBefore[i].after =
             Signed(rowsBefore[i]) + (IF i = 1 THEN 0 ELSE rowsBefore[i-1].after)
  BY DEF LedgerChain
<1>6. Signed(row) = IF type = "use" THEN -amount ELSE amount
  BY DEF Signed
<1>7. ASSUME NEW i \in 1..Len(rowsAfter)
      PROVE  rowsAfter[i].after =
               Signed(rowsAfter[i]) + (IF i = 1 THEN 0 ELSE rowsAfter[i-1].after)
  <2> HIDE DEF rowsBefore, rowsAfter, u, row
  <2>1. CASE i \in 1..Len(rowsBefore)
    <3>1. rowsAfter[i] = rowsBefore[i] /\ (i # 1 => rowsAfter[i-1] = rowsBefore[i-1])
      BY <1>1, <1>4, <2>1
    <3> QED
      BY <1>5, <2>1, <3>1
  <2>2. CASE i = Len(rowsBefore) + 1
    <3>1. rowsAfter[i] = row /\ row.after = new
      BY <1>4, <2>2 DEF row
    <3>2. CASE rowsBefore = <<>>
      <4>1. i = 1 /\ balance[u] = 0
        BY <1>5, <2>2, <3>2
      <4> QED
        BY <1>1, <1>6, <3>1, <4>1 DEF u
    <3>3. CASE rowsBefore # <<>>
      <4>1. i # 1 /\ i - 1 = Len(rowsBefore) /\ i - 1 \in 1..Len(rowsBefore)
        BY <1>1, <2>2, <3>3
      <4>2. rowsAfter[i-1].after = balance[u]
        BY <1>4, <1>5, <3>3, <4>1
      <4> QED
        BY <1>1, <1>6, <3>1, <4>1, <4>2 DEF u
    <3> QED
      BY <3>2, <3>3
  <2> QED
    BY <1>1, <1>4, <1>7, <2>1, <2>2
<1> SUFFICES ASSUME NEW v \in Users
    PROVE  /\ balance'[v] = IF ledger'[v] = <<>> THEN 0 ELSE ledger'[v][Len(ledger'[v])].after
           /\ \A i \in 1..Len(ledger'[v]) :
                ledger'[v][i].after =
                  Signed(ledger'[v][i]) + (IF i = 1 THEN 0 ELSE ledger'[v][i-1].after)
  BY DEF LedgerChain, Signed
<1>8. CASE v = u
  <2>1. ledger'[v] = rowsAfter /\ balance'[v] = new
    BY <1>1, <1>3, <1>8
  <2>2. rowsAfter[Len(rowsAfter)].after = new
    BY <1>4
  <2> HIDE DEF rowsAfter
  <2> QED
    BY <1>4, <1>7, <2>1, <2>2
<1>9. CASE v # u
  <2>1. ledger'[v] = ledger[v] /\ balance'[v] = balance[v]
    BY <1>1, <1>3, <1>9
  <2> QED
    BY <2>1 DEF LedgerChain
<1> QED
  BY <1>8, <1>9

----------------------------------------------------------------------------
(* The users lock keeps what a session has read current.                   *)

ReadsUnderLock == {"charge", "webhook"} \cup Adjusting
LocksUser == ReadsUnderLock \cup {"preauth", "pay", "cancel"}

HoldsUser(s) == s.at \in {"locked", "asked", "ordered"} /\ s.op \in LocksUser

\* A session past its LockUser owns the lock on its user, and at READ COMMITTED
\* the wallet it then read is the wallet as it still is.
Current ==
    \A p \in Procs : HoldsUser(session[p]) =>
       /\ userLock[session[p].user] = p
       /\ session[p].op \in ReadsUnderLock =>
            seen[p].balance = balance[session[p].user]

\* Every posting of the service, whatever handler it comes from: the session
\* owns its user's lock and adds to the balance of that moment.
Posts(p) ==
    /\ HoldsUser(session[p]) /\ session[p].user \in Users /\ session'[p] = Idle
    /\ \E type \in RowTypes, amount \in Int, new \in Int, key \in Keys :
         /\ Post(p, type, amount, new, key)
         /\ new = balance[session[p].user] + (IF type = "use" THEN -amount ELSE amount)

\* The points handlers post correctly, or leave the ledger alone.
LEMMA PointsPost ==
  ASSUME TypeInv, Current, NEW p \in Procs, PointsStep(p)
  PROVE  Posts(p) \/ UNCHANGED <<balance, ledger>>
<1> USE DEF TypeInv, TypeOK
<1>1. CASE SettleCharge(p) /\ Credit(p)
  <2> DEFINE id == session[p].ref
             granted == payments[id].points
  <2>1. /\ HoldsUser(session[p]) /\ session[p].at # "idle"
        /\ session[p].op \in ReadsUnderLock
    BY <1>1 DEF SettleCharge, HoldsUser, LocksUser, ReadsUnderLock
  <2>2. id \in PaymentIds /\ session[p].user \in Users
    BY <1>1, <2>1 DEF SettleCharge, SessionsNamed, Named
  <2>3. granted \in Int /\ ChargeKey(id) \in Keys /\ balance[session[p].user] \in Int
    BY <2>2, KeysTyped DEF PointsTypeOK, Payment, AccountsTypeOK
  <2>4. seen[p].balance = balance[session[p].user]
    BY <2>1 DEF Current
  <2>5. Post(p, "charge", granted, seen[p].balance + granted, ChargeKey(id))
    BY <1>1 DEF Credit
  <2>6. session'[p] = Idle
    BY <1>1 DEF SettleCharge, EndPoints, End, AccountsTypeOK
  <2> QED
    BY <2>1, <2>2, <2>3, <2>4, <2>5, <2>6 DEF Posts, RowTypes
<1>2. CASE CreditPoints(p) /\ AdjustBalance(p)
  <2>1. PICK points \in Adjustments :
          LET old == seen[p].balance
              new == IF old + points < 0 THEN 0 ELSE old + points
          IN  Post(p, "adjust", new - old, new, <<"adjust", None>>)
    BY <1>2 DEF AdjustBalance
  <2> DEFINE old == seen[p].balance
             new == IF old + points < 0 THEN 0 ELSE old + points
  <2>2. /\ HoldsUser(session[p]) /\ session[p].at # "idle"
        /\ session[p].op \in ReadsUnderLock
    BY <1>2 DEF CreditPoints, HoldsUser, LocksUser, ReadsUnderLock
  <2>3. session[p].user \in Users /\ old = balance[session[p].user]
    BY <2>2 DEF Current, SessionsNamed, Named
  <2>4. new \in Int /\ new - old \in Int /\ new = old + (new - old)
    BY <2>3, PointsAssumption DEF AccountsTypeOK
  <2>5. session'[p] = Idle
    BY <1>2 DEF CreditPoints, EndPoints, End, AccountsTypeOK
  <2> QED
    BY <2>1, <2>2, <2>3, <2>4, <2>5, KeysTyped DEF Posts, RowTypes
<1> QED
  BY <1>1, <1>2 DEF PointsStep, CreateCharge, FailCharge, AskPortOne, MoveTo,
     SettleCharge, CreditPoints, rows

\* The steps of an order post correctly, or leave the ledger alone.
LEMMA OrdersPost ==
  ASSUME TypeInv, NEW p \in Procs, OrdersStep(p)
  PROVE  Posts(p) \/ UNCHANGED <<balance, ledger>>
<1> USE DEF TypeInv, TypeOK
<1> SUFFICES ASSUME ~Replay(p) PROVE Posts(p) \/ UNCHANGED <<balance, ledger>>
  BY DEF Replay, MoveTo, rows
<1>1. session'[p] = Idle
  BY DEF OrdersStep, PreAuthorize, CompleteOrder, PayOrder, CancelOrder, EndOrders, End,
         AccountsTypeOK
<1>2. CASE At(p, "preauth", "locked") /\ PlaceHold(p)
  <2> DEFINE u == session[p].user
  <2>1. HoldsUser(session[p]) /\ u \in Users
    BY <1>2 DEF At, HoldsUser, LocksUser, SessionsNamed, Named
  <2>2. PICK o \in OrderIds, hold \in Holds(u) :
          Post(p, "use", hold, balance[u] - hold, HoldKey(o))
    BY <1>2 DEF PlaceHold
  <2>3. hold \in Int /\ balance[u] \in Int /\ HoldKey(o) \in Keys
    BY <2>1, UsageOrdersAssumption, KeysTyped DEF Holds, AccountsTypeOK
  <2> QED
    BY <1>1, <2>1, <2>2, <2>3 DEF Posts, RowTypes
<1>3. CASE At(p, "pay", "ordered") /\ SettleOrder(p)
  <2> DEFINE o == session[p].ref
             u == session[p].user
             hold == orders[o].hold
             fee == orders[o].fee
             new == balance[u] + hold - fee
  <2>1. HoldsUser(session[p]) /\ u \in Users /\ o \in OrderIds
    BY <1>3 DEF At, HoldsUser, LocksUser, SessionsNamed, Named
  <2>2. /\ hold \in Int /\ fee \in Int /\ balance[u] \in Int
        /\ ShortfallKey(o) \in Keys /\ RefundKey(o) \in Keys
    BY <2>1, KeysTyped DEF OrdersTypeOK, Order, AccountsTypeOK
  <2>3. new \in Int /\ fee - hold \in Int /\ hold - fee \in Int
        /\ new = balance[u] + (-(fee - hold)) /\ new = balance[u] + (hold - fee)
    BY <2>2
  <2>4. CASE Post(p, "use", fee - hold, new, ShortfallKey(o))
    <3> HIDE DEF new, fee, hold
    <3> QED
      BY <1>1, <2>1, <2>2, <2>3, <2>4 DEF Posts, RowTypes
  <2>5. CASE Post(p, "refund", hold - fee, new, RefundKey(o))
    <3> HIDE DEF new, fee, hold
    <3> QED
      BY <1>1, <2>1, <2>2, <2>3, <2>5 DEF Posts, RowTypes
  <2> QED
    BY <1>3, <2>4, <2>5 DEF SettleOrder, PostOnce
<1>4. CASE At(p, "cancel", "ordered") /\ RefundHold(p)
  <2> DEFINE o == session[p].ref
             u == session[p].user
             hold == orders[o].hold
  <2>1. HoldsUser(session[p]) /\ u \in Users /\ o \in OrderIds
    BY <1>4 DEF At, HoldsUser, LocksUser, SessionsNamed, Named
  <2>2. hold \in Int /\ balance[u] \in Int /\ CancelKey(o) \in Keys
    BY <2>1, KeysTyped DEF OrdersTypeOK, Order, AccountsTypeOK
  <2>3. CASE Post(p, "refund", hold, balance[u] + hold, CancelKey(o))
    <3>1. balance[u] + hold \in Int
      BY <2>2
    <3> HIDE DEF hold
    <3> QED
      BY <1>1, <2>1, <2>2, <2>3, <3>1 DEF Posts, RowTypes
  <2> QED
    BY <1>4, <2>3 DEF RefundHold, PostOnce
<1> QED
  BY <1>2, <1>3, <1>4
  DEF OrdersStep, PreAuthorize, CompleteOrder, PriceOrder, PayOrder, CancelOrder, NoWrites, rows

\* No other step touches a wallet or the ledger.
LEMMA OthersKeepLedger ==
  ASSUME TypeInv, NEW p \in Procs,
         \/ Arrive(p) \/ Lock(p) \/ Leave(p) \/ Environment \/ UNCHANGED vars
         \/ AccountStep(p) /\ UNCHANGED <<pointVars, orderVars>>
  PROVE  UNCHANGED <<balance, ledger>>
  BY DEF Arrive, BeginAccount, BeginBalance, BeginWithdraw, BeginPoints,
         BeginCreateCharge, BeginFailCharge, BeginCompleteCharge, BeginCredit, BeginOrders,
         BeginPreAuthorize, BeginCompleteOrder, BeginPayOrder, BeginCancelOrder, BeginOn,
         BeginAs, Begin, Lock, LockForPoints, LockPayer, LockCredit, LockForOrders,
         LockForPreAuthorize, LockForSettling, LockOrder, EnterWallet, LockUser, MoveTo, Leave, Rollback,
         Environment, PortOneMoves, AccountStep, GetBalance, WithdrawUser, vars, accountVars,
         rows

----------------------------------------------------------------------------
(* Current is inductive at READ COMMITTED.                                 *)

\* A session that ends, whether it posts or not, disturbs no other holder.
LEMMA EndKeepsCurrent ==
  ASSUME TypeInv, Current, NEW p \in Procs, End(p), Posts(p) \/ UNCHANGED <<balance, ledger>>
  PROVE  Current'
<1> SUFFICES ASSUME NEW q \in Procs, HoldsUser(session[q])'
    PROVE  /\ userLock'[session'[q].user] = q
           /\ session'[q].op \in ReadsUnderLock =>
                seen'[q].balance = balance'[session'[q].user]
  BY DEF Current
<1>1. /\ session \in [Procs -> Session] /\ seen \in [Procs -> WalletRow]
      /\ balance \in [Users -> Int] /\ userLock \in [Users -> Procs \cup {None}]
  BY DEF TypeInv, TypeOK, AccountsTypeOK
<1>2. q # p
  BY <1>1 DEF End, HoldsUser, Idle
<1>3. session'[q] = session[q] /\ seen'[q] = seen[q]
  BY <1>1, <1>2 DEF End
<1>4. /\ HoldsUser(session[q]) /\ session[q].user \in Users
      /\ userLock[session[q].user] = q
  BY <1>3 DEF HoldsUser, Current, TypeInv, SessionsNamed, Named
<1>5. userLock'[session[q].user] = q
  BY <1>2, <1>4 DEF End
<1>6. balance'[session[q].user] = balance[session[q].user]
  <2>1. CASE Posts(p)
    <3>1. userLock[session[p].user] = p
      BY <2>1 DEF Posts, Current
    <3> QED
      BY <1>1, <1>2, <1>4, <2>1, <3>1 DEF Posts, Post
  <2> QED
    BY <2>1
<1> QED
  BY <1>3, <1>4, <1>5, <1>6 DEF Current

\* A session that gets the lock reads the wallet as it is, and takes no other
\* holder's lock.
LEMMA LockUserKeepsCurrent ==
  ASSUME Isolation = "READ_COMMITTED", TypeInv, Current, NEW p \in Procs, LockUser(p)
  PROVE  Current'
<1> SUFFICES ASSUME NEW q \in Procs, HoldsUser(session[q])'
    PROVE  /\ userLock'[session'[q].user] = q
           /\ session'[q].op \in ReadsUnderLock =>
                seen'[q].balance = balance'[session'[q].user]
  BY DEF Current
<1>1. /\ session \in [Procs -> Session] /\ seen \in [Procs -> WalletRow]
      /\ userLock \in [Users -> Procs \cup {None}]
  BY DEF TypeInv, TypeOK, AccountsTypeOK
<1>2. session[p].user \in Users /\ balance' = balance
  BY DEF LockUser, TypeInv, SessionsNamed, Named, rows
<1>3. CASE q = p
  <2>1. session'[p].user = session[p].user /\ userLock'[session[p].user] = p
    BY <1>1, <1>2 DEF LockUser, Session
  <2>2. seen'[p].balance = balance[session[p].user]
    BY <1>1, <1>2 DEF LockUser, Wallet
  <2> QED
    BY <1>2, <1>3, <2>1, <2>2
<1>4. CASE q # p
  <2>1. session'[q] = session[q] /\ seen'[q] = seen[q]
    BY <1>1, <1>4 DEF LockUser
  <2>2. /\ HoldsUser(session[q]) /\ session[q].user \in Users
        /\ userLock[session[q].user] = q
    BY <2>1 DEF HoldsUser, Current, TypeInv, SessionsNamed, Named
  <2>3. session[q].user # session[p].user
    BY <2>2, AccountsAssumption DEF LockUser
  <2> QED
    BY <1>1, <1>2, <2>1, <2>2, <2>3 DEF LockUser, Current
<1> QED
  BY <1>3, <1>4

\* Moving on keeps the lock and what was read under it.
LEMMA MoveKeepsCurrent ==
  ASSUME TypeInv, Current, NEW p \in Procs, NEW stage, MoveTo(p, stage),
         session[p].op \in LocksUser => HoldsUser(session[p])
  PROVE  Current'
<1> SUFFICES ASSUME NEW q \in Procs, HoldsUser(session[q])'
    PROVE  /\ userLock'[session'[q].user] = q
           /\ session'[q].op \in ReadsUnderLock =>
                seen'[q].balance = balance'[session'[q].user]
  BY DEF Current
<1>1. session'[q].user = session[q].user /\ session'[q].op = session[q].op
  BY DEF MoveTo, TypeInv, TypeOK, AccountsTypeOK, Session
<1>2. HoldsUser(session[q])
  BY <1>1 DEF HoldsUser, MoveTo, TypeInv, TypeOK, AccountsTypeOK, Session
<1> QED
  BY <1>1, <1>2 DEF Current, MoveTo, rows

\* An arrival holds no lock yet.
LEMMA ArriveKeepsCurrent ==
  ASSUME TypeInv, Current, NEW p \in Procs, Arrive(p)
  PROVE  Current'
<1>1. PICK op, u, ref : Begin(p, op, u, ref)
  BY DEF Arrive, BeginAccount, BeginBalance, BeginWithdraw, BeginPoints, BeginCreateCharge,
         BeginFailCharge, BeginCompleteCharge, BeginCredit, BeginOrders, BeginPreAuthorize,
         BeginCompleteOrder, BeginPayOrder, BeginCancelOrder, BeginOn, BeginAs
<1> SUFFICES ASSUME NEW q \in Procs, HoldsUser(session[q])'
    PROVE  /\ userLock'[session'[q].user] = q
           /\ session'[q].op \in ReadsUnderLock =>
                seen'[q].balance = balance'[session'[q].user]
  BY DEF Current
<1>2. /\ session \in [Procs -> Session] /\ seen \in [Procs -> WalletRow]
  BY DEF TypeInv, TypeOK, AccountsTypeOK
<1>3. q # p
  BY <1>1, <1>2 DEF Begin, HoldsUser
<1>4. session'[q] = session[q] /\ seen'[q] = seen[q]
  BY <1>1, <1>2, <1>3 DEF Begin
<1> QED
  BY <1>1, <1>4 DEF Begin, rows, Current, HoldsUser

\* Every step keeps Current, and what it does to the ledger is a posting.
LEMMA CurrentKept ==
  ASSUME Isolation = "READ_COMMITTED", TypeInv, Current, [Next]_vars
  PROVE  Current' /\ (UNCHANGED <<balance, ledger>> \/ \E p \in Procs : Posts(p))
<1>1. ASSUME NEW p \in Procs, Proceed(p)
      PROVE  Current' /\ (UNCHANGED <<balance, ledger>> \/ Posts(p))
  <2>1. CASE AccountStep(p) /\ UNCHANGED <<pointVars, orderVars>>
    <3>1. End(p)
      BY <2>1 DEF AccountStep, GetBalance, WithdrawUser
    <3> QED
      BY <2>1, <3>1, OthersKeepLedger, EndKeepsCurrent
  <2>2. CASE PointsStep(p)
    <3>1. UNCHANGED <<balance, ledger>> \/ Posts(p)
      BY <2>2, PointsPost
    <3>2. End(p) \/ (session[p].at = "locked" /\ \E stage \in Stages : MoveTo(p, stage))
      BY <2>2 DEF PointsStep, CreateCharge, FailCharge, AskPortOne, SettleCharge,
         CreditPoints, EndPoints, Stages
    <3> QED
      BY <3>1, <3>2, EndKeepsCurrent, MoveKeepsCurrent DEF HoldsUser
  <2>3. CASE OrdersStep(p)
    <3>1. UNCHANGED <<balance, ledger>> \/ Posts(p)
      BY <2>3, OrdersPost
    <3>2. CASE End(p)
      BY <3>1, <3>2, EndKeepsCurrent
    <3>3. CASE Replay(p)
      <4>1. MoveTo(p, "answered") /\ session[p].at \in {"locked", "ordered"}
        BY <2>3, <3>3 DEF Replay, OrdersStep, PreAuthorize, CompleteOrder, PayOrder, CancelOrder, At
      <4> QED
        BY <3>1, <4>1, MoveKeepsCurrent DEF HoldsUser
    <3> QED
      BY <2>3, <3>2, <3>3
      DEF OrdersStep, PreAuthorize, CompleteOrder, PayOrder, CancelOrder, EndOrders
  <2> QED
    BY <1>1, <2>1, <2>2, <2>3 DEF Proceed
<1>2. ASSUME NEW p \in Procs, Lock(p) PROVE Current'
  <2>1. LockUser(p) \/ LockOrder(p) \/ EnterWallet(p)
    BY <1>2 DEF Lock, LockForPoints, LockPayer, LockCredit, LockForOrders,
       LockForPreAuthorize, LockForSettling
  <2>2. CASE LockOrder(p)
    BY <2>2, MoveKeepsCurrent DEF LockOrder, At, HoldsUser, LocksUser, ReadsUnderLock, Adjusting
  <2>3. CASE EnterWallet(p)
    BY <2>3, MoveKeepsCurrent
    DEF EnterWallet, Unlocked, HoldsUser, LocksUser, ReadsUnderLock, Adjusting
  <2> QED
    BY <2>1, <2>2, <2>3, LockUserKeepsCurrent
<1>3. ASSUME NEW p \in Procs, Leave(p) PROVE Current'
  BY <1>3, OthersKeepLedger, EndKeepsCurrent DEF Leave, Rollback
<1>4. CASE Environment
  BY <1>4 DEF Environment, PortOneMoves, accountVars, Current, HoldsUser
<1>5. CASE UNCHANGED vars
  BY <1>5 DEF vars, accountVars, Current, HoldsUser
<1> QED
  BY <1>1, <1>2, <1>3, <1>4, <1>5, OthersKeepLedger, ArriveKeepsCurrent
  DEF Next, Close, Fail, Victim

\* At READ COMMITTED every row of the ledger continues the one before it and
\* the wallet holds what the last row says, whatever credits, holds,
\* settlements, refunds and adjustments interleave on it.
THEOREM LedgerCorrect ==
  ASSUME Isolation = "READ_COMMITTED"
  PROVE  Spec => []LedgerChain
<1> DEFINE Inv == Current /\ LedgerChain
<1>1. Init => Inv
  BY DEF Init, AccountsInit, Current, HoldsUser, Idle, LedgerChain
<1>2. TypeInv /\ Inv /\ [Next]_vars => Inv'
  <2> SUFFICES ASSUME TypeInv, Current, LedgerChain, [Next]_vars PROVE Inv'
    OBVIOUS
  <2>1. Current' /\ (UNCHANGED <<balance, ledger>> \/ \E p \in Procs : Posts(p))
    BY CurrentKept
  <2>2. CASE UNCHANGED <<balance, ledger>>
    BY <2>1, <2>2 DEF LedgerChain, Signed
  <2>3. ASSUME NEW p \in Procs, Posts(p) PROVE LedgerChain'
    BY <2>3, PostChains DEF Posts, TypeInv, TypeOK
  <2> QED
    BY <2>1, <2>2, <2>3
<1> QED
  BY <1>1, <1>2, TypeCorrect, PTL DEF Spec
=============================================================================
