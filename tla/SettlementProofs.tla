--------------------------- MODULE SettlementProofs ---------------------------
(***************************************************************************)
(* What payments and orders may write in the ledger, at either isolation   *)
(* level: a payment is credited at most once, an order has exactly the     *)
(* rows its status calls for, a client key holds points once, and a        *)
(* settled order is final.                                                 *)
(***************************************************************************)
EXTENDS SolvencyProofs, FiniteSetTheorems

----------------------------------------------------------------------------
(* Keys and rows of the ledger.                                            *)

\* The key of the rows that carry a fresh uuid4.
AdjustKey == <<"adjust", None>>

\* A row of that key, type and amount is in u's ledger.
Booked(u, key, type, amount) ==
    \E i \in 1..Len(ledger[u]) :
       ledger[u][i].key = key /\ ledger[u][i].type = type /\ ledger[u][i].amount = amount

\* Two rows with the same key, of whatever wallets, are the same row.
OnceKeys ==
    \A u, v \in Users : \A i \in 1..Len(ledger[u]) : \A j \in 1..Len(ledger[v]) :
       ledger[u][i].key = ledger[v][j].key /\ ledger[u][i].key # AdjustKey => u = v /\ i = j

\* One row is added to u's ledger.
Books(u, row) == ledger' = [ledger EXCEPT ![u] = Append(@, row)]

\* The rows of the new ledger are the old ones and the new one.
LEMMA BooksRows ==
  ASSUME ledger \in [Users -> Seq(Row)], NEW u \in Users, NEW row \in Row, Books(u, row),
         NEW v \in Users
  PROVE  /\ Len(ledger[v]) \in Nat
         /\ Len(ledger'[v]) = IF v = u THEN Len(ledger[v]) + 1 ELSE Len(ledger[v])
         /\ \A i \in 1..Len(ledger[v]) : ledger'[v][i] = ledger[v][i]
         /\ v = u => ledger'[v][Len(ledger[v]) + 1] = row
<1>1. ledger[v] \in Seq(Row) /\ Len(ledger[v]) \in Nat
  OBVIOUS
<1>2. CASE v = u
  <2>1. ledger'[v] = Append(ledger[v], row)
    BY <1>2 DEF Books
  <2> QED
    BY <1>1, <1>2, <2>1
<1>3. CASE v # u
  BY <1>1, <1>3 DEF Books
<1> QED
  BY <1>2, <1>3

\* Nothing booked is unbooked, and the new row is booked.
LEMMA BooksBooked ==
  ASSUME ledger \in [Users -> Seq(Row)], NEW u \in Users, NEW row \in Row, Books(u, row)
  PROVE  /\ \A v \in Users : \A k, t, a : Booked(v, k, t, a) => Booked(v, k, t, a)'
         /\ Booked(u, row.key, row.type, row.amount)'
<1>1. \A v \in Users : \A k, t, a : Booked(v, k, t, a) => Booked(v, k, t, a)'
  BY BooksRows DEF Booked
<1>2. Len(ledger[u]) + 1 \in 1..Len(ledger'[u])
  BY BooksRows
<1> QED
  BY <1>1, <1>2, BooksRows DEF Booked

\* The keys in the ledger are the old ones and the new row's.
LEMMA BooksPosted ==
  ASSUME ledger \in [Users -> Seq(Row)], NEW u \in Users, NEW row \in Row, Books(u, row),
         NEW key
  PROVE  Posted(key)' <=> Posted(key) \/ key = row.key
<1>1. Posted(key) => Posted(key)'
  BY BooksRows DEF Posted
<1>2. key = row.key => Posted(key)'
  <2>1. Len(ledger[u]) + 1 \in 1..Len(ledger'[u])
    BY BooksRows
  <2> QED
    BY <2>1, BooksRows DEF Posted
<1>3. ASSUME Posted(key)', key # row.key PROVE Posted(key)
  <2>1. PICK v \in Users : \E i \in 1..Len(ledger'[v]) : ledger'[v][i].key = key
    BY <1>3 DEF Posted
  <2>2. PICK i \in 1..Len(ledger'[v]) : ledger'[v][i].key = key
    BY <2>1
  <2>3. i \in 1..Len(ledger[v])
    BY <1>3, <2>2, BooksRows
  <2> QED
    BY <2>2, <2>3, BooksRows DEF Posted
<1> QED
  BY <1>1, <1>2, <1>3

\* A key that is not in the ledger yet can be added once.
LEMMA BooksOnce ==
  ASSUME ledger \in [Users -> Seq(Row)], NEW u \in Users, NEW row \in Row, Books(u, row),
         OnceKeys, row.key = AdjustKey \/ ~Posted(row.key)
  PROVE  OnceKeys'
<1> SUFFICES ASSUME NEW v \in Users, NEW w \in Users,
                    NEW i \in 1..Len(ledger'[v]), NEW j \in 1..Len(ledger'[w]),
                    ledger'[v][i].key = ledger'[w][j].key, ledger'[v][i].key # AdjustKey
             PROVE  v = w /\ i = j
  BY DEF OnceKeys, AdjustKey
<1>1. ASSUME NEW x \in Users, NEW k \in 1..Len(ledger'[x])
      PROVE  \/ k \in 1..Len(ledger[x]) /\ ledger'[x][k] = ledger[x][k]
             \/ x = u /\ k = Len(ledger[u]) + 1 /\ ledger'[x][k] = row
  <2>1. CASE x = u
    BY <2>1, BooksRows
  <2>2. CASE x # u
    BY <2>2, BooksRows
  <2> QED
    BY <2>1, <2>2
<1>2. CASE i \in 1..Len(ledger[v]) /\ ledger'[v][i] = ledger[v][i]
  <2>1. ledger[v][i].key # row.key
    BY <1>2 DEF Posted
  <2>2. j \in 1..Len(ledger[w]) /\ ledger'[w][j] = ledger[w][j]
    BY <1>1, <1>2, <2>1
  <2> QED
    BY <1>2, <2>2 DEF OnceKeys
<1>3. CASE v = u /\ i = Len(ledger[u]) + 1 /\ ledger'[v][i] = row
  <2>1. ~(j \in 1..Len(ledger[w]) /\ ledger'[w][j] = ledger[w][j])
    BY <1>3 DEF Posted
  <2>2. w = u /\ j = Len(ledger[u]) + 1
    BY <1>1, <2>1
  <2> QED
    BY <1>3, <2>2
<1> QED
  BY <1>1, <1>2, <1>3

\* A key that is booked once is the one row the properties look for.
LEMMA BookedIsTheRow ==
  ASSUME TypeInv, OnceKeys, NEW u \in Users, NEW key, key # AdjustKey, NEW type, NEW amount,
         Booked(u, key, type, amount)
  PROVE  /\ CountOf(u, key) = 1 /\ key \in KeysOf(u)
         /\ RowOf(u, key).type = type /\ RowOf(u, key).amount = amount
<1>1. PICK i \in 1..Len(ledger[u]) :
        ledger[u][i].key = key /\ ledger[u][i].type = type /\ ledger[u][i].amount = amount
  BY DEF Booked
<1>2. \A j \in 1..Len(ledger[u]) : ledger[u][j].key = key => j = i
  BY <1>1 DEF OnceKeys
<1>3. {j \in 1..Len(ledger[u]) : ledger[u][j].key = key} = {i}
  BY <1>1, <1>2
<1>4. CountOf(u, key) = 1
  BY <1>3, FS_Singleton DEF CountOf
<1>5. (CHOOSE j \in 1..Len(ledger[u]) : ledger[u][j].key = key) = i
  BY <1>1, <1>2
<1> QED
  BY <1>1, <1>4, <1>5 DEF RowOf, KeysOf

\* A key that is not in the ledger is not counted.
LEMMA UnpostedIsNoRow ==
  ASSUME TypeInv, NEW u \in Users, NEW key, ~Posted(key)
  PROVE  CountOf(u, key) = 0 /\ key \notin KeysOf(u)
<1>1. {i \in 1..Len(ledger[u]) : ledger[u][i].key = key} = {}
  BY DEF Posted
<1> QED
  BY <1>1, FS_EmptySet DEF CountOf, KeysOf, Posted

\* The idempotency keys of different rows differ.
LEMMA KeysDiffer ==
  ASSUME NEW o \in OrderIds, NEW id \in PaymentIds
  PROVE  /\ AdjustKey \notin {HoldKey(o), ShortfallKey(o), RefundKey(o), CancelKey(o), ChargeKey(id)}
         /\ ChargeKey(id) \notin {HoldKey(o), ShortfallKey(o), RefundKey(o), CancelKey(o)}
         /\ \A o2 \in OrderIds \ {o} :
              {HoldKey(o), ShortfallKey(o), RefundKey(o), CancelKey(o)} \cap
                {HoldKey(o2), ShortfallKey(o2), RefundKey(o2), CancelKey(o2)} = {}
         /\ \A id2 \in PaymentIds \ {id} : ChargeKey(id) # ChargeKey(id2)
         /\ HoldKey(o) \notin {ShortfallKey(o), RefundKey(o), CancelKey(o)}
         /\ ShortfallKey(o) \notin {RefundKey(o), CancelKey(o)}
         /\ RefundKey(o) # CancelKey(o)
  BY DEF AdjustKey, HoldKey, ShortfallKey, RefundKey, CancelKey, ChargeKey

----------------------------------------------------------------------------
(* The inductive invariant.                                                *)

\* The rows of order o, whoever tries to settle it: none before the hold, the
\* hold from then on, and the one settlement its status calls for.
OrderBooked(o) ==
    LET u == orders[o].user
        hold == orders[o].hold
        spent == orders[o].spent
    IN  /\ orders[o].status = "none" => orders[o] = NoOrder /\ ~Posted(HoldKey(o))
        /\ orders[o].status # "none" => Booked(u, HoldKey(o), "use", hold)
        /\ orders[o].status \in {"none", "draft"} =>
             /\ spent = 0
             /\ ~Posted(ShortfallKey(o)) /\ ~Posted(RefundKey(o)) /\ ~Posted(CancelKey(o))
        /\ orders[o].status = "cancelled" =>
             /\ spent = 0 /\ Booked(u, CancelKey(o), "refund", hold)
             /\ ~Posted(ShortfallKey(o)) /\ ~Posted(RefundKey(o))
        /\ orders[o].status = "confirmed" =>
             /\ spent = orders[o].fee /\ ~Posted(CancelKey(o))
             /\ \/ spent = hold /\ ~Posted(ShortfallKey(o)) /\ ~Posted(RefundKey(o))
                \/ /\ spent > hold /\ Booked(u, ShortfallKey(o), "use", spent - hold)
                   /\ ~Posted(RefundKey(o))
                \/ /\ spent < hold /\ Booked(u, RefundKey(o), "refund", hold - spent)
                   /\ ~Posted(ShortfallKey(o))

\* PortOne has had the payment paid in full.
WasPaid(id) == remote[id] \in {"PAID", "CANCELLED"}

\* The credit of payment id: booked to its owner with the granted points, only
\* once PortOne has it paid, and there whenever the row says paid.
PaymentBooked(id) ==
    /\ payments[id].status = "none" => ~Posted(ChargeKey(id))
    /\ payments[id].status = "paid" => Posted(ChargeKey(id))
    /\ payments[id].status # "none" => payments[id].points \in ChargeAmounts
    /\ Posted(ChargeKey(id)) =>
         /\ WasPaid(id)
         /\ Booked(payments[id].user, ChargeKey(id), "charge", payments[id].points)

\* What a session knows of its payment, however old, was true and cannot be
\* undone: the owner, a credit, a row marked paid, PortOne's PAID.
ViewHolds(s, view) ==
    /\ s.op \in {"charge", "webhook"} => s.user = payments[s.ref].user
    /\ view.credited \/ view.status = "paid" => Posted(ChargeKey(s.ref))
    /\ view.answer = "PAID" => WasPaid(s.ref)

ViewsHold ==
    \A p \in Procs :
       session[p].at # "idle" /\ session[p].op \in {"charge", "webhook", "fail"} =>
         ViewHolds(session[p], payView[p])

\* Every key of an order or a payment is booked at most once, and for a reason.
BookedForAReason ==
    /\ OnceKeys
    /\ \A o \in OrderIds : OrderBooked(o)
    /\ \A id \in PaymentIds : PaymentBooked(id)
    /\ ViewsHold


----------------------------------------------------------------------------
(* What a step leaves alone stays booked.                                  *)

OrderKeys(o) == {HoldKey(o), ShortfallKey(o), RefundKey(o), CancelKey(o)}

\* One row is added with one of these keys, which the ledger has not seen.
BooksOneOf(keys) ==
    \E u \in Users, row \in Row :
       Books(u, row) /\ row.key \in keys /\ (row.key = AdjustKey \/ ~Posted(row.key))

\* A posting of a session books its row.
LEMMA PostBooks ==
  ASSUME TypeInv, NEW p \in Procs, NEW u \in Users, session[p].user = u,
         NEW type \in RowTypes, NEW amount \in Int, NEW new \in Int, NEW key \in Keys,
         Post(p, type, amount, new, key), key = AdjustKey \/ ~Posted(key)
  PROVE  /\ OnceKeys => OnceKeys'
         /\ BooksOneOf({key})
         /\ \A k : Posted(k)' <=> Posted(k) \/ k = key
         /\ \A v \in Users : \A k, t, a : Booked(v, k, t, a) => Booked(v, k, t, a)'
         /\ Booked(u, key, type, amount)'
<1> DEFINE row == [type |-> type, amount |-> amount, after |-> new, key |-> key]
<1>1. row \in Row /\ row.key = key /\ row.type = type /\ row.amount = amount
  BY DEF Row
<1>2. Books(u, row)
  BY DEF Post, Books
<1>3. ledger \in [Users -> Seq(Row)]
  BY DEF TypeInv, TypeOK, AccountsTypeOK
<1> HIDE DEF row
<1>4. OnceKeys => OnceKeys'
  BY <1>1, <1>2, <1>3, BooksOnce
<1>5. \A k : Posted(k)' <=> Posted(k) \/ k = key
  BY <1>1, <1>2, <1>3, BooksPosted
<1>6. BooksOneOf({key})
  BY <1>1, <1>2 DEF BooksOneOf
<1> QED
  BY <1>1, <1>2, <1>3, <1>4, <1>5, <1>6, BooksBooked

\* Another order's row, a payment's or an adjustment leaves order o as booked.
LEMMA OrderKept ==
  ASSUME TypeInv, NEW o \in OrderIds, OrderBooked(o), orders'[o] = orders[o], NEW keys,
         UNCHANGED ledger \/ BooksOneOf(keys), OrderKeys(o) \cap keys = {}
  PROVE  OrderBooked(o)'
<1>1. ASSUME NEW key \in OrderKeys(o) PROVE Posted(key)' <=> Posted(key)
  <2>1. CASE UNCHANGED ledger
    BY <2>1 DEF Posted
  <2>2. CASE BooksOneOf(keys)
    BY <2>2, <1>1, BooksPosted DEF BooksOneOf, TypeInv, TypeOK, AccountsTypeOK
  <2> QED
    BY <2>1, <2>2
<1>2. ASSUME NEW v \in Users, NEW key, NEW type, NEW amount, Booked(v, key, type, amount)
      PROVE  Booked(v, key, type, amount)'
  <2>1. CASE UNCHANGED ledger
    BY <1>2, <2>1 DEF Booked
  <2>2. CASE BooksOneOf(keys)
    BY <1>2, <2>2, BooksBooked DEF BooksOneOf, TypeInv, TypeOK, AccountsTypeOK
  <2> QED
    BY <2>1, <2>2
<1>3. orders[o].status # "none" => orders[o].user \in Users
  BY DEF TypeInv, RowsOwned
<1>4. {HoldKey(o), ShortfallKey(o), RefundKey(o), CancelKey(o)} = OrderKeys(o)
  BY DEF OrderKeys
<1>5. \A k \in {HoldKey(o), ShortfallKey(o), RefundKey(o), CancelKey(o)} :
        (Posted(k) <=> Posted(k)') /\ k' = k
  BY <1>1, <1>4 DEF HoldKey, ShortfallKey, RefundKey, CancelKey
<1> QED
  BY <1>2, <1>3, <1>5 DEF OrderBooked, NoOrder, HoldKey, ShortfallKey, RefundKey, CancelKey

\* A payment whose credit is not what the step books stays as booked.
LEMMA PaymentKept ==
  ASSUME TypeInv, NEW id \in PaymentIds, PaymentBooked(id), NEW keys,
         UNCHANGED ledger \/ BooksOneOf(keys), ChargeKey(id) \notin keys,
         WasPaid(id) => WasPaid(id)',
         \/ payments'[id] = payments[id]
         \/ /\ payments[id].status # "none" /\ payments'[id].status # "none"
            /\ payments'[id].user = payments[id].user
            /\ payments'[id].points = payments[id].points
            /\ payments'[id].status = "paid" => Posted(ChargeKey(id))
  PROVE  PaymentBooked(id)'
<1> DEFINE key == ChargeKey(id)
<1>1. Posted(key)' <=> Posted(key)
  <2>1. CASE UNCHANGED ledger
    BY <2>1 DEF Posted, ChargeKey
  <2>2. CASE BooksOneOf(keys)
    BY <2>2, BooksPosted DEF BooksOneOf, TypeInv, TypeOK, AccountsTypeOK, ChargeKey
  <2> QED
    BY <2>1, <2>2
<1>2. ASSUME NEW v \in Users, NEW type, NEW amount, Booked(v, key, type, amount)
      PROVE  Booked(v, key, type, amount)'
  <2>1. CASE UNCHANGED ledger
    BY <1>2, <2>1 DEF Booked, ChargeKey
  <2>2. CASE BooksOneOf(keys)
    BY <1>2, <2>2, BooksBooked DEF BooksOneOf, TypeInv, TypeOK, AccountsTypeOK, ChargeKey
  <2> QED
    BY <2>1, <2>2
<1>3. payments[id].status # "none" => payments[id].user \in Users
  BY DEF TypeInv, RowsOwned
<1>4. payments[id].status = "none" => ~Posted(key)
  BY DEF PaymentBooked
<1> QED
  BY <1>1, <1>2, <1>3, <1>4 DEF PaymentBooked, ChargeKey

\* What a session knows stays true while it waits and until it ends.
LEMMA ViewsKept ==
  ASSUME TypeInv, ViewsHold,
         \A id \in PaymentIds :
            /\ payments[id].status # "none" => payments'[id].user = payments[id].user
            /\ Posted(ChargeKey(id)) => Posted(ChargeKey(id))'
            /\ WasPaid(id) => WasPaid(id)',
         \A q \in Procs : \/ session'[q].at = "idle"
                          \/ /\ session'[q].op = session[q].op /\ session[q].at # "idle"
                             /\ session'[q].user = session[q].user
                             /\ session'[q].ref = session[q].ref
                             /\ \/ payView'[q] = payView[q]
                                \/ session[q].op \notin {"charge", "webhook", "fail"}
                                \/ ViewHolds(session[q], payView'[q])
  PROVE  ViewsHold'
<1> SUFFICES ASSUME NEW q \in Procs, session'[q].at # "idle",
                    session'[q].op \in {"charge", "webhook", "fail"}
             PROVE  ViewHolds(session[q], payView[q])'
  BY DEF ViewsHold
<1>1. /\ session'[q].op = session[q].op /\ session[q].at # "idle"
      /\ session'[q].user = session[q].user /\ session'[q].ref = session[q].ref
  OBVIOUS
<1>2. ViewHolds(session[q], payView'[q])
  BY <1>1 DEF ViewsHold
<1>3. session[q].ref \in PaymentIds /\ payments[session[q].ref].status # "none"
  BY <1>1 DEF TypeInv, SessionsNamed, Named
<1> QED
  BY <1>1, <1>2, <1>3 DEF ViewHolds, ChargeKey

----------------------------------------------------------------------------
(* One lemma per kind of step.                                             *)

\* A step that writes no ledger row and no order keeps the orders as booked.
LEMMA QuietOrders ==
  ASSUME TypeInv, BookedForAReason, UNCHANGED <<ledger, orders>>
  PROVE  /\ OnceKeys'
         /\ \A o \in OrderIds : OrderBooked(o)'
         /\ \A id \in PaymentIds : Posted(ChargeKey(id))' <=> Posted(ChargeKey(id))
<1>1. OnceKeys'
  BY DEF BookedForAReason, OnceKeys, AdjustKey
<1>2. ASSUME NEW o \in OrderIds PROVE OrderBooked(o)'
  <2> DEFINE none == {}
  <2>1. OrderKeys(o) \cap none = {} /\ OrderBooked(o) /\ orders'[o] = orders[o]
    BY DEF BookedForAReason
  <2> HIDE DEF none
  <2> QED
    BY <2>1, OrderKept
<1> QED
  BY <1>1, <1>2 DEF Posted, ChargeKey

\* Without a ledger row, a payment stays as booked under any status it may have.
LEMMA QuietPayment ==
  ASSUME TypeInv, BookedForAReason, UNCHANGED ledger, NEW id \in PaymentIds,
         WasPaid(id) => WasPaid(id)',
         \/ payments'[id] = payments[id]
         \/ /\ payments[id].status # "none" /\ payments'[id].status # "none"
            /\ payments'[id].user = payments[id].user
            /\ payments'[id].points = payments[id].points
            /\ payments'[id].status = "paid" => Posted(ChargeKey(id))
  PROVE  PaymentBooked(id)'
<1> DEFINE none == {}
<1>1. ChargeKey(id) \notin none /\ PaymentBooked(id)
  BY DEF BookedForAReason
<1> HIDE DEF none
<1> QED
  BY <1>1, PaymentKept

\* A step that writes no ledger row, order or payment keeps what is booked.
LEMMA QuietKept ==
  ASSUME TypeInv, BookedForAReason, UNCHANGED <<ledger, orders, payments>>,
         \A id \in PaymentIds : WasPaid(id) => WasPaid(id)'
  PROVE  /\ OnceKeys'
         /\ \A o \in OrderIds : OrderBooked(o)'
         /\ \A id \in PaymentIds : PaymentBooked(id)'
         /\ \A id \in PaymentIds : Posted(ChargeKey(id))' <=> Posted(ChargeKey(id))
  BY QuietOrders, QuietPayment

\* What a session reads of a payment is true.
LEMMA PaymentReadHolds ==
  ASSUME TypeInv, BookedForAReason, NEW id \in PaymentIds
  PROVE  /\ PaymentRead(id).credited \/ PaymentRead(id).status = "paid" =>
              Posted(ChargeKey(id))
         /\ PaymentRead(id).answer # "PAID"
  BY DEF PaymentRead, BookedForAReason, PaymentBooked

\* Arrivals: a session starts knowing what it has read, or nothing.
LEMMA ArriveBooked ==
  ASSUME TypeInv, BookedForAReason, NEW p \in Procs, Arrive(p)
  PROVE  BookedForAReason'
<1>1. UNCHANGED <<ledger, orders, payments, remote>>
  BY DEF Arrive, BeginAccount, BeginBalance, BeginWithdraw, BeginPoints, BeginCreateCharge,
         BeginFailCharge, BeginCompleteCharge, BeginCredit, BeginOrders, BeginPreAuthorize,
         BeginCompleteOrder, BeginPayOrder, BeginCancelOrder, BeginOn, BeginAs, Begin, rows,
         pointVars, orderVars
<1>2. PICK op, u, ref :
        /\ Begin(p, op, u, ref)
        /\ \/ op \notin {"charge", "webhook", "fail"} /\ UNCHANGED payView
           \/ /\ op \in {"charge", "webhook", "fail"}
              /\ ref \in PaymentIds /\ u = payments[ref].user
              /\ \E view \in {PaymentRead(ref), NoPayView} :
                   payView' = [payView EXCEPT ![p] = view]
  <2>1. CASE BeginAccount(p) /\ UNCHANGED <<pointVars, orderVars>>
    BY <2>1 DEF BeginAccount, BeginBalance, BeginWithdraw, BeginAs, pointVars
  <2>2. CASE BeginPoints(p)
    <3>1. CASE BeginCreateCharge(p) \/ BeginCredit(p)
      BY <3>1 DEF BeginCreateCharge, BeginCredit, BeginAs, pointVars
    <3>2. CASE BeginFailCharge(p)
      BY <3>2 DEF BeginFailCharge, BeginAs
    <3>3. CASE BeginCompleteCharge(p)
      <4>1. PICK id \in PaymentIds :
              /\ \E op \in {"charge", "webhook"} : Begin(p, op, payments[id].user, id)
              /\ payView' = [payView EXCEPT ![p] =
                   IF Isolation = "REPEATABLE_READ" THEN PaymentRead(id) ELSE NoPayView]
        BY <3>3 DEF BeginCompleteCharge, BeginAs
      <4>2. \E view \in {PaymentRead(id), NoPayView} : payView' = [payView EXCEPT ![p] = view]
        BY <4>1
      <4> QED
        BY <4>1, <4>2
    <3> QED
      BY <2>2, <3>1, <3>2, <3>3 DEF BeginPoints
  <2>3. CASE BeginOrders(p) /\ UNCHANGED pointVars
    BY <2>3 DEF BeginOrders, BeginPreAuthorize, BeginCompleteOrder, BeginPayOrder,
       BeginCancelOrder, BeginOn, BeginAs, pointVars
  <2> QED
    BY <2>1, <2>2, <2>3 DEF Arrive
<1>3. ViewsHold'
  <2> SUFFICES ASSUME NEW q \in Procs, session'[q].at # "idle",
                      session'[q].op \in {"charge", "webhook", "fail"}
               PROVE  ViewHolds(session[q], payView[q])'
    BY DEF ViewsHold
  <2>1. /\ session \in [Procs -> Session] /\ payView \in [Procs -> PayView]
    BY DEF TypeInv, TypeOK, AccountsTypeOK, PointsTypeOK
  <2>2. \A id \in PaymentIds : Posted(ChargeKey(id)) => Posted(ChargeKey(id))'
    BY <1>1 DEF Posted, ChargeKey
  <2>3. CASE q = p
    <3>1. session'[p].op = op /\ session'[p].user = u /\ session'[p].ref = ref
      BY <1>2, <2>1 DEF Begin
    <3>2. /\ ref \in PaymentIds /\ u = payments[ref].user
          /\ payView'[p] \in {PaymentRead(ref), NoPayView}
      BY <1>2, <2>1, <2>3, <3>1
    <3>3. /\ payView'[p].credited \/ payView'[p].status = "paid" => Posted(ChargeKey(ref))
          /\ payView'[p].answer # "PAID"
      BY <3>2, PaymentReadHolds DEF NoPayView
    <3> QED
      BY <1>1, <2>2, <2>3, <3>1, <3>2, <3>3 DEF ViewHolds, ChargeKey
  <2>4. CASE q # p
    <3>1. session'[q] = session[q] /\ payView'[q] = payView[q]
      BY <1>2, <2>1, <2>4 DEF Begin
    <3>2. ViewHolds(session[q], payView[q]) /\ session[q].ref \in PaymentIds
      BY <3>1 DEF BookedForAReason, ViewsHold, TypeInv, SessionsNamed, Named
    <3> QED
      BY <1>1, <2>2, <3>1, <3>2 DEF ViewHolds, WasPaid, ChargeKey
  <2> QED
    BY <2>3, <2>4
<1>4. \A id \in PaymentIds : WasPaid(id) => WasPaid(id)'
  BY <1>1 DEF WasPaid
<1> QED
  BY <1>1, <1>3, <1>4, QuietKept DEF BookedForAReason

\* Row locks: complete_charge reads its payment after the lock.
LEMMA LockBooked ==
  ASSUME TypeInv, BookedForAReason, NEW p \in Procs, Lock(p)
  PROVE  BookedForAReason'
<1>1. UNCHANGED <<ledger, orders, payments, remote>>
  BY DEF Lock, EnterWallet, LockForPoints, LockPayer, LockCredit, LockForOrders,
         LockForPreAuthorize, LockForSettling, LockOrder, LockUser, MoveTo, rows, pointVars,
         orderVars
<1>2. \A id \in PaymentIds : WasPaid(id) => WasPaid(id)'
  BY <1>1 DEF WasPaid
<1>3. /\ session \in [Procs -> Session] /\ payView \in [Procs -> PayView]
  BY DEF TypeInv, TypeOK, AccountsTypeOK, PointsTypeOK
<1>4. /\ session[p].at # "idle"
      /\ LockUser(p) \/ \E stage \in {"entered", "ordered"} : MoveTo(p, stage)
  BY DEF Lock, EnterWallet, LockForPoints, LockPayer, LockCredit, LockForOrders,
         LockForPreAuthorize, LockForSettling, LockOrder, LockUser, At
<1>5. \A q \in Procs : /\ session'[q].op = session[q].op
                       /\ session'[q].user = session[q].user
                       /\ session'[q].ref = session[q].ref
                       /\ session'[q].at # "idle" => session[q].at # "idle"
  BY <1>3, <1>4 DEF LockUser, MoveTo, Session
<1>6. CASE LockPayer(p)
  <2>1. session[p].ref \in PaymentIds /\ ViewHolds(session[p], payView[p])
    BY <1>4, <1>6 DEF LockPayer, TypeInv, SessionsNamed, Named, BookedForAReason, ViewsHold
  <2>2. ViewHolds(session[p], PaymentRead(session[p].ref))
    BY <2>1, PaymentReadHolds DEF ViewHolds
  <2>3. \A q \in Procs : payView'[q] = payView[q] \/ ViewHolds(session[q], payView'[q])
    BY <1>3, <1>6, <2>2 DEF LockPayer
  <2>4. ViewsHold'
    BY <1>1, <1>2, <1>5, <2>3, ViewsKept, QuietKept DEF BookedForAReason
  <2> QED
    BY <1>1, <1>2, <2>4, QuietKept DEF BookedForAReason
<1>7. CASE UNCHANGED payView
  <2>1. ViewsHold'
    BY <1>1, <1>2, <1>5, <1>7, ViewsKept, QuietKept DEF BookedForAReason
  <2> QED
    BY <1>1, <1>2, <2>1, QuietKept DEF BookedForAReason
<1> QED
  BY <1>6, <1>7 DEF Lock, LockForPoints, LockCredit, LockForOrders, pointVars

\* A session that ends leaves the others what they know.
LEMMA EndViews ==
  ASSUME TypeInv, ViewsHold, NEW p \in Procs, End(p), ForgetPayment(p) \/ UNCHANGED payView,
         \A id \in PaymentIds :
            /\ payments[id].status # "none" => payments'[id].user = payments[id].user
            /\ Posted(ChargeKey(id)) => Posted(ChargeKey(id))'
            /\ WasPaid(id) => WasPaid(id)'
  PROVE  ViewsHold'
<1>1. /\ session \in [Procs -> Session] /\ payView \in [Procs -> PayView]
  BY DEF TypeInv, TypeOK, AccountsTypeOK, PointsTypeOK
<1>2. \A q \in Procs : \/ session'[q].at = "idle"
                       \/ session'[q] = session[q] /\ payView'[q] = payView[q]
  BY <1>1 DEF End, ForgetPayment, Idle
<1> QED
  BY <1>2, ViewsKept

\* The status a handler of payments writes, and what it stands for.
LEMMA StatusBooked ==
  ASSUME TypeInv, BookedForAReason, NEW id \in PaymentIds, payments[id].status # "none",
         NEW status \in {"paid", "failed"}, status = "paid" => Posted(ChargeKey(id)),
         payments' \in {payments, [payments EXCEPT ![id].status = status]},
         UNCHANGED <<ledger, orders, remote>>, NEW p \in Procs, End(p), ForgetPayment(p)
  PROVE  BookedForAReason'
<1>1. /\ payments \in [PaymentIds -> Payment] /\ BookedForAReason
  BY DEF TypeInv, TypeOK, PointsTypeOK
<1>2. \A i \in PaymentIds : WasPaid(i) => WasPaid(i)'
  BY DEF WasPaid
<1>3. ASSUME NEW i \in PaymentIds PROVE PaymentBooked(i)'
  <2>1. \/ payments'[i] = payments[i]
        \/ /\ payments[i].status # "none" /\ payments'[i].status # "none"
           /\ payments'[i].user = payments[i].user
           /\ payments'[i].points = payments[i].points
           /\ payments'[i].status = "paid" => Posted(ChargeKey(i))
    BY <1>1 DEF Payment
  <2> QED
    BY <1>2, <2>1, QuietPayment
<1>4. ViewsHold'
  <2>1. \A i \in PaymentIds : payments'[i].user = payments[i].user
    BY <1>1 DEF Payment
  <2> QED
    BY <1>2, <2>1, EndViews, QuietOrders DEF BookedForAReason
<1> QED
  BY <1>3, <1>4, QuietOrders DEF BookedForAReason

\* create_charge: the new payment has no credit yet.
LEMMA CreateBooked ==
  ASSUME TypeInv, BookedForAReason, NEW p \in Procs, CreateCharge(p), UNCHANGED orderVars
  PROVE  BookedForAReason'
<1>1. /\ payments \in [PaymentIds -> Payment]
      /\ UNCHANGED <<ledger, orders, remote>> /\ End(p) /\ ForgetPayment(p)
  BY DEF TypeInv, TypeOK, PointsTypeOK, CreateCharge, EndPoints, orderVars
<1>2. \A i \in PaymentIds : (WasPaid(i) <=> WasPaid(i)')
                         /\ (Posted(ChargeKey(i)) <=> Posted(ChargeKey(i))')
  BY <1>1 DEF WasPaid, Posted, ChargeKey
<1>3. CASE UNCHANGED payments
  BY <1>1, <1>2, <1>3, QuietKept, EndViews DEF BookedForAReason
<1>4. ASSUME NEW id \in PaymentIds, NEW granted \in ChargeAmounts,
             payments[id].status = "none",
             payments' = [payments EXCEPT ![id] =
               [status |-> "pending", user |-> session[p].user, points |-> granted]]
      PROVE  BookedForAReason'
  <2>1. ASSUME NEW i \in PaymentIds PROVE PaymentBooked(i)'
    <3>1. PaymentBooked(i)
      BY DEF BookedForAReason
    <3>2. CASE i = id
      <4>1. ~Posted(ChargeKey(id))' /\ payments'[id].status = "pending"
            /\ payments'[id].points = granted
        BY <1>1, <1>2, <1>4, <3>1, <3>2 DEF PaymentBooked
      <4> QED
        BY <3>2, <4>1 DEF PaymentBooked, ChargeKey
    <3>3. CASE i # id
      BY <1>1, <1>2, <1>4, <3>3, QuietPayment
    <3> QED
      BY <3>2, <3>3
  <2>2. ViewsHold'
    BY <1>1, <1>2, <1>4, EndViews DEF BookedForAReason
  <2> QED
    BY <1>1, <2>1, <2>2, QuietOrders DEF BookedForAReason
<1> QED
  BY <1>3, <1>4 DEF CreateCharge

\* An adjustment, or a row of some order, leaves payments and sessions as booked.
LEMMA PostedElsewhere ==
  ASSUME TypeInv, BookedForAReason, NEW p \in Procs, NEW u \in Users, session[p].user = u,
         NEW type \in RowTypes, NEW amount \in Int, NEW new \in Int, NEW key \in Keys,
         Post(p, type, amount, new, key), key = AdjustKey \/ ~Posted(key),
         \A id \in PaymentIds : key # ChargeKey(id),
         UNCHANGED <<payments, remote>>, End(p), ForgetPayment(p) \/ UNCHANGED payView
  PROVE  OnceKeys' /\ (\A id \in PaymentIds : PaymentBooked(id)') /\ ViewsHold'
<1>1. /\ OnceKeys' /\ BooksOneOf({key})
      /\ \A k : Posted(k)' <=> Posted(k) \/ k = key
  BY PostBooks DEF BookedForAReason
<1>2. ASSUME NEW id \in PaymentIds
      PROVE  /\ WasPaid(id) => WasPaid(id)'
             /\ Posted(ChargeKey(id)) => Posted(ChargeKey(id))'
             /\ payments'[id].user = payments[id].user
             /\ PaymentBooked(id)'
  <2>1. ChargeKey(id) \notin {key} /\ PaymentBooked(id)
    BY DEF BookedForAReason
  <2>2. WasPaid(id) => WasPaid(id)'
    BY DEF WasPaid
  <2>3. Posted(ChargeKey(id)) => Posted(ChargeKey(id))'
    BY <1>1 DEF ChargeKey
  <2> QED
    BY <1>1, <2>1, <2>2, <2>3, PaymentKept
<1> QED
  BY <1>1, <1>2, EndViews DEF BookedForAReason

\* A credit or an adjustment leaves the orders as booked.
LEMMA OrdersElsewhere ==
  ASSUME TypeInv, BookedForAReason, UNCHANGED orders, NEW key, BooksOneOf({key}),
         \A o \in OrderIds : key \notin OrderKeys(o)
  PROVE  \A o \in OrderIds : OrderBooked(o)'
<1> SUFFICES ASSUME NEW o \in OrderIds PROVE OrderBooked(o)'
  OBVIOUS
<1>1. OrderKeys(o) \cap {key} = {} /\ OrderBooked(o) /\ orders'[o] = orders[o]
  BY DEF BookedForAReason
<1> QED
  BY <1>1, OrderKept

\* The credit of a payment: its first, to its owner, and PortOne says paid.
LEMMA CreditBooked ==
  ASSUME TypeInv, BookedForAReason, NEW p \in Procs, SettleCharge(p), Credit(p),
         payView[p].answer = "PAID", UNCHANGED orderVars
  PROVE  BookedForAReason'
<1>1. /\ session[p].op \in {"charge", "webhook"} /\ session[p].at # "idle"
      /\ End(p) /\ ForgetPayment(p) /\ UNCHANGED <<remote, orders>>
  BY DEF SettleCharge, EndPoints, orderVars
<1>2. PICK id \in PaymentIds, u \in Users, granted \in Nat, key \in Keys :
        /\ id = session[p].ref /\ u = session[p].user /\ granted = payments[id].points
        /\ key = ChargeKey(id) /\ payments[id].status # "none"
  BY <1>1, KeysTyped DEF TypeInv, TypeOK, SessionsNamed, Named, PointsTypeOK, Payment
<1> DEFINE new == seen[p].balance + granted
<1>3. /\ payments \in [PaymentIds -> Payment] /\ new \in Int
  BY <1>2 DEF TypeInv, TypeOK, PointsTypeOK, AccountsTypeOK, WalletRow
<1>4. u = payments[id].user /\ WasPaid(id)
  BY <1>1, <1>2 DEF BookedForAReason, ViewsHold, ViewHolds
<1>5. ~Posted(key) /\ Post(p, "charge", granted, new, key)
  BY <1>2 DEF Credit
<1>6. payments' \in {payments, [payments EXCEPT ![id].status = "paid"]}
  BY <1>2 DEF Credit, SetPaymentStatus
<1>7. \A i \in PaymentIds : /\ payments'[i].user = payments[i].user
                            /\ payments'[i].points = payments[i].points
                            /\ i # id => payments'[i] = payments[i]
                            /\ payments[i].status # "none" => payments'[i].status # "none"
  BY <1>2, <1>3, <1>6 DEF Payment
<1>8. /\ OnceKeys' /\ BooksOneOf({key})
      /\ \A k : Posted(k)' <=> Posted(k) \/ k = key
      /\ Booked(u, key, "charge", granted)'
  <2>1. OnceKeys /\ "charge" \in RowTypes /\ granted \in Int
    BY DEF BookedForAReason, RowTypes
  <2> HIDE DEF new
  <2> QED
    BY <1>2, <1>3, <1>5, <2>1, PostBooks
<1>9. \A i \in PaymentIds : (WasPaid(i) => WasPaid(i)')
                         /\ (Posted(ChargeKey(i)) => Posted(ChargeKey(i))')
  BY <1>1, <1>8 DEF WasPaid, ChargeKey
<1>10. ASSUME NEW i \in PaymentIds PROVE PaymentBooked(i)'
  <2>1. PaymentBooked(i)
    BY DEF BookedForAReason
  <2>2. CASE i = id
    <3>1. /\ Posted(ChargeKey(i))' /\ WasPaid(i)' /\ payments'[i].status # "none"
      BY <1>2, <1>4, <1>7, <1>8, <1>9, <2>2 DEF ChargeKey
    <3>2. /\ payments'[i].user = u /\ payments'[i].points = granted
          /\ <<"charge", i>> = key /\ granted \in ChargeAmounts
      BY <1>2, <1>4, <1>7, <2>1, <2>2 DEF ChargeKey, PaymentBooked
    <3>3. Booked(payments[i].user, ChargeKey(i), "charge", payments[i].points)'
      BY <1>8, <3>2 DEF Booked, ChargeKey
    <3> QED
      BY <3>1, <3>2, <3>3 DEF PaymentBooked
  <2>3. CASE i # id
    <3>1. ChargeKey(i) \notin {key} /\ payments'[i] = payments[i]
      BY <1>2, <1>7, <2>3 DEF ChargeKey
    <3> QED
      BY <1>8, <1>9, <2>1, <3>1, PaymentKept
  <2> QED
    BY <2>2, <2>3
<1>11. \A o \in OrderIds : OrderBooked(o)'
  <2>1. \A o \in OrderIds : key \notin OrderKeys(o)
    BY <1>2, KeysDiffer DEF OrderKeys
  <2> QED
    BY <1>1, <1>8, <2>1, OrdersElsewhere
<1>12. ViewsHold'
  BY <1>1, <1>7, <1>9, EndViews DEF BookedForAReason
<1> QED
  BY <1>8, <1>10, <1>11, <1>12 DEF BookedForAReason

\* credit_points books under no key an order or a payment could have.
LEMMA AdjustBooked ==
  ASSUME TypeInv, BookedForAReason, NEW p \in Procs, CreditPoints(p), AdjustBalance(p),
         UNCHANGED orderVars
  PROVE  BookedForAReason'
<1>1. PICK points \in Adjustments :
        LET old == seen[p].balance
            new == IF old + points < 0 THEN 0 ELSE old + points
        IN  Post(p, "adjust", new - old, new, AdjustKey)
  BY DEF AdjustBalance, AdjustKey
<1> DEFINE old == seen[p].balance
           new == IF old + points < 0 THEN 0 ELSE old + points
           u == session[p].user
<1>2. new \in Int /\ new - old \in Int /\ Post(p, "adjust", new - old, new, AdjustKey)
  BY <1>1, PointsAssumption DEF TypeInv, TypeOK, AccountsTypeOK, WalletRow
<1>3. u \in Users
  BY DEF CreditPoints, At, TypeInv, SessionsNamed, Named
<1>4. /\ UNCHANGED <<payments, remote, orders>> /\ End(p) /\ ForgetPayment(p)
      /\ AdjustKey \in Keys
  BY KeysTyped DEF CreditPoints, EndPoints, orderVars, AdjustKey
<1>5. /\ \A id \in PaymentIds : AdjustKey # ChargeKey(id)
      /\ \A o \in OrderIds : AdjustKey \notin OrderKeys(o)
  BY DEF OrderKeys, AdjustKey, HoldKey, ShortfallKey, RefundKey, CancelKey, ChargeKey
<1> HIDE DEF old, new, u
<1>6. BooksOneOf({AdjustKey})
  BY <1>2, <1>3, <1>4, PostBooks DEF RowTypes, u
<1>7. OnceKeys' /\ (\A id \in PaymentIds : PaymentBooked(id)') /\ ViewsHold'
  BY <1>2, <1>3, <1>4, <1>5, PostedElsewhere DEF RowTypes, u
<1> QED
  BY <1>4, <1>5, <1>6, <1>7, OrdersElsewhere DEF BookedForAReason

\* The points handlers book for a reason.
LEMMA PointsBooked ==
  ASSUME TypeInv, BookedForAReason, NEW p \in Procs, PointsStep(p), UNCHANGED orderVars
  PROVE  BookedForAReason'
<1> DEFINE id == session[p].ref
<1>1. /\ session \in [Procs -> Session] /\ payView \in [Procs -> PayView] /\ UNCHANGED orders
  BY DEF TypeInv, TypeOK, AccountsTypeOK, PointsTypeOK, orderVars
<1>2. session[p].op \in {"charge", "webhook", "fail"} /\ session[p].at # "idle" =>
        id \in PaymentIds /\ payments[id].status # "none" /\ ViewHolds(session[p], payView[p])
  BY DEF TypeInv, SessionsNamed, Named, BookedForAReason, ViewsHold
<1>3. ASSUME UNCHANGED <<ledger, payments, remote>>, End(p), ForgetPayment(p)
      PROVE  BookedForAReason'
  <2>1. \A i \in PaymentIds : WasPaid(i) => WasPaid(i)'
    BY <1>3 DEF WasPaid
  <2> QED
    BY <1>1, <1>3, <2>1, QuietKept, EndViews DEF BookedForAReason
<1>4. CASE FailCharge(p)
  BY <1>1, <1>2, <1>4, StatusBooked DEF FailCharge, At, EndPoints, rows
<1>5. CASE AskPortOne(p)
  <2>1. UNCHANGED <<ledger, orders, payments, remote>>
    BY <1>1, <1>5 DEF AskPortOne, MoveTo, rows
  <2>2. \A i \in PaymentIds : WasPaid(i) => WasPaid(i)'
    BY <2>1 DEF WasPaid
  <2>3. \A q \in Procs : /\ session'[q].op = session[q].op
                         /\ session'[q].user = session[q].user
                         /\ session'[q].ref = session[q].ref
                         /\ session'[q].at # "idle" => session[q].at # "idle"
    BY <1>1, <1>5 DEF AskPortOne, MoveTo, Session
  <2>4. ViewHolds(session[p], payView'[p])
    BY <1>1, <1>2, <1>5 DEF AskPortOne, ViewHolds, WasPaid, PayView
  <2>5. \A q \in Procs : q # p => payView'[q] = payView[q]
    BY <1>1, <1>5 DEF AskPortOne
  <2>6. ViewsHold'
    BY <2>1, <2>2, <2>3, <2>4, <2>5, ViewsKept, QuietKept DEF BookedForAReason
  <2> QED
    BY <2>1, <2>2, <2>6, QuietKept DEF BookedForAReason
<1>6. CASE SettleCharge(p)
  <2>1. /\ id \in PaymentIds /\ payments[id].status # "none"
        /\ ViewHolds(session[p], payView[p])
        /\ UNCHANGED remote /\ End(p) /\ ForgetPayment(p)
    BY <1>2, <1>6 DEF SettleCharge, EndPoints
  <2>2. CASE UNCHANGED <<payments, rows>>
    BY <1>3, <2>1, <2>2 DEF rows
  <2>3. CASE SetPaymentStatus(p, "failed") /\ UNCHANGED rows
    BY <1>1, <2>1, <2>3, StatusBooked DEF SetPaymentStatus, rows
  <2>4. CASE payView[p].credited /\ SetPaymentStatus(p, "paid") /\ UNCHANGED rows
    <3>1. Posted(ChargeKey(id))
      BY <2>1, <2>4 DEF ViewHolds
    <3> QED
      BY <1>1, <2>1, <2>4, <3>1, StatusBooked DEF SetPaymentStatus, rows
  <2> QED
    BY <1>6, <2>2, <2>3, <2>4, CreditBooked DEF SettleCharge
<1>7. CASE CreditPoints(p)
  BY <1>3, <1>7, AdjustBooked DEF CreditPoints, EndPoints, rows
<1> QED
  BY <1>4, <1>5, <1>6, <1>7, CreateBooked DEF PointsStep

\* A row of order o leaves everything but that order as booked.
LEMMA OrderPosted ==
  ASSUME TypeInv, BookedForAReason, NEW p \in Procs, NEW u \in Users, session[p].user = u,
         NEW type \in RowTypes, NEW amount \in Int, NEW new \in Int,
         NEW o \in OrderIds, NEW key \in OrderKeys(o), ~Posted(key),
         Post(p, type, amount, new, key), UNCHANGED pointVars, End(p),
         \A o2 \in OrderIds : o2 # o => orders'[o2] = orders[o2], OrderBooked(o)'
  PROVE  BookedForAReason'
<1>1. key \in Keys /\ \A id \in PaymentIds : key # ChargeKey(id)
  BY KeysTyped, KeysDiffer DEF OrderKeys
<1>2. OnceKeys' /\ (\A id \in PaymentIds : PaymentBooked(id)') /\ ViewsHold'
  BY <1>1, PostedElsewhere DEF pointVars
<1>3. BooksOneOf({key})
  BY <1>1, PostBooks
<1>4. ASSUME NEW o2 \in OrderIds, o2 # o PROVE OrderBooked(o2)'
  <2>1. OrderKeys(o2) \cap {key} = {} /\ OrderBooked(o2) /\ orders'[o2] = orders[o2]
    BY <1>4 DEF OrderKeys, HoldKey, ShortfallKey, RefundKey, CancelKey, BookedForAReason
  <2> QED
    BY <1>3, <2>1, OrderKept
<1> QED
  BY <1>2, <1>4 DEF BookedForAReason

\* pre_authorize: the hold is the new order's first row.
LEMMA HoldBooked ==
  ASSUME TypeInv, BookedForAReason, NEW p \in Procs, At(p, "preauth", "locked"),
         PlaceHold(p), EndOrders(p), UNCHANGED pointVars
  PROVE  BookedForAReason'
<1>1. PICK u \in Users : u = session[p].user
  BY DEF At, TypeInv, SessionsNamed, Named
<1>2. PICK o \in OrderIds, hold \in Holds(u) :
        /\ orders[o].status = "none"
        /\ orders' = [orders EXCEPT ![o] =
             [status |-> "draft", user |-> u, key |-> session[p].ref, hold |-> hold,
              fee |-> hold, spent |-> 0, source |-> "preset"]]
        /\ Post(p, "use", hold, balance[u] - hold, HoldKey(o))
  BY <1>1 DEF PlaceHold
<1>3. /\ hold \in Int /\ balance[u] - hold \in Int /\ HoldKey(o) \in OrderKeys(o)
      /\ HoldKey(o) \in Keys /\ "use" \in RowTypes /\ OrderBooked(o)
      /\ orders \in [OrderIds -> Order]
  BY <1>1, UsageOrdersAssumption, KeysTyped
  DEF Holds, TypeInv, TypeOK, AccountsTypeOK, OrdersTypeOK, OrderKeys, RowTypes, BookedForAReason
<1>4. /\ ~Posted(HoldKey(o)) /\ ~Posted(ShortfallKey(o)) /\ ~Posted(RefundKey(o))
      /\ ~Posted(CancelKey(o))
  BY <1>2, <1>3 DEF OrderBooked
<1>5. /\ \A k : Posted(k)' <=> Posted(k) \/ k = HoldKey(o)
      /\ Booked(u, HoldKey(o), "use", hold)'
  <2>1. PICK key \in Keys : key = HoldKey(o)
    BY <1>3
  <2>2. (\A k : Posted(k)' <=> Posted(k) \/ k = key) /\ Booked(u, key, "use", hold)'
    BY <1>1, <1>2, <1>3, <1>4, <2>1, PostBooks
  <2> QED
    BY <2>1, <2>2 DEF Booked, HoldKey
<1>6. /\ ~Posted(ShortfallKey(o))' /\ ~Posted(RefundKey(o))' /\ ~Posted(CancelKey(o))'
  BY <1>4, <1>5 DEF HoldKey, ShortfallKey, RefundKey, CancelKey
<1>7. /\ orders'[o].status = "draft" /\ orders'[o].user = u /\ orders'[o].hold = hold
      /\ orders'[o].spent = 0 /\ \A o2 \in OrderIds : o2 # o => orders'[o2] = orders[o2]
  BY <1>2, <1>3
<1>8. OrderBooked(o)'
  BY <1>5, <1>6, <1>7 DEF OrderBooked, HoldKey, ShortfallKey, RefundKey, CancelKey, Booked
<1> QED
  BY <1>1, <1>2, <1>3, <1>4, <1>7, <1>8, OrderPosted DEF EndOrders

\* cancel_order: the whole hold comes back once.
LEMMA RefundBooked ==
  ASSUME TypeInv, Solvent, BookedForAReason, NEW p \in Procs, At(p, "cancel", "ordered"),
         RefundHold(p), EndOrders(p), UNCHANGED pointVars
  PROVE  BookedForAReason'
<1>1. PICK u \in Users, o \in OrderIds, hold \in Nat, key \in Keys, new \in Int :
        /\ u = session[p].user /\ o = session[p].ref /\ hold = orders[o].hold
        /\ u = orders[o].user /\ key = CancelKey(o) /\ new = balance[u] + hold
  <2>1. /\ session[p].user \in Users /\ session[p].ref \in OrderIds
        /\ session[p].user = orders[session[p].ref].user
    BY DEF At, TypeInv, SessionsNamed, Named, Solvent, OwnOrders
  <2>2. orders[session[p].ref].hold \in Nat /\ balance[session[p].user] \in Int
    BY <2>1 DEF TypeInv, TypeOK, AccountsTypeOK, OrdersTypeOK, Order
  <2> QED
    BY <2>1, <2>2, KeysTyped
<1>2. /\ orders[o].status = "draft"
      /\ PostOnce(p, "refund", hold, new, key)
      /\ orders' = [orders EXCEPT ![o].spent = 0, ![o].status = "cancelled"]
  BY <1>1 DEF RefundHold
<1>3. /\ hold \in Int /\ key \in OrderKeys(o)
      /\ "refund" \in RowTypes /\ OrderBooked(o) /\ orders \in [OrderIds -> Order]
  BY <1>1 DEF TypeInv, TypeOK, OrdersTypeOK, OrderKeys, RowTypes, BookedForAReason
<1>4. /\ ~Posted(ShortfallKey(o)) /\ ~Posted(RefundKey(o)) /\ ~Posted(key)
      /\ Booked(u, HoldKey(o), "use", hold)
  BY <1>1, <1>2, <1>3 DEF OrderBooked
<1>5. Post(p, "refund", hold, new, key)
  BY <1>2, <1>4 DEF PostOnce
<1>6. /\ \A k : Posted(k)' <=> Posted(k) \/ k = key
      /\ \A v \in Users : \A k, t, a : Booked(v, k, t, a) => Booked(v, k, t, a)'
      /\ Booked(u, key, "refund", hold)'
  <2>1. session[p].user = u /\ hold \in Int /\ "refund" \in RowTypes
    BY <1>1, <1>3
  <2> QED
    BY <1>4, <1>5, <2>1, PostBooks
<1>7. /\ ~Posted(ShortfallKey(o))' /\ ~Posted(RefundKey(o))'
      /\ Booked(u, HoldKey(o), "use", hold)' /\ Booked(u, CancelKey(o), "refund", hold)'
  <2>1. Booked(u, HoldKey(o), "use", hold)'
    BY <1>4, <1>6 DEF HoldKey
  <2>2. Booked(u, CancelKey(o), "refund", hold)'
    BY <1>1, <1>6 DEF CancelKey, Booked
  <2>3. ~Posted(ShortfallKey(o))' /\ ~Posted(RefundKey(o))'
    BY <1>1, <1>4, <1>6 DEF ShortfallKey, RefundKey, CancelKey
  <2> QED
    BY <2>1, <2>2, <2>3
<1>8. /\ orders'[o].status = "cancelled" /\ orders'[o].user = u /\ orders'[o].hold = hold
      /\ orders'[o].spent = 0 /\ \A o2 \in OrderIds : o2 # o => orders'[o2] = orders[o2]
  BY <1>1, <1>2, <1>3 DEF Order
<1>9. OrderBooked(o)'
  BY <1>7, <1>8 DEF OrderBooked, HoldKey, ShortfallKey, RefundKey, CancelKey, Booked
<1> QED
  BY <1>1, <1>3, <1>4, <1>5, <1>8, <1>9, OrderPosted DEF EndOrders

\* pay_order: the difference between hold and fee is booked once, either way.
LEMMA PaymentOfOrderBooked ==
  ASSUME TypeInv, Solvent, BookedForAReason, NEW p \in Procs, At(p, "pay", "ordered"),
         SettleOrder(p), EndOrders(p), UNCHANGED pointVars
  PROVE  BookedForAReason'
<1>1. PICK u \in Users, o \in OrderIds, hold \in Nat, fee \in Nat, new \in Int :
        /\ u = session[p].user /\ o = session[p].ref /\ u = orders[o].user
        /\ hold = orders[o].hold /\ fee = orders[o].fee /\ new = balance[u] + hold - fee
  <2>1. /\ session[p].user \in Users /\ session[p].ref \in OrderIds
        /\ session[p].user = orders[session[p].ref].user
    BY DEF At, TypeInv, SessionsNamed, Named, Solvent, OwnOrders
  <2>2. /\ orders[session[p].ref].hold \in Nat /\ orders[session[p].ref].fee \in Nat
        /\ balance[session[p].user] \in Int
    BY <2>1 DEF TypeInv, TypeOK, AccountsTypeOK, OrdersTypeOK, Order
  <2> QED
    BY <2>1, <2>2
<1>2. /\ orders[o].status = "draft"
      /\ \/ fee > hold /\ PostOnce(p, "use", fee - hold, new, ShortfallKey(o))
         \/ fee < hold /\ PostOnce(p, "refund", hold - fee, new, RefundKey(o))
         \/ fee = hold /\ UNCHANGED <<balance, ledger, point>>
      /\ orders' = [orders EXCEPT ![o].spent = fee, ![o].status = "confirmed"]
  BY <1>1 DEF SettleOrder, Payable
<1>3. OrderBooked(o) /\ orders \in [OrderIds -> Order] /\ End(p)
  BY DEF TypeInv, TypeOK, OrdersTypeOK, BookedForAReason, EndOrders
<1>4. /\ ~Posted(ShortfallKey(o)) /\ ~Posted(RefundKey(o)) /\ ~Posted(CancelKey(o))
      /\ Booked(u, HoldKey(o), "use", hold)
  BY <1>1, <1>2, <1>3 DEF OrderBooked
<1>5. /\ orders'[o].status = "confirmed" /\ orders'[o].user = u /\ orders'[o].hold = hold
      /\ orders'[o].spent = fee /\ orders'[o].fee = fee
      /\ \A o2 \in OrderIds : o2 # o => orders'[o2] = orders[o2]
  BY <1>1, <1>2, <1>3 DEF Order
\* The row of a difference, be it missing or left over.
<1>6. ASSUME NEW type \in {"use", "refund"}, NEW amount \in Int, NEW key \in OrderKeys(o),
             ~Posted(key), Post(p, type, amount, new, key)
      PROVE  /\ \A k : Posted(k)' <=> Posted(k) \/ k = key
             /\ Booked(u, key, type, amount)' /\ Booked(u, HoldKey(o), "use", hold)'
             /\ OrderBooked(o)' => BookedForAReason'
  <2>1. session[p].user = u /\ type \in RowTypes /\ key \in Keys
    BY <1>1, <1>6, KeysTyped DEF RowTypes, OrderKeys
  <2>2. /\ \A k : Posted(k)' <=> Posted(k) \/ k = key
        /\ \A v \in Users : \A k, t, a : Booked(v, k, t, a) => Booked(v, k, t, a)'
        /\ Booked(u, key, type, amount)'
    BY <1>6, <2>1, PostBooks
  <2>3. Booked(u, HoldKey(o), "use", hold)'
    BY <1>4, <2>2 DEF HoldKey
  <2>4. OrderBooked(o)' => BookedForAReason'
    BY <1>3, <1>5, <1>6, <2>1, OrderPosted
  <2> QED
    BY <2>2, <2>3, <2>4
<1>7. CASE fee > hold /\ PostOnce(p, "use", fee - hold, new, ShortfallKey(o))
  <2>1. PICK key \in OrderKeys(o), amount \in Int : key = ShortfallKey(o) /\ amount = fee - hold
    BY DEF OrderKeys
  <2>2. ~Posted(key) /\ Post(p, "use", amount, new, key)
    BY <1>4, <1>7, <2>1 DEF PostOnce
  <2>3. /\ \A k : Posted(k)' <=> Posted(k) \/ k = key
        /\ Booked(u, key, "use", amount)' /\ Booked(u, HoldKey(o), "use", hold)'
        /\ OrderBooked(o)' => BookedForAReason'
    BY <1>6, <2>2
  <2>4. ~Posted(RefundKey(o))' /\ ~Posted(CancelKey(o))'
    BY <1>4, <2>1, <2>3 DEF ShortfallKey, RefundKey, CancelKey
  <2>5. Booked(u, ShortfallKey(o), "use", fee - hold)'
    BY <2>1, <2>3 DEF Booked, ShortfallKey
  <2>6. OrderBooked(o)'
    BY <1>5, <1>7, <2>3, <2>4, <2>5
    DEF OrderBooked, HoldKey, ShortfallKey, RefundKey, CancelKey, Booked
  <2> QED
    BY <2>3, <2>6
<1>8. CASE fee < hold /\ PostOnce(p, "refund", hold - fee, new, RefundKey(o))
  <2>1. PICK key \in OrderKeys(o), amount \in Int : key = RefundKey(o) /\ amount = hold - fee
    BY DEF OrderKeys
  <2>2. ~Posted(key) /\ Post(p, "refund", amount, new, key)
    BY <1>4, <1>8, <2>1 DEF PostOnce
  <2>3. /\ \A k : Posted(k)' <=> Posted(k) \/ k = key
        /\ Booked(u, key, "refund", amount)' /\ Booked(u, HoldKey(o), "use", hold)'
        /\ OrderBooked(o)' => BookedForAReason'
    BY <1>6, <2>2
  <2>4. ~Posted(ShortfallKey(o))' /\ ~Posted(CancelKey(o))'
    BY <1>4, <2>1, <2>3 DEF ShortfallKey, RefundKey, CancelKey
  <2>5. Booked(u, RefundKey(o), "refund", hold - fee)'
    BY <2>1, <2>3 DEF Booked, RefundKey
  <2>6. OrderBooked(o)'
    BY <1>5, <1>8, <2>3, <2>4, <2>5
    DEF OrderBooked, HoldKey, ShortfallKey, RefundKey, CancelKey, Booked
  <2> QED
    BY <2>3, <2>6
<1>9. CASE fee = hold /\ UNCHANGED ledger
  <2>1. /\ \A i \in PaymentIds : WasPaid(i) => WasPaid(i)'
        /\ UNCHANGED <<payments, remote, payView>>
    BY DEF WasPaid, pointVars
  <2>2. OrderBooked(o)'
    BY <1>4, <1>5, <1>9
    DEF OrderBooked, Booked, Posted, HoldKey, ShortfallKey, RefundKey, CancelKey
  <2>3. ASSUME NEW o2 \in OrderIds, o2 # o PROVE OrderBooked(o2)'
    <3> DEFINE none == {}
    <3>1. OrderKeys(o2) \cap none = {} /\ OrderBooked(o2) /\ orders'[o2] = orders[o2]
      BY <1>5, <2>3 DEF BookedForAReason
    <3> HIDE DEF none
    <3> QED
      BY <1>9, <3>1, OrderKept
  <2>4. \A i \in PaymentIds : Posted(ChargeKey(i)) => Posted(ChargeKey(i))'
    BY <1>9 DEF Posted, ChargeKey
  <2>5. OnceKeys' /\ ViewsHold' /\ \A i \in PaymentIds : PaymentBooked(i)'
    BY <1>3, <1>9, <2>1, <2>4, QuietPayment, EndViews
    DEF BookedForAReason, OnceKeys, AdjustKey
  <2> QED
    BY <2>2, <2>3, <2>5 DEF BookedForAReason
<1> QED
  BY <1>2, <1>7, <1>8, <1>9

\* The steps of an order book for a reason; pricing one books nothing.
LEMMA OrdersBooked ==
  ASSUME TypeInv, Solvent, BookedForAReason, NEW p \in Procs, OrdersStep(p),
         UNCHANGED pointVars
  PROVE  BookedForAReason'
<1>1. /\ session \in [Procs -> Session] /\ orders \in [OrderIds -> Order]
      /\ UNCHANGED <<payments, remote, payView>>
      /\ \A i \in PaymentIds : WasPaid(i) => WasPaid(i)'
  BY DEF TypeInv, TypeOK, AccountsTypeOK, OrdersTypeOK, pointVars, WasPaid
<1>2. CASE Replay(p)
  <2>1. UNCHANGED <<ledger, orders>>
    BY <1>2 DEF Replay, MoveTo, rows, orderVars
  <2>2. \A q \in Procs : /\ session'[q].op = session[q].op
                         /\ session'[q].user = session[q].user
                         /\ session'[q].ref = session[q].ref
                         /\ session'[q].at # "idle" => session[q].at # "idle"
    BY <1>1, <1>2
    DEF Replay, MoveTo, Session, OrdersStep, PreAuthorize, CompleteOrder, PayOrder, CancelOrder, At
  <2>3. ViewsHold'
    BY <1>1, <2>1, <2>2, ViewsKept, QuietKept DEF BookedForAReason
  <2> QED
    BY <1>1, <2>1, <2>3, QuietKept DEF BookedForAReason
<1>3. CASE At(p, "complete", "ordered") /\ PriceOrder(p) /\ EndOrders(p)
  <2>1. PICK o \in OrderIds : o = session[p].ref
    BY <1>3 DEF At, TypeInv, SessionsNamed, Named
  <2>2. /\ orders[o].status = "draft" /\ UNCHANGED ledger /\ OrderBooked(o)
        /\ \E fee \in Fees, source \in {"manual", "operator_session"} :
             orders' = [orders EXCEPT ![o].fee = fee, ![o].source = source]
    BY <1>3, <2>1 DEF PriceOrder, rows, BookedForAReason
  <2>3. /\ orders'[o].status = "draft" /\ orders'[o].user = orders[o].user
        /\ orders'[o].hold = orders[o].hold /\ orders'[o].spent = orders[o].spent
        /\ \A o2 \in OrderIds : o2 # o => orders'[o2] = orders[o2]
    BY <1>1, <2>1, <2>2 DEF Order
  <2>4. OrderBooked(o)'
    BY <2>2, <2>3
    DEF OrderBooked, Booked, Posted, HoldKey, ShortfallKey, RefundKey, CancelKey
  <2>5. ASSUME NEW o2 \in OrderIds, o2 # o PROVE OrderBooked(o2)'
    <3> DEFINE none == {}
    <3>1. OrderKeys(o2) \cap none = {} /\ OrderBooked(o2) /\ orders'[o2] = orders[o2]
      BY <2>3, <2>5 DEF BookedForAReason
    <3> HIDE DEF none
    <3> QED
      BY <2>2, <3>1, OrderKept
  <2>6. \A i \in PaymentIds : Posted(ChargeKey(i)) => Posted(ChargeKey(i))'
    BY <2>2 DEF Posted, ChargeKey
  <2>7. OnceKeys' /\ ViewsHold' /\ \A i \in PaymentIds : PaymentBooked(i)'
    BY <1>1, <1>3, <2>2, <2>6, QuietPayment, EndViews
    DEF BookedForAReason, OnceKeys, AdjustKey, EndOrders
  <2> QED
    BY <2>4, <2>5, <2>7 DEF BookedForAReason
<1>4. CASE NoWrites /\ EndOrders(p)
  BY <1>1, <1>4, QuietKept, EndViews DEF BookedForAReason, NoWrites, rows, EndOrders
<1> QED
  BY <1>2, <1>3, <1>4, HoldBooked, PaymentOfOrderBooked, RefundBooked
  DEF OrdersStep, PreAuthorize, CompleteOrder, PayOrder, CancelOrder

\* Every step books for a reason.
LEMMA NextBooked == TypeInv /\ Solvent /\ BookedForAReason /\ [Next]_vars => BookedForAReason'
<1> SUFFICES ASSUME TypeInv, Solvent, BookedForAReason, [Next]_vars PROVE BookedForAReason'
  OBVIOUS
<1>1. ASSUME UNCHANGED <<ledger, orders, payments, remote, payView>>,
             NEW p \in Procs, End(p)
      PROVE  BookedForAReason'
  <2>1. \A i \in PaymentIds : WasPaid(i) => WasPaid(i)'
    BY <1>1 DEF WasPaid
  <2> QED
    BY <1>1, <2>1, QuietKept, EndViews DEF BookedForAReason
<1>2. ASSUME NEW p \in Procs, Proceed(p) PROVE BookedForAReason'
  BY <1>1, <1>2, PointsBooked, OrdersBooked
  DEF Proceed, AccountStep, GetBalance, WithdrawUser, pointVars, orderVars
<1>3. ASSUME NEW p \in Procs, Leave(p) PROVE BookedForAReason'
  <2>1. /\ UNCHANGED <<ledger, orders, payments, remote>> /\ End(p) /\ ForgetPayment(p)
    BY <1>3 DEF Leave, Rollback, rows
  <2>2. \A i \in PaymentIds : WasPaid(i) => WasPaid(i)'
    BY <2>1 DEF WasPaid
  <2> QED
    BY <2>1, <2>2, QuietKept, EndViews DEF BookedForAReason
<1>4. CASE Environment \/ UNCHANGED vars
  <2>1. UNCHANGED <<ledger, orders, payments, session, payView>>
    BY <1>4 DEF Environment, PortOneMoves, vars, accountVars, pointVars, orderVars
  <2>2. \A i \in PaymentIds : WasPaid(i) => WasPaid(i)'
    BY <1>4
    DEF Environment, PortOneMoves, vars, pointVars, WasPaid, TypeInv, TypeOK, PointsTypeOK
  <2>3. ViewsHold'
    <3> SUFFICES ASSUME NEW q \in Procs, session[q].at # "idle",
                        session[q].op \in {"charge", "webhook", "fail"}
                 PROVE  ViewHolds(session[q], payView[q])'
      BY <2>1 DEF ViewsHold
    <3>1. ViewHolds(session[q], payView[q]) /\ session[q].ref \in PaymentIds
      BY DEF BookedForAReason, ViewsHold, TypeInv, SessionsNamed, Named
    <3> QED
      BY <2>1, <2>2, <3>1 DEF ViewHolds, Posted, ChargeKey
  <2> QED
    BY <2>1, <2>2, <2>3, QuietKept DEF BookedForAReason
<1> QED
  BY <1>2, <1>3, <1>4, ArriveBooked, LockBooked DEF Next, Close, Fail, Victim

\* Nothing is booked yet.
LEMMA InitBooked == Init => BookedForAReason
<1> SUFFICES ASSUME Init PROVE BookedForAReason
  OBVIOUS
<1>1. \A u \in Users : ledger[u] = <<>>
  BY DEF Init, AccountsInit
<1>2. OnceKeys /\ \A key : ~Posted(key)
  BY <1>1 DEF OnceKeys, Posted
<1>3. \A o \in OrderIds : OrderBooked(o)
  BY <1>2 DEF Init, OrdersInit, OrderBooked, NoOrder
<1>4. \A id \in PaymentIds : PaymentBooked(id)
  BY <1>2 DEF Init, PointsInit, PaymentBooked, NoPayment
<1>5. ViewsHold
  BY DEF Init, AccountsInit, ViewsHold, Idle
<1> QED
  BY <1>2, <1>3, <1>4, <1>5 DEF BookedForAReason

\* The invariant holds of every behaviour, at either isolation level.
LEMMA AlwaysBooked == Spec => [](TypeInv /\ Solvent /\ BookedForAReason)
<1>1. Init => Solvent
  BY DEF Init, AccountsInit, Idle, Unread, Solvent, OwnOrders, NoOverdraft
<1> QED
  BY <1>1, InitBooked, NextSolvent, NextBooked, TypeCorrect, PTL DEF Spec

----------------------------------------------------------------------------
(* What follows from it.                                                   *)

\* What is booked for an order is exactly what its status calls for.
LEMMA SettlementFollows == TypeInv /\ BookedForAReason => OrdersSettledOnce
<1> SUFFICES ASSUME TypeInv, BookedForAReason, NEW o \in OrderIds, orders[o].status # "none"
             PROVE  SettledInLedger(o)
  BY DEF OrdersSettledOnce
<1> DEFINE u == orders[o].user
           hold == orders[o].hold
           spent == orders[o].spent
           Only(keys) == KeysOf(u) \cap SettlementKeys(o) = keys
           Is(key, type, amount) ==
             CountOf(u, key) = 1 /\ RowOf(u, key).type = type /\ RowOf(u, key).amount = amount
<1>1. OrderBooked(o) /\ OnceKeys /\ u \in Users
  BY DEF BookedForAReason, TypeInv, RowsOwned
<1>2. /\ SettlementKeys(o) = {ShortfallKey(o), RefundKey(o), CancelKey(o)}
      /\ AdjustKey \notin OrderKeys(o)
  BY DEF SettlementKeys, OrderKeys, AdjustKey, HoldKey, ShortfallKey, RefundKey, CancelKey
<1>3. ASSUME NEW key, key \in OrderKeys(o), NEW type, NEW amount, Booked(u, key, type, amount)
      PROVE  Is(key, type, amount) /\ key \in KeysOf(u)
  BY <1>1, <1>2, <1>3, BookedIsTheRow
<1>4. \A key : ~Posted(key) => key \notin KeysOf(u)
  BY <1>1, UnpostedIsNoRow
<1>5. {HoldKey(o), ShortfallKey(o), RefundKey(o), CancelKey(o)} \subseteq OrderKeys(o)
  BY DEF OrderKeys
<1>6. Is(HoldKey(o), "use", hold)
  BY <1>1, <1>3, <1>5 DEF OrderBooked
<1>7. ASSUME orders[o].status = "draft" PROVE Only({}) /\ spent = 0
  BY <1>1, <1>2, <1>4, <1>7 DEF OrderBooked
<1>8. ASSUME orders[o].status = "cancelled"
      PROVE  Only({CancelKey(o)}) /\ Is(CancelKey(o), "refund", hold) /\ spent = 0
  <2>1. /\ spent = 0 /\ Booked(u, CancelKey(o), "refund", hold)
        /\ ~Posted(ShortfallKey(o)) /\ ~Posted(RefundKey(o))
    BY <1>1, <1>8 DEF OrderBooked
  <2>2. Is(CancelKey(o), "refund", hold) /\ CancelKey(o) \in KeysOf(u)
    BY <1>3, <1>5, <2>1
  <2> QED
    BY <1>2, <1>4, <2>1, <2>2
<1>9. ASSUME orders[o].status = "confirmed"
      PROVE  /\ spent = orders[o].fee
             /\ \/ spent = hold /\ Only({})
                \/ spent > hold /\ Only({ShortfallKey(o)})
                   /\ Is(ShortfallKey(o), "use", spent - hold)
                \/ spent < hold /\ Only({RefundKey(o)})
                   /\ Is(RefundKey(o), "refund", hold - spent)
  <2>1. /\ spent = orders[o].fee /\ ~Posted(CancelKey(o))
        /\ \/ spent = hold /\ ~Posted(ShortfallKey(o)) /\ ~Posted(RefundKey(o))
           \/ /\ spent > hold /\ Booked(u, ShortfallKey(o), "use", spent - hold)
              /\ ~Posted(RefundKey(o))
           \/ /\ spent < hold /\ Booked(u, RefundKey(o), "refund", hold - spent)
              /\ ~Posted(ShortfallKey(o))
    BY <1>1, <1>9 DEF OrderBooked
  <2>2. CASE spent = hold /\ ~Posted(ShortfallKey(o)) /\ ~Posted(RefundKey(o))
    BY <1>2, <1>4, <2>1, <2>2
  <2>3. CASE /\ spent > hold /\ Booked(u, ShortfallKey(o), "use", spent - hold)
             /\ ~Posted(RefundKey(o))
    <3>1. Is(ShortfallKey(o), "use", spent - hold) /\ ShortfallKey(o) \in KeysOf(u)
      BY <1>3, <1>5, <2>3
    <3> QED
      BY <1>2, <1>4, <2>1, <2>3, <3>1
  <2>4. CASE /\ spent < hold /\ Booked(u, RefundKey(o), "refund", hold - spent)
             /\ ~Posted(ShortfallKey(o))
    <3>1. Is(RefundKey(o), "refund", hold - spent) /\ RefundKey(o) \in KeysOf(u)
      BY <1>3, <1>5, <2>4
    <3> QED
      BY <1>2, <1>4, <2>1, <2>4, <3>1
  <2> QED
    BY <2>1, <2>2, <2>3, <2>4
<1> QED
  BY <1>6, <1>7, <1>8, <1>9 DEF SettledInLedger

\* Pay, cancel, complete and their retries book for an order exactly the rows
\* its status calls for, in whatever order and however often they are called.
THEOREM SettledOnce == Spec => []OrdersSettledOnce
  BY AlwaysBooked, SettlementFollows, PTL

\* The credit of a payment is the one row under its key.
LEMMA ChargeFollows == TypeInv /\ BookedForAReason => ChargedOnce
<1> SUFFICES ASSUME TypeInv, BookedForAReason, NEW id \in PaymentIds,
                    payments[id].status # "none"
             PROVE  LET u == payments[id].user
                        credits == CountOf(u, ChargeKey(id))
                    IN  /\ credits <= 1
                        /\ credits = 1 =>
                             /\ remote[id] \in {"PAID", "CANCELLED"}
                             /\ RowOf(u, ChargeKey(id)).amount = payments[id].points
                        /\ payments[id].status = "paid" => credits = 1
  BY DEF ChargedOnce
<1>1. PaymentBooked(id) /\ OnceKeys /\ payments[id].user \in Users
  BY DEF BookedForAReason, TypeInv, RowsOwned
<1>2. CASE Posted(ChargeKey(id))
  <2>1. ChargeKey(id) # AdjustKey
    BY DEF ChargeKey, AdjustKey
  <2>2. /\ CountOf(payments[id].user, ChargeKey(id)) = 1
        /\ RowOf(payments[id].user, ChargeKey(id)).amount = payments[id].points
    BY <1>1, <1>2, <2>1, BookedIsTheRow DEF PaymentBooked
  <2> QED
    BY <1>1, <1>2, <2>2 DEF PaymentBooked, WasPaid
<1>3. CASE ~Posted(ChargeKey(id))
  <2>1. CountOf(payments[id].user, ChargeKey(id)) = 0
    BY <1>1, <1>3, UnpostedIsNoRow
  <2> QED
    BY <1>1, <1>3, <2>1 DEF PaymentBooked
<1> QED
  BY <1>2, <1>3

\* Client, webhook, failure report and their retries credit a payment at most
\* once, only if PortOne has it paid, and never mark it paid without the credit.
THEOREM CreditedOnce == Spec => []ChargedOnce
  BY AlwaysBooked, ChargeFollows, PTL

----------------------------------------------------------------------------
(* What a step may do to an order.                                         *)

\* The handlers that write orders.
LEMMA OrdersWritten ==
  ASSUME TypeInv, [Next]_vars
  PROVE  \/ UNCHANGED orders
         \/ \E p \in Procs : At(p, "preauth", "locked") /\ PlaceHold(p)
         \/ \E p \in Procs : session[p].ref \in OrderIds
                             /\ (PriceOrder(p) \/ SettleOrder(p) \/ RefundHold(p))
<1>1. ASSUME NEW p \in Procs, OrdersStep(p)
      PROVE  \/ UNCHANGED orders
             \/ At(p, "preauth", "locked") /\ PlaceHold(p)
             \/ session[p].ref \in OrderIds
                /\ (PriceOrder(p) \/ SettleOrder(p) \/ RefundHold(p))
  <2>1. CASE PreAuthorize(p)
    BY <2>1 DEF PreAuthorize, NoWrites, Replay, orderVars
  <2>2. CASE CompleteOrder(p) \/ PayOrder(p) \/ CancelOrder(p)
    <3>1. session[p].ref \in OrderIds
      BY <2>2 DEF CompleteOrder, PayOrder, CancelOrder, At, TypeInv, SessionsNamed, Named
    <3> QED
      BY <2>2, <3>1 DEF CompleteOrder, PayOrder, CancelOrder, NoWrites, Replay, orderVars
  <2> QED
    BY <1>1, <2>1, <2>2 DEF OrdersStep
<1>2. ASSUME NEW p \in Procs, Arrive(p) \/ Lock(p) \/ Leave(p) PROVE UNCHANGED orders
  BY <1>2 DEF Arrive, BeginOrders, BeginPreAuthorize, BeginCompleteOrder, BeginPayOrder,
     BeginCancelOrder, BeginOn, Lock, LockForOrders, LockForPreAuthorize, LockForSettling,
     LockOrder, Leave, orderVars
<1> QED
  BY <1>1, <1>2 DEF Next, Proceed, Close, Fail, Victim, Environment, vars, orderVars

\* Only a draft is written, and only complete_order, on an unpriced one, writes
\* what it costs.
LEMMA OrderRewritten ==
  ASSUME TypeInv, NEW p \in Procs, session[p].ref \in OrderIds,
         PriceOrder(p) \/ SettleOrder(p) \/ RefundHold(p), NEW o \in OrderIds
  PROVE  /\ orders'[o].key = orders[o].key
         /\ \/ orders'[o] = orders[o]
            \/ /\ orders[o].status = "draft" /\ orders'[o].hold = orders[o].hold
               /\ Priced(o) => orders'[o].fee = orders[o].fee /\ Priced(o)'
<1>1. orders \in [OrderIds -> Order]
  BY DEF TypeInv, TypeOK, OrdersTypeOK
<1>2. PICK ref \in OrderIds : ref = session[p].ref
  OBVIOUS
<1>3. CASE PriceOrder(p)
  <2>1. PICK fee \in Fees, source \in {"manual", "operator_session"} :
          orders' = [orders EXCEPT ![ref].fee = fee, ![ref].source = source]
    BY <1>2, <1>3 DEF PriceOrder
  <2> QED
    BY <1>1, <1>2, <1>3, <2>1 DEF PriceOrder, Priced, Order
<1>4. CASE SettleOrder(p)
  <2>1. /\ orders[ref].status = "draft"
        /\ orders' = [orders EXCEPT ![ref].spent = orders[ref].fee, ![ref].status = "confirmed"]
    BY <1>2, <1>4 DEF SettleOrder, Payable
  <2> QED
    BY <1>1, <2>1 DEF Priced, Order
<1>5. CASE RefundHold(p)
  <2>1. /\ orders[ref].status = "draft"
        /\ orders' = [orders EXCEPT ![ref].spent = 0, ![ref].status = "cancelled"]
    BY <1>2, <1>5 DEF RefundHold
  <2> QED
    BY <1>1, <2>1 DEF Priced, Order
<1> QED
  BY <1>3, <1>4, <1>5

\* UNIQUE(idempotency_key) keeps a client key on one order through every step.
LEMMA NextOneOrder == TypeInv /\ OneOrderPerKey /\ [Next]_vars => OneOrderPerKey'
<1> SUFFICES ASSUME TypeInv, OneOrderPerKey, [Next]_vars PROVE OneOrderPerKey'
  OBVIOUS
<1>1. orders \in [OrderIds -> Order] /\ None \notin OrderIds
  BY AccountsAssumption, UsageOrdersAssumption DEF TypeInv, TypeOK, OrdersTypeOK
<1>2. ASSUME NEW p \in Procs, PlaceHold(p) PROVE OneOrderPerKey'
  <2>1. PICK o \in OrderIds, hold \in Holds(session[p].user) :
          orders' = [orders EXCEPT ![o] =
            [status |-> "draft", user |-> session[p].user, key |-> session[p].ref,
             hold |-> hold, fee |-> hold, spent |-> 0, source |-> "preset"]]
    BY <1>2 DEF PlaceHold
  <2>2. /\ orders'[o].key = session[p].ref
        /\ \A o2 \in OrderIds : o2 # o => orders'[o2] = orders[o2]
    BY <1>1, <2>1
  <2>3. session[p].ref # None => \A o2 \in OrderIds : orders[o2].key # session[p].ref
    BY <1>1, <1>2 DEF PlaceHold, OrderWithKey
  <2> QED
    BY <1>1, <2>2, <2>3 DEF OneOrderPerKey
<1>3. ASSUME NEW p \in Procs, session[p].ref \in OrderIds,
             PriceOrder(p) \/ SettleOrder(p) \/ RefundHold(p)
      PROVE  OneOrderPerKey'
  <2>1. \A o \in OrderIds : orders'[o].key = orders[o].key
    BY <1>1, <1>3, OrderRewritten
  <2> QED
    BY <2>1 DEF OneOrderPerKey
<1> QED
  BY <1>2, <1>3, OrdersWritten DEF OneOrderPerKey

\* However often and however late a client repeats pre_authorize with its key,
\* the key holds points for one order only.
THEOREM KeyHoldsOnce == Spec => []OneOrderPerKey
<1>1. Init => OneOrderPerKey
  BY DEF Init, OrdersInit, NoOrder, OneOrderPerKey
<1> QED
  BY <1>1, NextOneOrder, TypeCorrect, PTL DEF Spec

\* A confirmed or cancelled order never changes again, and no step reprices or
\* unprices a priced draft: what the client saw is what pay_order settles.
THEOREM PricesFinal == Spec => PricesAreFinal
<1> DEFINE Final(o) ==
      /\ orders[o].status \in {"confirmed", "cancelled"} => orders'[o] = orders[o]
      /\ orders[o].status = "draft" /\ Priced(o) =>
           /\ orders'[o].fee = orders[o].fee /\ orders'[o].hold = orders[o].hold
           /\ Priced(o)'
<1>1. TypeInv /\ [Next]_vars => [\A o \in OrderIds : Final(o)]_vars
  <2> SUFFICES ASSUME TypeInv, [Next]_vars, NEW o \in OrderIds PROVE Final(o)
    OBVIOUS
  <2>1. orders \in [OrderIds -> Order]
    BY DEF TypeInv, TypeOK, OrdersTypeOK
  <2>2. CASE UNCHANGED orders
    BY <2>2 DEF Priced
  <2>3. ASSUME NEW p \in Procs, PlaceHold(p) PROVE Final(o)
    BY <2>1, <2>3 DEF PlaceHold, Priced
  <2>4. ASSUME NEW p \in Procs, session[p].ref \in OrderIds,
               PriceOrder(p) \/ SettleOrder(p) \/ RefundHold(p)
        PROVE  Final(o)
    <3>1. \/ orders'[o] = orders[o]
          \/ /\ orders[o].status = "draft" /\ orders'[o].hold = orders[o].hold
             /\ Priced(o) => orders'[o].fee = orders[o].fee /\ Priced(o)'
      BY <2>4, OrderRewritten
    <3> QED
      BY <3>1 DEF Priced
  <2> QED
    BY <2>2, <2>3, <2>4, OrdersWritten
<1> QED
  BY <1>1, TypeCorrect, PTL DEF Spec, PricesAreFinal
=============================================================================
