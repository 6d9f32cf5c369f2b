----------------------------- MODULE PromiseProofs -----------------------------
(***************************************************************************)
(* The money core keeps the promise of PointAccounts at READ COMMITTED:    *)
(* every step of every handler is one movement of points, journalled for   *)
(* the reason it has, or leaves points, journal and holds alone.           *)
(***************************************************************************)
EXTENDS LedgerProofs, SettlementProofs

----------------------------------------------------------------------------
(* The journal of the promise is the ledger, row for row.                  *)

Entry == [for: Keys, delta: Int]
EntryOf(row) == [for |-> row.key, delta |-> Signed(row)]
EntriesOf(rowSeq) == [i \in 1..Len(rowSeq) |-> EntryOf(rowSeq[i])]

LEMMA EntryTyped == ASSUME NEW row \in Row PROVE EntryOf(row) \in Entry
  BY DEF Row, Entry, EntryOf, Signed

\* One entry per row.
LEMMA EntriesTyped ==
  ASSUME NEW rowSeq \in Seq(Row)
  PROVE  /\ EntriesOf(rowSeq) \in Seq(Entry) /\ Len(EntriesOf(rowSeq)) = Len(rowSeq)
         /\ \A i \in 1..Len(rowSeq) : EntriesOf(rowSeq)[i] = EntryOf(rowSeq[i])
<1> DEFINE entries == EntriesOf(rowSeq)
<1>1. Len(rowSeq) \in Nat /\ \A i \in 1..Len(rowSeq) : EntryOf(rowSeq[i]) \in Entry
  BY EntryTyped
<1>2. entries \in [1..Len(rowSeq) -> Entry]
  BY <1>1 DEF EntriesOf
<1>3. \A i \in 1..Len(rowSeq) : entries[i] = EntryOf(rowSeq[i])
  BY DEF EntriesOf
<1> HIDE DEF entries
<1>4. entries \in Seq(Entry) /\ Len(entries) = Len(rowSeq)
  BY <1>1, <1>2
<1> QED
  BY <1>3, <1>4 DEF entries

\* A row that is added adds its entry.
LEMMA EntriesAppend ==
  ASSUME NEW rowSeq \in Seq(Row), NEW row \in Row
  PROVE  EntriesOf(Append(rowSeq, row)) = Append(EntriesOf(rowSeq), EntryOf(row))
<1> DEFINE longer == Append(rowSeq, row)
           old == EntriesOf(rowSeq)
           entry == EntryOf(row)
           new == EntriesOf(longer)
<1>1. /\ longer \in Seq(Row) /\ Len(longer) = Len(rowSeq) + 1 /\ Len(rowSeq) \in Nat
      /\ longer[Len(rowSeq) + 1] = row /\ \A i \in 1..Len(rowSeq) : longer[i] = rowSeq[i]
  OBVIOUS
<1>2. /\ old \in Seq(Entry) /\ Len(old) = Len(rowSeq)
      /\ \A i \in 1..Len(rowSeq) : old[i] = EntryOf(rowSeq[i])
  BY EntriesTyped
<1> HIDE DEF longer
<1>3. /\ new \in Seq(Entry) /\ Len(new) = Len(longer)
      /\ \A i \in 1..Len(longer) : new[i] = EntryOf(longer[i])
  BY <1>1, EntriesTyped
<1>4. entry \in Entry
  BY EntryTyped
<1> HIDE DEF old, new
<1>5. /\ Append(old, entry) \in Seq(Entry) /\ Len(Append(old, entry)) = Len(new)
      /\ \A i \in 1..Len(new) : Append(old, entry)[i] = new[i]
  BY <1>1, <1>2, <1>3, <1>4
<1>6. Append(old, entry) = new
  <2> DEFINE appended == Append(old, entry)
  <2> HIDE DEF appended
  <2> QED
    BY <1>3, <1>5 DEF appended
<1> QED
  BY <1>6 DEF old, new, longer

LEMMA JournalEntries == \A u \in Users : Journal(u) = EntriesOf(ledger[u])
  BY DEF Journal, EntriesOf, EntryOf

Journals == [u \in Users |-> Journal(u)]
HoldsOf == [o \in OrderIds |-> HoldOf(o)]

\* A row of u's ledger adds its entry to u's journal and to no other.
LEMMA JournalAppends ==
  ASSUME ledger \in [Users -> Seq(Row)], NEW u \in Users, NEW row \in Row, Books(u, row)
  PROVE  Journals' = [Journals EXCEPT ![u] = Append(@, EntryOf(row))]
<1>1. Journals = [v \in Users |-> EntriesOf(ledger[v])]
  BY JournalEntries DEF Journals
<1>2. Journals' = [v \in Users |-> EntriesOf(ledger'[v])]
  BY DEF Journals, Journal, EntriesOf, EntryOf, Signed
<1>3. EntriesOf(ledger'[u]) = Append(EntriesOf(ledger[u]), EntryOf(row))
  BY EntriesAppend DEF Books
<1>4. \A v \in Users : v # u => ledger'[v] = ledger[v]
  BY DEF Books
<1> QED
  BY <1>1, <1>2, <1>3, <1>4

\* A reason is journalled when its key is in the ledger.
LEMMA JournalledIsPosted ==
  ASSUME ledger \in [Users -> Seq(Row)], NEW key
  PROVE  Promise!Journalled(key) <=> Posted(key)
<1>1. ASSUME NEW u \in Users
      PROVE  /\ Len(Journals[u]) = Len(ledger[u])
             /\ \A i \in 1..Len(ledger[u]) : Journals[u][i].for = ledger[u][i].key
  <2>1. Journals[u] = EntriesOf(ledger[u]) /\ ledger[u] \in Seq(Row)
    BY JournalEntries DEF Journals
  <2>2. /\ Len(EntriesOf(ledger[u])) = Len(ledger[u])
        /\ \A i \in 1..Len(ledger[u]) : EntriesOf(ledger[u])[i] = EntryOf(ledger[u][i])
    BY <2>1, EntriesTyped
  <2> QED
    BY <2>1, <2>2 DEF EntryOf
<1>2. Promise!Journalled(key) <=>
        \E u \in Users : \E i \in 1..Len(Journals[u]) : Journals[u][i].for = key
  BY DEF Promise!Journalled, Journals
<1>3. (\E u \in Users : \E i \in 1..Len(Journals[u]) : Journals[u][i].for = key)
        <=> \E u \in Users : \E i \in 1..Len(ledger[u]) : ledger[u][i].key = key
  <2>1. \A u \in Users : (\E i \in 1..Len(Journals[u]) : Journals[u][i].for = key)
          <=> (\E i \in 1..Len(ledger[u]) : ledger[u][i].key = key)
    <3> SUFFICES ASSUME NEW u \in Users
                 PROVE  (\E i \in 1..Len(Journals[u]) : Journals[u][i].for = key)
                          <=> (\E i \in 1..Len(ledger[u]) : ledger[u][i].key = key)
      OBVIOUS
    <3>1. Len(Journals[u]) = Len(ledger[u])
      BY <1>1
    <3>2. \A i \in 1..Len(ledger[u]) : Journals[u][i].for = ledger[u][i].key
      BY <1>1
    <3> QED
      BY <3>1, <3>2
  <2> QED
    BY <2>1
<1> QED
  BY <1>2, <1>3 DEF Posted

----------------------------------------------------------------------------
(* Postings are movements of the promise.                                  *)

\* A posting that adds its signed amount to the balance moves the points.
LEMMA PostMoves ==
  ASSUME TypeInv, NEW p \in Procs, NEW u \in Users, session[p].user = u,
         NEW type \in RowTypes, NEW amount \in Int, NEW new \in Nat, NEW key \in Keys,
         Post(p, type, amount, new, key),
         new = balance[u] + (IF type = "use" THEN -amount ELSE amount)
  PROVE  Promise!Move(u, key) /\ balance'[u] = new
<1> DEFINE row == [type |-> type, amount |-> amount, after |-> new, key |-> key]
<1>0. row \in Row /\ Books(u, row)
  BY DEF Row, Post, Books
<1>1. /\ ledger \in [Users -> Seq(Row)] /\ balance \in [Users -> Int]
      /\ row \in Row /\ Books(u, row)
  BY <1>0 DEF TypeInv, TypeOK, AccountsTypeOK
<1>2. balance' = [balance EXCEPT ![u] = new] /\ balance'[u] = new
  BY <1>1 DEF Post
<1>3. balance[u] \in Int /\ EntryOf(row) = [for |-> key, delta |-> new - balance[u]]
  BY <1>1 DEF EntryOf, Signed
<1>4. Journals' = [Journals EXCEPT ![u] = Append(@, [for |-> key, delta |-> new - balance[u]])]
  <2> HIDE DEF row
  <2> QED
    BY <1>1, <1>3, JournalAppends
<1>5. balance'[u] - balance[u] = new - balance[u] /\ balance'[u] >= 0
      /\ balance' = [balance EXCEPT ![u] = balance'[u]]
  <2>1. balance'[u] = new
    BY <1>2
  <2>2. balance' = [balance EXCEPT ![u] = balance'[u]]
    BY <1>2, <2>1
  <2> QED
    BY <2>1, <2>2
<1>6. /\ [v \in Users |-> Journal(v)] = Journals
      /\ [v \in Users |-> Journal(v)]' = Journals'
  BY Zenon DEF Journals
<1> HIDE DEF row
<1>7. Journals' = [Journals EXCEPT ![u] =
                     Append(Journals[u], [for |-> key, delta |-> balance'[u] - balance[u]])]
  BY <1>4, <1>5
<1> QED
  BY <1>2, <1>5, <1>6, <1>7, Zenon DEF Promise!Move

\* Orders whose status, owner, hold and cost stay keep their holds.
LEMMA HoldsStay ==
  ASSUME \A o \in OrderIds : /\ orders'[o].status = orders[o].status
                             /\ orders'[o].user = orders[o].user
                             /\ orders'[o].hold = orders[o].hold
                             /\ orders'[o].spent = orders[o].spent
  PROVE  HoldsOf' = HoldsOf
  BY DEF HoldsOf, HoldOf, Stage

\* One order written, one hold changed.
LEMMA OneHold ==
  ASSUME NEW o \in OrderIds, \A o2 \in OrderIds : o2 # o => orders'[o2] = orders[o2]
  PROVE  HoldsOf' = [HoldsOf EXCEPT ![o] = HoldOf(o)']
  BY DEF HoldsOf, HoldOf, Stage

----------------------------------------------------------------------------
(* One lemma per movement.                                                 *)

\* What the steps of the service are proved from.
PromiseInv == TypeInv /\ Solvent /\ BookedForAReason /\ Current

\* The credit of a payment is its first, and positive.
LEMMA CreditKeeps ==
  ASSUME PromiseInv, NEW p \in Procs, SettleCharge(p), Credit(p), UNCHANGED orders
  PROVE  \E u \in Users, id \in PaymentIds : Promise!CreditPayment(u, id)
<1> USE DEF PromiseInv
<1>1. HoldsUser(session[p]) /\ session[p].op \in {"charge", "webhook"}
  BY DEF SettleCharge, HoldsUser, LocksUser, ReadsUnderLock
<1>2. PICK u \in Users, id \in PaymentIds :
        /\ u = session[p].user /\ id = session[p].ref /\ payments[id].status # "none"
  BY <1>1 DEF HoldsUser, TypeInv, SessionsNamed, Named
<1>3. PICK granted \in Nat, new \in Int, key \in Keys :
        /\ granted = payments[id].points /\ new = balance[u] + granted /\ key = ChargeKey(id)
  <2>1. payments[id].points \in Nat /\ balance[u] \in Int
    BY <1>2 DEF TypeInv, TypeOK, PointsTypeOK, Payment, AccountsTypeOK
  <2> QED
    BY <2>1, KeysTyped
<1>4. granted > 0 /\ balance[u] >= 0 /\ balance[u] \in Int
  BY <1>2, <1>3, PointsAssumption
  DEF BookedForAReason, PaymentBooked, Solvent, NoOverdraft, TypeInv, TypeOK, AccountsTypeOK
<1>5. seen[p].balance = balance[u]
  BY <1>1, <1>2 DEF Current, ReadsUnderLock
<1>6. ~Posted(key) /\ Post(p, "charge", granted, new, key)
  BY <1>2, <1>3, <1>5 DEF Credit
<1>7. Promise!Move(u, key) /\ balance'[u] = new
  <2>1. /\ new \in Nat /\ granted \in Int /\ "charge" \in RowTypes
        /\ new = balance[u] + (IF "charge" = "use" THEN -granted ELSE granted)
    BY <1>3, <1>4 DEF RowTypes
  <2> QED
    BY <1>2, <1>6, <2>1, PostMoves
<1>8. ~Promise!Journalled(key)
  BY <1>6, JournalledIsPosted DEF TypeInv, TypeOK, AccountsTypeOK
<1>9. HoldsOf' = HoldsOf
  BY HoldsStay
<1>10. Promise!CreditPayment(u, id)
  BY <1>3, <1>4, <1>7, <1>8, <1>9 DEF Promise!CreditPayment, ChargeKey, HoldsOf
<1> QED
  BY <1>10

\* An adjustment moves what it really takes, never below zero.
LEMMA AdjustKeeps ==
  ASSUME PromiseInv, NEW p \in Procs, CreditPoints(p), AdjustBalance(p), UNCHANGED orders
  PROVE  \E u \in Users : Promise!Adjust(u)
<1> USE DEF PromiseInv
<1>1. HoldsUser(session[p]) /\ session[p].op \in ReadsUnderLock
  BY DEF CreditPoints, HoldsUser, LocksUser, ReadsUnderLock
<1>2. PICK u \in Users : u = session[p].user
  BY <1>1 DEF HoldsUser, TypeInv, SessionsNamed, Named
<1>3. seen[p].balance = balance[u] /\ balance[u] \in Int
  BY <1>1, <1>2 DEF Current, TypeInv, TypeOK, AccountsTypeOK
<1>4. PICK points \in Adjustments :
        LET old == seen[p].balance
            new == IF old + points < 0 THEN 0 ELSE old + points
        IN  new # old /\ Post(p, "adjust", new - old, new, AdjustKey)
  BY DEF AdjustBalance, AdjustKey
<1>5. PICK new \in Nat, amount \in Int, key \in Keys :
        /\ new # balance[u] /\ amount = new - balance[u] /\ key = AdjustKey
        /\ Post(p, "adjust", amount, new, key)
  <2> DEFINE n == IF balance[u] + points < 0 THEN 0 ELSE balance[u] + points
  <2>1. n \in Nat /\ n - balance[u] \in Int /\ AdjustKey \in Keys
    BY <1>3, PointsAssumption, KeysTyped DEF AdjustKey
  <2>2. n # balance[u] /\ Post(p, "adjust", n - balance[u], n, AdjustKey)
    BY <1>3, <1>4
  <2> HIDE DEF n
  <2> QED
    BY <2>1, <2>2
<1>6. Promise!Move(u, key) /\ balance'[u] = new
  <2>1. "adjust" \in RowTypes /\ new = balance[u] + (IF "adjust" = "use" THEN -amount ELSE amount)
    BY <1>3, <1>5 DEF RowTypes
  <2> QED
    BY <1>2, <1>5, <2>1, PostMoves
<1>7. HoldsOf' = HoldsOf
  BY HoldsStay
<1> QED
  BY <1>5, <1>6, <1>7 DEF Promise!Adjust, HoldsOf, AdjustKey

\* A hold is an order's first, positive and covered.
LEMMA HoldKeeps ==
  ASSUME PromiseInv, NEW p \in Procs, At(p, "preauth", "locked"), PlaceHold(p)
  PROVE  \E u \in Users, o \in OrderIds : Promise!TakeHold(u, o)
<1> USE DEF PromiseInv
<1>1. PICK u \in Users : u = session[p].user
  BY DEF At, TypeInv, SessionsNamed, Named
<1>2. PICK o \in OrderIds, hold \in Holds(u) :
        /\ orders[o].status = "none"
        /\ orders' = [orders EXCEPT ![o] =
             [status |-> "draft", user |-> u, key |-> session[p].ref, hold |-> hold,
              fee |-> hold, spent |-> 0, source |-> "preset"]]
        /\ Post(p, "use", hold, balance[u] - hold, HoldKey(o))
  BY <1>1 DEF PlaceHold
<1>3. hold \in Nat \ {0} /\ balance[u] >= hold /\ balance[u] \in Int
  BY <1>1, UsageOrdersAssumption DEF Holds, TypeInv, TypeOK, AccountsTypeOK
<1>4. PICK new \in Nat, key \in Keys : new = balance[u] - hold /\ key = HoldKey(o)
  BY <1>3, KeysTyped
<1>5. Promise!Move(u, key) /\ balance'[u] = new
  <2>1. /\ "use" \in RowTypes /\ hold \in Int /\ Post(p, "use", hold, new, key)
        /\ new = balance[u] + (IF "use" = "use" THEN -hold ELSE hold)
    BY <1>2, <1>3, <1>4 DEF RowTypes
  <2> QED
    BY <1>1, <2>1, PostMoves
<1>6. /\ orders'[o].status = "draft" /\ orders'[o].user = u /\ orders'[o].hold = hold
      /\ orders'[o].spent = 0 /\ \A o2 \in OrderIds : o2 # o => orders'[o2] = orders[o2]
  BY <1>2 DEF TypeInv, TypeOK, OrdersTypeOK
<1>7. HoldsOf' = [HoldsOf EXCEPT ![o] = [stage |-> "held", user |-> u, hold |-> hold, cost |-> 0]]
  <2>1. HoldsOf' = [HoldsOf EXCEPT ![o] = HoldOf(o)']
    BY <1>6, OneHold
  <2>2. HoldOf(o)' = [stage |-> "held", user |-> u, hold |-> hold, cost |-> 0]
    BY <1>6 DEF HoldOf, Stage
  <2> QED
    BY <2>1, <2>2
<1>8. HoldsOf[o] = Promise!NoHold
  BY <1>2 DEF BookedForAReason, OrderBooked, NoOrder, HoldsOf, HoldOf, Stage, Promise!NoHold
<1>9. hold = balance[u] - balance'[u] /\ hold > 0
  BY <1>3, <1>4, <1>5
<1>10. Promise!TakeHold(u, o)
  BY <1>4, <1>5, <1>7, <1>8, <1>9 DEF Promise!TakeHold, HoldsOf, HoldKey
<1> QED
  BY <1>10

\* What a session that settles an order works on.
LEMMA SettledOrder ==
  ASSUME PromiseInv, NEW p \in Procs, session[p].op \in {"pay", "cancel"},
         session[p].at = "ordered", orders[session[p].ref].status = "draft"
  PROVE  \E u \in Users, o \in OrderIds, hold \in Nat, fee \in Nat :
           /\ u = session[p].user /\ o = session[p].ref /\ orders[o].user = u
           /\ orders[o].hold = hold /\ orders[o].fee = fee /\ orders[o].spent = 0
           /\ ~Posted(ShortfallKey(o)) /\ ~Posted(RefundKey(o)) /\ ~Posted(CancelKey(o))
           /\ HoldsOf[o] = [stage |-> "held", user |-> u, hold |-> hold, cost |-> 0]
<1> USE DEF PromiseInv
<1>1. /\ session[p].user \in Users /\ session[p].ref \in OrderIds
      /\ session[p].user = orders[session[p].ref].user
  BY DEF TypeInv, SessionsNamed, Named, Solvent, OwnOrders
<1>2. orders[session[p].ref].hold \in Nat /\ orders[session[p].ref].fee \in Nat
  BY <1>1 DEF TypeInv, TypeOK, OrdersTypeOK, Order
<1>3. PICK u \in Users, o \in OrderIds, hold \in Nat, fee \in Nat :
        /\ u = session[p].user /\ o = session[p].ref /\ orders[o].user = u
        /\ orders[o].hold = hold /\ orders[o].fee = fee
  BY <1>1, <1>2
<1>4. /\ orders[o].spent = 0
      /\ ~Posted(ShortfallKey(o)) /\ ~Posted(RefundKey(o)) /\ ~Posted(CancelKey(o))
  BY <1>3 DEF BookedForAReason, OrderBooked
<1>5. HoldsOf[o] = [stage |-> "held", user |-> u, hold |-> hold, cost |-> 0]
  BY <1>3, <1>4 DEF HoldsOf, HoldOf, Stage
<1> QED
  BY <1>3, <1>4, <1>5

\* Cancelling gives the hold back.
LEMMA ReleaseKeeps ==
  ASSUME PromiseInv, NEW p \in Procs, At(p, "cancel", "ordered"), RefundHold(p)
  PROVE  \E o \in OrderIds : Promise!Release(o)
<1> USE DEF PromiseInv
<1>1. orders[session[p].ref].status = "draft"
  BY DEF RefundHold
<1>2. PICK u \in Users, o \in OrderIds, hold \in Nat, fee \in Nat :
        /\ u = session[p].user /\ o = session[p].ref /\ orders[o].user = u
        /\ orders[o].hold = hold /\ orders[o].fee = fee /\ orders[o].spent = 0
        /\ ~Posted(ShortfallKey(o)) /\ ~Posted(RefundKey(o)) /\ ~Posted(CancelKey(o))
        /\ HoldsOf[o] = [stage |-> "held", user |-> u, hold |-> hold, cost |-> 0]
  <2>1. session[p].op \in {"pay", "cancel"} /\ session[p].at = "ordered"
    BY DEF At
  <2> QED
    BY <1>1, <2>1, SettledOrder
<1>3. balance[u] \in Int /\ balance[u] >= 0
  BY DEF Solvent, NoOverdraft, TypeInv, TypeOK, AccountsTypeOK
<1>4. PICK new \in Nat, key \in Keys : new = balance[u] + hold /\ key = CancelKey(o)
  BY <1>3, KeysTyped
<1>5. /\ Post(p, "refund", hold, new, key)
      /\ orders' = [orders EXCEPT ![o].spent = 0, ![o].status = "cancelled"]
  BY <1>2, <1>4 DEF RefundHold, PostOnce
<1>6. Promise!Move(u, key) /\ balance'[u] = new
  <2>1. /\ "refund" \in RowTypes /\ hold \in Int
        /\ new = balance[u] + (IF "refund" = "use" THEN -hold ELSE hold)
    BY <1>3, <1>4 DEF RowTypes
  <2> QED
    BY <1>2, <1>5, <2>1, PostMoves
<1>7. /\ orders'[o].status = "cancelled" /\ orders'[o].user = u /\ orders'[o].hold = hold
      /\ orders'[o].spent = 0 /\ \A o2 \in OrderIds : o2 # o => orders'[o2] = orders[o2]
  BY <1>2, <1>5 DEF TypeInv, TypeOK, OrdersTypeOK, Order
<1>8. HoldsOf' = [HoldsOf EXCEPT ![o].stage = "released"]
  <2>1. HoldsOf' = [HoldsOf EXCEPT ![o] = HoldOf(o)']
    BY <1>7, OneHold
  <2>2. HoldOf(o)' = [stage |-> "released", user |-> u, hold |-> hold, cost |-> 0]
    BY <1>7 DEF HoldOf, Stage
  <2>3. [HoldsOf[o] EXCEPT !.stage = "released"]
          = [stage |-> "released", user |-> u, hold |-> hold, cost |-> 0]
    BY <1>2
  <2> QED
    BY <2>1, <2>2, <2>3
<1>9. HoldsOf[o].stage = "held" /\ HoldsOf[o].user = u /\ HoldsOf[o].hold = hold
  BY <1>2
<1>10. Promise!Release(o)
  BY <1>4, <1>6, <1>8, <1>9 DEF Promise!Release, Promise!MoveBy, HoldsOf, CancelKey
<1> QED
  BY <1>10

\* The record of a hold that is settled.
LEMMA SettledHold ==
  ASSUME NEW held, NEW u, NEW hold, NEW fee,
         held = [stage |-> "held", user |-> u, hold |-> hold, cost |-> 0]
  PROVE  [held EXCEPT !.stage = "settled", !.cost = fee]
           = [stage |-> "settled", user |-> u, hold |-> hold, cost |-> fee]
<1> DEFINE mid == [held EXCEPT !.stage = "settled"]
           new == [stage |-> "settled", user |-> u, hold |-> hold, cost |-> fee]
<1>1. mid = [stage |-> "settled", user |-> u, hold |-> hold, cost |-> 0]
  OBVIOUS
<1>2. [held EXCEPT !.stage = "settled", !.cost = fee] = [mid EXCEPT !.cost = fee]
  BY Zenon
<1> HIDE DEF mid
<1>3. DOMAIN mid = DOMAIN new /\ \A field \in DOMAIN mid : field # "cost" => new[field] = mid[field]
  BY <1>1
<1>4. new = [field \in DOMAIN mid |-> new[field]] /\ new.cost = fee
  BY <1>3
<1> HIDE DEF new
<1>5. new = [field \in DOMAIN mid |-> IF field = "cost" THEN fee ELSE mid[field]]
  BY <1>3, <1>4
<1>6. [mid EXCEPT !.cost = fee] = [field \in DOMAIN mid |-> IF field = "cost" THEN fee ELSE mid[field]]
  BY Zenon
<1> QED
  BY <1>2, <1>5, <1>6 DEF new

\* Paying settles the hold at the fee, which the balance covers.
LEMMA SettleKeeps ==
  ASSUME PromiseInv, NEW p \in Procs, At(p, "pay", "ordered"), SettleOrder(p)
  PROVE  \E o \in OrderIds : Promise!Settle(o)
<1> USE DEF PromiseInv
<1>1. orders[session[p].ref].status = "draft"
  BY DEF SettleOrder, Payable
<1>2. PICK u \in Users, o \in OrderIds, hold \in Nat, fee \in Nat :
        /\ u = session[p].user /\ o = session[p].ref /\ orders[o].user = u
        /\ orders[o].hold = hold /\ orders[o].fee = fee /\ orders[o].spent = 0
        /\ ~Posted(ShortfallKey(o)) /\ ~Posted(RefundKey(o)) /\ ~Posted(CancelKey(o))
        /\ HoldsOf[o] = [stage |-> "held", user |-> u, hold |-> hold, cost |-> 0]
  <2>1. session[p].op \in {"pay", "cancel"} /\ session[p].at = "ordered"
    BY DEF At
  <2> QED
    BY <1>1, <2>1, SettledOrder
<1>3. /\ balance[u] \in Int /\ balance[u] >= 0
      /\ fee > hold => balance[u] >= fee - hold
  BY <1>2 DEF Solvent, NoOverdraft, TypeInv, TypeOK, AccountsTypeOK, SettleOrder, Payable
<1>4. PICK new \in Nat : new = balance[u] + hold - fee /\ new = balance[u] + (hold - fee)
  BY <1>3
<1>5. /\ \/ fee > hold /\ Post(p, "use", fee - hold, new, ShortfallKey(o))
         \/ fee < hold /\ Post(p, "refund", hold - fee, new, RefundKey(o))
         \/ fee = hold /\ UNCHANGED <<balance, ledger>>
      /\ orders' = [orders EXCEPT ![o].spent = fee, ![o].status = "confirmed"]
  BY <1>2, <1>4 DEF SettleOrder, PostOnce
<1>6. /\ orders'[o].status = "confirmed" /\ orders'[o].user = u /\ orders'[o].hold = hold
      /\ orders'[o].spent = fee /\ \A o2 \in OrderIds : o2 # o => orders'[o2] = orders[o2]
  BY <1>2, <1>5 DEF TypeInv, TypeOK, OrdersTypeOK, Order
<1>7. /\ HoldsOf'[o].cost = fee
      /\ HoldsOf' = [HoldsOf EXCEPT ![o].stage = "settled", ![o].cost = fee]
  <2>1. HoldsOf' = [HoldsOf EXCEPT ![o] = HoldOf(o)']
    BY <1>6, OneHold
  <2>2. HoldOf(o)' = [stage |-> "settled", user |-> u, hold |-> hold, cost |-> fee]
    BY <1>6 DEF HoldOf, Stage
  <2>3. [HoldsOf[o] EXCEPT !.stage = "settled", !.cost = fee]
          = [stage |-> "settled", user |-> u, hold |-> hold, cost |-> fee]
    <3>1. HoldsOf[o] = [stage |-> "held", user |-> u, hold |-> hold, cost |-> 0]
      BY <1>2
    <3> QED
      BY <3>1, SettledHold, Zenon
  <2>4. HoldsOf \in [OrderIds -> {HoldsOf[o2] : o2 \in OrderIds}]
    BY DEF HoldsOf
  <2> QED
    BY <2>1, <2>2, <2>3, <2>4
<1>8. HoldsOf[o].stage = "held" /\ HoldsOf[o].user = u /\ HoldsOf[o].hold = hold
  BY <1>2
<1>9. ASSUME NEW type \in {"use", "refund"}, NEW amount \in Int, NEW key \in Keys,
             Post(p, type, amount, new, key),
             new = balance[u] + (IF type = "use" THEN -amount ELSE amount)
      PROVE  Promise!Move(u, key) /\ balance'[u] = balance[u] + (hold - fee)
  <2>1. type \in RowTypes
    BY DEF RowTypes
  <2> QED
    BY <1>2, <1>4, <1>9, <2>1, PostMoves
<1>10. \/ fee > hold /\ Promise!MoveBy(u, ShortfallKey(o), hold - fee)
       \/ fee < hold /\ Promise!MoveBy(u, RefundKey(o), hold - fee)
       \/ fee = hold /\ UNCHANGED <<balance, Journals>>
  <2>1. CASE fee > hold /\ Post(p, "use", fee - hold, new, ShortfallKey(o))
    <3>1. PICK key \in Keys, amount \in Int : key = ShortfallKey(o) /\ amount = fee - hold
      BY KeysTyped
    <3>2. new = balance[u] + (IF "use" = "use" THEN -amount ELSE amount)
      BY <1>3, <1>4, <3>1
    <3>3. Promise!Move(u, key) /\ balance'[u] = balance[u] + (hold - fee)
      BY <1>9, <2>1, <3>1, <3>2
    <3> QED
      BY <2>1, <3>1, <3>3 DEF Promise!MoveBy, ShortfallKey
  <2>2. CASE fee < hold /\ Post(p, "refund", hold - fee, new, RefundKey(o))
    <3>1. PICK key \in Keys, amount \in Int : key = RefundKey(o) /\ amount = hold - fee
      BY KeysTyped
    <3>2. new = balance[u] + (IF "refund" = "use" THEN -amount ELSE amount)
      BY <1>3, <1>4, <3>1
    <3>3. Promise!Move(u, key) /\ balance'[u] = balance[u] + (hold - fee)
      BY <1>9, <2>2, <3>1, <3>2
    <3> QED
      BY <2>2, <3>1, <3>3 DEF Promise!MoveBy, RefundKey
  <2>3. CASE fee = hold /\ UNCHANGED <<balance, ledger>>
    BY <2>3 DEF Journals, Journal, Signed
  <2> QED
    BY <1>5, <2>1, <2>2, <2>3
<1>11. Promise!Settle(o)
  BY <1>7, <1>8, <1>10 DEF Promise!Settle, HoldsOf, Journals, ShortfallKey, RefundKey
<1> QED
  BY <1>11

----------------------------------------------------------------------------
(* The refinement.                                                         *)

\* Nothing moves unless points, ledger or orders do.
LEMMA QuietKeeps ==
  ASSUME UNCHANGED <<balance, ledger>>, HoldsOf' = HoldsOf
  PROVE  UNCHANGED Promise!promiseVars
  BY DEF Promise!promiseVars, HoldsOf, Journal, Signed

\* A step of the points handlers.
LEMMA PointsKeep ==
  ASSUME PromiseInv, NEW p \in Procs, PointsStep(p), UNCHANGED orders
  PROVE  Promise!PromiseNext \/ UNCHANGED Promise!promiseVars
<1>1. CASE SettleCharge(p) /\ Credit(p)
  BY <1>1, CreditKeeps DEF Promise!PromiseNext
<1>2. CASE CreditPoints(p) /\ AdjustBalance(p)
  BY <1>2, AdjustKeeps DEF Promise!PromiseNext
<1>3. CASE UNCHANGED <<balance, ledger>>
  BY <1>3, HoldsStay, QuietKeeps
<1> QED
  BY <1>1, <1>2, <1>3 DEF PointsStep, CreateCharge, FailCharge, AskPortOne, MoveTo,
     SettleCharge, CreditPoints, rows

\* A step of an order.
LEMMA OrdersKeep ==
  ASSUME PromiseInv, NEW p \in Procs, OrdersStep(p)
  PROVE  Promise!PromiseNext \/ UNCHANGED Promise!promiseVars
<1>1. CASE At(p, "preauth", "locked") /\ PlaceHold(p)
  BY <1>1, HoldKeeps DEF Promise!PromiseNext
<1>2. CASE At(p, "pay", "ordered") /\ SettleOrder(p)
  BY <1>2, SettleKeeps DEF Promise!PromiseNext
<1>3. CASE At(p, "cancel", "ordered") /\ RefundHold(p)
  BY <1>3, ReleaseKeeps DEF Promise!PromiseNext
<1>4. CASE UNCHANGED <<balance, ledger, orders>>
  BY <1>4, HoldsStay, QuietKeeps
<1>5. CASE At(p, "complete", "ordered") /\ PriceOrder(p)
  <2>1. UNCHANGED <<balance, ledger>>
    BY <1>5 DEF PriceOrder, rows
  <2>2. \A o \in OrderIds : /\ orders'[o].status = orders[o].status
                            /\ orders'[o].user = orders[o].user
                            /\ orders'[o].hold = orders[o].hold
                            /\ orders'[o].spent = orders[o].spent
    BY <1>5 DEF PriceOrder, PromiseInv, TypeInv, TypeOK, OrdersTypeOK, Order
  <2> QED
    BY <2>1, <2>2, HoldsStay, QuietKeeps
<1> QED
  BY <1>1, <1>2, <1>3, <1>4, <1>5
  DEF OrdersStep, PreAuthorize, CompleteOrder, PayOrder, CancelOrder, NoWrites, Replay, MoveTo,
      rows, orderVars

\* Every step of the service is a step of the promise or none.
LEMMA NextKeeps ==
  ASSUME PromiseInv, [Next]_vars
  PROVE  Promise!PromiseNext \/ UNCHANGED Promise!promiseVars
<1>1. ASSUME NEW p \in Procs,
             \/ Arrive(p) \/ Lock(p) \/ Leave(p) \/ Environment \/ UNCHANGED vars
             \/ AccountStep(p) /\ UNCHANGED <<pointVars, orderVars>>
      PROVE  UNCHANGED Promise!promiseVars
  <2>1. UNCHANGED <<balance, ledger>>
    BY <1>1, OthersKeepLedger DEF PromiseInv
  <2>2. UNCHANGED orders
    BY <1>1
    DEF Arrive, BeginOrders, BeginPreAuthorize, BeginCompleteOrder, BeginPayOrder,
        BeginCancelOrder, BeginOn, Lock, LockForOrders, LockForPreAuthorize, LockForSettling,
        LockOrder, Leave, Environment, vars, orderVars
  <2> QED
    BY <2>1, <2>2, HoldsStay, QuietKeeps
<1>2. CASE Environment \/ UNCHANGED vars
  <2>1. UNCHANGED <<balance, ledger, orders>>
    BY <1>2 DEF Environment, PortOneMoves, vars, accountVars, rows, orderVars
  <2> QED
    BY <2>1, HoldsStay, QuietKeeps
<1>3. ASSUME NEW p \in Procs, Proceed(p)
      PROVE  Promise!PromiseNext \/ UNCHANGED Promise!promiseVars
  BY <1>1, <1>3, PointsKeep, OrdersKeep DEF Proceed, orderVars
<1> QED
  BY <1>1, <1>2, <1>3 DEF Next, Close, Fail, Victim

\* Nothing has moved yet.
LEMMA InitKeeps == Init => Promise!PromiseInit
<1> SUFFICES ASSUME Init PROVE Promise!PromiseInit
  OBVIOUS
<1>1. \A u \in Users : Journal(u) = <<>>
  BY DEF Init, AccountsInit, Journal
<1>2. \A o \in OrderIds : HoldOf(o) = Promise!NoHold
  BY DEF Init, OrdersInit, NoOrder, HoldOf, Stage, Promise!NoHold
<1>3. balance = [u \in Users |-> 0]
  BY DEF Init, AccountsInit
<1> QED
  BY <1>1, <1>2, <1>3 DEF Promise!PromiseInit

\* At READ COMMITTED the service implements PointAccounts: whatever handlers,
\* retries, failures and PortOne interleave, each step is one journalled
\* movement of the promise or moves nothing.
THEOREM PromiseKept ==
  ASSUME Isolation = "READ_COMMITTED"
  PROVE  Spec => KeepsPromise
<1>1. Init => Current
  BY DEF Init, AccountsInit, Current, HoldsUser, Idle
<1>2. TypeInv /\ Current /\ [Next]_vars => Current'
  BY CurrentKept
<1>3. TypeInv /\ Solvent /\ BookedForAReason /\ Current /\ [Next]_vars
        => [Promise!PromiseNext]_Promise!promiseVars
  BY NextKeeps DEF PromiseInv
<1> QED
  BY <1>1, <1>2, <1>3, InitKeeps, AlwaysBooked, PTL DEF Spec, KeepsPromise, Promise!PromiseSpec
=============================================================================
