-------------------------------- MODULE Points --------------------------------
(***************************************************************************)
(* Charging the wallet with money: payments rows, PortOne as the source of *)
(* truth for what was paid, the client's complete and fail calls, PortOne's *)
(* webhook, and the administrator's adjustment.                            *)
(*                                                                         *)
(* The client and the webhook both run complete_charge on one payment, in  *)
(* any order and any number of times; the client may also report a failure *)
(* of a payment that PortOne still completes.                              *)
(***************************************************************************)
EXTENDS Accounts

CONSTANTS
    PaymentIds,     \* payments.idempotency_key = PortOne's paymentId
    ChargeAmounts,  \* points a payment may grant
    Adjustments     \* signed points an administrator may ask for

ASSUME PointsAssumption ==
    /\ PaymentIds \subseteq Refs
    /\ ChargeAmounts \subseteq Nat \ {0}
    /\ Adjustments \subseteq Int \ {0}

VARIABLES
    payments,   \* payments rows
    remote,     \* the payment as PortOne has it
    payView     \* what a session knows of its payment: row, ledger, PortOne

pointVars == <<payments, remote, payView>>

PaymentStatuses == {"none", "pending", "paid", "failed"}
RemoteStatuses == {"READY", "PAID", "MISPAID", "FAILED", "CANCELLED"}
Payment == [status: PaymentStatuses, user: Users \cup {None}, points: Nat]
PayView == [status: PaymentStatuses, credited: BOOLEAN, answer: RemoteStatuses]

NoPayment == [status |-> "none", user |-> None, points |-> 0]
NoPayView == [status |-> "none", credited |-> FALSE, answer |-> "READY"]

ChargeKey(id) == <<"charge", id>>
PaymentRead(id) ==
    [status |-> payments[id].status, credited |-> Posted(ChargeKey(id)), answer |-> "READY"]

PointsInit ==
    /\ payments = [id \in PaymentIds |-> NoPayment]
    /\ remote = [id \in PaymentIds |-> "READY"]
    /\ payView = [p \in Procs |-> NoPayView]

ForgetPayment(p) == payView' = [payView EXCEPT ![p] = NoPayView]
EndPoints(p) == End(p) /\ ForgetPayment(p)

----------------------------------------------------------------------------
(* create_charge and fail_charge take no row lock.                         *)

BeginCreateCharge(p) ==
    /\ \E u \in Users : BeginAs(p, "create", u, None)
    /\ UNCHANGED pointVars

\* The payments row refers to users, so its INSERT waits for a lock on that row.
CreateCharge(p) ==
    LET u == session[p].user
        New == {id \in PaymentIds : payments[id].status = "none"}
    IN
    /\ session[p].op = "create"
    /\ \/ /\ WalletReady(p) /\ userLock[u] = None
          /\ \E id \in New, granted \in ChargeAmounts :
               payments' = [payments EXCEPT ![id] =
                 [status |-> "pending", user |-> u, points |-> granted]]
          /\ OpenWallet(p)
       \/ /\ WalletTaken(p) \/ (WalletReady(p) /\ userLock[u] = None /\ New = {})
          /\ UNCHANGED <<payments, opened>>
    /\ EndPoints(p)
    /\ UNCHANGED <<active, point, balance, ledger, remote>>

\* The row is read here and not read again before it is overwritten.
BeginFailCharge(p) ==
    \E id \in PaymentIds :
       /\ payments[id].status # "none"
       /\ BeginAs(p, "fail", payments[id].user, id)
       /\ payView' = [payView EXCEPT ![p] = PaymentRead(id)]
       /\ UNCHANGED <<payments, remote>>

FailCharge(p) ==
    /\ At(p, "fail", "begun")
    /\ payments' = IF payView[p].status = "pending"
                     THEN [payments EXCEPT ![session[p].ref].status = "failed"]
                     ELSE payments
    /\ EndPoints(p)
    /\ UNCHANGED <<rows, remote>>

----------------------------------------------------------------------------
(* complete_charge, called by the owner or by the webhook.                 *)

BeginCompleteCharge(p) ==
    \E id \in PaymentIds :
       /\ payments[id].status # "none"
       /\ \/ BeginAs(p, "charge", payments[id].user, id)
          \/ Begin(p, "webhook", payments[id].user, id)
       /\ payView' = [payView EXCEPT ![p] =
            IF Isolation = "REPEATABLE_READ" THEN PaymentRead(id) ELSE NoPayView]
       /\ UNCHANGED <<payments, remote>>

\* "잠금 후 재조회": payment, wallet and ledger are read after the lock, from
\* the snapshot when there is one.
LockPayer(p) ==
    /\ session[p].op \in {"charge", "webhook"}
    /\ LockUser(p)
    /\ payView' = IF Isolation = "READ_COMMITTED"
                    THEN [payView EXCEPT ![p] = PaymentRead(session[p].ref)]
                    ELSE payView
    /\ UNCHANGED <<payments, remote>>

\* PortOne is called while the users row stays locked.  A payment already paid
\* is answered at once, and the lock stays with the open Session.
AskPortOne(p) ==
    /\ session[p].op \in {"charge", "webhook"} /\ session[p].at = "locked"
    /\ \/ payView[p].status = "paid" /\ MoveTo(p, "answered") /\ UNCHANGED payView
       \/ /\ payView[p].status # "paid"
          /\ MoveTo(p, "asked")
          /\ payView' = [payView EXCEPT ![p].answer = remote[session[p].ref]]
    /\ UNCHANGED <<payments, remote>>

\* A status the Session already holds is not written again.
SetPaymentStatus(p, status) ==
    payments' = IF payView[p].status = status THEN payments
                ELSE [payments EXCEPT ![session[p].ref].status = status]

\* Slips: no UNIQUE on the idempotency key, and no look at the ledger either.
CreditUnlessSeen(p) ==
    LET id == session[p].ref
        granted == payments[id].points
    IN  /\ ~payView[p].credited
        /\ Post(p, "charge", granted, seen[p].balance + granted, ChargeKey(id))
        /\ SetPaymentStatus(p, "paid")
        /\ UNCHANGED <<active, opened>>

CreditAlways(p) ==
    LET id == session[p].ref
        granted == payments[id].points
    IN  /\ Post(p, "charge", granted, seen[p].balance + granted, ChargeKey(id))
        /\ SetPaymentStatus(p, "paid")
        /\ UNCHANGED <<active, opened>>

Credit(p) ==
    LET id == session[p].ref
        granted == payments[id].points
    IN  /\ ~payView[p].credited
        /\ ~Posted(ChargeKey(id))   \* UNIQUE(idempotency_key)
        /\ Post(p, "charge", granted, seen[p].balance + granted, ChargeKey(id))
        /\ SetPaymentStatus(p, "paid")
        /\ UNCHANGED <<active, opened>>

SettleCharge(p) ==
    LET answer == payView[p].answer IN
    /\ session[p].op \in {"charge", "webhook"} /\ session[p].at = "asked"
    /\ \/ answer \in {"FAILED", "MISPAID"} /\ SetPaymentStatus(p, "failed") /\ UNCHANGED rows
       \/ answer \in {"READY", "CANCELLED"} /\ UNCHANGED <<payments, rows>>
       \/ answer = "PAID" /\ payView[p].credited
          /\ SetPaymentStatus(p, "paid") /\ UNCHANGED rows
       \/ answer = "PAID" /\ Credit(p)
       \/ answer = "PAID" /\ ~payView[p].credited /\ Posted(ChargeKey(session[p].ref))
          /\ UNCHANGED <<payments, rows>>   \* IntegrityError
    /\ EndPoints(p)
    /\ UNCHANGED remote

\* PortOne's own transitions: the customer pays, fails, or the payment is
\* cancelled at PortOne.
PortOneMoves(id) ==
    /\ payments[id].status # "none"
    /\ \/ remote[id] = "READY"
          /\ \E s \in {"PAID", "MISPAID", "FAILED"} : remote' = [remote EXCEPT ![id] = s]
       \/ remote[id] = "PAID" /\ remote' = [remote EXCEPT ![id] = "CANCELLED"]
    /\ UNCHANGED <<accountVars, payments, payView>>

----------------------------------------------------------------------------
(* credit_points: the administrator adjusts a user's wallet, another's or  *)
(* his own.                                                                *)

Adjusting == {"credit", "creditown"}

BeginCredit(p) ==
    /\ \E u \in Users :
         /\ Len(ledger[u]) < MaxRows
         /\ Begin(p, "credit", u, None) \/ BeginAs(p, "creditown", u, None)
    /\ UNCHANGED pointVars

LockCredit(p) == session[p].op \in Adjusting /\ LockUser(p) /\ UNCHANGED pointVars

\* A debit stops at zero and records what it really took.  Withdrawal renames
\* the account, so the locking SELECT by nickname no longer finds it, whatever
\* the Session has loaded of it.
AdjustBalance(p) ==
    \E points \in Adjustments :
       LET old == seen[p].balance
           new == IF old + points < 0 THEN 0 ELSE old + points
       IN  /\ session[p].user \in active
           /\ WalletInsertable(p) /\ EntryFree(p)
           /\ new # old
           /\ OpenWallet(p)
           /\ Post(p, "adjust", new - old, new, <<"adjust", None>>)
           /\ UNCHANGED active

CreditPoints(p) ==
    /\ session[p].op \in Adjusting /\ session[p].at = "locked"
    /\ \/ AdjustBalance(p)
       \/ /\ \/ session[p].user \notin active
             \/ ~WalletInsertable(p)
             \/ /\ EntryFree(p)
                /\ \E points \in Adjustments : points < 0 /\ seen[p].balance = 0
          /\ UNCHANGED rows
    /\ EndPoints(p)
    /\ UNCHANGED <<payments, remote>>

BeginPoints(p) ==
    BeginCreateCharge(p) \/ BeginFailCharge(p) \/ BeginCompleteCharge(p) \/ BeginCredit(p)
LockForPoints(p) == LockPayer(p) \/ LockCredit(p)
PointsStep(p) ==
    CreateCharge(p) \/ FailCharge(p) \/ AskPortOne(p) \/ SettleCharge(p) \/ CreditPoints(p)

----------------------------------------------------------------------------
\* The shape of the payments rows and of what a session knows of one.
PointsTypeOK ==
    /\ payments \in [PaymentIds -> Payment]
    /\ remote \in [PaymentIds -> RemoteStatuses]
    /\ payView \in [Procs -> PayView]
=============================================================================
