------------------------------- MODULE Accounts -------------------------------
(***************************************************************************)
(* The rows every money handler shares (users, point_wallets,              *)
(* point_transactions), the row lock on users, and the request sessions    *)
(* that work on them.                                                      *)
(*                                                                         *)
(* A session is one HTTP request with its SQLAlchemy Session and its one   *)
(* database transaction: get_current_user and the handler share the        *)
(* Session FastAPI caches for get_db.  A handler is cut into steps where   *)
(* another request can get in between: after authentication, at every row  *)
(* lock it waits for, at its call to PortOne, and at its commit.           *)
(* Everything a handler writes becomes visible at its commit, so the       *)
(* writes of one handler are one step.                                     *)
(*                                                                         *)
(* Handlers run in threads, but the webhook's is an async def that blocks  *)
(* its worker's event loop while it waits for the database.  A handler     *)
(* that answers without committing keeps its row locks until the event     *)
(* loop gets to close its Session.                                         *)
(*                                                                         *)
(* READ_COMMITTED is Postgres', which puts a new row's key into the index  *)
(* before it checks what the row refers to; REPEATABLE_READ is InnoDB's,   *)
(* which checks first.                                                     *)
(***************************************************************************)
EXTENDS Integers, Sequences, FiniteSets

CONSTANTS
    Users,      \* primary keys of users
    Procs,      \* request slots: how many requests may be in flight
    WorkerOf,   \* the worker process, with its event loop, a slot is served by
    Refs,       \* what a request can name: orders, payments, client keys
    Isolation,  \* isolation level the database server gives a transaction
    None,       \* SQL NULL, an unheld lock, an absent row
    Served,     \* bound: the handlers that requests of an instance call
    MaxRows     \* bound: an adjustment starts only on a shorter ledger

\* "creditown" is an administrator's adjustment of the account he calls with.
Ops == {"balance", "withdraw", "create", "charge", "webhook", "fail", "credit",
        "creditown", "preauth", "complete", "pay", "cancel"}

ASSUME AccountsAssumption ==
    /\ None \notin Users \cup Procs \cup Refs
    /\ Isolation \in {"READ_COMMITTED", "REPEATABLE_READ"}
    /\ Served \subseteq Ops
    /\ MaxRows \in Nat

VARIABLES
    active,     \* users with is_active and no deleted_at
    point,      \* users.point, the legacy copy of the balance
    opened,     \* users that have a point_wallets row
    balance,    \* point_wallets.balance (0 while there is no row)
    ledger,     \* point_transactions of each wallet, in commit order
    userLock,   \* session that holds SELECT ... FOR UPDATE on the users row
    session,    \* the request each slot is serving
    seen        \* wallet row a session has read without locking it

rows == <<active, point, opened, balance, ledger>>
accountVars == <<active, point, opened, balance, ledger, userLock, session, seen>>

Stages == {"idle", "begun", "entered", "locked", "asked", "ordered", "answered"}
RowTypes == {"charge", "use", "refund", "adjust"}
Keys == {"hold", "shortfall", "refund", "cancel", "charge", "adjust"} \X (Refs \cup {None})
Row == [type: RowTypes, amount: Int, after: Int, key: Keys]
Session == [op: Ops \cup {"idle"}, at: Stages, user: Users \cup {None},
            ref: Refs \cup {None}, point: Int]
WalletRow == [opened: BOOLEAN, balance: Int]

Idle == [op |-> "idle", at |-> "idle", user |-> None, ref |-> None, point |-> 0]
Unread == [opened |-> FALSE, balance |-> 0]
Wallet(u) == [opened |-> u \in opened, balance |-> balance[u]]

AccountsInit ==
    /\ active = Users
    /\ point = [u \in Users |-> 0]
    /\ opened = {}
    /\ balance = [u \in Users |-> 0]
    /\ ledger = [u \in Users |-> <<>>]
    /\ userLock = [u \in Users |-> None]
    /\ session = [p \in Procs |-> Idle]
    /\ seen = [p \in Procs |-> Unread]

----------------------------------------------------------------------------
(* The event loop, sessions, transactions and the lock on the users row.   *)

\* The webhook's handler calls the database and PortOne from the event loop.
OnLoop(q) == session[q].op = "webhook" /\ session[q].at \in {"begun", "locked", "asked"}
LoopFree(p) == \A q \in Procs : WorkerOf[q] = WorkerOf[p] => ~OnLoop(q)

\* Handlers that read the wallet without any row lock.
Unlocked == {"balance", "create"}

\* Under REPEATABLE READ the first SELECT, the one that authenticates, fixes
\* what every later plain SELECT of the session returns.
ReadsAtBegin(op) == Isolation = "REPEATABLE_READ" \/ op \in Unlocked

\* Handlers that write users.point and find its users row loaded, and never
\* refreshed, since the session began: a locking SELECT does not refresh what
\* authentication loaded, and the webhook's own SELECT reads the snapshot.
LoadsUserAtBegin(op) ==
    \/ op \in {"creditown", "charge", "preauth", "pay", "cancel"}
    \/ op = "webhook" /\ Isolation = "REPEATABLE_READ"

\* The request is authenticated: its users row enters the identity map.
Begin(p, op, u, ref) ==
    /\ op \in Served
    /\ LoopFree(p)
    /\ session[p] = Idle
    /\ session' = [session EXCEPT ![p] =
         [op |-> op, at |-> "begun", user |-> u, ref |-> ref,
          point |-> IF LoadsUserAtBegin(op) THEN point[u] ELSE 0]]
    /\ seen' = [seen EXCEPT ![p] = IF ReadsAtBegin(op) THEN Wallet(u) ELSE Unread]
    /\ UNCHANGED <<rows, userLock>>

BeginAs(p, op, u, ref) == u \in active /\ Begin(p, op, u, ref)

At(p, op, stage) == session[p].op = op /\ session[p].at = stage

\* A slip: the transaction is left open and its row locks with it.
EndKeepingLocks(p) ==
    /\ session' = [session EXCEPT ![p] = Idle]
    /\ seen' = [seen EXCEPT ![p] = Unread]
    /\ UNCHANGED userLock

\* The Session closes: the transaction ends and its locks go.
End(p) ==
    /\ session' = [session EXCEPT ![p] = Idle]
    /\ seen' = [seen EXCEPT ![p] = Unread]
    /\ userLock' = [u \in Users |-> IF userLock[u] = p THEN None ELSE userLock[u]]

\* users.point as the Session holds it when the handler writes it.
PointHeld(p) ==
    IF LoadsUserAtBegin(session[p].op) THEN session[p].point ELSE point[session[p].user]

\* A slip: the same SELECT without FOR UPDATE.
ReadUser(p) ==
    /\ session[p].at = "begun"
    /\ session' = [session EXCEPT ![p].at = "locked", ![p].point = PointHeld(p)]
    /\ seen' = [seen EXCEPT ![p] = Wallet(session[p].user)]
    /\ UNCHANGED <<rows, userLock>>

\* SELECT ... FROM users ... FOR UPDATE, and the plain reads that follow it.
LockUser(p) ==
    LET u == session[p].user IN
    /\ session[p].at = "begun"
    /\ userLock[u] = None
    /\ userLock' = [userLock EXCEPT ![u] = p]
    /\ session' = [session EXCEPT ![p].at = "locked", ![p].point = PointHeld(p)]
    /\ seen' = IF Isolation = "READ_COMMITTED"
                 THEN [seen EXCEPT ![p] = Wallet(u)] ELSE seen
    /\ UNCHANGED rows

MoveTo(p, stage) ==
    /\ session' = [session EXCEPT ![p].at = stage]
    /\ UNCHANGED <<rows, userLock, seen>>

----------------------------------------------------------------------------
(* Writing the wallet and the ledger.                                      *)

\* Rows that carry a fresh uuid4 never collide.
Posted(key) == \E u \in Users : \E i \in 1..Len(ledger[u]) : ledger[u][i].key = key

\* One ledger row, the new balance, and users.point.  The ORM leaves a column
\* out of its UPDATE when the new value is the one the Session loaded.
Post(p, type, amount, new, key) ==
    LET u == session[p].user IN
    /\ balance' = [balance EXCEPT ![u] = new]
    /\ ledger' = [ledger EXCEPT ![u] =
         Append(@, [type |-> type, amount |-> amount, after |-> new, key |-> key])]
    /\ point' = [point EXCEPT ![u] = IF new = session[p].point THEN @ ELSE new]

\* INSERT of the wallet when the Session has read none: a row another session
\* has inserted meanwhile is a primary-key violation.
WalletInsertable(p) == seen[p].opened <=> session[p].user \in opened
OpenWallet(p) == opened' = opened \cup {session[p].user}

\* No other session has put the key of this wallet into the index and not
\* committed yet: an INSERT of the same key waits for such a session.
EntryFree(p) ==
    \A q \in Procs \ {p} :
       session[q].at = "entered" => session[q].user # session[p].user

\* The INSERT of a handler that holds no lock, on Postgres: the key is in, and
\* the check of the foreign key waits for the users row.
EnterWallet(p) ==
    /\ Isolation = "READ_COMMITTED"
    /\ session[p].op \in Unlocked /\ session[p].at = "begun" /\ ~seen[p].opened
    /\ session[p].user \notin opened
    /\ EntryFree(p)
    /\ MoveTo(p, "entered")

\* Such a handler has its wallet: it read one, or its INSERT is through.
WalletReady(p) ==
    \/ session[p].at = "begun" /\ seen[p].opened
    \/ /\ session[p].at = (IF Isolation = "READ_COMMITTED" THEN "entered" ELSE "begun")
       /\ ~seen[p].opened /\ session[p].user \notin opened
       /\ userLock[session[p].user] = None

\* Its INSERT finds the key there: a primary-key violation.
WalletTaken(p) ==
    /\ session[p].at = "begun" /\ ~seen[p].opened /\ session[p].user \in opened
    /\ Isolation = "READ_COMMITTED" \/ userLock[session[p].user] = None

----------------------------------------------------------------------------
(* Handlers of the account itself.                                         *)

BeginBalance(p) == \E u \in Users : BeginAs(p, "balance", u, None)

\* GET /points/balance, and step 1 of charging, open the wallet on first use.
GetBalance(p) ==
    /\ session[p].op = "balance"
    /\ \/ WalletReady(p) /\ OpenWallet(p)
       \/ WalletTaken(p) /\ UNCHANGED opened
    /\ End(p)
    /\ UNCHANGED <<active, point, balance, ledger>>

BeginWithdraw(p) == \E u \in Users : BeginAs(p, "withdraw", u, None)

\* DELETE /me: the soft delete takes no FOR UPDATE, its UPDATE waits for one.
WithdrawUser(p) ==
    /\ At(p, "withdraw", "begun")
    /\ userLock[session[p].user] = None
    /\ active' = active \ {session[p].user}
    /\ End(p)
    /\ UNCHANGED <<point, opened, balance, ledger>>

\* An exception, a lock wait that times out, a dropped connection, a killed
\* worker, db.close(): the transaction leaves nothing behind.
Rollback(p) ==
    /\ session[p].at # "idle"
    /\ End(p)
    /\ UNCHANGED rows

AccountStep(p) == GetBalance(p) \/ WithdrawUser(p)
BeginAccount(p) == BeginBalance(p) \/ BeginWithdraw(p)

----------------------------------------------------------------------------
\* The shape of the shared rows and of the sessions.
AccountsTypeOK ==
    /\ active \subseteq Users
    /\ point \in [Users -> Int]
    /\ opened \subseteq Users
    /\ balance \in [Users -> Int]
    /\ ledger \in [Users -> Seq(Row)]
    /\ userLock \in [Users -> Procs \cup {None}]
    /\ session \in [Procs -> Session]
    /\ seen \in [Procs -> WalletRow]

Signed(row) == IF row.type = "use" THEN -row.amount ELSE row.amount

\* Every row's balance_after is the previous row's plus its signed amount,
\* and the wallet's balance is the last row's balance_after.
LedgerChain ==
    \A u \in Users :
       /\ balance[u] = IF ledger[u] = <<>> THEN 0 ELSE ledger[u][Len(ledger[u])].after
       /\ \A i \in 1..Len(ledger[u]) :
            ledger[u][i].after =
              Signed(ledger[u][i]) + (IF i = 1 THEN 0 ELSE ledger[u][i-1].after)

\* No interleaving of debits drives a wallet below zero.
NoOverdraft == \A u \in Users : balance[u] >= 0

\* users.point is a synchronised copy of the balance.
PointCacheInSync == \A u \in Users : point[u] = balance[u]
=============================================================================
