# Verification of the EV-Daegu ETA API

The repository is a FastAPI service (Python, SQLAlchemy, MariaDB or Supabase
Postgres) for people who charge electric cars in Daegu: station search, member
accounts, cars, favourites, a point wallet charged through PortOne, and usage
orders that spend those points. These modules model everything in it that
changes state: the money core, where requests of one user meet on the same rows;
members with their favourites and cars; the collector of charger statuses and the
tariffs that orders are priced by. They state and check what has to hold of it.
Paths below are relative to `src/`.

## 1. Inventory

| component | code | state it keeps | operations | hard behaviour |
|---|---|---|---|---|
| points | `app/domains/points` | `point_wallets`, `point_transactions`, `payments`, `users.point` | open a wallet, create / complete / fail a charge, PortOne's webhook, the administrator's adjustment | client and webhook complete one payment at the same time and repeatedly; the failure report races both; PortOne is called while a row is locked |
| usage orders | `app/domains/usage_orders` | `usage_orders`, the same wallet and ledger | request, pre-authorize (hold), complete (price), pay (settle), cancel | repeated and concurrent steps on one order; two lock orders; a fee above or below the hold; client idempotency keys |
| accounts and auth | `app/domains/auth` | `users`, the tokens it has issued | sign-up, login, OAuth, profile, withdrawal, authentication of every request | withdrawal while other requests of the user wait; what authentication loads stays in the Session; two first logins of one social identity; tokens outlive their account |
| database sessions | `app/core/database.py`, `auth/deps.py` | a Session and a transaction per request, row locks, the connection pool | begin, lock, commit, roll back, close | isolation level of the server, identity map, who closes a Session and when |
| PortOne client | `points/portone_client.py` | none (PortOne's own payment) | get a payment, verify a webhook | answers change over time; webhooks are delivered again |
| member tariffs | `usage_orders/tariff.py`, `usage_orders/service.py` | `ev_operator_tariffs` | choose a rate by output, fee and energy arithmetic | band ends, missing rates, two roundings; the charger changes hands between hold and pricing |
| cars | `app/domains/cars` | `cars` | create, update, set primary, soft delete | one primary car per user, kept without a constraint; rows written back from an earlier load |
| favourites | `app/domains/favorites` | `user_favorite_chargers` | toggle, add, remove, memo | at most ten per user, counted after a lock, on MariaDB from a snapshot; the memo is written without the lock |
| charger status sync | `stations/sync.py`, `app/main.py` | call counter in memory, `ev_charger_status` | start and stop, scheduled collection, upsert | overlapping jobs, late and failed answers, restart, the daily quota |
| stations | `stations/service.py` | reads only | search, detail | none: reads |
| places, routes, recommendations | `app/domains/{places,routes,recommendations}` | none | proxies of external APIs | none: stateless |
| application, configuration, scripts | `app/main.py`, `core/config.py`, `scripts/` | none | wiring, settings, one-off tools | none |

Components meet in the database. Points, usage orders and accounts share the
`users` row (its `FOR UPDATE` lock is what serialises the money of one user),
the wallet and the ledger; usage orders read the primary car, the charger status
and the tariff. There are no events or queues inside the process: what
interleaves are requests in threads, the webhook on the event loop, and PortOne.

What makes each component correct:

- points: a payment is credited at most once and only if PortOne has it paid in
  full; the ledger explains the balance; `users.point` follows it; a failure
  report never undoes a completed payment; an adjustment never takes a wallet
  below zero;
- usage orders: an order takes its hold once and is then settled once at its fee
  or released once; its price is fixed before it is paid; one client key never
  holds twice;
- sessions: requests deadlock only where the database can break it up, and every
  accepted request ends;
- accounts: a token works for the account it was issued to and no other; a
  withdrawn account does not come back; a social identity has one account;
- favourites: at most ten per member; a memo stays with the registration it was
  written for;
- cars: at most one primary car; no late write undoes a deletion or a choice;
- status sync: the daily quota; the commit of an answer leaves the table right
  about everything that the answer's window holds;
- tariffs: the rate is one the operator asks for a charger of that output; by
  amount, a member gets exactly what the hold pays for; the operator of an order
  does not change with the charger's.

## 2. Modules

| module | models | state |
|---|---|---|
| `Accounts` | Sessions, isolation, identity map, the `users` row lock, the event loop; wallet and ledger; `GET /points/balance`, `DELETE /me` | `active` = `is_active` without `deleted_at`; `point` = `users.point`; `opened`, `balance` = `point_wallets`; `ledger` = `point_transactions` per wallet; `userLock`; `session` = what each request slot serves and how far it is; `seen` = the wallet row it read without locking it |
| `Points` | `create_charge`, `complete_charge`, `fail_charge`, the webhook, `credit_points`, PortOne | `payments`; `remote` = the payment at PortOne; `payView` = what a session knows of its payment |
| `UsageOrders` | `pre_authorize`, `complete_order`, `pay_order`, `cancel_order` | `orders` = `usage_orders`; `orderLock`; `found` = the order a session found for its client key |
| `ChargingService` | the composition of the three, its properties, and the refinement mapping | all of it |
| `PointAccounts` | the abstract promise: points move only with a journal entry that says why, never below zero; a payment credits once; an order holds once and is settled or released once | `points`, `journal`, `holds` |
| `ChargingServiceMC` | bounds and symmetry for TLC | |
| `Identities` | `signup`, `login`, social login, `update_profile`, `withdraw_user`, tokens, the two databases | `backend`; `users`; `tokens` = JWTs issued; `userLock`; `request` = what each slot serves and how far it is; `userView` = the row a session keeps |
| `Favorites` | `toggle_favorite`, `add_favorite`, `remove_favorite`, `update_favorite_memo` | `favorites`; `favView` = the rows a session's plain reads return |
| `Cars` | `create_car`, `update_car`, `set_primary_car`, `soft_delete_car` | `cars`; `carLock`, `gapLock` = InnoDB's and Postgres' locks; `carView` |
| `Members` | the composition of the three, and requests that fail | all of it |
| `StatusSync` | the scheduler, its two jobs, the call counter, the public API, the upsert | `clock`, `today`, `actual`, `changedAt` = the world outside; `running`, `nextFire`, `due`, `job`; `counter`; `stored` = `ev_charger_status` |
| `Tariff` | `pick_member_rate_won`, `_amount_mode_kwh_and_fee` and the fee of `complete_order` as operators | none |
| `Chargers` | the composition: orders are held on chargers the collector shows waiting and priced by `Tariff` | `operator` = `ev_charger_info.busi_id`; `orders` as far as they are priced |
| `MembersMC`, `ChargersMC` | bounds and symmetry for TLC | |
| `ChargingServiceProofs`, `LedgerProofs`, `SolvencyProofs`, `SettlementProofs`, `PromiseProofs` | proofs about `ChargingService` | |
| `MembersProofs` | proofs about `Members` | |
| `ChargersProofs`, `CollectorProofs` | proofs about `Chargers`, with `Tariff` and `StatusSync` | |

There are two models of a Session. `Accounts` follows one wallet closely: identity
map, teardown by the event loop, answered requests that keep their locks.
`Identities` follows many accounts at once over both databases and ends a request
with its commit, since its handlers all commit or roll back before they return.

### How a handler becomes actions

One slot of `Procs` serves one request at a time. A handler is cut where
another request can get in between:

- `Begin...`: `get_current_user` has authenticated the request. The Session and
  its transaction are the handler's too, since FastAPI caches `get_db`. At
  REPEATABLE READ this SELECT fixes the snapshot.
- `Lock...`: a `SELECT ... FOR UPDATE` is granted, with the plain reads after it.
- `AskPortOne`: the HTTP call in `complete_charge`.
- the last step, up to its commit or its refusal: its writes become visible
  together, so they are one action.
- `EnterWallet`: on Postgres the INSERT of a first wallet has its key in the index
  and waits for the `users` row its foreign key refers to.
- `Replay` and the first case of `AskPortOne`: the handler answers a repeated
  call and returns without commit or rollback; the session is `answered`, keeps
  its row locks, and `Close` is `get_db`'s `finally` run later by the event loop.
- `Fail`: an exception, a lock wait that times out, a lost connection or a
  killed worker: the transaction leaves nothing.
- `Victim`: the database rolls back one of two transactions that wait for each
  other.

The collector is a coroutine: `Ask`, `Answer`, `CommitRows` are cut at its awaits
(the HTTP call, and the thread that writes the rows). `_can_call_outbound` and
`_record_outbound_call` have no await between them and are one step.

Definitions under a comment that begins "A slip" are not used by the
specification. They are variants of the definition below them, as a
plausible mistake would have it, against which the properties are tried.

### What the models assume of the database and the framework

- `Isolation` is `READ_COMMITTED` (Postgres' default) or `REPEATABLE_READ`
  (InnoDB's default). The engine in `core/database.py` sets none. Under the
  latter, plain SELECTs, `db.refresh` included, return the snapshot; a
  `FOR UPDATE` SELECT reads the committed row, as in InnoDB.
- An object already in the identity map is not refreshed by a later SELECT,
  locking or not. A column assigned the value the Session holds for it is left
  out of the UPDATE. This is how `point` can fall behind.
- `_lock_wallet` reads the committed wallet: the object loaded by
  `_ensure_wallet` is not referenced any more and leaves the (weak) identity map
  before the `FOR UPDATE` SELECT. It is always taken under the users lock,
  so it is no lock of its own in the model.
- `Isolation` also stands for the database it is the default of. INSERTs that
  refer to `users` (foreign keys declared in the models) and the UPDATE of a
  withdrawal wait for a lock on that row. Postgres first enters the key of the
  new row, so that an INSERT of the same key waits for that session, and then
  checks the foreign key; InnoDB is taken to wait with nothing entered.
- Row keys: a fresh `uuid4` never collides; the UNIQUE and foreign keys the models
  declare are enforced, and CHECK constraints are not, as the models declare
  none. Nothing in the repository creates the tables from the models.
  `scripts/migrate_local_to_supabase.py` does build Postgres tables, with primary
  keys and nothing else (`:146`): a database left as that script makes it has no
  UNIQUE ledger key, idempotency key, user id or nickname, and nothing here speaks
  of it until they are added.
- The webhook handler is an `async def` and blocks its worker's event loop
  (`OnLoop`); every other handler runs in a thread. An event loop that is blocked
  takes no request (`Begin`) and closes no Session (`Close`). Handlers already
  in a thread go on.
- The administrator adjusts another user's account (`credit`) or his own
  (`creditown`), whose row authentication has loaded already. The `is_active` test
  then looks at old values, but a withdrawal renames the account
  (`auth/service.py:307`), and the locking SELECT, which looks for the nickname,
  does not find the row when it sees it again. So `AdjustBalance` asks for an
  active account in both cases. Names are not in `Accounts`: left out is the case
  that a late profile update has named the withdrawn account once more (section 3)
  and its owner, authenticated before the withdrawal, adjusts it by that name.
- `Members` runs the same handlers on either `backend`, as `DB_BACKEND` chooses:
  "local" is MariaDB at REPEATABLE READ, where plain SELECTs return the snapshot
  that authentication fixed and locking statements take InnoDB's index and gap
  locks (two sessions can share a gap that holds no row); "supabase" is Postgres
  at READ COMMITTED, where a locking statement picks its rows when it starts,
  waits, and looks at them again. All locks of one statement are taken in one
  step; a deadlock between two statements is a request that fails
  (`FailRequest`).
- `NextKey` stands for `AUTO_INCREMENT`: which of the unused keys comes next
  makes no difference, as no order between keys is used.
- Clients do not type names of the shapes the service makes up
  (`deleted_7`, `탈퇴_7`, a random nickname); they may type the user id that a
  social account would get. Addresses are left out of the profile, and what a car
  consists of beside its flags is one value (`Plates`).
- In `StatusSync` the chargers and the public API are outside (`Change`,
  `Answer`): the API reports each charger that changed within the last `Period`,
  and one page holds the answer. `outbound` and `lives` record what `QuotaPerLife`
  is about and are not in the code. `stop_scheduler` does not wait for its jobs: a
  thread that writes an answer then may still commit it, or not (`Stop`), and the
  process ends when its threads have.
- In `Chargers` the import of the charger list is outside (`ChangeOperator`), and
  where no collector runs the statuses come from the host that has one
  (`StatusFromElsewhere`).
- Decimals are integers: outputs in 1/10 kW, rates in 1/100 won, energy in
  1/100 kWh. `Decimal` arithmetic of this size is exact up to the roundings that
  `Tariff` models.
- Requests name payments and orders that exist and, except for the webhook and
  the administrator, belong to the caller; the other ones are refused before
  anything is written.

## 3. Runs

`Members`, `TwoPrimaries` and `SocialTwice` are runs of `MembersMC`, `Chargers` and
`AmountLargest` of `ChargersMC`, the other ones of `ChargingServiceMC`, where unless said otherwise
there is one user, two request slots, one payment, one order, one client key.

| run | question | result |
|---|---|---|
| `Service` | READ COMMITTED, a worker per request, all handlers | holds: `TypeOK`, `LedgerChain`, `NoOverdraft`, `OrdersSettledOnce`, `ChargedOnce`, `DeadlockOnlyAtFirstWallet`, `PricesAreFinal`, and the refinement `KeepsPromise` |
| `RepeatableRead` | REPEATABLE READ, two orders competing for the wallet and for one client key | holds: `NoOverdraft`, `OrdersSettledOnce`, `ChargedOnce`, `OneOrderPerKey`; no state without a next one |
| `Liveness` | one worker, no webhook, fairness | holds: `RequestsAnswered` |
| `Members` | both databases, two requests at once over accounts, favourites or cars | holds: `MembersTypeOK`, `OwnAccountOnly`, `FavoritesWithinLimit`, `OnePrimaryOnMariaDB`, `WithdrawnIsFinal`, `MemoFollowsRegistration`, `CarDecisionsStand` |
| `Chargers` | two jobs that overlap, fail and are restarted; orders held and priced while chargers change status and hands | holds: `ChargersTypeOK`, `QuotaPerLife`, `AnswersSettle`, `AmountBuysExactly`, `RateCoversOutput`, `OperatorKept` |
| `PointCache` | is `users.point` the balance? | no |
| `FailOverPaid` | is `failed` written over `pending` only? | no |
| `StaleBalance` | `LedgerChain` at REPEATABLE READ | no |
| `AmountLargest` | by amount, is the energy the largest whose rounded fee the hold pays for? | no |
| `TwoPrimaries` | has a member at most one primary car on Postgres? | no |
| `SocialTwice` | has a social identity one account on Postgres? | no |
| `WebhookStall` | is every accepted webhook worked off, on one event loop? | no |

### Bounds

Every property relates the rows of one wallet, so one user is where everything
competes; two users share no row. Two slots give every pair of handlers in every
interleaving; the slots are used again and again, so histories are not limited to
two requests. A deadlock of three sessions or more is left to the theorem. Points are
counted in half holds: `MinHold = MaxHold = 2`.
In `Service` a payment grants 2, an adjustment adds 1 or takes more than any
balance (the clamp at zero), and the fees 1 and 3 lie below and above the hold,
with the shortfall both affordable and not; the runs that look for a violation
also have the fee 2. In `RepeatableRead` a payment of 3 and an adjustment of 1
pay for one hold or two, depending on the fees, so orders compete. `MaxRows` bounds
adjustments, which are the only operation that could repeat for ever: one starts
only while the ledger is shorter. The payments, orders and keys bound the rest.
`Served` names the handlers an instance's requests call. Request slots and orders
are symmetric, except in the runs with fairness. Where the only user may
withdraw, the instance can stop, and these configurations say so.

`Members`: two accounts, so that a withdrawn user id is registered again and one
account's rows can be mistaken for another's; two slots; three favourite keys for
two stations and a limit of one, so that a removed favourite is registered again
and two requests compete for the last place; two cars and two plates. `Traffic`
lets the clients of one behaviour call the operations of one topic (accounts;
favourites or cars, with social login and withdrawal): the topics share no
row but that of `users`, whose changes each topic includes. Slots,
stations and plates are symmetric.

`Chargers`: two chargers, of which both, one or none changes within a window; one
tick between runs of the interval job and a window of two; three ticks,
two starts and one midnight, with a quota of two that both jobs can use up. One
valid status and one the service does not know. Outputs on a band's upper end and
unknown; operators with gaps in their bands, with a default only, and without a
row; holds up to 200,000 won (TLC's integers are 32 bits wide) and energies at
and beyond `MIN_KWH` and `MAX_KWH`. `Concerns` lets one behaviour be about
collecting or about orders: they share only `stored`, which orders find in any
state through `StatusFromElsewhere`.

### Fairness

`FairSpec` asks strong fairness of `Lock(p)`, `Proceed(p)` and `Close(p)`, for
each slot. A thread that runs is scheduled; the database grants a row lock to
waiting sessions in turn, so a waiter whose lock is free again and again is not
passed over for ever; an event loop takes its callbacks in order. This has to be
strong fairness, as a lock may be taken and released by others in between. No
fairness is assumed of arrivals, of failures (a database need not time out a lock
wait: Postgres' `lock_timeout` is 0), or of PortOne. `Victim` gets weak fairness:
both databases look for deadlocks by default (Postgres after `deadlock_timeout`).
Without it `RequestsAnswered` fails, on the deadlock that
`DeadlockOnlyAtFirstWallet` is about. `Members` and `Chargers` state
safety only.

### The deadlock that is left

On Postgres two requests can wait for each other over a first wallet. One is
`GET /points/balance` or `create_charge` of a user without a wallet: its INSERT
(`points/service.py:60`) has entered the key and waits for the `users` row. The other
has that row `FOR UPDATE`, has found no wallet either, and inserts it:
`credit_points` (`:111`) or `pre_authorize` (through `_ensure_wallet`). The database
rolls one of them back, which the client sees as a failure, and nothing is
booked twice or lost. No comment or document of the repository says that this
cannot happen, so it is a property with its exception, not a violated one:
every group of sessions that wait only for each other contains such a pair.
`Service` checks it with every handler at once; the theorems below add that with
InnoDB's order of an INSERT there is no deadlock at all.

### What the violated properties show

1. **`PointCacheInSync`.** `points/service.py:372` calls `users.point` a
   synchronised cache. A request loads the user with `point = 0`; others move the
   balance and `point`; the first then brings the balance back to 0 and assigns
   `user.point = 0`, which the ORM takes for no change. The column keeps
   the value of the others.
2. **`FailsOnlyPending`.** `fail_charge` (`points/service.py:402`: "pending →
   failed") reads without a lock; a `complete_charge` that commits in between ends
   as credited and `failed`. `ChargedOnce` holds all the same: repeated completes
   find the ledger row and set the payment to `paid` again.
3. **`LedgerChain` at REPEATABLE READ.** "잠금 후 재조회" (`points/service.py:282`)
   does not read the committed wallet there, so a hold and a credit can both start
   from the same balance and one of them is lost. `point_wallets.version`,
   documented as the optimistic lock (`docs/teamdeveloper.md:1795`), is
   incremented and never compared. Orders are not affected:
   they take the wallet itself `FOR UPDATE`.
4. **`AmountIsLargest`.** The docstring of `_amount_mode_kwh_and_fee`
   (`usage_orders/service.py:160`) says "floor(kWh×rate) ≤ hold 인 최대 kWh": the
   largest energy whose fee, rounded down to a won, is at most the hold. The code
   rounds the energy down first (`:166`) and then only lowers it. With a hold of
   1000 and a rate of 300.5 it gives 3.32 kWh for 997 won, although the fee of
   3.33 kWh, rounded down, is 1000. What the code does compute is
   `AmountBuysExactly`: the largest energy worth at most the hold before the fee
   is rounded.
5. **`OnePrimary`.** `create_car` (`cars/service.py:112`) clears the flag of
   the rows its UPDATE finds. On Postgres nothing keeps a second registration from
   inserting its own row at the same time, so both commit a primary car;
   `cars/service.py:238` says "사용자당 대표 차량은 최대 1대". On MariaDB the
   UPDATE locks the gap and one of the two is the victim of a deadlock:
   `OnePrimaryOnMariaDB`.
6. **`OneAccountPerSocial`.** Two first logins of one identity both find no
   account (`auth/service.py:542`). If the first commits before the second looks
   for the holder of the identity's own user id (`:557`), the second finds it
   taken, by the same person, and takes a random one; `auth/models.py:45` says that
   provider and provider id identify a social account.
7. **`WebhooksHandled`.** A repeated `complete`, `pay` or `cancel` has
   returned and holds the users lock; the webhook takes the event loop and waits
   for that lock; only the event loop could close the first Session. With one
   worker, as the `README.md` starts the service, nothing is served until the
   database gives up the wait.

### What the properties leave open

Met while modelling, and not in a run:

- The limit of favourites is stated for Postgres. On MariaDB the count after the
  lock (`favorites/service.py:125`) comes from the snapshot of authentication, so
  two registrations can both take the last place.
- `WithdrawnIsFinal` lets the nickname change: a profile update that loaded the
  account before its withdrawal writes the nickname afterwards, and the name stays
  taken by a withdrawn account, though `auth/service.py:297` frees it.
- A hold above about 120,000 won at 300 won per kWh buys more than `MAX_KWH`;
  `_amount_mode_kwh_and_fee` (`usage_orders/service.py:166`) has no test for it, so
  the order cannot be completed by amount. `Price` refuses it, as the CHECK on
  the column does.
- The `is_active` test of `pre_authorize` under the lock
  (`usage_orders/service.py:434`) looks at the object authentication loaded, and
  `pay_order` and `cancel_order` do the same: a request that waits for the row while
  its user withdraws still holds, settles or releases points of a withdrawn
  account. `UsageOrders` follows the code; the ledger properties hold for withdrawn
  accounts too.
- Nothing compares the times of two answers of the public API. The start-up job
  and the interval job overlap, and the older answer can be written after the
  newer one (`stations/sync.py:309`): a charger that both report is then left with
  its older status. `AnswersSettle` says what a commit makes right, which is up to
  the tick of its own answer and no further.
- By default the interval and the period of the collector are both 5 minutes
  (`core/config.py:94-95`): changes in an answer that is lost, to a restart, a
  timeout or a failed upsert, or that comes later than the run before it, are
  reported by no other answer, and the table is wrong about these chargers until
  they change again. `AnswersSettle` is about answers that are committed.
- A debit by an administrator is stored with a negative amount
  (`points/service.py:142`), where `docs/teamdeveloper.md:1806` asks for a positive
  one and a type that tells the sign. `Signed` in `Accounts` reads the rows as
  the code writes them.

## 4. Proofs

Every safety property that a passing run checks, invariants and action properties
alike, is also a theorem, and so is the refinement of `PointAccounts`. The
theorems hold for every value of the constants that satisfies the assumptions of
the modules: the sets of users, requests, orders, rows, names and chargers may be
of any size, and the bounds of the runs are constants of any value.

What the assumptions ask: `None` is not one of the values it stands beside, keys
and bounds are of the right kind, tariff bands ascend, `MaxFavorites` is at least
one. `IdentitiesAssumption` also says that `None` is none of the names the service
makes up (`MadeUp`), as SQL NULL is not a string. Four theorems assume more, each
a configuration of the service in which its property does hold:

- `OnlyFirstWalletDeadlocks` and `DeadlockFreeOnInnoDB` assume `NoSharedLoop` (no
  webhook, or a worker per request): `WebhookStall` is the deadlock otherwise. The
  second also assumes REPEATABLE READ, which stands for InnoDB's order of an INSERT.
- `LedgerCorrect` and `PromiseKept` assume READ COMMITTED: `StaleBalance` shows
  the chain broken at REPEATABLE READ, where the balance that is written need not
  be the committed one plus the amount.

`FavoritesWithinLimit` and `OnePrimaryOnMariaDB` name their database themselves;
`TwoPrimaries` shows cars on the other one.

### Points and orders

| theorem | says | argument |
|---|---|---|
| `TypeCorrect`, `TypesHold` | `Spec => []TypeInv`, `Spec => []TypeOK` | `TypeInv` adds to `TypeOK` that a running session names rows of the right table (`SessionsNamed`) and that rows have owners (`RowsOwned`): without them the function updates of the handlers are not typed |
| `OnlyFirstWalletDeadlocks` | `Spec => []DeadlockOnlyAtFirstWallet`, assuming `NoSharedLoop` | `LockInv`: who holds a users lock is past waiting for it, who holds an order lock waits for no row. who has entered the key of a wallet holds no row. `EntryInv`: only one session at a time has entered a wallet's key, and only while the wallet is not there. So waits lead from `begun` and `entered` to `locked` and on to orders (`WaitsAreOrdered`), but for the one from `locked` back to `entered`: a group that waits only for itself uses that one, and its ends are the pair |
| `DeadlockFreeOnInnoDB` | `Spec => []NoDeadlock`, assuming `NoSharedLoop` and REPEATABLE READ | by the same lemma: there no session is ever `entered` |
| `LedgerCorrect` | `Spec => []LedgerChain`, assuming READ COMMITTED | `Current`: a session past its `LockUser` owns its user's lock and its `seen.balance` is the committed balance. Every change of the ledger is then a `Posts`, which extends the chain (`PostChains`) |
| `NeverOverdrawn` | `Spec => []NoOverdraft`, at either isolation level | `Solvent`: what a session has read, however stale, was not negative; an order is settled by its owner's session, so the shortfall was compared with the wallet it is taken from |
| `SettledOnce`, `CreditedOnce` | `Spec => []OrdersSettledOnce`, `Spec => []ChargedOnce`, at either isolation level | `BookedForAReason`, below |
| `KeyHoldsOnce` | `Spec => []OneOrderPerKey` | the hold is inserted under UNIQUE(idempotency_key), and no handler rewrites the key of an order that exists (`OrdersWritten`, `OrderRewritten`). The look-up before it (`found`) is not used: it may come from a stale snapshot |
| `PricesFinal` | `Spec => PricesAreFinal` | `OrdersWritten`: only `complete`, `pay` and `cancel` rewrite an order; `OrderRewritten`: each of them a draft, and only `complete`, on an unpriced one, writes what it costs |
| `PromiseKept` | `Spec => KeepsPromise`, assuming READ COMMITTED | below |

`LedgerChain` alone is not inductive, since nothing in it ties what a session has
read to the balance it will write over; `DeadlockOnlyAtFirstWallet` is not either,
since it does not say at which stage a lock is held.

`BookedForAReason` is what makes `OrdersSettledOnce` and `ChargedOnce` inductive.
The properties count rows in one wallet's ledger. They do not say that a key is
missing from the other wallets, that a payment not marked paid may already be
credited, or that what a session remembers of its payment was ever true, and all
three are what a handler relies on when it decides to write. The invariant has
four parts: a key occurs in one place of one ledger (`OnceKeys`, but for the
adjustments' fresh ids); each order has exactly the rows its status calls for,
and no others (`OrderBooked`); a credit is there only once PortOne had the payment
paid, and there whenever the row says paid (`PaymentBooked`); and what a session
has read of its payment, however long ago, was true and cannot be undone
(`ViewsHold`). The last part is why no isolation level is needed: a session acts
only on facts that stay true, and the UNIQUE key of the ledger refuses the rest.
TLC checked the invariant at both isolation levels before it was proved. There is
one lemma per handler (`CreditBooked`, `HoldBooked`, `RefundBooked`,
`PaymentOfOrderBooked`, ...), over the lemmas on what one more row does to the
keys (`BooksRows` to `KeysDiffer`).

`PromiseKept` maps `balance` to `points`, each ledger row to the journal entry of
its key and signed amount, and each order to its hold. `PromiseInv` joins the
invariants above. One lemma per movement shows that the handler's step is that
action of the promise: `CreditKeeps`, `AdjustKeeps`, `HoldKeeps`, `ReleaseKeeps`,
`SettleKeeps`; every other step leaves all three alone (`QuietKeeps`). `Current`
is where the amount comes from: the promise moves the committed points by what is
journalled, the code writes the balance it has read plus that amount.
`OnceKeys` and `PaymentBooked` give the promise's guard that a payment has not
been journalled before.

### Members

| theorem | says | argument |
|---|---|---|
| `MembersTyped`, `OwnAccount` | `MembersSpec => []MembersTypeOK`, `MembersSpec => []OwnAccountOnly` | `RequestsFit`: a request in progress has an item of its handler's kind, the account of its token, and reaches the stage `matched` only on Postgres |
| `WithdrawnStays` | `MembersSpec => WithdrawnIsFinal` | `WithdrawnRow`: a withdrawn row has exactly what withdrawing wrote, so that a second, late withdrawal changes nothing but the nickname; `RowWritten`: the four things a step can do to a row of `users` |
| `MemosFollow` | `MembersSpec => MemoFollowsRegistration` | the request that ends in the step writes by primary key, on a row it has loaded |
| `DecisionsStand` | `MembersSpec => CarDecisionsStand` | no handler writes `deleted` back, or the flag TRUE outside a locked choice or registration. That it is one of the car's own member takes `ViewsOwned`: what a session has picked is a row there still is, of its owner, since rows keep their owner (`OwnersStay`) |
| `WithinLimit` | `MembersSpec => []FavoritesWithinLimit` | `CountsCurrent`: on Postgres a session past `LockUser` owns the users lock and has counted exactly the favourites that are committed. `FavoritesWritten`: favourites of a member change only through a session that owns this lock, so the count is still so at the INSERT. The limit alone does not say what a session has counted |
| `PrimaryOnMariaDB` | `MembersSpec => []OnePrimaryOnMariaDB` | `PicksCurrent`: on MariaDB a session past its locking statement holds the gap of its member, the lock of every car in it, and has picked what is still there; `ViewsEmpty`: a registration that locks nothing has picked nothing. `CarsWritten`: a handler changes cars of its own member only, so (`NextPicks`) nobody changes those of a member whose gap and rows somebody else holds |

`SlotSteps` is the lemma the last two rest on: seen from one slot, a step of anybody else
takes no lock away and leaves request and views alone.

### Chargers

| theorem | says | argument |
|---|---|---|
| `PricesAlwaysRight` | `ChargersSpec => []PricesRight` | `PricesRight` is `OrdersTyped` and the next two properties: what an order is charged is computed from its hold, charger and operator, which have to be typed first |
| `EnergyExact` | `ChargersSpec => []AmountBuysExactly` | `AffordableIsExact`: the integer division gives the largest energy worth at most the hold, and its fee fits, so (`AmountModeIsAffordable`) the loop that lowers the energy never takes a second turn |
| `RatesCover` | `ChargersSpec => []RateCoversOutput` | `FirstBandReaches`: from the first band that is not below the output upwards are exactly the bands that reach it, as bands ascend; `PickedRateCovers`: the first rated one is chosen, or the default. The least element comes from the library's theorem on well-founded relations |
| `OperatorStays` | `ChargersSpec => OperatorKept` | from `OrdersTyped`: pricing writes `order.busi_id or info.busi_id`, and holding and leaving start and end the order |
| `QuotaKept` | `ChargersSpec => []QuotaPerLife` | `Counted`: the processes before the running one have used at most a limit each, and the running one what its counter shows for today. The quota alone does not say what the running one may still use |
| `ChargersTyped` | `ChargersSpec => []ChargersTypeOK` | `SyncTyped` adds the shape of the jobs: what an answer holds are valid statuses of listed chargers |
| `AnswersSettled` | `ChargersSpec => AnswersSettle` | `AnswersFit`: an answer that has not been written yet has every charger that changed in its window and not since, with its status of now; a charger it leaves out changed before the window or after the answer. The property alone says nothing of answers in flight. `CommitSettles`: the only step that changes the table and a job is the commit of that job's own answer |

### Model-checked only

`RequestsAnswered`: liveness under fairness and `ENABLED` are beyond the prover.
The properties of the runs that expect a violation are false.

## 5. Not modelled

- In `UsageOrders` a completed order gets any fee of `Fees`, and `pre_authorize`
  may refuse for the primary car or the charger at any time: the arithmetic is in
  `Tariff` and `Chargers`, where in turn points are left out.
- Cancelling a payment at PortOne after the credit: `remote` moves to
  `CANCELLED`, and no code takes the points back, so there is nothing to model.
- OAuth: the redirects, the signed state, the calls to the providers. A social
  login begins with the profile the provider has confirmed.
- Passwords, and the expiry of tokens: a token is valid for ever.
- Answers of the public API longer than one page, its error codes and formats
  (`Abandon` covers them all).
- The connection pool; a request that finds none fails (`Fail`).
- Read-only handlers (`list_charges`, `list_orders`, `get_order`, station search),
  signature checks, response texts, timestamps, memos.
- Stations (`stations/service.py`), places, routes, recommendations, configuration and scripts: reads,
  stateless proxies and tools, with no state transitions of their own.

## 6. Plan

In order of importance:

1. `Accounts`, `Points`, `UsageOrders`, `ChargingService`, `PointAccounts`, their
   runs, type correctness, freedom from deadlock, the ledger chain and solvency.
   *Done.*
2. `Members`: accounts, favourites and cars over both databases. *Done.*
3. `StatusSync`, `Tariff` and `Chargers`, with the proofs about prices and the
   quota. *Done.*
4. Proofs of `ChargedOnce`, `OrdersSettledOnce`, `OneOrderPerKey` and the two action
   properties (both isolation levels), then the refinement of `PointAccounts`.
   *Done.*
5. Proofs of every safety property of `Members`. *Done.*
6. Proofs of `ChargersTypeOK` and `AnswersSettle`, and of the deadlock that is left.
   *Done.*
7. What follows from the promise alone: in `PointAccounts`, that no reason is
   journalled twice and that an order's entries add up to its cost, so that the
   properties of `ChargingService` can be read off the abstract specification.
8. The UNIQUE names of `Identities` as an invariant with its proof, for withdrawn
   accounts too.

The abstract specifications worth stating beside `PointAccounts` are a payment
as seen by its owner (`none -> pending -> paid`) and a table that follows its
source with a delay, for `StatusSync`.
