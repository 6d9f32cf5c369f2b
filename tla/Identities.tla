------------------------------ MODULE Identities ------------------------------
(***************************************************************************)
(* Accounts as members see them: sign-up, login, social login, profile and *)
(* withdrawal over the users table, and the requests that work on it.      *)
(*                                                                         *)
(* The same code runs on two databases.  On "local" (MariaDB, REPEATABLE   *)
(* READ) the SELECT that authenticates fixes what every later plain SELECT *)
(* of the Session returns; on "supabase" (Postgres, READ COMMITTED) each   *)
(* statement sees what is committed.  Locking reads and UPDATEs work on    *)
(* the latest row on both.                                                 *)
(*                                                                         *)
(* A handler is cut where another request can get in between: after what   *)
(* it reads, at the row locks it waits for, and at its commit.  What it    *)
(* wrote under a lock shows at the commit, so its writes are one step.     *)
(***************************************************************************)
EXTENDS Naturals, FiniteSets

CONSTANTS
    UserPks,    \* primary keys of users, each given out once
    Procs,      \* request slots: how many requests may be in flight
    UserIds,    \* the user ids clients type
    Nicknames,  \* the nicknames clients type
    Socials,    \* (provider, provider_id) pairs of social profiles
    Backends,   \* databases the service may be configured for
    Traffic,    \* bound: the sets of operations clients of one run call
    None        \* SQL NULL, an unheld lock, an absent value

MemberOps == {"signup", "login", "social", "profile", "withdraw",
              "toggle", "add", "remove", "memo",
              "register", "choose", "unchoose", "edit", "delete"}

\* Names the service makes up: what a withdrawn account is left with, a social
\* account's own user id, and random ones.
MadeUp == ({"gone", "fresh"} \X UserPks) \cup ({"social"} \X Socials)

ASSUME IdentitiesAssumption ==
    /\ None \notin UserPks \cup Procs \cup UserIds \cup Nicknames \cup Socials \cup MadeUp
    /\ Backends \subseteq {"local", "supabase"}
    /\ Traffic \subseteq SUBSET MemberOps

VARIABLES
    backend,    \* DB_BACKEND, fixed when the process starts
    traffic,    \* what the clients of this run call
    users,      \* the users table
    tokens,     \* JWTs the service has issued
    userLock,   \* session that holds SELECT ... FOR UPDATE on the users row
    request,    \* the request each slot is serving
    userView    \* users row a session has read

identityVars == <<backend, traffic, users, tokens, userLock, request, userView>>

UserRow == [state: {"none", "live", "withdrawn"},
            user_id: UserIds \cup MadeUp \cup {None},
            nickname: Nicknames \cup MadeUp \cup {None},
            social: Socials \cup {None}]
Token == [uid: UserPks, sub: UserIds \cup MadeUp]

Absent == [state |-> "none", user_id |-> None, nickname |-> None, social |-> None]
Idle == [op |-> "idle", at |-> "idle", token |-> None, user |-> None, item |-> None]

IdentitiesInit ==
    /\ backend \in Backends
    /\ traffic \in Traffic
    /\ users = [u \in UserPks |-> Absent]
    /\ tokens = {}
    /\ userLock = [u \in UserPks |-> None]
    /\ request = [p \in Procs |-> Idle]
    /\ userView = [p \in Procs |-> Absent]

Live(u) == users[u].state = "live"
Locked(u) == userLock[u] # None
Called(op) == op \in traffic
At(p, op, stage) == request[p].op = op /\ request[p].at = stage

----------------------------------------------------------------------------
(* Requests: a token authenticates one, the Session's end finishes it.     *)

\* A slip: the account is looked up by the token's sub.
AccountBySub(t) == {u \in UserPks : Live(u) /\ users[u].user_id = t.sub}

AccountOf(t) == {u \in UserPks : Live(u) /\ u = t.uid}

\* get_current_user loads the users row; a handler that writes it keeps that
\* object.
Begin(p, op, item) ==
    /\ Called(op) /\ request[p] = Idle
    /\ \E t \in tokens : \E u \in AccountOf(t) :
         /\ request' = [request EXCEPT ![p] =
              [op |-> op, at |-> "begun", token |-> t, user |-> u, item |-> item]]
         /\ userView' = [userView EXCEPT ![p] =
              IF op \in {"profile", "withdraw"} THEN users[u] ELSE Absent]
    /\ UNCHANGED <<backend, traffic, users, tokens, userLock>>

End(p) ==
    /\ request' = [request EXCEPT ![p] = Idle]
    /\ userView' = [userView EXCEPT ![p] = Absent]
    /\ userLock' = [u \in UserPks |-> IF userLock[u] = p THEN None ELSE userLock[u]]
    /\ UNCHANGED <<backend, traffic>>

MoveTo(p, stage) ==
    /\ request' = [request EXCEPT ![p].at = stage]
    /\ UNCHANGED <<backend, traffic, users, tokens, userLock, userView>>

----------------------------------------------------------------------------
(* Registration and login.                                                 *)

\* The UNIQUE indexes cover withdrawn accounts too.
Unused(field, name) == \A u \in UserPks : users[u][field] # name

\* AUTO_INCREMENT: which of the unused keys comes next makes no difference.
NextKey(unused) == CHOOSE k \in unused : TRUE

\* A commit that would break a UNIQUE index is refused.
Insert(u, row) ==
    /\ users[u].state = "none" /\ u = NextKey({v \in UserPks : users[v].state = "none"})
    /\ Unused("user_id", row.user_id) /\ Unused("nickname", row.nickname)
    /\ users' = [users EXCEPT ![u] = row]

Issue(u, sub) == tokens' = tokens \cup {[uid |-> u, sub |-> sub]}

\* The handler's own look for a clash only words the refusal: what it lets
\* through the indexes still decide.
Signup ==
    /\ Called("signup")
    /\ \E u \in UserPks, id \in UserIds, nick \in Nicknames :
         Insert(u, [state |-> "live", user_id |-> id, nickname |-> nick, social |-> None])
    /\ UNCHANGED <<backend, traffic, tokens, userLock, request, userView>>

\* A local account has a password, a social one has none.
Login ==
    /\ Called("login")
    /\ \E u \in UserPks : Live(u) /\ users[u].social = None /\ Issue(u, users[u].user_id)
    /\ UNCHANGED <<backend, traffic, users, userLock, request, userView>>

AccountsOfSocial(s) == {u \in UserPks : Live(u) /\ users[u].social = s}
OwnName(s) == <<"social", s>>

HolderOf(name) ==
    IF \E u \in UserPks : Live(u) /\ users[u].user_id = name
      THEN users[CHOOSE u \in UserPks : Live(u) /\ users[u].user_id = name]
      ELSE Absent

\* The provider has confirmed the profile; a known one is signed in.
BeginSocialLogin(p) ==
    /\ Called("social") /\ request[p] = Idle
    /\ \E s \in Socials :
         \/ \E u \in AccountsOfSocial(s) :
              Issue(u, users[u].user_id) /\ UNCHANGED <<request, userView>>
         \/ /\ AccountsOfSocial(s) = {}
            /\ request' = [request EXCEPT ![p] =
                 [op |-> "social", at |-> "begun", token |-> None, user |-> None, item |-> s]]
            /\ userView' = [userView EXCEPT ![p] =
                 IF backend = "local" THEN HolderOf(OwnName(s)) ELSE Absent]
            /\ UNCHANGED tokens
    /\ UNCHANGED <<backend, traffic, users, userLock>>

\* The holder of the identity's own user id, as the second SELECT finds it.
Clash(p) ==
    IF backend = "local" THEN userView[p] ELSE HolderOf(OwnName(request[p].item))

\* No account is known: one is made, under a random user id if the identity's
\* own is taken.  The nickname is a random one nobody has.
RegisterSocialUser(p) ==
    /\ At(p, "social", "begun")
    /\ \E u \in UserPks :
         LET id == IF Clash(p) = Absent THEN OwnName(request[p].item) ELSE <<"fresh", u>> IN
         /\ Insert(u, [state |-> "live", user_id |-> id, nickname |-> <<"fresh", u>>,
                       social |-> request[p].item])
         /\ Issue(u, id)
    /\ End(p)

----------------------------------------------------------------------------
(* Profile and withdrawal: plain UPDATEs of an object loaded earlier.      *)

BeginUpdateProfile(p) == \E nick \in Nicknames : Begin(p, "profile", nick)

\* A slip: the whole row is written back, as it was loaded.
SaveProfile(p) ==
    LET u == request[p].user IN
    /\ At(p, "profile", "begun") /\ ~Locked(u)
    /\ \A v \in UserPks \ {u} : users[v].nickname # request[p].item
    /\ users' = [users EXCEPT ![u] = [userView[p] EXCEPT !.nickname = request[p].item]]
    /\ End(p) /\ UNCHANGED tokens

\* Only a nickname that differs from the loaded one is in the UPDATE, which
\* does not look at deleted_at again.  Addresses are not modelled.
UpdateProfile(p) ==
    LET u == request[p].user
        nick == request[p].item
    IN  /\ At(p, "profile", "begun") /\ ~Locked(u)
        /\ \/ nick = userView[p].nickname /\ UNCHANGED users
           \/ /\ nick # userView[p].nickname
              /\ \A v \in UserPks \ {u} : users[v].nickname # nick
              /\ users' = [users EXCEPT ![u].nickname = nick]
        /\ End(p) /\ UNCHANGED tokens

BeginWithdrawUser(p) == Begin(p, "withdraw", None)

\* A slip: the identifiers are cleared, though they are NOT NULL.
WithdrawToNull(p) ==
    LET u == request[p].user IN
    /\ At(p, "withdraw", "begun") /\ ~Locked(u)
    /\ users' = [users EXCEPT ![u] =
         [state |-> "withdrawn", user_id |-> None, nickname |-> None, social |-> None]]
    /\ End(p) /\ UNCHANGED tokens

\* Every column it sets differs from the live row it has loaded.
WithdrawUser(p) ==
    LET u == request[p].user IN
    /\ At(p, "withdraw", "begun") /\ ~Locked(u)
    /\ users' = [users EXCEPT ![u] =
         [state |-> "withdrawn", user_id |-> <<"gone", u>>,
          nickname |-> <<"gone", u>>, social |-> None]]
    /\ End(p) /\ UNCHANGED tokens

IdentityStep(p) ==
    \/ BeginSocialLogin(p) \/ RegisterSocialUser(p)
    \/ BeginUpdateProfile(p) \/ UpdateProfile(p)
    \/ BeginWithdrawUser(p) \/ WithdrawUser(p)

----------------------------------------------------------------------------
\* The shape of the users table, whose rows always have both names, of tokens,
\* locks and requests.
IdentitiesTypeOK ==
    /\ backend \in Backends /\ traffic \in Traffic
    /\ users \in [UserPks -> UserRow]
    /\ \A u \in UserPks :
         users[u].state # "none" => users[u].user_id # None /\ users[u].nickname # None
    /\ tokens \subseteq Token
    /\ userLock \in [UserPks -> Procs \cup {None}]
    /\ \A p \in Procs :
         /\ request[p].op \in MemberOps \cup {"idle"}
         /\ request[p].at \in {"idle", "begun", "matched", "locked"}
         /\ request[p].user \in UserPks \cup {None}
         /\ request[p].token \in Token \cup {None}
    /\ userView \in [Procs -> UserRow]

\* A request works for the account its token was issued to, also when another
\* account has taken that account's user id after it withdrew
\* (get_user_by_token_payload looks the account up by uid).
OwnAccountOnly ==
    \A p \in Procs : request[p].token # None => request[p].user = request[p].token.uid

\* No late write of a request that still has the live row loaded brings a
\* withdrawn account back or gives it its user id or social identity again:
\* what can still change is the nickname (update_profile, withdraw_user).
WithdrawnIsFinal ==
    [][\A u \in UserPks : users[u].state = "withdrawn" =>
         users'[u] = [users[u] EXCEPT !.nickname = users'[u].nickname]]_identityVars

\* provider and provider_id identify an account: no two live ones share them
\* (upsert_social_user).
OneAccountPerSocial ==
    \A s \in Socials : Cardinality(AccountsOfSocial(s)) <= 1
=============================================================================
