---------------------------- MODULE MembersProofs -----------------------------
(***************************************************************************)
(* Accounts, favourites and cars, for every set of users, requests, rows   *)
(* and names: requests work for their own account, a withdrawn account     *)
(* stays withdrawn, memos and cars are written where they were read, the   *)
(* limit of favourites holds on Postgres and the one primary car on        *)
(* MariaDB.                                                                *)
(***************************************************************************)
EXTENDS Members, FiniteSetTheorems, TLAPS

----------------------------------------------------------------------------
(* What the inductive invariants say.                                      *)

FavoriteOps == {"toggle", "add", "remove"}
ChoiceOps == {"register", "choose", "unchoose"}
RowOps == {"choose", "unchoose", "edit", "delete"}

Items == Nicknames \cup Socials \cup Stations \cup CarIds \cup BOOLEAN \cup {None}
Request == [op: MemberOps \cup {"idle"}, at: {"idle", "begun", "matched", "locked"},
            token: Token \cup {None}, user: UserPks \cup {None}, item: Items]

\* What a request in progress names: its token's account, and an item of the
\* kind its handler takes.
Fits(r) ==
    /\ r.at # "idle" /\ r.op # "social" => r.user \in UserPks
    /\ r.token # None => r.user = r.token.uid
    /\ r.op = "profile" => r.item \in Nicknames
    /\ r.op = "social" => r.item \in Socials
    /\ r.op \in FavoriteOps \cup {"memo"} => r.item \in Stations
    /\ r.op = "register" => r.item \in BOOLEAN
    /\ r.op \in RowOps => r.item \in CarIds
    /\ r.at = "matched" => r.op \in ChoiceOps /\ backend = "supabase"

RequestsFit == request \in [Procs -> Request] /\ \A p \in Procs : Fits(request[p])

\* A withdrawn account has the name that withdrawing gave it, and no identity.
WithdrawnRow(u) ==
    users[u].state = "withdrawn" => users[u].user_id = <<"gone", u>> /\ users[u].social = None

\* On Postgres a session that holds the users lock for a favourite has counted
\* what is still there.
CountsCurrent ==
    backend = "supabase" => \A p \in Procs :
      request[p].op \in FavoriteOps /\ request[p].at = "locked" =>
        LET u == request[p].user IN
        /\ userLock[u] = p
        /\ FavoritesOf(favView[p], u) = FavoritesOf(favorites, u)

FavoritesFinite == \A u \in UserPks : IsFiniteSet(FavoritesOf(favorites, u))

\* Outside a car handler nothing is picked or loaded.
ViewsEmpty ==
    \A p \in Procs :
      \/ carView[p] = NoCars
      \/ request[p].op \in {"edit", "delete"}
      \/ request[p].op \in ChoiceOps /\ request[p].at \in {"matched", "locked"}

\* On MariaDB a session past its locking statement holds the gap and every row
\* of its member, and has picked what is still there.
PicksCurrent ==
    backend = "local" => \A p \in Procs :
      request[p].op \in ChoiceOps /\ request[p].at = "locked" =>
        LET u == request[p].user IN
        /\ p \in gapLock[u]
        /\ \A c \in CarsOf(u) : carLock[c] = p
        /\ Picked(carView[p], p) = Picked(cars, p)

PrimaryAlone ==
    backend = "local" => \A u \in UserPks : \A c \in PrimariesOf(cars, u) :
      \A d \in PrimariesOf(cars, u) : c = d

----------------------------------------------------------------------------
(* Types.                                                                  *)

Types == MembersTypeOK /\ RequestsFit

\* The tables start empty.
LEMMA InitTyped == MembersInit => Types
<1> SUFFICES ASSUME MembersInit PROVE Types
  OBVIOUS
<1> USE DEF MembersInit
<1>1. Idle \in Request /\ Fits(Idle)
  BY DEF Idle, Request, Fits, Items, FavoriteOps, ChoiceOps, RowOps
<1>2. IdentitiesTypeOK
  BY DEF IdentitiesInit, IdentitiesTypeOK, Absent, UserRow, Idle
<1>3. FavoritesTypeOK
  BY DEF FavoritesInit, FavoritesTypeOK, NoRows, Unregistered, FavoriteRow
<1>4. CarsTypeOK
  BY DEF CarsInit, CarsTypeOK, NoCars, NoCar, CarRow
<1>5. RequestsFit
  BY <1>1 DEF IdentitiesInit, RequestsFit
<1> QED
  BY <1>2, <1>3, <1>4, <1>5 DEF Types, MembersTypeOK

\* A slot's request changes and the others stay.
LEMMA SlotTyped ==
  ASSUME RequestsFit, NEW p \in Procs, NEW r \in Request, Fits(r),
         request' = [request EXCEPT ![p] = r], UNCHANGED backend
  PROVE  RequestsFit'
  BY DEF RequestsFit, Fits

\* A request arrives for the account its token was issued to.
LEMMA BeginTyped ==
  ASSUME Types, NEW p \in Procs, NEW op \in MemberOps \ {"social"}, NEW item \in Items,
         Begin(p, op, item),
         op = "profile" => item \in Nicknames,
         op \in FavoriteOps \cup {"memo"} => item \in Stations,
         op = "register" => item \in BOOLEAN, op \in RowOps => item \in CarIds
  PROVE  IdentitiesTypeOK' /\ RequestsFit'
<1>1. PICK t \in tokens : \E u \in AccountOf(t) :
        /\ request' = [request EXCEPT ![p] =
             [op |-> op, at |-> "begun", token |-> t, user |-> u, item |-> item]]
        /\ userView' = [userView EXCEPT ![p] =
             IF op \in {"profile", "withdraw"} THEN users[u] ELSE Absent]
  BY DEF Begin
<1>2. PICK u \in AccountOf(t) :
        /\ request' = [request EXCEPT ![p] =
             [op |-> op, at |-> "begun", token |-> t, user |-> u, item |-> item]]
        /\ userView' = [userView EXCEPT ![p] =
             IF op \in {"profile", "withdraw"} THEN users[u] ELSE Absent]
  BY <1>1
<1>3. u \in UserPks /\ u = t.uid /\ t \in Token
  BY DEF AccountOf, Types, MembersTypeOK, IdentitiesTypeOK
<1> DEFINE r == [op |-> op, at |-> "begun", token |-> t, user |-> u, item |-> item]
<1>4. r \in Request /\ Fits(r)
  BY <1>3 DEF Request, Fits
<1>5. RequestsFit'
  <2>1. request' = [request EXCEPT ![p] = r] /\ UNCHANGED backend
    BY <1>2 DEF Begin
  <2> HIDE DEF r
  <2> QED
    BY <1>4, <2>1, SlotTyped DEF Types
<1>6. userView' \in [Procs -> UserRow]
  BY <1>2, <1>3 DEF Types, MembersTypeOK, IdentitiesTypeOK, Absent, UserRow
<1> QED
  BY <1>5, <1>6 DEF Begin, Types, MembersTypeOK, IdentitiesTypeOK, RequestsFit, Request

\* The end of a Session leaves the slot idle.
LEMMA EndTyped ==
  ASSUME Types, NEW p \in Procs, End(p)
  PROVE  /\ RequestsFit' /\ userLock' \in [UserPks -> Procs \cup {None}]
         /\ userView' \in [Procs -> UserRow] /\ request'[p] = Idle
         /\ \A q \in Procs : q # p => request'[q] = request[q]
         /\ UNCHANGED <<backend, traffic>>
<1>1. Idle \in Request /\ Fits(Idle)
  BY DEF Idle, Request, Fits, Items, FavoriteOps, ChoiceOps, RowOps
<1>2. RequestsFit'
  BY <1>1, SlotTyped DEF End, Types
<1>3. userLock' \in [UserPks -> Procs \cup {None}] /\ userView' \in [Procs -> UserRow]
  BY DEF End, Types, MembersTypeOK, IdentitiesTypeOK, Absent, UserRow
<1> QED
  BY <1>2, <1>3 DEF End, Types, RequestsFit

\* Moving on keeps what the request names.
LEMMA MoveTyped ==
  ASSUME Types, NEW p \in Procs, NEW stage \in {"matched", "locked"},
         request' = [request EXCEPT ![p].at = stage], UNCHANGED backend,
         request[p].at # "idle",
         stage = "matched" => request[p].op \in ChoiceOps /\ backend = "supabase"
  PROVE  RequestsFit'
<1> DEFINE r == [request[p] EXCEPT !.at = stage]
<1>1. request[p] \in Request /\ Fits(request[p])
  BY DEF Types, RequestsFit
<1>2. r \in Request /\ r.op = request[p].op /\ r.token = request[p].token
        /\ r.user = request[p].user /\ r.item = request[p].item /\ r.at = stage
  BY <1>1 DEF Request
<1>3. Fits(r)
  <2> HIDE DEF r
  <2> QED
    BY <1>1, <1>2 DEF Fits
<1>4. request' = [request EXCEPT ![p] = r]
  BY DEF Types, RequestsFit
<1> HIDE DEF r
<1> QED
  BY <1>2, <1>3, <1>4, SlotTyped DEF Types

\* A row is added with its two names.
LEMMA InsertTyped ==
  ASSUME Types, NEW u \in UserPks, NEW row \in UserRow, Insert(u, row),
         row.user_id # None, row.nickname # None
  PROVE  /\ users' \in [UserPks -> UserRow]
         /\ \A v \in UserPks :
              users'[v].state # "none" => users'[v].user_id # None /\ users'[v].nickname # None
  BY DEF Insert, Types, MembersTypeOK, IdentitiesTypeOK

\* A token carries an account's key and user id.
LEMMA IssueTyped ==
  ASSUME Types, NEW u \in UserPks, NEW sub \in UserIds \cup MadeUp, Issue(u, sub)
  PROVE  tokens' \subseteq Token
  BY DEF Issue, Types, MembersTypeOK, IdentitiesTypeOK, Token

\* The names the service makes up.
LEMMA MadeUpNames ==
  /\ \A u \in UserPks : <<"gone", u>> \in MadeUp /\ <<"fresh", u>> \in MadeUp
  /\ \A s \in Socials : OwnName(s) \in MadeUp
  /\ None \notin UserIds \cup Nicknames \cup MadeUp
  BY IdentitiesAssumption DEF MadeUp, OwnName

\* The users table, as IdentitiesTypeOK has it.
UsersTyped ==
    /\ users \in [UserPks -> UserRow]
    /\ \A u \in UserPks :
         users[u].state # "none" => users[u].user_id # None /\ users[u].nickname # None

\* A handler that ends with typed rows and tokens.
LEMMA EndedTyped ==
  ASSUME Types, NEW p \in Procs, End(p), UsersTyped', tokens' \subseteq Token
  PROVE  IdentitiesTypeOK' /\ RequestsFit'
<1>1. /\ RequestsFit' /\ userLock' \in [UserPks -> Procs \cup {None}]
      /\ userView' \in [Procs -> UserRow] /\ UNCHANGED <<backend, traffic>>
  BY EndTyped
<1> QED
  BY <1>1
  DEF Types, MembersTypeOK, IdentitiesTypeOK, UsersTyped, RequestsFit, Request

\* Registration and login.
LEMMA SignupTyped ==
  ASSUME Types, Signup \/ Login
  PROVE  IdentitiesTypeOK' /\ RequestsFit'
<1>1. CASE Signup
  <2>1. PICK u \in UserPks, id \in UserIds, nick \in Nicknames :
          Insert(u, [state |-> "live", user_id |-> id, nickname |-> nick, social |-> None])
    BY <1>1 DEF Signup
  <2> DEFINE row == [state |-> "live", user_id |-> id, nickname |-> nick, social |-> None]
  <2>2. row \in UserRow /\ row.user_id # None /\ row.nickname # None
    BY MadeUpNames DEF UserRow
  <2> HIDE DEF row
  <2>3. UsersTyped'
    BY <2>1, <2>2, InsertTyped DEF UsersTyped, row
  <2> QED
    BY <1>1, <2>3 DEF Signup, Types, MembersTypeOK, IdentitiesTypeOK, UsersTyped, RequestsFit, Fits
<1>2. CASE Login
  <2>1. PICK u \in UserPks : Live(u) /\ Issue(u, users[u].user_id)
    BY <1>2 DEF Login
  <2>2. users[u].user_id \in UserIds \cup MadeUp
    BY <2>1 DEF Live, Types, MembersTypeOK, IdentitiesTypeOK, UserRow
  <2>3. tokens' \subseteq Token
    BY <2>1, <2>2, IssueTyped
  <2> QED
    BY <1>2, <2>3 DEF Login, Types, MembersTypeOK, IdentitiesTypeOK, RequestsFit, Fits
<1> QED
  BY <1>1, <1>2

\* Social login, profile and withdrawal.
LEMMA IdentityTyped ==
  ASSUME Types, NEW p \in Procs, IdentityStep(p)
  PROVE  IdentitiesTypeOK' /\ RequestsFit'
<1>1. CASE BeginSocialLogin(p)
  <2>1. PICK s \in Socials :
          \/ \E u \in AccountsOfSocial(s) :
               Issue(u, users[u].user_id) /\ UNCHANGED <<request, userView>>
          \/ /\ request' = [request EXCEPT ![p] =
                  [op |-> "social", at |-> "begun", token |-> None, user |-> None, item |-> s]]
             /\ userView' = [userView EXCEPT ![p] =
                  IF backend = "local" THEN HolderOf(OwnName(s)) ELSE Absent]
             /\ UNCHANGED tokens
    BY <1>1 DEF BeginSocialLogin
  <2>2. CASE \E u \in AccountsOfSocial(s) :
               Issue(u, users[u].user_id) /\ UNCHANGED <<request, userView>>
    <3>1. PICK u \in UserPks : Live(u) /\ Issue(u, users[u].user_id)
      BY <2>2 DEF AccountsOfSocial
    <3>2. users[u].user_id \in UserIds \cup MadeUp
      BY <3>1 DEF Live, Types, MembersTypeOK, IdentitiesTypeOK, UserRow
    <3>3. tokens' \subseteq Token
      BY <3>1, <3>2, IssueTyped
    <3> QED
      BY <1>1, <2>2, <3>3
      DEF BeginSocialLogin, Types, MembersTypeOK, IdentitiesTypeOK, RequestsFit, Fits
  <2>3. CASE /\ request' = [request EXCEPT ![p] =
                  [op |-> "social", at |-> "begun", token |-> None, user |-> None, item |-> s]]
             /\ userView' = [userView EXCEPT ![p] =
                  IF backend = "local" THEN HolderOf(OwnName(s)) ELSE Absent]
             /\ UNCHANGED tokens
    <3> DEFINE r == [op |-> "social", at |-> "begun", token |-> None, user |-> None, item |-> s]
    <3>1. r \in Request /\ Fits(r)
      BY DEF Request, Fits, Items, MemberOps, FavoriteOps, ChoiceOps, RowOps
    <3>2. request' = [request EXCEPT ![p] = r] /\ UNCHANGED backend
      BY <1>1, <2>3 DEF BeginSocialLogin
    <3> HIDE DEF r
    <3>3. RequestsFit'
      BY <3>1, <3>2, SlotTyped DEF Types
    <3>4. HolderOf(OwnName(s)) \in UserRow /\ Absent \in UserRow
      BY DEF HolderOf, Absent, UserRow, Types, MembersTypeOK, IdentitiesTypeOK
    <3>5. userView' \in [Procs -> UserRow]
      BY <2>3, <3>4 DEF Types, MembersTypeOK, IdentitiesTypeOK
    <3> QED
      BY <1>1, <2>3, <3>3, <3>5
      DEF BeginSocialLogin, Types, MembersTypeOK, IdentitiesTypeOK, RequestsFit, Request
  <2> QED
    BY <2>1, <2>2, <2>3
<1>2. CASE RegisterSocialUser(p)
  <2>1. PICK s \in Socials : s = request[p].item
    BY <1>2 DEF RegisterSocialUser, At, Types, RequestsFit, Fits
  <2>2. PICK u \in UserPks : \E id \in {OwnName(s), <<"fresh", u>>} :
          /\ Insert(u, [state |-> "live", user_id |-> id, nickname |-> <<"fresh", u>>, social |-> s])
          /\ Issue(u, id)
    BY <1>2, <2>1 DEF RegisterSocialUser
  <2>3. PICK id \in {OwnName(s), <<"fresh", u>>} :
          /\ Insert(u, [state |-> "live", user_id |-> id, nickname |-> <<"fresh", u>>, social |-> s])
          /\ Issue(u, id)
    BY <2>2
  <2> DEFINE row == [state |-> "live", user_id |-> id, nickname |-> <<"fresh", u>>, social |-> s]
  <2>4. id \in UserIds \cup MadeUp
    BY MadeUpNames
  <2>5. row \in UserRow /\ row.user_id # None /\ row.nickname # None
    BY <2>4, MadeUpNames, IdentitiesAssumption DEF UserRow
  <2> HIDE DEF row
  <2>6. UsersTyped'
    BY <2>3, <2>5, InsertTyped DEF UsersTyped, row
  <2>7. tokens' \subseteq Token
    BY <2>3, <2>4, IssueTyped
  <2> QED
    BY <1>2, <2>6, <2>7, EndedTyped DEF RegisterSocialUser
<1>3. CASE BeginUpdateProfile(p) \/ BeginWithdrawUser(p)
  <2>1. PICK op \in {"profile", "withdraw"}, item \in Nicknames \cup {None} :
          Begin(p, op, item) /\ (op = "profile" => item \in Nicknames)
    BY <1>3 DEF BeginUpdateProfile, BeginWithdrawUser
  <2>2. /\ op \in MemberOps \ {"social"} /\ item \in Items
        /\ op \notin FavoriteOps \cup {"memo"} /\ op # "register" /\ op \notin RowOps
    BY DEF MemberOps, Items, FavoriteOps, RowOps
  <2> QED
    BY <2>1, <2>2, BeginTyped
<1>4. CASE UpdateProfile(p)
  <2>1. PICK u \in UserPks, nick \in Nicknames : u = request[p].user /\ nick = request[p].item
    BY <1>4 DEF UpdateProfile, At, Types, RequestsFit, Fits
  <2>2. users' = users \/ users' = [users EXCEPT ![u].nickname = nick]
    BY <1>4, <2>1 DEF UpdateProfile
  <2>3. nick # None
    BY MadeUpNames
  <2>4. /\ users \in [UserPks -> UserRow]
        /\ \A v \in UserPks :
             users[v].state # "none" => users[v].user_id # None /\ users[v].nickname # None
    BY DEF Types, MembersTypeOK, IdentitiesTypeOK
  <2> DEFINE row == [users[u] EXCEPT !.nickname = nick]
  <2>5. /\ row \in UserRow /\ row.state = users[u].state
        /\ row.user_id = users[u].user_id /\ row.nickname = nick
    BY <2>4 DEF UserRow
  <2>6. users' = users \/ users' = [users EXCEPT ![u] = row]
    BY <2>2, <2>4
  <2> HIDE DEF row
  <2>7. UsersTyped'
    BY <2>3, <2>4, <2>5, <2>6 DEF UsersTyped
  <2> QED
    BY <1>4, <2>7, EndedTyped
    DEF UpdateProfile, Types, MembersTypeOK, IdentitiesTypeOK
<1>5. CASE WithdrawUser(p)
  <2>1. PICK u \in UserPks : u = request[p].user
    BY <1>5 DEF WithdrawUser, At, Types, RequestsFit, Fits
  <2>2. PICK gone \in MadeUp : gone = <<"gone", u>>
    BY MadeUpNames
  <2>3. users' = [users EXCEPT ![u] =
          [state |-> "withdrawn", user_id |-> gone, nickname |-> gone, social |-> None]]
    BY <1>5, <2>1, <2>2 DEF WithdrawUser
  <2>4. gone # None
    BY MadeUpNames
  <2> DEFINE row == [state |-> "withdrawn", user_id |-> gone, nickname |-> gone, social |-> None]
  <2>5. row \in UserRow /\ row.user_id = gone /\ row.nickname = gone
    BY DEF UserRow
  <2>6. users' = [users EXCEPT ![u] = row]
    BY <2>3
  <2> HIDE DEF row
  <2>7. UsersTyped'
    BY <2>4, <2>5, <2>6 DEF UsersTyped, Types, MembersTypeOK, IdentitiesTypeOK
  <2> QED
    BY <1>5, <2>7, EndedTyped
    DEF WithdrawUser, Types, MembersTypeOK, IdentitiesTypeOK
<1> QED
  BY <1>1, <1>2, <1>3, <1>4, <1>5 DEF IdentityStep

\* A step that leaves accounts and tokens alone and ends its session.
LEMMA QuietEndTyped ==
  ASSUME Types, NEW p \in Procs, End(p), UNCHANGED <<users, tokens>>
  PROVE  IdentitiesTypeOK' /\ RequestsFit'
<1>1. UsersTyped' /\ tokens' \subseteq Token
  BY DEF UsersTyped, Types, MembersTypeOK, IdentitiesTypeOK
<1> QED
  BY <1>1, EndedTyped

\* A step that only moves a session on, or gives it the users lock.
LEMMA QuietMoveTyped ==
  ASSUME Types, NEW p \in Procs, NEW stage \in {"matched", "locked"},
         request' = [request EXCEPT ![p].at = stage], request[p].at # "idle",
         stage = "matched" => request[p].op \in ChoiceOps /\ backend = "supabase",
         UNCHANGED <<backend, traffic, users, tokens, userView>>,
         userLock' \in [UserPks -> Procs \cup {None}]
  PROVE  IdentitiesTypeOK' /\ RequestsFit'
<1>1. RequestsFit'
  BY MoveTyped
<1> QED
  BY <1>1 DEF Types, MembersTypeOK, IdentitiesTypeOK, RequestsFit, Request

\* Favourites.
LEMMA FavoriteTyped ==
  ASSUME Types, NEW p \in Procs, FavoriteStep(p)
  PROVE  IdentitiesTypeOK' /\ RequestsFit' /\ FavoritesTypeOK'
<1>1. /\ favorites \in [FavoriteIds -> FavoriteRow] /\ NoRows \in [FavoriteIds -> FavoriteRow]
      /\ favView \in [Procs -> [FavoriteIds -> FavoriteRow]]
  BY DEF Types, MembersTypeOK, FavoritesTypeOK, NoRows, Unregistered, FavoriteRow
<1>2. CASE BeginFavorite(p)
  <2>1. PICK op \in {"toggle", "add", "remove", "memo"}, s \in Stations : Begin(p, op, s)
    BY <1>2 DEF BeginFavorite
  <2>2. op \in MemberOps \ {"social"} /\ s \in Items /\ op # "profile" /\ op # "register"
        /\ op \notin RowOps
    BY DEF MemberOps, Items, RowOps
  <2>3. IdentitiesTypeOK' /\ RequestsFit'
    BY <2>1, <2>2, BeginTyped
  <2>4. FavoritesTypeOK'
    BY <1>1, <1>2 DEF BeginFavorite, FavoritesTypeOK
  <2> QED
    BY <2>3, <2>4
<1>3. CASE LockUser(p)
  <2>1. PICK u \in UserPks : u = request[p].user
    BY <1>3 DEF LockUser, Types, RequestsFit, Fits
  <2>2. userLock' \in [UserPks -> Procs \cup {None}]
    BY <1>3, <2>1 DEF LockUser, Types, MembersTypeOK, IdentitiesTypeOK
  <2>3. IdentitiesTypeOK' /\ RequestsFit'
    BY <1>3, <2>2, QuietMoveTyped DEF LockUser
  <2>4. FavoritesTypeOK'
    BY <1>1, <1>3 DEF LockUser, FavoritesTypeOK
  <2> QED
    BY <2>3, <2>4
<1>4. ASSUME End(p), LeaveFavorites(p), UNCHANGED <<users, tokens>>,
             favorites' \in [FavoriteIds -> FavoriteRow]
      PROVE  IdentitiesTypeOK' /\ RequestsFit' /\ FavoritesTypeOK'
  BY <1>1, <1>4, QuietEndTyped DEF LeaveFavorites, FavoritesTypeOK
<1>5. CASE ChangeFavorite(p)
  <2>1. CASE Unregister(p)
    <3>1. Removed \in FavoriteRow
      BY DEF Removed, Unregistered, FavoriteRow
    <3>2. favorites' \in [FavoriteIds -> FavoriteRow]
      BY <1>1, <2>1, <3>1 DEF Unregister
    <3> QED
      BY <1>4, <1>5, <3>2 DEF ChangeFavorite
  <2>2. CASE Register(p)
    <3>1. request[p].user \in UserPks /\ request[p].item \in Stations
      BY <1>5, <2>2 DEF Register, ChangeFavorite, Types, RequestsFit, Fits, FavoriteOps
    <3>2. favorites' \in [FavoriteIds -> FavoriteRow]
      BY <1>1, <2>2, <3>1 DEF Register, FavoriteRow
    <3> QED
      BY <1>4, <1>5, <3>2 DEF ChangeFavorite
  <2> QED
    BY <1>5, <2>1, <2>2 DEF ChangeFavorite
<1>6. CASE WriteMemo(p)
  <2>1. PICK i \in FavoriteIds, memo \in Memos \cup {None} :
          favorites' = favorites \/ favorites' = [favorites EXCEPT ![i].memo = memo]
    BY <1>6 DEF WriteMemo, AtStation, FavoritesOf
  <2>2. [favorites[i] EXCEPT !.memo = memo] \in FavoriteRow
    BY <1>1 DEF FavoriteRow
  <2>3. [favorites EXCEPT ![i].memo = memo] = [favorites EXCEPT ![i] = [favorites[i] EXCEPT !.memo = memo]]
    BY <1>1
  <2>4. favorites' \in [FavoriteIds -> FavoriteRow]
    BY <1>1, <2>1, <2>2, <2>3
  <2> QED
    BY <1>4, <1>6, <2>4 DEF WriteMemo
<1> QED
  BY <1>2, <1>3, <1>5, <1>6 DEF FavoriteStep

\* Cars.
LEMMA CarTyped ==
  ASSUME Types, NEW p \in Procs, CarStep(p)
  PROVE  IdentitiesTypeOK' /\ RequestsFit' /\ CarsTypeOK'
<1>1. /\ cars \in [CarIds -> CarRow] /\ NoCar \in CarRow /\ NoCars \in [CarIds -> CarRow]
      /\ carLock \in [CarIds -> Procs \cup {None}] /\ gapLock \in [UserPks -> SUBSET Procs]
      /\ carView \in [Procs -> [CarIds -> CarRow]]
  BY DEF Types, MembersTypeOK, CarsTypeOK, NoCars, NoCar, CarRow
<1>2. CASE BeginCar(p)
  <2>1. PICK op \in {"choose", "unchoose", "register"}, item \in CarIds \cup BOOLEAN :
          /\ Begin(p, op, item)
          /\ op = "register" => item \in BOOLEAN
          /\ op \in RowOps => item \in CarIds
    BY <1>2 DEF BeginCar, RowOps
  <2>2. /\ op \in MemberOps \ {"social"} /\ item \in Items /\ op # "profile"
        /\ op \notin FavoriteOps \cup {"memo"}
    BY DEF MemberOps, Items, FavoriteOps
  <2>3. IdentitiesTypeOK' /\ RequestsFit'
    BY <2>1, <2>2, BeginTyped
  <2>4. CarsTypeOK'
    BY <1>1, <1>2 DEF BeginCar, carVars, CarsTypeOK
  <2> QED
    BY <2>3, <2>4
<1>3. CASE BeginCarRow(p)
  <2>1. PICK op \in {"edit", "delete"}, c \in CarIds :
          /\ Begin(p, op, c)
          /\ carView' = [carView EXCEPT ![p] = [d \in CarIds |-> IF d = c THEN cars[c] ELSE NoCar]]
    BY <1>3 DEF BeginCarRow
  <2>2. /\ op \in MemberOps \ {"social"} /\ c \in Items /\ op # "profile" /\ op # "register"
        /\ op \notin FavoriteOps \cup {"memo"}
    BY DEF MemberOps, Items, FavoriteOps
  <2>3. IdentitiesTypeOK' /\ RequestsFit'
    BY <2>1, <2>2, BeginTyped
  <2>4. CarsTypeOK'
    BY <1>1, <1>3, <2>1 DEF BeginCarRow, CarsTypeOK
  <2> QED
    BY <2>3, <2>4
\* The locking statements: what they pick are rows of the table.
<1>4. ASSUME NEW picked, NEW stage \in {"matched", "locked"}, MoveTo(p, stage),
             request[p].at # "idle",
             stage = "matched" => request[p].op \in ChoiceOps /\ backend = "supabase",
             carView' = [carView EXCEPT ![p] =
               [c \in CarIds |-> IF c \in picked THEN cars[c] ELSE NoCar]],
             UNCHANGED cars, carLock' \in [CarIds -> Procs \cup {None}],
             gapLock' \in [UserPks -> SUBSET Procs]
      PROVE  IdentitiesTypeOK' /\ RequestsFit' /\ CarsTypeOK'
  <2>1. IdentitiesTypeOK' /\ RequestsFit'
    <3>1. userLock' \in [UserPks -> Procs \cup {None}]
      BY <1>4 DEF MoveTo, Types, MembersTypeOK, IdentitiesTypeOK
    <3> QED
      BY <1>4, <3>1, QuietMoveTyped DEF MoveTo
  <2>2. [c \in CarIds |-> IF c \in picked THEN cars[c] ELSE NoCar] \in [CarIds -> CarRow]
    BY <1>1
  <2>3. CarsTypeOK'
    BY <1>1, <1>4, <2>2 DEF CarsTypeOK
  <2> QED
    BY <2>1, <2>3
<1>5. CASE PickCars(p)
  <2> DEFINE picked == Picked(cars, p)
  <2>1. request[p].op \in ChoiceOps
    BY <1>5 DEF PickCars, Locks, ChoiceOps
  <2>2. /\ carView' = [carView EXCEPT ![p] =
               [c \in CarIds |-> IF c \in picked THEN cars[c] ELSE NoCar]]
        /\ MoveTo(p, "matched") /\ backend = "supabase" /\ request[p].at # "idle"
        /\ UNCHANGED <<cars, carLock, gapLock>>
    BY <1>5 DEF PickCars
  <2> HIDE DEF picked
  <2> QED
    BY <1>1, <1>4, <2>1, <2>2
<1>6. CASE LockPicked(p)
  <2> DEFINE mine == Picked(carView[p], p) \cap Picked(cars, p)
  <2>1. /\ carView' = [carView EXCEPT ![p] =
               [c \in CarIds |-> IF c \in mine THEN cars[c] ELSE NoCar]]
        /\ carLock' = [c \in CarIds |-> IF c \in mine THEN p ELSE carLock[c]]
        /\ MoveTo(p, "locked") /\ request[p].at # "idle"
        /\ UNCHANGED <<cars, gapLock>>
    BY <1>6 DEF LockPicked
  <2> HIDE DEF mine
  <2>2. carLock' \in [CarIds -> Procs \cup {None}]
    BY <1>1, <2>1
  <2> QED
    BY <1>1, <1>4, <2>1, <2>2
<1>7. CASE LockIndex(p)
  <2> DEFINE picked == Picked(cars, p)
  <2>1. PICK u \in UserPks : u = request[p].user
    BY <1>7 DEF LockIndex, Locks, Types, RequestsFit, Fits
  <2>2. /\ carView' = [carView EXCEPT ![p] =
               [c \in CarIds |-> IF c \in picked THEN cars[c] ELSE NoCar]]
        /\ carLock' = [c \in CarIds |-> IF c \in CarsOf(u) THEN p ELSE carLock[c]]
        /\ gapLock' = [gapLock EXCEPT ![u] = @ \cup {p}]
        /\ MoveTo(p, "locked") /\ request[p].at # "idle" /\ UNCHANGED cars
    BY <1>7, <2>1 DEF LockIndex
  <2> HIDE DEF picked
  <2>3. carLock' \in [CarIds -> Procs \cup {None}]
    BY <1>1, <2>2
  <2>4. gapLock' \in [UserPks -> SUBSET Procs]
    BY <1>1, <2>2
  <2> QED
    BY <1>4, <2>2, <2>3, <2>4
\* The handlers that write end their session.
<1>8. ASSUME End(p), LeaveCars(p), UNCHANGED <<users, tokens>>, cars' \in [CarIds -> CarRow]
      PROVE  IdentitiesTypeOK' /\ RequestsFit' /\ CarsTypeOK'
  <2>1. IdentitiesTypeOK' /\ RequestsFit'
    BY <1>8, QuietEndTyped
  <2>2. CarsTypeOK'
    BY <1>1, <1>8 DEF LeaveCars, CarsTypeOK
  <2> QED
    BY <2>1, <2>2
<1>9. CASE CreateCar(p)
  <2>1. PICK u \in UserPks, primary \in BOOLEAN : u = request[p].user /\ primary = request[p].item
    BY <1>9 DEF CreateCar, Types, RequestsFit, Fits
  <2> DEFINE picked == Picked(carView[p], p)
  <2>2. PICK c \in CarIds, plate \in Plates :
          cars' = [d \in CarIds |->
              IF d = c THEN [state |-> "active", user |-> u, primary |-> primary, plate |-> plate]
              ELSE IF d \in picked THEN [cars[d] EXCEPT !.primary = FALSE] ELSE cars[d]]
    BY <1>9, <2>1 DEF CreateCar
  <2> HIDE DEF picked
  <2>3. cars' \in [CarIds -> CarRow]
    BY <1>1, <2>2 DEF CarRow
  <2> QED
    BY <1>8, <1>9, <2>3 DEF CreateCar
<1>10. CASE SetPrimaryCar(p)
  <2> DEFINE target == request[p].item
             mine == ActiveOf(carView[p], request[p].user)
             choose == request[p].op = "choose"
  <2>1. cars' = [c \in CarIds |->
             IF choose /\ c \in mine THEN [cars[c] EXCEPT !.primary = (c = target)]
             ELSE IF c = target THEN [cars[c] EXCEPT !.primary = FALSE]
             ELSE cars[c]]
    BY <1>10 DEF SetPrimaryCar
  <2> HIDE DEF target, mine, choose
  <2>2. cars' \in [CarIds -> CarRow]
    BY <1>1, <2>1 DEF CarRow
  <2> QED
    BY <1>8, <1>10, <2>2 DEF SetPrimaryCar
<1>11. CASE UpdateCar(p) \/ SoftDeleteCar(p)
  <2>1. PICK c \in CarIds : c = request[p].item
    BY <1>11 DEF UpdateCar, SoftDeleteCar, At, Types, RequestsFit, Fits, RowOps
  <2>2. CASE UpdateCar(p)
    <3>1. PICK plate \in Plates \cup {None} : cars' = [cars EXCEPT ![c].plate = plate]
      <4>1. cars[c].plate \in Plates \cup {None}
        BY <1>1 DEF CarRow
      <4> QED
        BY <2>1, <2>2, <4>1 DEF UpdateCar
    <3>2. cars' \in [CarIds -> CarRow]
      BY <1>1, <3>1 DEF CarRow
    <3> QED
      BY <1>8, <2>2, <3>2 DEF UpdateCar
  <2>3. CASE SoftDeleteCar(p)
    <3>1. PICK primary \in BOOLEAN :
            cars' = [cars EXCEPT ![c].state = "deleted", ![c].primary = primary]
      <4>1. cars[c].primary \in BOOLEAN
        BY <1>1 DEF CarRow
      <4> QED
        BY <2>1, <2>3, <4>1 DEF SoftDeleteCar
    <3>2. cars' \in [CarIds -> CarRow]
      BY <1>1, <3>1 DEF CarRow
    <3> QED
      BY <1>8, <2>3, <3>2 DEF SoftDeleteCar
  <2> QED
    BY <1>11, <2>2, <2>3
<1> QED
  BY <1>2, <1>3, <1>5, <1>6, <1>7, <1>9, <1>10, <1>11 DEF CarStep

\* Every step keeps the types, and what requests name.
LEMMA NextTyped == Types /\ [MembersNext]_memberVars => Types'
<1> SUFFICES ASSUME Types, [MembersNext]_memberVars PROVE Types'
  OBVIOUS
<1>1. FavoritesTypeOK /\ CarsTypeOK /\ IdentitiesTypeOK /\ RequestsFit
  BY DEF Types, MembersTypeOK
<1>2. UNCHANGED favoriteVars => FavoritesTypeOK'
  BY <1>1 DEF favoriteVars, FavoritesTypeOK
<1>3. UNCHANGED carVars => CarsTypeOK'
  BY <1>1 DEF carVars, CarsTypeOK
<1>4. ASSUME NEW p \in Procs, FailRequest(p) PROVE Types'
  <2>1. IdentitiesTypeOK' /\ RequestsFit'
    BY <1>4, QuietEndTyped DEF FailRequest
  <2>2. FavoritesTypeOK'
    BY <1>1, <1>4
    DEF FailRequest, LeaveFavorites, FavoritesTypeOK, NoRows, Unregistered, FavoriteRow
  <2>3. CarsTypeOK'
    BY <1>1, <1>4 DEF FailRequest, LeaveCars, CarsTypeOK, NoCars, NoCar, CarRow
  <2> QED
    BY <2>1, <2>2, <2>3 DEF Types, MembersTypeOK
<1>5. CASE UNCHANGED memberVars
  BY <1>1, <1>5
  DEF Types, MembersTypeOK, memberVars, identityVars, favoriteVars, carVars, IdentitiesTypeOK,
      FavoritesTypeOK, CarsTypeOK, RequestsFit, Fits
<1> QED
  BY <1>2, <1>3, <1>4, <1>5, SignupTyped, IdentityTyped, FavoriteTyped, CarTyped
  DEF MembersNext, Types, MembersTypeOK

\* Every behaviour has typed tables, locks and views, and its requests name
\* what their handlers take.
LEMMA TypesCorrect == MembersSpec => []Types
  BY InitTyped, NextTyped, PTL DEF MembersSpec

\* Tables, locks, tokens and requests keep their shape, and no row loses its
\* names, for every number of users, requests, rows and names.
THEOREM MembersTyped == MembersSpec => []MembersTypeOK
<1>1. Types => MembersTypeOK
  BY DEF Types
<1> QED
  BY <1>1, TypesCorrect, PTL

\* A request works for the account its token was issued to
\* (get_user_by_token_payload), whoever has that account's user id by then.
THEOREM OwnAccount == MembersSpec => []OwnAccountOnly
<1>1. Types => OwnAccountOnly
  BY DEF Types, RequestsFit, Fits, OwnAccountOnly
<1> QED
  BY <1>1, TypesCorrect, PTL

----------------------------------------------------------------------------
(* Withdrawn accounts.                                                     *)

WithdrawnAs(u) ==
    [state |-> "withdrawn", user_id |-> <<"gone", u>>, nickname |-> <<"gone", u>>, social |-> None]

\* What a step can do to the row of an account.
LEMMA RowWritten ==
  ASSUME Types, [MembersNext]_memberVars, NEW u \in UserPks
  PROVE  \/ users'[u] = users[u]
         \/ users[u].state = "none" /\ users'[u].state = "live"
         \/ \E nick \in Nicknames : users'[u] = [users[u] EXCEPT !.nickname = nick]
         \/ users'[u] = WithdrawnAs(u)
<1>1. users \in [UserPks -> UserRow]
  BY DEF Types, MembersTypeOK, IdentitiesTypeOK
<1>2. ASSUME NEW v \in UserPks, NEW row, row.state = "live", Insert(v, row)
      PROVE  users'[u] = users[u] \/ (users[u].state = "none" /\ users'[u].state = "live")
  BY <1>1, <1>2 DEF Insert
<1>3. CASE Signup
  <2>1. PICK v \in UserPks : \E id \in UserIds : \E nick \in Nicknames :
          Insert(v, [state |-> "live", user_id |-> id, nickname |-> nick, social |-> None])
    BY <1>3 DEF Signup
  <2>2. PICK id \in UserIds, nick \in Nicknames :
          Insert(v, [state |-> "live", user_id |-> id, nickname |-> nick, social |-> None])
    BY <2>1
  <2> DEFINE row == [state |-> "live", user_id |-> id, nickname |-> nick, social |-> None]
  <2>3. row.state = "live" /\ Insert(v, row)
    BY <2>2
  <2> HIDE DEF row
  <2> QED
    BY <1>2, <2>3
<1>4. ASSUME NEW p \in Procs, RegisterSocialUser(p)
      PROVE  users'[u] = users[u] \/ (users[u].state = "none" /\ users'[u].state = "live")
  <2>1. PICK v \in UserPks : \E row : row.state = "live" /\ Insert(v, row)
    <3>1. PICK v \in UserPks :
            LET id == IF Clash(p) = Absent THEN OwnName(request[p].item) ELSE <<"fresh", v>> IN
            Insert(v, [state |-> "live", user_id |-> id, nickname |-> <<"fresh", v>>,
                       social |-> request[p].item])
      BY <1>4 DEF RegisterSocialUser
    <3> DEFINE id == IF Clash(p) = Absent THEN OwnName(request[p].item) ELSE <<"fresh", v>>
               row == [state |-> "live", user_id |-> id, nickname |-> <<"fresh", v>>,
                       social |-> request[p].item]
    <3>2. row.state = "live" /\ Insert(v, row)
      BY <3>1
    <3> HIDE DEF row
    <3> QED
      BY <3>2
  <2> QED
    BY <1>2, <2>1
<1>5. ASSUME NEW p \in Procs, UpdateProfile(p)
      PROVE  \/ users'[u] = users[u]
             \/ \E nick \in Nicknames : users'[u] = [users[u] EXCEPT !.nickname = nick]
  <2>1. PICK v \in UserPks, nick \in Nicknames : v = request[p].user /\ nick = request[p].item
    BY <1>5 DEF UpdateProfile, At, Types, RequestsFit, Fits
  <2>2. users' = users \/ users' = [users EXCEPT ![v].nickname = nick]
    BY <1>5, <2>1 DEF UpdateProfile
  <2> QED
    BY <1>1, <2>2
<1>6. ASSUME NEW p \in Procs, WithdrawUser(p)
      PROVE  users'[u] = users[u] \/ users'[u] = WithdrawnAs(u)
  BY <1>1, <1>6 DEF WithdrawUser, WithdrawnAs
<1>7. ASSUME NEW p \in Procs, FavoriteStep(p) \/ CarStep(p) \/ FailRequest(p)
      PROVE  UNCHANGED users
  BY <1>7
  DEF FavoriteStep, BeginFavorite, Begin, LockUser, ChangeFavorite, WriteMemo, CarStep, BeginCar,
      PickCars, LockPicked, LockIndex, CreateCar, SetPrimaryCar, BeginCarRow, UpdateCar,
      SoftDeleteCar, MoveTo, FailRequest
<1> QED
  BY <1>3, <1>4, <1>5, <1>6, <1>7
  DEF MembersNext, IdentityStep, BeginSocialLogin, BeginUpdateProfile, BeginWithdrawUser, Begin,
      Login, memberVars, identityVars

\* A nickname that is written leaves the rest of the row.
LEMMA OnlyNickname ==
  ASSUME NEW row \in UserRow, NEW nick, NEW new, new = [row EXCEPT !.nickname = nick]
  PROVE  /\ new.state = row.state /\ new.user_id = row.user_id /\ new.social = row.social
         /\ new = [row EXCEPT !.nickname = new.nickname]
  BY DEF UserRow

\* What withdrawing wrote stays.
LEMMA NextWithdrawn ==
  ASSUME Types, \A u \in UserPks : WithdrawnRow(u), [MembersNext]_memberVars
  PROVE  \A u \in UserPks : WithdrawnRow(u)'
<1> SUFFICES ASSUME NEW u \in UserPks, users'[u].state = "withdrawn"
             PROVE  users'[u].user_id = <<"gone", u>> /\ users'[u].social = None
  BY DEF WithdrawnRow
<1>1. users[u] \in UserRow
  BY DEF Types, MembersTypeOK, IdentitiesTypeOK
<1>2. ASSUME NEW nick \in Nicknames, users'[u] = [users[u] EXCEPT !.nickname = nick]
      PROVE  users'[u].user_id = <<"gone", u>> /\ users'[u].social = None
  <2>1. /\ users'[u].state = users[u].state /\ users'[u].user_id = users[u].user_id
        /\ users'[u].social = users[u].social
    BY <1>1, <1>2, OnlyNickname
  <2> QED
    BY <2>1 DEF WithdrawnRow
<1>3. CASE users'[u] = users[u]
  BY <1>3 DEF WithdrawnRow
<1>4. CASE users'[u] = WithdrawnAs(u)
  BY <1>4 DEF WithdrawnAs
<1> QED
  BY <1>2, <1>3, <1>4, RowWritten

\* No late write revives a withdrawn account or gives it a name or an identity
\* back (update_profile, withdraw_user): only its nickname can still change.
THEOREM WithdrawnStays == MembersSpec => WithdrawnIsFinal
<1> DEFINE Gone == \A u \in UserPks : WithdrawnRow(u)
<1>1. MembersInit => Gone
  BY DEF MembersInit, IdentitiesInit, Absent, WithdrawnRow
<1>2. Types /\ Gone /\ [MembersNext]_memberVars => Gone'
  BY NextWithdrawn
<1>3. Types /\ Gone /\ [MembersNext]_memberVars =>
        [\A u \in UserPks : users[u].state = "withdrawn" =>
           users'[u] = [users[u] EXCEPT !.nickname = users'[u].nickname]]_identityVars
  <2> SUFFICES ASSUME Types, Gone, [MembersNext]_memberVars,
                      NEW u \in UserPks, users[u].state = "withdrawn"
               PROVE  users'[u] = [users[u] EXCEPT !.nickname = users'[u].nickname]
    OBVIOUS
  <2>1. users[u] \in UserRow
    BY DEF Types, MembersTypeOK, IdentitiesTypeOK
  <2>2. ASSUME NEW nick, users'[u] = [users[u] EXCEPT !.nickname = nick]
        PROVE  users'[u] = [users[u] EXCEPT !.nickname = users'[u].nickname]
    BY <2>1, <2>2, OnlyNickname
  <2>3. CASE users'[u] = users[u]
    BY <2>1, <2>3 DEF UserRow
  <2>4. CASE users'[u] = WithdrawnAs(u)
    <3>1. users[u].user_id = <<"gone", u>> /\ users[u].social = None
      BY DEF WithdrawnRow
    <3>2. PICK gone : gone = <<"gone", u>>
      OBVIOUS
    <3>3. users'[u] = [state |-> "withdrawn", user_id |-> gone, nickname |-> gone, social |-> None]
      BY <2>4, <3>2 DEF WithdrawnAs
    <3>4. /\ users[u].state = "withdrawn" /\ users[u].user_id = gone /\ users[u].social = None
      BY <3>1, <3>2
    <3> QED
      BY <2>1, <3>3, <3>4 DEF UserRow
  <2> QED
    BY <2>2, <2>3, <2>4, RowWritten
<1> QED
  BY <1>1, <1>2, <1>3, TypesCorrect, PTL DEF MembersSpec, WithdrawnIsFinal

----------------------------------------------------------------------------
(* Late writes of favourites and cars.                                     *)

\* A memo is written on a row its request has loaded
\* (update_favorite_memo), so never on a later registration.
THEOREM MemosFollow == MembersSpec => MemoFollowsRegistration
<1>1. Types /\ [MembersNext]_memberVars =>
        [\A i \in FavoriteIds :
           /\ favorites[i].state = "kept" /\ favorites'[i].state = "kept"
           /\ favorites'[i].memo # favorites[i].memo
           => \E p \in Procs : /\ request[p].op = "memo" /\ request'[p] # request[p]
                               /\ favView[p][i].state = "kept"]_favoriteVars
  <2> SUFFICES ASSUME Types, [MembersNext]_memberVars, NEW i \in FavoriteIds,
                      favorites[i].state = "kept", favorites'[i].state = "kept",
                      favorites'[i].memo # favorites[i].memo
               PROVE  \E p \in Procs : /\ request[p].op = "memo" /\ request'[p] # request[p]
                                      /\ favView[p][i].state = "kept"
    OBVIOUS
  <2>1. favorites \in [FavoriteIds -> FavoriteRow]
    BY DEF Types, MembersTypeOK, FavoritesTypeOK
  <2>2. PICK p \in Procs : ChangeFavorite(p) \/ WriteMemo(p)
    BY DEF MembersNext, FavoriteStep, BeginFavorite, LockUser, FailRequest, favoriteVars, memberVars
  <2>3. CASE ChangeFavorite(p)
    BY <2>1, <2>3
    DEF ChangeFavorite, Unregister, Register, Removed, Unregistered, FavoriteRow, Registered,
        AtStation, FavoritesOf
  <2>4. CASE WriteMemo(p)
    <3>1. PICK j \in AtStation(favView[p], request[p].user, request[p].item) :
            \E memo \in Memos \cup {None} :
              favorites' = favorites \/ favorites' = [favorites EXCEPT ![j].memo = memo]
      BY <2>4 DEF WriteMemo
    <3>2. j = i /\ favView[p][j].state = "kept"
      BY <2>1, <3>1 DEF AtStation, FavoritesOf
    <3>3. request[p].op = "memo" /\ request'[p] # request[p]
      BY <2>4 DEF WriteMemo, At, End, Idle, Types, RequestsFit
    <3> QED
      BY <3>2, <3>3
  <2> QED
    BY <2>2, <2>3, <2>4
<1> QED
  BY <1>1, TypesCorrect, PTL DEF MembersSpec, MemoFollowsRegistration

\* What a session has picked or loaded is a row there still is, of its owner.
ViewsOwned ==
    \A p \in Procs, c \in CarIds :
       carView[p][c].state # "none" =>
         cars[c].state # "none" /\ carView[p][c].user = cars[c].user

\* A car keeps its row and its owner.
LEMMA OwnersStay ==
  ASSUME Types, [MembersNext]_memberVars, NEW c \in CarIds, cars[c].state # "none"
  PROVE  cars'[c].state # "none" /\ cars'[c].user = cars[c].user
<1>1. cars \in [CarIds -> CarRow]
  BY DEF Types, MembersTypeOK, CarsTypeOK
<1>2. CASE UNCHANGED cars
  BY <1>2
<1>3. ASSUME NEW p \in Procs, CreateCar(p)
      PROVE  cars'[c].state # "none" /\ cars'[c].user = cars[c].user
  <2> DEFINE u == request[p].user
             primary == request[p].item
             picked == Picked(carView[p], p)
  <2>1. PICK b \in CarIds, plate \in Plates :
          /\ cars[b].state = "none"
          /\ cars' = [d \in CarIds |->
               IF d = b THEN [state |-> "active", user |-> u, primary |-> primary, plate |-> plate]
               ELSE IF d \in picked THEN [cars[d] EXCEPT !.primary = FALSE] ELSE cars[d]]
    BY <1>3 DEF CreateCar
  <2> HIDE DEF picked, u, primary
  <2>2. cars'[c] \in {cars[c], [cars[c] EXCEPT !.primary = FALSE]}
    BY <2>1
  <2> QED
    BY <1>1, <2>2 DEF CarRow
<1>4. ASSUME NEW p \in Procs, SetPrimaryCar(p)
      PROVE  cars'[c].state # "none" /\ cars'[c].user = cars[c].user
  <2> DEFINE target == request[p].item
             mine == ActiveOf(carView[p], request[p].user)
             choose == request[p].op = "choose"
  <2>1. cars'[c] = IF choose /\ c \in mine THEN [cars[c] EXCEPT !.primary = (c = target)]
                   ELSE IF c = target THEN [cars[c] EXCEPT !.primary = FALSE]
                   ELSE cars[c]
    BY <1>4 DEF SetPrimaryCar
  <2> HIDE DEF target, mine, choose
  <2> QED
    BY <1>1, <2>1 DEF CarRow
<1>5. ASSUME NEW p \in Procs, UpdateCar(p) \/ SoftDeleteCar(p)
      PROVE  cars'[c].state # "none" /\ cars'[c].user = cars[c].user
  <2>1. PICK b \in CarIds : b = request[p].item
    BY <1>5 DEF UpdateCar, SoftDeleteCar, At, Types, RequestsFit, Fits, RowOps
  <2>2. CASE UpdateCar(p)
    <3>1. PICK plate : cars' = [cars EXCEPT ![b].plate = plate]
      BY <2>1, <2>2 DEF UpdateCar
    <3> QED
      BY <1>1, <3>1 DEF CarRow
  <2>3. CASE SoftDeleteCar(p)
    <3>1. PICK primary : cars' = [cars EXCEPT ![b].state = "deleted", ![b].primary = primary]
      BY <2>1, <2>3 DEF SoftDeleteCar
    <3> QED
      BY <1>1, <3>1 DEF CarRow
  <2> QED
    BY <1>5, <2>2, <2>3
<1> QED
  BY <1>2, <1>3, <1>4, <1>5
  DEF MembersNext, CarStep, BeginCar, PickCars, LockPicked, LockIndex, BeginCarRow, FailRequest,
      carVars, memberVars

\* What a session has read of the cars: what it had, nothing, or committed rows.
LEMMA ViewsWritten ==
  ASSUME Types, [MembersNext]_memberVars, NEW q \in Procs
  PROVE  \/ carView'[q] \in {carView[q], NoCars}
         \/ /\ UNCHANGED cars
            /\ \E S \in SUBSET CarIds :
                 carView'[q] = [c \in CarIds |-> IF c \in S THEN cars[c] ELSE NoCar]
<1>1. carView \in [Procs -> [CarIds -> CarRow]]
  BY DEF Types, MembersTypeOK, CarsTypeOK
<1>2. CASE UNCHANGED carView
  BY <1>2
<1>3. ASSUME NEW p \in Procs, LeaveCars(p)
      PROVE  carView'[q] \in {carView[q], NoCars}
  BY <1>1, <1>3 DEF LeaveCars
<1>4. ASSUME NEW p \in Procs, UNCHANGED cars, NEW S \in SUBSET CarIds,
             carView' = [carView EXCEPT ![p] =
               [c \in CarIds |-> IF c \in S THEN cars[c] ELSE NoCar]]
      PROVE  \/ carView'[q] = carView[q]
             \/ \E T \in SUBSET CarIds :
                  carView'[q] = [c \in CarIds |-> IF c \in T THEN cars[c] ELSE NoCar]
  BY <1>1, <1>4
<1>5. ASSUME NEW p \in Procs, PickCars(p) \/ LockPicked(p) \/ LockIndex(p) \/ BeginCarRow(p)
      PROVE  UNCHANGED cars /\ \E S \in SUBSET CarIds : carView' = [carView EXCEPT ![p] =
               [c \in CarIds |-> IF c \in S THEN cars[c] ELSE NoCar]]
  <2>1. Picked(cars, p) \in SUBSET CarIds
    BY DEF Picked, PrimariesOf, ActiveOf
  <2>2. CASE PickCars(p) \/ LockIndex(p)
    BY <2>1, <2>2 DEF PickCars, LockIndex
  <2>3. CASE LockPicked(p)
    <3> DEFINE mine == Picked(carView[p], p) \cap Picked(cars, p)
    <3>1. mine \in SUBSET CarIds /\ UNCHANGED cars
      BY <2>1, <2>3 DEF LockPicked
    <3>2. carView' = [carView EXCEPT ![p] =
            [c \in CarIds |-> IF c \in mine THEN cars[c] ELSE NoCar]]
      BY <2>3 DEF LockPicked
    <3> HIDE DEF mine
    <3> QED
      BY <3>1, <3>2
  <2>4. CASE BeginCarRow(p)
    <3>1. PICK b \in CarIds : carView' = [carView EXCEPT ![p] =
            [c \in CarIds |-> IF c = b THEN cars[c] ELSE NoCar]]
      BY <2>4 DEF BeginCarRow
    <3>2. [c \in CarIds |-> IF c = b THEN cars[c] ELSE NoCar]
            = [c \in CarIds |-> IF c \in {b} THEN cars[c] ELSE NoCar]
      OBVIOUS
    <3>3. carView' = [carView EXCEPT ![p] =
            [c \in CarIds |-> IF c \in {b} THEN cars[c] ELSE NoCar]]
      BY <3>1, <3>2
    <3> QED
      BY <2>4, <3>3 DEF BeginCarRow
  <2> QED
    BY <1>5, <2>2, <2>3, <2>4
<1> QED
  BY <1>2, <1>3, <1>4, <1>5
  DEF MembersNext, CarStep, BeginCar, CreateCar, SetPrimaryCar, UpdateCar, SoftDeleteCar,
      FailRequest, carVars, memberVars

\* Types and owners together, in every reachable state.
LEMMA ViewsAreOwned == MembersSpec => [](Types /\ ViewsOwned)
<1>1. MembersInit => ViewsOwned
  BY DEF MembersInit, CarsInit, NoCars, NoCar, ViewsOwned
<1>2. Types /\ ViewsOwned /\ [MembersNext]_memberVars => ViewsOwned'
  <2> SUFFICES ASSUME Types, ViewsOwned, [MembersNext]_memberVars, NEW p \in Procs,
                      NEW c \in CarIds, carView'[p][c].state # "none"
               PROVE  cars'[c].state # "none" /\ carView'[p][c].user = cars'[c].user
    BY DEF ViewsOwned
  <2>1. carView'[p] # NoCars
    BY DEF NoCars, NoCar
  <2>2. carView'[p][c] = carView[p][c] \/ carView'[p][c] = cars[c] \/ carView'[p][c] = NoCar
    BY <2>1, ViewsWritten
  <2>3. cars[c].state # "none" /\ carView'[p][c].user = cars[c].user
    BY <2>2 DEF ViewsOwned, NoCar
  <2> QED
    BY <2>3, OwnersStay
<1> QED
  BY <1>1, <1>2, TypesCorrect, PTL DEF MembersSpec

\* A car that is deleted stays deleted, and one becomes primary only by a
\* choice or a registration of its own member that has its locks (update_car,
\* soft_delete_car).
THEOREM DecisionsStand == MembersSpec => CarDecisionsStand
<1>1. Types /\ ViewsOwned /\ [MembersNext]_memberVars =>
        [\A c \in CarIds :
           /\ cars[c].state = "deleted" => cars'[c].state = "deleted"
           /\ ~cars[c].primary /\ cars'[c].primary =>
                \E p \in Procs : /\ request[p].op \in {"choose", "register"}
                                 /\ request[p].at = "locked" /\ request'[p] # request[p]
                                 /\ request[p].user = cars'[c].user]_carVars
  <2> SUFFICES ASSUME Types, ViewsOwned, [MembersNext]_memberVars, NEW c \in CarIds
               PROVE  /\ cars[c].state = "deleted" => cars'[c].state = "deleted"
                      /\ ~cars[c].primary /\ cars'[c].primary =>
                           \E p \in Procs : /\ request[p].op \in {"choose", "register"}
                                            /\ request[p].at = "locked"
                                            /\ request'[p] # request[p]
                                            /\ request[p].user = cars'[c].user
    OBVIOUS
  <2>1. cars \in [CarIds -> CarRow]
    BY DEF Types, MembersTypeOK, CarsTypeOK
  <2>2. CASE UNCHANGED cars
    BY <2>2
  <2>3. ASSUME NEW p \in Procs, CreateCar(p)
        PROVE  /\ cars[c].state = "deleted" => cars'[c].state = "deleted"
               /\ ~cars[c].primary /\ cars'[c].primary =>
                    /\ request[p].op = "register" /\ request[p].at = "locked"
                    /\ request'[p] # request[p] /\ request[p].user = cars'[c].user
    <3> DEFINE u == request[p].user
               primary == request[p].item
               picked == Picked(carView[p], p)
    <3>1. PICK b \in CarIds, plate \in Plates :
            /\ cars[b].state = "none"
            /\ cars' = [d \in CarIds |->
                 IF d = b THEN [state |-> "active", user |-> u, primary |-> primary, plate |-> plate]
                 ELSE IF d \in picked THEN [cars[d] EXCEPT !.primary = FALSE] ELSE cars[d]]
      BY <2>3 DEF CreateCar
    <3>2. /\ request[p].op = "register" /\ (primary => request[p].at = "locked")
          /\ request'[p] # request[p]
      BY <2>3 DEF CreateCar, End, Idle, Types, RequestsFit
    <3> HIDE DEF picked
    <3>3. CASE c = b
      BY <3>1, <3>2, <3>3
    <3>4. CASE c # b /\ c \in picked
      <4>1. cars'[c] = [cars[c] EXCEPT !.primary = FALSE]
        BY <3>1, <3>4
      <4> QED
        BY <2>1, <4>1 DEF CarRow
    <3>5. CASE c # b /\ c \notin picked
      <4>1. cars'[c] = cars[c]
        BY <3>1, <3>5
      <4> QED
        BY <4>1
    <3> QED
      BY <3>3, <3>4, <3>5
  <2>4. ASSUME NEW p \in Procs, SetPrimaryCar(p)
        PROVE  /\ cars'[c].state = cars[c].state
               /\ ~cars[c].primary /\ cars'[c].primary =>
                    /\ request[p].op = "choose" /\ request[p].at = "locked"
                    /\ request'[p] # request[p] /\ request[p].user = cars'[c].user
    <3> DEFINE target == request[p].item
               mine == ActiveOf(carView[p], request[p].user)
               choose == request[p].op = "choose"
    <3>1. cars'[c] = IF choose /\ c \in mine THEN [cars[c] EXCEPT !.primary = (c = target)]
                     ELSE IF c = target THEN [cars[c] EXCEPT !.primary = FALSE]
                     ELSE cars[c]
      BY <2>4 DEF SetPrimaryCar
    <3>5. c \in mine => request[p].user = cars[c].user
      BY DEF ActiveOf, ViewsOwned
    <3>6. request'[p] # request[p]
      BY <2>4 DEF SetPrimaryCar, End, Idle, Types, RequestsFit
    <3> HIDE DEF target, mine
    <3>2. CASE choose /\ c \in mine
      BY <2>1, <2>4, <3>1, <3>2, <3>5, <3>6 DEF CarRow, SetPrimaryCar
    <3>3. CASE ~(choose /\ c \in mine) /\ c = target
      <4>1. cars'[c] = [cars[c] EXCEPT !.primary = FALSE]
        BY <3>1, <3>3
      <4> QED
        BY <2>1, <4>1 DEF CarRow
    <3>4. CASE ~(choose /\ c \in mine) /\ c # target
      <4>1. cars'[c] = cars[c]
        BY <3>1, <3>4
      <4> QED
        BY <4>1
    <3> QED
      BY <3>2, <3>3, <3>4
  <2>5. ASSUME NEW p \in Procs, UpdateCar(p) \/ SoftDeleteCar(p)
        PROVE  /\ cars[c].state = "deleted" => cars'[c].state = "deleted"
               /\ cars'[c].primary => cars[c].primary
    <3>1. PICK b \in CarIds : b = request[p].item
      BY <2>5 DEF UpdateCar, SoftDeleteCar, At, Types, RequestsFit, Fits, RowOps
    <3>2. CASE c # b
      BY <2>1, <2>5, <3>1, <3>2 DEF UpdateCar, SoftDeleteCar
    <3>3. CASE c = b /\ UpdateCar(p)
      <4>1. PICK plate : cars' = [cars EXCEPT ![b].plate = plate]
        BY <3>1, <3>3 DEF UpdateCar
      <4> QED
        BY <2>1, <3>3, <4>1 DEF CarRow
    <3>4. CASE c = b /\ SoftDeleteCar(p)
      <4>1. PICK primary \in {FALSE, cars[b].primary} :
              cars' = [cars EXCEPT ![b].state = "deleted", ![b].primary = primary]
        BY <3>1, <3>4 DEF SoftDeleteCar
      <4>2. cars'[b].state = "deleted" /\ cars'[b].primary = primary
        BY <2>1, <4>1 DEF CarRow
      <4> QED
        BY <3>4, <4>2
    <3> QED
      BY <2>5, <3>2, <3>3, <3>4
  <2> QED
    BY <2>2, <2>3, <2>4, <2>5
    DEF MembersNext, CarStep, BeginCar, PickCars, LockPicked, LockIndex, BeginCarRow, FailRequest,
        carVars, memberVars
<1> QED
  BY <1>1, ViewsAreOwned, PTL DEF MembersSpec, CarDecisionsStand

----------------------------------------------------------------------------
(* What a step does to one slot.                                           *)

\* Another session's step: the request, its views and its locks stay.
Kept(q) ==
    /\ request'[q] = request[q] /\ favView'[q] = favView[q] /\ carView'[q] = carView[q]
    /\ \A u \in UserPks : /\ userLock[u] = q => userLock'[u] = q
                          /\ q \in gapLock[u] => q \in gapLock'[u]
    /\ \A c \in CarIds : carLock[c] = q => carLock'[c] = q

\* The request's end: its handler has let go of what it picked.
Over(q) ==
    /\ request'[q] = Idle
    /\ \/ carView'[q] = NoCars
       \/ carView'[q] = carView[q] /\ request[q].op \notin ChoiceOps \cup {"edit", "delete"}

\* A request arrives.
Arrives(q) ==
    /\ request[q] = Idle /\ request'[q].at = "begun"
    /\ carView'[q] = carView[q] \/ request'[q].op \in {"edit", "delete"}

\* The database is chosen once.
LEMMA BackendStays == [MembersNext]_memberVars => UNCHANGED backend
  BY DEF MembersNext, Signup, Login, IdentityStep, BeginSocialLogin, RegisterSocialUser,
         BeginUpdateProfile, UpdateProfile, BeginWithdrawUser, WithdrawUser, FavoriteStep,
         BeginFavorite, LockUser, ChangeFavorite, WriteMemo, CarStep, BeginCar, PickCars,
         LockPicked, LockIndex, CreateCar, SetPrimaryCar, BeginCarRow, UpdateCar, SoftDeleteCar,
         FailRequest, Begin, End, MoveTo, memberVars, identityVars

\* Authentication takes a free slot.
LEMMA BeginSteps ==
  ASSUME Types, NEW p \in Procs, NEW op, NEW item, Begin(p, op, item)
  PROVE  /\ request[p] = Idle /\ request'[p].at = "begun" /\ request'[p].op = op
         /\ \A q \in Procs : q # p => request'[q] = request[q]
         /\ UNCHANGED <<backend, userLock>>
  BY DEF Begin, Types, RequestsFit

\* Nobody takes a lock that another session holds.
LEMMA SlotSteps ==
  ASSUME Types, [MembersNext]_memberVars, NEW q \in Procs
  PROVE  \/ Kept(q) \/ Over(q) \/ Arrives(q)
         \/ LockUser(q) /\ UNCHANGED carVars
         \/ PickCars(q) \/ LockPicked(q) \/ LockIndex(q)
<1>1. /\ request \in [Procs -> Request] /\ userLock \in [UserPks -> Procs \cup {None}]
      /\ favView \in [Procs -> [FavoriteIds -> FavoriteRow]]
      /\ carView \in [Procs -> [CarIds -> CarRow]]
      /\ carLock \in [CarIds -> Procs \cup {None}] /\ gapLock \in [UserPks -> SUBSET Procs]
      /\ q # None
  BY IdentitiesAssumption
  DEF Types, MembersTypeOK, IdentitiesTypeOK, FavoritesTypeOK, CarsTypeOK, RequestsFit
<1>2. UNCHANGED <<request, userLock, favView, carView, carLock, gapLock>> => Kept(q)
  BY DEF Kept
<1>3. CASE (Signup \/ Login) /\ UNCHANGED <<favoriteVars, carVars>>
  BY <1>2, <1>3 DEF Signup, Login, favoriteVars, carVars
<1>4. CASE UNCHANGED memberVars
  BY <1>2, <1>4 DEF memberVars, identityVars, favoriteVars, carVars
\* What the end of a session leaves of the others, and of itself.
<1>5. ASSUME NEW p \in Procs, End(p), favView' = [favView EXCEPT ![p] = NoRows] \/ UNCHANGED favView,
             LeaveCars(p) \/ (UNCHANGED carVars /\ request[p].op \notin ChoiceOps \cup {"edit", "delete"})
      PROVE  Kept(q) \/ Over(q)
  <2>1. CASE q = p
    BY <1>1, <1>5, <2>1 DEF End, LeaveCars, carVars, Over
  <2>2. CASE q # p
    BY <1>1, <1>5, <2>2 DEF End, LeaveCars, carVars, Kept
  <2> QED
    BY <2>1, <2>2
<1>6. ASSUME NEW p \in Procs, IdentityStep(p), UNCHANGED <<favoriteVars, carVars>>
      PROVE  Kept(q) \/ Over(q) \/ Arrives(q)
  <2>1. CASE BeginSocialLogin(p)
    BY <1>1, <1>6, <2>1 DEF BeginSocialLogin, favoriteVars, carVars, Kept, Arrives
  <2>2. CASE BeginUpdateProfile(p) \/ BeginWithdrawUser(p)
    <3>1. /\ request[p] = Idle /\ request'[p].at = "begun" /\ UNCHANGED userLock
          /\ \A r \in Procs : r # p => request'[r] = request[r]
      BY <2>2, BeginSteps DEF BeginUpdateProfile, BeginWithdrawUser
    <3> QED
      BY <1>6, <3>1 DEF favoriteVars, carVars, Kept, Arrives
  <2>3. CASE RegisterSocialUser(p) \/ UpdateProfile(p) \/ WithdrawUser(p)
    <3>1. End(p) /\ request[p].op \notin ChoiceOps \cup {"edit", "delete"}
      BY <2>3 DEF RegisterSocialUser, UpdateProfile, WithdrawUser, At, ChoiceOps
    <3> QED
      BY <1>5, <1>6, <3>1 DEF favoriteVars
  <2> QED
    BY <1>6, <2>1, <2>2, <2>3 DEF IdentityStep
<1>7. ASSUME NEW p \in Procs, FavoriteStep(p), UNCHANGED carVars
      PROVE  Kept(q) \/ Over(q) \/ Arrives(q) \/ LockUser(q)
  <2>1. CASE BeginFavorite(p)
    <3>1. /\ request[p] = Idle /\ request'[p].at = "begun" /\ UNCHANGED userLock
          /\ \A r \in Procs : r # p => request'[r] = request[r]
      BY <2>1, BeginSteps DEF BeginFavorite
    <3>2. q # p => favView'[q] = favView[q]
      BY <1>1, <2>1 DEF BeginFavorite
    <3> QED
      BY <1>7, <3>1, <3>2 DEF carVars, Kept, Arrives
  <2>2. CASE LockUser(p) /\ q # p
    BY <1>1, <1>7, <2>2 DEF LockUser, Locked, carVars, Kept
  <2>3. CASE ChangeFavorite(p) \/ WriteMemo(p)
    <3>1. End(p) /\ favView' = [favView EXCEPT ![p] = NoRows]
      BY <2>3 DEF ChangeFavorite, WriteMemo, LeaveFavorites
    <3>2. request[p].op \notin ChoiceOps \cup {"edit", "delete"}
      BY <2>3 DEF ChangeFavorite, Unregister, Register, WriteMemo, At, ChoiceOps
    <3> QED
      BY <1>5, <1>7, <3>1, <3>2
  <2> QED
    BY <1>7, <2>1, <2>2, <2>3 DEF FavoriteStep
<1>8. ASSUME NEW p \in Procs, CarStep(p), UNCHANGED favoriteVars
      PROVE  Kept(q) \/ Over(q) \/ Arrives(q) \/ PickCars(q) \/ LockPicked(q) \/ LockIndex(q)
  <2>1. CASE BeginCar(p) \/ BeginCarRow(p)
    <3>1. /\ request[p] = Idle /\ request'[p].at = "begun" /\ UNCHANGED userLock
          /\ \A r \in Procs : r # p => request'[r] = request[r]
      BY <2>1, BeginSteps DEF BeginCar, BeginCarRow
    <3>2. /\ carView' = carView \/ request'[p].op \in {"edit", "delete"}
          /\ q # p => carView'[q] = carView[q]
          /\ UNCHANGED <<carLock, gapLock>>
      BY <1>1, <2>1, BeginSteps DEF BeginCar, BeginCarRow, carVars
    <3> QED
      BY <1>8, <3>1, <3>2 DEF favoriteVars, Kept, Arrives
  <2>2. CASE PickCars(p) /\ q # p
    BY <1>1, <1>8, <2>2 DEF PickCars, MoveTo, favoriteVars, Kept
  <2>3. CASE LockPicked(p) /\ q # p
    BY <1>1, <1>8, <2>3 DEF LockPicked, MoveTo, Free, favoriteVars, Kept
  <2>4. CASE LockIndex(p) /\ q # p
    BY <1>1, <1>8, <2>4 DEF LockIndex, MoveTo, Free, favoriteVars, Kept
  <2>5. CASE CreateCar(p) \/ SetPrimaryCar(p) \/ UpdateCar(p) \/ SoftDeleteCar(p)
    <3>1. End(p) /\ LeaveCars(p)
      BY <2>5 DEF CreateCar, SetPrimaryCar, UpdateCar, SoftDeleteCar
    <3> QED
      BY <1>5, <1>8, <3>1 DEF favoriteVars
  <2> QED
    BY <1>8, <2>1, <2>2, <2>3, <2>4, <2>5 DEF CarStep
<1>9. ASSUME NEW p \in Procs, FailRequest(p)
      PROVE  Kept(q) \/ Over(q)
  BY <1>5, <1>9 DEF FailRequest, LeaveFavorites
<1> QED
  BY <1>3, <1>4, <1>6, <1>7, <1>8, <1>9 DEF MembersNext

----------------------------------------------------------------------------
(* The limit of favourites on Postgres.                                    *)

\* The session that holds the users lock of v and changes its favourites.
Changing(p, v) ==
    /\ request[p].op \in FavoriteOps /\ request[p].at = "locked" /\ request[p].user = v
    /\ request'[p] = Idle

\* A member's favourites change under the member's users lock, by one; the
\* rest only changes memos.
LEMMA FavoritesWritten ==
  ASSUME Types, CountsCurrent, [MembersNext]_memberVars, NEW v \in UserPks
  PROVE  \/ FavoritesOf(favorites', v) = FavoritesOf(favorites, v)
         \/ /\ FavoritesOf(favorites', v) \subseteq FavoritesOf(favorites, v)
            /\ backend = "supabase" => \E p \in Procs : Changing(p, v)
         \/ \E p \in Procs, i \in FavoriteIds :
              /\ Changing(p, v) /\ FavoriteCount(p) < MaxFavorites
              /\ FavoritesOf(favorites', v) = FavoritesOf(favorites, v) \cup {i}
<1>1. /\ favorites \in [FavoriteIds -> FavoriteRow] /\ request \in [Procs -> Request]
  BY DEF Types, MembersTypeOK, FavoritesTypeOK, RequestsFit
<1>2. ASSUME NEW p \in Procs, ChangeFavorite(p), Unregister(p)
      PROVE  \/ FavoritesOf(favorites', v) = FavoritesOf(favorites, v)
             \/ /\ FavoritesOf(favorites', v) \subseteq FavoritesOf(favorites, v)
                /\ backend = "supabase" => Changing(p, v)
  <2>1. PICK i \in Registered(p) : favorites' = [favorites EXCEPT ![i] = Removed]
    BY <1>2 DEF Unregister
  <2>2. FavoritesOf(favorites', v) = FavoritesOf(favorites, v) \ {i}
    BY <1>1, <2>1 DEF FavoritesOf, Registered, AtStation, Removed, Unregistered, FavoriteRow
  <2>3. i \in FavoriteIds /\ i \in FavoritesOf(favView[p], request[p].user)
    BY <2>1 DEF Registered, AtStation, FavoritesOf
  <2>4. /\ request[p].op \in FavoriteOps /\ request[p].at = "locked" /\ request'[p] = Idle
    BY <1>1, <1>2 DEF ChangeFavorite, Unregister, FavoriteOps, End
  <2>5. backend = "supabase" => favorites[i].user = request[p].user
    BY <2>3, <2>4 DEF CountsCurrent, FavoritesOf
  <2> QED
    BY <2>2, <2>3, <2>4, <2>5 DEF Changing, FavoritesOf
<1>3. ASSUME NEW p \in Procs, ChangeFavorite(p), Register(p)
      PROVE  \/ FavoritesOf(favorites', v) = FavoritesOf(favorites, v)
             \/ \E i \in FavoriteIds :
                  /\ Changing(p, v) /\ FavoriteCount(p) < MaxFavorites
                  /\ FavoritesOf(favorites', v) = FavoritesOf(favorites, v) \cup {i}
  <2>1. PICK i \in FavoriteIds : \E memo \in Memos \cup {None} :
          /\ favorites[i].state = "unused"
          /\ favorites' = [favorites EXCEPT ![i] =
               [state |-> "kept", user |-> request[p].user, station |-> request[p].item, memo |-> memo]]
    BY <1>3 DEF Register
  <2>2. /\ request[p].op \in FavoriteOps /\ request[p].at = "locked" /\ request'[p] = Idle
        /\ FavoriteCount(p) < MaxFavorites
    BY <1>1, <1>3 DEF ChangeFavorite, Register, FavoriteOps, End
  <2>3. FavoritesOf(favorites', v) =
          IF request[p].user = v THEN FavoritesOf(favorites, v) \cup {i} ELSE FavoritesOf(favorites, v)
    BY <1>1, <2>1 DEF FavoritesOf
  <2> QED
    BY <2>2, <2>3 DEF Changing
<1>4. ASSUME NEW p \in Procs, WriteMemo(p)
      PROVE  FavoritesOf(favorites', v) = FavoritesOf(favorites, v)
  <2>1. PICK i \in FavoriteIds : \E memo \in Memos \cup {None} :
          favorites' = favorites \/ favorites' = [favorites EXCEPT ![i].memo = memo]
    BY <1>4 DEF WriteMemo, AtStation, FavoritesOf
  <2> QED
    BY <1>1, <2>1 DEF FavoritesOf, FavoriteRow
<1>5. (\A p \in Procs : ~ChangeFavorite(p) /\ ~WriteMemo(p)) => UNCHANGED favorites
  BY DEF MembersNext, FavoriteStep, BeginFavorite, LockUser, FailRequest, favoriteVars, memberVars
<1> QED
  BY <1>2, <1>3, <1>4, <1>5 DEF ChangeFavorite

FavoritesInv == CountsCurrent /\ FavoritesFinite /\ FavoritesWithinLimit

LEMMA InitFavorites == MembersInit => FavoritesInv
<1> SUFFICES ASSUME MembersInit PROVE FavoritesInv
  OBVIOUS
<1>1. \A u \in UserPks : FavoritesOf(favorites, u) = {}
  BY DEF MembersInit, FavoritesInit, FavoritesOf, NoRows, Unregistered
<1>2. \A p \in Procs : request[p].at = "idle"
  BY DEF MembersInit, IdentitiesInit, Idle
<1>3. FavoritesWithinLimit
  BY <1>1, FS_EmptySet, FavoritesAssumption DEF FavoritesWithinLimit
<1> QED
  BY <1>1, <1>2, <1>3, FS_EmptySet DEF FavoritesInv, CountsCurrent, FavoritesFinite

\* What a session has counted stays true while it holds the users lock.
LEMMA NextCounts ==
  ASSUME Types, CountsCurrent, [MembersNext]_memberVars
  PROVE  CountsCurrent'
<1> SUFFICES ASSUME backend' = "supabase", NEW q \in Procs,
                    request'[q].op \in FavoriteOps, request'[q].at = "locked"
             PROVE  /\ userLock'[request'[q].user] = q
                    /\ FavoritesOf(favView'[q], request'[q].user) = FavoritesOf(favorites', request'[q].user)
  BY DEF CountsCurrent
<1>1. /\ request \in [Procs -> Request] /\ Fits(request[q])
      /\ favView \in [Procs -> [FavoriteIds -> FavoriteRow]]
      /\ userLock \in [UserPks -> Procs \cup {None}]
  BY DEF Types, MembersTypeOK, IdentitiesTypeOK, FavoritesTypeOK, RequestsFit
<1>2. backend = "supabase"
  BY BackendStays
<1>3. CASE Kept(q)
  <2>1. PICK u \in UserPks : u = request[q].user
    BY <1>1, <1>3 DEF Kept, Fits, FavoriteOps
  <2>2. /\ userLock[u] = q /\ FavoritesOf(favView[q], u) = FavoritesOf(favorites, u)
        /\ request'[q].user = u /\ userLock'[u] = q
    BY <1>2, <1>3, <2>1 DEF Kept, CountsCurrent
  <2>3. ASSUME NEW p \in Procs, Changing(p, u)
        PROVE  FALSE
    <3>1. p = q
      BY <1>2, <2>2, <2>3 DEF Changing, CountsCurrent
    <3> QED
      BY <2>3, <3>1 DEF Changing, Idle
  <2>4. FavoritesOf(favorites', u) = FavoritesOf(favorites, u)
    BY <1>2, <2>3, FavoritesWritten
  <2> QED
    BY <1>3, <2>2, <2>4 DEF Kept
<1>4. CASE LockUser(q) /\ UNCHANGED carVars
  <2>1. PICK u \in UserPks : u = request[q].user
    BY <1>1, <1>4 DEF LockUser, Fits
  <2>2. /\ request' = [request EXCEPT ![q].at = "locked"]
        /\ userLock' = [userLock EXCEPT ![u] = q]
        /\ favView' = [favView EXCEPT ![q] = favorites] /\ favorites' = favorites
    BY <1>2, <1>4, <2>1 DEF LockUser
  <2>3. request'[q].user = u /\ userLock'[u] = q /\ favView'[q] = favorites'
    BY <1>1, <2>1, <2>2 DEF Request
  <2> QED
    BY <2>3
<1>5. CASE PickCars(q) \/ LockPicked(q) \/ LockIndex(q)
  <2>1. request[q].op \in ChoiceOps /\ request'[q].op = request[q].op
    BY <1>1, <1>5 DEF PickCars, LockPicked, LockIndex, Locks, ChoiceOps, MoveTo, Fits, Request
  <2> QED
    BY <2>1 DEF ChoiceOps, FavoriteOps
<1> QED
  BY <1>3, <1>4, <1>5, SlotSteps DEF Over, Arrives, Idle

LEMMA NextFavorites == Types /\ FavoritesInv /\ [MembersNext]_memberVars => FavoritesInv'
<1> SUFFICES ASSUME Types, FavoritesInv, [MembersNext]_memberVars
             PROVE  FavoritesInv'
  OBVIOUS
<1>1. CountsCurrent /\ FavoritesFinite /\ FavoritesWithinLimit /\ CountsCurrent'
  BY NextCounts DEF FavoritesInv
<1>2. ASSUME NEW u \in UserPks
      PROVE  /\ IsFiniteSet(FavoritesOf(favorites', u))
             /\ backend = "supabase" => Cardinality(FavoritesOf(favorites', u)) <= MaxFavorites
  <2> DEFINE old == FavoritesOf(favorites, u)
             new == FavoritesOf(favorites', u)
  <2>1. IsFiniteSet(old) /\ (backend = "supabase" => Cardinality(old) <= MaxFavorites)
    BY <1>1 DEF FavoritesFinite, FavoritesWithinLimit
  <2>2. Cardinality(old) \in Nat /\ MaxFavorites \in Nat
    BY <2>1, FS_CardinalityType, FavoritesAssumption
  <2>3. CASE new \subseteq old
    <3> HIDE DEF new, old
    <3>1. IsFiniteSet(new) /\ Cardinality(new) <= Cardinality(old)
      BY <2>1, <2>3, FS_Subset
    <3>2. Cardinality(new) \in Nat
      BY <3>1, FS_CardinalityType
    <3> QED
      BY <2>1, <2>2, <3>1, <3>2 DEF new
  <2>4. ASSUME NEW p \in Procs, NEW i \in FavoriteIds, Changing(p, u),
               FavoriteCount(p) < MaxFavorites, new = old \cup {i}
        PROVE  IsFiniteSet(new) /\ (backend = "supabase" => Cardinality(new) <= MaxFavorites)
    <3>1. backend = "supabase" => Cardinality(old) < MaxFavorites
      BY <1>1, <2>4 DEF Changing, CountsCurrent, FavoriteCount
    <3> HIDE DEF new, old
    <3>2. /\ IsFiniteSet(new)
          /\ Cardinality(new) = Cardinality(old) \/ Cardinality(new) = Cardinality(old) + 1
      BY <2>1, <2>4, FS_AddElement
    <3> QED
      BY <2>2, <3>1, <3>2
  <2> QED
    BY <1>1, <2>3, <2>4, FavoritesWritten
<1>3. UNCHANGED backend
  BY BackendStays
<1> QED
  BY <1>1, <1>2, <1>3 DEF FavoritesInv, FavoritesFinite, FavoritesWithinLimit

\* On Postgres a member never has more favourites than the limit, however many
\* registrations run at once (toggle_favorite, add_favorite).
THEOREM WithinLimit == MembersSpec => []FavoritesWithinLimit
<1>1. FavoritesInv => FavoritesWithinLimit
  BY DEF FavoritesInv
<1> QED
  BY <1>1, InitFavorites, NextFavorites, TypesCorrect, PTL DEF MembersSpec

----------------------------------------------------------------------------
(* The one primary car on MariaDB.                                         *)

\* Which cars of a member there are, which are active and which are primary.
SameCars(v) ==
    \A c \in CarIds :
      /\ cars'[c].user = v => cars[c].user = v
      /\ c \in ActiveOf(cars', v) <=> c \in ActiveOf(cars, v)
      /\ c \in PrimariesOf(cars', v) <=> c \in PrimariesOf(cars, v)

\* What a handler reads of its own picks once it writes.
LEMMA PickedRows ==
  ASSUME Types, ViewsEmpty, PicksCurrent, backend = "local", NEW p \in Procs
  PROVE  /\ CreateCar(p) => Picked(carView[p], p) =
               IF request[p].item THEN PrimariesOf(cars, request[p].user) ELSE {}
         /\ SetPrimaryCar(p) =>
              /\ ActiveOf(carView[p], request[p].user) = ActiveOf(cars, request[p].user)
              /\ carLock[request[p].item] = p
<1>1. ASSUME CreateCar(p), request[p].item
      PROVE  Picked(carView[p], p) = PrimariesOf(cars, request[p].user)
  <2>1. request[p].op = "register" /\ request[p].at = "locked"
    BY <1>1 DEF CreateCar
  <2>2. Picked(carView[p], p) = Picked(cars, p)
    BY <2>1 DEF PicksCurrent, ChoiceOps
  <2> QED
    BY <2>1, <2>2 DEF Picked
<1>2. ASSUME CreateCar(p), ~request[p].item
      PROVE  Picked(carView[p], p) = {}
  <2>1. request[p].op = "register" /\ request[p].at = "begun"
    BY <1>2 DEF CreateCar
  <2>2. carView[p] = NoCars
    BY <2>1 DEF ViewsEmpty
  <2> QED
    BY <2>1, <2>2 DEF Picked, PrimariesOf, ActiveOf, NoCars, NoCar
<1>3. ASSUME SetPrimaryCar(p)
      PROVE  /\ ActiveOf(carView[p], request[p].user) = ActiveOf(cars, request[p].user)
             /\ carLock[request[p].item] = p
  <2>1. /\ request[p].op \in {"choose", "unchoose"} /\ request[p].at = "locked"
        /\ request[p].item \in ActiveOf(carView[p], request[p].user)
    BY <1>3 DEF SetPrimaryCar
  <2>2. /\ Picked(carView[p], p) = Picked(cars, p)
        /\ \A c \in CarsOf(request[p].user) : carLock[c] = p
    BY <2>1 DEF PicksCurrent, ChoiceOps
  <2>3. ActiveOf(carView[p], request[p].user) = ActiveOf(cars, request[p].user)
    BY <2>1, <2>2 DEF Picked
  <2> QED
    BY <2>1, <2>2, <2>3 DEF ActiveOf, CarsOf
<1>4. CreateCar(p) => request[p].item \in BOOLEAN
  BY DEF CreateCar, Types, RequestsFit, Fits
<1> QED
  BY <1>1, <1>2, <1>3, <1>4

\* A handler changes the cars of its own member only.
LEMMA CarsWritten ==
  ASSUME Types, ViewsEmpty, PicksCurrent, backend = "local", [MembersNext]_memberVars,
         NEW v \in UserPks
  PROVE  \/ SameCars(v)
         \/ \E p \in Procs : \/ (CreateCar(p) \/ SetPrimaryCar(p)) /\ request[p].user = v
                             \/ SoftDeleteCar(p) /\ cars[request[p].item].user = v
<1>1. cars \in [CarIds -> CarRow]
  BY DEF Types, MembersTypeOK, CarsTypeOK
<1>2. CASE UNCHANGED cars
  BY <1>2 DEF SameCars
<1>3. ASSUME NEW p \in Procs, CreateCar(p), request[p].user # v
      PROVE  SameCars(v)
  <2>1. PICK u : u = request[p].user
    OBVIOUS
  <2> DEFINE primary == request[p].item
             picked == Picked(carView[p], p)
  <2>2. PICK b \in CarIds, plate \in Plates :
          /\ cars[b].state = "none"
          /\ cars' = [d \in CarIds |->
               IF d = b THEN [state |-> "active", user |-> u, primary |-> primary, plate |-> plate]
               ELSE IF d \in picked THEN [cars[d] EXCEPT !.primary = FALSE] ELSE cars[d]]
    BY <1>3, <2>1 DEF CreateCar
  <2>3. \A d \in picked : cars[d].user = u
    <3>1. picked = IF primary THEN PrimariesOf(cars, u) ELSE {}
      BY <1>3, <2>1, PickedRows
    <3> HIDE DEF picked, primary
    <3> QED
      BY <3>1 DEF PrimariesOf, ActiveOf
  <2> HIDE DEF picked, primary
  <2> SUFFICES ASSUME NEW c \in CarIds
               PROVE  /\ cars'[c].user = v => cars[c].user = v
                      /\ c \in ActiveOf(cars', v) <=> c \in ActiveOf(cars, v)
                      /\ c \in PrimariesOf(cars', v) <=> c \in PrimariesOf(cars, v)
    BY DEF SameCars
  <2>4. CASE c = b
    BY <1>3, <2>1, <2>2, <2>4 DEF ActiveOf, PrimariesOf
  <2>5. CASE c # b /\ c \in picked
    <3>1. cars[c].user # v
      BY <1>3, <2>1, <2>3, <2>5
    <3>2. cars'[c] = [cars[c] EXCEPT !.primary = FALSE]
      BY <2>2, <2>5
    <3>3. cars'[c].user = cars[c].user
      BY <1>1, <3>2 DEF CarRow
    <3> QED
      BY <3>1, <3>3 DEF ActiveOf, PrimariesOf
  <2>6. CASE c # b /\ c \notin picked
    <3>1. cars'[c] = cars[c]
      BY <2>2, <2>6
    <3> QED
      BY <3>1 DEF ActiveOf, PrimariesOf
  <2> QED
    BY <2>4, <2>5, <2>6
<1>4. ASSUME NEW p \in Procs, SetPrimaryCar(p), request[p].user # v
      PROVE  SameCars(v)
  <2>1. PICK target \in CarIds : target = request[p].item
    BY <1>4 DEF SetPrimaryCar, Types, RequestsFit, Fits, RowOps
  <2> DEFINE mine == ActiveOf(carView[p], request[p].user)
  <2>2. target \in mine /\ \A c \in mine : cars[c].user # v
    BY <1>4, <2>1, PickedRows DEF SetPrimaryCar, ActiveOf
  <2>3. \A c \in CarIds : cars'[c] = cars[c] \/ (c \in mine /\ cars'[c].user = cars[c].user)
    <3> SUFFICES ASSUME NEW c \in CarIds
                 PROVE  cars'[c] = cars[c] \/ (c \in mine /\ cars'[c].user = cars[c].user)
      OBVIOUS
    <3>1. \/ cars'[c] = cars[c]
          \/ c \in mine /\ \E b \in BOOLEAN : cars'[c] = [cars[c] EXCEPT !.primary = b]
      BY <1>4, <2>1, <2>2 DEF SetPrimaryCar
    <3> HIDE DEF mine
    <3> QED
      BY <1>1, <3>1 DEF CarRow
  <2> HIDE DEF mine
  <2> QED
    BY <2>2, <2>3 DEF SameCars, ActiveOf, PrimariesOf
<1>5. ASSUME NEW p \in Procs, UpdateCar(p)
      PROVE  SameCars(v)
  <2>1. PICK c \in CarIds : \E plate : cars' = [cars EXCEPT ![c].plate = plate]
    <3>1. request[p].item \in CarIds
      BY <1>5 DEF UpdateCar, At, Types, RequestsFit, Fits, RowOps
    <3> QED
      BY <1>5, <3>1 DEF UpdateCar
  <2>2. \A d \in CarIds : /\ cars'[d].user = cars[d].user /\ cars'[d].state = cars[d].state
                          /\ cars'[d].primary = cars[d].primary
    BY <1>1, <2>1 DEF CarRow
  <2> QED
    BY <2>2 DEF SameCars, ActiveOf, PrimariesOf
<1>6. ASSUME NEW p \in Procs, SoftDeleteCar(p), cars[request[p].item].user # v
      PROVE  SameCars(v)
  <2>1. PICK c \in CarIds : c = request[p].item
    BY <1>6 DEF SoftDeleteCar, At, Types, RequestsFit, Fits, RowOps
  <2>2. PICK primary :
          cars' = [cars EXCEPT ![c].state = "deleted", ![c].primary = primary]
    BY <1>6, <2>1 DEF SoftDeleteCar
  <2>3. /\ cars'[c].user = cars[c].user /\ cars[c].user # v
        /\ \A d \in CarIds : d # c => cars'[d] = cars[d]
    BY <1>1, <1>6, <2>1, <2>2 DEF CarRow
  <2> QED
    BY <2>3 DEF SameCars, ActiveOf, PrimariesOf
<1> QED
  BY <1>2, <1>3, <1>4, <1>5, <1>6
  DEF MembersNext, CarStep, BeginCar, PickCars, LockPicked, LockIndex, BeginCarRow, FailRequest,
      carVars, memberVars

CarsInv == ViewsEmpty /\ PicksCurrent /\ PrimaryAlone

LEMMA InitCars == MembersInit => CarsInv
  BY DEF MembersInit, IdentitiesInit, CarsInit, Idle, CarsInv, ViewsEmpty, PicksCurrent, PrimaryAlone,
         PrimariesOf, ActiveOf, NoCars, NoCar

\* A handler that is over, or has not locked yet, holds no picked rows.
LEMMA NextViews ==
  ASSUME Types, ViewsEmpty, [MembersNext]_memberVars
  PROVE  ViewsEmpty'
<1> SUFFICES ASSUME NEW q \in Procs
             PROVE  \/ carView'[q] = NoCars
                    \/ request'[q].op \in {"edit", "delete"}
                    \/ request'[q].op \in ChoiceOps /\ request'[q].at \in {"matched", "locked"}
  BY DEF ViewsEmpty, NoCars, NoCar
<1>1. request \in [Procs -> Request] /\ Fits(request[q])
  BY DEF Types, RequestsFit
<1>2. CASE Kept(q) \/ Over(q) \/ Arrives(q)
  BY <1>2 DEF Kept, Over, Arrives, ViewsEmpty, Idle, ChoiceOps
<1>3. CASE LockUser(q) /\ UNCHANGED carVars
  BY <1>3 DEF LockUser, carVars, ViewsEmpty, ChoiceOps
<1>4. CASE PickCars(q) \/ LockPicked(q) \/ LockIndex(q)
  <2>1. request[q].op \in ChoiceOps
    BY <1>1, <1>4 DEF PickCars, LockPicked, LockIndex, Locks, ChoiceOps, Fits
  <2>2. request'[q].op = request[q].op /\ request'[q].at \in {"matched", "locked"}
    BY <1>1, <1>4 DEF PickCars, LockPicked, LockIndex, MoveTo, Request
  <2> QED
    BY <2>1, <2>2
<1> QED
  BY <1>2, <1>3, <1>4, SlotSteps

\* Nobody changes the cars of a member whose cars and gap are held.
LEMMA NextPicks ==
  ASSUME Types, ViewsEmpty, PicksCurrent, [MembersNext]_memberVars
  PROVE  PicksCurrent'
<1> SUFFICES ASSUME backend' = "local", NEW q \in Procs,
                    request'[q].op \in ChoiceOps, request'[q].at = "locked"
             PROVE  (LET u == request[q].user IN
                     /\ q \in gapLock[u]
                     /\ \A c \in CarsOf(u) : carLock[c] = q
                     /\ Picked(carView[q], q) = Picked(cars, q))'
  BY DEF PicksCurrent
<1>1. /\ request \in [Procs -> Request] /\ Fits(request[q]) /\ cars \in [CarIds -> CarRow]
      /\ carView \in [Procs -> [CarIds -> CarRow]] /\ gapLock \in [UserPks -> SUBSET Procs]
      /\ carLock \in [CarIds -> Procs \cup {None}] /\ q # None
  BY IdentitiesAssumption DEF Types, MembersTypeOK, CarsTypeOK, RequestsFit
<1>2. backend = "local"
  BY BackendStays
<1>3. CASE Kept(q)
  <2>1. PICK u \in UserPks : u = request[q].user
    BY <1>1, <1>3 DEF Kept, Fits, ChoiceOps
  <2>2. /\ q \in gapLock[u] /\ Picked(carView[q], q) = Picked(cars, q)
        /\ \A c \in CarsOf(u) : carLock[c] = q
        /\ request[q].at = "locked"
    BY <1>2, <1>3, <2>1 DEF Kept, PicksCurrent
  <2>3. ASSUME NEW p \in Procs, End(p)
        PROVE  p # q
    BY <1>1, <1>3, <2>2, <2>3 DEF End, Kept, Idle
  <2>4. ASSUME NEW p \in Procs, CreateCar(p), request[p].user = u
        PROVE  FALSE
    BY <2>2, <2>3, <2>4 DEF CreateCar, GapFree
  <2>5. ASSUME NEW p \in Procs, SetPrimaryCar(p), request[p].user = u
        PROVE  FALSE
    <3>1. /\ carLock[request[p].item] = p
          /\ ActiveOf(carView[p], request[p].user) = ActiveOf(cars, request[p].user)
      BY <1>2, <2>5, PickedRows
    <3>2. request[p].item \in CarsOf(u)
      BY <2>5, <3>1 DEF SetPrimaryCar, ActiveOf, CarsOf
    <3> QED
      BY <2>2, <2>3, <2>5, <3>1, <3>2 DEF SetPrimaryCar
  <2>6. ASSUME NEW p \in Procs, SoftDeleteCar(p), cars[request[p].item].user = u
        PROVE  FALSE
    <3>1. request[p].item \in CarsOf(u)
      BY <2>6 DEF SoftDeleteCar, At, Types, RequestsFit, Fits, RowOps, CarsOf
    <3> QED
      BY <1>1, <2>2, <2>3, <2>6, <3>1 DEF SoftDeleteCar, Free
  <2>7. SameCars(u)
    BY <1>2, <2>4, <2>5, <2>6, CarsWritten
  <2>8. /\ request'[q].user = u /\ request'[q].op = request[q].op /\ carView'[q] = carView[q]
        /\ q \in gapLock'[u] /\ \A c \in CarIds : carLock[c] = q => carLock'[c] = q
    BY <1>3, <2>1, <2>2 DEF Kept
  <2>9. \A c \in CarsOf(u)' : carLock'[c] = q
    BY <2>2, <2>7, <2>8 DEF SameCars, CarsOf
  <2>10. ActiveOf(cars', u) = ActiveOf(cars, u) /\ PrimariesOf(cars', u) = PrimariesOf(cars, u)
    BY <2>7 DEF SameCars, ActiveOf, PrimariesOf
  <2>11. (Picked(carView[q], q) = Picked(cars, q))'
    BY <2>1, <2>2, <2>8, <2>10 DEF Picked
  <2> QED
    BY <2>8, <2>9, <2>11 DEF CarsOf
<1>4. CASE LockIndex(q)
  <2>1. PICK u \in UserPks : u = request[q].user
    BY <1>1, <1>4 DEF LockIndex, Locks, Fits
  <2> DEFINE picked == Picked(cars, q)
  <2>2. /\ request' = [request EXCEPT ![q].at = "locked"] /\ cars' = cars
        /\ carLock' = [c \in CarIds |-> IF c \in CarsOf(u) THEN q ELSE carLock[c]]
        /\ gapLock' = [gapLock EXCEPT ![u] = @ \cup {q}]
        /\ carView' = [carView EXCEPT ![q] =
             [c \in CarIds |-> IF c \in picked THEN cars[c] ELSE NoCar]]
    BY <1>4, <2>1 DEF LockIndex, MoveTo
  <2>3. request'[q].user = u /\ request'[q].op = request[q].op
    BY <1>1, <2>1, <2>2 DEF Request
  <2>4. q \in gapLock'[u] /\ \A c \in CarsOf(u)' : carLock'[c] = q
    BY <1>1, <2>2 DEF CarsOf
  <2>5. carView'[q] = [c \in CarIds |-> IF c \in picked THEN cars[c] ELSE NoCar]
    BY <1>1, <2>2
  <2>6. Picked(carView'[q], q) = picked
    <3>1. CASE request[q].op = "register"
      <4>1. picked = PrimariesOf(cars, u)
        BY <2>1, <3>1 DEF Picked
      <4> HIDE DEF picked
      <4>2. PrimariesOf(carView'[q], u) = picked
        BY <2>5, <4>1 DEF PrimariesOf, ActiveOf, NoCar
      <4> QED
        BY <2>1, <3>1, <4>2 DEF Picked
    <3>2. CASE request[q].op # "register"
      <4>1. picked = ActiveOf(cars, u)
        BY <2>1, <3>2 DEF Picked
      <4> HIDE DEF picked
      <4>2. ActiveOf(carView'[q], u) = picked
        BY <2>5, <4>1 DEF ActiveOf, NoCar
      <4> QED
        BY <2>1, <3>2, <4>2 DEF Picked
    <3> QED
      BY <3>1, <3>2
  <2>7. (Picked(carView[q], q) = Picked(cars, q))'
    BY <2>1, <2>2, <2>3, <2>6 DEF Picked
  <2> QED
    BY <2>3, <2>4, <2>7 DEF CarsOf
<1>5. ~(LockUser(q) /\ UNCHANGED carVars) /\ ~PickCars(q) /\ ~LockPicked(q)
  BY <1>1, <1>2 DEF LockUser, PickCars, LockPicked, Fits, ChoiceOps, Request
<1> QED
  BY <1>3, <1>4, <1>5, SlotSteps DEF Over, Arrives, Idle

\* A registration or a choice leaves one primary car; nothing else adds one.
LEMMA NextAlone ==
  ASSUME Types, CarsInv, [MembersNext]_memberVars
  PROVE  PrimaryAlone'
<1> SUFFICES ASSUME backend = "local", NEW u \in UserPks, NEW c \in CarIds, NEW d \in CarIds,
                    c \in PrimariesOf(cars', u), d \in PrimariesOf(cars', u)
             PROVE  c = d
  BY BackendStays DEF PrimaryAlone, PrimariesOf, ActiveOf
<1>1. /\ cars \in [CarIds -> CarRow] /\ ViewsEmpty /\ PicksCurrent
      /\ \A a, b \in PrimariesOf(cars, u) : a = b
  BY DEF Types, MembersTypeOK, CarsTypeOK, CarsInv, PrimaryAlone
<1>2. CASE SameCars(u)
  BY <1>1, <1>2 DEF SameCars
<1>3. ASSUME NEW p \in Procs, CreateCar(p), request[p].user = u
      PROVE  c = d
  <2> DEFINE primary == request[p].item
             picked == Picked(carView[p], p)
  <2>1. PICK b \in CarIds, plate \in Plates :
          cars' = [e \in CarIds |->
               IF e = b THEN [state |-> "active", user |-> u, primary |-> primary, plate |-> plate]
               ELSE IF e \in picked THEN [cars[e] EXCEPT !.primary = FALSE] ELSE cars[e]]
    BY <1>3 DEF CreateCar
  <2>2. picked = IF primary THEN PrimariesOf(cars, u) ELSE {}
    BY <1>1, <1>3, PickedRows
  <2> HIDE DEF picked, primary
  <2>3. ASSUME NEW e \in CarIds, e \in PrimariesOf(cars', u), e # b
        PROVE  e \in PrimariesOf(cars, u) /\ ~primary
    <3>1. e \notin picked
      <4>1. e \in picked => cars'[e] = [cars[e] EXCEPT !.primary = FALSE]
        BY <2>1, <2>3
      <4> QED
        BY <1>1, <2>3, <4>1 DEF PrimariesOf, CarRow
    <3>2. cars'[e] = cars[e]
      BY <2>1, <2>3, <3>1
    <3> QED
      BY <2>2, <2>3, <3>1, <3>2 DEF PrimariesOf, ActiveOf
  <2>4. ~primary => b \notin PrimariesOf(cars', u)
    BY <2>1 DEF PrimariesOf
  <2> QED
    BY <1>1, <2>3, <2>4
<1>4. ASSUME NEW p \in Procs, SetPrimaryCar(p), request[p].user = u
      PROVE  c = d
  <2>1. PICK target \in CarIds : target = request[p].item
    BY <1>4 DEF SetPrimaryCar, Types, RequestsFit, Fits, RowOps
  <2> DEFINE mine == ActiveOf(carView[p], request[p].user)
             choose == request[p].op = "choose"
  <2>2. mine = ActiveOf(cars, u) /\ target \in mine
    BY <1>1, <1>4, <2>1, PickedRows DEF SetPrimaryCar
  <2>3. cars' = [e \in CarIds |->
             IF choose /\ e \in mine THEN [cars[e] EXCEPT !.primary = (e = target)]
             ELSE IF e = target THEN [cars[e] EXCEPT !.primary = FALSE]
             ELSE cars[e]]
    BY <1>4, <2>1 DEF SetPrimaryCar
  <2> HIDE DEF mine, choose
  <2>4. ASSUME NEW e \in CarIds, e \in PrimariesOf(cars', u)
        PROVE  IF choose THEN e = target ELSE e \in PrimariesOf(cars, u)
    <3>1. CASE choose /\ e \in mine
      <4>1. cars'[e] = [cars[e] EXCEPT !.primary = (e = target)]
        BY <2>3, <3>1
      <4>2. cars'[e].primary = (e = target)
        BY <1>1, <4>1 DEF CarRow
      <4> QED
        BY <2>4, <3>1, <4>2 DEF PrimariesOf
    <3>2. CASE ~(choose /\ e \in mine) /\ e = target
      <4>1. cars'[e] = [cars[e] EXCEPT !.primary = FALSE]
        BY <2>3, <3>2
      <4>2. ~cars'[e].primary
        BY <1>1, <4>1 DEF CarRow
      <4> QED
        BY <2>4, <4>2 DEF PrimariesOf
    <3>3. CASE ~(choose /\ e \in mine) /\ e # target
      <4>1. cars'[e] = cars[e]
        BY <2>3, <3>3
      <4>2. e \in PrimariesOf(cars, u) /\ e \in mine
        BY <2>2, <2>4, <4>1 DEF PrimariesOf, ActiveOf
      <4> QED
        BY <3>3, <4>2
    <3> QED
      BY <3>1, <3>2, <3>3
  <2> QED
    BY <1>1, <2>4
<1>5. ASSUME NEW p \in Procs, SoftDeleteCar(p)
      PROVE  c = d
  <2>1. PICK b \in CarIds : b = request[p].item
    BY <1>5 DEF SoftDeleteCar, At, Types, RequestsFit, Fits, RowOps
  <2>2. PICK primary :
          cars' = [cars EXCEPT ![b].state = "deleted", ![b].primary = primary]
    BY <1>5, <2>1 DEF SoftDeleteCar
  <2>3. cars'[b].state = "deleted" /\ \A e \in CarIds : e # b => cars'[e] = cars[e]
    BY <1>1, <2>2 DEF CarRow
  <2>4. c \in PrimariesOf(cars, u) /\ d \in PrimariesOf(cars, u)
    BY <2>3 DEF PrimariesOf, ActiveOf
  <2> QED
    BY <1>1, <2>4
<1> QED
  BY <1>1, <1>2, <1>3, <1>4, <1>5, CarsWritten

\* On MariaDB a member has at most one primary car, whatever registrations and
\* choices run at once (create_car, set_primary_car).
THEOREM PrimaryOnMariaDB == MembersSpec => []OnePrimaryOnMariaDB
<1>1. Types /\ CarsInv /\ [MembersNext]_memberVars => CarsInv'
  BY NextViews, NextPicks, NextAlone DEF CarsInv
<1>2. CarsInv => OnePrimaryOnMariaDB
  <2> SUFFICES ASSUME CarsInv, backend = "local", NEW u \in UserPks
               PROVE  Cardinality(PrimariesOf(cars, u)) <= 1
    BY DEF OnePrimaryOnMariaDB, OnePrimary
  <2> DEFINE primaries == PrimariesOf(cars, u)
  <2>1. \A c, d \in primaries : c = d
    BY DEF CarsInv, PrimaryAlone
  <2> HIDE DEF primaries
  <2>2. CASE primaries = {}
    BY <2>2, FS_EmptySet DEF primaries
  <2>3. CASE \E c : c \in primaries
    <3>1. PICK c : primaries = {c}
      BY <2>1, <2>3
    <3> QED
      BY <3>1, FS_Singleton DEF primaries
  <2> QED
    BY <2>2, <2>3
<1> QED
  BY <1>1, <1>2, InitCars, TypesCorrect, PTL DEF MembersSpec
=============================================================================
