------------------------------- MODULE Favorites -------------------------------
(***************************************************************************)
(* A member's favourite stations (user_favorite_chargers).  toggle, add    *)
(* and remove first take FOR UPDATE on the users row, then read and write; *)
(* the memo update reads and writes without it.                            *)
(***************************************************************************)
EXTENDS Identities

CONSTANTS
    FavoriteIds,   \* primary keys of user_favorite_chargers, each given out once
    Stations,      \* stations that exist
    Memos,         \* memos clients send
    MaxFavorites   \* MAX_FAVORITES

ASSUME FavoritesAssumption ==
    /\ None \notin FavoriteIds \cup Stations \cup Memos
    /\ MaxFavorites \in Nat \ {0}

VARIABLES
    favorites,  \* the rows, by primary key
    favView     \* the rows as a session's plain reads return them

favoriteVars == <<favorites, favView>>

FavoriteRow == [state: {"unused", "kept", "removed"}, user: UserPks \cup {None},
                station: Stations \cup {None}, memo: Memos \cup {None}]
Unregistered == [state |-> "unused", user |-> None, station |-> None, memo |-> None]
Removed == [Unregistered EXCEPT !.state = "removed"]
NoRows == [i \in FavoriteIds |-> Unregistered]

FavoritesInit ==
    /\ favorites = NoRows
    /\ favView = [p \in Procs |-> NoRows]

LeaveFavorites(p) == favView' = [favView EXCEPT ![p] = NoRows]

FavoritesOf(rows, u) == {i \in FavoriteIds : rows[i].state = "kept" /\ rows[i].user = u}
AtStation(rows, u, s) == {i \in FavoritesOf(rows, u) : rows[i].station = s}

\* What a session that holds the users lock reads of its member's favourites.
Registered(p) == AtStation(favView[p], request[p].user, request[p].item)
FavoriteCount(p) == Cardinality(FavoritesOf(favView[p], request[p].user))

----------------------------------------------------------------------------
(* toggle_favorite, add_favorite, remove_favorite.                         *)

\* Authentication fixes the snapshot on "local".  The memo update has no lock
\* to wait for: it goes on to its SELECT, which loads the row.
BeginFavorite(p) ==
    \E op \in {"toggle", "add", "remove", "memo"}, s \in Stations :
       /\ Begin(p, op, s)
       /\ favView' = [favView EXCEPT ![p] =
            IF backend = "local" \/ op = "memo" THEN favorites ELSE NoRows]
       /\ UNCHANGED favorites

\* A slip: the users row is read without FOR UPDATE.
SeeUser(p) ==
    /\ request[p].op \in {"toggle", "add", "remove"} /\ request[p].at = "begun"
    /\ request' = [request EXCEPT ![p].at = "locked"]
    /\ favView' = IF backend = "local" THEN favView ELSE [favView EXCEPT ![p] = favorites]
    /\ UNCHANGED <<backend, traffic, users, tokens, userLock, userView, favorites>>

\* SELECT users.id ... FOR UPDATE, which does not look at is_active again, and
\* the SELECTs that follow it: on "local" they return the older snapshot.
LockUser(p) ==
    LET u == request[p].user IN
    /\ request[p].op \in {"toggle", "add", "remove"} /\ request[p].at = "begun"
    /\ ~Locked(u)
    /\ userLock' = [userLock EXCEPT ![u] = p]
    /\ request' = [request EXCEPT ![p].at = "locked"]
    /\ favView' = IF backend = "local" THEN favView ELSE [favView EXCEPT ![p] = favorites]
    /\ UNCHANGED <<backend, traffic, users, tokens, userView, favorites>>

\* DELETE by primary key: a row that is gone already makes no difference.
Unregister(p) ==
    /\ request[p].op \in {"toggle", "remove"}
    /\ \E i \in Registered(p) : favorites' = [favorites EXCEPT ![i] = Removed]

\* INSERT, within the limit and UNIQUE(user_id, stat_id).
Register(p) ==
    LET u == request[p].user
        s == request[p].item
    IN  /\ request[p].op \in {"toggle", "add"}
        /\ Registered(p) = {} /\ FavoriteCount(p) < MaxFavorites
        /\ AtStation(favorites, u, s) = {}
        /\ \E i \in FavoriteIds, memo \in Memos \cup {None} :
             /\ favorites[i].state = "unused"
             /\ i = NextKey({j \in FavoriteIds : favorites[j].state = "unused"})
             /\ favorites' = [favorites EXCEPT ![i] =
                  [state |-> "kept", user |-> u, station |-> s, memo |-> memo]]

\* The limit, a station that is not registered or registered already, an error:
\* answers that write nothing are the requests that fail.
ChangeFavorite(p) ==
    /\ request[p].at = "locked"
    /\ Unregister(p) \/ Register(p)
    /\ End(p) /\ LeaveFavorites(p)
    /\ UNCHANGED <<users, tokens>>

----------------------------------------------------------------------------
(* update_favorite_memo.                                                   *)

\* A slip: UPDATE ... WHERE user_id AND stat_id.
WriteMemoAtStation(p) ==
    LET u == request[p].user IN
    /\ At(p, "memo", "begun")
    /\ \E i \in AtStation(favView[p], u, request[p].item), memo \in Memos \cup {None} :
         \/ memo = favView[p][i].memo /\ UNCHANGED favorites
         \/ /\ memo # favView[p][i].memo
            /\ favorites' = [j \in FavoriteIds |->
                 IF j \in AtStation(favorites, u, request[p].item)
                   THEN [favorites[j] EXCEPT !.memo = memo] ELSE favorites[j]]
    /\ End(p) /\ LeaveFavorites(p)
    /\ UNCHANGED <<users, tokens>>

\* UPDATE by the primary key it has loaded; no such row any more is an error.
WriteMemo(p) ==
    /\ At(p, "memo", "begun")
    /\ \E i \in AtStation(favView[p], request[p].user, request[p].item),
          memo \in Memos \cup {None} :
         \/ memo = favView[p][i].memo /\ UNCHANGED favorites
         \/ /\ memo # favView[p][i].memo /\ favorites[i].state = "kept"
            /\ favorites' = [favorites EXCEPT ![i].memo = memo]
    /\ End(p) /\ LeaveFavorites(p)
    /\ UNCHANGED <<users, tokens>>

FavoriteStep(p) == BeginFavorite(p) \/ LockUser(p) \/ ChangeFavorite(p) \/ WriteMemo(p)

----------------------------------------------------------------------------
\* The shape of the favourites and of what sessions read of them.
FavoritesTypeOK ==
    /\ favorites \in [FavoriteIds -> FavoriteRow]
    /\ favView \in [Procs -> [FavoriteIds -> FavoriteRow]]

\* However many registrations of one member run at once, the limit holds
\* (toggle_favorite, add_favorite): the count is taken under the users lock.
\* Only on Postgres, where the count sees what was committed before the lock.
FavoritesWithinLimit ==
    backend = "supabase" =>
        \A u \in UserPks : Cardinality(FavoritesOf(favorites, u)) <= MaxFavorites

\* The request that writes a memo has read the registration it writes to: it
\* is not one made later for the same station (update_favorite_memo).
MemoFollowsRegistration ==
    [][\A i \in FavoriteIds :
         /\ favorites[i].state = "kept" /\ favorites'[i].state = "kept"
         /\ favorites'[i].memo # favorites[i].memo
         => \E p \in Procs : /\ request[p].op = "memo" /\ request'[p] # request[p]
                             /\ favView[p][i].state = "kept"]_favoriteVars
=============================================================================
