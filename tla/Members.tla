-------------------------------- MODULE Members --------------------------------
(***************************************************************************)
(* Accounts, favourites and cars together: requests of the three share     *)
(* slots, sessions and the users row.                                      *)
(***************************************************************************)
EXTENDS Cars, Favorites

memberVars == <<identityVars, favoriteVars, carVars>>

MembersInit == IdentitiesInit /\ FavoritesInit /\ CarsInit

\* A refusal, an exception, a lock wait that times out or is a deadlock's
\* victim, a lost connection, a killed worker: nothing stays.
FailRequest(p) ==
    /\ request[p] # Idle
    /\ End(p) /\ LeaveFavorites(p) /\ LeaveCars(p)
    /\ UNCHANGED <<users, tokens, favorites, cars>>

MembersNext ==
    \/ (Signup \/ Login) /\ UNCHANGED <<favoriteVars, carVars>>
    \/ \E p \in Procs :
         \/ IdentityStep(p) /\ UNCHANGED <<favoriteVars, carVars>>
         \/ FavoriteStep(p) /\ UNCHANGED carVars
         \/ CarStep(p) /\ UNCHANGED favoriteVars
         \/ FailRequest(p)

MembersSpec == MembersInit /\ [][MembersNext]_memberVars

\* The shape of every table, lock and request.
MembersTypeOK == IdentitiesTypeOK /\ FavoritesTypeOK /\ CarsTypeOK
=============================================================================
