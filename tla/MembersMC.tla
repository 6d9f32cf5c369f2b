------------------------------- MODULE MembersMC -------------------------------
(***************************************************************************)
(* Bounds and symmetry for model checking Members.                         *)
(***************************************************************************)
EXTENDS Members, TLC

CONSTANTS u1, u2, p1, p2, id1, n1, n2, s1, f1, f2, f3, st1, st2, m1, c1, c2, pl1, pl2

TwoUsers == {u1, u2}
TwoProcs == {p1, p2}
BothBackends == {"local", "supabase"}
Postgres == {"supabase"}

\* A client may type the user id a social account would get.
TypedIds == {id1, <<"social", s1>>}
OneTypedId == {id1}
TwoNicknames == {n1, n2}
OneNickname == {n1}
OneSocial == {s1}

ThreeFavorites == {f1, f2, f3}
TwoStations == {st1, st2}
OneMemo == {m1}
TwoCars == {c1, c2}
TwoPlates == {pl1, pl2}

\* What clients call at the same time: the account itself, favourites, or cars.
Accounting == {"signup", "login", "social", "profile", "withdraw"}
Favouring == {"social", "withdraw", "toggle", "add", "remove", "memo"}
Driving == {"social", "withdraw", "register", "choose", "unchoose", "edit", "delete"}
OneTopic == {Accounting, Favouring, Driving}
OnlyCars == {{"social", "register"}}
OnlySocial == {{"social"}}

Interchangeable ==
    Permutations(Procs) \cup Permutations(Stations) \cup Permutations(Plates)
=============================================================================
