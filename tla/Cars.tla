--------------------------------- MODULE Cars ---------------------------------
(***************************************************************************)
(* A member's cars, at most one of them the primary one.  set_primary_car  *)
(* locks the member's active cars; create_car clears the primary flag with *)
(* one UPDATE and inserts; update_car and soft_delete_car load a row and   *)
(* write it back by primary key.                                           *)
(*                                                                         *)
(* On "supabase" a locking statement picks its rows from what is committed *)
(* when it starts, waits for their locks, and looks at each again: rows    *)
(* inserted meanwhile are neither seen nor kept out.  On "local" it works  *)
(* on the latest rows and locks every index entry of the member with the   *)
(* gap around it, so that nobody else inserts a car of that member; a gap  *)
(* that holds no row yet can be locked by several sessions.                *)
(***************************************************************************)
EXTENDS Identities

CONSTANTS
    CarIds,     \* primary keys of cars, each given out once
    Plates      \* what car_number, charging_port and custom_model_name hold

ASSUME CarsAssumption == None \notin CarIds \cup Plates

VARIABLES
    cars,       \* the cars table
    carLock,    \* session that holds the row lock of a car
    gapLock,    \* sessions that hold the gap of a member's cars ("local")
    carView     \* rows a session has picked or loaded

carVars == <<cars, carLock, gapLock, carView>>

CarRow == [state: {"none", "active", "deleted"}, user: UserPks \cup {None},
           primary: BOOLEAN, plate: Plates \cup {None}]
NoCar == [state |-> "none", user |-> None, primary |-> FALSE, plate |-> None]
NoCars == [c \in CarIds |-> NoCar]

CarsInit ==
    /\ cars = NoCars
    /\ carLock = [c \in CarIds |-> None]
    /\ gapLock = [u \in UserPks |-> {}]
    /\ carView = [p \in Procs |-> NoCars]

LeaveCars(p) ==
    /\ carLock' = [c \in CarIds |-> IF carLock[c] = p THEN None ELSE carLock[c]]
    /\ gapLock' = [u \in UserPks |-> gapLock[u] \ {p}]
    /\ carView' = [carView EXCEPT ![p] = NoCars]

CarsOf(u) == {c \in CarIds : cars[c].user = u}
ActiveOf(rows, u) == {c \in CarIds : rows[c].state = "active" /\ rows[c].user = u}
PrimariesOf(rows, u) == {c \in ActiveOf(rows, u) : rows[c].primary}

Free(p, c) == carLock[c] \in {None, p}
GapFree(p, u) == gapLock[u] \subseteq {p}

----------------------------------------------------------------------------
(* Locking statements of create_car (_clear_primary) and set_primary_car.  *)

BeginCar(p) ==
    \/ \E op \in {"choose", "unchoose"}, c \in CarIds :
         cars[c].state # "none" /\ Begin(p, op, c) /\ UNCHANGED carVars
    \/ \E primary \in BOOLEAN : Begin(p, "register", primary) /\ UNCHANGED carVars

\* What set_primary_car does first, and create_car for a primary car.
Locks(p) == \/ request[p].op \in {"choose", "unchoose"}
            \/ request[p].op = "register" /\ request[p].item

\* The rows its WHERE picks.
Picked(rows, p) ==
    IF request[p].op = "register" THEN PrimariesOf(rows, request[p].user)
                                  ELSE ActiveOf(rows, request[p].user)

\* Postgres: the statement starts.
PickCars(p) ==
    /\ backend = "supabase" /\ request[p].at = "begun" /\ Locks(p)
    /\ MoveTo(p, "matched")
    /\ carView' = [carView EXCEPT ![p] =
         [c \in CarIds |-> IF c \in Picked(cars, p) THEN cars[c] ELSE NoCar]]
    /\ UNCHANGED <<cars, carLock, gapLock>>

\* ... and has every lock it waited for; rows that no longer match drop out.
LockPicked(p) ==
    LET mine == Picked(carView[p], p) \cap Picked(cars, p) IN
    /\ request[p].at = "matched"
    /\ \A c \in Picked(carView[p], p) : Free(p, c)
    /\ carLock' = [c \in CarIds |-> IF c \in mine THEN p ELSE carLock[c]]
    /\ carView' = [carView EXCEPT ![p] =
         [c \in CarIds |-> IF c \in mine THEN cars[c] ELSE NoCar]]
    /\ MoveTo(p, "locked")
    /\ UNCHANGED <<cars, gapLock>>

\* A slip: MariaDB run at READ COMMITTED takes no gap locks.
LockRowsOnly(p) ==
    LET u == request[p].user IN
    /\ backend = "local" /\ request[p].at = "begun" /\ Locks(p)
    /\ \A c \in CarsOf(u) : Free(p, c)
    /\ carLock' = [c \in CarIds |-> IF c \in CarsOf(u) THEN p ELSE carLock[c]]
    /\ carView' = [carView EXCEPT ![p] =
         [c \in CarIds |-> IF c \in Picked(cars, p) THEN cars[c] ELSE NoCar]]
    /\ MoveTo(p, "locked")
    /\ UNCHANGED <<cars, gapLock>>

\* MariaDB: every car of the member, and the gap.
LockIndex(p) ==
    LET u == request[p].user IN
    /\ backend = "local" /\ request[p].at = "begun" /\ Locks(p)
    /\ \A c \in CarsOf(u) : Free(p, c)
    /\ carLock' = [c \in CarIds |-> IF c \in CarsOf(u) THEN p ELSE carLock[c]]
    /\ gapLock' = [gapLock EXCEPT ![u] = @ \cup {p}]
    /\ carView' = [carView EXCEPT ![p] =
         [c \in CarIds |-> IF c \in Picked(cars, p) THEN cars[c] ELSE NoCar]]
    /\ MoveTo(p, "locked")
    /\ UNCHANGED cars

----------------------------------------------------------------------------
(* What the handlers write.                                                *)

\* create_car: the cleared flags and the new row are committed together.  The
\* INSERT waits for the users row it refers to, and for the gap.
CreateCar(p) ==
    LET u == request[p].user IN
    /\ request[p].op = "register"
    /\ request[p].at = IF request[p].item THEN "locked" ELSE "begun"
    /\ ~Locked(u) /\ GapFree(p, u)
    /\ \E c \in CarIds, plate \in Plates :
         /\ cars[c].state = "none" /\ c = NextKey({d \in CarIds : cars[d].state = "none"})
         /\ cars' = [d \in CarIds |->
              IF d = c THEN [state |-> "active", user |-> u,
                             primary |-> request[p].item, plate |-> plate]
              ELSE IF d \in Picked(carView[p], p) THEN [cars[d] EXCEPT !.primary = FALSE]
              ELSE cars[d]]
    /\ End(p) /\ LeaveCars(p) /\ UNCHANGED <<users, tokens>>

\* set_primary_car: only flags that differ are written.  A car that is not
\* among the locked ones is 404.
SetPrimaryCar(p) ==
    LET target == request[p].item
        mine == ActiveOf(carView[p], request[p].user)
    IN  /\ request[p].at = "locked" /\ request[p].op \in {"choose", "unchoose"}
        /\ target \in mine
        /\ cars' = [c \in CarIds |->
             IF request[p].op = "choose" /\ c \in mine
               THEN [cars[c] EXCEPT !.primary = (c = target)]
             ELSE IF c = target THEN [cars[c] EXCEPT !.primary = FALSE]
             ELSE cars[c]]
        /\ End(p) /\ LeaveCars(p) /\ UNCHANGED <<users, tokens>>

\* update_car and soft_delete_car load an active car of the member, from the
\* snapshot on "local": the SELECT follows authentication at once.
BeginCarRow(p) ==
    /\ \E op \in {"edit", "delete"}, c \in CarIds :
         /\ Begin(p, op, c)
         /\ c \in ActiveOf(cars, request'[p].user)
         /\ carView' = [carView EXCEPT ![p] =
              [d \in CarIds |-> IF d = c THEN cars[c] ELSE NoCar]]
    /\ UNCHANGED <<cars, carLock, gapLock>>

\* A slip: the row goes back as it was loaded.
SaveCar(p) ==
    LET c == request[p].item IN
    /\ At(p, "edit", "begun") /\ Free(p, c)
    /\ \E plate \in Plates : cars' = [cars EXCEPT ![c] = [carView[p][c] EXCEPT !.plate = plate]]
    /\ End(p) /\ LeaveCars(p) /\ UNCHANGED <<users, tokens>>

UpdateCar(p) ==
    LET c == request[p].item IN
    /\ At(p, "edit", "begun") /\ Free(p, c)
    /\ \E plate \in Plates :
         cars' = [cars EXCEPT ![c].plate = IF plate = carView[p][c].plate THEN @ ELSE plate]
    /\ End(p) /\ LeaveCars(p) /\ UNCHANGED <<users, tokens>>

\* is_primary is in the UPDATE only if it was loaded TRUE.
SoftDeleteCar(p) ==
    LET c == request[p].item IN
    /\ At(p, "delete", "begun") /\ Free(p, c)
    /\ cars' = [cars EXCEPT ![c].state = "deleted",
                            ![c].primary = IF carView[p][c].primary THEN FALSE ELSE @]
    /\ End(p) /\ LeaveCars(p) /\ UNCHANGED <<users, tokens>>

CarStep(p) ==
    \/ BeginCar(p) \/ PickCars(p) \/ LockPicked(p) \/ LockIndex(p)
    \/ CreateCar(p) \/ SetPrimaryCar(p)
    \/ BeginCarRow(p) \/ UpdateCar(p) \/ SoftDeleteCar(p)

----------------------------------------------------------------------------
\* The shape of the cars, of the locks on them and of what sessions loaded.
CarsTypeOK ==
    /\ cars \in [CarIds -> CarRow]
    /\ carLock \in [CarIds -> Procs \cup {None}]
    /\ gapLock \in [UserPks -> SUBSET Procs]
    /\ carView \in [Procs -> [CarIds -> CarRow]]

\* A member has at most one primary car, whatever registrations and choices
\* run at once (create_car, set_primary_car) ...
OnePrimary == \A u \in UserPks : Cardinality(PrimariesOf(cars, u)) <= 1

\* ... as far as MariaDB's gap locks keep other registrations out.
OnePrimaryOnMariaDB == backend = "local" => OnePrimary

\* A late write of a row loaded earlier never undoes a deletion, and never
\* makes a car primary again that another request has replaced (update_car,
\* soft_delete_car): what makes a car primary is a choice or a registration of
\* its own member that has its locks.
CarDecisionsStand ==
    [][\A c \in CarIds :
         /\ cars[c].state = "deleted" => cars'[c].state = "deleted"
         /\ ~cars[c].primary /\ cars'[c].primary =>
              \E p \in Procs : /\ request[p].op \in {"choose", "register"}
                               /\ request[p].at = "locked" /\ request'[p] # request[p]
                               /\ request[p].user = cars'[c].user]_carVars
=============================================================================
