------------------------------ MODULE StatusSync ------------------------------
(***************************************************************************)
(* The collector of charger statuses: scheduled jobs ask the public API    *)
(* which chargers changed within the last Period and upsert the answer     *)
(* into ev_charger_status.                                                 *)
(*                                                                         *)
(* Two jobs run collect_charger_status: the interval job and the one that  *)
(* fires once after start-up.  Each has at most one instance, but they can *)
(* overlap.  A job is cut at its awaits: the HTTP call, and the thread     *)
(* that writes the rows in one transaction.                                *)
(* The daily budget of calls is a counter in the process's memory.         *)
(*                                                                         *)
(* outbound and lives are not in the code: they record what QuotaPerLife   *)
(* is about.                                                               *)
(***************************************************************************)
EXTENDS Integers, FiniteSets

CONSTANTS
    Chargers,   \* chargers the public API reports
    Listed,     \* those with a row in ev_charger_info
    Statuses,   \* statuses the API reports
    Valid,      \* VALID_STATUS
    Interval,   \* EV_STATUS_INTERVAL_MINUTES, in ticks of the clock
    Period,     \* EV_STATUS_PERIOD_MINUTES, in ticks of the clock
    Limit,      \* EV_STATUS_DAILY_CALL_LIMIT
    None,       \* SQL NULL or no row
    MaxClock,   \* bound: ticks of one behaviour
    MaxLives    \* bound: process starts of one behaviour

ASSUME StatusSyncAssumption ==
    /\ Listed \subseteq Chargers /\ Valid \subseteq Statuses /\ None \notin Statuses
    /\ {Interval, Period} \subseteq Nat \ {0}
    /\ {Limit, MaxClock, MaxLives} \subseteq Nat

VARIABLES
    clock,      \* time
    today,      \* date in Seoul
    actual,     \* status of each charger, as the API's operator knows it
    changedAt,  \* when it last changed
    running,    \* the server process, with its scheduler, is up
    counter,    \* _daily_calls and _daily_calls_date
    nextFire,   \* when the interval job fires next
    due,        \* jobs that have fired and not been run yet
    job,        \* the running instance of each job
    stored,     \* ev_charger_status.charger_status
    outbound,   \* calls made today, by any process
    lives       \* processes that have been up today

source == <<clock, today, actual, changedAt>>
budget == <<counter, outbound, lives>>
schedule == <<running, nextFire, due>>
syncVars == <<source, schedule, budget, job, stored>>

Jobs == {"interval", "once"}
JobIdle == [at |-> "idle", asof |-> 0, rows |-> <<>>]
NeverCalled == [date |-> 0, calls |-> 0]
OffDuty == [j \in Jobs |-> JobIdle]

\* A slip: the status is stored as it was reported.
Verbatim(s) == s

\* _normalize_row: a status outside VALID_STATUS is stored as NULL.
Normal(s) == IF s \in Valid THEN s ELSE None

\* Before any window that is asked for.
LongAgo == -(Period + 1)

SyncInit ==
    /\ clock = 0 /\ today = 1
    /\ actual \in [Chargers -> Valid] /\ changedAt = [c \in Chargers |-> LongAgo]
    /\ running = FALSE /\ nextFire = 0 /\ due = {}
    /\ counter = NeverCalled /\ outbound = 0 /\ lives = 0
    /\ job = OffDuty
    /\ stored = [c \in Chargers |-> None]

----------------------------------------------------------------------------
(* Time, the chargers, and the process.                                    *)

Change ==
    /\ \E c \in Chargers, s \in Statuses :
         /\ s # actual[c]
         /\ actual' = [actual EXCEPT ![c] = s]
         /\ changedAt' = [changedAt EXCEPT ![c] = clock]
    /\ UNCHANGED <<clock, today, schedule, budget, job, stored>>

\* The interval trigger fires; a run still due is coalesced with it.
Tick ==
    /\ clock < MaxClock
    /\ clock' = clock + 1
    /\ IF running /\ clock' = nextFire
         THEN due' = due \cup {"interval"} /\ nextFire' = nextFire + Interval
         ELSE UNCHANGED <<due, nextFire>>
    /\ UNCHANGED <<today, actual, changedAt, running, budget, job, stored>>

\* At midnight the budget of the key starts again.
Midnight ==
    /\ today = 1 /\ today' = 2
    /\ outbound' = 0 /\ lives' = IF running THEN 1 ELSE 0
    /\ UNCHANGED <<clock, actual, changedAt, schedule, counter, job, stored>>

\* lifespan: start_scheduler.  The process before has joined its threads.
StartScheduler ==
    /\ ~running /\ lives < MaxLives /\ job = OffDuty
    /\ running' = TRUE /\ lives' = lives + 1
    /\ nextFire' = clock + Interval /\ due' = {"once"}
    /\ UNCHANGED <<source, counter, outbound, job, stored>>

\* A crash, a redeploy or stop_scheduler(wait=False).  The counter is lost with
\* its process and the jobs with theirs, but a thread that writes an answer
\* when its job is cancelled may still commit it.
Stop ==
    /\ running /\ running' = FALSE
    /\ due' = {} /\ nextFire' = 0
    /\ counter' = NeverCalled
    /\ \E kept \in SUBSET {j \in Jobs : job[j].at = "writing"} :
         job' = [j \in Jobs |-> IF j \in kept THEN job[j] ELSE JobIdle]
    /\ UNCHANGED <<source, outbound, lives, stored>>

----------------------------------------------------------------------------
(* collect_charger_status.                                                 *)

\* _can_call_outbound and _record_outbound_call, with the reset of a new day.
CallsToday == IF counter.date = today THEN counter.calls ELSE 0
Record == counter' = [date |-> today, calls |-> CallsToday + 1] /\ outbound' = outbound + 1

\* A run that was due is not made: the instance before it is still running,
\* the event loop came to it too late, or the budget is used up.
Skip(j) ==
    /\ j \in due /\ due' = due \ {j}
    /\ UNCHANGED <<source, running, nextFire, budget, job, stored>>

\* A slip: only a call whose answer has come is recorded.
AskUnrecorded(j) ==
    /\ j \in due /\ due' = due \ {j}
    /\ job[j].at = "idle" /\ CallsToday < Limit
    /\ counter' = [date |-> today, calls |-> CallsToday]
    /\ outbound' = outbound + 1
    /\ job' = [job EXCEPT ![j].at = "asked"]
    /\ UNCHANGED <<source, running, nextFire, lives, stored>>

\* The budget is checked and the call recorded without an await between them.
Ask(j) ==
    /\ j \in due /\ due' = due \ {j}
    /\ job[j].at = "idle" /\ CallsToday < Limit
    /\ Record
    /\ job' = [job EXCEPT ![j].at = "asked"]
    /\ UNCHANGED <<source, running, nextFire, lives, stored>>

\* _filter_rows_in_info: a charger without an info row would break the FK.
Kept(rows) == Listed \cap rows

Reported == {c \in Chargers : changedAt[c] >= clock - Period}

\* The API answers with what changed in the last Period.
Answer(j) ==
    /\ job[j].at = "asked"
    /\ job' = [job EXCEPT ![j] =
         [at |-> "writing", asof |-> clock,
          rows |-> [c \in Kept(Reported) |-> Normal(actual[c])]]]
    /\ UNCHANGED <<source, schedule, budget, stored>>

\* A slip: the chunks are committed one by one.
CommitChunk(j) ==
    /\ job[j].at = "writing"
    /\ \E chunk \in SUBSET DOMAIN job[j].rows :
         LET rest == DOMAIN job[j].rows \ chunk IN
         /\ chunk = DOMAIN job[j].rows \/ Cardinality(chunk) = 1
         /\ stored' = [c \in Chargers |-> IF c \in chunk THEN job[j].rows[c] ELSE stored[c]]
         /\ job' = [job EXCEPT ![j] = IF rest = {} THEN JobIdle
                                      ELSE [@ EXCEPT !.rows = [c \in rest |-> job[j].rows[c]]]]
    /\ UNCHANGED <<source, schedule, budget>>

\* _upsert_rows: all chunks in one transaction.  Of two that overlap, the one
\* that gets a row's lock first also commits first, so the writes of each can
\* be taken as made at its commit.
CommitRows(j) ==
    /\ job[j].at = "writing"
    /\ stored' = [c \in Chargers |->
         IF c \in DOMAIN job[j].rows THEN job[j].rows[c] ELSE stored[c]]
    /\ job' = [job EXCEPT ![j] = JobIdle]
    /\ UNCHANGED <<source, schedule, budget>>

\* A timeout, an HTTP error, an answer that does not parse, a failed upsert.
Abandon(j) ==
    /\ job[j].at # "idle"
    /\ job' = [job EXCEPT ![j] = JobIdle]
    /\ UNCHANGED <<source, schedule, budget, stored>>

CollectStep ==
    \E j \in Jobs : Skip(j) \/ Ask(j) \/ Answer(j) \/ CommitRows(j) \/ Abandon(j)

SyncNext == Change \/ Tick \/ Midnight \/ StartScheduler \/ Stop \/ CollectStep

SyncSpec == SyncInit /\ [][SyncNext]_syncVars

----------------------------------------------------------------------------
\* The shape of the collector's state; only listed chargers have a row, and
\* only valid statuses are stored.
SyncTypeOK ==
    /\ clock \in 0..MaxClock /\ today \in {1, 2}
    /\ actual \in [Chargers -> Statuses] /\ changedAt \in [Chargers -> LongAgo..MaxClock]
    /\ running \in BOOLEAN /\ due \subseteq Jobs /\ (due # {} => running)
    /\ counter.date \in {0, 1, 2} /\ counter.calls \in 0..Limit
    /\ \A j \in Jobs : /\ job[j].at \in {"idle", "asked", "writing"}
                       /\ DOMAIN job[j].rows \subseteq Listed
    /\ stored \in [Chargers -> Valid \cup {None}]
    /\ \A c \in Chargers \ Listed : stored[c] = None

\* The calls of a day stay within the limit for each process that was up that
\* day, with both jobs asking at once and midnight at any point
\* (_can_call_outbound, _record_outbound_call).
QuotaPerLife == outbound <= Limit * lives

\* The commit of an answer leaves the table right about everything that the
\* answer's window holds: every listed charger that last changed in it, and
\* before the tick of the answer, is stored as it is by then, though chargers
\* have changed, statuses nobody knows were reported and the other job has
\* written since the answer came (_normalize_row, _filter_rows_in_info,
\* _upsert_rows: one commit for all chunks).
AnswersSettle ==
    [][\A j \in Jobs :
         job[j].at = "writing" /\ job'[j] # job[j] /\ stored' # stored =>
           \A c \in Listed :
             job[j].asof - Period <= changedAt[c] /\ changedAt[c] < job[j].asof =>
               stored'[c] = Normal(actual[c])]_syncVars
=============================================================================
