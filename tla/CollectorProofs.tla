--------------------------- MODULE CollectorProofs ----------------------------
(***************************************************************************)
(* The collector, for every set of chargers and statuses, every interval,  *)
(* window and limit: the tables keep their shape, and the commit of an     *)
(* answer leaves the table right about what the answer's window holds.     *)
(***************************************************************************)
EXTENDS ChargersProofs

----------------------------------------------------------------------------
(* The inductive invariant.                                                *)

\* The rows of an answer, which are none before it has come.
Rows == {<<>>} \cup UNION {[S -> Valid \cup {None}] : S \in SUBSET Listed}

Instance == [at: {"idle", "asked", "writing"}, asof: 0..MaxClock, rows: Rows]

SyncTyped ==
    /\ clock \in 0..MaxClock /\ today \in {1, 2}
    /\ actual \in [Chargers -> Statuses] /\ changedAt \in [Chargers -> LongAgo..MaxClock]
    /\ running \in BOOLEAN /\ due \subseteq Jobs /\ (due # {} => running)
    /\ counter \in [date: {0, 1, 2}, calls: 0..Limit]
    /\ job \in [Jobs -> Instance]
    /\ stored \in [Chargers -> Valid \cup {None}]
    /\ \A c \in Chargers \ Listed : stored[c] = None

\* An answer has all that changed in its window and has not changed again.
AnswerFits(answer) ==
    \A c \in Listed : changedAt[c] < answer.asof =>
       IF c \in DOMAIN answer.rows THEN answer.rows[c] = Normal(actual[c])
                                   ELSE changedAt[c] < answer.asof - Period

AnswersFit ==
    \A j \in Jobs : job[j].at = "writing" => job[j].asof <= clock /\ AnswerFits(job[j])

CollectorInv == SyncTyped /\ AnswersFit

----------------------------------------------------------------------------
(* Types.                                                                  *)

\* What an answer holds are valid statuses of listed chargers.
LEMMA RowsTyped ==
  ASSUME NEW rows \in Rows
  PROVE  DOMAIN rows \subseteq Listed /\ \A c \in DOMAIN rows : rows[c] \in Valid \cup {None}
  BY DEF Rows

\* A status is stored as a valid one or NULL.
LEMMA NormalTyped == \A s : Normal(s) \in Valid \cup {None}
  BY DEF Normal

LEMMA InitSync == SyncInit => SyncTyped
<1> SUFFICES ASSUME SyncInit PROVE SyncTyped
  OBVIOUS
<1>1. Period \in Nat /\ Limit \in Nat /\ MaxClock \in Nat /\ Valid \subseteq Statuses
  BY StatusSyncAssumption
<1>2. LongAgo \in LongAgo..MaxClock
  BY <1>1 DEF LongAgo
<1>3. JobIdle \in Instance
  BY <1>1 DEF JobIdle, Instance, Rows
<1>4. job \in [Jobs -> Instance]
  BY <1>3 DEF SyncInit, OffDuty
<1>5. counter \in [date: {0, 1, 2}, calls: 0..Limit]
  BY <1>1 DEF SyncInit, NeverCalled
<1>6. /\ clock \in 0..MaxClock /\ today \in {1, 2} /\ actual \in [Chargers -> Statuses]
      /\ stored \in [Chargers -> Valid \cup {None}] /\ \A c \in Chargers \ Listed : stored[c] = None
  BY <1>1 DEF SyncInit
<1>7. changedAt \in [Chargers -> LongAgo..MaxClock]
  BY <1>2 DEF SyncInit
<1>8. running \in BOOLEAN /\ due \subseteq Jobs /\ (due # {} => running)
  BY DEF SyncInit
<1> QED
  BY <1>4, <1>5, <1>6, <1>7, <1>8 DEF SyncTyped

LEMMA NextSync == SyncTyped /\ [ChargersNext]_chargerVars => SyncTyped'
<1> SUFFICES ASSUME SyncTyped, [ChargersNext]_chargerVars PROVE SyncTyped'
  OBVIOUS
<1> USE DEF SyncTyped
<1>1. Period \in Nat /\ Limit \in Nat /\ MaxClock \in Nat /\ Listed \subseteq Chargers
  BY StatusSyncAssumption
<1>2. JobIdle \in Instance /\ OffDuty \in [Jobs -> Instance]
  BY <1>1 DEF JobIdle, OffDuty, Instance, Rows
<1>3. CASE UNCHANGED syncVars
  BY <1>3 DEF syncVars, source, schedule, budget
<1>4. CASE StatusFromElsewhere
  BY <1>1, <1>4, NormalTyped
  DEF StatusFromElsewhere, source, schedule, budget
<1>5. CASE Change
  BY <1>1, <1>5 DEF Change, LongAgo, schedule, budget
<1>6. CASE Tick
  <2>1. clock' \in 0..MaxClock
    BY <1>1, <1>6 DEF Tick
  <2>2. due' \subseteq Jobs /\ (due' # {} => running')
    BY <1>6 DEF Tick, Jobs
  <2> QED
    BY <1>6, <2>1, <2>2 DEF Tick, budget
<1>7. CASE Midnight
  BY <1>7 DEF Midnight, schedule
<1>8. CASE StartScheduler
  BY <1>8 DEF StartScheduler, Jobs, source
<1>9. CASE Stop
  <2>1. NeverCalled \in [date: {0, 1, 2}, calls: 0..Limit]
    BY <1>1 DEF NeverCalled
  <2>2. job' \in [Jobs -> Instance]
    BY <1>2, <1>9 DEF Stop
  <2> QED
    BY <1>9, <2>1, <2>2 DEF Stop, source
<1>10. ASSUME NEW j \in Jobs, Skip(j)
       PROVE  SyncTyped'
  BY <1>10 DEF Skip, source, budget
<1>11. ASSUME NEW j \in Jobs, Ask(j)
       PROVE  SyncTyped'
  <2>1. CallsToday \in 0..Limit /\ CallsToday < Limit
    BY <1>1, <1>11 DEF Ask, CallsToday
  <2>2. counter' \in [date: {0, 1, 2}, calls: 0..Limit]
    BY <1>1, <1>11, <2>1 DEF Ask, Record
  <2>3. job' \in [Jobs -> Instance]
    BY <1>11 DEF Ask, Instance
  <2> QED
    BY <1>11, <2>2, <2>3 DEF Ask, source
<1>12. ASSUME NEW j \in Jobs, Answer(j)
       PROVE  SyncTyped'
  <2> DEFINE rows == [c \in Kept(Reported) |-> Normal(actual[c])]
  <2>1. rows \in Rows
    <3>1. Kept(Reported) \in SUBSET Listed /\ rows \in [Kept(Reported) -> Valid \cup {None}]
      BY NormalTyped DEF Kept
    <3> HIDE DEF rows
    <3> QED
      BY <3>1 DEF Rows
  <2>2. job' = [job EXCEPT ![j] = [at |-> "writing", asof |-> clock, rows |-> rows]]
    BY <1>12 DEF Answer
  <2> HIDE DEF rows
  <2>3. job' \in [Jobs -> Instance]
    BY <2>1, <2>2 DEF Instance
  <2> QED
    BY <1>12, <2>3 DEF Answer, source, schedule, budget
<1>13. ASSUME NEW j \in Jobs, CommitRows(j)
       PROVE  SyncTyped'
  <2>1. PICK rows \in Rows : rows = job[j].rows
    BY DEF Instance
  <2>2. DOMAIN rows \subseteq Listed /\ \A c \in DOMAIN rows : rows[c] \in Valid \cup {None}
    BY RowsTyped
  <2>3. stored' = [c \in Chargers |-> IF c \in DOMAIN rows THEN rows[c] ELSE stored[c]]
    BY <1>13, <2>1 DEF CommitRows
  <2>4. /\ stored' \in [Chargers -> Valid \cup {None}]
        /\ \A c \in Chargers \ Listed : stored'[c] = None
    BY <2>2, <2>3
  <2> QED
    BY <1>2, <1>13, <2>4 DEF CommitRows, source, schedule, budget
<1>14. ASSUME NEW j \in Jobs, Abandon(j)
       PROVE  SyncTyped'
  BY <1>2, <1>14 DEF Abandon, source, schedule, budget
<1> QED
  BY <1>3, <1>4, <1>5, <1>6, <1>7, <1>8, <1>9, <1>10, <1>11, <1>12, <1>13, <1>14
  DEF ChargersNext, SyncNext, CollectStep, chargerVars

\* The tables, the counter and the jobs keep their shape: only listed chargers
\* have a row, only valid statuses are stored, and the counter stays within the
\* limit.
THEOREM ChargersTyped == ChargersSpec => []ChargersTypeOK
<1>1. ChargersInit => SyncTyped
  BY InitSync DEF ChargersInit
<1>2. SyncTyped /\ PricesRight => ChargersTypeOK
  <2> SUFFICES ASSUME SyncTyped, PricesRight PROVE ChargersTypeOK
    OBVIOUS
  <2>1. \A j \in Jobs : /\ job[j].at \in {"idle", "asked", "writing"}
                        /\ DOMAIN job[j].rows \subseteq Listed
    BY RowsTyped DEF SyncTyped, Instance
  <2> QED
    BY <2>1 DEF SyncTyped, PricesRight, OrdersTyped, ChargersTypeOK, SyncTypeOK
<1> QED
  BY <1>1, <1>2, NextSync, PricesAlwaysRight, PTL DEF ChargersSpec

----------------------------------------------------------------------------
(* Answers.                                                                *)

LEMMA NextCollector == CollectorInv /\ [ChargersNext]_chargerVars => CollectorInv'
<1> SUFFICES ASSUME CollectorInv, [ChargersNext]_chargerVars PROVE CollectorInv'
  OBVIOUS
<1>1. SyncTyped /\ AnswersFit /\ SyncTyped'
  BY NextSync DEF CollectorInv
<1>2. /\ clock \in Nat /\ clock <= MaxClock /\ MaxClock \in Nat /\ Period \in Nat
      /\ Listed \subseteq Chargers
      /\ changedAt \in [Chargers -> Int] /\ actual \in [Chargers -> Statuses]
      /\ job \in [Jobs -> Instance]
  BY <1>1, StatusSyncAssumption DEF SyncTyped, LongAgo
<1> SUFFICES AnswersFit'
  BY <1>1 DEF CollectorInv
\* Jobs that write have the answers they had, and no charger changes.
<1>3. ASSUME UNCHANGED <<actual, changedAt>>, clock' \in {clock, clock + 1},
             \A j \in Jobs : job'[j].at = "writing" => job'[j] = job[j]
      PROVE  AnswersFit'
  BY <1>1, <1>2, <1>3 DEF AnswersFit, AnswerFits, Normal, Instance
<1>4. CASE UNCHANGED syncVars \/ StatusFromElsewhere
  BY <1>3, <1>4 DEF syncVars, StatusFromElsewhere, source
<1>5. CASE Change
  <2>1. PICK c \in Chargers, s \in Statuses :
          /\ actual' = [actual EXCEPT ![c] = s] /\ changedAt' = [changedAt EXCEPT ![c] = clock]
          /\ UNCHANGED <<clock, job>>
    BY <1>5 DEF Change
  <2>2. /\ changedAt'[c] = clock
        /\ \A d \in Chargers : d # c => changedAt'[d] = changedAt[d] /\ actual'[d] = actual[d]
    BY <1>2, <2>1
  <2> QED
    BY <1>1, <1>2, <2>1, <2>2 DEF AnswersFit, AnswerFits, Normal, Instance
<1>6. CASE Tick
  BY <1>2, <1>3, <1>6 DEF Tick
<1>7. CASE Midnight \/ StartScheduler
  BY <1>3, <1>7 DEF Midnight, StartScheduler, source
<1>8. CASE Stop
  <2>1. \A j \in Jobs : job'[j].at = "writing" => job'[j] = job[j]
    BY <1>2, <1>8 DEF Stop, JobIdle
  <2> QED
    BY <1>3, <1>8, <2>1 DEF Stop, source
<1>9. ASSUME NEW j \in Jobs, Skip(j) \/ Ask(j) \/ CommitRows(j) \/ Abandon(j)
      PROVE  AnswersFit'
  <2>1. \A k \in Jobs : job'[k].at = "writing" => job'[k] = job[k]
    BY <1>2, <1>9 DEF Skip, Ask, CommitRows, Abandon, JobIdle, Instance
  <2> QED
    BY <1>3, <1>9, <2>1 DEF Skip, Ask, CommitRows, Abandon, source
<1>10. ASSUME NEW j \in Jobs, Answer(j)
       PROVE  AnswersFit'
  <2> DEFINE rows == [c \in Kept(Reported) |-> Normal(actual[c])]
  <2>1. /\ job' = [job EXCEPT ![j] = [at |-> "writing", asof |-> clock, rows |-> rows]]
        /\ UNCHANGED <<clock, actual, changedAt>>
    BY <1>10 DEF Answer, source
  <2>2. DOMAIN rows = Kept(Reported) /\ \A c \in Kept(Reported) : rows[c] = Normal(actual[c])
    OBVIOUS
  <2> HIDE DEF rows
  <2>3. \A c \in Listed : c \notin DOMAIN rows => changedAt[c] < clock - Period
    BY <1>2, <2>2 DEF Kept, Reported
  <2>4. /\ job'[j].at = "writing" /\ job'[j].asof = clock /\ job'[j].rows = rows
        /\ \A k \in Jobs : k # j => job'[k] = job[k]
    BY <1>2, <2>1
  <2>5. AnswerFits(job[j])'
    BY <2>1, <2>2, <2>3, <2>4 DEF AnswerFits, Normal
  <2> QED
    BY <1>1, <1>2, <2>1, <2>4, <2>5 DEF AnswersFit, AnswerFits, Normal
<1> QED
  BY <1>4, <1>5, <1>6, <1>7, <1>8, <1>9, <1>10
  DEF ChargersNext, SyncNext, CollectStep, chargerVars

\* The collector's invariant holds.
LEMMA CollectorCorrect == ChargersSpec => []CollectorInv
<1>1. ChargersInit => CollectorInv
  <2> SUFFICES ASSUME ChargersInit PROVE CollectorInv
    OBVIOUS
  <2>1. SyncTyped /\ \A j \in Jobs : job[j].at = "idle"
    BY InitSync DEF ChargersInit, SyncInit, OffDuty, JobIdle
  <2> QED
    BY <2>1 DEF CollectorInv, AnswersFit
<1> QED
  BY <1>1, NextCollector, PTL DEF ChargersSpec

\* The window of the answer that j writes holds what c's status is since.
Settles(j, c) == job[j].asof - Period <= changedAt[c] /\ changedAt[c] < job[j].asof

\* Only the commit of its answer changes the table together with a job, and it
\* stores what the answer's window holds.
LEMMA CommitSettles ==
  ASSUME CollectorInv, [ChargersNext]_chargerVars, stored' # stored,
         NEW j \in Jobs, job[j].at = "writing", job'[j] # job[j], NEW c \in Listed, Settles(j, c)
  PROVE  stored'[c] = Normal(actual[c])
<1>1. /\ job[j].asof \in Int /\ Period \in Int /\ changedAt[c] \in Int /\ c \in Chargers
      /\ job \in [Jobs -> Instance]
  BY StatusSyncAssumption DEF CollectorInv, SyncTyped, Instance, LongAgo
<1>2. PICK k \in Jobs : CommitRows(k)
  BY DEF ChargersNext, SyncNext, Change, Tick, Midnight, StartScheduler, Stop, CollectStep,
         Skip, Ask, Answer, Abandon, StatusFromElsewhere, chargerVars, syncVars
<1>3. k = j
  BY <1>1, <1>2 DEF CommitRows
<1>4. c \in DOMAIN job[j].rows /\ job[j].rows[c] = Normal(actual[c])
  BY <1>1 DEF CollectorInv, AnswersFit, AnswerFits, Settles
<1> QED
  BY <1>1, <1>2, <1>3, <1>4 DEF CommitRows

\* The commit of an answer leaves every listed charger that last changed in
\* the answer's window, before the tick of the answer, stored as it is, though
\* chargers change, unknown statuses are reported and the other job writes
\* between the answer and its commit (collect_charger_status, _upsert_rows).
THEOREM AnswersSettled == ChargersSpec => AnswersSettle
<1>1. CollectorInv /\ [ChargersNext]_chargerVars =>
        [\A j \in Jobs :
           job[j].at = "writing" /\ job'[j] # job[j] /\ stored' # stored =>
             \A c \in Listed :
               job[j].asof - Period <= changedAt[c] /\ changedAt[c] < job[j].asof =>
                 stored'[c] = Normal(actual[c])]_syncVars
  BY CommitSettles DEF Settles
<1> QED
  BY <1>1, CollectorCorrect, PTL DEF ChargersSpec, AnswersSettle
=============================================================================
