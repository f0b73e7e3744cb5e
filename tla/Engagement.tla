----------------------------- MODULE Engagement -----------------------------
(***************************************************************************)
(* The engagement snapshot (events.engagement): every night a job works    *)
(* out, from the attendance of the sessions, how each child comes to them  *)
(* (its stage, overall and per dojo) and records each change of a child's  *)
(* overall stage.  The job loads the sessions and which of them were       *)
(* marked once, and then replaces the rows a batch of children at a time,  *)
(* each batch in a transaction, while sessions are opened and marked.      *)
(*                                                                         *)
(* A day is a number and a session takes place on one.  Every child here   *)
(* has a home dojo.  A batch's reads and its transaction are one step:     *)
(* nothing but this job writes its rows, and one run at a time.            *)
(***************************************************************************)
EXTENDS Integers, Sequences, FiniteSets, FiniteSetsExt

CONSTANTS
    Batches,     \* a sequence of sets of children (Ninja), in the order of their ids
    Dojos,
    Sessions,
    DojoOf,      \* Event.dojo
    DayOf,       \* the day of Event.start_time
    HomeDojo,    \* Ninja.home_dojo
    AimedAt,     \* per child: the sessions meant for it (is_aimed_at)
    TooOldFrom,  \* per child and dojo: the day it is older than the dojo takes
    LastDay,     \* bound: the last day of the run
    Unsettled,   \* bound: the sessions that open, or are called off, meanwhile
    MarkedFor,   \* bound: days a session's attendance is still worked on
    SignsUpFor,  \* bound, per child: the sessions it may be signed up for
    MaxRuns,     \* bound: rebuilds, the nightly ones and those by hand
    WindowDays, HistoryDays, NewDays, NewMaxVisits,
    RegularMinVisits, RegularMinPercent, AtRiskMissed

Overall == "overall"

Ninjas == UNION {Batches[i] : i \in DOMAIN Batches}

ASSUME EngagementAssumption ==
    /\ DOMAIN Batches = 1..Len(Batches) /\ Len(Batches) \in Nat \ {0}
    /\ \A i, j \in DOMAIN Batches : i # j => Batches[i] \cap Batches[j] = {}
    /\ IsFiniteSet(Sessions)
    /\ Overall \notin Dojos
    /\ DojoOf \in [Sessions -> Dojos] /\ DayOf \in [Sessions -> Nat]
    /\ HomeDojo \in [Ninjas -> Dojos]
    /\ {AimedAt, SignsUpFor} \subseteq [Ninjas -> SUBSET Sessions]
    /\ TooOldFrom \in [Ninjas -> [Dojos -> Nat]]
    /\ {LastDay, WindowDays, HistoryDays, NewDays, NewMaxVisits} \subseteq Nat
    /\ {MaxRuns, MarkedFor, RegularMinVisits, AtRiskMissed} \subseteq Nat \ {0}
    /\ RegularMinPercent \in 1..100
    /\ WindowDays <= HistoryDays

VARIABLES
    today,
    held,     \* Event.status per session
    place,    \* per child and session: its registration and its attendance
    rows,     \* NinjaEngagement: per child, the stage of each of its rows
    changes,  \* NinjaEngagementChange: the rows of each child
    job,      \* the run of the job: what it loaded, and its next batch
    runs,     \* runs started, see MaxRuns
    twice,    \* history: per child, the days its stage changed twice
    current   \* history: the children whose rows nothing has outdated

engagementVars == <<today, held, place, rows, changes, job, runs, twice, current>>

Stage == {"aged_out", "never_attended", "new", "lapsed", "at_risk", "regular", "occasional"}
Registered == {"none", "waiting", "unmarked", "present", "absent"}
Change == [from : Stage, to : Stage, on : 0..LastDay]

NoJob == [next |-> 0, known |-> {}, marked |-> {}]

EngagementTypeOK ==
    /\ today \in 0..LastDay
    /\ held \in [Sessions -> {"draft", "open", "cancelled"}]
    /\ place \in [Ninjas -> [Sessions -> Registered]]
    /\ rows \in [Ninjas -> [Dojos \cup {Overall} -> Stage \cup {"none"}]]
    /\ changes \in [Ninjas -> SUBSET Change]
    /\ job \in [next : 0..Len(Batches), known : SUBSET Sessions, marked : SUBSET Sessions]
    /\ runs \in 0..MaxRuns
    /\ twice \in [Ninjas -> SUBSET (0..LastDay)]
    /\ current \in SUBSET Ninjas

EngagementInit ==
    /\ today = 0
    /\ held = [s \in Sessions |-> IF s \in Unsettled THEN "draft" ELSE "open"]
    /\ place \in [Ninjas -> [Sessions -> {"none", "unmarked"}]]
    /\ \A k \in Ninjas, s \in Sessions :
          s \notin SignsUpFor[k] \/ s \in Unsettled => place[k][s] = "none"
    \* The first batch's children are known since last night, the others new.
    /\ rows = [k \in Ninjas |-> [d \in Dojos \cup {Overall} |->
          IF k \in Batches[1] /\ d \in {HomeDojo[k], Overall} THEN "never_attended" ELSE "none"]]
    /\ changes = [k \in Ninjas |-> {}]
    /\ job = NoJob
    /\ runs = 0
    /\ twice = [k \in Ninjas |-> {}] /\ current = {}

\* The night's runs are over before the sessions of the day start.
Started(s) == DayOf[s] < today

Marked == {s \in Sessions : \E k \in Ninjas : place[k][s] \in {"present", "absent"}}

-----------------------------------------------------------------------------
(* Families and teams, while the job runs or not *)

NextDay ==
    /\ job = NoJob /\ today < LastDay
    /\ today' = today + 1
    /\ current' = {}
    /\ UNCHANGED <<held, place, rows, changes, job, runs, twice>>

SetHeld(s, status) ==
    /\ \/ held[s] = "draft" /\ status = "open"
       \/ held[s] = "open" /\ status = "cancelled"
    /\ s \in Unsettled
    /\ held' = [held EXCEPT ![s] = status]
    /\ current' = {}
    /\ UNCHANGED <<today, place, rows, changes, job, runs, twice>>

SignUp(k, s, as) ==
    /\ held[s] = "open" /\ ~Started(s) /\ s \in SignsUpFor[k]
    /\ <<place[k][s], as>> \in {<<"none", "waiting">>, <<"none", "unmarked">>, <<"waiting", "unmarked">>}
    /\ place' = [place EXCEPT ![k][s] = as]
    /\ UNCHANGED <<today, held, rows, changes, job, runs, twice, current>>

Mark(k, s, value) ==
    /\ held[s] = "open" /\ Started(s) /\ today <= DayOf[s] + MarkedFor
    /\ place[k][s] \in {"unmarked", "present", "absent"} \ {value}
    /\ place' = [place EXCEPT ![k][s] = value]
    /\ current' = {}
    /\ UNCHANGED <<today, held, rows, changes, job, runs, twice>>

-----------------------------------------------------------------------------
(* What a run makes of a child's registrations *)

\* The registrations a batch reads; their sessions were loaded before.
Registrations(k) == {s \in Sessions : place[k][s] # "none" /\ held[s] = "open"}

\* Mutant: a confirmed place counts as a visit, whether attendance was taken.
VisitsUnmarked(k) ==
    {s \in Registrations(k) : Started(s) /\ place[k][s] \in {"present", "unmarked"}}

Visits(k) ==
    {s \in Registrations(k) : Started(s) /\
        \/ place[k][s] = "present"
        \/ place[k][s] = "unmarked" /\ s \notin job.marked}

Since(days) == {s \in Sessions : DayOf[s] >= today - days}

AimedSessions(k, d) ==
    {s \in job.known \cap AimedAt[k] \cap Since(HistoryDays) : DojoOf[s] = d /\ Started(s)}

At(d) == {s \in Sessions : DojoOf[s] = d}

\* Mutant: only a visit to the dojo it is measured at ends a run of misses.
CountedThere(k, d, overall) == Visits(k) \cap At(d)

Counted(k, d, overall) == IF overall THEN Visits(k) ELSE Visits(k) \cap At(d)

RecentVisits(k, d, overall) == Counted(k, d, overall) \cap Since(WindowDays)

Offered(k, d, overall) ==
    (AimedSessions(k, d) \cap Since(WindowDays))
        \cup (IF overall THEN RecentVisits(k, d, overall) ELSE {})

MissedInARow(k, d, overall) ==
    {s \in AimedSessions(k, d) : \A v \in Counted(k, d, overall) : DayOf[v] < DayOf[s]}

\* First match wins.
StageAt(k, d, overall) ==
    LET visits == Counted(k, d, overall)
        days   == {DayOf[s] : s \in visits}
        came   == Cardinality(Offered(k, d, overall) \cap RecentVisits(k, d, overall))
    IN  IF today >= TooOldFrom[k][d] THEN "aged_out"
        ELSE IF visits = {} THEN "never_attended"
        ELSE IF \/ Min(days) >= today - NewDays
                \/ Cardinality(visits) <= NewMaxVisits /\ Max(days) >= today - WindowDays
             THEN "new"
        ELSE IF came = 0 THEN "lapsed"
        ELSE IF Cardinality(MissedInARow(k, d, overall)) >= AtRiskMissed THEN "at_risk"
        ELSE IF /\ came >= RegularMinVisits
                /\ 100 * came >= RegularMinPercent * Cardinality(Offered(k, d, overall))
             THEN "regular"
        ELSE "occasional"

\* The dojos a child gets a row for: those it visited lately, and its own.
MeasuredAt(k) == {DojoOf[s] : s \in Visits(k) \cap Since(HistoryDays)} \cup {HomeDojo[k]}

RowsOf(k) ==
    [d \in Dojos \cup {Overall} |->
        IF d = Overall THEN StageAt(k, HomeDojo[k], TRUE)
        ELSE IF d \in MeasuredAt(k) THEN StageAt(k, d, FALSE) ELSE "none"]

-----------------------------------------------------------------------------
(* rebuild *)

StartRun ==
    /\ job = NoJob /\ runs < MaxRuns
    /\ job' = [next |-> 1, known |-> {s \in Sessions : held[s] = "open"}, marked |-> Marked]
    /\ runs' = runs + 1
    /\ UNCHANGED <<today, held, place, rows, changes, twice, current>>

\* The children of a batch whose overall stage moved.
StageChanges(batch) ==
    {k \in batch : rows[k][Overall] \notin {"none", RowsOf(k)[Overall]}}

Without(log, day) == {c \in log : c.on # day}

Moved(k) == [from |-> rows[k][Overall], to |-> RowsOf(k)[Overall], on |-> today]

\* Mutant: today's changes of every child are replaced.
ChangesOfAll(batch) ==
    [k \in Ninjas |->
        Without(changes[k], today) \cup IF k \in StageChanges(batch) THEN {Moved(k)} ELSE {}]

\* Mutant: a change is only recorded once a day, and not replaced.
ChangesOnce(batch) ==
    [k \in Ninjas |->
        IF k \in StageChanges(batch) /\ \A c \in changes[k] : c.on # today
        THEN changes[k] \cup {Moved(k)} ELSE changes[k]]

ChangesWith(batch) ==
    [k \in Ninjas |->
        IF k \in StageChanges(batch) THEN Without(changes[k], today) \cup {Moved(k)}
        ELSE changes[k]]

\* A session that opened after the run loaded them is not in its hands:
\* a sign-up for it ends the run, see RunDies.
RebuildBatch ==
    /\ job # NoJob
    /\ LET batch == Batches[job.next]
       IN  /\ \A k \in batch : Registrations(k) \subseteq job.known
           /\ rows' = [k \in Ninjas |-> IF k \in batch THEN RowsOf(k) ELSE rows[k]]
           /\ changes' = ChangesWith(batch)
           /\ twice' = [k \in Ninjas |->
                 IF k \in StageChanges(batch) /\ \E c \in changes[k] : c.on = today
                 THEN twice[k] \cup {today} ELSE twice[k]]
           \* What was marked since the run began, the next run will see.
           /\ current' = IF job.marked = Marked /\ job.known = {s \in Sessions : held[s] = "open"}
                         THEN current \cup batch ELSE current
    /\ job' = IF job.next = Len(Batches) THEN NoJob ELSE [job EXCEPT !.next = job.next + 1]
    /\ UNCHANGED <<today, held, place, runs>>

\* A crash, the time limit, or a session it does not know; nothing retries.
RunDies ==
    /\ job # NoJob
    /\ job' = NoJob
    /\ UNCHANGED <<today, held, place, rows, changes, runs, twice, current>>

EngagementNext ==
    \/ NextDay
    \/ \E s \in Sessions, status \in {"open", "cancelled"} : SetHeld(s, status)
    \/ \E k \in Ninjas, s \in Sessions, as \in {"unmarked", "waiting"} : SignUp(k, s, as)
    \/ \E k \in Ninjas, s \in Sessions, value \in {"present", "absent"} : Mark(k, s, value)
    \/ StartRun \/ RebuildBatch \/ RunDies

EngagementSpec == EngagementInit /\ [][EngagementNext]_engagementVars

-----------------------------------------------------------------------------
(* What the snapshot promises *)

\* What journeys trigger on agrees with what the team sees: the last change
\* recorded for a child led to the stage its row has, however the runs were
\* repeated, died half way or raced the teams' marking.
LatestChangeIsTheStage ==
    \A k \in Ninjas : \A c \in changes[k] :
        (\A other \in changes[k] : other.on <= c.on) => c.to = rows[k][Overall]

\* The changes of a child tell its whole way: there is one a day, and each
\* starts at the stage the one before it led to.  Where a day's second run
\* moved the child again, the first of the two changes is gone.
ChangesFollowOn ==
    \A k \in Ninjas : \A c, next \in changes[k] :
        /\ c.on = next.on => c = next
        /\ /\ c.on < next.on /\ next.on \notin twice[k]
           /\ ~\E other \in changes[k] : c.on < other.on /\ other.on < next.on
           => next.from = c.to

\* The sessions a child came to, as the teams' marking stands now.
CameTo(k) ==
    {s \in Sessions : held[s] = "open" /\ Started(s) /\
        IF s \in Marked THEN place[k][s] = "present" ELSE place[k][s] = "unmarked"}

\* No family is told that its child stays away when it does not: a child
\* whose overall row is up to date and says at risk has missed that many
\* sessions of its own dojo that were meant for it, since the last visit it
\* made anywhere; a lapsed one came once, and nowhere lately; one that never
\* came did not come; and only a child that came lately is regular.
NobodyIsMissedWhoCame ==
    \A k \in current :
        LET stage == rows[k][Overall]
            lately == CameTo(k) \cap Since(WindowDays)
            missed == {s \in AimedAt[k] \cap At(HomeDojo[k]) :
                          /\ held[s] = "open" /\ Started(s)
                          /\ ~\E v \in CameTo(k) : DayOf[v] >= DayOf[s]}
        IN  /\ stage = "at_risk" => Cardinality(missed) >= AtRiskMissed /\ lately # {}
            /\ stage = "lapsed" => CameTo(k) # {} /\ lately = {}
            /\ stage = "never_attended" => CameTo(k) = {}
            /\ stage = "regular" => Cardinality(lately) >= RegularMinVisits
                                    /\ Cardinality(missed) < AtRiskMissed

\* The invariant of this part of the runs: the snapshot's three promises.
EngagementInv ==
    /\ EngagementTypeOK
    /\ LatestChangeIsTheStage
    /\ ChangesFollowOn
    /\ NobodyIsMissedWhoCame
=============================================================================
