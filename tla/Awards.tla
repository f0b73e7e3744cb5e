------------------------------- MODULE Awards -------------------------------
(***************************************************************************)
(* A child's attendance, milestone badges and belts (events.attendance and *)
(* events.awards).  A request of the team marks a place that its page      *)
(* loaded, and then brings the milestones in line with the sessions the    *)
(* child attended, in a transaction that locks only the badge rows it      *)
(* saves.  Reaching one milestone grants a belt; belts are also awarded by *)
(* hand, from the belts the request loaded.                                *)
(*                                                                         *)
(* One child with confirmed places.  A milestone is named by its           *)
(* threshold; what a badge row counts towards it is not kept.  "Mark all   *)
(* present" does for each child what a request here does; one-off badges   *)
(* and the team's own attendance are single rows and left out.             *)
(***************************************************************************)
EXTENDS Integers, FiniteSets

CONSTANTS
    Places,      \* the child's confirmed registrations
    Marks,       \* requests of the team at one time
    Thresholds,  \* Badge.threshold of the milestones
    Granting,    \* the milestone with a grants_belt, of level 1
    TopBelt,     \* the highest Belt.level
    MaxBelts     \* bound: NinjaBelt rows of one level

ASSUME AwardsAssumption ==
    /\ IsFiniteSet(Places)
    /\ Thresholds \subseteq Nat \ {0} /\ Granting \in Thresholds
    /\ TopBelt \in Nat \ {0} /\ MaxBelts \in Nat \ {0}

VARIABLES
    attended, \* Registration.attended per place
    badge,    \* per milestone: its NinjaBadge row
    belts,    \* NinjaBelt rows per level
    mark,     \* per request: how far it is
    broken, \* history: since the last sync that ran alone, one did not
    together   \* history: two requests were about to award a belt at once

awardVars == <<attended, badge, belts, mark, broken, together>>

Attendance == {"unmarked", "present", "absent"}
Badge == {"none", "progress", "earned"}
Levels == 1..TopBelt

NoMark == [at |-> "idle", place |-> {}, saw |-> "unmarked", count |-> 0,
           rows |-> [t \in Thresholds |-> "none"], alone |-> FALSE, belt |-> 0]

AwardsTypeOK ==
    /\ attended \in [Places -> Attendance]
    /\ badge \in [Thresholds -> Badge]
    /\ belts \in [Levels -> 0..MaxBelts]
    /\ mark \in [Marks ->
          [at : {"idle", "loaded", "marked", "counted", "read", "saved", "granted", "award"},
           place : SUBSET Places, saw : Attendance, count : 0..Cardinality(Places),
           rows : [Thresholds -> Badge], alone : BOOLEAN, belt : 0..TopBelt]]
    /\ broken \in BOOLEAN /\ together \in BOOLEAN

AwardsInit ==
    /\ attended = [p \in Places |-> "unmarked"]
    /\ badge = [t \in Thresholds |-> "none"]
    /\ belts = [l \in Levels |-> 0]
    /\ mark = [r \in Marks |-> NoMark]
    /\ broken = FALSE /\ together = FALSE

Present == Cardinality({p \in Places : attended[p] = "present"})

Syncing == {r \in Marks : mark[r].at \in {"marked", "counted", "read", "saved", "granted"}}

-----------------------------------------------------------------------------
(* mark_child *)

LoadPlace(r, p) ==
    /\ mark[r].at = "idle"
    /\ mark' = [mark EXCEPT ![r].at = "loaded", ![r].place = {p}, ![r].saw = attended[p]]
    /\ UNCHANGED <<attended, badge, belts, broken, together>>

SaveAttended(r, value) ==
    /\ mark[r].at = "loaded"
    /\ attended' = [p \in Places |-> IF p \in mark[r].place /\ mark[r].saw # value
                                     THEN value ELSE attended[p]]
    /\ mark' = [q \in Marks |->
          IF q = r THEN [NoMark EXCEPT !.at = "marked", !.alone = (Syncing = {})]
          ELSE [mark[q] EXCEPT !.alone = FALSE]]
    /\ broken' = (broken \/ Syncing # {})
    /\ UNCHANGED <<badge, belts, together>>

-----------------------------------------------------------------------------
(* sync_milestones, in a transaction *)

CountAttended(r) ==
    /\ mark[r].at = "marked"
    /\ mark' = [mark EXCEPT ![r].at = "counted", ![r].count = Present]
    /\ UNCHANGED <<attended, badge, belts, broken, together>>

LoadBadges(r) ==
    /\ mark[r].at = "counted"
    /\ mark' = [mark EXCEPT ![r].at = "read", ![r].rows = badge]
    /\ UNCHANGED <<attended, badge, belts, broken, together>>

Unearned(m) == {t \in Thresholds : m.rows[t] # "earned"}

\* Mutant: a milestone that already has a row is not earned again.
EarnedNowFirst(m) == {t \in Thresholds : m.rows[t] = "none" /\ t <= m.count}

EarnedNow(m) == {t \in Unearned(m) : t <= m.count}

\* The next milestone up shows progress.
NextUp(m) == {t \in Unearned(m) : t > m.count /\ \A u \in Unearned(m) : u > m.count => t <= u}

Saves(m) == EarnedNow(m) \cup NextUp(m)

\* A row another transaction saved is waited for, and one it inserted makes
\* this insert fail, which rolls the whole sync back.
SaveBadges(r) ==
    /\ mark[r].at = "read"
    /\ \A q \in Marks \ {r} :
         mark[q].at \in {"saved", "granted"} => Saves(mark[q]) \cap Saves(mark[r]) = {}
    /\ LET fails == \E t \in Saves(mark[r]) : mark[r].rows[t] = "none" /\ badge[t] # "none"
       IN  /\ mark' = IF fails THEN [mark EXCEPT ![r] = NoMark]
                      ELSE [mark EXCEPT ![r].at = "saved"]
           /\ broken' = (broken \/ fails)
    /\ UNCHANGED <<attended, badge, belts, together>>

OthersAward(r) == \E q \in Marks \ {r} : mark[q].belt > 0

\* Above the child's current belt, if it has one.
AboveTheirs(level) == \A l \in Levels : belts[l] > 0 => level > l

\* award_belt for the milestone that grants one, by a membership that may.
GrantBelt(r) ==
    /\ mark[r].at = "saved"
    /\ \E may \in BOOLEAN :
         mark' = [mark EXCEPT ![r].at = "granted",
                     ![r].belt = IF may /\ Granting \in EarnedNow(mark[r]) /\ AboveTheirs(1)
                                 THEN 1 ELSE 0]
    /\ together' = (together \/ OthersAward(r))
    /\ UNCHANGED <<attended, badge, belts, broken>>

CommitSync(r) ==
    /\ mark[r].at = "granted"
    /\ mark[r].belt > 0 => belts[mark[r].belt] < MaxBelts
    /\ badge' = [t \in Thresholds |-> IF t \in EarnedNow(mark[r]) THEN "earned"
                                      ELSE IF t \in NextUp(mark[r]) THEN "progress"
                                      ELSE badge[t]]
    /\ belts' = [l \in Levels |-> belts[l] + IF l = mark[r].belt THEN 1 ELSE 0]
    /\ broken' = (broken /\ ~mark[r].alone)
    /\ mark' = [mark EXCEPT ![r] = NoMark]
    /\ UNCHANGED <<attended, together>>

\* The request dies; its transaction, if it has one, is rolled back.
AbandonMark(r) ==
    /\ mark[r].at # "idle"
    /\ broken' = (broken \/ r \in Syncing)
    /\ mark' = [mark EXCEPT ![r] = NoMark]
    /\ UNCHANGED <<attended, badge, belts, together>>

-----------------------------------------------------------------------------
(* award_belt by hand *)

\* Mutant: the current belt can be awarded.
CheckBeltAgain(r, level) ==
    /\ mark[r].at = "idle"
    /\ \A l \in Levels : belts[l] > 0 => level >= l
    /\ mark' = [mark EXCEPT ![r].at = "award", ![r].belt = level]
    /\ together' = (together \/ OthersAward(r))
    /\ UNCHANGED <<attended, badge, belts, broken>>

CheckBelt(r, level) ==
    /\ mark[r].at = "idle"
    /\ AboveTheirs(level)
    /\ mark' = [mark EXCEPT ![r].at = "award", ![r].belt = level]
    /\ together' = (together \/ OthersAward(r))
    /\ UNCHANGED <<attended, badge, belts, broken>>

AwardBelt(r) ==
    /\ mark[r].at = "award"
    /\ belts[mark[r].belt] < MaxBelts
    /\ belts' = [belts EXCEPT ![mark[r].belt] = @ + 1]
    /\ mark' = [mark EXCEPT ![r] = NoMark]
    /\ UNCHANGED <<attended, badge, broken, together>>

AwardsNext ==
    \E r \in Marks :
        \/ \E p \in Places : LoadPlace(r, p)
        \/ \E value \in Attendance : SaveAttended(r, value)
        \/ CountAttended(r) \/ LoadBadges(r) \/ SaveBadges(r) \/ GrantBelt(r) \/ CommitSync(r)
        \/ AbandonMark(r)
        \/ \E level \in Levels : CheckBelt(r, level)
        \/ AwardBelt(r)

AwardsSpec == AwardsInit /\ [][AwardsNext]_awardVars

-----------------------------------------------------------------------------
(* Properties *)

\* A milestone the child's attendance reaches is earned once the requests have
\* ended, unless one of them died or ran beside another; and then the next one
\* that runs alone makes good what they lost.
MilestonesFollowAttendance ==
    Syncing = {} /\ ~broken => \A t \in Thresholds : t <= Present => badge[t] = "earned"

\* The belts are a history that goes up (award_belt): whether by hand or for a
\* milestone, a level is awarded once, unless two requests were about to award
\* one and each had read the belts before the other's.
BeltsGoUp == ~together => \A l \in Levels : belts[l] <= 1

\* What the child wears and has earned is what its history says.
AwardsInv == AwardsTypeOK /\ MilestonesFollowAttendance /\ BeltsGoUp

=============================================================================
