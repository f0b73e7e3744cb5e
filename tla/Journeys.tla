------------------------------ MODULE Journeys ------------------------------
(***************************************************************************)
(* A journey (campaigns.journeys): a standing campaign whose mail goes,    *)
(* every day at 18:00, to the accounts that match its segment and did not  *)
(* get it within its cool-down.  The daily run is a Celery task that is    *)
(* handed out again when its worker dies, or when the broker no longer     *)
(* waits for it; it lists who is due once, and then queues a mail and      *)
(* writes a delivery row per account.                                      *)
(*                                                                         *)
(* Mails and delivery rows are kept as ages in days, up to the cool-down.  *)
(* Other journeys run in the same way.  Whether the account wants the mail *)
(* (send) decides the status of its row, see MailQueue.                    *)
(***************************************************************************)
EXTENDS Integers, FiniteSets

CONSTANTS
    Readers,   \* accounts the segment may match
    Workers,   \* runs of the task at one time
    Cooldown,  \* Journey.cooldown_days
    MaxFaults  \* bound: dead workers and tasks handed out twice

ASSUME JourneysAssumption == Cooldown \in Nat \ {0} /\ MaxFaults \in Nat

VARIABLES
    active,    \* Journey.is_active
    ready,     \* whether problems() is empty
    editing,   \* the is_active a request with the form loaded
    matching,  \* the audience today
    mailed,    \* mails per account: the day in their key, the day they were queued
    delivered, \* JourneyDelivery rows per account: the days they were made
    ran,       \* whether today's task was taken
    run,       \* per worker: its run
    faults,
    slipped    \* history: accounts a fault may have mailed twice

journeyVars == <<active, ready, editing, matching, mailed, delivered, ran, run, faults, slipped>>

Ages == 0..Cooldown
Older == Cooldown + 1 \* the age of every row made before those

NoRun == [at |-> "idle", day |-> 0, left |-> {}, user |-> {}]

JourneysTypeOK ==
    /\ active \in BOOLEAN /\ ready \in BOOLEAN /\ ran \in BOOLEAN
    /\ editing \in {"no", "active", "paused"}
    /\ matching \subseteq Readers /\ slipped \subseteq Readers
    /\ mailed \in [Readers -> SUBSET [key : Ages, queued : Ages]]
    /\ delivered \in [Readers -> SUBSET (Ages \cup {Older})]
    /\ run \in [Workers -> [at : {"idle", "mail", "row"}, day : 0..1,
                            left : SUBSET Readers, user : SUBSET Readers]]
    /\ faults \in 0..MaxFaults

JourneysInit ==
    /\ active = FALSE /\ ready = TRUE /\ editing = "no"
    /\ matching = {}
    /\ mailed = [u \in Readers |-> {}]
    /\ delivered = [u \in Readers |-> {}]
    /\ ran = FALSE
    /\ run = [w \in Workers |-> NoRun]
    /\ faults = 0
    /\ slipped = {}

-----------------------------------------------------------------------------
(* Staff, and the children the segment is about *)

Activate ==
    /\ ready
    /\ active' = TRUE
    /\ UNCHANGED <<ready, editing, matching, mailed, delivered, ran, run, faults, slipped>>

Pause ==
    /\ active' = FALSE
    /\ UNCHANGED <<ready, editing, matching, mailed, delivered, ran, run, faults, slipped>>

\* journey_detail saves the row it loaded, is_active included.
LoadForm ==
    /\ editing = "no"
    /\ editing' = IF active THEN "active" ELSE "paused"
    /\ UNCHANGED <<active, ready, matching, mailed, delivered, ran, run, faults, slipped>>

SaveForm ==
    /\ editing # "no"
    /\ active' = (editing = "active")
    /\ ready' \in BOOLEAN
    /\ editing' = "no"
    /\ UNCHANGED <<matching, mailed, delivered, ran, run, faults, slipped>>

ChangeAudience(u) ==
    /\ matching' = IF u \in matching THEN matching \ {u} ELSE matching \cup {u}
    /\ UNCHANGED <<active, ready, editing, mailed, delivered, ran, run, faults, slipped>>

-----------------------------------------------------------------------------
(* The daily run *)

\* A delivery as old as the cool-down counts or not, by the hour of the two runs.
Recent(atTheHour) ==
    {u \in Readers : \/ \E a \in delivered[u] : a < Cooldown
                     \/ u \in atTheHour}

OnTheLastDay == {u \in Readers : Cooldown \in delivered[u]}

\* Mutant: the cool-down is counted from the day after the delivery.
DueEarly(atTheHour) ==
    matching \ {u \in Readers : \E a \in delivered[u] : a < Cooldown - 1}

\* Mutant: who ever got it is left out.
DueOnce(atTheHour) == matching \ {u \in Readers : delivered[u] # {}}

Due(atTheHour) == matching \ Recent(atTheHour)

\* The list of another run that was taken on another day.
ListedElsewhere == UNION {run[w].left : w \in {w \in Workers : run[w].day = 1}}

BeginRun(w) ==
    /\ run[w].at = "idle"
    /\ \E atTheHour \in SUBSET OnTheLastDay :
         LET list == IF active /\ ready THEN Due(atTheHour) ELSE {}
         IN  /\ run' = [run EXCEPT ![w] = [NoRun EXCEPT !.at = "mail", !.left = list]]
             /\ slipped' = slipped \cup (list \cap ListedElsewhere)

StartRun(w) ==
    /\ ~ran
    /\ ran' = TRUE
    /\ BeginRun(w)
    /\ UNCHANGED <<active, ready, editing, matching, mailed, delivered, faults>>

\* The broker hands out a task it was not told the end of in time.
StartAgain(w) ==
    /\ faults < MaxFaults
    /\ \E v \in Workers : run[v].at # "idle"
    /\ faults' = faults + 1
    /\ BeginRun(w)
    /\ UNCHANGED <<active, ready, editing, matching, mailed, delivered, ran>>

\* send(): one mail per account and the run's day.
QueueMail(w) ==
    /\ run[w].at = "mail"
    /\ \E u \in run[w].left :
         /\ mailed' = IF \E m \in mailed[u] : m.key = run[w].day THEN mailed
                      ELSE [mailed EXCEPT ![u] = @ \cup {[key |-> run[w].day, queued |-> 0]}]
         /\ run' = [run EXCEPT ![w].at = "row", ![w].user = {u}]
    /\ UNCHANGED <<active, ready, editing, matching, delivered, ran, faults, slipped>>

NoteDelivery(w) ==
    /\ run[w].at = "row"
    /\ delivered' = [u \in Readers |-> IF u \in run[w].user THEN delivered[u] \cup {0}
                                       ELSE delivered[u]]
    /\ run' = [run EXCEPT ![w].at = "mail", ![w].user = {}, ![w].left = @ \ run[w].user]
    /\ UNCHANGED <<active, ready, editing, matching, mailed, ran, faults, slipped>>

EndRun(w) ==
    /\ run[w].at = "mail" /\ run[w].left = {}
    /\ run' = [run EXCEPT ![w] = NoRun]
    /\ UNCHANGED <<active, ready, editing, matching, mailed, delivered, ran, faults, slipped>>

\* The worker dies, and its task goes back to the queue.
WorkerDies(w) ==
    /\ run[w].at # "idle" /\ faults < MaxFaults
    /\ faults' = faults + 1
    /\ slipped' = slipped \cup run[w].user
    /\ ran' = FALSE
    /\ run' = [run EXCEPT ![w] = NoRun]
    /\ UNCHANGED <<active, ready, editing, matching, mailed, delivered>>

\* A task nobody took by midnight has expired.  Bound: a run ends the day after
\* the one it began on.
Midnight ==
    /\ \A w \in Workers : run[w].day = 0
    /\ ran' = FALSE
    /\ run' = [w \in Workers |-> IF run[w].at = "idle" THEN NoRun ELSE [run[w] EXCEPT !.day = 1]]
    /\ mailed' = [u \in Readers |->
          {[key |-> m.key + 1, queued |-> m.queued + 1] : m \in {m \in mailed[u] : m.key < Cooldown}}]
    /\ delivered' = [u \in Readers |-> {IF a = Older THEN a ELSE a + 1 : a \in delivered[u]}]
    /\ UNCHANGED <<active, ready, editing, matching, faults, slipped>>

WorkerStep(w) == StartRun(w) \/ QueueMail(w) \/ NoteDelivery(w) \/ EndRun(w)

JourneysNext ==
    \/ Activate \/ Pause \/ LoadForm \/ SaveForm
    \/ \E u \in Readers : ChangeAudience(u)
    \/ \E w \in Workers : WorkerStep(w) \/ StartAgain(w) \/ WorkerDies(w)
    \/ Midnight

JourneysSpec == JourneysInit /\ [][JourneysNext]_journeyVars

-----------------------------------------------------------------------------
(* Properties *)

\* "At most once per cooldown_days" (Journey): unless its worker died between
\* the mail and the delivery row, or two days' runs were at work at once, an
\* account's mails are a cool-down apart, whoever pauses, edits, matches again
\* or hands the task out twice.
CooldownKept ==
    \A u \in Readers \ slipped : \A m, n \in mailed[u] :
        m.queued < n.queued => n.queued - m.queued >= Cooldown

\* Who keeps matching an active journey gets its mail again and again: the
\* cool-down ends, and neither pauses nor dead workers lose an account for good.
StaysInTouch ==
    \A u \in Readers :
        []<>(\/ ~active \/ ~ready \/ u \notin matching
             \/ \E m \in mailed[u] : m.queued = 0)

\* The types, and the promise of the cool-down.
JourneysInv == JourneysTypeOK /\ CooldownKept

=============================================================================
