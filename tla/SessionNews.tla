---------------------------- MODULE SessionNews ----------------------------
(***************************************************************************)
(* The daily mail about a dojo's new sessions                              *)
(* (mailing.automated.announce_new_sessions): one mail per family that     *)
(* lists the upcoming sessions without an `announced_at`, which is set     *)
(* once every family of the dojo has its mail.  The mail's key names the   *)
(* sessions and the family, so a run that stops halfway can be run again.  *)
(*                                                                         *)
(* Upcoming is a session whose status is open and whose start_time is      *)
(* still ahead: one that starts before the next run is never announced.    *)
(*                                                                         *)
(* One dojo, which stays active.  Whether a family wants the mail (send)   *)
(* decides the status of its row, see MailQueue; a session's other changes *)
(* are in Registrations.                                                   *)
(***************************************************************************)
EXTENDS Integers, FiniteSets

CONSTANTS
    Sessions,
    Families,     \* family_accounts: guardians, and logins of children
    NewsWorkers,  \* runs of the task at one time
    MaxNewsFaults \* bound: runs that stop halfway

ASSUME SessionNewsAssumption == MaxNewsFaults \in Nat

VARIABLES
    upcoming,  \* sessions whose status is open and whose start_time is ahead
    published, \* sessions with a published_at
    announced, \* sessions with an announced_at
    page,      \* a request with a session's form: the announced_at it loaded
    belongs,   \* families with a child of the dojo
    news,      \* EmailMessage rows: the family and the sessions in its key
    newsRun,   \* per worker: its run
    newsFaults,
    waits,     \* history: families of the dojo ever since a session was published
    unsettled  \* history: sessions of a run that stopped, overlapped or was undone

newsVars == <<upcoming, published, announced, page, belongs, news, newsRun, newsFaults,
              waits, unsettled>>

\* Bound: one form is saved at a time.
NoPage == [loaded |-> "no", session |-> {}]

IdleNews == [at |-> "idle", list |-> {}, left |-> {}]

NewsTypeOK ==
    /\ upcoming \subseteq published /\ announced \subseteq published
    /\ published \subseteq Sessions /\ unsettled \subseteq Sessions
    /\ page \in [loaded : {"no", "announced", "new"}, session : SUBSET Sessions]
    /\ belongs \subseteq Families
    /\ news \subseteq [family : Families, list : SUBSET Sessions]
    /\ newsRun \in [NewsWorkers -> [at : {"idle", "listed", "mailing"},
                                    list : SUBSET Sessions, left : SUBSET Families]]
    /\ newsFaults \in 0..MaxNewsFaults
    /\ waits \in [Sessions -> SUBSET Families]

NewsInit ==
    /\ upcoming = {} /\ published = {} /\ announced = {}
    /\ page = NoPage
    /\ belongs \in SUBSET Families
    /\ news = {}
    /\ newsRun = [w \in NewsWorkers |-> IdleNews]
    /\ newsFaults = 0
    /\ waits = [e \in Sessions |-> {}]
    /\ unsettled = {}

-----------------------------------------------------------------------------
(* The dojo's team and its families *)

\* Opened, for the first time or again, or moved to a day that is ahead.
OpenSession(e) ==
    /\ e \notin upcoming
    /\ upcoming' = upcoming \cup {e}
    /\ published' = published \cup {e}
    /\ waits' = IF e \in published THEN waits ELSE [waits EXCEPT ![e] = belongs]
    /\ UNCHANGED <<announced, page, belongs, news, newsRun, newsFaults, unsettled>>

\* Closed, full or called off.
CloseSession(e) ==
    /\ e \in upcoming
    /\ upcoming' = upcoming \ {e}
    /\ UNCHANGED <<published, announced, page, belongs, news, newsRun, newsFaults,
                   waits, unsettled>>

\* Still open, but a run that begins now passes it over.
StartTimePasses(e) == CloseSession(e)

LoadSessionForm(e) ==
    /\ e \in published /\ page = NoPage
    /\ page' = [loaded |-> IF e \in announced THEN "announced" ELSE "new", session |-> {e}]
    /\ UNCHANGED <<upcoming, published, announced, belongs, news, newsRun, newsFaults,
                   waits, unsettled>>

\* form.save() writes the whole row: the announced_at and the status it loaded,
\* and the times posted, by which the next run lists the session or not.
SaveSessionForm ==
    /\ page # NoPage
    /\ \E lists \in BOOLEAN :
         upcoming' = IF lists THEN upcoming \cup page.session ELSE upcoming \ page.session
    /\ announced' = IF page.loaded = "announced" THEN announced \cup page.session
                    ELSE announced \ page.session
    /\ unsettled' = unsettled \cup (announced \ announced')
    /\ page' = NoPage
    /\ UNCHANGED <<published, belongs, news, newsRun, newsFaults, waits>>

\* A child picks another home dojo, or becomes one of this dojo's.
MoveFamily(f) ==
    /\ belongs' = IF f \in belongs THEN belongs \ {f} ELSE belongs \cup {f}
    /\ waits' = [e \in Sessions |-> waits[e] \cap belongs']
    /\ UNCHANGED <<upcoming, published, announced, page, news, newsRun, newsFaults, unsettled>>

-----------------------------------------------------------------------------
(* The run *)

\* Mutant: sessions that were told are listed again.
NewOpen == upcoming

\* Mutant: a session any family was told about counts as announced.
NewUntold == {e \in upcoming \ announced : \A m \in news : e \notin m.list}

\* status=OPEN, announced_at__isnull=True, start_time__gt=now.
New == upcoming \ announced

ListSessions(w) ==
    /\ newsRun[w].at = "idle" /\ New # {}
    /\ newsRun' = [newsRun EXCEPT ![w] = [IdleNews EXCEPT !.at = "listed", !.list = New]]
    /\ unsettled' = unsettled \cup (New \cap UNION {newsRun[v].list : v \in NewsWorkers})
    /\ UNCHANGED <<upcoming, published, announced, page, belongs, news, newsFaults, waits>>

ListFamilies(w) ==
    /\ newsRun[w].at = "listed"
    /\ newsRun' = [newsRun EXCEPT ![w].at = "mailing", ![w].left = belongs]
    /\ UNCHANGED <<upcoming, published, announced, page, belongs, news, newsFaults, waits, unsettled>>

\* _queue(): a family that has a mail with this key gets no other.
MailFamily(w) ==
    /\ newsRun[w].at = "mailing"
    /\ \E f \in newsRun[w].left :
         /\ news' = news \cup {[family |-> f, list |-> newsRun[w].list]}
         /\ newsRun' = [newsRun EXCEPT ![w].left = @ \ {f}]
    /\ UNCHANGED <<upcoming, published, announced, page, belongs, newsFaults, waits, unsettled>>

\* Mutant: the sessions are marked before the families have their mail.
MarkAnnouncedEarly(w) ==
    /\ newsRun[w].at = "mailing"
    /\ announced' = announced \cup newsRun[w].list
    /\ newsRun' = [newsRun EXCEPT ![w] = IF newsRun[w].left = {} THEN IdleNews ELSE newsRun[w]]
    /\ UNCHANGED <<upcoming, published, page, belongs, news, newsFaults, waits, unsettled>>

MarkAnnounced(w) ==
    /\ newsRun[w].at = "mailing" /\ newsRun[w].left = {}
    /\ announced' = announced \cup newsRun[w].list
    /\ newsRun' = [newsRun EXCEPT ![w] = IdleNews]
    /\ UNCHANGED <<upcoming, published, page, belongs, news, newsFaults, waits, unsettled>>

\* The worker dies, or the mail's template is gone.
StopHalfway(w) ==
    /\ newsRun[w].at # "idle" /\ newsFaults < MaxNewsFaults
    /\ newsFaults' = newsFaults + 1
    /\ unsettled' = unsettled \cup newsRun[w].list
    /\ newsRun' = [newsRun EXCEPT ![w] = IdleNews]
    /\ UNCHANGED <<upcoming, published, announced, page, belongs, news, waits>>

NewsStep(w) == ListSessions(w) \/ ListFamilies(w) \/ MailFamily(w) \/ MarkAnnounced(w)

NewsNext ==
    \/ \E e \in Sessions : OpenSession(e) \/ CloseSession(e) \/ StartTimePasses(e)
                           \/ LoadSessionForm(e)
    \/ SaveSessionForm
    \/ \E f \in Families : MoveFamily(f)
    \/ \E w \in NewsWorkers : NewsStep(w) \/ StopHalfway(w)

NewsSpec == NewsInit /\ [][NewsNext]_newsVars

-----------------------------------------------------------------------------
(* Properties *)

Told(f, e) == \E m \in news : m.family = f /\ e \in m.list

\* An announced session was told to every family that belonged to the dojo
\* ever since it was published: announced_at takes the session off every later
\* list, so a family a stopped run left out would never hear of it.
AnnouncedMeansTold == \A e \in announced : \A f \in waits[e] : Told(f, e)

\* No family hears twice of a session, whatever closes and opens it again,
\* unless a run with the session stopped halfway, two runs had it at once, or a
\* saved form took its announced_at back: then a list of other sessions makes
\* another key.
ToldOnce ==
    \A m, n \in news : m # n /\ m.family = n.family => m.list \cap n.list \subseteq unsettled

\* A session that stays open, with its start ahead, is announced, whichever
\* runs stop and forms undo.  One that is closed or starts before the next run
\* is not: its families are never told.
UpcomingSessionsAreTold ==
    \A e \in Sessions : []<>(e \notin upcoming \/ e \in announced)

\* Announced sessions were told to every family, and to none of them twice.
NewsInv == NewsTypeOK /\ AnnouncedMeansTold /\ ToldOnce

=============================================================================
