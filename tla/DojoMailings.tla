---------------------------- MODULE DojoMailings ----------------------------
(***************************************************************************)
(* A dojo's own mailings (campaigns.dojo_views): its team writes drafts,   *)
(* edits, deletes, launches and stops them, each request on the row it     *)
(* loaded, while the mail of launched ones goes out.  A dojo launches only *)
(* so many mailings to its families in a month; mail to its own team does  *)
(* not count, nor does a mailing stopped before any of it went out.        *)
(*                                                                         *)
(* A mailing's text is a number.  How a launched campaign is queued, a     *)
(* chunk at a time, is in Campaigns, and a mail's way out in MailQueue:    *)
(* here each recipient's mail is queued, claimed and sent in one step.     *)
(* Other problems of a draft (an empty audience, no reply address, no      *)
(* template) depend on nothing that moves here and are left out.           *)
(***************************************************************************)
EXTENDS Integers, FiniteSets

CONSTANTS
    Mailings,
    Readers,      \* the accounts a mailing's audience resolves to
    TeamRequests, \* requests of the dojo's team at one time
    LaunchLimit,  \* MAILING_DOJO_MAILINGS_PER_30_DAYS
    LimitDays,    \* the days it looks back
    LastMailDay,  \* bound: the last day of the run
    MaxEdits      \* bound: drafts saved again

ASSUME MailingsAssumption ==
    /\ IsFiniteSet(Mailings)
    /\ LaunchLimit \in Nat \ {0} /\ LimitDays \in Nat
    /\ LastMailDay \in Nat \ {0} /\ MaxEdits \in Nat

VARIABLES
    day,
    mailing,    \* the Campaign rows
    letter,     \* per mailing and reader: the mail and the text it has
    request,    \* per request: how far it is, and the row it loaded
    edits,
    launched,   \* history: the day a mailing was last launched to families,
                \* 0 if it was not, and the text it had
    crossed     \* history: the mailings whose requests crossed, see SaveLaunch

mailingVars == <<day, mailing, letter, request, edits, launched, crossed>>

Row == [status : {"none", "draft", "queued", "completed", "cancelled", "deleted"},
        toFamilies : BOOLEAN,
        at : 0..LastMailDay, \* Campaign.launched_at, 0 when empty
        text : 0..MaxEdits + 1]

NoRow == [status |-> "none", toFamilies |-> FALSE, at |-> 0, text |-> 0]
NoLetter == [state |-> "none", text |-> 0]
NoRequest == [at |-> "idle", of |-> {}, saw |-> NoRow]

MailingsTypeOK ==
    /\ day \in 1..LastMailDay
    /\ mailing \in [Mailings -> Row]
    /\ letter \in [Mailings -> [Readers ->
          [state : {"none", "pending", "sending", "sent", "withdrawn"}, text : 0..MaxEdits + 1]]]
    /\ request \in [TeamRequests ->
          [at : {"idle", "loaded", "checked"}, of : SUBSET Mailings, saw : Row]]
    /\ edits \in 0..MaxEdits
    /\ launched \in [Mailings -> [on : 0..LastMailDay, text : 0..MaxEdits + 1]]
    /\ crossed \subseteq Mailings

MailingsInit ==
    /\ day = 1
    /\ mailing = [m \in Mailings |-> NoRow]
    /\ letter = [m \in Mailings |-> [u \in Readers |-> NoLetter]]
    /\ request = [p \in TeamRequests |-> NoRequest]
    /\ edits = 0
    /\ launched = [m \in Mailings |-> [on |-> 0, text |-> 0]]
    /\ crossed = {}

Some(m, state) == \E u \in Readers : letter[m][u].state = state

Done(p) == request' = [request EXCEPT ![p] = NoRequest]

-----------------------------------------------------------------------------
(* Drafts *)

\* dojo_mail_create
Create(m, toFamilies) ==
    /\ mailing[m].status = "none"
    /\ mailing' = [mailing EXCEPT ![m] = [NoRow EXCEPT !.status = "draft",
                                          !.toFamilies = toFamilies, !.text = 1]]
    /\ UNCHANGED <<day, letter, request, edits, launched, crossed>>

\* Every request loads its mailing, and goes by that row.
LoadMailing(p, m) ==
    /\ request[p].at = "idle" /\ mailing[m].status \notin {"none", "deleted"}
    /\ request' = [request EXCEPT ![p] = [at |-> "loaded", of |-> {m}, saw |-> mailing[m]]]
    /\ UNCHANGED <<day, mailing, letter, edits, launched, crossed>>

\* Mutant: a mailing stays editable until its mail is out.
EditableUntilOut(row) == row.status \in {"draft", "queued"}

IsEditable(row) == row.status = "draft"

Edited(row, toFamilies) == [row EXCEPT !.text = @ + 1, !.toFamilies = toFamilies]

\* The form writes the whole row it loaded: a launch of meanwhile is undone,
\* a deleted draft is back.
SaveDraft(p, toFamilies) ==
    /\ request[p].at = "loaded" /\ IsEditable(request[p].saw)
    /\ edits < MaxEdits /\ edits' = edits + 1
    /\ mailing' = [m \in Mailings |->
          IF m \in request[p].of THEN Edited(request[p].saw, toFamilies) ELSE mailing[m]]
    /\ crossed' = crossed \cup {m \in request[p].of : mailing[m].status # request[p].saw.status}
    /\ Done(p)
    /\ UNCHANGED <<day, letter, launched>>

DeleteDraft(p) ==
    /\ request[p].at = "loaded" /\ IsEditable(request[p].saw)
    /\ mailing' = [m \in Mailings |-> IF m \in request[p].of
                                      THEN [mailing[m] EXCEPT !.status = "deleted"]
                                      ELSE mailing[m]]
    /\ crossed' = crossed \cup {m \in request[p].of : mailing[m].status # "draft"}
    /\ Done(p)
    /\ UNCHANGED <<day, letter, edits, launched>>

-----------------------------------------------------------------------------
(* launch and cancel *)

\* Mutant: a mailing that was stopped never counts.
LaunchesNotStopped == Cardinality({m \in Mailings :
    /\ mailing[m].status \in {"draft", "queued", "completed"}
    /\ mailing[m].toFamilies /\ mailing[m].at > 0
    /\ day - mailing[m].at <= LimitDays})

\* dojo_launches: a stopped one counts when some of its mail went out.
Launches == Cardinality({m \in Mailings :
    /\ mailing[m].status \in {"draft", "queued", "completed", "cancelled"}
    /\ mailing[m].toFamilies /\ mailing[m].at > 0
    /\ day - mailing[m].at <= LimitDays
    /\ mailing[m].status = "cancelled" => Some(m, "sent")})

\* Mutant: the limit may be passed by one.
BelowLimitOrAt(row) == row.toFamilies => Launches <= LaunchLimit

BelowLimit(row) == row.toFamilies => Launches < LaunchLimit

\* launch_problems, of the row that was loaded and the launches of now.
CheckLaunch(p) ==
    /\ request[p].at = "loaded"
    /\ request[p].saw.status = "draft" /\ BelowLimit(request[p].saw)
    /\ request' = [request EXCEPT ![p].at = "checked"]
    /\ UNCHANGED <<day, mailing, letter, edits, launched, crossed>>

\* A row that was deleted cannot be updated: the request fails.  Requests
\* cross when the row is no longer what was checked, or another mailing's
\* launch was checked before this one counts.
SaveLaunch(p) ==
    /\ request[p].at = "checked"
    /\ LET ms == {m \in request[p].of : mailing[m].status # "deleted"}
       IN  /\ mailing' = [m \in Mailings |->
                 IF m \in ms THEN [mailing[m] EXCEPT !.status = "queued", !.at = day]
                 ELSE mailing[m]]
           /\ launched' = [m \in Mailings |->
                 IF m \in ms
                 THEN [on |-> IF mailing[m].toFamilies THEN day ELSE 0, text |-> mailing[m].text]
                 ELSE launched[m]]
           /\ crossed' = crossed
                \cup {m \in ms : \/ mailing[m].status # "draft"
                                 \/ mailing[m].toFamilies # request[p].saw.toFamilies}
                \cup UNION {request[q].of : q \in {r \in TeamRequests \ {p} : request[r].at = "checked"}}
    /\ Done(p)
    /\ UNCHANGED <<day, letter, edits>>

\* Mutant: the mail that waits is left to go out.
WithdrawNothing(m) == letter[m]

\* _withdraw
Withdrawn(m) ==
    [u \in Readers |-> IF letter[m][u].state = "pending"
                       THEN [letter[m][u] EXCEPT !.state = "withdrawn"] ELSE letter[m][u]]

\* What was claimed before still goes out: a mailing that did not count when
\* it was stopped does so later, and crosses the next launch.
StopMailing(p) ==
    /\ request[p].at = "loaded" /\ request[p].saw.status = "queued"
    /\ LET ms == {m \in request[p].of : mailing[m].status # "deleted"}
       IN  /\ mailing' = [m \in Mailings |-> IF m \in ms
                                             THEN [mailing[m] EXCEPT !.status = "cancelled"]
                                             ELSE mailing[m]]
           /\ letter' = [m \in Mailings |-> IF m \in ms THEN Withdrawn(m) ELSE letter[m]]
           /\ crossed' = crossed \cup {m \in ms : Some(m, "sending") /\ ~Some(m, "sent")}
    /\ Done(p)
    /\ UNCHANGED <<day, edits, launched>>

\* A request that is refused, or dies.
EndRequest(p) ==
    /\ request[p] # NoRequest
    /\ Done(p)
    /\ UNCHANGED <<day, mailing, letter, edits, launched, crossed>>

-----------------------------------------------------------------------------
(* The mail goes out *)

\* queue_chunk: a reader who has this mailing's mail does not get another.
QueueLetter(m, u) ==
    /\ mailing[m].status = "queued" /\ letter[m][u].state = "none"
    /\ letter' = [letter EXCEPT ![m][u] = [state |-> "pending", text |-> mailing[m].text]]
    /\ UNCHANGED <<day, mailing, request, edits, launched, crossed>>

LetterMoves(m, u) ==
    /\ letter[m][u].state \in {"pending", "sending"}
    /\ letter' = [letter EXCEPT ![m][u].state = IF @ = "pending" THEN "sending" ELSE "sent"]
    /\ UNCHANGED <<day, mailing, request, edits, launched, crossed>>

\* launch_due
CompleteMailing(m) ==
    /\ mailing[m].status = "queued"
    /\ ~\E state \in {"none", "pending", "sending"} : Some(m, state)
    /\ mailing' = [mailing EXCEPT ![m].status = "completed"]
    /\ UNCHANGED <<day, letter, request, edits, launched, crossed>>

MailDayPasses ==
    /\ day < LastMailDay
    /\ day' = day + 1
    /\ UNCHANGED <<mailing, letter, request, edits, launched, crossed>>

MailingsNext ==
    \/ \E m \in Mailings, f \in BOOLEAN : Create(m, f)
    \/ \E p \in TeamRequests :
         \/ \E m \in Mailings : LoadMailing(p, m)
         \/ \E f \in BOOLEAN : SaveDraft(p, f)
         \/ DeleteDraft(p) \/ CheckLaunch(p) \/ SaveLaunch(p) \/ StopMailing(p) \/ EndRequest(p)
    \/ \E m \in Mailings : CompleteMailing(m)
    \/ \E m \in Mailings, u \in Readers : QueueLetter(m, u) \/ LetterMoves(m, u)
    \/ MailDayPasses

MailingsSpec == MailingsInit /\ [][MailingsNext]_mailingVars

-----------------------------------------------------------------------------
(* Properties *)

\* Families of a dojo get mail of no more mailings in a month than it may
\* launch, although neither the count nor the launch is locked and a stopped
\* mailing gives its turn back.  Only mailings whose requests crossed come on
\* top (services.py:89, settings.py:244).
FamiliesAreNotFlooded ==
    Cardinality({m \in Mailings \ crossed :
        /\ launched[m].on > 0 /\ day - launched[m].on <= LimitDays
        /\ Some(m, "sent")}) <= LaunchLimit

\* What goes out is what was launched, in the text it had then, and nothing
\* goes out of a draft, nor, once it was stopped, what was not claimed by
\* then.  Unless the form, the launch or the bin were open on it at once
\* (dojo_views.py:119, services.py:229).
WhatWasLaunchedGoesOut ==
    \A m \in Mailings \ crossed :
        /\ \A u \in Readers :
             letter[m][u].state # "none" => letter[m][u].text = launched[m].text
        /\ Some(m, "pending") => mailing[m].status = "queued"
        /\ mailing[m].status \in {"draft", "deleted"} => letter[m] = [u \in Readers |-> NoLetter]

\* The invariant of this part of the runs: the limit and the text hold.
MailingsInv == MailingsTypeOK /\ FamiliesAreNotFlooded /\ WhatWasLaunchedGoesOut
=============================================================================
