# Verification of the CoderDojo Belgium registration platform

TLA+ specifications of the parts of the platform where requests, tasks and
messages meet: sign-ups and the waiting list, the mail queue and what feeds it
(campaigns, journeys, dojo mailings, the news of new sessions), families
(guardians, attendance, belts, engagement, images), dojos (teams, background
checks, questions, notices, addresses), accounts (roles, invitations, login
links, two-step login, erasure) and the nightly jobs. TLC checks each on small
instances; TLAPS proves most of them for instances of any size. Every
definition is translated from the Python source; a comment gives the file and
the line where it matters.

## How the system runs, and what that means for a model

The platform is one Django application on MySQL, with Redis as cache and
Celery broker.

* **Web requests** run concurrently in gunicorn. There is no
  `ATOMIC_REQUESTS`: a view is a sequence of autocommitted statements unless
  it opens a `transaction.atomic()`. MySQL runs at READ COMMITTED. So between
  two statements of one request any other request may commit, a plain read
  sees the last commit, and only a `select_for_update()` makes a request wait.
  `instance.save()` writes back every column of the row it loaded,
  `save(update_fields=...)` and `update()` only what they name.
* **Beat** starts tasks periodically (`website/settings.py`,
  `CELERY_BEAT_SCHEDULE`), in production from the one `periodic` worker.
* **Two workers** of one process each run them: `periodic` and `mailing`
  (`LEVEL27_DEPLOYMENT.md`). A task is acknowledged when it ends
  (`CELERY_TASK_ACKS_LATE`), so a worker that dies has its message handed out
  again; a task past its time limit, or a broker that is flushed, loses it.
* **The cache** evicts keys when it is full (allkeys-lru).

What is modelled is therefore: which statement reads what, under which lock,
what it writes, and what can happen before the next one.

## Inventory

State and operations of each component, its interactions, what is hard about
it, and what makes it correct. `PROJECT.json` lists them with their status,
and every hazard with its line.

| Component | State | Operations | Interacts with | Correct when |
|---|---|---|---|---|
| **Sign-ups, places, waiting list** (`events/registrations.py`, `events/services.py`, `dojos/views/event_pages.py`, `events/forms.py`) | `Event.status/places/start_time`, `Registration` rows with a position and a waiting list flag, `RegistrationCancellation` log | `sign_up`, `cancel`, `fill_free_places`, session created, edited, status set, called off, planning sync | queues mail; families' and teams' pages and the API share the rows | no place is given twice, a freed place goes to who waits longest, every sign-up is accounted for, nobody is told of a place they do not have |
| **Mail queue** (`mailing/services.py`, `tasks.py`, `queue_actions.py`) | `EmailMessage` rows (status, claimed_at), `EmailSuppression`, `BlockedDomain`, messages in the broker | `send`, dispatch (count, claim, publish), batch (send, record, retry), requeue, resend, block | every component queues mail; SMTP server, broker, workers | a row says what happened to its mail, nobody is mailed twice but for a send nobody could record, the claim limit holds, every mail is decided |
| **Bounce mailbox** (`mailing/bounce.py`) | watermark, bounce rows | a message is read, matched, and blocks an address | the mail queue | no message is skipped, each is counted once, and the limit of soft ones blocks |
| **Campaigns** (`campaigns/services.py`, `tasks.py`) | `Campaign.status/queued_up_to/queued_at`, cache lock, `launch_campaign` messages | launch, cancel, start what is due, queue a chunk, hand the next on, complete | mail queue, cache, pages | one mail for everyone of the audience, none skipped; a cancelled campaign's waiting mail stays in; a launched campaign ends |
| **Dojo mailings** (`campaigns/dojo_views.py`, `forms.py`, `services.py`) | a team's `Campaign` rows, drafts first; launches of the last month | edit, delete, launch, stop | campaigns, mail queue | families get no more of them in a month than a dojo may send, in the text that was launched |
| **Journeys, automatic mail** (`campaigns/journeys.py`, `mailing/automated.py`) | delivery rows, `announced_at` | daily runs | mail queue | once to each person, also after a run that stopped halfway, and nobody is forgotten |
| **Guardians** (`accounts/guardian_invitations.py`) | `Guardianship` links, `GuardianInvitation` rows | invite, resend, withdraw, accept, remove, step down | erasure, mail | a child always has a parent or legal guardian; a withdrawn invitation makes nobody a guardian |
| **Erasure, deletion** (`privacy/erasure.py`, `deletion.py`, the command `privacy_replay_erasures`) | every personal row, `ErasureRecord` (which outlives a restore) | erase an account and the children only it is guardian of; replay after a restore | guardians, everything else | every row found of who is erased is emptied; they stay erased after a backup is restored |
| **Retention** (`privacy/retention.py`) | last activity, reminders | nightly reminders, erasures, clean-up | erasure, mail | nobody is erased without the reminders |
| **Session questions, notices** (`events/questions.py`, `notices.py`) | questions and answers; notices sent per day | edit questions, answer, send a notice | sign-ups, mail | answers belong to questions the family saw; the daily limit holds |
| **Attendance, belts, badges** (`events/attendance.py`, `awards.py`) | attendance on the registrations, `NinjaBadge`, `NinjaBelt` | mark, sync the milestones, award a belt | sign-ups | each milestone and belt once, and what attendance earns is earned |
| **Engagement figures** (`events/engagement.py`) | `NinjaEngagement`, `NinjaEngagementChange` | rebuilt every night in batches | sign-ups, attendance, dojos | the recorded changes of a child follow on, and the last is its stage |
| **Uploaded images** (`core/uploads.py`) | the image's name in the row, the files in storage | save with another image, delete | every page with a form, the erasure | the row's file is there; nothing nobody uses stays |
| **Dojo teams, lifecycle** (`dojos/team.py`) | memberships and roles, dojo status | request, accept, leave, transfer the champion role, dormant, archive | sessions, applications | one champion per active dojo; whoever manages it was checked; nobody waits for a dojo that rests |
| **Applications, background checks** (`applications/services.py`) | applications, documents, their decisions | submit, upload, approve, reject, expire | teams, accounts | one decision per document; who passed may help |
| **Organisation roles, invitations, admin access** (`accounts/organisation.py`, `invitations.py`, `admin_access.py`) | roles, invitations, time-limited grants | grant, invite, accept, withdraw, expire, end | sign-in | somebody can give roles; access ends with the last role; what ended stays ended |
| **Login links, email changes, children's logins** (`accounts/login_links.py`, `email_change.py`, `child_accounts.py`) | signed links, pending changes | ask, confirm, cancel | guardians, sign-in | a link works once, and only while what it rests on holds |
| **Sign-in policy, two-step** (`accounts/sign_in.py`, `middleware.py`, `two_step.py`) | the policy's rows, the account's methods and codes | what is asked today and announced for later, redirects, add and remove a method | roles, logins | what is announced comes then; a required method cannot be dropped |
| **Cache** (`core/caching.py`) | values under keys | get or build, clear on save | every page | an old value is served only where a late store put it back, and not for long |
| **Geocoding** (`geo/geocoding.py`) | answers, the slot and the back-off, all keys in Redis | look up an address, wait for the slot, back off | dojo settings, dojo finder, `import_dojos`; Nominatim | one call a second for all processes, none while told to stop; only answers are cached |
| **Notifications, API, pages, content, pathways, quality, reports, monitoring, load tests** | rows of their own | single-row edits, queries, rendering, measurements | | no interaction worth a model |

## Modules

| Module | Models | Source |
|---|---|---|
| `Registrations` | one session and all that happens to its places and its queue; each transaction under the session's row lock is one step | `events/registrations.py`, `services.py`, the event page's views and form |
| `BookingTransactions` | the same transactions statement by statement, with the lock, rollbacks and interleaved reads; extends `Registrations` and **refines** it | `events/registrations.py` |
| `MailQueue` | the life of mails in the queue, in the broker, at the server | `mailing/` |
| `BounceMailbox` | the reading of the bounce mailbox: runs, transactions, the log of handled messages | `mailing/bounce.py` |
| `Campaigns` | one campaign from launch to completion, over an abstract mail queue | `campaigns/` |
| `DojoMailings` | the mailings of one dojo's team: drafts, the limit, launch and stop | `campaigns/dojo_views.py`, `forms.py`, `services.py` |
| `Journeys` | a journey's daily run and its cool-down | `campaigns/journeys.py` |
| `SessionNews` | the daily mail about new sessions | `mailing/automated.py` |
| `SessionNotices` | the team's notices about one session | `events/notices.py` |
| `SignUpQuestions` | the questions of one session and the answers to them | `events/questions.py` |
| `Guardians` | one child's guardians, invitations, removals and erasure | `accounts/guardian_invitations.py`, `privacy/erasure.py` |
| `Awards` | one child's attendance, milestones and belts | `events/attendance.py`, `awards.py` |
| `Engagement` | the nightly rebuild of the stages | `events/engagement.py` |
| `Uploads` | the image of one row and the files in storage | `core/uploads.py` |
| `Vetting` | what is relied on about a volunteer: checked only after the log says so | (abstract) |
| `Applications` | background checks and applications; **refines** `Vetting` | `applications/services.py` |
| `DojoTeams` | one dojo's team and lifecycle, built on `Vetting` | `dojos/team.py` |
| `Geocoding` | the cache, the slot and the back-off around Nominatim | `geo/geocoding.py` |
| `OrganisationRoles` | organisation roles and admin access | `accounts/organisation_people.py`, `organisation.py`, `admin_access.py` |
| `OrganisationInvitations` | one address's invitations | `accounts/invitations.py`, `people.py` |
| `AccountLinks` | login links, resets, changes of address and of login method | `accounts/login_links.py`, `email_change.py`, `child_accounts.py` |
| `SignInPolicy` | what the policy asks of one account on which day, and where the site sends it | `accounts/sign_in.py`, `middleware.py`, `security_views.py` |
| `TwoStep` | one account's sign-in methods beside what its roles require | `accounts/two_step.py`, `security_views.py` |
| `Erasure` | erasures, the erasure log, a restored backup and the replay | `privacy/erasure.py`, `deletion.py` |
| `Retention` | reminders, dates and erasures of inactive accounts, night after night | `privacy/retention.py` |
| `SharedCache` | one key of the shared data caches | `core/caching.py` |
| `RegistrationsProofs`, `BookingTransactionsProofs` | proofs: the session's places and queue, and that the transactions implement them | |
| `MailQueueProofs`, `CampaignsProofs` | proofs: the mail queue with one dispatcher and one mailing process, and a dojo's own mailings; one campaign | |
| `FamiliesProofs` | proofs: `Guardians`, `Geocoding`, `Uploads`, `Awards`, `Engagement`, `Erasure` | |
| `DojosProofs` | proofs: `Applications` and that it implements `Vetting`; `DojoTeams`; `SignUpQuestions`, `SessionNotices` | |
| `JobsProofs` | proofs: `Journeys`, `SessionNews`, `BounceMailbox`, `SharedCache` | |
| `AccountsProofs` | proofs: `OrganisationInvitations`, `OrganisationRoles`, `TwoStep`, `AccountLinks`, `Retention`, `SignInPolicy` | |
| `MC...` | the instances for TLC | |

**Compositions.** Components that share rows are composed: a session's pages and
its bookings (`BookingTransactions` and `Registrations`), applications and teams
(through `Vetting`), guardians and deletions (`Guardians`), and what sends mail
over what mail does (`Campaigns`, `DojoMailings`, each with the mail queue
reduced to what it looks at: waits, is claimed, is out). Components that share
nothing are only *run* together, in an `MC...` module whose variable `part` says
which one moves: a product of their states would show nothing. A property of
such a run is one component's, or a conjunction named for what they have in
common.

**History variables.** Much of this code locks nothing, and under some overlaps
a promise does not hold. The properties say under exactly which: a variable
that no action reads (`raced`, `overlapped`, `met`, `twice`, `crossed`,
`restored`, ...; "history" or "observation" in its comment) records that the
overlap happened, and the property's condition names it. What is behind each
condition is listed under "Known from reading" below. Four sentences of the
repository that such an overlap contradicts are runs of their own that TLC
refutes; the others are quoted under "Said otherwise, and not run". Hazards
that a condition excepts are listed in `PROJECT.json` without a property, with
a note that says so.

### Registrations

`status`, `places` and `started` are the `Event` row; `reg` and `position` the
children's `Registration` rows; `bookingMails`, `promotedMails` and
`cancellations` count what was mailed and logged. `SignUp`, `Cancel`,
`CancelSession` and `SyncSession` are the functions that take the session's
row lock first, each one step. A family that ticks several children books them
in the order ticked (`rank`), and each confirmed one takes a place from the
next. `_promote` is `Promoted`: as many of the longest waiting as places are
*really* free, so that places a team lowered below the number of confirmed
children stay closed until enough cancel.

The team's pages lock nothing: `LoadSession` reads the row into `request[e]`,
`SaveForm` writes all of it back with the posted places, in one transaction,
and `FillFreePlaces` is the second one; `SaveStatus` writes the status column
only. `DropRequest` is an invalid form or a request that dies in between.

Left out: pathways and home dojos, written in the same transactions; the answers
to the session's questions (`SignUpQuestions`) and the notice when a session is
called off (`SessionNotices`).

### BookingTransactions

It extends `Registrations`, whose variables are what is committed, and adds
`holder` (the row lock) and `work` (what each
transaction has read and written so far). A family's request takes the lock
(`BeginSignUp`, `BeginCancel`), reads (`CheckChildren`, `FindRegistration`),
writes child by child (`BookChild`, `Promote`; `todo` is the set of ticked
children still to book, in whatever order they come), commits or rolls back. The
editor's fill does so too. Saves of the session's row wait for the lock, as
MySQL makes them; plain reads do not. `ImplementsRegistrations == R!Spec`
(over `TransactionsSpec`) states that every behaviour is one of `Registrations`. The mapping is the
identity but for `started`: a fill checks the start time before it promotes,
so a session that starts between the two is, to `Registrations`, one that
starts after the fill. `registrations` checks both: `part` says whether the
one-step operations or the transactions move.

### MailQueue

`status` is `EmailMessage.status` (with `none` and `checked` for a request
that has checked the address and not yet inserted the row). `dispatcher`
holds a run of `send_pending_emails` between its count, its claim and its
publishing; `batch` a `send_email_batch` message, queued or running, with the
row it is at. Each statement is a step, since only the claim is a
transaction. `delivered` counts what the SMTP server accepted and
`unrecorded` the times the answer was lost or the worker died before the
update: the two ghost counters that let the properties speak of what really
went out. `QueueInv`, which `endings` checks and TLAPS proves, is the
inductive invariant: `ClaimLimitKept` with the room a claim that is not yet
published counted on, batches worked through in their order, one of them
running, `RecordIsTruthful`, and that no batch still has a row that is sent.

### Guardians

`links` holds each adult's `Guardianship` (with or without parental
responsibility), `invited` the invitations' rows, and `joiner` and `leaver` the requests
between two statements. An acceptance and a removal hold a row lock between
reading and committing, so others may commit in between what they did not
lock; a withdrawal saves from the row its page loaded; an erasure decides
which children go before it deletes.

### Campaigns

`queuedUpTo`, `queuedAt` and `status` are the campaign's row, `rows` and
`mail` its `EmailMessage` rows, `lock` the cache key, `task` the
`launch_campaign` messages and how far each run is. A mail's way through
`MailQueue` is reduced to waiting, claimed and out, with the requeue of a
claimed one as a fault.

### DojoMailings

`mailing` holds the team's `Campaign` rows (audience, text, status),
`letter` the mail each makes, `request` the two requests that may have a row
loaded. The form, the launch and the bin check the row they loaded
(`IsEditable`, `CheckLaunch`), and save or delete it in a later step; the
launches of the month are counted in between (`Launches`). `launched` and
`crossed` are what the properties go by.

### Journeys, SessionNews, BounceMailbox

Each is a periodic task that lists what is due once and then works through the
list, an item at a time, with an idempotency key, a log or a delivery row that
lets the next run see what was done. `StartAgain` hands a task out again,
`WorkerDies`, `StopHalfway` and `StopReading` end one anywhere. `Journeys`
keeps mails and delivery rows by their age in days; `SessionNews` a mail's key
as the set of sessions it lists, beside the session form that saves
`announced_at` back, and lists a session only while it is open *and* its start
is ahead (`upcoming`, which `StartTimePasses` ends): one that starts before the
next daily run is never announced, and no property says it is; `BounceMailbox`
the log of handled messages per numbering of the mailbox, its records by which
of a message they are, and a transaction per message that another may overlap.

### SessionNotices, SignUpQuestions

Both have the session's row lock as a variable. A notice is written on a page,
checked against the last 24 hours under the lock, and saved; `notices` is how
many of each kind there are of each age, and `Sent` counts them row by row.
Adding a question
(`CheckRoom`, `AddQuestion`) and signing up (`CheckAnswers`, `SaveAnswers`)
take the lock; removing one and correcting an answer do not.

### Awards

`LoadPlace`, `SaveAttended` are the mark, `CountAttended` to `CommitSync` the
transaction that brings the milestones in line with it and may grant a belt
(`GrantBelt`); `CheckBelt` and `AwardBelt` award one by hand. Each badge row
is saved as it was loaded.

### Engagement

`place` is the attendance, `held` the sessions; `job` what a run loaded at its
start (the sessions it knows and which of them were marked) and the batch it
is at. `RebuildBatch` (one batch, one transaction) works out each child's rows from
its registrations as they are then and the sessions as they were, replaces
them, and replaces today's recorded change: `changes` are the rows of each child, which are
ordered by their days. A run may stop between two
batches, or at a registration whose session it does not know; another may be
started by hand the same day. The stage itself (`StageAt`) is the code's chain
of conditions over visits, windows and missed sessions.

### Uploads

`image` is the name in the row, `files` what is in storage; `uploading` how
far each save or delete is. Pages save in autocommit, so `on_commit` runs at
once and every statement is a step: look at the stored name (`Remember`),
write the file, save the whole row, ask who else uses the old file, delete it.
A name that is free may be given out again.

### Vetting, Applications, DojoTeams

`Vetting` has three sets: who was ever validated in the log, whose check is
valid now, whose application is approved. `Applications` has the columns, the
documents in storage, the log and the applications, and a request is two or
more steps that may stop in between; `ImplementsVetting` is its refinement.
`DojoTeams` takes a `Vet` step where `Applications` may do anything that
`Vetting` allows. Its requests load memberships and save whole rows
(`Finish...`).

### Geocoding

`cached`, `slot` and `backOff` are the keys in Redis, the last two as the
ticks left; `seek` is a process in `geocode()`: waiting (about to look for a
back-off), clear, asleep, holding a slot, asking. Time passes in `Tick`, and a
process may be held up between any two steps.

### OrganisationRoles, OrganisationInvitations, AccountLinks, TwoStep

Requests on an account's rows: each loads, checks and commits in steps of its
own, under the lock the code takes if it takes one. `OrganisationRoles` has
the job that closes expired grants beside the requests; a link in
`AccountLinks` is what its token was computed from, so that opening it compares;
`TwoStep` has the rows a removal's transaction deleted locked until it commits,
and read by everybody else until then; a removal that finds its default gone
names the first method left in a step of its own (`CommitRemove`).

### SignInPolicy

`rule` holds the policy's row of each role, `held` the account's roles,
`devices` the kinds of methods it has. `Enforced` and `Upcoming` are the two
passes of `requirements_for`, as functions of how many rows a pass has seen, in
the rows' order (`Stronger` and `Sooner` are what it makes of one row);
`SignInStatus` is what the middleware goes by (`Visit`). On the Sign-in security
page a session without its second step logs in again (`ConfirmFirst`), and what
the policy requires today stays (`RemoveDevices`).

### Erasure

`db` is the database as far as an erasure finds it: persons, team-page
profiles, guardianships, mails by the account they name (`EmailMessage.user`),
invitations by the address on the account. Mails that name no account (those
that carry an invitation: `send_to_address`, `user=None`) are found by no
erasure and are left out; `FoundRowsAreEmptied` does not speak of them.
`DeletePerson` and
`EraseOldChild` empty it in the code's order, since later look-ups go by what
earlier ones emptied. `BackUp` and `Restore` take `db` along and leave
`records`, the log; `ReplayStep` is the command, one record at a time, while
people use the site.

### Retention

`idle` is the days since each activity, `notice` the row of a reminder,
`mailed` and `told` what was mailed. The run lists its accounts, plans each
from what it reads (`Plan`) and handles it in a later step
(`HandleAccount`, or `HandleFails`).

### SharedCache

`version` numbers the commits of each table; a visitor builds a value from
several (`ReadTable`) and stores it, an editor deletes the key when it saves
and again after the commit. A change in bulk deletes nothing.

## What TLC checks

| Run | Shows | Instance |
|---|---|---|
| `registrations` | types; distinct positions; every sign-up accounted for; nobody waiting was promoted; no step overbooks; longest waiting first; only a change of places leaves a place idle; nobody overtakes a full session; a called-off session is not filled; the transactions implement the operations | 3 children, 1 team request, 2 places. Operations: each child signs up at most twice, four sign-ups in all. Transactions: 2 families, each child is booked once |
| `registrations_form` | **violated**: the form never touches the status (a session called off gets back the status a form had loaded) | 1 child, 1 team request, 1 place |
| `mails` | a mail's row is truthful and sent stays sent; families get no more dojo mailings than a dojo may send, in the text that was launched | 2 mails (one to an account), 2 batches of 2, 1 retry, 2 claims, 2 faults; 2 mailings, 2 requests, 1 family, a limit of 1, 2 days |
| `endings` | the queue's inductive invariant: the claim limit, batches in order, truthful rows; the retention job erases by the rule; every mail is decided and abandoned accounts go | 2 mails, batches of 1, limit 1, no retry, 1 fault; 1 account, a period of 3 days, reminders at 2 and 1; with fairness |
| `jobs` | the cool-down of a journey; announced means told, and told once; no bounce message is skipped or counted twice, the soft limit blocks; the one way an old value stays cached; nothing due is forgotten | two tasks of each kind at once, 1 fault; 1 reader; 2 sessions, 1 family; 2 messages, 2 numberings; 2 tables, 2 visitors, 1 editor; with fairness |
| `families` | a child keeps a responsible guardian, a withdrawal is final; milestones follow attendance, belts go up; recorded changes follow on and the last is the stage; a row's file is there and nothing is left behind; who is erased stays erased, and what is found of them is emptied | 3 adults, 2 invitations, 2 joining requests, 1 leaving; 2 places, 2 requests, 2 milestones, 2 belts; 2 children in 2 batches, 2 dojos, 3 sessions, 4 days, 3 rebuilds; 2 requests, 2 file names; 2 parents, a child and its login, 1 restore |
| `cache_at_once` | **violated**: a change shows at once unless a write skipped `save()` | 1 table, 1 visitor, 1 editor, 1 change |
| `guardians_race` | **violated**: a child keeps a responsible guardian when two leave at once | 2 adults, 2 leaving requests |
| `dojos` | applications implement `Vetting`, one decision per document, no forgotten document, one open application; one champion, checked managers, no requests while resting; few questions, all answered; the limit of notices; one call a second to Nominatim, none in a back-off, only answers cached | 1 applicant, 2 documents, 2 requests, 2 applications, 2 decisions; 2 adults, 1 ninja, 2 requests; 2 questions (1 at most), 1 child; a limit of 2 notices; 2 pages and 1 command, 2 texts |
| `accounts` | an admin remains, access ends with the last role and works until then; an invitation makes one account and gives its roles once; a link works once and not after its login was removed; the required method stays, one is the default; what the policy announces comes on that day, and nobody is asked for a method unannounced | 2 adults, the admin role, 2 grants, 2 requests and the job; 2 invitations; 1 link, 2 accounts, 2 addresses; 4 devices, 2 of them apps; 2 roles, 3 days |
| `campaigns` | nobody skipped; completed means all out; cancelled means withdrawn; every launched campaign ends | audience of 2 in chunks of 1, 2 messages, 2 pages, 1 crash, with fairness |
| `campaigns_twice` | **violated**: only a cancelled campaign's mail is withdrawn | audience of 2, 1 message, 2 pages |

Every property of a passing run has a mutant in `PROJECT.json`: a change of
one definition, of the kind a bug in that line would be, with which TLC finds
the property violated; one that is a conjunction of several has one for each
part that says more than the types. The mutated forms stand beside the originals.

### Why these bounds

* *Registrations*: three children are one who holds a place and two who wait,
  the least that can be promoted in the wrong order; two places let a family
  take the last one with its first child only, and let a team lower the places
  below the confirmed. Two sign-ups per child and four in all let one child
  cancel and come back beside two others: no property of the run counts sign-ups
  of different children, and what holds for any number of them is proved. One
  team request has every interleaving with families.
* *BookingTransactions*: two families and one editor contend for the lock, each
  child booked by one of them; a child that comes back is in the other part.
* *MailQueue*: two rows in one batch, or one each in two; a redelivered batch
  beside the batch a requeued row was claimed into; two faults let a send go
  unrecorded and its repair fail too. One dispatcher is what production has.
* *Campaigns*: chunks of one are several, a full one and then none; two
  messages let a run lose its lock to another; one crash at every point. The
  audience is frozen at launch, as in the code.
* *DojoMailings*: a limit of one mailing, reached by the first and tried by
  the second, launched by either of two requests; one family sees every mail,
  and `LastMailDay` = 2 leaves the month and comes back to a free turn. One
  edit tells the launched text from another.
* *Engagement*: a child known since the last night and a new one, in batches
  of their own; three sessions on three days at two dojos: nobody's
  attendance, one both may be marked at, one opened during the run. Three
  rebuilds are a nightly one, its repetition on the same day and the next
  night's. The thresholds are scaled down to days in which each of the seven
  stages is reached. `MarkedFor` = 1 allows an attendance put right after a
  rebuild saw it.
* *Uploads*: two requests are enough for every exception the properties name:
  one replaces, the other restores, overwrites or is given the freed name.
* *Geocoding*: a slot's interval is the tick; a page waits one, a back-off is
  longer than that, as in the code, and there are a short and a long one.
* *Guardians*: three adults are a leaver, who stays and who is invited.
* *DojoTeams*: two adults and two requests, so that a transfer meets the
  champion's leaving, a decision a stale one, and a settings form everything.
* *Applications*, *Organisation...*, *TwoStep*, *AccountLinks*: two requests
  overlap in every way; `MaxKinds`, `MaxMet` and `MaxPairs` = 1 let a
  behaviour have one *kind* of overlap, again and again, since each property
  excepts kinds one by one.
* *SignInPolicy*: two roles are two rules of any levels and dates in either
  combination; days 0 to 2 are today, the day something starts, and the day a
  stronger one does.
* *Erasure*: two parents (one a volunteer), a child and its login make every
  way a row is found; one restore, of a backup taken at any time.
* *Retention*: three days are the period, with both reminders inside it, and
  the notice two more.
* *Background tasks*: two at once, one fault, and two items of what is listed.

Bounds that exist only for TLC are named as such where they are declared.
`CHECK_DEADLOCK FALSE` stands where the system really stops: a campaign or a
mailing that ended, a child who was erased, an application that was decided.

Symmetry is used for safety only, over sets no property or definition
distinguishes; the parts of a run are given the same model values, so that a
symmetry of one is one of all. The runs with fairness use none.

### Fairness

* `MailQueue`: beat starts the dispatcher every 10 seconds and the requeue every
  15 minutes, and the mailing worker never stops for good (both processes are
  restarted), so each has weak fairness; that a claim gets old is the passing
  of time. Web requests, bounces and faults have none, and faults are bounded:
  with unbounded ones nothing is ever sent.
* `Campaigns`: `launch_due` runs every minute, tasks run, the mail queue
  decides every mail (which is what `EveryMailSettles` shows of it), and a lock
  expires after `LAUNCH_LOCK_SECONDS`. Pages have none.
* `Journeys`, `SessionNews`, `BounceMailbox`: a task that beat sent is taken
  and goes on (`WorkerStep`, `NewsStep`, `ReadingStep`), and a day ends.
  Faults are bounded.
* `SharedCache`: a key times out; requests go on once they have begun.
* `Retention`: days pass and the job is started every night. Strong fairness
  of `HandleAccount` says that a failure is not for ever: the next night tries
  again.

In a run of several parts the fairness is that of each part's own steps, and
nothing is assumed of a part that does not move.

## What is proved

Each theorem is for any number of children, mails, requests, workers, days, ...
and any bounds. What the constants have to be is assumed by name in the module
that declares them (finite sets where the code counts, natural limits, values
that differ), and TLC evaluates it in every run of that module. Five theorems
assume more, because the code's promise rests on how the site is deployed or
does not hold otherwise:

* `OneDispatcher` (`TheClaimLimitIsKept`, `TheQueueIsKept`) and
  `SenderCount = 1` (`TheRecordIsTruthful`, `WhatIsSentStaysSent`,
  `TheQueueIsKept`): beat's tasks run in the one process of the `periodic`
  worker, batches in the one of `mailing` ("concurrency 1",
  `DATA_MODEL_MAILING.md:498-500`);
* `OneLeaves` (`TheChildKeepsAGuardian`): no two adults leave at once;
  `guardians_race` shows what happens when they do.

An invariant is proved from an inductive one that implies it; below is what the
inductive one adds, which is the reason why the code is right.

### The session's places (`RegistrationsProofs`)

`SpecInv`: `Inv`, the four invariants at once (and one by one `TypeCorrect`,
`OneQueue`, `SignUpsAccountedFor`, `WaitingMeansNotPromoted`), and five
action properties: `PlacesAreNeverOverbooked`, `TheLongestWaitingGoFirst`,
`NoPlaceIsLeftIdle`, `TheQueueIsNotOvertaken`,
`CancelledSessionsStayAsTheyAre`.

`Inv` is inductive; most of its parts are not alone. `PositionsDistinct` needs
the types for `LastPosition` to be a maximum, and `NobodyWaitingWasPromoted`
needs `EverySignUpAccountedFor`: that a child who is not registered was mailed
at most one promotion per sign-up is kept only because each sign-up of theirs is
cancelled. The argument:

1. *Maxima.* `MaxOfNaturals`: `Max` of a non-empty finite set of naturals is in
   it and bounds it. It is proved from well-founded descent on the sets of
   larger elements, since the library proves no such fact about `Max`. Hence
   `LastPositionBounds`: no registration lies behind `LastPosition`, so new
   ones, ranked behind it by a bijection, share no position.
2. *Counting.* `FirstWaitingBound`: where positions are distinct, the first
   `n` of the queue are at most `n`: each child's number of predecessors is an
   injection into `0..n-1`. Hence `PromotedFits`: promoting leaves
   confirmed children within the capacity, or promotes nobody.
3. *Steps.* One lemma per operation that books (`SignUpKeepsInv`,
   `CancelKeepsInv`, `FillKeepsInv` for both ways of filling), one for those
   that touch the session only; `NextInv` puts them together.
4. *Actions.* `SignUpFits` (the children of one sign-up who get a place have
   ranks up to the number of free places, so there are no more of them) and
   `FillFits` give `NoOverbooking`; `PromotedAreFirst` and
   `StepsPromoteTheFirst` give `LongestWaitingFirst`. For idle places: a
   sign-up leaves one only if nobody waits, a cancellation and a fill promote
   until there is none. For overtaking: who signs up while somebody waits
   finds the session full.

### The transactions implement them (`BookingTransactionsProofs`)

`TransactionsImplementRegistrations` is the refinement, step by step: every
statement before the commit leaves what `Registrations` shows unchanged, and a
commit is the one step it stands for. `BookInv` says what the lock's holder
may rely on: what it has read of the session and its registrations is still so
(nobody else writes them without the lock), the children it has booked have the
next positions and the places that were left, and a cancellation or a fill
promotes whom `Registrations` would. `TransactionsKeepTheQueue` carries the
theorems above over: what holds of `Registrations` holds of the transactions.

### The mail queue (`MailQueueProofs`)

`QueueTypeCorrect`, `TheClaimLimitIsKept`, `TheRecordIsTruthful`,
`WhatIsSentStaysSent`, and all of `QueueInv` in `TheQueueIsKept`. The claim
limit needs `RoomIsThere`: between a dispatcher's count and its claim nobody
else claims, and everything else only makes room. The records need to know
which row a batch is at: the running batch's rows that are still to do were
not sent (`NothingSentIsSentAgain`), and two batches do not run at once, so a
message that is handed out twice finds the first one's rows as it left them.

### A dojo's own mailings (`MailQueueProofs`)

`FamiliesAreSpared`: `MailingsInv` for any mailings, readers, requests, limit
and days. The month's launches are counted by rows that a team may stop, edit or
delete meanwhile, so the inductive invariant counts what the history says
instead: `Counting` are the launches to families whose requests did not cross,
less those stopped before any mail of theirs went out. `MailingFits` ties each
of them to its row, so the code's own count is never lower
(`CountedByTheCode`), and keeps a stopped one from counting again by a mail that
was claimed before. `RoomLeft` is what a checked launch may rely on until it is
saved: there is still room, or another launch overtook it. Nothing is assumed
but that the dojo's mailings are finitely many.

### Campaigns (`CampaignsProofs`)

`CampaignsAreKept`: `CampaignInv` for any audience, chunks and overlapping
runs. `ChunkIsTheRest`: whoever is up to the end of a run's chunk has a mail or
is on the run's list; so `queued_up_to`, which only moves to the end of such a
chunk, skips nobody. `SomeoneWithdraws`: waiting mail of a cancelled campaign
has a run that will withdraw it, as long as none has crashed.

### Families (`FamiliesProofs`)

* *Guardians.* `AWithdrawalIsFinal`: an acceptance that is under way has its
  invitation open and locked (`AcceptedIsOpen`). `TheChildKeepsAGuardian`: the
  others that a leaver counted are still there (`OthersAreLeft`).
* *Geocoding.* `NominatimIsSpared`: the slot's key outlives who took it
  (`SlotOutlivesItsHolder`), the back-off lasts as long as the silence
  (`SilenceIsBackedOff`), and who is past its look for one looked before it
  was set (`WentAheadBefore`).
* *Uploads.* `TheImageIsThere`: every file is the row's, some request's that
  brings or deletes it, or abandoned (`EveryFileIsAccountedFor`); what was
  found unused stays so but in the excepted ways (`StaysUnused`).
* *Awards.* `MilestonesAndBeltsAreKept`: a sync that runs alone works with the
  attendance and the badges as they are (`AloneSeesAll`), and who awards a belt
  is the only one to (`OneAwardsANewBelt`). Counts of finite sets of places do
  the rest.
* *Erasure.* `ErasedPeopleStayErased`: `ErasureInv` for any number of parents
  and restores. An erasure of a sound database gives a sound one
  (`SoundDb`, `RunErases`): guardians, invited addresses and mails belong to
  accounts that are whole, and the child's rows and login do not outlive it; this
  is kept of the backup as of the database. `ReplayFits`: who is in the log
  before the replay's next record, or came to it after the replay was begun, is
  erased or has an id given out again; so a replay that ends has caught up
  with everyone. The log stays bounded by the restores because nobody is
  recorded twice between two of them (`Closed`).
* *Engagement.* `TheSnapshotTellsWhoCame`: `EngagementInv` for any children in
  any batches, sessions, dojos and thresholds, of which it needs that the
  window lies within the history (180 of 365 days in the code). A child's
  changes are one a day until today, each from where the one before led to, and
  the last to the stage of its row (`ChangesFit`): a child that moves replaces
  today's change, and goes on from the one before it unless there was one to
  replace (`MovedChangesFit`). A row worked out with the sessions and marks as
  they are says what the child did (`FreshStageIsRight`), and is up to date as
  long as neither changes; a sign-up is for a session to come, so it changes
  neither (`VisitsStand`). That a batch does not overwrite such a row with an
  outdated one takes one fact more: while any row is up to date, a run that goes
  on beside it knows all that was marked (`JobFits`).

### Dojos (`DojosProofs`)

`ApplicationsImplementVetting`: every step of a request is a step of `Vetting`
or changes nothing it shows. `LogComesFirst`: whoever counts as checked or
approved, *or is about to by a request under way*, is in the log, so a request
that stops between its log row and the account's leaves nothing wrong.

`OneRequestAtATimeIsEnough` is the other half, `ApplicationsInv`: an account
whose requests came one after the other has one open application, no document
decided twice and none forgotten. Each request's reads are what the rows still
say while it is the only one under way; the first request that joins another
sets the history variable for good.

`TeamsAreLed`: who is about to be made a mentor or champion is relied on by
`Vetting` until the row is written, and what is relied on is only ever taken away
by a step that looks at the team; the champion's row is written by the transfer
that read it unless another was under way.

`QuestionsAreAnswered`: questions are added by the lock's holder only
(`HolderIsRight`), so its count and the questions it checked still bound what
there is; a removal takes its own question's answers with it
(`OnlyItsAnswers`); an id is not used again (`OwedWereAsked`), so nobody owes
an answer to a question that came later.

`FamiliesHearOnlySoOften`: only the lock's holder counts and writes notices, and
what it counted can only get fewer as they age (`SenderFits`); a saved notice is
one row more of its kind, and time maps the rows that are left onto others one
to one. So a change that passed the check still fits below the limit.

### Periodic jobs (`JobsProofs`)

* `JourneysKeepTheCooldown`: a mail has its delivery row, or the run of its
  key's day is about to write it (`MailsHaveRows`); who is on a run's list was
  last mailed a cool-down ago, or this very day under the key of the run
  (`ListedAreDue`).
* `NewsReachesEveryFamilyOnce`: a run that mails has each waiting family still
  on its list or mailed (`RunsLeaveNobodyOut`); sessions of two lists are apart
  and not announced (`ListsAreApart`), and what was told is announced or
  under way with the same list, hence the same key (`ToldIsUnderWay`).
* `TheMailboxIsReadSoundly`: whatever lies below a message on a run's list is
  on the list too or handled (`RunFits`), which a batch taken from the lowest
  UIDs gives and taking one off the list keeps; so of two runs under one
  numbering neither is ahead of the other's message, and the row they both
  insert lets one of them handle it (`OneOpens`). A transaction's message is
  therefore not in the log, its record is new (the log has a row fewer than
  there were numberings) and what it counted is still so when it commits, as
  long as there was one numbering.
* `OldValuesWereStoredLate`: a request that holds an old value has been passed
  by the change's last delete (`OldOnesArePassed`).

### Accounts (`AccountsProofs`)

* *Invitations.* `OneAccountPerInvitedAddress`: what is under way at once is in
  `overlaps` (`InvTables`). One invitation at most waits or is followed
  (`OneWayIn`), so once the address has an account, whoever is signing up on one
  finds it accepted (`NobodyMakesAnother`); who is about to withdraw does so before
  anybody accepts (`WithdrawnFirst`); what waits beside an invitation being made
  was sent again (`SentAgainMeanwhile`). Each holds while the overlaps the property
  names have not been met.
* *Roles.* `RolesAndAccessFit` has four parts of that kind: who is about to take
  an admin's role saw another who still has it (`AdminsKept`); who asks for access
  has a role and no access, and who loses the last role ends what access there
  is (`AccessKept`); who is about to lose `is_staff` has no other access
  (`StaffKept`); what is about to be ended is open, and no two are about to end
  the same (`EndsKept`), which gives `EndsAreFinal` too.
* *Two-step login.* `MethodsAreSound` and `WhatIsRequiredIsKept`: a request that
  met none of those the property names finds what it counted still there when
  it writes (`Fits`); the lock on a deleted row keeps a second removal of it
  waiting (`OneHolds`). So one method is the default while there are any, there is
  one app, codes belong to a method (`MethodsStand`) and the required one stays.
* *Links.* `LinksAreSound`: a link that was used, whose account was removed or
  whose account went over to links is dead (`LinkFits`), a request's link is
  unused while nobody else has it open (`OpenFits`, `SharedAreMixed`), the row
  it saves is one with a password (`RowFits`), and the address it is about to
  write is still free (`TargetFits`), since one writes at a time (`OneWrites`).
  From the same invariant, `RemovedLoginsStayRemoved`.
* *Sign-in policy.* `ThePolicyIsAnnounced`: `SignInInv` for any roles in any
  order of the rows. After n rows the first pass has found a level that is some
  row's and below none that has come (`IsStrongest`), the second a row no other
  is stronger or, as strong, earlier than (`IsSoonest`); both hold row by row
  and leave no choice, so the passes find that. What follows is arithmetic of
  days: who asks for as much by then is not asking yet, and asks no earlier.
* *Retention.* `RetentionTypeCorrect` and `TheJobKeepsToTheRule`, for any
  thresholds with `Second < First <= Notice` and `First < Period`.
  `AllToldInTime`: a notice says which mails were sent, and the date the latest
  named is not later than the one that follows from the notice; the date never
  moves nearer by more than a day a day (`DateADayLater`), so deleting and making
  notices again only puts it off. `PlansHold`: what a plan says is what the
  account's rows still say when it is carried out, unless the account did
  something meanwhile (`stirred`). The job's step from plan to erasure is then
  the rule itself (`WhoIsErased`).

### Only model-checked

* *Liveness* (`EverythingIsSeenTo`, `EveryLaunchEnds`, `NothingDueIsForgotten`)
  is out of the prover's reach together with `ENABLED`.
* *Parts that follow from two theorems*: `WhatEndedStaysEnded` is about two
  components of one run; its parts are proved of each, as `EndsAreFinal` and
  `RemovedLoginsStayRemoved`.

No theorem is about a fold or a recursive operator. "The first n" and "the
highest" are defined by counting and by choice; where the code's pass matters
(`SignInPolicy`), it is a recursive function whose value is shown to exist and
to be what the properties need by a least counterexample (`UpTo`).


## What the code does and the repository says otherwise

Each is a run in which TLC finds the quoted sentence violated.

1. **Two parents leave at once** (`guardians_race`). `remove()` locks the link
   it deletes and counts the others without a lock: each of two sees the other,
   both leave, and the child has nobody. Locking the child's links, or the
   child, would close it.
2. **A stale form writes its old status over a cancellation**
   (`registrations_form`). `EventForm.save()` writes every column, the status
   it loaded included: TLC loads the form of a draft, calls the session off and
   saves the form, and the session is a draft again. Loaded while it was open,
   it would be open again.
3. **A second launch withdraws a campaign's mail** (`campaigns_twice`).
   `launch()` checks the row its page loaded and writes `queued` over
   `sending`; the run in progress takes that for a cancellation.
4. **An old value is cached after the change** (`cache_at_once`). A visitor that
   misses the key reads the rows, a save deletes the key, commits and deletes it
   again, and only then does the visitor store what it read. It stays until its
   timeout, although no write skipped `save()`; `caching.py:3-5` and
   `CAPACITY.md:522` say a change shows at once and the timeout is for those
   writes only. `CacheInv` says, of the same behaviours, that this is the only
   way an old value stays.

### Known from reading, and not run

What stands behind the conditions of the properties, and what was left out.

*Said otherwise, and not run.* Sentences of the repository that do not hold in
the overlaps or sequences which the properties except; the paragraphs below say
how each comes about. `DATA_MODEL.md:272`: a champion, "exactly one active per
dojo". `DATA_MODEL.md:2209`: "there is always at least one account with the
`admin` role". `DATA_MODEL.md:1489`: "exactly one app or passkey" is the
default. `email_change.py:14`: the link "stops working once the address has
changed (single use)". `awards.py:169`: a milestone "stays earned".
`sign_in.py:7`: a stronger level set for a later day is shown in a notice, which
a weaker but sooner one is not. `DATA_MODEL_PRIVACY.md:470`: "the erasure empties
the address and the queued mail with it", which a mail to an address without an
account is not part of.

*Sign-ups and sessions.* A family that signs up between the form's save and its
filling of the new places overtakes the waiting list
(`NobodyOvertakesAFullSession` shows that it takes a change of places). The
session form saves `announced_at` back to NULL; a rerun of the announcement
with another set of sessions makes another key, so families hear twice. A
session that is moved gets no second reminder (the key lacks the date). A
session opened on the day it starts, after the daily run and due before the
next, is never announced (`automated.py:201`).
`set_status` can reopen a cancelled session after its families were told.

*Mail.* Mail already claimed to an address without an account goes out after
`block()`. A batch whose accepted mail got no answer is sent again by the retry
(as `requeue_stuck_emails` says of its own case, it beats never sending it), so
`RecordIsTruthful` counts what could not be recorded. A worker that dies while
it queues for a campaign cancelled meanwhile leaves that chunk's mail waiting,
hence the condition on crashes in `CancelledMeansWithdrawn`. A journey run that
dies between the mail and the delivery row, or two days' runs at once, mails
twice; the journey form saves `is_active` back and undoes a pause. A message
in the bounce mailbox that cannot be read stops every run at it; after a new
`UIDVALIDITY` old bounces are counted, and block, again.

*Dojo mailings.* The form saves the whole row it loaded as a draft: it undoes a
launch (and with it the count), or brings a deleted draft back. A draft deleted
after it was launched leaves its queued mail to go out uncounted. Two launches
at once pass the monthly limit; so does a team draft that becomes one to the
families between the check and the launch. A stopped mailing gives its turn
back although mail of it that was claimed still goes out.

*Families.* A parent who becomes guardian while the only other one deletes
their account keeps a link to an erased child. Two acceptances at once do not
mail each other's new guardian. Two belts awarded at once give the same belt
twice. A request that dies between the mark and its sync leaves a milestone
unearned until the next mark, and a sync beside it can write a milestone's date
back to NULL, although the docstring says it "stays earned".

*Engagement.* A second rebuild on a day that changes a child again deletes the
first change, and the next one recorded no longer follows on
(`engagement.py:334`). A sign-up for a session that opened after the run loaded
its sessions ends the run with a `KeyError` (`engagement.py:255`); the next
night makes it good. Two overlapping rebuilds may duplicate rows.

*Images.* A page that saves the whole row it loaded (the dojo settings, which
look the address up at Nominatim in between and may take seconds) puts back a
name whose file another request has deleted, and deletes the new one. Two
uploads at once leave the first one's file; a request that dies between the
commits leaves one too. A name that was freed and given out again before its
row was saved is "used by nobody", and another request's clean-up may delete it.
A second deletion of a row that is gone already, whose `post_delete` asks for
the file again, is left out.

*Geocoding.* A 429 that arrives after a 403 shortens the hour's back-off to a
minute (`_back_off` writes over it). A call whose process had looked before the
back-off was set still goes out. Redis may evict any of the keys when it is
full.

*Dojo teams and applications.* Two transfers leave two champions; a transfer
beside the champion's leaving leaves none. A stale decline deletes an accepted
member's row; a stale acceptance joins a dojo that came to rest. The settings
page saves the dojo's status back, and `dojo_event_create` does not check it.
Two reviewers, or an upload and a decision, log two decisions on one document,
or leave a file that no row names. Two submissions at once make two
applications.

*Accounts.* Two admins who take each other's role at once leave none. Access
asked for while another grant ends leaves its holder without `is_staff`, and an
ending that overlaps the job's is written twice. A withdrawal saved from a
loaded row reopens nothing but is recorded beside an acceptance; an expired
invitation sent again after another was made leaves two waiting; a sign-up on
the site racing the invitation's makes two accounts with one address. A
changed password saves the whole row. A change-of-address link works again once
the old address is back (`email_change.py:14`). Two removals at once pass what
a role requires; an addition beside a removal, or beside turning all off, may
leave no default method, and so may two removals at once where an earlier
request died before it named its device; two apps added at once stay. A weaker level that starts
sooner is not announced while a stronger one is upcoming (`sign_in.py:149`): what is shown is the stronger,
which is what `NobodyIsSurprised` allows.

*Erasure and retention.* A replay erases a child whose other guardian joined
after the backup was taken. Ids that are given out again after a restore let a
second replay ("Safe to run twice") erase a new account. `BounceRecord` keeps
the address, and so does the mail that carried an invitation, which names no
account (`mailing/services.py:193`, `mailing/privacy.py:19`): it keeps address
and text until the retention of mails reaches it. A login within `handle_account`'s transaction loses against it
(`retention.py:288`); a role given while the run is under way does not save an
account it listed.

## What is not modelled

Rendering, forms' wording, permissions of pages, reports, content, seeds and
monitoring: no state that interleavings can break. They are most of the lines
of the repository: of what `src/` holds, a large part is seed data and
translations, forms and their texts, list pages and queries, build and test
tools. Nothing would be learned from a model of them.

In the modules above: mail priorities and `send_after` (which pending rows a
claim takes is left open), consent and unsubscribing, schedules and segments of
campaigns, the emptying of single fields in an erasure, throttles, the
reminders of sessions and of expiring background checks, the policy's cache,
the checking and shrinking of images, the look-up among our own
municipalities. Each module's heading says what it leaves out; `PROJECT.json`
says it per component.

## Plan

Done: every module of the table above. Left, in order:

1. `Reminders`: session reminders and the expiry mails of background checks,
   over the idempotency keys
2. the organisation's and a champion's part of the retention job

Every safety property of the runs that should hold is proved; what is left with
TLC is named under "Only model-checked".
