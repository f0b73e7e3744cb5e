------------------------------ MODULE Retention ------------------------------
(***************************************************************************)
(* The nightly retention job for accounts nobody uses (privacy.retention): *)
(* reminders, the date, and the erasure, over days of activity, of roles   *)
(* that come and go, and of runs that fail, are repeated or are missed.    *)
(*                                                                         *)
(* The run loads its list of accounts once and handles each in a           *)
(* transaction of its own that reads first and writes later, so an account *)
(* may log in, get a role or be deleted in between.                        *)
(*                                                                         *)
(* Days count from the moment: an account's idle days and a notice's age   *)
(* grow by one at midnight, up to a cap past every threshold.  Left out:   *)
(* the notices to a champion's mentors, the organisation's list, what an   *)
(* erasure does to the rows (Guardians has the children's part), and the   *)
(* clean-up of other tables, which looks at nothing but a row's age.       *)
(***************************************************************************)
EXTENDS Integers, FiniteSets

CONSTANTS
    Accounts,
    Period,  \* ACCOUNT_RETENTION_DAYS
    First,   \* the first of ACCOUNT_DELETION_REMINDER_DAYS ...
    Second,  \* ... and the second
    Notice,  \* ACCOUNT_DELETION_NOTICE_DAYS
    Never

ASSUME RetentionAssumption ==
    /\ {Period, First, Second, Notice} \subseteq Nat
    /\ Second < First /\ First <= Notice /\ First < Period
    /\ Never \notin Int

\* What inactive_since is the time of: the account's own last login, or a
\* session a child of it came to.
Sources == {"own", "child"}
Reminders == {First, Second}
Cap == Period + Notice

VARIABLES
    idle,     \* days since each source's last activity, or Never
    notice,   \* the RetentionNotice of each source's time: its age, or Never
    mailed,   \* the reminders mailed about each source's time
    told,     \* observation: days until the latest date such a mail named
    role,     \* accounts with an organisation role
    team,     \* "none", "former" or "champion" (of an active dojo)
    state,    \* open, deleted (by themselves), erased or cleaned (by the job)
    run,      \* the job: idle, or the accounts left and the one under way
    stirred   \* observation: what changed since the run listed an account (the
              \* next run forgets that), or while it was under way

retentionVars == <<idle, notice, mailed, told, role, team, state, run, stirred>>
accountVars == <<idle, notice, mailed, told, role, team, state>>

NoRun == [on |-> FALSE, left |-> {}, plan |-> {}]

RetentionTypeOK ==
    /\ idle \in [Accounts -> [Sources -> 0..Cap \cup {Never}]]
    /\ notice \in [Accounts -> [Sources -> [Reminders -> 0..Notice \cup {Never}]]]
    /\ mailed \in [Accounts -> [Sources -> SUBSET Reminders]]
    /\ told \in [Accounts -> [Sources -> 0..Cap \cup {Never}]]
    /\ role \subseteq Accounts
    /\ team \in [Accounts -> {"none", "former", "champion"}]
    /\ state \in [Accounts -> {"open", "deleted", "erased", "cleaned"}]
    /\ run.left \subseteq Accounts /\ Cardinality(run.plan) <= 1
    /\ stirred \in [Accounts -> {"no", "listed", "underway"}]

NoNotice == [d \in Reminders |-> Never]

RetentionInit ==
    /\ idle = [a \in Accounts |-> [s \in Sources |-> IF s = "own" THEN 0 ELSE Never]]
    /\ notice = [a \in Accounts |-> [s \in Sources |-> NoNotice]]
    /\ mailed = [a \in Accounts |-> [s \in Sources |-> {}]]
    /\ told = [a \in Accounts |-> [s \in Sources |-> Never]]
    /\ role = {} /\ team = [a \in Accounts |-> "none"]
    /\ state = [a \in Accounts |-> "open"]
    /\ run = NoRun /\ stirred = [a \in Accounts |-> "no"]

-----------------------------------------------------------------------------
(* Where an account stands *)

\* with_inactive_since: the later of the two.
Since(a) ==
    IF idle[a]["child"] # Never /\ idle[a]["child"] < idle[a]["own"] THEN "child" ELSE "own"

IdleDays(a) == idle[a][Since(a)]

AgeOf(a, d) == notice[a][Since(a)][d]

Later(x, y) == IF x > y THEN x ELSE y

\* Mutant: the period after the last activity, without the notice's floor.
DateWithoutNotice(days, firstAge) == Period - days

\* plan_for: the date, in days from today, never earlier than the notice
\* period after the first reminder of this period of inactivity.
Date(days, firstAge) ==
    Later(Period - days, IF firstAge = Never THEN Notice ELSE Notice - firstAge)

DaysLeft(a) == Date(IdleDays(a), AgeOf(a, First))

\* candidates: the first reminder is due, nobody erased and no role.
Candidates ==
    {a \in Accounts : state[a] = "open" /\ a \notin role /\ IdleDays(a) >= Period - First}

\* Mutant: the date is looked at before the second reminder.
OutcomeByDate(a) ==
    IF AgeOf(a, First) # Never /\ DaysLeft(a) <= 0 /\ team[a] # "champion"
    THEN IF team[a] = "former" THEN "cleaned" ELSE "erased"
    ELSE IF AgeOf(a, First) = Never THEN "first"
    ELSE IF AgeOf(a, Second) = Never THEN "second" ELSE "nothing"

\* Mutant: a volunteer is cleaned before anyone looks at the dojos they lead.
OutcomeVolunteerFirst(a) ==
    IF AgeOf(a, First) = Never THEN IF DaysLeft(a) <= First THEN "first" ELSE "nothing"
    ELSE IF AgeOf(a, Second) = Never THEN IF DaysLeft(a) <= Second THEN "second" ELSE "nothing"
    ELSE IF DaysLeft(a) > 0 THEN "nothing"
    ELSE IF team[a] = "none" THEN "erased" ELSE "cleaned"

\* handle_account: one thing a night.
Outcome(a) ==
    IF AgeOf(a, First) = Never THEN IF DaysLeft(a) <= First THEN "first" ELSE "nothing"
    ELSE IF AgeOf(a, Second) = Never THEN IF DaysLeft(a) <= Second THEN "second" ELSE "nothing"
    ELSE IF DaysLeft(a) > 0 \/ team[a] = "champion" THEN "nothing"
    ELSE IF team[a] = "former" THEN "cleaned" ELSE "erased"

-----------------------------------------------------------------------------
(* The job *)

\* Mutant: the notices of an inactive account go as well.
StartRunAfresh ==
    /\ ~run.on
    /\ notice' = [a \in Accounts |-> [s \in Sources |-> NoNotice]]
    /\ run' = [on |-> TRUE, left |-> Candidates, plan |-> {}]
    /\ stirred' = [a \in Accounts |-> IF stirred[a] = "listed" THEN "no" ELSE stirred[a]]
    /\ UNCHANGED <<idle, mailed, told, role, team, state>>

\* The notices about a period that activity has ended are deleted, and the
\* accounts to handle are listed.
StartRun ==
    /\ ~run.on
    /\ notice' = [a \in Accounts |-> [s \in Sources |->
                    IF s = Since(a) THEN notice[a][s] ELSE NoNotice]]
    /\ run' = [on |-> TRUE, left |-> Candidates, plan |-> {}]
    /\ stirred' = [a \in Accounts |-> IF stirred[a] = "listed" THEN "no" ELSE stirred[a]]
    /\ UNCHANGED <<idle, mailed, told, role, team, state>>

\* The account's transaction reads where it stands ...
Plan(a) ==
    /\ a \in run.left /\ run.plan = {}
    /\ run' = [run EXCEPT !.left = @ \ {a},
                          !.plan = {[account |-> a, since |-> Since(a), outcome |-> Outcome(a)]}]
    /\ UNCHANGED <<accountVars, stirred>>

\* ... records the reminder about the time it read, and mails the date that
\* follows from where the account stands now, once per reminder and time (the
\* idempotency key) ...
Remind(a, p, d) ==
    LET s == Since(a) IN
    /\ notice' = IF p.since = "past" THEN notice ELSE [notice EXCEPT ![a][p.since][d] = 0]
    /\ mailed' = [mailed EXCEPT ![a][s] = @ \cup {d}]
    /\ told' = IF d \in mailed[a][s] THEN told
               ELSE [told EXCEPT ![a][s] = Date(idle[a][s], notice'[a][s][First])]
    /\ UNCHANGED state

\* ... or erases it, or cleans a volunteer's.
Erase(a, outcome) ==
    /\ state' = [state EXCEPT ![a] = outcome]
    /\ UNCHANGED <<notice, mailed, told>>

HandleAccount ==
    \E p \in run.plan :
        /\ CASE p.outcome = "first" -> Remind(p.account, p, First)
             [] p.outcome = "second" -> Remind(p.account, p, Second)
             [] p.outcome \in {"erased", "cleaned"} -> Erase(p.account, p.outcome)
             [] OTHER -> UNCHANGED <<notice, mailed, told, state>>
        /\ run' = [run EXCEPT !.plan = {}]
        /\ UNCHANGED <<idle, role, team, stirred>>

\* One account's failure rolls its transaction back and is logged.
HandleFails ==
    /\ run.plan # {}
    /\ run' = [run EXCEPT !.plan = {}]
    /\ UNCHANGED <<accountVars, stirred>>

\* The run ends, or its worker dies; it may be repeated the same day.
EndRun ==
    /\ run.on
    /\ run' = NoRun
    /\ UNCHANGED <<accountVars, stirred>>

\* Midnight, outside a run.
Older(n, cap) == IF n = Never \/ n = cap THEN n ELSE n + 1
NextDay ==
    /\ ~run.on
    /\ idle' = [a \in Accounts |-> [s \in Sources |-> Older(idle[a][s], Cap)]]
    /\ notice' = [a \in Accounts |-> [s \in Sources |-> [d \in Reminders |->
                    Older(notice[a][s][d], Notice)]]]
    /\ told' = [a \in Accounts |-> [s \in Sources |->
                  IF told[a][s] \in {Never, 0} THEN told[a][s] ELSE told[a][s] - 1]]
    /\ UNCHANGED <<mailed, role, team, state, run, stirred>>

-----------------------------------------------------------------------------
(* What happens to the account meanwhile *)

Stir(a) ==
    /\ state[a] = "open"
    /\ stirred' = [stirred EXCEPT ![a] =
                     IF \E p \in run.plan : p.account = a THEN "underway"
                     ELSE IF run.on /\ @ = "no" THEN "listed" ELSE @]

\* A new time: nothing sent or read so far is about it.
Renew(a, s) ==
    /\ run' = [run EXCEPT !.plan =
                 {IF p.account = a /\ p.since = s THEN [p EXCEPT !.since = "past"] ELSE p : p \in @}]
    /\ idle' = [idle EXCEPT ![a][s] = 0]
    /\ notice' = [notice EXCEPT ![a][s] = NoNotice]
    /\ mailed' = [mailed EXCEPT ![a][s] = {}]
    /\ told' = [told EXCEPT ![a][s] = Never]
    /\ UNCHANGED <<role, team, state>>

Login(a) == Stir(a) /\ Renew(a, "own")

\* A session starts where a child of the account has a confirmed place ...
SessionStarts(a) == Stir(a) /\ Renew(a, "child")

\* ... and the team marks the child absent, on the day or later.
MarkAbsent(a) ==
    /\ idle[a]["child"] # Never
    /\ Stir(a)
    /\ idle' = [idle EXCEPT ![a]["child"] = Never]
    /\ UNCHANGED <<notice, mailed, told, role, team, state, run>>

ChangeRole(a) ==
    /\ Stir(a)
    /\ role' = IF a \in role THEN role \ {a} ELSE role \cup {a}
    /\ UNCHANGED <<idle, notice, mailed, told, team, state, run>>

\* Becoming the champion of an active dojo, and handing the role over.
ChangeTeam(a) ==
    /\ Stir(a)
    /\ team' = [team EXCEPT ![a] = IF @ = "champion" THEN "former" ELSE "champion"]
    /\ UNCHANGED <<idle, notice, mailed, told, role, state, run>>

DeleteOwnAccount(a) ==
    /\ a \notin role /\ team[a] # "champion"
    /\ Stir(a)
    /\ state' = [state EXCEPT ![a] = "deleted"]
    /\ UNCHANGED <<idle, notice, mailed, told, role, team, run>>

RetentionNext ==
    \/ StartRun \/ HandleAccount \/ HandleFails \/ EndRun \/ NextDay
    \/ \E a \in Accounts :
        \/ Plan(a) \/ Login(a) \/ SessionStarts(a) \/ MarkAbsent(a)
        \/ ChangeRole(a) \/ ChangeTeam(a) \/ DeleteOwnAccount(a)

RetentionSpec == RetentionInit /\ [][RetentionNext]_retentionVars

-----------------------------------------------------------------------------
(* Properties *)

ErasedByJob(a) == state[a] = "open" /\ state'[a] \in {"erased", "cleaned"}

\* The job erases nobody before the date their latest mail named has come,
\* and only after the whole period without activity and both mails, whatever
\* sessions were held, marked absent or repeated runs did in between; except
\* for what an account does after the run listed it.  An account that did
\* something while its reminder was under way is excepted for good: the notice
\* is then recorded about the time read before, and the mail keyed by the
\* time read after, which may be another's.
\* (privacy.retention:plan_for, remind)
NeverBeforeTheDateTold ==
    [][\A a \in Accounts : ErasedByJob(a) /\ stirred[a] = "no" =>
         /\ told[a][Since(a)] = 0
         /\ mailed[a][Since(a)] = Reminders
         /\ IdleDays(a) >= Period]_retentionVars

\* "Accounts holding an organisation role, and superusers, are left alone",
\* an active dojo keeps its champion, and a volunteer's name stays; with the
\* same exception. (privacy.retention:candidates, handle_account)
TheJobSparesWhoItMust ==
    [][\A a \in Accounts : ErasedByJob(a) /\ stirred[a] = "no" =>
         /\ a \notin role /\ team[a] # "champion"
         /\ state'[a] = "cleaned" <=> team[a] # "none"]_retentionVars

\* Both together: the job erases by the rule and by nothing else.
TheJobErasesByTheRule == NeverBeforeTheDateTold /\ TheJobSparesWhoItMust

\* An account that nobody uses any more goes, unless it holds a role or leads
\* an active dojo: reminders, failures and repeated runs do not keep it.
AbandonedAccountsGo ==
    \A a \in Accounts :
        []<>(state[a] # "open" \/ IdleDays(a) < Cap \/ a \in role \/ team[a] = "champion")

\* Days pass, the job is started every night, and a failure is not for ever.
RetentionFairness ==
    /\ SF_retentionVars(NextDay)
    /\ WF_retentionVars(StartRun) /\ WF_retentionVars(EndRun)
    /\ \A a \in Accounts : SF_retentionVars(Plan(a))
    /\ SF_retentionVars(HandleAccount)

FairRetentionSpec == RetentionSpec /\ RetentionFairness
=============================================================================
