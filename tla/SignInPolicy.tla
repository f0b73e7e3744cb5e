---------------------------- MODULE SignInPolicy ----------------------------
(***************************************************************************)
(* What the organisation's sign-in policy asks of one adult account        *)
(* (accounts.sign_in), and how the site brings it there: the policy's rows *)
(* per role and date, the notice beforehand, the middleware that sends a   *)
(* request to the Sign-in security page or back to the login, and what can *)
(* be done on those pages.                                                 *)
(*                                                                         *)
(* Left out: the policy's cache (SharedCache has its like), the writes of  *)
(* one page in detail and pages at once (TwoStep), and that an account may *)
(* have several passkeys: `devices` is the kinds it has.                   *)
(***************************************************************************)
EXTENDS Integers, Sequences

CONSTANTS
    RoleOrder, \* the roles in the order of the policy's rows
    Everyone,  \* the role of every adult account
    LastDay    \* bound: the last day a requirement starts on

PolicyRoles == {RoleOrder[i] : i \in DOMAIN RoleOrder}

ASSUME SignInAssumption ==
    RoleOrder \in Seq(PolicyRoles) /\ Everyone \in PolicyRoles /\ LastDay \in Nat

VARIABLES
    rule,    \* the SignInRequirement row of each role; no row asks for a password
    today,
    held,    \* the roles of the account
    devices, \* the kinds of methods it has
    session, \* logged out, or with what it logged in
    at       \* the Sign-in security page, or any other

signInVars == <<rule, today, held, devices, session, at>>

\* SignInRequirement.LEVELS by strength.
Password == 0
SecondStep == 1
PasskeyStep == 2

MethodKinds == {"app", "passkey"}

\* required_from of None is as good as a day that has come.
NoRule == [level |-> Password, from |-> 0]
Rules == {NoRule} \cup [level : {SecondStep, PasskeyStep}, from : 0..LastDay]

SignInTypeOK ==
    /\ rule \in [PolicyRoles -> Rules]
    /\ today \in 0..LastDay
    /\ Everyone \in held /\ held \subseteq PolicyRoles
    /\ devices \subseteq MethodKinds
    /\ session \in MethodKinds \cup {"out", "plain", "backup"}
    /\ at \in {"page", "security"}

SignInInit ==
    /\ rule = [r \in PolicyRoles |-> NoRule]
    /\ today = 0 /\ held = {Everyone}
    /\ devices = {} /\ session = "plain" /\ at = "page"

-----------------------------------------------------------------------------
(* requirements_for(): two passes over the rows *)

\* Mutant: a requirement starts the day after.
ComesLater(r, day) == rule[r].level # Password /\ rule[r].from < day

Asks(r) == r \in held /\ rule[r].level # Password
HasCome(r, day) == rule[r].from <= day

Stronger(r, level, day) ==
    IF Asks(r) /\ HasCome(r, day) /\ rule[r].level > level THEN rule[r].level ELSE level

\* The strongest level of those that have come.
Enforced(day) ==
    LET pass[n \in 0..Len(RoleOrder)] ==
            IF n = 0 THEN Password ELSE Stronger(RoleOrder[n], pass[n - 1], day)
    IN  pass[Len(RoleOrder)]

Nothing == NoRule

\* Mutant: the date of whichever role comes first in the rows.
FirstDate(one, other) == one

EarlierDate(one, other) == IF other < one THEN other ELSE one

Sooner(r, soon, day) ==
    IF ~Asks(r) \/ HasCome(r, day) \/ rule[r].level <= Enforced(day) THEN soon
    ELSE IF soon = Nothing \/ rule[r].level > soon.level THEN rule[r]
    ELSE IF rule[r].level = soon.level
         THEN [soon EXCEPT !.from = EarlierDate(@, rule[r].from)]
    ELSE soon

\* A stronger one of a later day: the strongest, from the first day it counts.
Upcoming(day) ==
    LET pass[n \in 0..Len(RoleOrder)] ==
            IF n = 0 THEN Nothing ELSE Sooner(RoleOrder[n], pass[n - 1], day)
    IN  pass[Len(RoleOrder)]

HasDevice(level) ==
    level = Password \/ (IF level = PasskeyStep THEN "passkey" \in devices ELSE devices # {})

\* sign_in_notice: what is upcoming, while the account does not have it.
NoticeShown == IF HasDevice(Upcoming(today).level) THEN Nothing ELSE Upcoming(today)

\* The session's device is still on the account.
Verified == session \in devices \/ (session = "backup" /\ devices # {})

SignInStatus(day) ==
    IF Enforced(day) = Password THEN "ok"
    ELSE IF ~HasDevice(Enforced(day)) THEN "needs_setup"
    ELSE IF Verified THEN "ok" ELSE "needs_verify"

-----------------------------------------------------------------------------
(* The organisation, and time *)

\* SignInPolicyForm.save() saves the roles' rows one by one.
SetRule(r, new) ==
    /\ rule[r] # new
    /\ rule' = [rule EXCEPT ![r] = new]
    /\ UNCHANGED <<today, held, devices, session, at>>

ADayPasses ==
    /\ today < LastDay
    /\ today' = today + 1
    /\ UNCHANGED <<rule, held, devices, session, at>>

GiveOrTakeRole(r) ==
    /\ r # Everyone
    /\ held' = IF r \in held THEN held \ {r} ELSE held \cup {r}
    /\ UNCHANGED <<rule, today, devices, session, at>>

\* turn_off_two_step, for someone who lost every way in.
OrganisationTurnsOff ==
    /\ devices # {}
    /\ devices' = {}
    /\ UNCHANGED <<rule, today, held, session, at>>

-----------------------------------------------------------------------------
(* Logging in, and the middleware *)

LogIn ==
    /\ session = "out"
    /\ session' \in IF devices = {} THEN {"plain"} ELSE devices \cup {"backup"}
    /\ at' = "page"
    /\ UNCHANGED <<rule, today, held, devices>>

LogOut ==
    /\ session # "out"
    /\ session' = "out" /\ at' = "page"
    /\ UNCHANGED <<rule, today, held, devices>>

\* Any page but the exempt ones.
Visit ==
    /\ session # "out"
    /\ IF SignInStatus(today) = "needs_verify" THEN session' = "out" ELSE UNCHANGED session
    /\ at' = IF SignInStatus(today) = "needs_setup" THEN "security" ELSE "page"
    /\ UNCHANGED <<rule, today, held, devices>>

GoToSecurity ==
    /\ session # "out" /\ at = "page"
    /\ at' = "security"
    /\ UNCHANGED <<rule, today, held, devices, session>>

-----------------------------------------------------------------------------
(* The Sign-in security page *)

OnSecurityPage == at = "security" /\ session # "out"

\* _unverified: a session without its second step logs in again first ...
MustConfirm == devices # {} /\ ~Verified

ConfirmFirst ==
    /\ OnSecurityPage /\ MustConfirm
    /\ session' = "out" /\ at' = "page"
    /\ UNCHANGED <<rule, today, held, devices>>

MayChange == OnSecurityPage /\ ~MustConfirm

\* ... and one that adds a method has just shown that it has it.
AddDevice(d) ==
    /\ MayChange /\ d \notin devices
    /\ devices' = devices \cup {d} /\ session' = d
    /\ UNCHANGED <<rule, today, held, at>>

\* requirement_blocks_removal, then remove() or turn_off().
RemoveDevices(gone) ==
    /\ MayChange /\ gone # {} /\ gone \subseteq devices
    /\ LET left == devices \ gone IN
       /\ Enforced(today) = PasskeyStep => "passkey" \in left
       /\ Enforced(today) = SecondStep => left # {}
       /\ devices' = left
    /\ UNCHANGED <<rule, today, held, session, at>>

SignInNext ==
    \/ \E r \in PolicyRoles : GiveOrTakeRole(r) \/ \E new \in Rules : SetRule(r, new)
    \/ ADayPasses \/ OrganisationTurnsOff
    \/ LogIn \/ LogOut \/ Visit \/ GoToSecurity \/ ConfirmFirst
    \/ \E d \in MethodKinds : AddDevice(d)
    \/ \E gone \in SUBSET MethodKinds : RemoveDevices(gone)

SignInSpec == SignInInit /\ [][SignInNext]_signInVars

-----------------------------------------------------------------------------
(* Properties *)

\* "The strongest level that applies today": the pass over the rows finds what
\* a look at all of them at once does, on any day and in any order of roles.
\* (accounts.sign_in:requirements_for)
TheStrongestApplies ==
    \A day \in 0..LastDay :
        LET come == {rule[r].level : r \in {r \in held : rule[r].from <= day}} IN
        /\ \A level \in come : level <= Enforced(day)
        /\ Enforced(day) \in come \cup {Password}

\* What is announced as upcoming comes on that very day, and no day before, as
\* long as the policy and the roles stay as they are: with rules of one level
\* for several roles it is the first date that counts.
\* (accounts.sign_in:requirements_for)
WhatIsAnnouncedComesThen ==
    Upcoming(today) # Nothing =>
        LET soon == Upcoming(today) IN
        /\ soon.from > today
        /\ Enforced(soon.from) = soon.level
        /\ \A day \in today..(soon.from - 1) : Enforced(day) < soon.level

\* "Before it, the accounts see a notice" (accounts.models:SignInRequirement):
\* nobody is sent to set up a method because a day came unless a notice of it,
\* or of a stronger level, was shown the days before.
NobodyIsSurprised ==
    NoticeShown = Nothing =>
        \A day \in today..LastDay : SignInStatus(day) = "needs_setup" => SignInStatus(today) = "needs_setup"

\* The policy asks what it says, when it says so.
SignInInv ==
    /\ SignInTypeOK
    /\ TheStrongestApplies
    /\ WhatIsAnnouncedComesThen
    /\ NobodyIsSurprised
=============================================================================
