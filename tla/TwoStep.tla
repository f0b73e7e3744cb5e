------------------------------- MODULE TwoStep -------------------------------
(***************************************************************************)
(* The authenticator apps, passkeys and backup codes of one account, and   *)
(* what its roles require of it: accounts.two_step with the Sign-in        *)
(* security pages of accounts.security_views.                              *)
(*                                                                         *)
(* Adding a method commits each of its writes by itself: the device (saved *)
(* as "default" by django-two-factor-auth), its name, the first backup     *)
(* codes.  Removing one and turning all off are transactions under READ    *)
(* COMMITTED: until one commits, the rows it deleted are locked, and the   *)
(* others read them as if they stayed.                                     *)
(* Any request may die between two of its steps.                           *)
(*                                                                         *)
(* Left out: mails, confirming who one is, remembered browsers, used codes.*)
(***************************************************************************)
EXTENDS Naturals, FiniteSets, TLC

CONSTANTS
    Devices,
    Apps,      \* authenticator apps; the others are passkeys
    SecurityRequests,  \* requests under way at once
    MaxPairs   \* bound: the kinds of overlap one behaviour has

ASSUME TwoStepAssumption == Apps \subseteq Devices /\ MaxPairs \in Nat

Levels == {"password", "two_step", "passkey"}

VARIABLES
    saved,     \* the devices on the account
    default,   \* those of them that are named "default"
    codes,     \* are there backup codes
    level,     \* what the account's roles require of it today
    stepReq,   \* what each request read and goes on with
    unnamed,   \* observation: has a request died before it named its device
    pairs      \* observation: the kinds of requests that were under way at once

twoStepVars == <<saved, default, codes, level, stepReq, unnamed, pairs>>

NoStep == [op |-> "none"]

TwoStepTypeOK ==
    /\ saved \subseteq Devices /\ default \subseteq saved
    /\ codes \in BOOLEAN
    /\ level \in Levels
    /\ \A r \in SecurityRequests : stepReq[r].op \in {"none", "add", "remove", "off", "codes"}

TwoStepInit ==
    /\ saved = {} /\ default = {} /\ codes = FALSE
    /\ level = "password"
    /\ stepReq = [r \in SecurityRequests |-> NoStep]
    /\ unnamed = FALSE
    /\ pairs = {}

-----------------------------------------------------------------------------
(* Checks *)

\* The devices of `left` that count for what the roles require.
Counting(left) == IF level = "passkey" THEN left \ Apps ELSE left

\* Mutant: any method will do.
BlocksRemovalByAny(gone) == level # "password" /\ saved \ gone = {}

\* requirement_blocks_removal: d, or every method, goes.
BlocksRemoval(gone) == level # "password" /\ Counting(saved \ gone) = {}

MeetsLevel == level = "password" \/ Counting(saved) # {}

\* Mutant: nothing looks for an app.
MayAddAny(d) == TRUE

\* add_app: at most one authenticator app.
MayAdd(d) == d \in Apps => saved \cap Apps = {}

-----------------------------------------------------------------------------
(* SecurityRequests *)

Request(r, request) ==
    /\ stepReq[r].op = "none"
    /\ stepReq' = [stepReq EXCEPT ![r] = request]
    /\ pairs' = pairs \cup {{request.op, stepReq[q].op} : q \in {q \in SecurityRequests : stepReq[q].op # "none"}}
    /\ Cardinality(pairs') <= MaxPairs
    /\ UNCHANGED unnamed

StepTo(r, q) == stepReq' = [stepReq EXCEPT ![r] = q] /\ UNCHANGED <<unnamed, pairs>>
Answered(r) == StepTo(r, NoStep)

\* The rows the transaction of a request deleted.
Deleted(q) == IF q.op = "remove" /\ q.step # "delete" THEN {q.device}
              ELSE IF q.op = "off" /\ q.step = "commit" THEN q.gone
              ELSE {}

RowLocked(r, d) == \E q \in SecurityRequests \ {r} : d \in Deleted(stepReq[q])

Add(r, d) ==
    /\ d \notin saved /\ MayAdd(d)
    /\ \A q \in SecurityRequests : stepReq[q].op = "add" => stepReq[q].device # d
    /\ Request(r, [op |-> "add", step |-> "save", device |-> d, wasOn |-> saved # {}])
    /\ UNCHANGED <<saved, default, codes, level>>

SaveDevice(r) ==
    LET q == stepReq[r] IN
    /\ q.op = "add" /\ q.step = "save"
    /\ saved' = saved \cup {q.device} /\ default' = default \cup {q.device}
    /\ StepTo(r, [q EXCEPT !.step = "count"])
    /\ UNCHANGED <<codes, level>>

\* _added: was two-step login on without this device?
CountMethods(r) ==
    LET q == stepReq[r] IN
    /\ q.op = "add" /\ q.step = "count"
    /\ StepTo(r, [op |-> "add", step |-> "name", device |-> q.device, wasOn |-> q.wasOn,
                 first |-> Cardinality(saved) <= 1])
    /\ UNCHANGED <<saved, default, codes, level>>

\* save(update_fields): of a device that is gone it fails.
SaveName(r) ==
    LET q == stepReq[r] IN
    /\ q.op = "add" /\ q.step = "name" /\ ~RowLocked(r, q.device)
    /\ default' = IF q.first THEN default \cup ({q.device} \cap saved) ELSE default \ {q.device}
    /\ IF q.wasOn \/ q.device \notin saved
       THEN Answered(r)
       ELSE StepTo(r, [q EXCEPT !.step = "codes"])
    /\ UNCHANGED <<saved, codes, level>>

\* A page that shows two-step login is on makes new codes.
AskCodes(r) ==
    /\ saved # {}
    /\ Request(r, [op |-> "codes", step |-> "codes"])
    /\ UNCHANGED <<saved, default, codes, level>>

MakeBackupCodes(r) ==
    /\ stepReq[r].op \in {"add", "codes"} /\ stepReq[r].step = "codes"
    /\ codes' = TRUE
    /\ Answered(r)
    /\ UNCHANGED <<saved, default, level>>

Remove(r, d) ==
    /\ d \in saved /\ ~BlocksRemoval({d})
    /\ Request(r, [op |-> "remove", step |-> "delete", device |-> d, under |-> level])
    /\ UNCHANGED <<saved, default, codes, level>>

DeleteDevice(r) ==
    LET q == stepReq[r] IN
    /\ q.op = "remove" /\ q.step = "delete" /\ ~RowLocked(r, q.device)
    /\ StepTo(r, [q EXCEPT !.step = "rest"])
    /\ UNCHANGED <<saved, default, codes, level>>

\* Mutant: the device that is removed still counts.
EnsureDefaultBefore(r, rest) == default = {}

EnsureDefault(r, rest) == rest \cap default = {}

\* The last one takes the backup codes with it; of the others, one must be the
\* default: else the oldest is saved as that.
Commits(q, last) == [op |-> "remove", step |-> "commit", device |-> q.device, under |-> q.under,
                     last |-> last]
MakesDefault(q, d) == [op |-> "remove", step |-> "default", device |-> q.device, under |-> q.under,
                       oldest |-> d]

\* Mutant: the codes stay.
LeaveTheCodes(r) ==
    LET q == stepReq[r]
        rest == saved \ {q.device}
    IN
    /\ q.op = "remove" /\ q.step = "rest"
    /\ IF rest = {} \/ ~EnsureDefault(r, rest) THEN StepTo(r, Commits(q, FALSE))
       ELSE \E d \in rest : StepTo(r, MakesDefault(q, d))
    /\ UNCHANGED <<saved, default, codes, level>>

LeaveTheRest(r) ==
    LET q == stepReq[r]
        rest == saved \ {q.device}
    IN
    /\ q.op = "remove" /\ q.step = "rest"
    /\ IF rest = {} \/ ~EnsureDefault(r, rest) THEN StepTo(r, Commits(q, rest = {}))
       ELSE \E d \in rest : StepTo(r, MakesDefault(q, d))
    /\ UNCHANGED <<saved, default, codes, level>>

CommitRemove(r) ==
    LET q == stepReq[r] IN
    /\ q.op = "remove" /\ q.step = "commit"
    /\ saved' = saved \ {q.device} /\ default' = default \ {q.device}
    /\ codes' = (codes /\ ~q.last)
    /\ Answered(r)
    /\ UNCHANGED level

\* The oldest's row is saved, and stays locked until the commit; if it is gone
\* by then, the save fails and nothing is removed.
SetDefault(r) ==
    LET q == stepReq[r] IN
    /\ q.op = "remove" /\ q.step = "default" /\ ~RowLocked(r, q.oldest)
    /\ IF q.oldest \in saved
       THEN saved' = saved \ {q.device} /\ default' = (default \cup {q.oldest}) \ {q.device}
       ELSE UNCHANGED <<saved, default>>
    /\ Answered(r)
    /\ UNCHANGED <<codes, level>>

\* turn_off: the person checks the requirement, the organisation and a
\* guardian do not.
TurnOff(r, byOthers) ==
    /\ byOthers \/ (saved # {} /\ ~BlocksRemoval(saved))
    /\ saved # {} \/ codes
    /\ Request(r, [op |-> "off", step |-> "off", byOthers |-> byOthers, under |-> level])
    /\ UNCHANGED <<saved, default, codes, level>>

DeleteEverything(r) ==
    LET q == stepReq[r] IN
    /\ q.op = "off" /\ q.step = "off"
    /\ \A d \in saved : ~RowLocked(r, d)
    /\ StepTo(r, [op |-> "off", step |-> "commit", byOthers |-> q.byOthers, under |-> q.under,
                  gone |-> saved])
    /\ UNCHANGED <<saved, default, codes, level>>

\* What was added meanwhile stays.
CommitOff(r) ==
    LET q == stepReq[r] IN
    /\ q.op = "off" /\ q.step = "commit"
    /\ saved' = saved \ q.gone /\ default' = default \ q.gone /\ codes' = FALSE
    /\ Answered(r)
    /\ UNCHANGED level

\* A role is given or taken, or a date of the policy arrives.
RequirementChanges ==
    /\ level' \in Levels \ {level}
    /\ UNCHANGED <<saved, default, codes, stepReq, unnamed, pairs>>

StepRequestDies(r) ==
    /\ stepReq[r].op # "none"
    /\ stepReq' = [stepReq EXCEPT ![r] = NoStep]
    /\ unnamed' = (unnamed \/ (stepReq[r].op = "add" /\ stepReq[r].step \in {"count", "name"}))
    /\ UNCHANGED <<saved, default, codes, level, pairs>>

TwoStepNext ==
    \/ \E r \in SecurityRequests :
        \/ \E d \in Devices : Add(r, d) \/ Remove(r, d)
        \/ AskCodes(r) \/ \E byOthers \in BOOLEAN : TurnOff(r, byOthers)
        \/ SaveDevice(r) \/ CountMethods(r) \/ SaveName(r) \/ MakeBackupCodes(r)
        \/ DeleteDevice(r) \/ LeaveTheRest(r) \/ SetDefault(r) \/ CommitRemove(r)
        \/ DeleteEverything(r) \/ CommitOff(r)
        \/ StepRequestDies(r)
    \/ RequirementChanges

TwoStepSpec == TwoStepInit /\ [][TwoStepNext]_twoStepVars

-----------------------------------------------------------------------------
(* Properties *)

Unmet(kinds) == kinds \cap pairs = {}

\* The login asks for the method named "default", so there is one as long as
\* there are methods: also when several are removed at once (the rows' locks
\* see to it), and when a request dies halfway; not when one is added while
\* another is added or removed, or all are turned off, and not when several are
\* removed at once while two are named so, as a request that died before it
\* named its device leaves them.
\* (accounts.two_step:_added, _ensure_default)
AMethodIsTheDefault ==
    Unmet({{"add"}, {"add", "remove"}, {"add", "off"}}) /\ (Unmet({{"remove"}}) \/ ~unnamed)
        => (saved # {} => default # {})

\* Backup codes alone let nobody in and count as two-step login nowhere: they
\* go with the last method, unless another request made or removed something
\* at the same time. (accounts.two_step:remove, make_backup_codes)
CodesGoWithTheLastMethod ==
    Unmet({{"remove"}, {"add", "remove"}, {"codes", "remove"}, {"codes", "off"}, {"add", "off"}})
        => (codes => saved # {})

\* "At most one" app: two requests that overlap both find none.
\* (accounts.two_step:add_app)
OneApp == Unmet({{"add"}}) => Cardinality(saved \cap Apps) <= 1

\* Nobody takes away their own last method that their role requires, unless
\* two removals were checked at once, or the role came after the check.
\* (accounts.two_step:requirement_blocks_removal)
TheRequiredMethodStays ==
    [][LET took == {r \in SecurityRequests : stepReq'[r] = NoStep /\ stepReq[r].op \in {"remove", "off"}} IN
       (/\ MeetsLevel /\ level' = level
        /\ {{"remove"}, {"off", "remove"}} \cap pairs = {}
        /\ \A r \in took : ~(stepReq[r].op = "off" /\ stepReq[r].byOthers) /\ stepReq[r].under = level)
           => MeetsLevel']_twoStepVars

\* The methods of an account can be signed in with: one is the default, one at
\* most is an app, and backup codes come with one.
MethodsInv ==
    /\ TwoStepTypeOK
    /\ AMethodIsTheDefault
    /\ CodesGoWithTheLastMethod
    /\ OneApp

=============================================================================
