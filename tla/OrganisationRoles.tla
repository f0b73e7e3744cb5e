-------------------------- MODULE OrganisationRoles --------------------------
(***************************************************************************)
(* Organisation roles and the time-boxed Django admin access of those who  *)
(* hold them: accounts.organisation_people, accounts.organisation and      *)
(* accounts.admin_access, with the job that closes expired grants.         *)
(*                                                                         *)
(* set_roles and request_access are transactions: what they read, what     *)
(* they write on the strength of it and their commit are steps of their    *)
(* own.  end() is not: the grant's save, the look for another open grant   *)
(* and the save of is_staff each commit by themselves, and the account was *)
(* loaded with the grant.  Any request may die between two of its steps.   *)
(*                                                                         *)
(* Left out: the sign-in policy, mails and notifications.                  *)
(***************************************************************************)
EXTENDS Naturals, FiniteSets, TLC

CONSTANTS
    Adults,
    Roles,     \* the admin role, and others
    Grants,    \* AdminAccessGrant rows
    RoleRequests,  \* requests under way at once
    Job,       \* the worker of close_admin_access
    MaxMet,    \* bound: the kinds of overlap one behaviour has
    Superuser, \* one made on the server, without a role
    Nobody

ASSUME RolesAssumption ==
    /\ "admin" \in Roles /\ MaxMet \in Nat /\ Job \notin RoleRequests
    /\ Nobody \notin Adults /\ Superuser \notin Adults

EndReasons == {"ended", "revoked", "role_removed", "expired"}

VARIABLES
    roles,    \* OrganisationRole rows
    groups,   \* the role groups an account is in: its permissions
    grant,    \* of each row: whose, why it ended or "open", its time is up
    staff,    \* accounts with is_staff
    roleReq,  \* what each request, and the job, is doing
    job,      \* the job's phase and what is left of the list it loaded
    met       \* observation: the kinds of requests that were under way at once

rolesVars == <<roles, groups, grant, staff, roleReq, job, met>>

Idle == [op |-> "idle"]
JobIdle == [phase |-> "idle", left |-> {}]
NoGrant == [account |-> Nobody, end |-> "open", late |-> FALSE]

RolesTypeOK ==
    /\ roles \in [Adults -> SUBSET Roles]
    /\ groups \in [Adults -> SUBSET Roles]
    /\ grant \in [Grants -> [account : Adults \cup {Nobody}, end : EndReasons \cup {"open"}, late : BOOLEAN]]
    /\ staff \subseteq Adults
    /\ \A g \in Grants : grant[g].end = "expired" => grant[g].late
    /\ \A r \in RoleRequests \cup {Job} : roleReq[r].op \in {"idle", "roles", "ask", "end"}
    /\ job.phase \in {"idle", "grants", "staff"}

\* Roles are first given on the server.
RolesInit ==
    /\ roles \in {f \in [Adults -> {{}, {"admin"}}] : \E a \in Adults : f[a] # {}}
    /\ groups = roles
    /\ grant = [g \in Grants |-> NoGrant]
    /\ staff = {}
    /\ roleReq = [r \in RoleRequests \cup {Job} |-> Idle]
    /\ job = JobIdle
    /\ met = {}

-----------------------------------------------------------------------------
(* Lookups *)

\* AdminAccessGrantQuerySet.open
IsOpen(g) == grant[g].account # Nobody /\ grant[g].end = "open" /\ ~grant[g].late
OpenGrants(a) == {g \in Grants : grant[g].account = a /\ IsOpen(g)}

\* The People area is a permission of the admin group; a superuser has all.
MayManagePeople(by) == by # Superuser => "admin" \in groups[by]

\* Mutant: the account itself counts.
SomeAdmin(a) == \E b \in Adults : "admin" \in roles[b]

OtherAdminThan(a) == \E b \in Adults \ {a} : "admin" \in roles[b]

\* What is under way; the job counts as ending a grant as long as it runs.
UnderWay ==
    ({roleReq[q].op : q \in RoleRequests \cup {Job}} \ {"idle"})
        \cup (IF job.phase # "idle" THEN {"end"} ELSE {})

\* A request starts; what it overlaps with is observed.
Begin(r, request) ==
    /\ roleReq[r].op = "idle"
    /\ roleReq' = [roleReq EXCEPT ![r] = request]
    /\ met' = met \cup {{request.op, op} : op \in UnderWay}
    /\ Cardinality(met') <= MaxMet

Finish(r) == roleReq' = [roleReq EXCEPT ![r] = Idle] /\ UNCHANGED met

GoOn(r, request) == roleReq' = [roleReq EXCEPT ![r] = request] /\ UNCHANGED met

-----------------------------------------------------------------------------
(* Giving and taking roles *)

SetRoles(r, by, a, wanted) ==
    LET removed == roles[a] \ wanted IN
    /\ MayManagePeople(by) /\ by # a
    /\ wanted # roles[a]
    /\ "admin" \in removed => OtherAdminThan(a)
    /\ Begin(r, [op |-> "roles", step |-> "write", account |-> a,
                 added |-> wanted \ roles[a], removed |-> removed])
    /\ UNCHANGED <<roles, groups, grant, staff, job>>

\* What the transaction commits.
Synced(q, view, ended) ==
    [op |-> "roles", step |-> "commit", account |-> q.account, added |-> q.added,
     removed |-> q.removed, view |-> view, ended |-> ended,
     needsStaff |-> OpenGrants(q.account) \ ended # {}, hadStaff |-> q.account \in staff]

\* Mutant: losing the last role leaves a grant as it is.
SyncGroupsOnly(q, view) == Synced(q, view, {})

\* The signal of the last row puts the account in the groups of the roles this
\* transaction sees, and without a role ends its open grant.
SyncOrganisationAccess(q, view) ==
    Synced(q, view, IF view = {} /\ OpenGrants(q.account) # {}
                    THEN {CHOOSE g \in OpenGrants(q.account) : TRUE} ELSE {})

WriteRoles(r) ==
    LET q == roleReq[r] IN
    /\ q.op = "roles" /\ q.step = "write"
    /\ IF q.added \cap roles[q.account] # {}
       THEN Finish(r)  \* unique_organisation_role
       ELSE GoOn(r, SyncOrganisationAccess(q, (roles[q.account] \cup q.added) \ q.removed))
    /\ UNCHANGED <<roles, groups, grant, staff, job>>

StaffSaved(a, had, needs) ==
    IF had = needs THEN staff ELSE IF needs THEN staff \cup {a} ELSE staff \ {a}

CommitRoles(r) ==
    LET q == roleReq[r] IN
    /\ q.op = "roles" /\ q.step = "commit"
    /\ roles' = [roles EXCEPT ![q.account] = (@ \cup q.added) \ q.removed]
    /\ groups' = [groups EXCEPT ![q.account] = q.view]
    /\ grant' = [g \in Grants |->
                   IF g \in q.ended THEN [grant[g] EXCEPT !.end = "role_removed"] ELSE grant[g]]
    /\ staff' = StaffSaved(q.account, q.hadStaff, q.needsStaff)
    /\ Finish(r) /\ UNCHANGED job

-----------------------------------------------------------------------------
(* Asking for access and ending it *)

RequestAccess(r, a) ==
    /\ roles[a] # {} /\ OpenGrants(a) = {}
    /\ \E g \in Grants : grant[g].account = Nobody
    /\ Begin(r, [op |-> "ask", account |-> a, hadStaff |-> a \in staff])
    /\ UNCHANGED <<roles, groups, grant, staff, job>>

CommitAccess(r) ==
    LET q == roleReq[r] IN
    /\ q.op = "ask"
    /\ \E g \in Grants :
        /\ grant[g].account = Nobody
        /\ grant' = [grant EXCEPT ![g].account = q.account]
    /\ staff' = StaffSaved(q.account, q.hadStaff, TRUE)
    /\ Finish(r) /\ UNCHANGED <<roles, groups, job>>

EndOf(g, reason, had) ==
    [op |-> "end", step |-> "save", account |-> grant[g].account, grant |-> g,
     reason |-> reason, hadStaff |-> had]

\* The holder ends it, or an organisation admin.
EndAccess(r, g, by) ==
    /\ IsOpen(g)
    /\ by = grant[g].account \/ MayManagePeople(by)
    /\ Begin(r, EndOf(g, IF by = grant[g].account THEN "ended" ELSE "revoked",
                      grant[g].account \in staff))
    /\ UNCHANGED <<roles, groups, grant, staff, job>>

\* end() looks at the row it was given, not at the table.
SaveEnd(r) ==
    LET q == roleReq[r] IN
    /\ q.op = "end" /\ q.step = "save"
    /\ IF grant[q.grant].late /\ q.reason # "expired"
       THEN Finish(r) /\ UNCHANGED grant
       ELSE /\ grant' = [grant EXCEPT ![q.grant].end = q.reason]
            /\ GoOn(r, [op |-> "end", step |-> "sync", account |-> q.account, hadStaff |-> q.hadStaff])
    /\ UNCHANGED <<roles, groups, staff, job>>

\* The account is saved next, with staff status or without.
StaffDiffers(q, needs) ==
    [op |-> "end", step |-> "staff", account |-> q.account, hadStaff |-> q.hadStaff,
     needsStaff |-> needs]

\* Mutant: an end always takes staff status away.
SyncStaffOff(r) ==
    LET q == roleReq[r] IN
    /\ q.op = "end" /\ q.step = "sync"
    /\ IF ~q.hadStaff THEN Finish(r)
       ELSE GoOn(r, StaffDiffers(q, FALSE))
    /\ UNCHANGED <<roles, groups, grant, staff, job>>

\* sync_staff: is a grant open, and does the account as loaded differ?
SyncStaff(r) ==
    LET q == roleReq[r]
        needs == OpenGrants(q.account) # {}
    IN
    /\ q.op = "end" /\ q.step = "sync"
    /\ IF q.hadStaff = needs THEN Finish(r)
       ELSE GoOn(r, StaffDiffers(q, needs))
    /\ UNCHANGED <<roles, groups, grant, staff, job>>

SaveStaff(r) ==
    LET q == roleReq[r] IN
    /\ q.op = "end" /\ q.step = "staff"
    /\ staff' = StaffSaved(q.account, q.hadStaff, q.needsStaff)
    /\ Finish(r) /\ UNCHANGED <<roles, groups, grant, job>>

-----------------------------------------------------------------------------
(* The job of every five minutes *)

\* Mutant: every row whose time is up, not only those still open.
CloseAllExpired ==
    /\ job.phase = "idle" /\ roleReq[Job].op = "idle"
    /\ job' = [phase |-> "grants",
               left |-> {EndOf(g, "expired", grant[g].account \in staff) :
                            g \in {g \in Grants : grant[g].account # Nobody /\ grant[g].late}}]
    /\ met' = met \cup {{"end", op} : op \in UnderWay}
    /\ UNCHANGED <<roles, groups, grant, staff, roleReq>>

CloseExpired ==
    /\ job.phase = "idle" /\ roleReq[Job].op = "idle"
    /\ job' = [phase |-> "grants",
               left |-> {EndOf(g, "expired", grant[g].account \in staff) :
                            g \in {g \in Grants : /\ grant[g].account # Nobody
                                                  /\ grant[g].end = "open" /\ grant[g].late}}]
    /\ met' = met \cup {{"end", op} : op \in UnderWay}
    /\ UNCHANGED <<roles, groups, grant, staff, roleReq>>

CloseOne ==
    \E q \in job.left :
        /\ job.phase # "idle" /\ roleReq[Job].op = "idle"
        /\ GoOn(Job, q)
        /\ job' = [job EXCEPT !.left = @ \ {q}]
        /\ UNCHANGED <<roles, groups, grant, staff>>

\* Then the accounts that are staff, whatever the reason.
CheckStaff ==
    /\ job.phase = "grants" /\ job.left = {} /\ roleReq[Job].op = "idle"
    /\ job' = [phase |-> "staff",
               left |-> {[op |-> "end", step |-> "sync", account |-> a, hadStaff |-> TRUE] : a \in staff}]
    /\ UNCHANGED <<roles, groups, grant, staff, roleReq, met>>

JobDone ==
    /\ job.phase = "staff" /\ job.left = {} /\ roleReq[Job].op = "idle"
    /\ job' = JobIdle
    /\ UNCHANGED <<roles, groups, grant, staff, roleReq, met>>

-----------------------------------------------------------------------------
(* Time, and failures *)

TimeIsUp(g) ==
    /\ IsOpen(g)
    /\ grant' = [grant EXCEPT ![g].late = TRUE]
    /\ UNCHANGED <<roles, groups, staff, roleReq, job, met>>

\* A worker dies: a transaction is rolled back, and the job starts anew at its
\* next time.
RequestDies(r) ==
    /\ roleReq[r].op # "idle"
    /\ Finish(r)
    /\ job' = IF r = Job THEN JobIdle ELSE job
    /\ UNCHANGED <<roles, groups, grant, staff>>

RolesStep(r) ==
    WriteRoles(r) \/ CommitRoles(r) \/ CommitAccess(r) \/ SaveEnd(r) \/ SyncStaff(r) \/ SaveStaff(r)

JobStep == CloseOne \/ CheckStaff \/ JobDone

RolesNext ==
    \/ \E r \in RoleRequests :
        \/ \E by \in Adults \cup {Superuser}, a \in Adults, wanted \in SUBSET Roles : SetRoles(r, by, a, wanted)
        \/ \E a \in Adults : RequestAccess(r, a)
        \/ \E g \in Grants, by \in Adults \cup {Superuser} : EndAccess(r, g, by)
    \/ \E r \in RoleRequests \cup {Job} : RolesStep(r) \/ RequestDies(r)
    \/ CloseExpired \/ JobStep
    \/ \E g \in Grants : TimeIsUp(g)

RolesSpec == RolesInit /\ [][RolesNext]_rolesVars

-----------------------------------------------------------------------------
(* Properties *)

\* "There is always at least one account with the admin role", as long as no
\* two changes of roles are under way at once: each counts the others' admins
\* and locks nothing. (accounts.organisation_people:set_roles)
AnAdminRemains ==
    {"roles"} \notin met => \E a \in Adults : "admin" \in roles[a]

\* Access does not outlive the last role, unless the role went while access
\* was being asked for, access was asked for twice at once (the role's end ends
\* one grant), or two changes at once took a role each. (accounts.organisation:sync_organisation_access)
AccessEndsWithTheRole ==
    {{"roles"}, {"ask"}, {"ask", "roles"}} \cap met = {}
        => \A a \in Adults : OpenGrants(a) # {} => roles[a] # {}

\* Once nothing is under way, whoever holds an open grant is staff, unless it
\* was asked for while another of the account's grants was being ended.
\* (accounts.admin_access:sync_staff)
OpenAccessWorks ==
    (/\ \A r \in RoleRequests \cup {Job} : roleReq[r].op = "idle"
     /\ {{"ask", "end"}, {"ask", "roles"}} \cap met = {})
        => \A a \in Adults : OpenGrants(a) # {} => a \in staff

\* How access ended is written once, unless two endings overlapped: each saves
\* the row it loaded as open. (accounts.admin_access:end, close_expired)
AnEndIsFinal ==
    [][{{"end"}, {"end", "roles"}} \cap met' = {} =>
         \A g \in Grants : grant[g].end # "open" => grant'[g].end = grant[g].end]_rolesVars

\* Roles and admin access fit together: somebody can give roles, access ends with
\* the last role, and who has access can use it.
RolesInv ==
    /\ RolesTypeOK
    /\ AnAdminRemains
    /\ AccessEndsWithTheRole
    /\ OpenAccessWorks

=============================================================================
