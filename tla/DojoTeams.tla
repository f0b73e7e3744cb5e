------------------------------ MODULE DojoTeams ------------------------------
(***************************************************************************)
(* One dojo's team and lifecycle (dojos.team): joining, adding, promoting, *)
(* leaving, removing, handing over the champion role, launching, resting   *)
(* and archiving the dojo, and what an erasure does to the memberships.    *)
(*                                                                         *)
(* A request loads the rows it needs and checks them, and writes later.    *)
(* Most functions save() the whole membership as it was loaded with their  *)
(* changes on it; leaving, removing and handing over write some columns.   *)
(* The dojo's settings page saves the whole dojo, its status included.     *)
(*                                                                         *)
(* Who is vetted comes from Vetting, which Applications implements.        *)
(* Whether a session lies ahead, which keeps a dojo from coming to rest,   *)
(* is left open: a dojo may come to rest or not.  Left out: notifications  *)
(* and mails, who asked and who decided, other dojos (their rows are their *)
(* own), the organisation's own "dojo".                                    *)
(***************************************************************************)
EXTENDS Vetting, FiniteSets

CONSTANTS
    Ninjas,       \* children's own accounts, switched on
    TeamHandlers, \* bound: requests in flight
    Founder       \* the champion who created the dojo

ASSUME TeamAssumption == Founder \in Adults /\ Adults \cap Ninjas = {}

VARIABLES
    dojo,       \* its status
    member,     \* the DojoMembership row of each account
    gone,       \* erased accounts
    posted,     \* what each request is doing
    overlapped  \* observation: two of the requests were in flight together

teamVars == <<dojo, member, gone, posted, overlapped>>

Users == Adults \cup Ninjas

Absent == [role |-> "none", status |-> "none", joined |-> FALSE]
Waiting == [op |-> "waiting"]

DojoStatus == {"draft", "active", "dormant", "archived"}

TeamTypeOK ==
    /\ VettingTypeOK
    /\ dojo \in DojoStatus /\ overlapped \in BOOLEAN
    /\ gone \subseteq Users
    /\ member \in [Users ->
         {Absent} \cup [role : {"champion", "mentor", "youth_mentor"},
                        status : {"requested", "active", "dormant"}, joined : BOOLEAN]]
    /\ \A u \in Users : member[u].status = "active" => member[u].joined
    /\ \A n \in Ninjas : member[n].role \in {"none", "youth_mentor"}

\* The founder is an approved champion; the dojo starts as a draft.
TeamInit ==
    /\ checked = {Founder} /\ clear = {Founder} /\ approved = {Founder}
    /\ dojo = "draft"
    /\ member = [u \in Users |->
         IF u = Founder THEN [role |-> "champion", status |-> "active", joined |-> TRUE]
         ELSE Absent]
    /\ gone = {}
    /\ posted = [h \in TeamHandlers |-> Waiting]
    /\ overlapped = FALSE

-----------------------------------------------------------------------------
(* Who may post what, on the rows as they are loaded *)

IsActive(u) == member[u].status = "active"
IsManager(u) == IsActive(u) /\ member[u].role \in {"champion", "mentor"}
IsChampion(u) == IsActive(u) /\ member[u].role = "champion"

\* managing_membership: an active managing role and a valid check.
HasAccess(u) == IsManager(u) /\ u \in clear
LeadsDojo(u) == IsChampion(u) /\ u \in clear

CanManage == {u \in Adults : HasAccess(u)}
CanLead == {u \in Adults : LeadsDojo(u)}

Lifecycle ==
    { [from |-> "draft",    action |-> "launch",     to |-> "active"],
      [from |-> "active",   action |-> "go_dormant", to |-> "dormant"],
      [from |-> "dormant",  action |-> "restart",    to |-> "active"],
      [from |-> "active",   action |-> "archive",    to |-> "archived"],
      [from |-> "dormant",  action |-> "archive",    to |-> "archived"],
      [from |-> "archived", action |-> "reopen",     to |-> "draft"] }

Resting == {"dormant", "archived"}

\* request_to_join's own checks.
MayAsk(u) ==
    /\ IsApprovedMentor(u)
    /\ member[u].status \in {"none", "dormant"}

Post(h, r) ==
    /\ posted[h] = Waiting
    /\ posted' = [posted EXCEPT ![h] = r]
    /\ overlapped' = (overlapped \/ \E g \in TeamHandlers : posted[g] # Waiting)
    /\ UNCHANGED <<dojo, member, gone, vettingVars>>

\* A request about one account's membership, with the row it loaded.
PostAbout(h, op, u) == Post(h, [op |-> op, user |-> u, row |-> member[u]])

RequestToJoin(h, u) ==
    /\ u \notin gone /\ dojo = "active" /\ MayAsk(u)
    /\ PostAbout(h, "join", u)

AcceptRequest(h, u) ==
    /\ CanManage # {}
    /\ member[u].status = "requested"
    /\ PostAbout(h, "accept", u)

DeclineRequest(h, u) ==
    /\ CanManage # {}
    /\ member[u].status = "requested"
    /\ PostAbout(h, "decline", u)

\* Mutant: anyone with an account is added.
AddAnyone(h, u) ==
    /\ CanManage # {}
    /\ u \notin gone /\ ~IsActive(u)
    /\ PostAbout(h, "add", u)

\* By email address, which an erased account no longer has.
AddMentor(h, u) ==
    /\ CanManage # {}
    /\ u \notin gone /\ IsApprovedMentor(u) /\ ~IsActive(u)
    /\ PostAbout(h, "add", u)

PromoteYouthMentor(h, n) ==
    /\ CanManage # {}
    /\ n \notin gone /\ ~IsActive(n)
    /\ PostAbout(h, "promote", n)

Leave(h, u) ==
    /\ HasAccess(u) /\ member[u].role # "champion"
    /\ Post(h, [op |-> "leave", user |-> u])

RemoveMember(h, u) ==
    /\ CanManage # {}
    /\ IsActive(u) /\ member[u].role # "champion"
    /\ Post(h, [op |-> "leave", user |-> u])

TransferChampion(h, from, to) ==
    /\ LeadsDojo(from)
    /\ IsActive(to) /\ member[to].role = "mentor" /\ to \in clear
    /\ Post(h, [op |-> "transfer", user |-> from, to |-> to])

ChangeStatus(h, step) ==
    /\ CanLead # {}
    /\ dojo = step.from
    /\ Post(h, [op |-> "status", to |-> step.to])

SaveSettings(h) ==
    /\ CanManage # {}
    /\ Post(h, [op |-> "settings", to |-> dojo])

\* The volunteer's application is approved: its dojo was loaded with it.
ApproveApplication(h, u) ==
    /\ u \notin gone /\ u \in clear \ approved
    /\ Post(h, [op |-> "approve", user |-> u, dojo |-> dojo])

\* Mutant: the champion of an active dojo is erased like anyone else.
DeleteAnyAccount(h, u) == u \notin gone /\ Post(h, [op |-> "erase", user |-> u])

\* privacy.deletion: not the champion of an active dojo.
DeleteAccount(h, u) ==
    /\ u \notin gone
    /\ ~(dojo = "active" /\ IsChampion(u))
    /\ Post(h, [op |-> "erase", user |-> u])

-----------------------------------------------------------------------------
(* What the request writes *)

Done(h) == posted' = [posted EXCEPT ![h] = Waiting] /\ UNCHANGED overlapped

\* save() of a whole row: it comes back when it was deleted meanwhile, and a
\* new one for an account that has one by then is refused by the database.
SaveRow(u, seen, row) ==
    member' = IF seen = Absent /\ member[u] # Absent THEN member
              ELSE [member EXCEPT ![u] = row]

\* save(update_fields=...) of a row that may have been deleted meanwhile.
SaveColumns(u, row) ==
    member' = IF member[u] = Absent THEN member ELSE [member EXCEPT ![u] = row]

\* Mutant: joined_at is not set.
ActivatedUndated(role) == [role |-> role, status |-> "active", joined |-> FALSE]

Activated(role) == [role |-> role, status |-> "active", joined |-> TRUE]

\* A declined request: dormant for someone who was on the team before.
Declined(row) == IF row.joined THEN [row EXCEPT !.status = "dormant"] ELSE Absent

\* The end of one kind of request about one membership: its whole row.
FinishRow(h, op, row) ==
    /\ posted[h].op = op
    /\ SaveRow(posted[h].user, posted[h].row, row)
    /\ Done(h)
    /\ UNCHANGED <<dojo, gone, vettingVars>>

FinishJoin(h) ==
    FinishRow(h, "join", [role |-> "mentor", status |-> "requested", joined |-> posted[h].row.joined])
FinishAccept(h) == FinishRow(h, "accept", Activated(posted[h].row.role))
FinishAdd(h) == FinishRow(h, "add", Activated("mentor"))
FinishPromote(h) == FinishRow(h, "promote", Activated("youth_mentor"))

\* Declining saves or deletes the row by its key, whatever it is by now.
FinishDeclining(h) ==
    LET r == posted[h] IN
    /\ r.op = "decline"
    /\ member' = [member EXCEPT ![r.user] = Declined(r.row)]
    /\ Done(h)
    /\ UNCHANGED <<dojo, gone, vettingVars>>

\* _make_dormant
FinishLeaving(h) ==
    LET r == posted[h] IN
    /\ r.op = "leave"
    /\ SaveColumns(r.user, [member[r.user] EXCEPT !.status = "dormant"])
    /\ Done(h)
    /\ UNCHANGED <<dojo, gone, vettingVars>>

\* One transaction: a row that was deleted meanwhile undoes it.
FinishTransfer(h) ==
    LET r == posted[h] IN
    /\ r.op = "transfer"
    /\ member' = IF Absent \in {member[r.user], member[r.to]} THEN member
                 ELSE [member EXCEPT ![r.user].role = "mentor", ![r.to].role = "champion"]
    /\ Done(h)
    /\ UNCHANGED <<dojo, gone, vettingVars>>

\* Mutant: the dojo comes to rest and its requests stay.
FinishStatusOnly(h) ==
    /\ posted[h].op = "status"
    /\ dojo' = posted[h].to
    /\ Done(h)
    /\ UNCHANGED <<member, gone, vettingVars>>

\* A dojo that comes to rest closes the join requests of that moment.
FinishStatus(h) ==
    LET r == posted[h] IN
    /\ r.op = "status"
    /\ dojo' = r.to
    /\ member' = IF r.to \in Resting
                 THEN [u \in Users |-> IF member[u].status = "requested"
                                       THEN Declined(member[u]) ELSE member[u]]
                 ELSE member
    /\ Done(h)
    /\ UNCHANGED <<gone, vettingVars>>

FinishSettings(h) ==
    /\ posted[h].op = "settings"
    /\ dojo' = posted[h].to
    /\ Done(h)
    /\ UNCHANGED <<member, gone, vettingVars>>

\* The application is saved; then the request to join, for the dojo loaded
\* before, is a step of its own or is dropped (its TeamError is swallowed).
FinishApproval(h) ==
    LET r == posted[h] IN
    /\ r.op = "approve"
    /\ Approve(r.user)
    /\ posted' = [posted EXCEPT ![h] =
         IF r.dojo = "active" /\ r.user \in clear /\ member[r.user].status \in {"none", "dormant"}
         THEN [op |-> "join", user |-> r.user, row |-> member[r.user]] ELSE Waiting]
    /\ UNCHANGED <<dojo, member, gone, overlapped>>

\* end_all_memberships, in the erasure's transaction; the login is closed.
FinishErasure(h) ==
    LET u == posted[h].user IN
    /\ posted[h].op = "erase"
    /\ member' = [member EXCEPT ![u] =
         IF @.status = "requested" /\ ~@.joined THEN Absent
         ELSE IF @ = Absent THEN Absent ELSE [@ EXCEPT !.status = "dormant"]]
    /\ gone' = gone \cup {u}
    /\ clear' = clear \ {u} /\ approved' = approved \ {u}
    /\ Done(h)
    /\ UNCHANGED <<dojo, checked>>

\* The worker dies before a request's first write, or between the approval
\* of an application and its request to join.
Abandon(h) ==
    /\ posted[h] # Waiting
    /\ Done(h)
    /\ UNCHANGED <<dojo, member, gone, vettingVars>>

-----------------------------------------------------------------------------
(* The rest of the program *)

Vet ==
    /\ \E u \in Adults \ gone : RecordValidated(u) \/ BecomeClear(u) \/ Lapse(u)
    /\ UNCHANGED teamVars

TeamNext ==
    \/ Vet
    \/ \E h \in TeamHandlers :
        \/ \E u \in Adults :
            \/ RequestToJoin(h, u) \/ AddMentor(h, u) \/ Leave(h, u)
            \/ ApproveApplication(h, u)
            \/ \E to \in Adults : TransferChampion(h, u, to)
        \/ \E u \in Users :
            \/ AcceptRequest(h, u) \/ DeclineRequest(h, u) \/ RemoveMember(h, u)
            \/ DeleteAccount(h, u)
        \/ \E n \in Ninjas : PromoteYouthMentor(h, n)
        \/ \E step \in Lifecycle : ChangeStatus(h, step)
        \/ SaveSettings(h)
        \/ FinishJoin(h) \/ FinishAccept(h) \/ FinishAdd(h) \/ FinishPromote(h)
        \/ FinishDeclining(h) \/ FinishLeaving(h) \/ FinishTransfer(h)
        \/ FinishStatus(h) \/ FinishSettings(h) \/ FinishApproval(h) \/ FinishErasure(h)
        \/ Abandon(h)

TeamSpec == TeamInit /\ [][TeamNext]_<<teamVars, vettingVars>>

-----------------------------------------------------------------------------
(* Properties *)

Champions == {u \in Adults : IsChampion(u)}

\* The model's docstring has "exactly one active per dojo" of the champion
\* (dojos.models:DojoMembership).
OneChampion == dojo = "active" => Cardinality(Champions) = 1

\* As long as no two requests overlapped, an active dojo has its one
\* champion, through transfers, removals, erasures, and reopening.
OneChampionWithoutOverlap == ~overlapped => OneChampion

\* However requests overlap, whoever manages the dojo had their background
\* check validated and logged: stale rows never bring in someone unvetted.
\* (dojos.team:add_mentor, request_to_join, transfer_champion)
ManagersWereChecked == \A u \in Users : IsManager(u) => u \in checked

\* As long as no two requests overlapped, a dojo that rests has no pending
\* join requests, whichever way it came to rest and whatever arrived
\* meanwhile. (dojos.team:change_status)
NoRequestsWhileResting ==
    ~overlapped /\ dojo \in Resting => \A u \in Users : member[u].status # "requested"

\* A dojo is led by one champion, managed by people who were checked, and asks
\* nobody in while it rests.
TeamsInv ==
    /\ TeamTypeOK
    /\ OneChampionWithoutOverlap
    /\ ManagersWereChecked
    /\ NoRequestsWhileResting

=============================================================================
