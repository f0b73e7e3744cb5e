------------------------------ MODULE Guardians ------------------------------
(***************************************************************************)
(* One child's guardians (accounts.guardian_invitations): inviting another *)
(* adult, sending the invitation again, withdrawing and accepting it,      *)
(* removing a guardian or stepping down, and deleting a guardian's account *)
(* (privacy.erasure.erase_person), which takes the child with it when the  *)
(* account is its only parent or legal guardian.                           *)
(*                                                                         *)
(* Transactions run at READ COMMITTED: what a request reads may be out of  *)
(* date when it commits, except for the one row it locked: the invitation  *)
(* for an acceptance, the guardian's link for a removal.  So acceptances,  *)
(* withdrawals, removals and deletions are more than one step each.        *)
(*                                                                         *)
(* Left out: the throttle, the link's token, the consent an acceptance may *)
(* record, what forbids deleting an account for its other roles, the mails *)
(* all of this sends, and the clean-up of old invitations.                 *)
(***************************************************************************)
EXTENDS FiniteSets

CONSTANTS
    Relatives, \* accounts and addresses that are or may become guardians
    Invites,   \* bound: GuardianInvitation rows
    Joiners,   \* web requests that accept or withdraw an invitation
    Leavers,   \* web requests that remove a guardian or delete an account
    NoRelative

ASSUME ConstantsAssumption == NoRelative \notin Relatives /\ NoRelative \notin Invites

VARIABLES
    links,   \* the adult's Guardianship: none, or its relation
    erased,  \* whether the child was erased
    deleted, \* the accounts that were deleted
    invited, \* the GuardianInvitation rows
    joiner,  \* per joining request: where its transaction is
    leaver   \* per leaving request: where its transaction is

guardianVars == <<links, erased, deleted, invited, joiner, leaver>>

Relation == {"responsible", "other"}

Guardian == {a \in Relatives : links[a] # "none"}

\* The guardians with parental responsibility.
Responsible == {a \in Relatives : links[a] = "responsible"}

NoInvitation == [to |-> NoRelative, by |-> NoRelative, relation |-> "other",
                 accepted |-> FALSE, withdrawn |-> FALSE, expired |-> FALSE]

IdleJoiner == [step |-> "idle", of |-> NoRelative]
IdleLeaver == [step |-> "idle", who |-> NoRelative, takes |-> {}, child |-> FALSE]

GuardiansTypeOK ==
    /\ links \in [Relatives -> Relation \cup {"none"}]
    /\ erased \in BOOLEAN
    /\ deleted \subseteq Relatives
    /\ invited \in [Invites ->
          [to : Relatives \cup {NoRelative}, by : Relatives \cup {NoRelative}, relation : Relation,
           accepted : BOOLEAN, withdrawn : BOOLEAN, expired : BOOLEAN]]
    /\ \A i \in Invites : invited[i].to = NoRelative => invited[i] = NoInvitation
    /\ joiner \in [Joiners ->
          {IdleJoiner}
          \cup [step : {"withdraw", "accept"}, of : Invites]]
    /\ leaver \in [Leavers ->
          {IdleLeaver}
          \cup [step : {"remove", "erase"}, who : Relatives, takes : SUBSET Relatives, child : BOOLEAN]]

\* A child one adult, its parent, has just added.
GuardiansInit ==
    /\ \E a \in Relatives : links = [b \in Relatives |-> IF b = a THEN "responsible" ELSE "none"]
    /\ erased = FALSE
    /\ deleted = {}
    /\ invited = [i \in Invites |-> NoInvitation]
    /\ joiner = [r \in Joiners |-> IdleJoiner]
    /\ leaver = [r \in Leavers |-> IdleLeaver]

-----------------------------------------------------------------------------
(* Invitations *)

IsPending(i) ==
    /\ invited[i].to # NoRelative
    /\ ~invited[i].accepted /\ ~invited[i].withdrawn /\ ~invited[i].expired

\* invite: by a parent or legal guardian, to an address that is not a
\* guardian's and has no invitation waiting.
Invite(i, by, to, relation) ==
    /\ ~erased
    /\ by \in Responsible
    /\ to # by /\ to \notin Guardian \cup deleted
    /\ \A j \in Invites : IsPending(j) => invited[j].to # to
    /\ invited[i] = NoInvitation
    /\ invited' = [invited EXCEPT
                        ![i] = [to |-> to, by |-> by, relation |-> relation, accepted |-> FALSE,
                                withdrawn |-> FALSE, expired |-> FALSE]]
    /\ UNCHANGED <<links, erased, deleted, joiner, leaver>>

\* VALID_DAYS pass.
InviteExpires(i) ==
    /\ IsPending(i)
    /\ invited' = [invited EXCEPT ![i].expired = TRUE]
    /\ UNCHANGED <<links, erased, deleted, joiner, leaver>>

\* Mutant: an acceptance holds no lock on the invitation's row.
NeverLocked(i) == FALSE

\* The invitation's row is locked by the acceptances under way.
InvitationLocked(i) ==
    \E r \in Joiners : joiner[r].of = i /\ joiner[r].step = "accept"

\* resend: valid again; a save of the token and the date alone, so that what
\* it read before does not matter to the rest of the row.
Resend(i) ==
    /\ Responsible # {}
    /\ invited[i].to # NoRelative
    /\ ~invited[i].accepted /\ ~invited[i].withdrawn
    /\ ~InvitationLocked(i)
    /\ invited' = [invited EXCEPT ![i].expired = FALSE]
    /\ UNCHANGED <<links, erased, deleted, joiner, leaver>>

\* withdraw, by any parent or legal guardian: the row the page loaded is
\* pending, and is saved without being locked or read again.
LoadToWithdraw(r, i) ==
    /\ joiner[r].step = "idle"
    /\ Responsible # {}
    /\ IsPending(i)
    /\ joiner' = [joiner EXCEPT ![r] = [step |-> "withdraw", of |-> i]]
    /\ UNCHANGED <<links, erased, deleted, invited, leaver>>

Withdraw(r) ==
    LET i == joiner[r].of
    IN  /\ joiner[r].step = "withdraw"
        /\ ~InvitationLocked(i)
        /\ invited' = IF invited[i].to = NoRelative THEN invited
                         ELSE [invited EXCEPT ![i].withdrawn = TRUE]
        /\ joiner' = [joiner EXCEPT ![r] = IdleJoiner]
        /\ UNCHANGED <<links, erased, deleted, leaver>>

\* An acceptance waits for the row's lock, and reads the row under it.
Acceptable(i) == IsPending(i) /\ ~InvitationLocked(i)

\* accept: the invitation is pending, its sender still a parent or legal
\* guardian, and its address an active account that is no guardian yet.
LockToAccept(r, i) ==
    /\ joiner[r].step = "idle"
    /\ Acceptable(i)
    /\ invited[i].by \in Responsible
    /\ invited[i].to \notin Guardian \cup deleted
    /\ joiner' = [joiner EXCEPT ![r] = [step |-> "accept", of |-> i]]
    /\ UNCHANGED <<links, erased, deleted, invited, leaver>>

\* The transaction commits; one link per guardian and child, else it fails.
CommitAccept(r) ==
    LET i == joiner[r].of
        a == invited[i].to
    IN  /\ joiner[r].step = "accept"
        /\ joiner' = [joiner EXCEPT ![r] = IdleJoiner]
        /\ IF a \in Guardian
           THEN UNCHANGED <<links, invited>>
           ELSE /\ links' = [links EXCEPT ![a] = invited[i].relation]
                /\ invited' = [invited EXCEPT ![i].accepted = TRUE]
        /\ UNCHANGED <<erased, deleted, leaver>>

-----------------------------------------------------------------------------
(* Removing a guardian, and deleting an account *)

LinkLocked(a) == \E r \in Leavers : leaver[r].step = "remove" /\ leaver[r].who = a

\* Mutant: any other guardian will do.
OtherGuardianLeft(a) == Guardian \ {a} # {}

\* The child has another parent or legal guardian than a.
OtherResponsibleLeft(a) == Responsible \ {a} # {}

\* remove: the link is locked, then removal_problem reads the others.
LockToRemove(r, a, by) ==
    /\ leaver[r].step = "idle"
    /\ by \in Guardian
    /\ a \in Guardian /\ ~LinkLocked(a)
    /\ a = by \/ by \in Responsible
    /\ a \in Responsible => OtherResponsibleLeft(a)
    /\ leaver' = [leaver EXCEPT ![r] = [step |-> "remove", who |-> a, takes |-> {a}, child |-> FALSE]]
    /\ UNCHANGED <<links, erased, deleted, invited, joiner>>

CommitRemove(r) ==
    /\ leaver[r].step = "remove"
    /\ links' = [links EXCEPT ![leaver[r].who] = "none"]
    /\ leaver' = [leaver EXCEPT ![r] = IdleLeaver]
    /\ UNCHANGED <<erased, deleted, invited, joiner>>

\* erase_person: sole_children, and the collection of the rows to go.
StartErase(r, a) ==
    LET sole == a \in Responsible /\ ~OtherResponsibleLeft(a)
    IN  /\ leaver[r].step = "idle"
        /\ a \notin deleted
        /\ leaver' = [leaver EXCEPT
                        ![r] = [step |-> "erase", who |-> a, child |-> sole,
                                takes |-> IF sole THEN Guardian ELSE {a} \cap Guardian]]
        /\ UNCHANGED <<links, erased, deleted, invited, joiner>>

\* The rows collected are deleted or emptied: the account's link, the
\* invitations to it, and everything of a child that goes with it; its own
\* invitations of others keep no sender.
CommitErase(r) ==
    LET a == leaver[r].who
    IN  /\ leaver[r].step = "erase"
        /\ \A g \in leaver[r].takes : ~LinkLocked(g)
        /\ \A i \in Invites :
              leaver[r].child \/ a \in {invited[i].to, invited[i].by} => ~InvitationLocked(i)
        /\ links' = [g \in Relatives |-> IF g \in leaver[r].takes THEN "none" ELSE links[g]]
        /\ erased' = (erased \/ leaver[r].child)
        /\ deleted' = deleted \cup {a}
        /\ invited' = [i \in Invites |->
                            IF leaver[r].child \/ invited[i].to = a THEN NoInvitation
                            ELSE IF invited[i].by = a THEN [invited[i] EXCEPT !.by = NoRelative]
                            ELSE invited[i]]
        /\ leaver' = [leaver EXCEPT ![r] = IdleLeaver]
        /\ UNCHANGED joiner

GuardiansNext ==
    \/ \E i \in Invites :
         \/ \E by, to \in Relatives, relation \in Relation : Invite(i, by, to, relation)
         \/ InviteExpires(i)
         \/ Resend(i)
    \/ \E r \in Joiners :
         \/ \E i \in Invites : LoadToWithdraw(r, i) \/ LockToAccept(r, i)
         \/ Withdraw(r) \/ CommitAccept(r)
    \/ \E r \in Leavers :
         \/ \E a, by \in Relatives : LockToRemove(r, a, by)
         \/ \E a \in Relatives : StartErase(r, a)
         \/ CommitRemove(r) \/ CommitErase(r)

GuardiansSpec == GuardiansInit /\ [][GuardiansNext]_guardianVars

-----------------------------------------------------------------------------
(* Properties *)

\* A child on the site always has a parent or legal guardian: the last one
\* can neither be removed nor step down, and deleting their account takes
\* the child along (guardian_invitations.py:272, erasure.py:61).
ChildKeepsAResponsibleGuardian == erased \/ Responsible # {}

\* An invitation that was withdrawn makes nobody a guardian any more, even
\* when it was being accepted at the same moment (guardian_invitations.py:202).
WithdrawnIsFinal ==
    [][\A i \in Invites :
          invited[i].withdrawn /\ ~invited[i].accepted => ~invited'[i].accepted]_guardianVars

-----------------------------------------------------------------------------
(* What the repository says, and a run refutes *)

\* "Either way the child keeps at least one parent or legal guardian"
\* (guardian_invitations.py:272), also when two of them leave at once.
AlwaysAResponsibleGuardian == ChildKeepsAResponsibleGuardian

\* The types, and the one thing every request has to keep.
GuardiansInv == GuardiansTypeOK /\ ChildKeepsAResponsibleGuardian

=============================================================================
