----------------------- MODULE OrganisationInvitations -----------------------
(***************************************************************************)
(* Invitations of one address to organisation roles: accounts.invitations  *)
(* with the pages of accounts.people, and the retention job's remove_old.  *)
(*                                                                         *)
(* Accepting locks the invitation and looks at it again; withdrawing,      *)
(* sending again and removing act on what they loaded.  Every request      *)
(* loads in one step and commits in another, and may die in between.       *)
(* Left out: the throttle, the mails, and who invited.                     *)
(***************************************************************************)
EXTENDS Naturals, FiniteSets, TLC

CONSTANTS
    Invitations,  \* OrganisationInvitation rows for the address
    InvitationRequests,     \* requests under way at once
    MaxTokens,    \* bound: links made for one invitation
    MaxKinds      \* bound: the kinds of overlap one behaviour has

ASSUME InvitationsAssumption == MaxTokens \in Nat \ {0} /\ MaxKinds \in Nat

VARIABLES
    inv,       \* the rows
    holders,   \* accounts with the invited address
    invReq,    \* what each request loaded and goes on with
    overlaps,  \* observation: the kinds of requests that were under way at once
    doubled    \* observation: two of the invitations waited or made an account at once

invitationVars == <<inv, holders, invReq, overlaps, doubled>>

Absent == [row |-> FALSE, accepted |-> FALSE, withdrawn |-> FALSE, expired |-> FALSE,
           token |-> 0, grants |-> 0]
Free == [op |-> "free"]

InvitationsTypeOK ==
    /\ inv \in [Invitations -> [row : BOOLEAN, accepted : BOOLEAN, withdrawn : BOOLEAN,
                                expired : BOOLEAN, token : 0..MaxTokens, grants : 0..2]]
    /\ \A i \in Invitations : inv[i].row => inv[i].token > 0
    /\ \A i \in Invitations : inv[i].grants > 0 => inv[i].accepted
    /\ holders \in Nat

InvitationsInit ==
    /\ inv = [i \in Invitations |-> Absent]
    /\ holders = 0
    /\ invReq = [r \in InvitationRequests |-> Free]
    /\ overlaps = {} /\ doubled = FALSE

IsPendingNow(row) == row.row /\ ~row.accepted /\ ~row.withdrawn /\ ~row.expired
AllPending == {i \in Invitations : IsPendingNow(inv[i])}
BeingFollowed == {invReq[r].inv : r \in {r \in InvitationRequests : invReq[r].op = "sign up"}}

-----------------------------------------------------------------------------

Load(r, request) ==
    /\ invReq[r].op = "free"
    /\ invReq' = [invReq EXCEPT ![r] = request]
    /\ overlaps' = overlaps \cup
         {{request.op, invReq[q].op} : q \in {q \in InvitationRequests : invReq[q].op # "free"}}
    /\ Cardinality(overlaps') <= MaxKinds
    /\ UNCHANGED <<inv, holders>>

Close(r) == invReq' = [invReq EXCEPT ![r] = Free] /\ UNCHANGED overlaps

\* Mutant: an invitation that waits is no reason.
LoadToInviteAgain(r) ==
    /\ holders = 0
    /\ Load(r, [op |-> "invite"])

\* No account with this address, and no invitation that waits.
LoadToInvite(r) ==
    /\ holders = 0 /\ \A i \in Invitations : ~IsPendingNow(inv[i])
    /\ Load(r, [op |-> "invite"])

\* A new row has a key of its own.
CommitInvitation(r) ==
    /\ invReq[r].op = "invite"
    /\ \E i \in Invitations :
        /\ inv[i].token = 0
        /\ inv' = [inv EXCEPT ![i] = [Absent EXCEPT !.row = TRUE, !.token = 1]]
    /\ Close(r) /\ UNCHANGED holders

LoadToResend(r, i) ==
    /\ inv[i].row /\ ~inv[i].accepted /\ ~inv[i].withdrawn
    /\ Load(r, [op |-> "resend", inv |-> i])

\* save(update_fields): of a row that is gone it fails.
CommitResend(r) ==
    LET i == invReq[r].inv IN
    /\ invReq[r].op = "resend"
    /\ inv[i].token < MaxTokens
    /\ inv' = IF inv[i].row THEN [inv EXCEPT ![i].token = @ + 1, ![i].expired = FALSE] ELSE inv
    /\ Close(r) /\ UNCHANGED holders

LoadInvitationToWithdraw(r, i) ==
    /\ IsPendingNow(inv[i])
    /\ Load(r, [op |-> "withdraw", inv |-> i])

CommitWithdraw(r) ==
    LET i == invReq[r].inv IN
    /\ invReq[r].op = "withdraw"
    /\ inv' = IF inv[i].row THEN [inv EXCEPT ![i].withdrawn = TRUE] ELSE inv
    /\ Close(r) /\ UNCHANGED holders

\* The mailed link, posted by an account with the address or to make one.
Follow(r, i) ==
    /\ IsPendingNow(inv[i])
    /\ Load(r, [op |-> IF holders > 0 THEN "accept" ELSE "sign up", inv |-> i])

\* Mutant: the row as it was loaded decides.
AcceptsLoaded(i) == inv[i].row

\* accept, under the row's lock.  A new account is saved in its transaction.
Accepts(i) == IsPendingNow(inv[i])

AccountSaved(r) == IF invReq[r].op = "sign up" THEN holders + 1 ELSE holders

\* Mutant: the account is saved before the transaction.
CommitAcceptanceApart(r) ==
    LET i == invReq[r].inv IN
    /\ invReq[r].op \in {"accept", "sign up"}
    /\ inv' = IF Accepts(i) THEN [inv EXCEPT ![i].accepted = TRUE, ![i].grants = @ + 1] ELSE inv
    /\ holders' = AccountSaved(r)
    /\ Close(r)

CommitAcceptance(r) ==
    LET i == invReq[r].inv IN
    /\ invReq[r].op \in {"accept", "sign up"}
    /\ IF Accepts(i)
       THEN /\ inv' = [inv EXCEPT ![i].accepted = TRUE, ![i].grants = @ + 1]
            /\ holders' = AccountSaved(r)
       ELSE UNCHANGED <<inv, holders>>
    /\ Close(r)

\* The site's own sign-up, by the same address.
LoadToSignUpElsewhere(r) ==
    /\ holders = 0
    /\ Load(r, [op |-> "elsewhere"])

CommitSignUpElsewhere(r) ==
    /\ invReq[r].op = "elsewhere"
    /\ holders' = holders + 1
    /\ Close(r) /\ UNCHANGED inv

\* remove_old: rows that ended long ago, by the keys it read.
LoadToRemoveOld(r, old) ==
    /\ old # {} /\ \A i \in old : inv[i].row /\ (inv[i].accepted \/ inv[i].withdrawn \/ inv[i].expired)
    /\ Load(r, [op |-> "remove old", old |-> old])

CommitRemoveOld(r) ==
    /\ invReq[r].op = "remove old"
    /\ inv' = [i \in Invitations |-> IF i \in invReq[r].old
                                     THEN [Absent EXCEPT !.token = inv[i].token] ELSE inv[i]]
    /\ Close(r) /\ UNCHANGED holders

InvitationExpires(i) ==
    /\ IsPendingNow(inv[i])
    /\ inv' = [inv EXCEPT ![i].expired = TRUE]
    /\ UNCHANGED <<holders, invReq, overlaps>>

InvitationRequestDies(r) ==
    /\ invReq[r].op # "free" /\ Close(r)
    /\ UNCHANGED <<inv, holders>>

InvitationsStep ==
    \/ \E r \in InvitationRequests :
        \/ LoadToInvite(r) \/ LoadToSignUpElsewhere(r)
        \/ \E i \in Invitations : LoadToResend(r, i) \/ LoadInvitationToWithdraw(r, i) \/ Follow(r, i)
        \/ \E old \in SUBSET Invitations : LoadToRemoveOld(r, old)
        \/ CommitInvitation(r) \/ CommitResend(r) \/ CommitWithdraw(r) \/ CommitAcceptance(r)
        \/ CommitSignUpElsewhere(r) \/ CommitRemoveOld(r) \/ InvitationRequestDies(r)
    \/ \E i \in Invitations : InvitationExpires(i)

InvitationsNext ==
    /\ InvitationsStep
    /\ doubled' = (doubled \/ \E i, j \in (AllPending \cup BeingFollowed)' : i # j)

InvitationsSpec == InvitationsInit /\ [][InvitationsNext]_invitationVars

-----------------------------------------------------------------------------
(* Properties *)

NotAtOnce(kinds) == kinds \cap overlaps = {}

\* The address has one account, however often the link is posted: who loses
\* the race for the invitation's lock makes no account; unless the site's own
\* sign-up ran at the same time, or another invitation waits or is followed
\* too (each has a lock of its own).
\* (accounts.people:organisation_invitation_sign_up, accounts.invitations:accept)
OneAccountForTheAddress ==
    NotAtOnce({{"elsewhere"}, {"elsewhere", "sign up"}}) /\ ~doubled => holders <= 1

\* "Single use, withdrawable": roles are given once, and never by an
\* invitation that was withdrawn; a withdrawal that was loaded before the
\* acceptance is recorded all the same. (accounts.invitations:accept, withdraw)
GrantsOnceOrNever ==
    \A i \in Invitations :
        /\ inv[i].grants <= 1
        /\ inv[i].grants > 0 /\ NotAtOnce({{"accept", "withdraw"}, {"sign up", "withdraw"}})
             => ~inv[i].withdrawn

\* Two invitations wait at once only if they were made at once, or one of them
\* had expired, and was sent again after the other was made.
\* (accounts.invitations:invite, resend)
OneInvitationWaits ==
    NotAtOnce({{"invite"}}) =>
        \A i, j \in AllPending : i # j => inv[i].token > 1 \/ inv[j].token > 1

\* An invitation makes one account, gives its roles once, and no two wait.
InvitationsInv ==
    /\ InvitationsTypeOK
    /\ OneAccountForTheAddress
    /\ GrantsOnceOrNever
    /\ OneInvitationWaits

=============================================================================
