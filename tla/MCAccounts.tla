----------------------------- MODULE MCAccounts -----------------------------
(***************************************************************************)
(* OrganisationRoles, OrganisationInvitations, AccountLinks, TwoStep and   *)
(* SignInPolicy in one run: who may do what, and how they get in.  They    *)
(* are about other rows and call nothing of each other, so each is         *)
(* explored by itself: `part` says which one moves.                        *)
(***************************************************************************)
EXTENDS OrganisationRoles, OrganisationInvitations, AccountLinks, TwoStep,
        SignInPolicy

\* The order of the policy's rows.
MCRoleOrder == <<"adult", "mentor">>

VARIABLE part

MCInit ==
    /\ RolesInit /\ InvitationsInit /\ LinksInit /\ TwoStepInit /\ SignInInit
    /\ part \in {"roles", "invitations", "links", "two-step", "sign-in"}
    /\ part # "roles" => \A a \in Adults : "admin" \in roles[a]

MCNext ==
    \/ /\ part = "roles" /\ RolesNext
       /\ UNCHANGED <<invitationVars, linksVars, twoStepVars, signInVars, part>>
    \/ /\ part = "invitations" /\ InvitationsNext
       /\ UNCHANGED <<rolesVars, linksVars, twoStepVars, signInVars, part>>
    \/ /\ part = "links" /\ LinksNext
       /\ UNCHANGED <<rolesVars, invitationVars, twoStepVars, signInVars, part>>
    \/ /\ part = "two-step" /\ TwoStepNext
       /\ UNCHANGED <<rolesVars, invitationVars, linksVars, signInVars, part>>
    \/ /\ part = "sign-in" /\ SignInNext
       /\ UNCHANGED <<rolesVars, invitationVars, linksVars, twoStepVars, part>>

MCvars == <<rolesVars, invitationVars, linksVars, twoStepVars, signInVars, part>>

MCSpec == MCInit /\ [][MCNext]_MCvars

\* What ended stays ended: the access that was ended keeps how it ended, and a
\* link from before a login was removed opens nothing.
WhatEndedStaysEnded == AnEndIsFinal /\ OldLinksStayDead

\* The parts' sets are given the same model values, see the configuration.
Symmetry == Permutations(Adults) \cup Permutations(Grants) \cup Permutations(RoleRequests)
=============================================================================
