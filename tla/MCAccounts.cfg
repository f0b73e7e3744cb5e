\* Only one part moves, so the parts share model values: a symmetry of one is
\* then one of all, and the group stays small.
SPECIFICATION MCSpec
CONSTANTS
    Adults = {x1, x2}
    Roles = {"admin"}
    Grants = {y1, y2}
    RoleRequests = {r1, r2}
    InvitationRequests = {r1, r2}
    LinkRequests = {r1, r2}
    SecurityRequests = {r1, r2}
    Job = Job
    Superuser = Superuser
    MaxMet = 1
    Nobody = Nobody
    Invitations = {x1, x2}
    MaxTokens = 2
    MaxKinds = 1
    LinkAccounts = {c, p}
    Child = c
    Addresses = {x1, x2}
    Links = {l1}
    Devices = {x1, x2, y1, y2}
    Apps = {x1, x2}
    MaxPairs = 1
    RoleOrder <- MCRoleOrder
    Everyone = "adult"
    LastDay = 2
SYMMETRY Symmetry
INVARIANTS RolesInv InvitationsInv LinksInv MethodsInv SignInInv
PROPERTIES WhatEndedStaysEnded TheRequiredMethodStays
CHECK_DEADLOCK FALSE
