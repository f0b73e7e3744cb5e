SPECIFICATION GuardiansSpec
CONSTANTS
    Relatives = {a1, a2}
    Invites = {i1}
    Joiners = {j1}
    Leavers = {l1, l2}
    NoRelative = NoRelative
SYMMETRY Symmetry
INVARIANT AlwaysAResponsibleGuardian
CHECK_DEADLOCK FALSE
