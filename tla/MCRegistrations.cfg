SPECIFICATION MCSpec
CONSTANTS
    Children = {c1, c2, c3}
    Editors = {e1}
    MaxPlaces = 2
    MaxSignUps = 2
    MaxBookings = 4
    Families = {f1, f2}
    NoOne = NoOne
SYMMETRY Symmetry
INVARIANT Inv
PROPERTIES NoOverbooking LongestWaitingFirst OnlyPlacesChangesLeaveIdlePlaces
           NobodyOvertakesAFullSession CalledOffSessionsAreNotFilled
           ImplementsRegistrations
