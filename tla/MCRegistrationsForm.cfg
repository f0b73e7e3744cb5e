SPECIFICATION Spec
CONSTANTS
    Children = {c1}
    Editors = {e1}
    MaxPlaces = 1
    MaxSignUps = 1
PROPERTY SavingTheFormKeepsTheStatus
