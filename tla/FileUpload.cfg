\* Two calls of up to three files, three together, under two names.
SPECIFICATION MCSpec
CONSTANTS
    Calls = {1, 2}
    Keys = {x, y}
    MaxFiles = 3
    MaxInFlight = 3
    MaxAttempts = 2
    Nothing = nothing
PROPERTY EveryCallAnswered
INVARIANTS
    SuccessIsStored
    RolledBackStaysGone
CHECK_DEADLOCK FALSE
