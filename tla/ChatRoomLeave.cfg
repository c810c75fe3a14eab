\* Two leaves of one member at the same time: the count drifts.
SPECIFICATION Spec
CONSTANTS
    Users = {1, 2}
    Calls = {1, 2, 3}
    MaxInvitees = 1
INVARIANT CountIsActiveMembers
CHECK_DEADLOCK FALSE
