\* The creator of a room invites one more and gives the right to the history.
SPECIFICATION Spec
CONSTANTS
    Users = {1, 2, 3}
    Calls = {1, 2}
    MaxInvitees = 1
PROPERTY GiveReadHistoryGrants
CHECK_DEADLOCK FALSE
