\* Lists of two invited users, with repetitions and members among them.
SPECIFICATION MCSpec
CONSTANTS
    Users = {1, 2, 3}
    Calls = {1, 2, 3}
    MaxInvitees = 2
PROPERTIES
    ImplementsMembership
    EveryCallAnswered
INVARIANTS
    CountIsRowsLessLeaves
CHECK_DEADLOCK FALSE
