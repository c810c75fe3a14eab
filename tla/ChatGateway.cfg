\* Two users with a socket each, and four calls.
SPECIFICATION MCSpec
CONSTANTS
    Users = {1, 2}
    Sockets = {1, 2}
    UserOf <- MCUserOf
    Calls = {1, 2, 3, 4}
INVARIANTS
    EventsAreTrue
    HearersWereMembers
    RoomHears
    QuietWhenOut
    EventsInOrder
CHECK_DEADLOCK FALSE
