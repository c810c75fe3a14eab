\* Three calls about two users.
SPECIFICATION MCSpec
CONSTANTS
    Users = {a, b}
    Calls = {1, 2, 3}
PROPERTIES
    LastAdminFallsToStaleCaller
    EveryCallAnswered
INVARIANTS
    PasswordsMatchMails
    SessionHasToken
CHECK_DEADLOCK FALSE
