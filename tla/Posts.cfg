\* A post and three calls on it by two users.
SPECIFICATION MCSpec
CONSTANTS
    Users = {a, b}
    Calls = {1, 2, 3, 4}
PROPERTY EveryCallAnswered
INVARIANTS
    HitsCountViews
    LikesCountLikers
    TitleNotUndone
CHECK_DEADLOCK FALSE
