\* As many concurrent calls as connections.
SPECIFICATION FairSpec
CONSTANTS
    Requests = {1, 2, 3}
    Users = {u1}
    Coupons = {c1}
    PoolSize = 2
    Totals = {1}
    NoTotal = none
    LimitEdits = FALSE
PROPERTY RepeatIsLogged
