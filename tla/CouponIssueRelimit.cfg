\* An administrator turns an unlimited coupon into a limited one.
SPECIFICATION Spec
CONSTANTS
    Requests = {1, 2}
    Users = {u1, u2}
    Coupons = {c1}
    PoolSize = 4
    Totals = {1}
    NoTotal = none
    LimitEdits = TRUE
PROPERTY IssueWithinTotal
