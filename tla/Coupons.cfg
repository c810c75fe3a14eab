\* Issuing: three calls by two users; nobody edits a limit.  The catalog: up to three
\* coupons on two pages of one, and three calls; ticks of ten seconds.
SPECIFICATION CouponsSpec
CONSTANTS
    Requests = {1, 2, 3}
    Users = {u1, u2}
    Coupons = {c1}
    PoolSize = 4
    Totals = {1}
    NoTotal = none
    LimitEdits = FALSE
    Ids = {1, 2, 3}
    Codes = {v, w, x}
    NoCode = NoCode
    Asked = {v, w}
    Calls = {1, 2, 3}
    Limit = 1
    TTL <- MCTTL
    MaxDelay = 1
    MaxClock = 4
PROPERTIES
    ImplementsLedger
    EveryRequestAnswered
INVARIANTS
    CountMatchesRows
    AuditMatchesGrants
    AnswersMatchEffects
    NoOverIssue
    CatalogTypeOK
    CodeAsAsked
    PageWasTrue
CHECK_DEADLOCK FALSE
