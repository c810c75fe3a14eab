\* Two pages, fetched one at a time, and three calls.
SPECIFICATION MCSpec
CONSTANTS
    Pages = {1, 2}
    PageSize = 1
    Versions <- MCVersions
    MaxVersions = 2
    Rules <- MCRules
    Calls = {1, 2, 3}
    Nothing = Nothing
PROPERTY EveryCallAnswered
INVARIANTS
    StatusIsTrue
    DuplicatesExplained
    SyncComplete
    OnlyRefundsUnbalanced
    TrialBalances
CHECK_DEADLOCK FALSE
