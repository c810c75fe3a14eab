\* One reader pages back while four messages are sent; four marks by two users
\* on two messages.
SPECIFICATION MCSpec
CONSTANTS
    Users = {a, b}
    Sessions = {s1}
    Marks = {k1, k2, k3, k4}
    MaxMessages = 4
    MaxTime = 1
    Limit = 2
SYMMETRY Symmetry
PROPERTY LastReadForward
INVARIANTS
    PagesComplete
    NothingTwice
    LastReadHasReceipt
    SecondMarkAdvances
CHECK_DEADLOCK FALSE
