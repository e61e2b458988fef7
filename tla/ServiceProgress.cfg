\* Rows and what services make of them, under the fairness of their loops.
SPECIFICATION ProgressSpec
CONSTANTS
    N = 2
    Stuck = {1}
    Limit = 2
    ScanLimit = 3
    Gap = 3
    MaxLate = 1
    MaxPause = 1
    MaxTime = 6
    MaxFailures = 1
    MaxAborts = 1
    None = None
CHECK_DEADLOCK FALSE
INVARIANTS
    NothingForgotten
PROPERTIES
    InboxSettles
    SummaryPosted
    MemberConverges
