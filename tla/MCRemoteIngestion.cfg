CONSTANTS
    j1 = j1
    j2 = j2
    a = a
    b = b
    Jobs = {j1, j2}
    Names = {a, b}
    Files <- TwoAndOne
    MaxFaults = 2
SPECIFICATION FairSpec
INVARIANTS
    DetailsAreTrue
PROPERTIES
    JobsEnd
    ReportSpec
CHECK_DEADLOCK FALSE
