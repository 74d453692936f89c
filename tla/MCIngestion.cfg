CONSTANTS
    j1 = j1
    j2 = j2
    a = a
    b = b
    Jobs = {j1, j2}
    Names = {a, b}
    MaxFiles = 2
    Uploads <- OneAndTwo
    Contents <- FirstMayBeBlank
    MaxCreated = 1
    MaxDeletes = 1
SPECIFICATION Spec
INVARIANTS
    SuccessIsSearchable
    CompletedIsAccounted
    SummariesWereIndexed
    DeleteSticks
PROPERTIES
    ReportSpec
CHECK_DEADLOCK FALSE
