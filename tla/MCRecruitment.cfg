SPECIFICATION SpecInScene
CONSTANTS
    Seekers = {s1}
    Jobs = {j1, j2}
    Invitations = {i1, i2}
    Requests = {r1, r2}
    Limit = 2
    MaxTries = 2
    None = None
    Applications = {a1}
    Rows = {n1, n2}
    Editors = {e1}
    Files = {f1, f2}
    MaxSubmissions = 3
    MaxProgress = 1
    Documents = {d1, d2}
    MaxDossiers = 3
    Visitors = {v1, v2, v3}
SYMMETRY Symmetry
INVARIANTS
    OneOpenApplication
    MonthlyLimitKept
    InterviewIsScheduled
    OneVerdictEach
    ReportedFilesAreStored
    OneDecisionPerSubmission
PROPERTY
    AppliedWhileApproved
CHECK_DEADLOCK FALSE
