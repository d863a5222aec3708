SPECIFICATION Spec
CONSTANTS
    j1 = j1
    a1 = a1
    a2 = a2
    p1 = p1
    p2 = p2
    Jobs = {j1}
    Applications = {a1, a2}
    JobOf <- SameJob
    MaxAttempts = 1
    Workers = {p1, p2}
    NoApplication = NoApplication
SYMMETRY Symmetry
INVARIANT
    SelectedCandidateStays
CHECK_DEADLOCK FALSE
