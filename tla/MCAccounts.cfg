SPECIFICATION SpecInScene
CONSTANTS
    Requests = {r1, r2}
    NoRow = NoRow
    Sessions = {s1, s2}
    Tokens = {t1, t2}
    MaxAttempts = 2
    MaxRows = 2
    MaxChanges = 1
    Invitations = {i1, i2}
    Permissions = {p1, p2}
    MaxTokens = 3
    Basic = "BASIC"
    Plans = {"BASIC", "PREMIUM"}
    Allowances = {0, 1}
    Records = {t1, t2}
    MaxMonths = 2
    MaxTrials = 1
    Accounts = {a1}
    Withdrawals = {w1}
    Details = {x, y}
    Fees = {1, 2}
    MaxVersion = 2
    MaxQuotes = 1
    People = {"one", "two"}
    Subscribers = {"three"}
    Segments <- Addressed
    Letters = {l1}
    Notes = {n1}
    MaxMails = 2
    Applications = {c1, c2}
    Keys = {k1, k2}
    MaxClock = 2
    Files = {f1, f2, f3}
    Zones <- ChangingZones
    LocalTimes = {0, 3}
    Moments <- MomentsAround
SYMMETRY Symmetry
INVARIANTS
    WorkingSessionsAreCurrent
    EvaluatedOnce
    CampaignIsWhole
    SentOnce
    StoredOnce
    NamedFilesAreStored
    ScheduledAsAsked
PROPERTIES
    InactiveUntilNewCode
    AcceptedWithLastToken
    PermissionsAsAsked
    AllowanceKept
    PaysAsQuoted
CHECK_DEADLOCK FALSE
