SPECIFICATION MCSpec
CONSTANTS
    Focus = {"calendar", "windows", "rules", "patch", "put", "scopes", "recipients"}
    NoField = NoField
    NoDay = NoDay
    DayTicks = 2
    WeekLen = 3
    MonthLens <- MCMonths
    MaxSpan = 2
    MaxEvery = 2
    Zones <- MCZones
    Froms = {0, 4}
    Untils = {9}
    CalendarDays = 25
    Wids = {w1, w2}
    NoWindow = NoWindow
    Forms <- MCForms
    WHosts = {"h1", "h2"}
    Scopes <- MCScopes
    HostOrg <- MCHostOrg
    Branch = {"o1"}
    WReqs = {x1, x2}
    Skipped = Skipped
    Horizon = 8
    MaxInstant = 7
    MaxCalls = 3
    LastDay = 8
    Mounts = {x1, x2}
    Groups = {"usage", "missing", "ro", "time", "raid", "watch", "oom"}
    Unset = Unset
    Keep = Keep
    MissingAfter = 2
    QuietAfter = 2
    MaxRuleChanges = 1
    TOrgs = {o1, o2}
    Home = o1
    Top = Top
    General = General
    OfHost = OfHost
    TKeys <- MCKeys
    TReqs = {x1, x2}
    Free = Free
    NoLevels = NoLevels
    Same = Same
    NoDuration = NoDuration
    MaxLevel = 1
    MaxDuration = 1
    ROrgs = {"o1", "o2"}
    HostOrg2 = "o1"
    ParentOf <- MCParent
    NoOrg = "none"
    RUsers = {u1}
    RContacts = {k1}
    System = "system"
    TheHost = "host"
    Addresses = {"a", "A"}
    Lower <- MCLower
    NoAddress = "none"
    Absent = Absent
    MaxRoutes = 2
SYMMETRY Symmetric
INVARIANTS
    CalendarRight WindowsRight AlertsExact ThresholdsHold RecipientsExact
PROPERTIES
    StopsAreFinal SilenceKeeps
CHECK_DEADLOCK FALSE
