SPECIFICATION MCSpec
CONSTANTS
    Focus = {"schema", "settings", "channel", "sessions", "reset", "super", "limit", "orgs", "auth"}
    Runners = {r1, r2}
    NoRunner = NoRunner
    Binaries <- MCBinaries
    ByHand <- MCByHand
    NoTable = NoTable
    MaxCommands = 3
    MaxCuts = 2
    CReqs = {r1, r2}
    NoHolder = NoHolder
    Untouched = Untouched
    Configs = {"a", "b"}
    Secrets = {"x"}
    Empty = Empty
    DefaultSet <- MCDefaults
    MaxChanges = 4
    MaxLost = 2
    SReqs = {r1, r2}
    Toks = {1, 2}
    NoTok = NoTok
    MaxPw = 2
    MaxSFaults = 1
    PReqs = {r1, r2}
    Links = {1, 2, 3}
    NoLink = NoLink
    MaxPFaults = 1
    Txs = {r1, r2}
    MaxUid = 3
    NoTx = NoTx
    Keys = {k1}
    Attempts = {r1, r2}
    NoBucket = NoBucket
    Burst = 4
    Unit = 2
    RateChoices = {0, 1, 2}
    SweepEvery = 2
    MaxNow = 6
    Orgs = {o1, o2, o3}
    HostIds = {h1}
    Movers = {r1, r2}
    Root = Root
    Gone = Gone
    MaxMoves = 2
    RoleKeys = {admin, viewer}
    AReqs = {r1, r2}
    NoEntry = NoEntry
    CacheTTL = 1
    AccessTTL = 1
    MaxLoad = 1
SYMMETRY Symmetric
INVARIANTS
    SchemaTrusted SettingsHold SessionsEnd LinksHold GuardHolds BudgetKept ScopeHolds WithdrawnRightsEnd
CHECK_DEADLOCK FALSE
