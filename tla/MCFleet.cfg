SPECIFICATION MCSpec
CONSTANTS
    Focus = {"pull", "reports", "collect", "state", "ingest"}
    PHosts = {h1, h2}
    Never = Never
    Intervals = {1, 2}
    PollTimeout = 1
    RecordMax = 1
    MaxListFaults = 1
    NoneYet = NoneYet
    FullEvery = 2
    ProbeEvery = 2
    MaxRestarts = 2
    NoValue = NoValue
    DefaultInterval = 2
    MinInterval = 1
    MaxInterval = 6
    CollectTimeout = 2
    FirstWait = 1
    Recs = {r1, r2}
    Unknown = Unknown
    MaxKills = 2
    Nil = Nil
    Malformed = Malformed
    Pending = Pending
    TextLen = 5
    TextMax = 3
    ListLen = 3
    ListMax = 2
SYMMETRY Symmetric
INVARIANTS
    PollsExact ReportsHeal SourcesKnown RecordWhole SectionsClean
CHECK_DEADLOCK FALSE
