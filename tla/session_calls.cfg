\* Three threads that call awt_exec and awt_close at will, two runs at most,
\* and a callback that calls them too.
CONSTANTS
    Formats <- MCFormats
    NoFormat = NoFormat
    RequestedRate = 0
    BlockSize = 2
    Positions <- MCPositions
    Limit = 1
    LicenseReplies = {"unreachable", "silent", "garbled", "expired", "valid"}
    MaxRuns = 2
    MaxReports = 0
    Threads = {t1, t2, t3}
    NoThread = NoThread
    CallbackCalls = {"awt_exec", "awt_close"}
SPECIFICATION FairSessionSpec
INVARIANTS
    SessionTypeOK
    LockProtects
    CrashNeedsOverlap
    FreedMeansReleased
    ClosedIsQuiet
    KillsOnlyLive
PROPERTIES
    NothingFreedUnderRun
    CloseStopsRuns
    ImplementsHandle
    CloseReturns
