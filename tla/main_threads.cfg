\* Three files, two watermarks wanted: both threads of main.c.
CONSTANTS
    Formats <- MCFormats
    NoFormat = NoFormat
    RequestedRate = 44100
    BlockSize = 2
    Positions <- MCPositions
    Limit = 2
    LicenseReplies = {"silent", "expired", "valid"}
    MaxRuns = 3
    MaxReports = 2
    Main = main
    Tester = tester
    Threads <- MCThreads
    NoThread = NoThread
    CallbackCalls = {}
    Files = 3
    Wanted = 2
SPECIFICATION FairMainSpec
INVARIANTS
    MainTypeOK
    FinalCloseFindsNull
    CrashNeedsNextFile
PROPERTIES
    FoundEnds
