\* test_thread closes the handle while main is between two files.
CONSTANTS
    Formats <- MCFormats
    NoFormat = NoFormat
    RequestedRate = 44100
    BlockSize = 2
    Positions <- MCPositions
    Limit = 2
    LicenseReplies = {"valid"}
    MaxRuns = 3
    MaxReports = 2
    Main = main
    Tester = tester
    Threads <- MCThreads
    NoThread = NoThread
    CallbackCalls = {}
    Files = 3
    Wanted = 2
SPECIFICATION MainSpec
INVARIANTS
    StopIsSafe
