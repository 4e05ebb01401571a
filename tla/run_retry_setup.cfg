\* A call after a failed decoder initialisation uses that decoder.
CONSTANTS
    Formats <- MCFormats
    NoFormat = NoFormat
    RequestedRate = 0
    BlockSize = 2
    Positions <- MCPositions
    Limit = 4
    LicenseReplies = {"valid"}
    MaxRuns = 2
    MaxReports = 1
SPECIFICATION RunSpec
INVARIANTS
    DecodersInitialised
