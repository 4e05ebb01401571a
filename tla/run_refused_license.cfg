\* A refused licence lets the packet loop start.
CONSTANTS
    Formats <- MCFormats
    NoFormat = NoFormat
    RequestedRate = 0
    BlockSize = 2
    Positions <- MCPositions
    Limit = 4
    LicenseReplies = {"expired", "short", "valid"}
    MaxRuns = 3
    MaxReports = 1
SPECIFICATION RunSpec
INVARIANTS
    LoopLicensed
