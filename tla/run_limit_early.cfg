\* A failed open repeats the last duration and the limit bites early.
CONSTANTS
    Formats <- MCFormats
    NoFormat = NoFormat
    RequestedRate = 0
    BlockSize = 2
    Positions <- MCPositions
    Limit = 4
    LicenseReplies = {"valid"}
    MaxRuns = 3
    MaxReports = 1
SPECIFICATION FairRunSpec
PROPERTIES
    LimitNotEarly
