\* Decoders outnumber the channels of the kept graph.
CONSTANTS
    Formats <- MCFormats
    NoFormat = NoFormat
    RequestedRate = 0
    BlockSize = 2
    Positions <- MCPositions
    Limit = 4
    LicenseReplies = {"expired", "valid"}
    MaxRuns = 3
    MaxReports = 1
SPECIFICATION RunSpec
INVARIANTS
    ChannelsPresent
