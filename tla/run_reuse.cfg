\* Three calls on one context, every failure possible, every retry made; the
\* run in progress ends once running is 0.
CONSTANTS
    Formats <- MCFormats
    NoFormat = NoFormat
    RequestedRate = 0
    BlockSize = 2
    Positions <- MCPositions
    Limit = 4
    LicenseReplies = {"unreachable", "silent", "garbled", "expired", "short", "valid"}
    MaxRuns = 3
    MaxReports = 1
SPECIFICATION FairRunSpec
INVARIANTS
    RunTypeOK
    FaultNeedsFailedSetup
    SpinNeedsRefusedLicense
    LicenseBuffersAccounted
    LimitNeverExceeded
PROPERTIES
    RateFixedOnceUsed
    StopBoundsRun
    StopEndsRun
