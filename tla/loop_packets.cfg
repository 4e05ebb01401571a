\* The packet loop of two calls, with clock, decoder and graph.
CONSTANTS
    Formats <- MCFormats
    NoFormat = NoFormat
    RequestedRate = 1
    BlockSize = 2
    Positions <- MCPositions
    Limit = 3
    LicenseReplies = {"valid"}
    MaxRuns = 2
    MaxReports = 0
    NoPacket = NoPacket
    NoFrame = NoFrame
    Gaps <- MCGaps
    Contents <- MCContents
    Speed = 1
    SleepRange = 2
    HoldsBack = 1
    ClockEnd = 2
SPECIFICATION FairLoopSpec
INVARIANTS
    LoopTypeOK
    Paced
    DecoderEmptied
    PositionOfFrame
    FrameNotAhead
    SuccessExplained
PROPERTIES
    TailNeedsResampling
    StopBoundsCall
    StopEndsCall
    ImplementsRun
