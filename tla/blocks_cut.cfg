\* Frames of all lengths, stops and errors anywhere.
CONSTANTS
    awt_size = 3
    nb_decoder = 2
    FrameLengths <- MCFrameLengths
    MaxSamples = 16
SPECIFICATION BlockSpec
INVARIANTS
    BlockTypeOK
    BlocksConsecutive
    SamplesAccounted
    ChannelsInStep
PROPERTIES
    ImplementsStream
