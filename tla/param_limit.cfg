\* A second whose microseconds do not fit an int.
CONSTANTS
    Presets <- MCPresets
    Payloads <- MCPayloads
    Seconds <- MCSeconds
    IntMax = 127
    Second = 10
    NoLimit = 1000
    MaxSetups = 2
SPECIFICATION ParamSpec
INVARIANTS
    LimitExact
