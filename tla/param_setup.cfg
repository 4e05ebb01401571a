\* All arguments, two attempts of awt_setup.
CONSTANTS
    Presets <- MCPresets
    Payloads <- MCPayloads
    Seconds <- MCSeconds
    IntMax = 127
    Second = 10
    NoLimit = 1000
    MaxSetups = 2
SPECIFICATION ParamSpec
INVARIANTS
    LimitExactInRange
    NoInvalidPreset
    AutoPresetFitsPayload
