SPECIFICATION Spec
CONSTANTS
    Voices = {"elias", "nova"}
    Presets = {"natural"}
    MayFail = {"save"}
    Outside = {"preset"}
    KeyNames = "audio"
    MaxRetry = 0
    MaxStops = 1
INVARIANTS
    EligibleAudioWasApproved
CHECK_DEADLOCK FALSE
