SPECIFICATION CooperativeSpec
CONSTANTS
    Voices = {"elias", "nova"}
    Presets = {"natural"}
    MayFail = {"research", "speech", "mastering", "lookup", "save"}
    Outside = {}
    KeyNames = "session"
    MaxRetry = 3
    MaxStops = 3
INVARIANTS
    AcceptedIsCanonical
    AssignmentIsOurs
    StageHasEvidence
PROPERTIES
    EveryEpisodeFinishes
CHECK_DEADLOCK FALSE
