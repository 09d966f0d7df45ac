SPECIFICATION Spec
CONSTANTS
    Voices = {"elias", "nova"}
    Presets = {"natural", "radio"}
    MayFail = {"speech", "mastering", "lookup"}
    Outside = {"preset", "voice"}
    KeyNames = "session"
    MaxRetry = 2
    MaxStops = 2
INVARIANTS
    GateIsCurrentDelivery
    EligibleAudioWasApproved
PROPERTIES
    ImplementsPublishingGate
    NothingIsLost
CHECK_DEADLOCK FALSE
