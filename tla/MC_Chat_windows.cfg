SPECIFICATION FairSpec
CONSTANTS
    c1 = c1
    c2 = c2
    Clients = {c1, c2}
    Requests <- MCTwoWindows
    Prompts <- MCThreePrompts
    UploadFields = {"research"}
    PrefillFields = {}
    DraftField = "voice"
    StopField = "start_generation"
    PastedField = "research"
    MaxWorkers = 2
    MaxRestarts = 0
    MaxQueue = 3
INVARIANTS
    OneDriver
    RegistryIsLiveWorker
PROPERTY
    CancelStopsWorker
CHECK_DEADLOCK FALSE
