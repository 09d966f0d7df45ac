SPECIFICATION Spec
CONSTANTS
    c1 = c1
    c2 = c2
    Clients = {c1, c2}
    Requests <- MCTwoResume
    Prompts <- MCShortPrompts
    UploadFields = {"research"}
    PrefillFields = {}
    DraftField = "voice"
    StopField = "start_generation"
    PastedField = "research"
    MaxWorkers = 3
    MaxRestarts = 1
    MaxQueue = 1
INVARIANT OneDriver
CHECK_DEADLOCK FALSE
