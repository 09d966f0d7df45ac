SPECIFICATION FairSpec
CONSTANTS
    c1 = c1
    c2 = c2
    Clients = {c1}
    Requests <- MCAnswers
    Prompts <- MCPrompts
    UploadFields = {"research"}
    PrefillFields = {"studio"}
    DraftField = "voice"
    StopField = "start_generation"
    PastedField = "research"
    MaxWorkers = 3
    MaxRestarts = 2
    MaxQueue = 2
INVARIANTS
    SessionIsServed
    AnswerFitsQuestion
PROPERTIES
    RunningSettles
    ImplementsLifecycle
CHECK_DEADLOCK FALSE
