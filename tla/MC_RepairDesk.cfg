CONSTANTS
    Files <- MCFiles
    EntryPoints <- MCEntryPoints
    TestFiles <- MCTestFiles
    InitialFiles <- MCInitialFiles
    Generated <- MCGenerated
    Contents <- MCContents
    Evidence <- MCEvidence
    CacheIgnored = FALSE
    Absent = Absent
    NoHash = NoHash
    NoPath = NoPath
    WrongHash = WrongHash
    MaxEdits = 1
    MaxCommands = 2
    MaxKills = 1
    MaxSeconds = 1
SPECIFICATION Spec
INVARIANTS ProposalMatchesPrompt HandoffIsProven
PROPERTIES UserFilesAreKept OutcomeIsTrue
CHECK_DEADLOCK FALSE
