SPECIFICATION FairSpec
CONSTANTS
    N = 2
    Paths = {"file", "other", "new"}
    NewPaths = {"new"}
    Touched <- MCTouched
    Patches <- MCPatches
    MaxAttempts = 2
    NSamples = 2
    Raising = {"build", "generate", "judge", "record", "regress", "merge"}
    MayFail = {"reset", "reverse", "worktree"}
    Hanging = {"regress"}
    MaxRuns = 2
    MaxKills = 1
INVARIANTS
    RepoIsVerified
    OneAttemptIsMerged
    BlockedLeavesRepo
    AttemptsAreRecorded
PROPERTIES
    WorktreesAreKept
    RunEnds
CHECK_DEADLOCK FALSE
