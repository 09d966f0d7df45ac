CONSTANTS
    Callers = {c1, c2}
    Versions <- MCVersions
    Bundles <- MCBundles
    PromptLimit = 8
    FixedBytes = 2
    PromptTokens = 3
    ActualTokens <- MCActual
    VerifyAttempts = 2
    MaxCalls = 2
    MaxFaults = 2
    NoUsage = NoUsage
SPECIFICATION Spec
INVARIANTS LedgerIsTrue SavingsAreSound FreedAtRest LedgerIsReady
CHECK_DEADLOCK FALSE
