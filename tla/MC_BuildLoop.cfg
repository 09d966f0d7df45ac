CONSTANTS
    s1 = s1
    s2 = s2
    Sessions = {s1, s2}
    CommandLines <- MCCommandLines
    Plans <- MCPlans
    Rules <- MCRules
    MaxFix = 2
    MaxDirs = 3
    MaxFaults = 1
    Absent = Absent
SPECIFICATION Spec
INVARIANTS PassedWasTested OutcomeIsRecorded PaidIsAuthorised
PROPERTIES PriorBuildKept BuildEnds
CHECK_DEADLOCK FALSE
