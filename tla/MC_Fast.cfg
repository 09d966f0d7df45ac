CONSTANTS
    c1 = c1
    c2 = c2
    Commands = {c1, c2}
    Requests <- Lines
    Layouts <- MCLayouts
    Files <- MCFiles
    TestFiles <- MCTestFiles
    Slow <- MCSlow
    Edits <- Changes
    MaxRuns = 2
    MaxEdits = 3
    MaxFaults = 1
    Absent = Absent
SPECIFICATION Spec
INVARIANTS FastRunsTheChange PassedIsSound PassedRowsAreEarned
SYMMETRY Terminals
CHECK_DEADLOCK FALSE
