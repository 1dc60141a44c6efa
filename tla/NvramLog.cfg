SPECIFICATION Spec
CONSTANTS
    n1 = n1
    n2 = n2
    g1 = g1
    g2 = g2
    x = x
    y = y
    Absent = Absent
    Blank = Blank
    Torn = Torn
    Val = {x, y}
    Var <- MCVar
    Persistent <- MCPersistent
    Area = 7
    TornLink = FALSE
    EmptyFaults = FALSE
    LateFaults = FALSE
    LostGuids = FALSE
    MaxFaults = 1
VIEW MCView
SYMMETRY MCSymmetry
INVARIANTS TypeOK FoundAlike ProgramsBlankFlash NoOverlap
PROPERTIES Atomic SuccessIsDurable FailsOnlyWhenFull
