SPECIFICATION Spec
CONSTANTS
    c0 = c0
    c1 = c1
    c2 = c2
    None = None
    Cpu = {c0, c1, c2}
    DefaultBsp = c0
    Election = FALSE
    Modes = {"traditional", "relaxed"}
    Mtrrs = FALSE
    Blocking = FALSE
    StatusHook = FALSE
    BspTimesOut = TRUE
    ApGivesUp = FALSE
    CounterSize = 8
    MaxSmi = 2
INVARIANTS
    TypeOK
    NoNormalCode
    SameMode
    ProcedureInside
    PresentIsCounted
PROPERTIES
    LeaveTogether
