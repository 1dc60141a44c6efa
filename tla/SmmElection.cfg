SPECIFICATION Spec
CONSTANTS
    c0 = c0
    c1 = c1
    c2 = c2
    None = None
    Cpu = {c0, c1, c2}
    DefaultBsp = c0
    Election = TRUE
    Modes = {"traditional"}
    Mtrrs = TRUE
    Blocking = TRUE
    StatusHook = TRUE
    BspTimesOut = FALSE
    ApGivesUp = TRUE
    CounterSize = 8
    MaxSmi = 2
INVARIANTS
    OneBsp
    CounterInRange
    MtrrsInStep
    RunConsumed
SYMMETRY Symmetry
CHECK_DEADLOCK FALSE
