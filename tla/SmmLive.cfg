SPECIFICATION FairSpec
CONSTANTS
    c0 = c0
    c1 = c1
    c2 = c2
    None = None
    Cpu = {c0, c1, c2}
    DefaultBsp = c0
    Election = FALSE
    Modes = {"traditional"}
    Mtrrs = FALSE
    Blocking = TRUE
    StatusHook = FALSE
    BspTimesOut = FALSE
    ApGivesUp = FALSE
    CounterSize = 8
    MaxSmi = 2
PROPERTIES
    EveryoneLeaves
    SmiServed
