SPECIFICATION FairSpec
CONSTANTS
    v1 = v1
    v2 = v2
    v3 = v3
    a = a
    b = b
    Absent = Absent
    Var = {v1, v2}
    Val = {a}
    Capacity = 1
    Persistent = {v1}
    Default <- MCDefault
    MaxFaults = 2
    MaxReflash = 0
PROPERTIES CallReturns DocumentedTransitions
