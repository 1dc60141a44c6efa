SPECIFICATION Spec
CONSTANTS
    v1 = v1
    v2 = v2
    v3 = v3
    a = a
    b = b
    Absent = Absent
    Var = {v1, v2}
    Val = {a, b}
    Capacity = 2
    Persistent = {v1, v2}
    Default <- MCDefault
    MaxFaults = 1
    MaxReflash = 0
PROPERTIES OthersNotRolledBack
