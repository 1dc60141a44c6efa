SPECIFICATION Spec
CONSTANTS
    v1 = v1
    v2 = v2
    v3 = v3
    a = a
    b = b
    Absent = Absent
    Var = {v1, v2, v3}
    Val = {a, b}
    Capacity = 2
    Persistent = {v1}
    Default <- MCDefault
    MaxFaults = 0
    MaxReflash = 0
INVARIANT TypeOK
PROPERTY ImplementsAbstract
SYMMETRY Symmetry
