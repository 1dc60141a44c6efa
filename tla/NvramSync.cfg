SPECIFICATION Spec
CONSTANTS
    Other = {"MemVar"}
    x = x
    Absent = Absent
    Data = {x}
    Asked = {"MemoryOverwriteRequestControl", "MemVar"}
    Keys = {0, 7}
    NvCap = 2
    MemCap = 2
    MaxSets = 3
    SilentFaults = FALSE
    MaxFaults = 1
VIEW MCView
INVARIANTS TypeOK CopyFollows LockAgrees
PROPERTIES ReadsCurrent MorGuarded
