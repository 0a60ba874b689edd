SPECIFICATION Spec
CONSTANTS
    Callers = {c1, c2}
    Files = {f1, f2}
    None = None
    Capacity = 3
    MaxTroubles = 0
    First = c1
    FirstTools = {"rename", "read"}
    OtherTools = {"undo"}
    MaxWrites = 1
    CacheMax = 1
    OutOfRange = OutOfRange
    MaxText = 0
SYMMETRY Symmetry
CHECK_DEADLOCK FALSE
INVARIANT RenamesFit
