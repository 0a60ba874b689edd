SPECIFICATION Spec
CONSTANTS
    Calls = {c1, c2, c3}
    Ops = {"undo", "list"}
    Files = {f1}
    Contents = {x, y}
    Absent = Absent
    None = None
    MaxN = 3
    MaxTxns = 1
    MaxSteps = 1
    MaxTroubles = 1
SYMMETRY Symmetry
INVARIANT TypeOK
INVARIANT TopIsUndoable
PROPERTY WalFirst
