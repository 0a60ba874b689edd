SPECIFICATION Spec
CONSTANTS
    Calls = {c1}
    Ops = {"undo", "redo"}
    Files = {f1, f2}
    Contents = {x, y}
    Absent = Absent
    None = None
    MaxN = 3
    MaxTxns = 3
    MaxSteps = 2
    MaxTroubles = 0
SYMMETRY Symmetry
PROPERTY HistoryIsKept
