SPECIFICATION Spec
CONSTANTS
    Callers = {c1, c2}
    Files = {f1, f2}
    None = None
    Capacity = 2
    MaxTroubles = 1
    First = c1
    FirstTools = {"edit", "delete", "create", "rename", "format", "outline", "reclaim", "shutdown"}
    OtherTools = {"line", "undo"}
    MaxWrites = 1
    CacheMax = 1
    OutOfRange = OutOfRange
    MaxText = 4
SYMMETRY Symmetry
CHECK_DEADLOCK FALSE
INVARIANT TypeOK
INVARIANT EntriesAreTrue
INVARIANT CountsAreGuards
INVARIANT EditsFit
INVARIANT WritesArrive
INVARIANT KeptAnswersFit
INVARIANT WritesHitTheirPlaces
PROPERTY TableStaysSmall
PROPERTY VersionsRise
CONSTRAINT Uncrossed
CONSTRAINT KeptForReads
