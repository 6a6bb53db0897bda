SPECIFICATION Spec
CONSTANTS
    SegCells = 3
    Sizes = {2}
    Policies = {"every_write", "none"}
    MaxAppends = 3
    MaxDowns = 2
    MaxGen = 1
    MaxSeq = 3
INVARIANTS TypeOK AckedSurvives IndexMatchesFiles Opens
PROPERTY ImplementsDurableLog
CHECK_DEADLOCK FALSE
