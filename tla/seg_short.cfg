SPECIFICATION FaultySpec
CONSTANTS
    SegCells = 4
    Sizes = {1, 2, 3}
    Policies = {"every_write"}
    Faults = {"short_write"}
    MaxAppends = 3
    MaxDowns = 1
    MaxGen = 0
    MaxSeq = 3
INVARIANT AckedSurvives
CHECK_DEADLOCK FALSE
