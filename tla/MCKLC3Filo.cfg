CONSTANTS
    Prog <- MCProgTable
    InitPC = 0
    Worlds = {0, 1, 2, 3, 4, 5, 6, 7}
    InitF = {0, 1, 2, 3, 4, 5, 6, 7}
    SearcherTypes = {"simple_filo", "prioritized_filo"}
    Reactivation = TRUE
    GoldProg <- MCGoldMask
    GoldInitPC = 0
    CheckLists <- CheckMask
    Levels <- MaskLevels
    MaxSteps = 30
    MaxSegmentCount = 1000
    MaxDepth = 40
SPECIFICATION Spec
CHECK_DEADLOCK FALSE
INVARIANT StatesConserved ForkPartition LikelyUncoverableNeverCovered CallStackConsistent RetErrorOnlyInMain ReportReproduced NoCrash
PROPERTY Termination
