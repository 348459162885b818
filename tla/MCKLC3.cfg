CONSTANTS
    Prog <- MCProg
    InitPC = 0
    Worlds = {0, 1, 2, 3}
    InitF = {0, 1, 2, 3}
    SearcherTypes = {"pruning"}
    Reactivation = TRUE
    GoldProg <- MCGoldCount
    GoldInitPC = 0
    CheckLists <- CheckCount
    Levels <- CountLevels
    MaxSteps = 0
    MaxSegmentCount = 1000
    MaxDepth = 40
SPECIFICATION Spec
CHECK_DEADLOCK FALSE
INVARIANT TypeOK StatesConserved ForkPartition LikelyUncoverableNeverCovered SegmentsMatch
PROPERTY Termination
