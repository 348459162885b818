CONSTANTS
    Prog <- MCProg
    InitPC = 0
    Worlds = {0, 1, 2, 3}
    InitF = {0, 1, 2, 3}
    SearcherTypes = {"pruning"}
    Reactivation = TRUE
    GoldProg <- NoGold
    GoldInitPC = 0
    CheckLists <- NoCheckLists
    Levels <- DefaultLevels
    MaxSteps = 0
    MaxSegmentCount = 1000
    MaxDepth = 40
SPECIFICATION Spec
CHECK_DEADLOCK FALSE
INVARIANT StatePathRoundTrip
