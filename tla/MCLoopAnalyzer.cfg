CONSTANTS
    ProgLen = 3
    AllowSelfLoops = FALSE
    Origins = {12288, 32766}
SPECIFICATION Spec
INVARIANT AnalysisTerminates SegmentsWellFormed LoadedAsAssembled LoadIffValid ImageMatchesLayout SegmentLimitExact LoadedAsCommanded
\* The pipeline stops once the image is analysed or the load has failed.
CHECK_DEADLOCK FALSE
