CONSTANTS
    ProgLen = 2
    AllowSelfLoops = TRUE
    Origins = {12288}
    ExtraSources <- NoSources
SPECIFICATION Spec
INVARIANT AnalysisTerminates
\* The pipeline stops once the image is analysed or the load has failed.
CHECK_DEADLOCK FALSE
