CONSTANTS
    W = 16
    Threshold = 3
    Values = {0, 1, 2, 3, 4, 5, 32768, 65535}
    Bounds <- MCBounds
SPECIFICATION Spec
INVARIANT EnumerationExact BoundRespected CacheExact
