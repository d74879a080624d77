\* Stores with one object are enough to see it.
CONSTANTS
    Keys <- ObjectKeys
    MaxKeys = 1
    Dirs <- URLDirs
    MaxDepth = 3
    ObjectCalls <- CallNames
    Visible <- NoDots
    Before <- SortsBefore
    After <- SortsAfter
SPECIFICATION SpecObjects
INVARIANT StatIsTrue
CHECK_DEADLOCK FALSE
