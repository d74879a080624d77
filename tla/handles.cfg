\* Two handles of gcpsmfs, with or without the cache, used by one goroutine or by
\* two; one handle of another filesystem, whose object has up to three versions, or of
\* the wrapper of tracefs.
CONSTANTS
    h1 = h1
    h2 = h2
    Handles <- TwoHandles
    MaxVersion = 3
    MaxBodies = 4
SPECIFICATION HandlesSpec
SYMMETRY HandleSymmetry
INVARIANTS RotationsSeen OneRequest
           OneVersion DirectoryIsReal BodiesClosed InfoFresh Transparent
PROPERTY HandleStable
