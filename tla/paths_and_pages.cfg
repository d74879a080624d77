\* Listings of up to four entries, any of which may repeat a name; int has five
\* bits, cached directories up to nine entries, and the cursors any size; up to
\* three mounts, some of them malformed; stores of up to two objects.  A bucket's
\* listing is short, but every subset of it may be markers.
CONSTANTS
    Names = {1, 2, 3}
    MaxListing = 4
    PageSizes <- SomeSizes
    MaxInt = 15
    MaxLen = 9
    Sizes <- EverySize
    MaxObjects = 4
    ObjectSizes <- MoreSizes
    Paths <- AllPaths
    Mounts <- AllMounts
    MaxMounts = 3
    BytePrefixes <- BytePrefix
    Documents <- MetadataDocuments
    Passing <- PassingDocuments
    Tops <- WalkRoots
    Numbers = {"0"}
    Disabled <- GuestAttributes
    Audience <- IdentityTokens
    Unknown <- UnknownDirectories
    Keys <- ObjectKeys
    MaxKeys = 2
    Dirs <- URLDirs
    MaxDepth = 3
    ObjectCalls <- CallNames
    Visible <- NoDots
    Before <- SortsBefore
    After <- SortsAfter
    Projects = {"p", "q"}
    SecretIds = {"s", "t"}
    SecretCalls <- SecretPathsGiven
    Undotted <- WithoutDots
SPECIFICATION PathsAndPagesSpec
INVARIANTS PagesOfDirectory EOFAtEnd NoFalseEntries
           PagesAddUp ObjectsAddUp
           InnermostMount SecretRequestAddressesFile
           AnswersAgree DirectoryListed WalkComplete
PROPERTIES CursorStable StreamSpec
CHECK_DEADLOCK FALSE
