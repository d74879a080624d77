\* Two goroutines: over two filesystems of gitfs while the remote's default
\* branch moves, over three of consulfs that may share a configuration, or over
\* three of a cloud service; four filesystems of httpfs; the auth methods of the
\* environment, tried in turn.
CONSTANTS
    Procs = {p1, p2}
    Branches = {main, topic}
    MaxCommit = 2
    Authenticators <- AutoOrToken
    NoClone = NoClone
    HEAD = HEAD
    Openers = {p1, p2}
    ConsulFilesystems = {f1, f2, f3}
    Configs = {c}
    Hosts = {h}
    Tokens = {t1, t2}
    Headers = {x}
    MaxClients = 2
    None = None
    HTTPClients = {"h1", "h2"}
    Metadata = {"metadata"}
    MaxFS = 3
    Goroutines = {p1, p2}
    HeaderSets = {{}, {"x"}, {"y", "z"}}
    CallerMaps = 2
    MaxHttpFS = 4
    Methods <- EveryMethod
    MaxOpen = 2
    InitTokens = {0, 1}
    MaxToken = 4
SPECIFICATION FirstUseSpec
INVARIANTS DefaultBranchChosen RequestsAsConfigured ClientAsGiven HeadersKept
           NoTokenLeak UserTokenKept
PROPERTY ClonedOnce
SYMMETRY ProcSymmetry
CHECK_DEADLOCK FALSE
