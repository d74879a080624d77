\* Two goroutines and two handles: one of a filesystem with a wrapped method, one
\* of a filesystem derived from it that has the method of the environment.
CONSTANTS
    f1 = f1
    f2 = f2
    c1 = c1
    c2 = c2
    p1 = p1
    p2 = p2
    env = env
    oldEnv = oldEnv
    Chains = {env, oldEnv}
    Composites = {env}
    Procs = {p1, p2}
    Files = {f1, f2}
    Inner = {}
    NoFile = NoFile
    AuthOf <- LegacyOrEnv
    InitTokens = {0}
    MaxToken = 3
    RefModulus = 3
    ConcurrentClose = FALSE
SPECIFICATION Spec
INVARIANTS TypeOK RefsExact NeverPanics TokenHasOwner
PROPERTIES TokenGivenUp
