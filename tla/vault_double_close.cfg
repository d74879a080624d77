\* Two goroutines close the same handle.
CONSTANTS
    f1 = f1
    f2 = f2
    c1 = c1
    c2 = c2
    p1 = p1
    p2 = p2
    env = env
    oldEnv = oldEnv
    Chains = {env, oldEnv}
    Composites = {env}
    Procs = {p1, p2}
    Files = {f1, f2}
    Inner = {}
    NoFile = NoFile
    AuthOf <- AllLogin
    InitTokens = {0}
    MaxToken = 2
    RefModulus = 8
    ConcurrentClose = TRUE
SPECIFICATION Spec
INVARIANT NeverPanics
