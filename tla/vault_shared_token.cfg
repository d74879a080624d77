\* A handle of the token method, and one of a filesystem derived from it that logs
\* in, and is closed last.
CONSTANTS
    f1 = f1
    f2 = f2
    c1 = c1
    c2 = c2
    p1 = p1
    p2 = p2
    env = env
    oldEnv = oldEnv
    Chains = {env, oldEnv}
    Composites = {env}
    Procs = {p1}
    Files = {f1, f2}
    Inner = {}
    NoFile = NoFile
    AuthOf <- LoginOrToken
    InitTokens = {0}
    MaxToken = 3
    RefModulus = 8
    ConcurrentClose = FALSE
SPECIFICATION Spec
INVARIANT TokenUnmanaged
