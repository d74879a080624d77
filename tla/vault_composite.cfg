\* A handle that logs in, and one of the method of the environment that is closed
\* last without having logged in.
CONSTANTS
    f1 = f1
    f2 = f2
    c1 = c1
    c2 = c2
    p1 = p1
    p2 = p2
    env = env
    oldEnv = oldEnv
    Chains = {env, oldEnv}
    Composites = {env}
    Procs = {p1}
    Files = {f1, f2}
    Inner = {}
    NoFile = NoFile
    AuthOf <- LoginOrEnv
    InitTokens = {0}
    MaxToken = 3
    RefModulus = 8
    ConcurrentClose = FALSE
SPECIFICATION Spec
INVARIANT LogsOutAtZero
