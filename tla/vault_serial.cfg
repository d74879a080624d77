\* One goroutine: handles of its own, of a plain method and of the deprecated method
\* of the environment, and two that ReadDir and ReadFile open.
CONSTANTS
    f1 = f1
    f2 = f2
    c1 = c1
    c2 = c2
    p1 = p1
    p2 = p2
    env = env
    oldEnv = oldEnv
    Chains = {env, oldEnv}
    Composites = {env}
    Procs = {p1}
    Files = {f1, f2, c1, c2}
    Inner = {c1, c2}
    NoFile = NoFile
    AuthOf <- LoginOrOldEnv
    InitTokens = {0}
    MaxToken = 3
    RefModulus = 8
    ConcurrentClose = FALSE
SPECIFICATION Spec
INVARIANT NoTokenLeak
PROPERTIES LeaseSpec
