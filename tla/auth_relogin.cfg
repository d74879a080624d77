\* Login, logout and login again with the composite method.
CONSTANTS
    Methods <- OnlyComposite
    MaxOpen = 2
    InitTokens = {0}
    MaxToken = 4
SPECIFICATION AuthSpec
INVARIANT LoginYieldsToken
