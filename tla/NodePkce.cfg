SPECIFICATION FairSpec
CONSTANTS
    a = a
    b = b
    Kind = "pkce"
    Callers <- TwoCallers
    Buffer = 2
    Lifetimes = {3, 4}
    ResponseTime = 2
    MaxTime = 8
    NoToken = NoToken
INVARIANTS
    TypeOK
    ServedTokensLast
PROPERTY
    CallsReturn
