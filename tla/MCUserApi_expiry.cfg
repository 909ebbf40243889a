CONSTANTS
    c1 = c1
    c2 = c2
    c3 = c3
    c4 = c4
    alice = alice
    bob = bob
    p1 = p1
    p2 = p2
    p3 = p3
    a1 = a1
    b1 = b1
    Garbage = Garbage
    NoPassword = NoPassword
    None = None
    Call = {c1, c2, c3}
    User = {alice}
    Password = {p1}
    TooLong = {}
    TooShort <- AllLong
    Email = {a1}
    InitUsers <- OneUser
    Front = {"rest"}
    Kind = {"login", "refresh", "getUser"}
    Second = 2
    TokenLeeway = 2
    AccessTokenDuration = 1
    RefreshTokenDuration = 3
    MaxTime = 5
    MaxFaults = 0
SPECIFICATION UserSpec
SYMMETRY Symmetric
INVARIANTS
    NoRefreshAfterExpiry
    RefreshHonoured
    AccessHonoured
PROPERTIES
    AccessSpec
