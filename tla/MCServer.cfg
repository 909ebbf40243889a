CONSTANTS
    c1 = c1
    c2 = c2
    alice = alice
    bob = bob
    p1 = p1
    a1 = a1
    b1 = b1
    Garbage = Garbage
    NoPassword = NoPassword
    None = None
    Call = {c1, c2}
    User = {alice, bob}
    Password = {p1}
    TooLong = {}
    TooShort <- AllLong
    Email = {a1, b1}
    InitUsers <- OneUser
    Front = {"rest", "grpc"}
    Kind = {"createUser", "login", "refresh", "getUser", "updateUser"}
    Second = 1
    TokenLeeway = 1
    AccessTokenDuration = 1
    RefreshTokenDuration = 1
    MaxTime = 0
    MaxFaults = 1
    MaxExits = 1
SPECIFICATION ServerFairSpec
INVARIANTS
    ServerInv
    RefreshHonoured
PROPERTIES
    OnceSpec
    AccessSpec
    ComesUpWhole
    GatewayRecovers
