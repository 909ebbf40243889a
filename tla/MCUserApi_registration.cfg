CONSTANTS
    c1 = c1
    c2 = c2
    c3 = c3
    c4 = c4
    alice = alice
    bob = bob
    p1 = p1
    p2 = p2
    p3 = p3
    a1 = a1
    b1 = b1
    Garbage = Garbage
    NoPassword = NoPassword
    None = None
    Call = {c1, c2, c3}
    User = {alice, bob}
    Password = {p1, p2, p3}
    TooLong = {p2}
    TooShort <- RunesAndBytes
    Email = {a1, b1}
    InitUsers <- NoUsers
    Front = {"rest", "grpc"}
    Kind = {"createUser", "login", "updateUser", "getUser", "changePassword", "logout"}
    Second = 1
    TokenLeeway = 1
    AccessTokenDuration = 0
    RefreshTokenDuration = 0
    MaxTime = 1
    MaxFaults = 1
SPECIFICATION UserSpec
SYMMETRY Symmetric
INVARIANTS
    UserTypeOK
    RegisteredCanLogIn
