CONSTANTS
    c1 = c1
    c2 = c2
    c3 = c3
    c4 = c4
    alice = alice
    bob = bob
    p1 = p1
    p2 = p2
    p3 = p3
    a1 = a1
    b1 = b1
    Garbage = Garbage
    NoPassword = NoPassword
    None = None
    Call = {c1, c2, c3, c4}
    User = {alice, bob}
    Password = {p1, p2}
    TooLong = {}
    TooShort <- AllLong
    Email = {a1, b1}
    InitUsers <- OneUser
    Front = {"rest"}
    Kind = {"createUser", "login", "refresh", "changePassword"}
    Second = 1
    TokenLeeway = 1
    AccessTokenDuration = 1
    RefreshTokenDuration = 1
    MaxTime = 0
    MaxFaults = 1
SPECIFICATION UserSpec
SYMMETRY Symmetric
INVARIANTS
    AnswersTimely
    AccessTracesToLogin
    UserInv
PROPERTIES
    AccessSpec
