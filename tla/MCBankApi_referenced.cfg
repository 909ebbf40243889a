CONSTANTS
    c1 = c1
    c2 = c2
    c3 = c3
    alice = alice
    bob = bob
    usd = usd
    eur = eur
    gbp = gbp
    Call = {c1, c2}
    Owner = {alice, bob}
    Currency = {usd, eur}
    Unsupported = {}
    AccountId = {1, 2, 3}
    Amount = {1}
    InitAccounts <- OneCurrency
    MinBigint <- MCMinBigint
    MaxBigint = 2
    FirstId = 3
    PoolSize = 2
    MaxFaults = 0
SPECIFICATION ApiSpec
INVARIANTS
    ReferencedIsConflict
