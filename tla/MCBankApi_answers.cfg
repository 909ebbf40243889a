CONSTANTS
    c1 = c1
    c2 = c2
    c3 = c3
    alice = alice
    bob = bob
    usd = usd
    eur = eur
    gbp = gbp
    Call = {c1, c2, c3}
    Owner = {alice, bob}
    Currency = {usd}
    Unsupported = {}
    AccountId = {1, 2}
    Amount = {1}
    InitAccounts <- OneCurrency
    MinBigint <- MCMinBigint
    MaxBigint = 1
    FirstId = 3
    PoolSize = 2
    MaxFaults = 0
SPECIFICATION ApiFairSpec
PROPERTIES
    EveryRequestAnswered
