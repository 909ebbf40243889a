CONSTANTS
    c1 = c1
    c2 = c2
    c3 = c3
    alice = alice
    bob = bob
    usd = usd
    Call = {c1, c2, c3}
    Owner = {alice, bob}
    Currency = {usd}
    AccountId = {1, 2}
    Amount = {1}
    InitAccounts <- MCInitAccounts
    MinBigint <- MCMinBigint
    MaxBigint = 1
    FirstId = 3
    PoolSize = 2
    MaxFaults = 1
SPECIFICATION FairSpec
PROPERTIES
    EveryCallReturns
