CONSTANTS
    c1 = c1
    c2 = c2
    c3 = c3
    alice = alice
    bob = bob
    usd = usd
    eur = eur
    gbp = gbp
    Call = {c1, c2, c3}
    Owner = {alice, bob}
    Currency = {usd, eur}
    Unsupported = {gbp}
    AccountId = {1, 2, 3}
    Amount = {0, 1}
    InitAccounts <- OneCurrency
    MinBigint <- MCMinBigint
    MaxBigint = 1
    FirstId = 3
    PoolSize = 2
    MaxFaults = 1
SPECIFICATION ApiSpec
SYMMETRY Symmetric
INVARIANTS
    TransfersAuthorized
    DeletedStaysGone
    CurrencyConserved
    AnswerTellsTransfer
    ApiInv
