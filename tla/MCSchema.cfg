CONSTANTS
    c1 = c1
    c2 = c2
    alice = alice
    bob = bob
    usd = usd
    eur = eur
    Call = {c1, c2}
    Owner = {alice, bob}
    Currency = {usd, eur}
    AccountId = {1, 2, 3}
    Amount = {1}
    InitAccounts <- MCInitAccounts
    MinBigint <- MCMinBigint
    MaxBigint = 2
    Balance = {0, 1}
SPECIFICATION SchemaSpec
SYMMETRY Symmetric
INVARIANTS
    SchemaTypeOK
    LedgerKept
    NothingDangles
