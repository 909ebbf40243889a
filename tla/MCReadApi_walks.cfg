CONSTANTS
    c1 = c1
    c2 = c2
    alice = alice
    bob = bob
    carol = carol
    usd = usd
    eur = eur
    r1 = r1
    NoWalk = NoWalk
    Call = {c1, c2}
    Owner = {alice, bob}
    Currency = {usd, eur}
    AccountId = {1, 2, 3}
    Amount = {1}
    InitAccounts <- MCInitAccounts
    MinBigint <- MCMinBigint
    MaxBigint = 1
    Reader = {r1}
    HalfInt32 = 4
    MinPageSize <- Smallest
    MaxPageSize <- Largest
    User = {alice}
    Kind = {"listAccounts", "listTransfers", "listEntries"}
    PageSize = {1, 2}
    MaxPage = 3
    MaxRequests = 3
    MaxFaults = 1
SPECIFICATION ReadSpec
SYMMETRY Symmetric
INVARIANTS
    WalkMissesNothing
