CONSTANTS
    c1 = c1
    c2 = c2
    alice = alice
    bob = bob
    carol = carol
    usd = usd
    eur = eur
    r1 = r1
    NoWalk = NoWalk
    Call = {c1}
    Owner = {alice, bob, carol}
    Currency = {usd}
    AccountId = {1, 2, 3}
    Amount = {1}
    InitAccounts <- MCInitAccounts
    MinBigint <- MCMinBigint
    MaxBigint = 1
    Reader = {r1}
    HalfInt32 = 4
    MinPageSize <- Smallest
    MaxPageSize <- Largest
    User = {alice, carol}
    Kind = {"getAccount", "listAccounts", "getTransfer", "listTransfers", "getEntry", "listEntries"}
    PageSize = {1, 2}
    MaxPage = 5
    MaxRequests = 2
    MaxFaults = 0
SPECIFICATION ReadSpec
INVARIANTS
    ReadTypeOK
    ShowsOwn
    ListedCanBeFetched
    ReadInv
