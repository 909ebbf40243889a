# A TLA+ verification of go-simplebank

go-simplebank is a small bank: users with accounts in different currencies,
transfers between accounts, a REST API (gin), a gRPC user service with an HTTP
gateway, JWT access and refresh tokens, and one PostgreSQL database behind all
of it. This directory holds TLA+ modules that model its core, TLC
configurations that check them on small instances, and TLAPS proofs of what
matters most for instances of any size.

Paths below are relative to the repository (`src/`).

## 1. Inventory

| part | source | state | operations | modelled in |
|---|---|---|---|---|
| ledger store | `db/sqlc/store.go`, `*.sql.go` | tables `accounts`, `transfers`, `entries`; transactions and their row locks; connections of the pool | `TransferTx`, `CreateAccount`, `DeleteAccount`; single statements no handler calls; reads | `Ledger` (what it promises), `TransferStore` (how), `Schema` (the rest) |
| schema | `db/migrations` | five tables and their constraints | checks, foreign keys with their ON DELETE actions, unique keys | `Schema`, `Ledger`, `TransferStore`, `Postgres` |
| account handlers | `api/account.go` | none; one goroutine per request | `POST`, `GET`, `DELETE /accounts` | `BankApi` (`POST`, `DELETE`), `ReadApi` (`GET`) |
| transfer handlers | `api/transfer.go` | what a handler read before the transaction | `POST`, `GET /transfers` | `BankApi` (`POST`), `ReadApi` (`GET`) |
| error mapping | `db/sqlc/error.go`, `api/error.go` | none | class of an error, status of an answer | `BankApi` |
| entry handlers | `api/entry.go` | none | `GET /entries` | `ReadApi` |
| user handlers | `api/user.go`, `db/sqlc/user.sql.go` | table `users` | register, read, update, change password, login | `Access` (what they promise), `UserApi` (how) |
| sessions | `api/token.go`, `db/sqlc/session.sql.go` | table `sessions` | created at login, read at refresh | `Access`, `UserApi` |
| token maker | `token/jwt/maker.go` | none; reads the clock | create, verify with a leeway | `Tokens` |
| authentication | `api/middleware.go`, `gapi/auth_interceptor.go` | none | token of a request to its user | `UserApi` |
| gRPC user service | `gapi/` | same tables | register, login, read a user | `UserApi`, `Server` (its port, codes and contexts) |
| passwords | `utils/password.go` | none | hash, compare | `UserApi` |
| startup and gateway | `cmd/main.go`, `gapi/gateway.go`, `gapi/server.go`, `pb/user.pb.gw.go`, `pb/user_grpc.pb.go` | two servers, the connection of the gateway to one of them | start, serve, end, dial, forward a request | `Server`, `Once` (what a client may conclude) |
| configuration | `utils/config.go` | none after startup | | not modelled: read once, before everything else |
| messages, test helpers | `pb/user.pb.go`, `db/mock/`, `utils/random.go` | | | not modelled |

How the parts interact: a handler runs in a goroutine of its own and calls the
store; every call of the store takes a connection of the pool, sends its
statements one by one and returns rows or an error. The handlers share nothing
in memory. They meet in the database, so most of what is hard about this
program is in what happens between two statements:

* **interleaving** - any other call may run between two statements of a
  transaction, and between the two account reads of `createTransfer` and the
  transaction that relies on them (`api/transfer.go:37-74`);
* **waiting** - a statement waits for row locks, a call for a connection,
  neither with a deadline: gin's context is never cancelled here
  (`ContextWithFallback` is off), so a waiting call can only be granted or lose
  its connection;
* **failure** - a statement may be refused by a constraint after others wrote
  rows, a connection may be lost anywhere, and the answer to a COMMIT may be
  lost although the commit was done;
* **order** - accounts are deleted and opened again around transfers that name
  them; a password changes between the comparison with it and the statement
  that relies on the comparison (`api/user.go:174-204`);
* **time** - a login reads the clock twice and a refresh three times, each time
  later, and a token and its session end at different instants;
* **paging** - lists are ordered by ids that are drawn before the rows are
  committed, and each page is a query of its own;
* **one process, two servers** - gin and the gateway on one port, gRPC on
  another, started by two goroutines, either of which ends the process when its
  server fails (`cmd/main.go:37-57`); the gateway reaches the gRPC server over
  a connection that may not be there yet; requests are cut off at any statement.

What makes the parts correct:

* store: every operation takes effect in one step or not at all; balances,
  entries and transfers agree; money is conserved; no error leaves rows behind
  and no success is reported for what was not committed; calls never wait for
  each other in a circle and all return;
* handlers: money leaves only accounts of the user who asked and stays in its
  currency, although the checks are outside the transaction; the answer tells
  what happened; every request is answered;
* users: what an answer says of a password was true while the request was in
  progress; nobody acts as a user without a login; tokens are good until the
  instant the client was told and sessions not a tick longer; registration and
  login agree on what a password is;
* reads: a client that reads page after page misses nothing, and is shown rows
  its user's own accounts that it can fetch again;
* schema: whatever order the store's operations come in, no row outlives the
  user or account it names, and nothing but a single statement of a transfer
  unbalances the books;
* process: both servers come up or neither stays; a request is executed at most
  once, an answer tells whether it was, and what was committed outlives the
  process.

The hazards at their lines, with the properties that cover them, are listed in
`PROJECT.json`.

## 2. Modules

```
Postgres        row locks and BIGINT (external)
  Ledger        abstract: Open, Move, Close, each atomic
    LedgerProofs      with SumTheorems, about sums over finite sets
    Schema            the whole Store interface over all five tables
      SchemaProofs
    ReadApi           GET handlers over the committed tables
      ReadApiProofs
    TransferStore     detailed: statements, locks, pool, failures
      TransferStoreProofs
      BankApi         handlers on top of the store
        BankApiProofs

Access          abstract: who may act as whom, and until when
Once            abstract: what a client may conclude from an answer
Tokens          the token maker
  UserApi       users, sessions and their two front ends; implements Access
    UserApiProofs
    Server      the process around it, and the gateway; implements Once, and Access too
      ServerProofs
```

The two halves share nothing but the users named in tokens. `MCSchema`,
`MCTransferStore`, `MCBankApi`, `MCReadApi`, `MCUserApi` and `MCServer` give
the constants their values.

### Postgres

The two facts about PostgreSQL that are not in the repository. The pool is
opened with default options, so transactions are READ COMMITTED. The check of a
foreign key takes `KeyShare` on the row it refers to, an UPDATE of the balance
takes `NoKeyUpdate` (the balance is in no unique index), a DELETE takes
`Update`; `Conflict` says which exclude each other. `KeyShare` and
`NoKeyUpdate` do not: this is why a transfer can lock both accounts by its
inserts and update them later without waiting for other transfers' inserts.

### Ledger - what the store promises

State: the three tables, `accounts` as a function from ids to rows, the other
two as sets of rows. A row of `transfers` is named by the call that inserted
it, an entry by the call and its leg; the sequences behind the real ids matter
only for accounts, where they are modelled (`nextId` in `TransferStore`).
`Open`, `Move` and `Close` are CreateAccount, TransferTx and DeleteAccount as a
caller of the `Store` interface sees them: one step each.

### Schema - the whole Store interface

The other modules follow the handlers; Schema takes every operation of
`Store` that writes, in any order, with the tables they write to: what a new
handler or a test may do. Each is one statement (`TransferTx` is the atomic
`Move`), so each is one step, and a step that a constraint forbids is not
there, since it changes nothing. `DeleteUser` is the interesting one: it
cascades to `sessions` and `accounts`, from accounts to `entries`, and is
stopped by `transfers` (`DropAccounts`). The statements that write one side of
a transfer (`CreateTransfer`, `CreateEntry`, `AddAccountBalance`,
`UpdateAccount`, `DeleteTransfer`, and an account created with a balance)
unbalance the books by themselves; `raw` tells that one ran, and `LedgerKept` is
about the behaviours without. `users` and `sessions` are reduced to their keys
and `sessions.username`; their other columns are in `UserApi`.

### TransferStore - how it is done

One action per statement. `pc[c]` is the statement call `c` sends next,
`locks[c]` the row locks of its transaction, `result[c]` the rows its
statements returned, visible to nobody else until `Commit`.

| action | code |
|---|---|
| `Issue` | a caller calls the store |
| `Acquire` | `connPool.Begin`, or the pool taking a connection for a single query |
| `CreateTransfer`, `ShareTo` | `INSERT INTO transfers`: checks, then the two foreign keys, each of which may wait for a deleter |
| `CreateFromEntry`, `CreateToEntry` | `INSERT INTO entries`; the foreign-key lock is already held |
| `AddFirst`, `AddSecond` | `UPDATE accounts SET balance = balance + amount`, the smaller id first (`Legs`) |
| `Commit`, `Rollback` | the end of `execTx` |
| `CreateAccount` | `INSERT INTO accounts`: the id is drawn from the sequence first and is lost when the insert fails; waits for a deleter of the row with the same owner and currency |
| `DeleteAccount`, `CheckReferences` | `DELETE`: first the row lock, then the foreign keys of the tables that refer to it |
| `ConnectionLost` | a connection breaks; the server rolls back |

A commit has two outcomes (`ReturnCommitted`): the caller learns it, or it took
effect and the caller gets an error. Between the request of a lock and its
grant every other action may happen (`Granted`). PostgreSQL does not queue a
foreign-key lock behind a deleter that still waits, so a call waits for
holders of locks only, never for other waiters.

The row of a user is not modelled here: `owner` refers to `users`, no handler ever
deletes a user, and a token names a user that existed when it was made, so that
foreign key is always satisfied. The exhaustion of the accounts sequence is
modelled as the error it is (`out_of_range`).

### BankApi - the handlers

`stage[c]` is where the handler of request `c` is. `createTransfer` has one
action per query outside the transaction (`ReadFrom`, `ReadTo`), then calls the
store; the other two call it at once. `Answer` turns the store's error into a
status as the handler does. `Acceptable` is what the binding tags, the currency
validator and the handler's own check accept. The name of the user comes from
a verified token (`UserApi`).

### ReadApi - the GET handlers

On top of Ledger, which the readers see the committed states of: that these
are all they see is what `StoreImplementsLedger` proves. Ledger names rows by
calls; ReadApi adds the ids that the handlers order, page and fetch by
(`transferNo`, `entryNo`, `nextAccount`) and draws them when a row is inserted,
which may be long before its commit and in another order. The accounts of a
transfer are chosen at its commit, where TransferStore fixes them at the call,
and locks are left out; both allow more than the code does.

| action | code |
|---|---|
| `DrawAccount`, `OpenAccount`, `CloseAccount` | `CreateAccount`, in two steps, and `DeleteAccount` |
| `InsertTransfer`, `InsertEntry`, `CommitTransfer` | the three inserts of `TransferTx` and its commit |
| `Receive` | binding of the path and the query |
| `ReadAccount` | `GetAccount` and the comparison of its owner, in all handlers but `listAccounts` |
| `ReadTransfer`, `ReadEntry` | `GetTransfer` with the check of its two legs; `GetEntry`, which has no such check |
| `ReadList` | the three list queries, with the int32 offset; below zero PostgreSQL refuses it |
| `QueryFails` | any other error of a query |

A page is the set of rows with so many before them (`Page`). `walk` and
`follows` are history variables: the pages a client has read in order with the
rows that were there when it began, and whether it asks for a row it was just
shown. `WalkMissesNothing` holds because rows of these lists never go away, so
a row only moves towards later pages, for ascending ids as for descending
ones; a walk over the accounts of a user who deletes one is given up, since it
really may miss another.

### Tokens - the token maker

A token is a record of its id, its user and its expiry; only `CreateToken`
makes one. `NumericDate` rounds the expiry in the token down to a second, while
the payload returned beside it - what the client and the session are given -
keeps the exact one; `VerifyToken` adds the leeway. Time is counted in ticks,
any fraction of a second; PostgreSQL keeps microseconds of `expires_at`, so a
tick is not shorter than that.

### UserApi - users and sessions

`stage[c]` is what the handler of request `c` does next. Each query is a
transaction of its own, so each is one action; so is each reading of the clock.

| action | code |
|---|---|
| `Receive` | the middleware or interceptor verifies the token; binding and validators; `HashPassword` of a registration; the comparison of names in `getUser` |
| `InsertUser` | `CreateUser` with the unique keys of `users` |
| `ReadProfile`, `ReadUser`, `ReadOldPassword` | `GetUser` and what `getUser`, `loginUser` and `updateUserPassword` do with the row: the answer, or `CheckPassword` (and `HashPassword` of the new password) |
| `UpdatePassword`, `UpdateProfile` | the UPDATE and the answer |
| `MakeAccess`, `MakeRefresh` | `CreateToken`, at an instant of its own each |
| `StoreSession` | `CreateSession` and the answer of a login |
| `ReadClock`, `ReadSession` | `now` of `refreshToken`, then `GetSession` and the checks of its row |
| `QueryFails`, the second case of `ReplyCommitted` | an error of the store without and with the effect of the statement |
| `Tick` | time passes |

REST and gRPC are one set of handlers with two front ends: they differ in their
validators (`TooShort`), not in what they do to the tables. A 4xx or 500 stands
for the gRPC code of `gapi/error.go`. The name in the path of
`PUT /users/:username` is not in the model because the handlers ignore it and
use the one in the token; `GET /users/me` is `getUser` for one's own name.
A refresh token is accepted where an access token is (the claims do not tell
them apart), so the model accepts it too. The checks of `is_blocked` and the
404 of the two UPDATEs are not reachable: nothing blocks a session and no
handler deletes a user. bcrypt is a comparison of passwords, which are
identified with the bytes it reads, and refuses to hash those in `TooLong`;
`SignedString` and `uuid.Parse` do not fail on what the program gives them.

What a handler refuses at its start (`Refusal`) is an ordered choice, as in the
code: the token first, then the binding, then the handler's own checks.

`since` and `seen` are history variables: when a request arrived, and which
passwords its user has had from then until its answer. No guard reads them.

### Access - what the user handlers promise

Access knows users, passwords, claims and instants, but no tables, stages or
statements. A request is let in by a token of its user that has not run out
(`Arrive`), proves itself by the password in force or by a session that was
open when it arrived (`Prove`), and only then makes tokens, opens a session or
sets a password, each for the user of its claim (`Make`, `Open`,
`SetPassword`). `UserApi` implements it (`AccessSpec`): `Role` maps the stage
of a handler to what the request has earned, `Claim` its body and token to what
it shows, `made` and `open` are the tokens that were made and the sessions that
are stored. The content of the refinement is that checks made in one query, at
one reading of the clock, still justify what is done in another: `Prove` has no
clock but that of the arrival, while the handler verifies a rounded expiry with
a leeway and compares an exact one with a later reading.

### Server - the process and the gateway

Server puts `UserApi` into the process that runs it. `main` and `rpc` are its
two goroutines, `conn` the connection of the gateway to the gRPC server, and
`door[c]` how request `c` came in: through gin, the gRPC port, or the gateway,
which calls the gRPC service of its own process.

| action | code |
|---|---|
| `Start`, `ServeHttp`, `ServeRpc` | `main` up to its `go`, from there to `ListenAndServe`, and `Start` of `gapi/server.go` in the goroutine |
| `RpcFails`, `HttpFails` | `log.Fatal` of either, or a kill: the process ends without waiting for a handler (`Exit`) |
| `Dial`, `Redial`, `GoIdle` | `grpc.NewClient`, which connects at the first call, tries again by itself, and gives up an unused connection |
| `EnterGin`, `EnterRpc`, `EnterGateway` | the routes of gin, the service description of gRPC with its interceptor, the patterns below `/v1/` |
| `Invoke`, `Unavailable` | the call of the gateway's client, or its failure at once when there is no connection (calls do not wait for one: `WaitForReady` is off) |
| `Work` | a step of the handler, from `UserApi` |
| `Deliver` | the answer, through the gRPC code and back to an HTTP status where the door is the gateway |
| `Leave`, `Cancelled` | the client goes away; the context of a gRPC call ends with it and its next query fails, that of a gin handler never ends |

A statement that was sent before the process ended may still be executed: in
`Exit`, any of the handlers at a statement that writes may keep its stage, and
its `Work` then happens without a process. `wrote` counts the statements of a
request that changed a table, and is read by no guard.

`OnceSpec` says that this implements Once: every request, through any door,
takes effect at most once, 200 means it did, 4xx and 503 that it did not and
will not, 500 that it will not any more, and only a lost answer leaves the
future open. A request "takes effect" when a statement of it changes a table. Registration
and login insert a row, so 200 means that they did; an update of a profile or a
password that was answered 200 may have found the row as it wanted it, and Once
lets it be done without an effect.

`AccessSpec` holds here as in `UserApi`: a request claims nothing before its
handler starts, so one that waits for a connection is unknown to Access, and one
that is cut off has ended.

## 3. What the runs check

| run | instance | shows |
|---|---|---|
| `schema` | 2 calls, 2 accounts and one free id, 2 owners, every operation of the store | the books balance unless a single statement wrote one side; no row dangles, in any order of creations and deletions |
| `store_safety` | 3 calls, 2 accounts and one free id, amounts 0 and 1, balances -2..1, 2 connections, 1 lost connection | `StoreInv` is an invariant, no circle of lock waits, the answers of the store are true, the sums of the entries are the balances, the entries are the legs of the transfers, money is conserved, and TransferStore implements `LedgerSpec` |
| `store_returns` | 3 calls, 2 connections, 1 lost connection, fairness | every call returns |
| `api_races` | 3 requests of any kind, valid or not; 2 accounts and one free id, 2 currencies and one that is not supported, 2 connections, 1 lost connection | checks done before the transaction still hold in it; deleted accounts stay gone; no transfer crosses currencies; the answer tells what happened; `ApiInv`, which contains the types, is an invariant |
| `api_answers` | 3 requests, 2 accounts, 2 connections, fairness | every request is answered |
| `api_referenced` | 2 requests | a violation, see section 6 |
| `users_expiry` | 3 requests that log in, refresh or read a profile; 5 ticks of half a second, access 1 tick, refresh 3, leeway 2 | no refresh after the session, no refusal before the promised expiry (by the clock alone: nothing fails here, `server` has the failures); UserApi implements `Access` while time passes |
| `users_passwords` | 4 requests that register, log in, refresh or change a password; 2 users, one registered; 1 failed query | answers are true of an instant of the request; access traces to a login; UserApi implements `Access` while passwords change; `UserInv` is an invariant |
| `users_registration` | 3 requests of every kind but refresh, both front ends, one password too long and one short only for REST; 1 tick, 1 failed query | who registered can log in; the types |
| `reads_walks` | 2 transfers, 3 account ids in 2 currencies, 3 requests for pages 1..3 of size 1 or 2, an int32 of 3 bits, 1 failed query | a walk over transfers, entries or accounts misses nothing |
| `reads_shows` | 1 transfer, 3 owners, 3 account ids, 2 requests of every kind by 2 users, pages 1..5 of sizes 1 and 2, of which the list of accounts refuses 2 | lists show the user's own rows; what they show can be fetched; the types; `ReadInv` is an invariant |
| `server` | 2 requests that register, log in, refresh, read or update a profile, through every door; 1 user registered and 1 not; the process ends once and may be started again; 1 failed query; fairness | UserApi in its process implements `Once` and `Access`; a refresh token is honoured until its session ends, although a query fails, a client leaves or the process ends; the servers come up together; the gateway recovers; `ServerInv` is an invariant, with the types and what it says of sessions |

Bounds. They are constants: the sets `Call`, `AccountId`, `Amount`, the range
`MinBigint..MaxBigint`, `PoolSize` and `MaxFaults`. A call happens once, so the
number of calls bounds a behaviour. They are enough for the interesting cases:

* three calls are two transfers in opposite directions and a deletion, or a
  transfer, a deletion and a new account of the same owner and currency - every
  pairwise race of this code with a third party that changes what the two rely
  on. Two calls suffice where a property is about one request and whatever
  disturbs it;
* two transfers in opposite directions are the smallest circle of lock waits;
  circles of any length are excluded by proof;
* the range of the balance is small enough that the first and the second
  update of a transfer both overflow, and asymmetric because BIGINT is;
* one free account id allows one account to be opened and the sequence to be
  exhausted by the next;
* fewer connections than calls make calls wait for the pool; one lost
  connection falls at every statement in turn.

The users' instances split the concerns: time without changes of passwords,
changes without time, and the validators with everything but refresh. In
`users_expiry` the durations are odd and a second has two ticks, so the expiry
in a token differs from the one the client was told, and there are ticks
between the end of the session and that of its token's leeway. Four requests
in `users_passwords` are a login, a refresh with its token, and two changes
around them. `Kind` and `Front` restrict what is sent, `MaxTime` the clock,
`MaxFaults` the failures. The clock does not go back (NTP corrections are not
modelled).

In `server` the clock stands still (time is the concern of the other instances),
and one end of the process falls between any two steps: before either server
serves, in the middle of a handler, or between a commit and its answer. Two
requests are a login and a refresh with its token, or two registrations of one
name through different doors; requests do not meet anywhere but in the tables
and at `conn`.

In `schema` two calls are a transfer and whatever else names its accounts; a
user, an account or an entry can be deleted and made again without any bound
but that on the ids.

Readers do not influence writers or each other, so one reader with a few
requests is enough. With two transfers, the one with the smaller id can be
committed before, between or after the pages that show the other; three
requests are a walk of two pages and the retry of one, or of two full pages and
an empty one. An int32 of `2 * HalfInt32 = 8` values overflows at page 3 of size
2 and has come round to page 1 at page 5: requests for these pages reach the
overflow. A walk does not, because it would need a list of four rows to ask for
page 3, and four transfers are beyond TLC in the time a run has; that a walk
misses nothing in spite of the overflow rests on the theorem `WalksMissNothing`. `MinPageSize` is 1
for every list where the code has 1 or 5.

Calls are a symmetry set in the safety runs (they are interchangeable model
values) and not in the liveness runs.

Deadlock is checked in every run. A behaviour ends in `Quiet`, `AllReplied` or
`AllAnswered`, which require that every call returned; anything else that stops
is reported. In `schema` users can be created and deleted for ever.

Fairness. `WF_vars(Progress(c))` for every call: a statement that waits for
nothing is answered, and the goroutine that waits for the answer is scheduled
by the Go runtime. Nothing forces a request to arrive or a connection to fail.
Weak fairness of a *waiting* statement would not be enough if locks were
released and taken again for ever, but every call ends, and its transaction
with it. `ApiFairSpec` adds the same for handlers. `ServerFairSpec` asks that the
two goroutines of a process reach their servers (`ServeHttp`, `ServeRpc`) and
that grpc-go dials when it is asked to and again after a failure (`Dial`,
`Redial`): the Go runtime schedules them and nothing they wait for is withheld.
That a process ends, is started again or gets a request is not assumed.

## 4. What is proved

Each theorem holds for every value of the constants that satisfies the named
assumptions, which TLC evaluates in every run:

* `BigintAssumption`, `LedgerAssumption`: ids and amounts are integers, BIGINT is
  a range around zero, finitely many calls;
* `InitAssumption`: the initial accounts are finitely many, have balance zero, and
  one per owner and currency; `StoreAssumption`: their ids are below the next
  value of the sequence, the pool has a connection; `SchemaAssumption`: the
  balances that single statements write are BIGINTs;
* `ReadAssumption`: the page sizes the binding tags accept are from 1 to 2^31 (the
  code's are at most 100), the bounds on requests are numbers;
* `TokenAssumption`: a second has at least one tick, and the leeway is at least a
  second (the code's is 30); `UserAssumption`, `ClaimAssumption`: what stands for
  "none" and for a token that nobody made is none of the real values, the
  initial users are rows of their table.

| theorem | statement |
|---|---|
| `StoreInvariant` | `Spec => []StoreInv` |
| `TypeCorrect` | `Spec => []TypeOK` |
| `FailuresLeaveNothing` | `Spec => []FailedLeavesNothing` |
| `DeadlockFree` | `Spec => []NoDeadlock` |
| `StoreImplementsLedger` | `Spec => LedgerSpec` |
| `AcknowledgedStays` | `Spec => []AckedIsRecorded` |
| `DoubleEntryHolds`, `StoreBooksDouble` | `LedgerSpec => []DoubleEntry`, `Spec => []DoubleEntry` |
| `MoneyStaysConserved`, `StoreConservesMoney` | the same of `MoneyConserved` |
| `BalancesAreEntrySums`, `StoreBalancesAreEntrySums` | the same of `BalanceIsEntrySum` |
| `SchemaTypeCorrect` | `SchemaSpec => []SchemaTypeOK` |
| `NothingEverDangles` | `SchemaSpec => []NothingDangles` |
| `LedgerStaysKept` | `SchemaSpec => []LedgerKept` |
| `ApiInvariant`, `ApiTypeCorrect` | `ApiSpec => []ApiInv`, `ApiSpec => []ApiTypeOK` |
| `ApiImplementsLedger` | `ApiSpec => LedgerSpec` |
| `TransfersStayAuthorized` | `ApiSpec => []TransfersAuthorized` |
| `CurrenciesStayConserved` | `ApiSpec => []CurrencyConserved` |
| `DeletedStaysDeleted` | `ApiSpec => []DeletedStaysGone` |
| `AnswersTellTransfers` | `ApiSpec => []AnswerTellsTransfer` |
| `UserInvariant`, `UserTypeCorrect` | `UserSpec => []UserInv`, `UserSpec => []UserTypeOK` |
| `NoTokenAfterExpiry` | `UserSpec => []NoRefreshAfterExpiry` |
| `AccessIsHonoured`, `RefreshIsHonoured` | `UserSpec => []AccessHonoured`, `UserSpec => []RefreshHonoured` |
| `AnswersAreTimely` | `UserSpec => []AnswersTimely` |
| `RegisteredLogIn` | `UserSpec => []RegisteredCanLogIn` |
| `AccessTraces` | `UserSpec => []AccessTracesToLogin` |
| `UsersImplementAccess` | `UserSpec => AccessSpec` |
| `ServerInvariant`, `ServerTypeCorrect` | `ServerSpec => []ServerInv`, `ServerSpec => []ServerTypeOK` |
| `RequestsTakeEffectOnce` | `ServerSpec => OnceSpec` |
| `ServiceImplementsAccess` | `ServerSpec => AccessSpec` |
| `SessionsOutliveProcess`, `SessionsEnd` | `ServerSpec => []RefreshHonoured`, `ServerSpec => []NoRefreshAfterExpiry` |
| `AccessOutlivesProcess`, `AccessTracesAcrossExits` | `ServerSpec => []AccessHonoured`, `ServerSpec => []AccessTracesToLogin` |
| `AnswersStayTimely`, `RegisteredLogInLater` | `ServerSpec => []AnswersTimely`, `ServerSpec => []RegisteredCanLogIn` |
| `ReadInvariant`, `ReadTypeCorrect` | `ReadSpec => []ReadInv`, `ReadSpec => []ReadTypeOK` |
| `ListsShowOwn` | `ReadSpec => []ShowsOwn` |
| `ListedIsFetched` | `ReadSpec => []ListedCanBeFetched` |
| `WalksMissNothing` | `ReadSpec => []WalkMissesNothing` |

### The store

None of the properties is inductive: that a commit is a `Move`
depends on the balance a transaction computed at its UPDATE being still the
right one at its COMMIT, and that depends on who may lock what in between.
`StoreInv` says it in parts:

* `ArgInv`, `HeldInv`: which request a call executes and exactly which locks it
  holds at each statement;
* `LocksExclude`: locks of two calls never conflict;
* `LockedInv`: a locked row exists;
* `WrittenInv`: what a transaction has written so far, in terms of the
  committed rows it will replace (`After`): the balance it wrote is the
  committed balance plus its amount;
* `CommittedInv`: committed rows belong to calls that returned, ids are below
  the sequence, and an account that no transfer mentions is empty.

`InvStep` proves it part by part. The steps of other calls are handled once, in
`Frame`, `NewLocks` and `LockedRows`: a step of `d` changes nothing of `c` but
the committed tables, and it changes or removes a committed account only if it
holds a lock that excludes every lock `c` could have on that row - so what `c`
wrote is still about the row it locked.

`DeadlockFree` follows without a further invariant. In a circle of waits every
call both holds and waits, so it is a transfer past its first insert, and what
another waits for must be a lock it took by an update (`HoldAndWait`,
`WaitChain`). So it waits with its second update, for an account another
updated first. The call whose first account is the largest waits for a larger
one: contradiction (`Acyclic`). This is the argument the comment in
`store.go:84-85` leaves to the reader, and it covers the foreign-key locks and
the deletions, which the comment does not mention.

`StoreImplementsLedger` maps `Commit` to `Move`, the successful `CreateAccount`
to `Open`, the successful `CheckReferences` to `Close` and everything else to a
stutter. Through it what is proved of Ledger applies to the committed tables of
TransferStore.

### The sums

`MoneyConserved` and `BalanceIsEntrySum` are sums over sets, which the community
modules compute by a recursive function. Their proofs need two facts of sums
(`SumTheorems`): a sum does not depend on the order of its terms, and changing
one term changes it by the difference. Both follow without a rule of induction:
of the finite subsets of a set for which a fact is false one is minimal for
inclusion, and taking one member away from it gives a smaller one. With that,
`Move` takes from one balance what it adds to another and gives each account the
entry of what its balance changed by, `Open` adds a zero, and `Close` takes one
away, for only an empty account without entries goes.

### The schema

Over `Schema`, `NothingDangles` is inductive once rows have their types
(`SchemaTypeCorrect`): an UPDATE of a balance keeps the owner of the row. What
carries `NothingEverDangles` is that a deletion removes a user, the sessions and
accounts that name the user and the entries that name those accounts in one
statement, and is refused where a transfer names one (`DropNames`).
`LedgerStaysKept` says that such a cascade takes no leg of a transfer: in double
books an account with an entry has a transfer, and so cannot go away
(`DropKeepsDouble`); an account that goes has no entry, so its balance is zero,
and the sums are as before.

### The handlers over the store

A handler reads accounts, then calls the store, and the account may have changed
in between. `ApiInv` says what stays true of what it read: `ReadInv` and
`DeletedInv` (an id below the next value of the sequence is either still the
account that was read, or gone for good) and `HandlerInv` (the store has at most
one call of the handler, with the arguments of its request, and the answer is
that of its error). `Moved` lists what a step of anyone does to one request, so
that each part is proved by cases on it, and `Identity` what no step changes of
an account: its owner, its currency, and that ids do not come back.
`StoreInv` goes through unchanged (`StoreGoesOn`): to the store a handler is a
caller like any other. The properties then follow; for `CurrencyConserved` every
currency is a set of accounts of its own whose sum a transfer keeps, because
`TransfersAuthorized` puts both of its accounts in the same one.

### The users

`UserInv` says for every stage of a handler what its request is (`StageInv`),
what it showed when it arrived (`GateInv`), which tokens it has made and that
they are of its user (`TokenInv`), that a session is that of a login whose
answer was not sent before (`SessionInv`), and that a password it was compared
with was in force while it was in progress (`SeenInv`). With `Dates` - the
leeway makes up for what rounding takes from an expiry - the properties of
tokens and sessions follow. These parts together are `HandlerInv`, and hold
whatever the process around the handlers does; `AnswerInv`, that every handler
starts with its request and ends with a status, is the rest of `UserInv` and is
false once a process may end. `RefreshHonoured`, `AnswersTimely` and
`AccessTracesToLogin` compare several requests, and are inductive together with
`HandlerInv`. The last is an induction along a chain of refreshes: a new token
traces to a login because the one it was made with does.

`UsersImplementAccess` maps the stages by `Role` and `Claim` and has one lemma
per kind of step: an arrival (`Arrive`), a comparison or a session read that
proves the request (`Prove`), a statement that writes (`SetPassword`, `Open`), a
token that is made (`Make`), and the rest, which Access does not see.

### The process

To the handlers a step of Server is one of their own, none, or one of three that
leave the tables alone (`Handled`): the process ends, the context of a call ends,
or a request of the gateway begins to wait for a connection. `Around` says what
these have in common: they stop handlers with no answer or with 500, and put
requests where no handler runs. `HandlerInv` goes through that
(`AroundHandlers`), and with it every promise of the handlers: each has one lemma
that an own step keeps it, shared with the proofs over `UserSpec`, and one that
`Around` does. To Access, `Around` ends the requests it stops (`AroundEnds`).

`OnceSpec` needs more than the handlers know, because the answer a client gets,
the status of the handler and the rows it wrote are set in different steps, with
the end of the process possible between any two:

* `DoorInv`: a request that has no handler though it was made came through the
  gateway, and is one that may be sent on;
* `ToldInv`: an answer is the status of a handler that has ended, as the door
  shows it, or the gateway's own 400 or 503 for a request that will get no
  handler; and when the process has ended nobody waits for an answer any more;
* `WroteInv`: a request changes a table at most once, in the step that ends it
  with 200 or 500, and an insert that is answered 200 did.

The second is what excludes a 503 for a request that is executed later (`Invoke`
takes only requests that were told nothing), the third that a handler which goes
on after the end of its process writes twice. Both need `StageInv` and
`SessionInv`, which say that the insert of a registration or session adds a row
that was not there. `StepOnce` then maps the three ways in to `Ask`, a step of a
handler that writes to `Act`, `Deliver` and `Unavailable` to `Tell`, and the end
of the process and a client that leaves to `Lose`; all else is a stutter.

### The readers

`ReadInv` is about what other steps leave alone. Writers add rows with ids that
were drawn once (`NumberInv`, `NextNumbered`), and take an account away only when
it has no rows, so what a reader was shown stays its user's (`Written`,
`OwnsStays`), and an account that was the user's when it was read is so at the
next query or is gone (`OwnOrGone`). For the walks `WalkInv` says where the rows
are that were there at the start and have not been shown: at the offset of the
next page or behind it. Rows that are added can only move them further back
(`PlaceStays`, for either order), rows of a list have different places
(`PlaceInjective`), so a page with a row behind it is full (`FullPage`), and a
page that is not full ends the walk with nothing missed. An offset that a walk
reaches is below 2^31 plus a page, since every page before it was read; so it
fits, or is negative as an int32 and refused (`Wraps`), and never comes round to
an earlier page.

### Only model-checked

* Liveness (`EveryCallReturns`, `EveryRequestAnswered`, `ComesUpWhole`,
  `GatewayRecovers`), which the prover cannot do. Every invariant and every
  refinement that a passing run checks is also proved, and what the runs check of
  UserApi alone, but for `AnswerInv`, is proved of the whole service.
* That `ReferencedIsConflict` is violated (section 6): a counterexample is a run,
  not a theorem.

## 5. What is not modelled

* Reading the configuration (`utils/config.go`): it happens before anything is
  shared and ends the process if it fails. A deployment without
  `RPC_SERVER_ADDRESS` or `REFRESH_TOKEN_DURATION` - the compose file sets
  neither - starts with empty values; the constants of the modules stand for
  values that were set.
* A loopback connection of the gateway that breaks while both ends live: gRPC
  would then answer 503 for a call that may have been executed, and `OnceSpec`
  says nothing about that case.
* `GetAccountForUpdate`, `ListTransfersByFromAccount` and
  `ListTransfersByToAccount`: called by nobody, and they only read.
* The messages of `pb/user.pb.go`, the `local_request` functions of
  `pb/user.pb.gw.go`, which nobody registers, `db/mock` and `utils/random.go`,
  which serve the tests.
* Timestamps no handler compares, the text of answers, the bytes of a token,
  `User-Agent` and client address of a session, which are stored and never read.
* A crash of PostgreSQL: committed rows survive it by the database's own
  guarantee, and for the program it is the loss of all connections. The end of
  the process is modelled for the user service; for the ledger handlers it is
  a lost connection whose answer reaches nobody.

## 6. Findings

* `api_referenced`: `deleteAccount` means to answer 409 when a transfer refers
  to the account (`api/account.go:163-165`), but
  `IsForeignKeyViolationError` (`db/sqlc/error.go:23-25`) only recognises a
  sentinel that nothing returns, and never PostgreSQL's error 23503. The answer
  is 500 "unknown error".

Read but not modelled, because no property depends on it: the comment at
`api/user.go:216-217` says that the query `UpdateUserPassword` no longer sets
`password_changed_at`; it does (`db/sqlc/user.sql.go:108-115`), and the branch
below the comment is only taken with the mock store.

## 7. Plan

Done: all modules of section 2, their runs, the proofs of section 4. What would
come next:

1. The readers over TransferStore instead of Ledger, for what a lock or a lost
   connection changes for them.
2. The ledger handlers in the process of Server, whose end is a lost connection
   to them so far.
3. Liveness of the user handlers.
