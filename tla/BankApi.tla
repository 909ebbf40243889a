------------------------------- MODULE BankApi -------------------------------
(***************************************************************************)
(* The handlers of api/ that change the ledger, on top of the store: POST  *)
(* /transfers, POST /accounts and DELETE /accounts/:id.  A handler is a    *)
(* goroutine of its own.  It checks the accounts of a transfer with one    *)
(* query each, outside the transaction that moves the money, so any other  *)
(* request may run between the checks and the transfer.                    *)
(*                                                                         *)
(* A request makes at most one call of the store that changes the ledger   *)
(* and is named as that call.  The requests have passed the middleware     *)
(* (api/middleware.go): "user" is the name in the verified token.          *)
(***************************************************************************)
EXTENDS TransferStore

CONSTANTS
    Unsupported     \* what else a client may send as a currency

VARIABLES
    stage,    \* what the handler of a request does next
    req,      \* the request
    status    \* the HTTP status of the answer, 0 before it

apiVars == <<vars, stage, req, status>>

PostTransfer == [kind : {"postTransfer"}, user : Owner, from : AccountId, to : AccountId,
                 amount : Amount, currency : Currency \cup Unsupported]
PostAccount == [kind : {"postAccount"}, user : Owner, currency : Currency \cup Unsupported]
DelAccount == [kind : {"deleteAccount"}, user : Owner, id : AccountId]
HttpRequest == PostTransfer \cup PostAccount \cup DelAccount
NoRequest == [kind |-> "none"]

Stage == {"idle", "readFrom", "readTo", "store", "replied"}
Status == {0, 200, 400, 403, 404, 409, 500}

ApiTypeOK ==
    /\ TypeOK
    /\ stage \in [Call -> Stage]
    /\ req \in [Call -> HttpRequest \cup {NoRequest}]
    /\ status \in [Call -> Status]

ApiInit ==
    /\ Init
    /\ stage = [c \in Call |-> "idle"]
    /\ req = [c \in Call |-> NoRequest]
    /\ status = [c \in Call |-> 0]

-----------------------------------------------------------------------------
\* db/sqlc/error.go: what a handler tells apart in an error of the store.
\* PostgreSQL's foreign_key_violation is not the sentinel the code looks for,
\* and no statement here raises one of the internal errors XX000 - XX002.
IsNotFoundError(e) == e = "no_rows"
IsUniqueViolationError(e) == e = "unique_violation"
IsForeignKeyViolationError(e) == FALSE

Reply(c, s) ==
    /\ stage' = [stage EXCEPT ![c] = "replied"]
    /\ status' = [status EXCEPT ![c] = s]

Go(c, next) ==
    /\ stage' = [stage EXCEPT ![c] = next]
    /\ UNCHANGED status

\* What ShouldBindJSON accepts (the binding tags and the currency validator)
\* and createTransfer's own check.
Acceptable(r) ==
    CASE r.kind = "postTransfer" ->
            r.amount > 0 /\ r.currency \notin Unsupported /\ r.from # r.to
      [] r.kind = "postAccount" -> r.currency \notin Unsupported
      [] OTHER -> TRUE

\* The arguments a handler gives the store.
TransferArg(r) == [op |-> "createTransfer", from |-> r.from, to |-> r.to, amount |-> r.amount]
CreateArg(r) == [op |-> "createAccount", owner |-> r.user, currency |-> r.currency]
DeleteArg(r) == [op |-> "deleteAccount", id |-> r.id, owner |-> r.user]

-----------------------------------------------------------------------------
\* A request arrives; it is refused at once, or its handler goes on.
Receive(c, r) ==
    /\ stage[c] = "idle"
    /\ req' = [req EXCEPT ![c] = r]
    /\ \/ ~Acceptable(r) /\ Reply(c, 400) /\ UNCHANGED vars
       \/ Acceptable(r) /\ r.kind = "postTransfer" /\ Go(c, "readFrom") /\ UNCHANGED vars
       \/ Acceptable(r) /\ r.kind = "postAccount" /\ Go(c, "store") /\ Issue(c, CreateArg(r))
       \/ Acceptable(r) /\ r.kind = "deleteAccount" /\ Go(c, "store") /\ Issue(c, DeleteArg(r))

\* A query outside any transaction: it needs a connection of the pool and
\* sees the committed rows.
CanQuery == Cardinality(InUse) < PoolSize

\* createTransfer reads the account to debit.
ReadFrom(c) ==
    LET r == req[c] IN
    /\ stage[c] = "readFrom"
    /\ CanQuery
    /\ \/ r.from \notin DOMAIN accounts /\ Reply(c, 404)
       \/ /\ r.from \in DOMAIN accounts
          /\ accounts[r.from].owner # r.user
          /\ Reply(c, 403)
       \/ /\ r.from \in DOMAIN accounts
          /\ accounts[r.from].owner = r.user
          /\ accounts[r.from].currency # r.currency
          /\ Reply(c, 400)
       \/ /\ r.from \in DOMAIN accounts
          /\ accounts[r.from].owner = r.user
          /\ accounts[r.from].currency = r.currency
          /\ Go(c, "readTo")
    /\ UNCHANGED <<vars, req>>

\* Mutant of ReadTo: the currency of the account to credit is not checked.
ReadToUnchecked(c) ==
    LET r == req[c] IN
    /\ stage[c] = "readTo"
    /\ CanQuery
    /\ \/ r.to \notin DOMAIN accounts /\ Reply(c, 404) /\ UNCHANGED vars
       \/ r.to \in DOMAIN accounts /\ Go(c, "store") /\ Issue(c, TransferArg(r))
    /\ UNCHANGED req

\* createTransfer reads the account to credit, and calls TransferTx.
ReadTo(c) ==
    LET r == req[c] IN
    /\ stage[c] = "readTo"
    /\ CanQuery
    /\ \/ r.to \notin DOMAIN accounts /\ Reply(c, 404) /\ UNCHANGED vars
       \/ /\ r.to \in DOMAIN accounts
          /\ accounts[r.to].currency # r.currency
          /\ Reply(c, 400)
          /\ UNCHANGED vars
       \/ /\ r.to \in DOMAIN accounts
          /\ accounts[r.to].currency = r.currency
          /\ Go(c, "store")
          /\ Issue(c, TransferArg(r))
    /\ UNCHANGED req

\* One of the two queries fails: any other error than "no rows" is a 500.
QueryFails(c) ==
    /\ stage[c] \in {"readFrom", "readTo"}
    /\ LoseConnection
    /\ Reply(c, 500)
    /\ UNCHANGED <<ledgerVars, nextId, pc, arg, locks, result, err, req>>

\* Mutant of TransferStatus: createTransfer goes on after an error of
\* TransferTx.
TransferStatusIgnored(e) == 200

\* The status each handler makes of the store's error.
TransferStatus(e) == IF e = "nil" THEN 200 ELSE 500

CreateStatus(e) ==
    CASE e = "nil" -> 200
      [] IsUniqueViolationError(e) -> 409
      [] OTHER -> 500

DeleteStatus(e) ==
    CASE e = "nil" -> 200
      [] IsNotFoundError(e) -> 404
      [] IsForeignKeyViolationError(e) -> 409
      [] OTHER -> 500

StatusOf(r, e) ==
    CASE r.kind = "postTransfer" -> TransferStatus(e)
      [] r.kind = "postAccount" -> CreateStatus(e)
      [] r.kind = "deleteAccount" -> DeleteStatus(e)

\* The store returned; the handler answers.
Answer(c) ==
    /\ stage[c] = "store"
    /\ pc[c] = "done"
    /\ Reply(c, StatusOf(req[c], err[c]))
    /\ UNCHANGED <<vars, req>>

StoreStep ==
    /\ \E c \in Call : Progress(c) \/ ConnectionLost(c)
    /\ UNCHANGED <<stage, req, status>>

AllReplied == (\A c \in Call : stage[c] = "replied") /\ UNCHANGED apiVars

ApiNext ==
    \/ \E c \in Call, r \in HttpRequest : Receive(c, r)
    \/ \E c \in Call : ReadFrom(c) \/ ReadTo(c) \/ QueryFails(c) \/ Answer(c)
    \/ StoreStep
    \/ AllReplied

ApiSpec == ApiInit /\ [][ApiNext]_apiVars

\* The goroutine of a handler goes on, as do the statements of its call.
HandlerStep(c) ==
    \/ ReadFrom(c) \/ ReadTo(c) \/ Answer(c)
    \/ Progress(c) /\ UNCHANGED <<stage, req, status>>

ApiFairSpec == ApiSpec /\ \A c \in Call : WF_apiVars(HandlerStep(c))

-----------------------------------------------------------------------------
(***************************************************************************)
(* The inductive invariant: what a handler has read, and how far its call  *)
(* of the store is                                                         *)
(***************************************************************************)
StoreArg(r) ==
    CASE r.kind = "postTransfer" -> TransferArg(r)
      [] r.kind = "postAccount" -> CreateArg(r)
      [] r.kind = "deleteAccount" -> DeleteArg(r)

\* A handler calls the store at most once, for its request, and answers what
\* the call returned.
HandlerInv ==
    \A c \in Call :
        /\ stage[c] = "idle" <=> req[c] = NoRequest
        /\ stage[c] = "replied" <=> status[c] # 0
        /\ stage[c] \in {"idle", "readFrom", "readTo"} => pc[c] = "idle"
        /\ stage[c] \in {"readFrom", "readTo"} => req[c] \in PostTransfer
        /\ stage[c] = "store" => pc[c] # "idle"
        /\ stage[c] = "replied" =>
              \/ pc[c] = "idle" /\ status[c] # 200
              \/ pc[c] = "done" /\ status[c] = StatusOf(req[c], err[c])
        /\ pc[c] # "idle" => arg[c] = StoreArg(req[c])

\* What createTransfer read of an account stays true while the account is
\* there, for its id is not used again.
FromAsRead(r) ==
    /\ r.from < nextId
    /\ r.from \in DOMAIN accounts =>
          accounts[r.from].owner = r.user /\ accounts[r.from].currency = r.currency
ToAsRead(r) ==
    /\ r.to < nextId
    /\ r.to \in DOMAIN accounts => accounts[r.to].currency = r.currency

ReadInv ==
    \A c \in Call : req[c].kind = "postTransfer" =>
        /\ stage[c] = "readTo" \/ pc[c] # "idle" => FromAsRead(req[c])
        /\ pc[c] # "idle" => ToAsRead(req[c])

\* Nor is the id of an account whose deletion the store has confirmed.
DeletedInv ==
    \A c \in Call : req[c].kind = "deleteAccount" /\ pc[c] = "done" /\ err[c] = "nil" =>
        req[c].id < nextId /\ req[c].id \notin DOMAIN accounts

ApiInv ==
    /\ ApiTypeOK
    /\ StoreInv
    /\ HandlerInv
    /\ ReadInv
    /\ DeletedInv

-----------------------------------------------------------------------------
(***************************************************************************)
(* Properties                                                              *)
(***************************************************************************)

\* Money moves only out of an account of the user who asked, and only between
\* accounts of the currency of the request.  The checks and the transfer are
\* separate transactions: it holds because ids are never used twice and no
\* statement changes an owner or a currency (api/transfer.go:37-74).
TransfersAuthorized ==
    \A t \in transfers :
        LET r == req[t.id] IN
        /\ accounts[t.from].owner = r.user
        /\ accounts[t.from].currency = r.currency
        /\ accounts[t.to].currency = r.currency
        /\ <<t.from, t.to, t.amount>> = <<r.from, r.to, r.amount>>

\* In each currency the balances add up to zero: no transfer turns money of
\* one currency into money of another.
CurrencyConserved ==
    \A cur \in Currency :
        BalanceSum(accounts, {id \in DOMAIN accounts : accounts[id].currency = cur}) = 0

\* The answer tells the client what became of a transfer: 200 and it is in
\* the ledger with both its entries, 4xx and nothing of it ever is.  Only a
\* 500 leaves it open.
AnswerTellsTransfer ==
    \A c \in Call : req[c].kind = "postTransfer" /\ status[c] \notin {0, 500} =>
        LET r == req[c]
            recorded == TransferRow(c, r) \in transfers
            written == {FromEntry(c, r), ToEntry(c, r)} \cap entries
        IN IF status[c] = 200
           THEN recorded /\ written = {FromEntry(c, r), ToEntry(c, r)}
           ELSE ~recorded /\ written = {}

\* An account whose deletion was answered 200 was the user's and never comes
\* back under its id, not even when its owner opens another in its place.
DeletedStaysGone ==
    \A c \in Call : req[c].kind = "deleteAccount" /\ status[c] = 200 =>
        /\ req[c].id \notin DOMAIN accounts
        /\ req[c].id \notin Referenced(transfers)

\* A request whose handler runs is answered, whatever the others do.
EveryRequestAnswered ==
    \A c \in Call : stage[c] # "idle" ~> status[c] # 0

\* "The account is referenced by a transfer or an entry and cannot be
\* deleted": api/account.go:163-165 answers it with 409.
ReferencedIsConflict ==
    \A c \in Call :
        /\ req[c].kind = "deleteAccount"
        /\ status[c] # 0
        /\ err[c] = "foreign_key_violation"
        => status[c] = 409

=============================================================================
