---------------------------- MODULE TransferStore ----------------------------
(***************************************************************************)
(* The store of db/sqlc: TransferTx, CreateAccount and DeleteAccount as    *)
(* concurrent calls that send SQL statements over a pool of connections.   *)
(* A statement is one step; between two statements of a call, and between  *)
(* the request of a row lock and its grant, any other call may run.  A     *)
(* transaction keeps its rows to itself until COMMIT and its row locks     *)
(* until it ends, and a connection may fail at any point.                  *)
(*                                                                         *)
(* The committed tables are the variables of Ledger, and this              *)
(* specification implements LedgerSpec with the identity as mapping.       *)
(***************************************************************************)
EXTENDS Ledger

CONSTANTS
    FirstId,     \* next value of the accounts sequence at the start
    PoolSize,    \* connections of the pgxpool
    MaxFaults    \* bound: connections lost in a behaviour

ASSUME StoreAssumption ==
    /\ FirstId \in Nat
    /\ \A id \in DOMAIN InitAccounts : id < FirstId
    /\ PoolSize \in Nat \ {0}
    /\ MaxFaults \in Nat

VARIABLES
    nextId,   \* next value of the accounts sequence
    pc,       \* the statement a call sends next
    arg,      \* the arguments of a call
    locks,    \* the row locks of a call's transaction: <<account, lock>>
    result,   \* the rows the statements of a call returned; private to the
              \* call's transaction until it commits
    err,      \* the error a call returns, "nil" for none
    faults    \* connections lost so far

vars == <<accounts, transfers, entries, nextId, pc, arg, locks, result, err, faults>>

TransferCall == [op : {"createTransfer"}, from : AccountId, to : AccountId, amount : Amount]
CreateCall == [op : {"createAccount"}, owner : Owner, currency : Currency]
DeleteCall == [op : {"deleteAccount"}, id : AccountId, owner : Owner]
Request == TransferCall \cup CreateCall \cup DeleteCall
NoCall == [op |-> "none"]

Label == {"idle", "acquire", "createTransfer", "shareTo", "createFromEntry",
          "createToEntry", "addFirst", "addSecond", "commit", "rollback",
          "createAccount", "deleteAccount", "checkReferences", "done"}

Error == {"nil", "no_rows", "check_violation", "foreign_key_violation",
          "unique_violation", "out_of_range", "connection"}

Balances == UNION {[ids -> Bigint] : ids \in SUBSET AccountId}
TransferTxResult == [transfers : SUBSET Transfer, entries : SUBSET Entry, balances : Balances]
NoRows == [transfers |-> {}, entries |-> {}, balances |-> [id \in {} |-> 0]]

TypeOK ==
    /\ LedgerTypeOK
    /\ nextId \in Nat
    /\ pc \in [Call -> Label]
    /\ arg \in [Call -> Request \cup {NoCall}]
    /\ locks \in [Call -> SUBSET (AccountId \X RowLock)]
    /\ result \in [Call -> TransferTxResult]
    /\ err \in [Call -> Error]
    /\ faults \in 0 .. MaxFaults

Init ==
    /\ LedgerInit
    /\ nextId = FirstId
    /\ pc = [c \in Call |-> "idle"]
    /\ arg = [c \in Call |-> NoCall]
    /\ locks = [c \in Call |-> {}]
    /\ result = [c \in Call |-> NoRows]
    /\ err = [c \in Call |-> "nil"]
    /\ faults = 0

-----------------------------------------------------------------------------
(***************************************************************************)
(* Locks and connections                                                   *)
(***************************************************************************)

\* Mutant of Legs: the debit always comes first.
DebitFirst(a) ==
    << [account |-> a.from, amount |-> -a.amount], [account |-> a.to, amount |-> a.amount] >>

\* The two updates of TransferTx in the order it sends them: the account with
\* the smaller id first.
Legs(a) ==
    LET debit == [account |-> a.from, amount |-> -a.amount]
        credit == [account |-> a.to, amount |-> a.amount]
    IN IF a.from < a.to THEN <<debit, credit>> ELSE <<credit, debit>>

\* The row locks a call's next statement needs.  An INSERT into accounts
\* takes no row lock but waits for the fate of a row with its unique key, as
\* a KeyShare would.
Awaits(c) ==
    LET a == arg[c] IN
    CASE pc[c] = "createTransfer" /\ Checked(a) -> {<<a.from, "KeyShare">>}
      [] pc[c] = "shareTo" -> {<<a.to, "KeyShare">>}
      [] pc[c] = "addFirst" -> {<<Legs(a)[1].account, "NoKeyUpdate">>}
      [] pc[c] = "addSecond" -> {<<Legs(a)[2].account, "NoKeyUpdate">>}
      [] pc[c] = "deleteAccount" ->
            {<<id, "Update">> : id \in {x \in DOMAIN accounts \cap {a.id} :
                                          accounts[x].owner = a.owner}}
      [] pc[c] = "createAccount" ->
            {<<id, "KeyShare">> : id \in {x \in DOMAIN accounts :
                                            /\ accounts[x].owner = a.owner
                                            /\ accounts[x].currency = a.currency}}
      [] OTHER -> {}

\* Call c cannot go on before call d ends its transaction.
WaitsFor(c, d) ==
    /\ c # d
    /\ \E wanted \in Awaits(c), held \in locks[d] :
          held[1] = wanted[1] /\ Conflict(held[2], wanted[2])

Granted(c) == \A d \in Call : ~WaitsFor(c, d)

\* Calls that have a connection of the pool.
InUse == {c \in Call : pc[c] \notin {"idle", "acquire", "done"}}

-----------------------------------------------------------------------------
(***************************************************************************)
(* How a statement ends                                                    *)
(***************************************************************************)

\* The call returns to its caller; its transaction is over.
Return(c, e) ==
    /\ pc' = [pc EXCEPT ![c] = "done"]
    /\ err' = [err EXCEPT ![c] = e]
    /\ locks' = [locks EXCEPT ![c] = {}]

LoseConnection ==
    /\ faults < MaxFaults
    /\ faults' = faults + 1

\* A commit took effect.  The caller learns it, or loses the connection
\* before the answer and gets an error for what was done.
ReturnCommitted(c) ==
    \/ Return(c, "nil") /\ UNCHANGED faults
    \/ Return(c, "connection") /\ LoseConnection

\* The statement of call c is answered and the call goes on to label l.
Continue(c, l) ==
    /\ pc' = [pc EXCEPT ![c] = l]
    /\ UNCHANGED err

Lock(c, id, mode) == locks' = [locks EXCEPT ![c] = @ \cup {<<id, mode>>}]

\* Mutant of Fail: execTx returns the error without a ROLLBACK, and the
\* transaction stays open with its locks.
FailWithoutRollback(c, e) ==
    /\ pc' = [pc EXCEPT ![c] = "done"]
    /\ err' = [err EXCEPT ![c] = e]
    /\ UNCHANGED <<locks, result>>

\* A statement of TransferTx fails: the function execTx runs returns the
\* error, and a ROLLBACK follows.  The locks stay until then.
Fail(c, e) ==
    /\ pc' = [pc EXCEPT ![c] = "rollback"]
    /\ err' = [err EXCEPT ![c] = e]
    /\ UNCHANGED <<locks, result>>

-----------------------------------------------------------------------------
(***************************************************************************)
(* A call arrives and gets a connection                                    *)
(***************************************************************************)
Issue(c, a) ==
    /\ pc[c] = "idle"
    /\ pc' = [pc EXCEPT ![c] = "acquire"]
    /\ arg' = [arg EXCEPT ![c] = a]
    /\ UNCHANGED <<ledgerVars, nextId, locks, result, err, faults>>

\* pgxpool waits for a free connection, without a deadline; for TransferTx
\* it then sends BEGIN.
Acquire(c) ==
    /\ pc[c] = "acquire"
    /\ Cardinality(InUse) < PoolSize
    /\ pc' = [pc EXCEPT ![c] = arg[c].op]
    /\ UNCHANGED <<ledgerVars, nextId, arg, locks, result, err, faults>>

-----------------------------------------------------------------------------
(***************************************************************************)
(* TransferTx                                                              *)
(***************************************************************************)

\* INSERT INTO transfers: the CHECK constraints, then the foreign key on
\* from_account_id, which locks the row it finds.
CreateTransfer(c) ==
    LET a == arg[c] IN
    /\ pc[c] = "createTransfer"
    /\ Granted(c)
    /\ \/ /\ ~Checked(a)
          /\ Fail(c, "check_violation")
       \/ /\ Checked(a)
          /\ a.from \notin DOMAIN accounts
          /\ Fail(c, "foreign_key_violation")
       \/ /\ Checked(a)
          /\ a.from \in DOMAIN accounts
          /\ Lock(c, a.from, "KeyShare")
          /\ result' = [result EXCEPT ![c].transfers = {TransferRow(c, a)}]
          /\ Continue(c, "shareTo")
    /\ UNCHANGED <<ledgerVars, nextId, arg, faults>>

\* The same INSERT: the foreign key on to_account_id.
ShareTo(c) ==
    LET a == arg[c] IN
    /\ pc[c] = "shareTo"
    /\ Granted(c)
    /\ \/ /\ a.to \notin DOMAIN accounts
          /\ Fail(c, "foreign_key_violation")
       \/ /\ a.to \in DOMAIN accounts
          /\ Lock(c, a.to, "KeyShare")
          /\ Continue(c, "createFromEntry")
          /\ UNCHANGED result
    /\ UNCHANGED <<ledgerVars, nextId, arg, faults>>

\* Mutant of CreateFromEntry: the entry of the debit is positive.
CreateFromEntryUnsigned(c) ==
    /\ pc[c] = "createFromEntry"
    /\ result' = [result EXCEPT ![c].entries =
                    {[FromEntry(c, arg[c]) EXCEPT !.amount = arg[c].amount]}]
    /\ Continue(c, "createToEntry")
    /\ UNCHANGED <<ledgerVars, nextId, arg, locks, faults>>

\* Mutant of CreateToEntry: the closure of TransferTx uses the queries of the
\* store and not those of its transaction, so the row is committed at once.
CreateToEntryOutside(c) ==
    /\ pc[c] = "createToEntry"
    /\ result' = [result EXCEPT ![c].entries = @ \cup {ToEntry(c, arg[c])}]
    /\ entries' = entries \cup {ToEntry(c, arg[c])}
    /\ Continue(c, "addFirst")
    /\ UNCHANGED <<accounts, transfers, nextId, arg, locks, faults>>

\* INSERT INTO entries: the transaction has the lock of the foreign key.
CreateFromEntry(c) ==
    /\ pc[c] = "createFromEntry"
    /\ result' = [result EXCEPT ![c].entries = {FromEntry(c, arg[c])}]
    /\ Continue(c, "createToEntry")
    /\ UNCHANGED <<ledgerVars, nextId, arg, locks, faults>>

CreateToEntry(c) ==
    /\ pc[c] = "createToEntry"
    /\ result' = [result EXCEPT ![c].entries = @ \cup {ToEntry(c, arg[c])}]
    /\ Continue(c, "addFirst")
    /\ UNCHANGED <<ledgerVars, nextId, arg, locks, faults>>

\* Mutant of AddAccountBalance: the sum is not checked against the column.
AddAccountBalanceUnchecked(c, leg, next) ==
    /\ Granted(c)
    /\ leg.account \in DOMAIN accounts
    /\ Lock(c, leg.account, "NoKeyUpdate")
    /\ result' = [result EXCEPT ![c].balances =
                    [id \in DOMAIN @ \cup {leg.account} |->
                       IF id = leg.account
                       THEN accounts[id].balance + leg.amount
                       ELSE @[id]]]
    /\ Continue(c, next)
    /\ UNCHANGED <<ledgerVars, nextId, arg, faults>>

\* Mutant of AddAccountBalance: the balance is read without the lock of its
\* row, and the sum is written back.
AddAccountBalanceUnlocked(c, leg, next) ==
    LET sum == accounts[leg.account].balance + leg.amount IN
    /\ \/ leg.account \notin DOMAIN accounts /\ Fail(c, "no_rows")
       \/ leg.account \in DOMAIN accounts /\ sum \notin Bigint /\ Fail(c, "out_of_range")
       \/ /\ leg.account \in DOMAIN accounts
          /\ sum \in Bigint
          /\ result' = [result EXCEPT ![c].balances =
                          [id \in DOMAIN @ \cup {leg.account} |->
                             IF id = leg.account THEN sum ELSE @[id]]]
          /\ Continue(c, next)
          /\ UNCHANGED locks
    /\ UNCHANGED <<ledgerVars, nextId, arg, faults>>

\* UPDATE accounts SET balance = balance + amount: waits for the row, reads
\* its latest committed version, and fails if there is none any more or the
\* sum is no BIGINT.
AddAccountBalance(c, leg, next) ==
    /\ Granted(c)
    /\ \/ /\ leg.account \notin DOMAIN accounts
          /\ Fail(c, "no_rows")
       \/ /\ leg.account \in DOMAIN accounts
          /\ accounts[leg.account].balance + leg.amount \notin Bigint
          /\ Fail(c, "out_of_range")
       \/ /\ leg.account \in DOMAIN accounts
          /\ accounts[leg.account].balance + leg.amount \in Bigint
          /\ Lock(c, leg.account, "NoKeyUpdate")
          /\ result' = [result EXCEPT ![c].balances =
                          [id \in DOMAIN @ \cup {leg.account} |->
                             IF id = leg.account
                             THEN accounts[id].balance + leg.amount
                             ELSE @[id]]]
          /\ Continue(c, next)
    /\ UNCHANGED <<ledgerVars, nextId, arg, faults>>

AddFirst(c) == pc[c] = "addFirst" /\ AddAccountBalance(c, Legs(arg[c])[1], "addSecond")
AddSecond(c) == pc[c] = "addSecond" /\ AddAccountBalance(c, Legs(arg[c])[2], "commit")

\* COMMIT: every row of the transaction becomes visible at once.
Commit(c) ==
    LET rows == result[c] IN
    /\ pc[c] = "commit"
    /\ accounts' = [id \in DOMAIN accounts |->
                      IF id \in DOMAIN rows.balances
                      THEN [accounts[id] EXCEPT !.balance = rows.balances[id]]
                      ELSE accounts[id]]
    /\ transfers' = transfers \cup rows.transfers
    /\ entries' = entries \cup rows.entries
    /\ ReturnCommitted(c)
    /\ UNCHANGED <<nextId, arg, result>>

\* Mutant of Rollback: execTx commits on both of its branches.
RollbackCommits(c) ==
    /\ pc[c] = "rollback"
    /\ transfers' = transfers \cup result[c].transfers
    /\ entries' = entries \cup result[c].entries
    /\ Return(c, err[c])
    /\ UNCHANGED <<accounts, nextId, arg, result, faults>>

\* ROLLBACK after a failed statement; the error of the statement is returned.
Rollback(c) ==
    /\ pc[c] = "rollback"
    /\ Return(c, err[c])
    /\ UNCHANGED <<ledgerVars, nextId, arg, result, faults>>

-----------------------------------------------------------------------------
(***************************************************************************)
(* CreateAccount and DeleteAccount: one statement each, committed by itself *)
(***************************************************************************)

\* Mutant of CreateAccount: an account gets the smallest free id.
CreateAccountReusesIds(c) ==
    LET a == arg[c]
        taken == \E id \in DOMAIN accounts :
                    /\ accounts[id].owner = a.owner
                    /\ accounts[id].currency = a.currency
        free == AccountId \ DOMAIN accounts
        new == CHOOSE id \in free : \A other \in free : id <= other
    IN
    /\ pc[c] = "createAccount"
    /\ Granted(c)
    /\ \/ free = {} /\ Return(c, "out_of_range") /\ UNCHANGED <<accounts, faults>>
       \/ free # {} /\ taken /\ Return(c, "unique_violation") /\ UNCHANGED <<accounts, faults>>
       \/ /\ free # {} /\ ~taken
          /\ accounts' = [id \in DOMAIN accounts \cup {new} |->
                            IF id = new
                            THEN [owner |-> a.owner, currency |-> a.currency, balance |-> 0]
                            ELSE accounts[id]]
          /\ ReturnCommitted(c)
    /\ UNCHANGED <<transfers, entries, nextId, arg, result>>

\* INSERT INTO accounts: the id is drawn first and lost if the insert fails,
\* by the unique key (owner, currency) or because the sequence is exhausted.
CreateAccount(c) ==
    LET a == arg[c]
        taken == \E id \in DOMAIN accounts :
                    /\ accounts[id].owner = a.owner
                    /\ accounts[id].currency = a.currency
    IN
    /\ pc[c] = "createAccount"
    /\ Granted(c)
    /\ \/ /\ nextId \notin AccountId
          /\ Return(c, "out_of_range")
          /\ UNCHANGED <<accounts, nextId, faults>>
       \/ /\ nextId \in AccountId
          /\ nextId' = nextId + 1
          /\ \/ taken /\ Return(c, "unique_violation") /\ UNCHANGED <<accounts, faults>>
             \/ /\ ~taken
                /\ accounts' = [id \in DOMAIN accounts \cup {nextId} |->
                                  IF id = nextId
                                  THEN [owner |-> a.owner, currency |-> a.currency, balance |-> 0]
                                  ELSE accounts[id]]
                /\ ReturnCommitted(c)
    /\ UNCHANGED <<transfers, entries, arg, result>>

\* DELETE FROM accounts WHERE id = $1 AND owner = $2: waits for the row, or
\* finds none.
DeleteAccount(c) ==
    LET a == arg[c]
        found == a.id \in DOMAIN accounts /\ accounts[a.id].owner = a.owner
    IN
    /\ pc[c] = "deleteAccount"
    /\ Granted(c)
    /\ \/ ~found /\ Return(c, "no_rows")
       \/ found /\ Lock(c, a.id, "Update") /\ Continue(c, "checkReferences")
    /\ UNCHANGED <<ledgerVars, nextId, arg, result, faults>>

\* The end of the DELETE: refused while a transfer refers to the account (ON
\* DELETE RESTRICT); otherwise its entries go with it (ON DELETE CASCADE).
CheckReferences(c) ==
    LET id == arg[c].id IN
    /\ pc[c] = "checkReferences"
    /\ \/ /\ id \in Referenced(transfers)
          /\ Return(c, "foreign_key_violation")
          /\ UNCHANGED <<accounts, entries, faults>>
       \/ /\ id \notin Referenced(transfers)
          /\ accounts' = [x \in DOMAIN accounts \ {id} |-> accounts[x]]
          /\ entries' = {e \in entries : e.account # id}
          /\ ReturnCommitted(c)
    /\ UNCHANGED <<transfers, nextId, arg, result>>

-----------------------------------------------------------------------------
\* Mutant of ConnectionLost: execTx drops the error of COMMIT.
ConnectionLostSilently(c) ==
    /\ pc[c] \notin {"idle", "done"}
    /\ LoseConnection
    /\ Return(c, err[c])
    /\ UNCHANGED <<ledgerVars, nextId, arg, result>>

\* A call loses its connection, or finds the server gone when it asks for
\* one: the server rolls its transaction back and the call returns the error.
ConnectionLost(c) ==
    /\ pc[c] \notin {"idle", "done"}
    /\ LoseConnection
    /\ Return(c, "connection")
    /\ UNCHANGED <<ledgerVars, nextId, arg, result>>

\* What a call does by itself.
Progress(c) ==
    \/ Acquire(c)
    \/ CreateTransfer(c) \/ ShareTo(c) \/ CreateFromEntry(c) \/ CreateToEntry(c)
    \/ AddFirst(c) \/ AddSecond(c) \/ Commit(c) \/ Rollback(c)
    \/ CreateAccount(c)
    \/ DeleteAccount(c) \/ CheckReferences(c)

\* Every call has returned.
Quiet == (\A c \in Call : pc[c] = "done") /\ UNCHANGED vars

Next ==
    \/ \E c \in Call, a \in Request : Issue(c, a)
    \/ \E c \in Call : Progress(c) \/ ConnectionLost(c)
    \/ Quiet

Spec == Init /\ [][Next]_vars

\* PostgreSQL and the pool answer a statement that waits for nothing, and the
\* goroutine of a call sends the next one; calls need not arrive and
\* connections need not fail.
FairSpec == Spec /\ \A c \in Call : WF_vars(Progress(c))

-----------------------------------------------------------------------------
(***************************************************************************)
(* The inductive invariant: what a call has done at each of its statements *)
(***************************************************************************)

\* Statements of TransferTx, those after its first, and those after the
\* first whose transaction may still commit.
InTransfer(c) == pc[c] \in {"createTransfer", "shareTo", "createFromEntry", "createToEntry",
                            "addFirst", "addSecond", "commit", "rollback"}
Writing(c) == InTransfer(c) /\ pc[c] \notin {"createTransfer", "rollback"}

\* A call sends the statements of its own operation, and rolls back for the
\* error of one of them.
ArgInv ==
    \A c \in Call :
        /\ InTransfer(c) => arg[c] \in TransferCall
        /\ Writing(c) => Checked(arg[c])
        /\ pc[c] = "createAccount" => arg[c] \in CreateCall
        /\ pc[c] \in {"deleteAccount", "checkReferences"} => arg[c] \in DeleteCall
        /\ pc[c] \in {"acquire", "done"} => arg[c] \in Request
        /\ pc[c] = "idle" => arg[c] = NoCall
        /\ pc[c] = "rollback" => err[c] \notin {"nil", "connection"}

\* Two transactions never hold row locks that exclude each other.
LocksExclude ==
    \A c, d \in Call : c # d =>
        \A x \in locks[c], y \in locks[d] : x[1] = y[1] => ~Conflict(x[2], y[2])

\* The locks of a call follow from the statements it has sent; a transaction
\* to be rolled back has those of some prefix.
Shared(c) == {<<arg[c].from, "KeyShare">>, <<arg[c].to, "KeyShare">>}
Updated(c, n) == {<<Legs(arg[c])[i].account, "NoKeyUpdate">> : i \in 1 .. n}

HeldInv ==
    \A c \in Call :
        /\ pc[c] = "shareTo" => locks[c] = {<<arg[c].from, "KeyShare">>}
        /\ pc[c] \in {"createFromEntry", "createToEntry", "addFirst"} => locks[c] = Shared(c)
        /\ pc[c] = "addSecond" => locks[c] = Shared(c) \cup Updated(c, 1)
        /\ pc[c] = "commit" => locks[c] = Shared(c) \cup Updated(c, 2)
        /\ pc[c] = "checkReferences" => locks[c] = {<<arg[c].id, "Update">>}
        /\ pc[c] \in {"idle", "acquire", "done", "createTransfer",
                      "createAccount", "deleteAccount"} => locks[c] = {}

\* A locked row is there: nobody deletes it.
LockedInv == \A c \in Call : \A l \in locks[c] : l[1] \in DOMAIN accounts

\* What a transaction has written so far, in terms of the committed rows it
\* will replace: they have not changed since it locked them.
After(leg) == accounts[leg.account].balance + leg.amount

WrittenInv ==
    \A c \in Call :
        LET a == arg[c]
            rows == result[c]
        IN
        /\ pc[c] \in {"idle", "acquire", "createTransfer"} => rows = NoRows
        /\ Writing(c) => rows.transfers = {TransferRow(c, a)}
        /\ pc[c] = "createToEntry" => rows.entries = {FromEntry(c, a)}
        /\ pc[c] \in {"addFirst", "addSecond", "commit"} =>
              rows.entries = {FromEntry(c, a), ToEntry(c, a)}
        /\ Writing(c) /\ pc[c] \notin {"addSecond", "commit"} => DOMAIN rows.balances = {}
        /\ pc[c] = "addSecond" => DOMAIN rows.balances = {Legs(a)[1].account}
        /\ pc[c] = "commit" => DOMAIN rows.balances = {a.from, a.to}
        /\ pc[c] \in {"addSecond", "commit"} =>
              rows.balances[Legs(a)[1].account] = After(Legs(a)[1])
        /\ pc[c] = "commit" => rows.balances[Legs(a)[2].account] = After(Legs(a)[2])

\* The committed rows: ids are fresh, the rows of a call are those of its
\* request and come with its return, and an account without a transfer is
\* empty.
CommittedInv ==
    /\ \A id \in DOMAIN accounts : id < nextId
    /\ \A t \in transfers :
          /\ pc[t.id] = "done"
          /\ err[t.id] \in {"nil", "connection"}
    /\ \A e \in entries : \E t \in transfers : e \in {FromEntry(t.id, t), ToEntry(t.id, t)}
    /\ \A id \in DOMAIN accounts \ Referenced(transfers) : accounts[id].balance = 0

StoreInv ==
    /\ TypeOK
    /\ ArgInv
    /\ LocksExclude
    /\ HeldInv
    /\ LockedInv
    /\ WrittenInv
    /\ CommittedInv

-----------------------------------------------------------------------------
(***************************************************************************)
(* Properties                                                              *)
(***************************************************************************)

\* No set of calls waits in a circle for row locks: in every set of calls one
\* waits for none of the others (store.go:84-85 and 116-143, the order of the
\* two updates of TransferTx, against each other and against DELETE).
NoDeadlock ==
    \A S \in SUBSET Call : S # {} =>
        \E c \in S : \A d \in S : ~WaitsFor(c, d)

\* A transfer whose caller was told "nil" is there, and stays: its row and
\* both entries, through every later transfer, deletion and failure.
AckedIsRecorded ==
    \A c \in Call :
        pc[c] = "done" /\ err[c] = "nil" /\ arg[c].op = "createTransfer" =>
            /\ TransferRow(c, arg[c]) \in transfers
            /\ {FromEntry(c, arg[c]), ToEntry(c, arg[c])} \subseteq entries

\* An error that came from a statement leaves no row of its call behind; only
\* a lost connection leaves the caller in doubt (execTx rolls back).
FailedLeavesNothing ==
    \A c \in Call : err[c] \notin {"nil", "connection"} =>
        /\ \A t \in transfers : t.id # c
        /\ \A e \in entries : e.id[1] # c

\* Every call returns, whatever the others do and wherever connections fail.
EveryCallReturns == \A c \in Call : pc[c] = "acquire" ~> pc[c] = "done"

=============================================================================
