------------------------------- MODULE Schema -------------------------------
(***************************************************************************)
(* The whole Store interface (db/sqlc/querier.go) over the five tables of  *)
(* db/migrations, with the operations no handler calls: the tests use them *)
(* and any new handler may.  Each is one statement, hence one step; one    *)
(* that violates a constraint changes nothing.                             *)
(*                                                                         *)
(* TransferTx, the accounts opened empty, and the deletions of accounts    *)
(* and users keep the ledger of module Ledger; the single statements that  *)
(* write one side of a transfer do not, and "raw" tells that one of them   *)
(* ran.                                                                    *)
(***************************************************************************)
EXTENDS Ledger

CONSTANTS
    Balance         \* bound: amounts and balances that single statements write

ASSUME SchemaAssumption == Balance \subseteq Bigint

VARIABLES
    users,      \* the users table: its usernames
    sessions,   \* the sessions table: session |-> username
    raw         \* whether a statement wrote one side of a transfer only

schemaVars == <<ledgerVars, users, sessions, raw>>

SchemaTypeOK ==
    /\ LedgerTypeOK
    /\ users \subseteq Owner
    /\ DOMAIN sessions \subseteq Call
    /\ sessions \in [DOMAIN sessions -> Owner]
    /\ raw \in BOOLEAN

SchemaInit ==
    /\ LedgerInit
    /\ users = {InitAccounts[id].owner : id \in DOMAIN InitAccounts}
    /\ sessions = [s \in {} |-> ""]
    /\ raw = FALSE

\* Ids come from sequences: a call that has left rows does not insert again.
Fresh(c) ==
    /\ \A t \in transfers : t.id # c
    /\ \A e \in entries : e.id[1] # c
    /\ c \notin DOMAIN sessions

SetBalance(id, balance) ==
    /\ id \in DOMAIN accounts
    /\ balance \in Bigint
    /\ accounts' = [accounts EXCEPT ![id].balance = balance]

-----------------------------------------------------------------------------
CreateUser(u) ==
    /\ u \notin users
    /\ users' = users \cup {u}
    /\ UNCHANGED <<ledgerVars, sessions, raw>>

\* Mutant of CreateSession: the column has no REFERENCES.
CreateSessionOfAnybody(c, u) ==
    /\ Fresh(c)
    /\ sessions' = [s \in DOMAIN sessions \cup {c} |-> IF s = c THEN u ELSE sessions[s]]
    /\ UNCHANGED <<ledgerVars, users, raw>>

CreateSession(c, u) ==
    /\ Fresh(c)
    /\ u \in users
    /\ sessions' = [s \in DOMAIN sessions \cup {c} |-> IF s = c THEN u ELSE sessions[s]]
    /\ UNCHANGED <<ledgerVars, users, raw>>

CreateAccount(id, owner, currency, balance) ==
    /\ id \notin DOMAIN accounts
    /\ owner \in users
    /\ \A other \in DOMAIN accounts :
          <<accounts[other].owner, accounts[other].currency>> # <<owner, currency>>
    /\ accounts' = [x \in DOMAIN accounts \cup {id} |->
                      IF x = id
                      THEN [owner |-> owner, currency |-> currency, balance |-> balance]
                      ELSE accounts[x]]
    /\ raw' = (raw \/ balance # 0)
    /\ UNCHANGED <<transfers, entries, users, sessions>>

\* Mutant of DropAccounts: transfers cascade, as entries do.
DropAccountsWithTransfers(gone) ==
    /\ accounts' = [id \in DOMAIN accounts \ gone |-> accounts[id]]
    /\ entries' = {e \in entries : e.account \notin gone}
    /\ transfers' = {t \in transfers : {t.from, t.to} \cap gone = {}}

\* Accounts go away with their entries, and only if no transfer mentions one.
DropAccounts(gone) ==
    /\ gone \cap Referenced(transfers) = {}
    /\ accounts' = [id \in DOMAIN accounts \ gone |-> accounts[id]]
    /\ entries' = {e \in entries : e.account \notin gone}
    /\ UNCHANGED transfers

DeleteAccount(id, owner) ==
    /\ id \in DOMAIN accounts
    /\ accounts[id].owner = owner
    /\ DropAccounts({id})
    /\ UNCHANGED <<users, sessions, raw>>

\* A user goes away with sessions and accounts, or not at all.
DeleteUser(u) ==
    /\ u \in users
    /\ users' = users \ {u}
    /\ DropAccounts({id \in DOMAIN accounts : accounts[id].owner = u})
    /\ sessions' = [s \in {x \in DOMAIN sessions : sessions[x] # u} |-> sessions[s]]
    /\ UNCHANGED raw

TransferTx(c, a) ==
    /\ Fresh(c)
    /\ Move(c, a)
    /\ UNCHANGED <<users, sessions, raw>>

-----------------------------------------------------------------------------
\* The single statements: each writes what TransferTx writes together.
Raw == raw' = TRUE /\ UNCHANGED <<users, sessions>>

CreateTransfer(c, a) ==
    /\ Fresh(c)
    /\ Checked(a)
    /\ {a.from, a.to} \subseteq DOMAIN accounts
    /\ transfers' = transfers \cup {TransferRow(c, a)}
    /\ UNCHANGED <<accounts, entries>>
    /\ Raw

DeleteTransfer(t) ==
    /\ transfers' = transfers \ {t}
    /\ UNCHANGED <<accounts, entries>>
    /\ Raw

CreateEntry(c, id, amount) ==
    /\ Fresh(c)
    /\ id \in DOMAIN accounts
    /\ entries' = entries \cup {[id |-> <<c, "to">>, account |-> id, amount |-> amount]}
    /\ UNCHANGED <<accounts, transfers>>
    /\ Raw

AddAccountBalance(id, amount) ==
    /\ id \in DOMAIN accounts
    /\ SetBalance(id, accounts[id].balance + amount)
    /\ UNCHANGED <<transfers, entries>>
    /\ Raw

UpdateAccount(id, balance) ==
    /\ SetBalance(id, balance)
    /\ UNCHANGED <<transfers, entries>>
    /\ Raw

SchemaNext ==
    \/ \E u \in Owner : CreateUser(u) \/ DeleteUser(u)
    \/ \E c \in Call, u \in Owner : CreateSession(c, u)
    \/ \E id \in AccountId, u \in Owner, cur \in Currency, b \in Balance : CreateAccount(id, u, cur, b)
    \/ \E id \in AccountId, u \in Owner : DeleteAccount(id, u)
    \/ \E c \in Call, a \in TransferTxParams : TransferTx(c, a) \/ CreateTransfer(c, a)
    \/ \E t \in transfers : DeleteTransfer(t)
    \/ \E c \in Call, id \in AccountId, b \in Balance : CreateEntry(c, id, b)
    \/ \E id \in AccountId, b \in Balance : AddAccountBalance(id, b) \/ UpdateAccount(id, b)

SchemaSpec == SchemaInit /\ [][SchemaNext]_schemaVars

-----------------------------------------------------------------------------
(***************************************************************************)
(* Properties                                                              *)
(***************************************************************************)

\* The operations of the Store that are not single statements of a transfer
\* keep the ledger, the deletion of a user with everything that is the
\* user's included: a cascade never takes one leg of a transfer and leaves
\* the other (the two ON DELETE clauses of 000001, the one of 000002).
LedgerKept == ~raw => DoubleEntry /\ BalanceIsEntrySum /\ MoneyConserved

\* Whatever the order of the operations, no row is left that names a user or
\* an account that is gone: a deleted user has no session to refresh with and
\* no account, and a new user of that name inherits none.
NothingDangles ==
    /\ \A id \in DOMAIN accounts : accounts[id].owner \in users
    /\ \A s \in DOMAIN sessions : sessions[s] \in users
    /\ Referenced(transfers) \cup {e.account : e \in entries} \subseteq DOMAIN accounts

=============================================================================
