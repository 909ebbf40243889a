------------------------------- MODULE Ledger -------------------------------
(***************************************************************************)
(* What the store promises its callers (the Store interface of             *)
(* db/sqlc/store.go): a ledger on which every operation takes effect in    *)
(* one step or not at all, whatever runs beside it.  The tables are those  *)
(* of db/migrations; the statements, transactions, locks and failures      *)
(* behind an operation are in TransferStore, which implements this.        *)
(***************************************************************************)
EXTENDS Postgres, FiniteSetsExt

CONSTANTS
    AccountId,      \* the ids the accounts sequence hands out
    Owner,          \* usernames
    Currency,       \* currency codes
    Amount,         \* amounts a caller may ask to transfer
    Call,           \* calls of the store; a call names the rows it inserts
    InitAccounts    \* the accounts table at the start

ASSUME LedgerAssumption ==
    /\ AccountId \subseteq Nat
    /\ Amount \subseteq Int
    /\ IsFiniteSet(Call)

VARIABLES
    accounts,   \* the accounts table: id |-> row
    transfers,  \* the transfers table: a set of rows
    entries     \* the entries table: a set of rows

ledgerVars == <<accounts, transfers, entries>>

Account == [owner : Owner, currency : Currency, balance : Bigint]
Transfer == [id : Call, from : AccountId, to : AccountId, amount : Amount]
Entry == [id : Call \X {"from", "to"}, account : AccountId, amount : Int]
TransferTxParams == [from : AccountId, to : AccountId, amount : Amount]

ASSUME InitAssumption ==
    /\ IsFiniteSet(DOMAIN InitAccounts)
    /\ DOMAIN InitAccounts \subseteq AccountId
    /\ InitAccounts \in [DOMAIN InitAccounts -> Account]
    /\ \A id \in DOMAIN InitAccounts : InitAccounts[id].balance = 0
    /\ \A x, y \in DOMAIN InitAccounts :
          /\ InitAccounts[x].owner = InitAccounts[y].owner
          /\ InitAccounts[x].currency = InitAccounts[y].currency
          => x = y

LedgerTypeOK ==
    /\ DOMAIN accounts \subseteq AccountId
    /\ accounts \in [DOMAIN accounts -> Account]
    /\ transfers \subseteq Transfer
    /\ entries \subseteq Entry

-----------------------------------------------------------------------------
\* The rows a transfer leaves behind (store.go: CreateTransfer, CreateEntry).
TransferRow(c, a) == [id |-> c, from |-> a.from, to |-> a.to, amount |-> a.amount]
FromEntry(c, a) == [id |-> <<c, "from">>, account |-> a.from, amount |-> -a.amount]
ToEntry(c, a) == [id |-> <<c, "to">>, account |-> a.to, amount |-> a.amount]

\* The accounts a table of transfers refers to.
Referenced(rows) == {t.from : t \in rows} \cup {t.to : t \in rows}

\* The CHECK constraints of the transfers table.
Checked(a) == a.amount > 0 /\ a.from # a.to

LedgerInit ==
    /\ accounts = InitAccounts
    /\ transfers = {}
    /\ entries = {}

\* An owner gets a new, empty account; one per currency.
Open(id, owner, currency) ==
    /\ id \notin DOMAIN accounts
    /\ \A other \in DOMAIN accounts :
          <<accounts[other].owner, accounts[other].currency>> # <<owner, currency>>
    /\ accounts' = [x \in DOMAIN accounts \cup {id} |->
                      IF x = id
                      THEN [owner |-> owner, currency |-> currency, balance |-> 0]
                      ELSE accounts[x]]
    /\ UNCHANGED <<transfers, entries>>

\* Mutant of Move: a balance may leave the range of its column.
MoveUnbounded(c, a) ==
    /\ Checked(a)
    /\ {a.from, a.to} \subseteq DOMAIN accounts
    /\ \A t \in transfers : t.id # c
    /\ accounts' = [accounts EXCEPT ![a.from].balance = @ - a.amount,
                                    ![a.to].balance = @ + a.amount]
    /\ transfers' = transfers \cup {TransferRow(c, a)}
    /\ entries' = entries \cup {FromEntry(c, a), ToEntry(c, a)}

\* An amount moves between two accounts, with its transfer row and its two
\* entries, all in one step.
Move(c, a) ==
    /\ Checked(a)
    /\ {a.from, a.to} \subseteq DOMAIN accounts
    /\ \A t \in transfers : t.id # c
    /\ accounts[a.from].balance - a.amount \in Bigint
    /\ accounts[a.to].balance + a.amount \in Bigint
    /\ accounts' = [accounts EXCEPT ![a.from].balance = @ - a.amount,
                                    ![a.to].balance = @ + a.amount]
    /\ transfers' = transfers \cup {TransferRow(c, a)}
    /\ entries' = entries \cup {FromEntry(c, a), ToEntry(c, a)}

\* Only an account without history goes away: its balance is zero, and no
\* transfer and no entry mentions it (api/error.go: ErrAccountCannotBeDeleted).
Close(id) ==
    /\ id \in DOMAIN accounts
    /\ accounts[id].balance = 0
    /\ id \notin Referenced(transfers)
    /\ \A e \in entries : e.account # id
    /\ accounts' = [x \in DOMAIN accounts \ {id} |-> accounts[x]]
    /\ UNCHANGED <<transfers, entries>>

LedgerNext ==
    \/ \E id \in AccountId, owner \in Owner, currency \in Currency :
          Open(id, owner, currency)
    \/ \E c \in Call, a \in TransferTxParams : Move(c, a)
    \/ \E id \in AccountId : Close(id)

LedgerSpec == LedgerInit /\ [][LedgerNext]_ledgerVars

-----------------------------------------------------------------------------
(***************************************************************************)
(* Properties                                                              *)
(***************************************************************************)
BalanceSum(rows, ids) == MapThenSumSet(LAMBDA id : rows[id].balance, ids)
AmountSum(rows) == MapThenSumSet(LAMBDA e : e.amount, rows)

EntriesOf(id) == {e \in entries : e.account = id}
EntrySum(id) == AmountSum(EntriesOf(id))

\* The balance of an account is the sum of its entries: no update of a
\* balance is lost, applied twice or applied without its entry (store.go,
\* TransferTx, whose three kinds of rows are written by five statements).
BalanceIsEntrySum ==
    \A id \in DOMAIN accounts : accounts[id].balance = EntrySum(id)

\* The entries are exactly the two legs of every transfer, and every account
\* a transfer mentions is still there: entries cascade away with an account
\* (ON DELETE CASCADE) while transfers hold it (ON DELETE RESTRICT), so a
\* mistake in either leaves half of a transfer behind.
DoubleEntry ==
    /\ entries = UNION {{FromEntry(t.id, t), ToEntry(t.id, t)} : t \in transfers}
    /\ Referenced(transfers) \subseteq DOMAIN accounts

\* Transfers create and destroy no money: the balances add up to what they
\* added up to at the start, which is zero.
MoneyConserved ==
    BalanceSum(accounts, DOMAIN accounts) = 0

=============================================================================
