---------------------------- MODULE SchemaProofs ----------------------------
(***************************************************************************)
(* The foreign keys of db/migrations keep every row's user and accounts    *)
(* there, and the cascades keep the books double and their sums right, for *)
(* any users, accounts and calls and any order of the operations of the    *)
(* Store interface.                                                        *)
(***************************************************************************)
EXTENDS Schema, LedgerProofs

\* The accounts that the transfers and the entries name.
Named == Referenced(transfers) \cup {e.account : e \in entries}

\* A transfer's row and legs name the accounts it is between.
LEMMA MoveNames ==
    ASSUME LedgerTypeOK, NEW c, NEW a, Move(c, a)
    PROVE  /\ Named' \subseteq Named \cup {a.from, a.to}
           /\ DOMAIN accounts' = DOMAIN accounts
           /\ \A id \in DOMAIN accounts : accounts'[id].owner = accounts[id].owner
<1> DEFINE row == TransferRow(c, a)
           out == FromEntry(c, a)
           in == ToEntry(c, a)
<1>1. row.from = a.from /\ row.to = a.to /\ out.account = a.from /\ in.account = a.to
  BY DEF TransferRow, FromEntry, ToEntry
<1>2. transfers' = transfers \cup {row} /\ entries' = entries \cup {out, in}
  BY DEF Move
<1>3. Named' \subseteq Named \cup {a.from, a.to}
  <2> HIDE DEF row, out, in
  <2> QED
    BY <1>1, <1>2 DEF Named, Referenced
<1>4. DOMAIN accounts' = DOMAIN accounts
  BY DEF Move
<1>5. \A id \in DOMAIN accounts : accounts'[id].owner = accounts[id].owner
  BY DEF Move, LedgerTypeOK, Account
<1> QED
  BY <1>3, <1>4, <1>5

\* A single statement that sets a balance leaves the owner as it was.
LEMMA SetBalanceKeepsOwner ==
    ASSUME LedgerTypeOK, NEW id, NEW balance, SetBalance(id, balance)
    PROVE  /\ DOMAIN accounts' = DOMAIN accounts
           /\ \A x \in DOMAIN accounts : accounts'[x].owner = accounts[x].owner
           /\ \A x \in DOMAIN accounts : accounts'[x] \in Account
           /\ accounts' \in [DOMAIN accounts' -> Account]
BY DEF SetBalance, LedgerTypeOK, Account

\* What DropAccounts leaves names none of the accounts it removed.
LEMMA DropNames ==
    ASSUME NEW gone, DropAccounts(gone), Named \subseteq DOMAIN accounts
    PROVE  /\ Named' \subseteq DOMAIN accounts'
           /\ DOMAIN accounts' = DOMAIN accounts \ gone
           /\ \A x \in DOMAIN accounts' : accounts'[x].owner = accounts[x].owner
<1>1. DOMAIN accounts' = DOMAIN accounts \ gone
  BY DEF DropAccounts
<1>2. \A x \in DOMAIN accounts' : accounts'[x].owner = accounts[x].owner
  BY DEF DropAccounts
<1>3. Named' \subseteq Named \ gone
  BY DEF DropAccounts, Named, Referenced
<1> QED
  BY <1>1, <1>2, <1>3

-----------------------------------------------------------------------------
\* Every operation of the store leaves rows of their tables' types.
LEMMA SchemaTypeStep == SchemaTypeOK /\ [SchemaNext]_schemaVars => SchemaTypeOK'
<1> SUFFICES ASSUME SchemaTypeOK, [SchemaNext]_schemaVars PROVE SchemaTypeOK'
  OBVIOUS
<1> USE DEF SchemaTypeOK
<1>1. ASSUME NEW u \in Owner, CreateUser(u) PROVE SchemaTypeOK'
  BY <1>1 DEF CreateUser, ledgerVars, LedgerTypeOK
<1>2. ASSUME NEW gone, DropAccounts(gone) PROVE LedgerTypeOK'
  BY <1>2 DEF DropAccounts, LedgerTypeOK
<1>3. ASSUME NEW u \in Owner, DeleteUser(u) PROVE SchemaTypeOK'
  <2>1. LedgerTypeOK'
    BY <1>2, <1>3 DEF DeleteUser
  <2> QED
    BY <1>3, <2>1 DEF DeleteUser
<1>4. ASSUME NEW c \in Call, NEW u \in Owner, CreateSession(c, u) PROVE SchemaTypeOK'
  BY <1>4 DEF CreateSession, ledgerVars, LedgerTypeOK
<1>5. ASSUME NEW id \in AccountId, NEW u \in Owner, NEW cur \in Currency, NEW b \in Balance,
             CreateAccount(id, u, cur, b)
      PROVE  SchemaTypeOK'
  <2>1. [owner |-> u, currency |-> cur, balance |-> b] \in Account
    BY SchemaAssumption DEF Account
  <2> QED
    BY <1>5, <2>1, SchemaAssumption, BigintAssumption DEF CreateAccount, LedgerTypeOK, Bigint
<1>6. ASSUME NEW id \in AccountId, NEW u \in Owner, DeleteAccount(id, u) PROVE SchemaTypeOK'
  BY <1>2, <1>6 DEF DeleteAccount
<1>7. ASSUME NEW c \in Call, NEW a \in TransferTxParams
      PROVE  /\ TransferRow(c, a) \in Transfer
             /\ FromEntry(c, a) \in Entry
             /\ ToEntry(c, a) \in Entry
  BY LedgerAssumption DEF TransferRow, FromEntry, ToEntry, Transfer, Entry, TransferTxParams
<1>8. ASSUME NEW c \in Call, NEW a \in TransferTxParams, TransferTx(c, a) PROVE SchemaTypeOK'
  <2>1. Move(c, a) /\ UNCHANGED <<users, sessions, raw>>
    BY <1>8 DEF TransferTx
  <2>2. accounts' \in [DOMAIN accounts' -> Account] /\ DOMAIN accounts' = DOMAIN accounts
    BY <2>1 DEF Move, LedgerTypeOK, Account
  <2> QED
    BY <1>7, <2>1, <2>2 DEF Move, LedgerTypeOK
<1>9. ASSUME NEW c \in Call, NEW a \in TransferTxParams, CreateTransfer(c, a) PROVE SchemaTypeOK'
  BY <1>7, <1>9 DEF CreateTransfer, Raw, LedgerTypeOK
<1>10. ASSUME NEW t \in transfers, DeleteTransfer(t) PROVE SchemaTypeOK'
  BY <1>10 DEF DeleteTransfer, Raw, LedgerTypeOK
<1>11. ASSUME NEW c \in Call, NEW id \in AccountId, NEW b \in Balance, CreateEntry(c, id, b)
       PROVE  SchemaTypeOK'
  <2>1. [id |-> <<c, "to">>, account |-> id, amount |-> b] \in Entry
    BY SchemaAssumption, BigintAssumption DEF Entry, Bigint
  <2> QED
    BY <1>11, <2>1 DEF CreateEntry, Raw, LedgerTypeOK
<1>12. ASSUME NEW id \in AccountId, NEW b \in Balance, AddAccountBalance(id, b) \/ UpdateAccount(id, b)
       PROVE  SchemaTypeOK'
  <2>1. PICK balance : SetBalance(id, balance)
    BY <1>12 DEF AddAccountBalance, UpdateAccount
  <2>2. UNCHANGED <<transfers, entries, users, sessions>> /\ raw' = TRUE
    BY <1>12 DEF AddAccountBalance, UpdateAccount, Raw
  <2> QED
    BY <2>1, <2>2, SetBalanceKeepsOwner DEF LedgerTypeOK
<1>13. CASE UNCHANGED schemaVars
  BY <1>13 DEF schemaVars, ledgerVars, LedgerTypeOK
<1> QED
  BY <1>1, <1>3, <1>4, <1>5, <1>6, <1>8, <1>9, <1>10, <1>11, <1>12, <1>13 DEF SchemaNext

\* Rows stay in their tables' types: no balance leaves the BIGINT of its
\* column, whichever operations of the Store interface run.
THEOREM SchemaTypeCorrect == SchemaSpec => []SchemaTypeOK
<1>1. SchemaInit => SchemaTypeOK
  <2> SUFFICES ASSUME SchemaInit PROVE SchemaTypeOK
    OBVIOUS
  <2>1. LedgerTypeOK
    BY InitAssumption DEF SchemaInit, LedgerInit, LedgerTypeOK
  <2>2. users \subseteq Owner
    BY InitAssumption DEF SchemaInit, Account
  <2>3. DOMAIN sessions = {} /\ sessions \in [{} -> Owner]
    BY DEF SchemaInit
  <2> QED
    BY <2>1, <2>2, <2>3 DEF SchemaInit, SchemaTypeOK
<1> QED
  BY <1>1, SchemaTypeStep, PTL DEF SchemaSpec

-----------------------------------------------------------------------------
\* No operation of the store leaves a row behind that names a user or an
\* account that is gone.
LEMMA NothingDanglesStep ==
    SchemaTypeOK /\ NothingDangles /\ [SchemaNext]_schemaVars => NothingDangles'
<1> SUFFICES ASSUME LedgerTypeOK, NothingDangles, [SchemaNext]_schemaVars PROVE NothingDangles'
  BY DEF SchemaTypeOK
<1>a. /\ \A id \in DOMAIN accounts : accounts[id].owner \in users
      /\ \A s \in DOMAIN sessions : sessions[s] \in users
      /\ Named \subseteq DOMAIN accounts
  BY DEF NothingDangles, Named
<1>b. /\ \A id \in DOMAIN accounts' : accounts'[id].owner \in users'
      /\ \A s \in DOMAIN sessions' : sessions'[s] \in users'
      /\ Named' \subseteq DOMAIN accounts'
      => NothingDangles'
  BY DEF NothingDangles, Named
<1>1. ASSUME NEW u \in Owner, CreateUser(u) PROVE NothingDangles'
  BY <1>a, <1>1, <1>b DEF CreateUser, ledgerVars, Named
<1>2. ASSUME NEW u \in Owner, DeleteUser(u) PROVE NothingDangles'
  <2> DEFINE gone == {id \in DOMAIN accounts : accounts[id].owner = u}
  <2>1. DropAccounts(gone) /\ users' = users \ {u}
    BY <1>2 DEF DeleteUser
  <2>2. \A s \in DOMAIN sessions' : sessions'[s] \in users'
    BY <1>a, <1>2 DEF DeleteUser
  <2>3. \A id \in DOMAIN accounts \ gone : accounts[id].owner \in users'
    BY <1>a, <2>1
  <2> HIDE DEF gone
  <2> QED
    BY <1>a, <1>b, <2>1, <2>2, <2>3, DropNames
<1>3. ASSUME NEW c \in Call, NEW u \in Owner, CreateSession(c, u) PROVE NothingDangles'
  BY <1>a, <1>b, <1>3 DEF CreateSession, ledgerVars, Named
<1>4. ASSUME NEW id \in AccountId, NEW u \in Owner, NEW cur \in Currency, NEW b \in Balance,
             CreateAccount(id, u, cur, b)
      PROVE  NothingDangles'
  <2>1. DOMAIN accounts' = DOMAIN accounts \cup {id}
    BY <1>4 DEF CreateAccount
  <2>2. \A x \in DOMAIN accounts' : accounts'[x].owner \in users
    BY <1>a, <1>4 DEF CreateAccount
  <2> QED
    BY <1>a, <1>b, <1>4, <2>1, <2>2 DEF CreateAccount, Named
<1>5. ASSUME NEW id \in AccountId, NEW u \in Owner, DeleteAccount(id, u) PROVE NothingDangles'
  BY <1>a, <1>b, <1>5, DropNames DEF DeleteAccount
<1>6. ASSUME NEW c \in Call, NEW a \in TransferTxParams, TransferTx(c, a) PROVE NothingDangles'
  <2>1. Move(c, a) /\ {a.from, a.to} \subseteq DOMAIN accounts
    BY <1>6 DEF TransferTx, Move
  <2>2. UNCHANGED <<users, sessions>>
    BY <1>6 DEF TransferTx
  <2> QED
    BY <1>a, <1>b, <2>1, <2>2, MoveNames
<1>7. ASSUME NEW c \in Call, NEW a \in TransferTxParams, CreateTransfer(c, a) PROVE NothingDangles'
  <2> DEFINE row == TransferRow(c, a)
  <2>1. row.from = a.from /\ row.to = a.to
    BY DEF TransferRow
  <2>2. transfers' = transfers \cup {row} /\ {a.from, a.to} \subseteq DOMAIN accounts
    BY <1>7 DEF CreateTransfer
  <2>3. UNCHANGED <<accounts, entries, users, sessions>>
    BY <1>7 DEF CreateTransfer, Raw
  <2> HIDE DEF row
  <2> QED
    BY <1>a, <1>b, <2>1, <2>2, <2>3 DEF Named, Referenced
<1>8. ASSUME NEW t \in transfers, DeleteTransfer(t) PROVE NothingDangles'
  BY <1>a, <1>b, <1>8 DEF DeleteTransfer, Raw, Named, Referenced
<1>9. ASSUME NEW c \in Call, NEW id \in AccountId, NEW b \in Balance, CreateEntry(c, id, b)
      PROVE  NothingDangles'
  <2> DEFINE entry == [id |-> <<c, "to">>, account |-> id, amount |-> b]
  <2>1. entry.account = id
    OBVIOUS
  <2>2. entries' = entries \cup {entry} /\ id \in DOMAIN accounts
    BY <1>9 DEF CreateEntry
  <2>3. UNCHANGED <<accounts, transfers, users, sessions>>
    BY <1>9 DEF CreateEntry, Raw
  <2> HIDE DEF entry
  <2> QED
    BY <1>a, <1>b, <2>1, <2>2, <2>3 DEF Named, Referenced
<1>10. ASSUME NEW id \in AccountId, NEW b \in Balance, AddAccountBalance(id, b) \/ UpdateAccount(id, b)
       PROVE  NothingDangles'
  <2>1. PICK balance : SetBalance(id, balance)
    BY <1>10 DEF AddAccountBalance, UpdateAccount
  <2>2. UNCHANGED <<transfers, entries, users, sessions>>
    BY <1>10 DEF AddAccountBalance, UpdateAccount, Raw
  <2> QED
    BY <1>a, <1>b, <2>1, <2>2, SetBalanceKeepsOwner DEF Named
<1>11. CASE UNCHANGED schemaVars
  BY <1>a, <1>b, <1>11 DEF schemaVars, ledgerVars, Named
<1> QED
  BY <1>1, <1>2, <1>3, <1>4, <1>5, <1>6, <1>7, <1>8, <1>9, <1>10, <1>11 DEF SchemaNext

\* Whatever order the operations of the Store interface come in, every
\* session and account belongs to a user that exists, and every transfer and
\* entry to accounts that exist (the foreign keys of db/migrations).
THEOREM NothingEverDangles == SchemaSpec => []NothingDangles
<1>1. SchemaInit => NothingDangles
  BY InitAssumption DEF SchemaInit, LedgerInit, NothingDangles, Referenced
<1> QED
  BY <1>1, SchemaTypeCorrect, NothingDanglesStep, PTL DEF SchemaSpec

-----------------------------------------------------------------------------
\* Where the entries are the legs of the transfers, accounts that may go
\* away have none: the cascade to the entries removes nothing.
LEMMA DropKeepsEntries ==
    ASSUME NEW gone, DropAccounts(gone), DoubleEntry
    PROVE  DoubleEntry' /\ entries' = entries /\ \A e \in entries : e.account \notin gone
<1>1. entries = LegsOf(transfers) /\ Referenced(transfers) \subseteq DOMAIN accounts
  BY DEF DoubleEntry, LegsOf
<1>2. \A e \in LegsOf(transfers) : e.account \in Referenced(transfers)
  <2> SUFFICES ASSUME NEW t \in transfers
               PROVE  /\ FromEntry(t.id, t).account \in Referenced(transfers)
                      /\ ToEntry(t.id, t).account \in Referenced(transfers)
    BY DEF LegsOf
  <2> QED
    BY DEF FromEntry, ToEntry, Referenced
<1>3. \A e \in entries : e.account \notin gone
  BY <1>1, <1>2 DEF DropAccounts
<1>4. entries' = entries /\ transfers' = transfers
  BY <1>3 DEF DropAccounts
<1>5. Referenced(transfers) \subseteq DOMAIN accounts'
  BY <1>1 DEF DropAccounts
<1> QED
  BY <1>1, <1>3, <1>4, <1>5 DEF DoubleEntry, LegsOf

\* The ledger of module Ledger, with its sums.
Books == DoubleEntry /\ BalanceIsEntrySum /\ MoneyConserved

\* Accounts that go away were empty: their balance is the sum of no entries.
LEMMA DropKeepsBooks ==
    ASSUME LedgerTypeOK, Finite, NEW gone, DropAccounts(gone), Books
    PROVE  Books'
<1>1. DoubleEntry' /\ entries' = entries /\ \A e \in entries : e.account \notin gone
  BY DropKeepsEntries DEF Books
<1>2. /\ DOMAIN accounts' = DOMAIN accounts \ gone
      /\ \A id \in DOMAIN accounts' : accounts'[id] = accounts[id]
  BY DEF DropAccounts
<1>3. \A id \in DOMAIN accounts :
         accounts[id].balance \in Int /\ accounts[id].balance = AmountSum(EntriesOf(id))
  BY BigintAssumption DEF LedgerTypeOK, Account, Bigint, Books, BalanceIsEntrySum, EntrySum
<1>4. \A id : EntriesOf(id)' = EntriesOf(id)
  BY <1>1 DEF EntriesOf
<1>5. BalanceIsEntrySum'
  BY <1>2, <1>3, <1>4 DEF BalanceIsEntrySum, EntrySum
<1>6. AmountSum({}) = 0
  BY AmountSumIs, SumOverEmpty, FS_EmptySet
<1>7. ASSUME NEW id \in DOMAIN accounts \ DOMAIN accounts' PROVE accounts[id].balance = 0
  <2>1. EntriesOf(id) = {}
    BY <1>1, <1>2, <1>7 DEF EntriesOf
  <2> QED
    BY <1>3, <1>6, <1>7, <2>1
<1>8. BalanceSum(accounts', DOMAIN accounts') = BalanceSum(accounts, DOMAIN accounts)
  BY <1>2, <1>3, <1>7, BalanceSumZeros DEF Finite
<1> QED
  BY <1>1, <1>5, <1>8 DEF Books, MoneyConserved

\* Every operation of the store leaves finite tables.
LEMMA SchemaFiniteStep == Finite /\ [SchemaNext]_schemaVars => Finite'
<1> SUFFICES ASSUME Finite, [SchemaNext]_schemaVars PROVE Finite'
  OBVIOUS
<1>1. ASSUME NEW S, NEW T, IsFiniteSet(S), IsFiniteSet(T),
             DOMAIN accounts' \subseteq S, entries' \subseteq T
      PROVE  Finite'
  BY <1>1, FS_Subset DEF Finite
<1>2. CASE DOMAIN accounts' \subseteq DOMAIN accounts /\ entries' \subseteq entries
  BY <1>1, <1>2 DEF Finite
<1>3. ASSUME NEW id, DOMAIN accounts' = DOMAIN accounts \cup {id}, entries' = entries PROVE Finite'
  BY <1>1, <1>3, FS_AddElement DEF Finite
<1>4. ASSUME NEW e, accounts' = accounts, entries' = entries \cup {e} PROVE Finite'
  BY <1>1, <1>4, FS_AddElement DEF Finite
<1>5. ASSUME NEW u \in Owner, CreateUser(u) \/ DeleteUser(u) PROVE Finite'
  BY <1>2, <1>5 DEF CreateUser, DeleteUser, DropAccounts, ledgerVars
<1>6. ASSUME NEW c \in Call, NEW u \in Owner, CreateSession(c, u) PROVE Finite'
  BY <1>2, <1>6 DEF CreateSession, ledgerVars
<1>7. ASSUME NEW id \in AccountId, NEW u \in Owner, NEW cur \in Currency, NEW b \in Balance,
             CreateAccount(id, u, cur, b)
      PROVE  Finite'
  BY <1>3, <1>7 DEF CreateAccount
<1>8. ASSUME NEW id \in AccountId, NEW u \in Owner, DeleteAccount(id, u) PROVE Finite'
  BY <1>2, <1>8 DEF DeleteAccount, DropAccounts
<1>9. ASSUME NEW c \in Call, NEW a \in TransferTxParams, TransferTx(c, a) PROVE Finite'
  BY <1>9, FiniteStep DEF TransferTx, LedgerNext
<1>10. ASSUME NEW c \in Call, NEW a \in TransferTxParams, CreateTransfer(c, a) PROVE Finite'
  BY <1>2, <1>10 DEF CreateTransfer
<1>11. ASSUME NEW t, DeleteTransfer(t) PROVE Finite'
  BY <1>2, <1>11 DEF DeleteTransfer
<1>12. ASSUME NEW c \in Call, NEW id \in AccountId, NEW b \in Balance, CreateEntry(c, id, b)
       PROVE  Finite'
  BY <1>4, <1>12 DEF CreateEntry
<1>13. ASSUME NEW id, NEW b, AddAccountBalance(id, b) \/ UpdateAccount(id, b) PROVE Finite'
  BY <1>2, <1>13 DEF AddAccountBalance, UpdateAccount, SetBalance
<1>14. CASE UNCHANGED schemaVars
  BY <1>2, <1>14 DEF schemaVars, ledgerVars
<1> QED
  BY <1>5, <1>6, <1>7, <1>8, <1>9, <1>10, <1>11, <1>12, <1>13, <1>14 DEF SchemaNext

\* Every operation of the store keeps the ledger or is a single statement of
\* a transfer.
LEMMA LedgerKeptStep ==
    LedgerTypeOK /\ Finite /\ LedgerKept /\ [SchemaNext]_schemaVars => LedgerKept'
<1> SUFFICES ASSUME LedgerTypeOK, Finite, LedgerKept, [SchemaNext]_schemaVars, ~raw' PROVE Books'
  BY DEF LedgerKept, Books
<1>1. ~raw => Books
  BY DEF LedgerKept, Books
<1>2. ASSUME ~raw, [LedgerNext]_ledgerVars PROVE Books'
  BY <1>1, <1>2, DoubleEntryStep, EntrySumStep, MoneyStep DEF Books
<1>3. ASSUME NEW u \in Owner, CreateUser(u) \/ DeleteUser(u) PROVE Books'
  BY <1>1, <1>2, <1>3, DropKeepsBooks DEF CreateUser, DeleteUser
<1>4. ASSUME NEW c \in Call, NEW u \in Owner, CreateSession(c, u) PROVE Books'
  BY <1>2, <1>4 DEF CreateSession
<1>5. ASSUME NEW id \in AccountId, NEW u \in Owner, NEW cur \in Currency, NEW b \in Balance,
             CreateAccount(id, u, cur, b)
      PROVE  Books'
  <2>1. ~raw /\ b = 0
    BY <1>5 DEF CreateAccount
  <2>2. Open(id, u, cur)
    BY <1>5, <2>1 DEF CreateAccount, Open
  <2> QED
    BY <1>2, <2>1, <2>2 DEF LedgerNext
<1>6. ASSUME NEW id \in AccountId, NEW u \in Owner, DeleteAccount(id, u) PROVE Books'
  BY <1>1, <1>6, DropKeepsBooks DEF DeleteAccount
<1>7. ASSUME NEW c \in Call, NEW a \in TransferTxParams, TransferTx(c, a) PROVE Books'
  BY <1>2, <1>7 DEF TransferTx, LedgerNext
<1>8. CASE raw' = TRUE
  BY <1>8
<1>9. CASE UNCHANGED schemaVars
  BY <1>2, <1>9 DEF schemaVars
<1> QED
  BY <1>3, <1>4, <1>5, <1>6, <1>7, <1>8, <1>9
  DEF SchemaNext, CreateTransfer, DeleteTransfer, CreateEntry, AddAccountBalance, UpdateAccount, Raw

\* As long as no single statement has written one side of a transfer, the
\* books are double, every balance is the sum of its entries and no money
\* appears or is lost, whatever users and accounts are created and deleted:
\* no cascade takes one leg of a transfer or an account with money.
THEOREM LedgerStaysKept == SchemaSpec => []LedgerKept
<1>1. SchemaInit => Finite /\ LedgerKept
  <2>1. LedgerInit => DoubleEntry
    BY DEF LedgerInit, DoubleEntry, Referenced
  <2> QED
    BY <2>1, LedgerInitSums DEF SchemaInit, LedgerKept
<1>2. SchemaTypeOK => LedgerTypeOK
  BY DEF SchemaTypeOK
<1> QED
  BY <1>1, <1>2, SchemaFiniteStep, LedgerKeptStep, SchemaTypeCorrect, PTL DEF SchemaSpec

=============================================================================
