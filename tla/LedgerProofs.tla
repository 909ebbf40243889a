---------------------------- MODULE LedgerProofs ----------------------------
(***************************************************************************)
(* Proofs about Ledger, for any accounts, amounts and calls: its tables    *)
(* keep their types, the books are double, every balance is the sum of its *)
(* entries, and all balances add up to what they added up to at the start. *)
(***************************************************************************)
EXTENDS Ledger, SumTheorems

\* What the two legs of a set of transfers are.
LegsOf(rows) == UNION {{FromEntry(t.id, t), ToEntry(t.id, t)} : t \in rows}

\* The legs of a set of transfers with one more.
LEMMA LegsOfAdded ==
    ASSUME NEW rows, NEW c, NEW a
    PROVE  LegsOf(rows \cup {TransferRow(c, a)})
              = LegsOf(rows) \cup {FromEntry(c, a), ToEntry(c, a)}
<1>1. FromEntry(c, TransferRow(c, a)) = FromEntry(c, a) /\ ToEntry(c, TransferRow(c, a)) = ToEntry(c, a)
  BY DEF FromEntry, ToEntry, TransferRow
<1>2. TransferRow(c, a).id = c
  BY DEF TransferRow
<1> QED
  BY <1>1, <1>2 DEF LegsOf

\* Every operation of the ledger keeps the books double.
LEMMA DoubleEntryStep == DoubleEntry /\ [LedgerNext]_ledgerVars => DoubleEntry'
<1> SUFFICES ASSUME DoubleEntry, [LedgerNext]_ledgerVars PROVE DoubleEntry'
  OBVIOUS
<1>1. entries = LegsOf(transfers) /\ Referenced(transfers) \subseteq DOMAIN accounts
  BY DEF DoubleEntry, LegsOf
<1>2. ASSUME NEW id \in AccountId, NEW owner \in Owner, NEW currency \in Currency,
             Open(id, owner, currency)
      PROVE  DoubleEntry'
  BY <1>1, <1>2 DEF Open, DoubleEntry, Referenced
<1>3. ASSUME NEW c \in Call, NEW a \in TransferTxParams, Move(c, a) PROVE DoubleEntry'
  <2>1. entries' = LegsOf(transfers')
    BY <1>1, <1>3, LegsOfAdded DEF Move
  <2>2. DOMAIN accounts' = DOMAIN accounts
    BY <1>3 DEF Move
  <2>3. Referenced(transfers') = Referenced(transfers) \cup {a.from, a.to}
    <3> DEFINE row == TransferRow(c, a)
    <3>1. transfers' = transfers \cup {row} /\ row.from = a.from /\ row.to = a.to
      BY <1>3 DEF Move, TransferRow
    <3> HIDE DEF row
    <3> QED
      BY <3>1 DEF Referenced
  <2> QED
    BY <1>1, <1>3, <2>1, <2>2, <2>3 DEF Move, DoubleEntry, LegsOf
<1>4. ASSUME NEW id \in AccountId, Close(id) PROVE DoubleEntry'
  BY <1>1, <1>4 DEF Close, DoubleEntry, Referenced
<1>5. CASE UNCHANGED ledgerVars
  BY <1>5 DEF ledgerVars, DoubleEntry, Referenced
<1> QED
  BY <1>2, <1>3, <1>4, <1>5 DEF LedgerNext

\* The entries are the two legs of every transfer and nothing else, and no
\* account with a transfer goes away.
THEOREM DoubleEntryHolds == LedgerSpec => []DoubleEntry
<1>1. LedgerInit => DoubleEntry
  BY DEF LedgerInit, DoubleEntry, Referenced
<1> QED
  BY <1>1, DoubleEntryStep, PTL DEF LedgerSpec

-----------------------------------------------------------------------------
\* Every operation leaves rows of their tables' types.
LEMMA LedgerTypeStep == LedgerTypeOK /\ [LedgerNext]_ledgerVars => LedgerTypeOK'
<1> SUFFICES ASSUME LedgerTypeOK, [LedgerNext]_ledgerVars PROVE LedgerTypeOK'
  OBVIOUS
<1> USE DEF LedgerTypeOK
<1>1. ASSUME NEW id \in AccountId, NEW owner \in Owner, NEW currency \in Currency,
             Open(id, owner, currency)
      PROVE  LedgerTypeOK'
  <2>1. [owner |-> owner, currency |-> currency, balance |-> 0] \in Account
    BY BigintAssumption DEF Account, Bigint
  <2> QED
    BY <1>1, <2>1 DEF Open
<1>2. ASSUME NEW c \in Call, NEW a \in TransferTxParams, Move(c, a) PROVE LedgerTypeOK'
  <2>1. /\ TransferRow(c, a) \in Transfer
        /\ FromEntry(c, a) \in Entry
        /\ ToEntry(c, a) \in Entry
    BY LedgerAssumption DEF TransferRow, FromEntry, ToEntry, Transfer, Entry, TransferTxParams
  <2>2. accounts' \in [DOMAIN accounts' -> Account] /\ DOMAIN accounts' = DOMAIN accounts
    BY <1>2 DEF Move, Account
  <2> QED
    BY <1>2, <2>1, <2>2 DEF Move
<1>3. ASSUME NEW id \in AccountId, Close(id) PROVE LedgerTypeOK'
  BY <1>3 DEF Close
<1>4. CASE UNCHANGED ledgerVars
  BY <1>4 DEF ledgerVars
<1> QED
  BY <1>1, <1>2, <1>3, <1>4 DEF LedgerNext

\* Tables are finite.
Finite == IsFiniteSet(DOMAIN accounts) /\ IsFiniteSet(entries)

LEMMA FiniteStep == Finite /\ [LedgerNext]_ledgerVars => Finite'
<1> SUFFICES ASSUME Finite, [LedgerNext]_ledgerVars PROVE Finite'
  OBVIOUS
<1>1. ASSUME NEW id \in AccountId, NEW owner \in Owner, NEW currency \in Currency,
             Open(id, owner, currency)
      PROVE  Finite'
  <2>1. DOMAIN accounts' = DOMAIN accounts \cup {id} /\ entries' = entries
    BY <1>1 DEF Open
  <2> QED
    BY <2>1, FS_AddElement DEF Finite
<1>2. ASSUME NEW c \in Call, NEW a \in TransferTxParams, Move(c, a) PROVE Finite'
  <2>1. DOMAIN accounts' = DOMAIN accounts
    BY <1>2 DEF Move
  <2>2. entries' = (entries \cup {FromEntry(c, a)}) \cup {ToEntry(c, a)}
    BY <1>2 DEF Move
  <2>3. IsFiniteSet(entries \cup {FromEntry(c, a)})
    BY FS_AddElement DEF Finite
  <2>4. IsFiniteSet(entries')
    BY <2>2, <2>3, FS_AddElement
  <2> QED
    BY <2>1, <2>4 DEF Finite
<1>3. ASSUME NEW id \in AccountId, Close(id) PROVE Finite'
  <2>1. DOMAIN accounts' = DOMAIN accounts \ {id} /\ entries' = entries
    BY <1>3 DEF Close
  <2> QED
    BY <2>1, FS_RemoveElement DEF Finite
<1>4. CASE UNCHANGED ledgerVars
  BY <1>4 DEF ledgerVars, Finite
<1> QED
  BY <1>1, <1>2, <1>3, <1>4 DEF LedgerNext

-----------------------------------------------------------------------------
\* BalanceSum and AmountSum are sums over functions.
LEMMA BalanceSumIs ==
    ASSUME NEW S, IsFiniteSet(S), NEW rows
    PROVE  BalanceSum(rows, S) = SumOver([id \in S |-> rows[id].balance], S)
<1> DEFINE w == [id \in S |-> rows[id].balance]
           Rec(g) == g = [s \in SUBSET S |-> IF s = {} THEN 0
                                             ELSE rows[First(s)].balance + g[s \ {First(s)}]]
<1>1. ASSUME NEW s \in SUBSET S, s # {} PROVE w[First(s)] = rows[First(s)].balance
  BY <1>1, FirstIn
<1> HIDE DEF w
<1>2. \A g : Sums(g, w, S) <=> Rec(g)
  BY <1>1 DEF Sums
<1>3. \E g : Rec(g)
  BY <1>2, SumsExist
<1>4. \E g : Rec(g) /\ BalanceSum(rows, S) = g[S]
  BY <1>3 DEF BalanceSum, MapThenSumSet, MapThenFoldSet, First
<1>5. PICK g : Sums(g, w, S) /\ BalanceSum(rows, S) = g[S]
  BY <1>2, <1>4
<1>6. PICK h : Sums(h, w, S) /\ SumOver(w, S) = h[S]
  BY SumOverIs
<1>7. g[S] = h[S]
  BY <1>5, <1>6, SumsAgree
<1> QED
  BY <1>5, <1>6, <1>7 DEF w

LEMMA AmountSumIs ==
    ASSUME NEW S, IsFiniteSet(S)
    PROVE  AmountSum(S) = SumOver([e \in S |-> e.amount], S)
<1> DEFINE w == [e \in S |-> e.amount]
           Rec(g) == g = [s \in SUBSET S |-> IF s = {} THEN 0
                                             ELSE First(s).amount + g[s \ {First(s)}]]
<1>1. ASSUME NEW s \in SUBSET S, s # {} PROVE w[First(s)] = First(s).amount
  BY <1>1, FirstIn
<1> HIDE DEF w
<1>2. \A g : Sums(g, w, S) <=> Rec(g)
  BY <1>1 DEF Sums
<1>3. \E g : Rec(g)
  BY <1>2, SumsExist
<1>4. \E g : Rec(g) /\ AmountSum(S) = g[S]
  BY <1>3 DEF AmountSum, MapThenSumSet, MapThenFoldSet, First
<1>5. PICK g : Sums(g, w, S) /\ AmountSum(S) = g[S]
  BY <1>2, <1>4
<1>6. PICK h : Sums(h, w, S) /\ SumOver(w, S) = h[S]
  BY SumOverIs
<1>7. g[S] = h[S]
  BY <1>5, <1>6, SumsAgree
<1> QED
  BY <1>5, <1>6, <1>7 DEF w

\* Rows whose balances are zero come and go without changing a sum.
LEMMA BalanceSumZeros ==
    ASSUME NEW S, IsFiniteSet(S), NEW T \in SUBSET S, NEW rows, NEW new,
           \A id \in S : rows[id].balance \in Int,
           \A id \in T : new[id].balance = rows[id].balance,
           \A id \in S \ T : rows[id].balance = 0
    PROVE  BalanceSum(new, T) = BalanceSum(rows, S)
<1> DEFINE w == [id \in S |-> rows[id].balance]
           v == [id \in T |-> new[id].balance]
<1>1. IsFiniteSet(T)
  BY FS_Subset
<1>2. BalanceSum(rows, S) = SumOver(w, S) /\ BalanceSum(new, T) = SumOver(v, T)
  BY <1>1, BalanceSumIs
<1>3. (\A x \in S : w[x] \in Int) /\ (\A x \in S \ T : w[x] = 0) /\ (\A x \in T : v[x] = w[x])
  OBVIOUS
<1> HIDE DEF w, v
<1>4. SumOver(w, T) = SumOver(w, S)
  BY <1>3, SumOverZeros
<1>5. SumOver(v, T) = SumOver(w, T)
  BY <1>1, <1>3, SumOverSame
<1> QED
  BY <1>2, <1>4, <1>5

\* What leaves one balance and enters another leaves their sum as it was.
LEMMA BalanceSumMove ==
    ASSUME NEW S, IsFiniteSet(S), NEW rows, NEW new, NEW from \in S, NEW to \in S, from # to,
           NEW amount \in Int,
           \A id \in S : rows[id].balance \in Int,
           new[from].balance = rows[from].balance - amount,
           new[to].balance = rows[to].balance + amount,
           \A id \in S \ {from, to} : new[id].balance = rows[id].balance
    PROVE  BalanceSum(new, S) = BalanceSum(rows, S)
<1> DEFINE w == [id \in S |-> rows[id].balance]
           v == [id \in S |-> new[id].balance]
           u == [id \in S |-> IF id = from THEN new[id].balance ELSE rows[id].balance]
<1>1. BalanceSum(rows, S) = SumOver(w, S) /\ BalanceSum(new, S) = SumOver(v, S)
  BY BalanceSumIs
<1>2. /\ \A x \in S : w[x] \in Int /\ u[x] \in Int /\ v[x] \in Int
      /\ \A x \in S \ {from} : w[x] = u[x]
      /\ \A x \in S \ {to} : u[x] = v[x]
      /\ u[from] = w[from] - amount
      /\ v[to] = u[to] + amount
  OBVIOUS
<1> HIDE DEF w, u, v
<1>3. SumOver(u, S) = SumOver(w, S) - w[from] + u[from]
  BY <1>2, SumOverUpdate
<1>4. SumOver(v, S) = SumOver(u, S) - u[to] + v[to]
  BY <1>2, SumOverUpdate
<1>5. SumOver(w, S) \in Int
  BY <1>2, SumOverType
<1> QED
  BY <1>1, <1>2, <1>3, <1>4, <1>5

\* What Move does to the rows of accounts.
LEMMA MoveRows ==
    ASSUME LedgerTypeOK, NEW c, NEW a \in TransferTxParams, Move(c, a)
    PROVE  /\ DOMAIN accounts' = DOMAIN accounts
           /\ a.from \in DOMAIN accounts /\ a.to \in DOMAIN accounts
           /\ a.from # a.to /\ a.amount \in Int
           /\ \A id \in DOMAIN accounts :
                 /\ accounts[id].balance \in Int
                 /\ accounts'[id].owner = accounts[id].owner
                 /\ accounts'[id].currency = accounts[id].currency
           /\ accounts'[a.from].balance = accounts[a.from].balance - a.amount
           /\ accounts'[a.to].balance = accounts[a.to].balance + a.amount
           /\ \A id \in DOMAIN accounts \ {a.from, a.to} : accounts'[id].balance = accounts[id].balance
<1>1. a.from \in DOMAIN accounts /\ a.to \in DOMAIN accounts /\ a.from # a.to /\ a.amount \in Int
  BY LedgerAssumption DEF Move, Checked, TransferTxParams
<1>2. \A id \in DOMAIN accounts : accounts[id] \in Account /\ accounts[id].balance \in Int
  BY BigintAssumption DEF LedgerTypeOK, Account, Bigint
<1>3. accounts' = [accounts EXCEPT ![a.from].balance = @ - a.amount, ![a.to].balance = @ + a.amount]
  BY DEF Move
<1> QED
  BY <1>1, <1>2, <1>3 DEF Account

\* Every operation keeps the sum of all balances.
LEMMA MoneyStep ==
    LedgerTypeOK /\ Finite /\ MoneyConserved /\ [LedgerNext]_ledgerVars => MoneyConserved'
<1> SUFFICES ASSUME LedgerTypeOK, Finite, MoneyConserved, [LedgerNext]_ledgerVars PROVE MoneyConserved'
  OBVIOUS
<1>1. \A id \in DOMAIN accounts : accounts[id].balance \in Int
  BY BigintAssumption DEF LedgerTypeOK, Account, Bigint
<1>2. ASSUME NEW id \in AccountId, NEW owner \in Owner, NEW currency \in Currency,
             Open(id, owner, currency)
      PROVE  MoneyConserved'
  <2>1. /\ id \notin DOMAIN accounts
        /\ DOMAIN accounts' = DOMAIN accounts \cup {id}
        /\ accounts'[id].balance = 0
        /\ \A x \in DOMAIN accounts : accounts'[x] = accounts[x]
    BY <1>2 DEF Open
  <2>2. IsFiniteSet(DOMAIN accounts')
    BY <2>1, FS_AddElement DEF Finite
  <2>3. BalanceSum(accounts, DOMAIN accounts) = BalanceSum(accounts', DOMAIN accounts')
    BY <1>1, <2>1, <2>2, BalanceSumZeros
  <2> QED
    BY <2>3 DEF MoneyConserved
<1>3. ASSUME NEW c \in Call, NEW a \in TransferTxParams, Move(c, a) PROVE MoneyConserved'
  <2>1. BalanceSum(accounts', DOMAIN accounts) = BalanceSum(accounts, DOMAIN accounts)
    BY <1>3, MoveRows, BalanceSumMove DEF Finite
  <2> QED
    BY <1>3, <2>1, MoveRows DEF MoneyConserved
<1>4. ASSUME NEW id \in AccountId, Close(id) PROVE MoneyConserved'
  <2>1. /\ DOMAIN accounts' = DOMAIN accounts \ {id}
        /\ accounts[id].balance = 0
        /\ \A x \in DOMAIN accounts' : accounts'[x] = accounts[x]
    BY <1>4 DEF Close
  <2>2. BalanceSum(accounts', DOMAIN accounts') = BalanceSum(accounts, DOMAIN accounts)
    BY <1>1, <2>1, BalanceSumZeros DEF Finite
  <2> QED
    BY <2>2 DEF MoneyConserved
<1>5. CASE UNCHANGED ledgerVars
  BY <1>5 DEF ledgerVars, MoneyConserved
<1> QED
  BY <1>2, <1>3, <1>4, <1>5 DEF LedgerNext

-----------------------------------------------------------------------------
\* One more entry.
LEMMA AmountSumAdd ==
    ASSUME NEW S, IsFiniteSet(S), NEW e, e \notin S, \A x \in S \cup {e} : x.amount \in Int
    PROVE  AmountSum(S \cup {e}) = AmountSum(S) + e.amount
<1> DEFINE T == S \cup {e}
           w == [x \in T |-> x.amount]
           v == [x \in S |-> x.amount]
<1>1. IsFiniteSet(T)
  BY FS_AddElement
<1>2. AmountSum(T) = SumOver(w, T) /\ AmountSum(S) = SumOver(v, S)
  BY <1>1, AmountSumIs
<1>3. (\A x \in S \cup {e} : w[x] \in Int) /\ (\A x \in S : w[x] = v[x]) /\ w[e] = e.amount
  OBVIOUS
<1> HIDE DEF w, v
<1>4. SumOver(w, S \cup {e}) = SumOver(w, S) + w[e]
  BY <1>3, SumOverAdd
<1>5. SumOver(w, S) = SumOver(v, S)
  BY <1>3, SumOverSame
<1> QED
  BY <1>2, <1>3, <1>4, <1>5

\* Every operation keeps the balances equal to the sums of the entries.
LEMMA EntrySumStep ==
    LedgerTypeOK /\ Finite /\ DoubleEntry /\ BalanceIsEntrySum /\ [LedgerNext]_ledgerVars
        => BalanceIsEntrySum'
<1> SUFFICES ASSUME LedgerTypeOK, Finite, DoubleEntry, BalanceIsEntrySum, [LedgerNext]_ledgerVars
             PROVE  BalanceIsEntrySum'
  OBVIOUS
<1>1. \A id \in DOMAIN accounts : accounts[id].balance = AmountSum(EntriesOf(id))
  BY DEF BalanceIsEntrySum, EntrySum
<1>2. SUFFICES \A id \in DOMAIN accounts' : accounts'[id].balance = AmountSum(EntriesOf(id)')
  BY DEF BalanceIsEntrySum, EntrySum
<1> DEFINE Goal == \A id \in DOMAIN accounts' : accounts'[id].balance = AmountSum(EntriesOf(id)')
<1>3. ASSUME NEW id \in AccountId, NEW owner \in Owner, NEW currency \in Currency,
             Open(id, owner, currency)
      PROVE  Goal
  <2>1. /\ id \notin DOMAIN accounts
        /\ DOMAIN accounts' = DOMAIN accounts \cup {id}
        /\ accounts'[id].balance = 0
        /\ \A x \in DOMAIN accounts : accounts'[x] = accounts[x]
        /\ entries' = entries
    BY <1>3 DEF Open
  <2>2. \A x : EntriesOf(x)' = EntriesOf(x)
    BY <2>1 DEF EntriesOf
  <2>3. EntriesOf(id) = {}
    <3>1. \A e \in entries : e.account \in DOMAIN accounts
      BY DEF DoubleEntry, FromEntry, ToEntry, Referenced
    <3> QED
      BY <2>1, <3>1 DEF EntriesOf
  <2>4. AmountSum({}) = 0
    BY AmountSumIs, SumOverEmpty, FS_EmptySet
  <2> QED
    BY <1>1, <2>1, <2>2, <2>3, <2>4
<1>4. ASSUME NEW c \in Call, NEW a \in TransferTxParams, Move(c, a) PROVE Goal
  <2> DEFINE out == FromEntry(c, a)
             in == ToEntry(c, a)
  <2>1. /\ out.account = a.from /\ out.amount = -a.amount /\ out.id[1] = c
        /\ in.account = a.to /\ in.amount = a.amount /\ in.id[1] = c
    BY DEF FromEntry, ToEntry
  <2>2. entries' = entries \cup {out, in}
    BY <1>4 DEF Move
  <2>3. out \notin entries /\ in \notin entries
    <3>1. \A e \in entries : \E t \in transfers : e.id[1] = t.id
      BY DEF DoubleEntry, FromEntry, ToEntry
    <3>2. \A t \in transfers : t.id # c
      BY <1>4 DEF Move
    <3> HIDE DEF out, in
    <3> QED
      BY <2>1, <3>1, <3>2
  <2> HIDE DEF out, in
  <2>4. /\ DOMAIN accounts' = DOMAIN accounts /\ a.from # a.to /\ a.amount \in Int
        /\ \A id \in DOMAIN accounts : accounts[id].balance \in Int
        /\ accounts'[a.from].balance = accounts[a.from].balance - a.amount
        /\ accounts'[a.to].balance = accounts[a.to].balance + a.amount
        /\ \A id \in DOMAIN accounts \ {a.from, a.to} : accounts'[id].balance = accounts[id].balance
        /\ a.from \in DOMAIN accounts /\ a.to \in DOMAIN accounts
    BY <1>4, MoveRows
  <2>5. /\ EntriesOf(a.from)' = EntriesOf(a.from) \cup {out}
        /\ EntriesOf(a.to)' = EntriesOf(a.to) \cup {in}
        /\ \A id : id \notin {a.from, a.to} => EntriesOf(id)' = EntriesOf(id)
    BY <2>1, <2>2, <2>4 DEF EntriesOf
  <2>6. \A id : IsFiniteSet(EntriesOf(id)) /\ \A e \in EntriesOf(id) : e.amount \in Int
    <3>1. \A id : EntriesOf(id) \in SUBSET entries
      BY DEF EntriesOf
    <3>2. \A e \in entries : e.amount \in Int
      BY DEF LedgerTypeOK, Entry
    <3> QED
      BY <3>1, <3>2, FS_Subset DEF Finite
  <2>7. AmountSum(EntriesOf(a.from)') = AmountSum(EntriesOf(a.from)) + out.amount
    <3>1. out \notin EntriesOf(a.from) /\ out.amount \in Int
      BY <2>1, <2>3, <2>4 DEF EntriesOf
    <3> QED
      BY <2>5, <2>6, <3>1, AmountSumAdd
  <2>8. AmountSum(EntriesOf(a.to)') = AmountSum(EntriesOf(a.to)) + in.amount
    <3>1. in \notin EntriesOf(a.to) /\ in.amount \in Int
      BY <2>1, <2>3, <2>4 DEF EntriesOf
    <3> QED
      BY <2>5, <2>6, <3>1, AmountSumAdd
  <2> QED
    BY <1>1, <2>1, <2>4, <2>5, <2>7, <2>8
<1>5. ASSUME NEW id \in AccountId, Close(id) PROVE Goal
  <2>1. DOMAIN accounts' \subseteq DOMAIN accounts /\ entries' = entries
    BY <1>5 DEF Close
  <2>2. \A x \in DOMAIN accounts' : accounts'[x] = accounts[x] /\ EntriesOf(x)' = EntriesOf(x)
    BY <1>5 DEF Close, EntriesOf
  <2> QED
    BY <1>1, <2>1, <2>2
<1>6. CASE UNCHANGED ledgerVars
  BY <1>1, <1>6 DEF ledgerVars, EntriesOf
<1> QED
  BY <1>3, <1>4, <1>5, <1>6 DEF LedgerNext

-----------------------------------------------------------------------------
\* The tables are empty, or have empty accounts, at the start.
LEMMA LedgerInitSums ==
    ASSUME LedgerInit PROVE LedgerTypeOK /\ Finite /\ MoneyConserved /\ BalanceIsEntrySum
<1>1. LedgerTypeOK /\ Finite
  BY InitAssumption, FS_EmptySet DEF LedgerInit, LedgerTypeOK, Finite
<1>2. BalanceSum(accounts, {}) = 0 /\ AmountSum({}) = 0
  BY AmountSumIs, BalanceSumIs, SumOverEmpty, FS_EmptySet
<1>3. \A id \in DOMAIN accounts : accounts[id].balance = 0
  BY InitAssumption DEF LedgerInit
<1>4. MoneyConserved
  BY <1>1, <1>2, <1>3, BalanceSumZeros DEF MoneyConserved, Finite
<1>5. BalanceIsEntrySum
  BY <1>2, <1>3 DEF LedgerInit, BalanceIsEntrySum, EntrySum, EntriesOf
<1> QED
  BY <1>1, <1>4, <1>5

\* The balances add up to what they added up to at the start, however many
\* accounts there are and whatever is opened, closed and moved.
THEOREM MoneyStaysConserved == LedgerSpec => []MoneyConserved
<1>1. LedgerInit => LedgerTypeOK /\ Finite /\ MoneyConserved
  BY LedgerInitSums
<1> QED
  BY <1>1, LedgerTypeStep, FiniteStep, MoneyStep, PTL DEF LedgerSpec

\* The balance of every account is the sum of its entries.
THEOREM BalancesAreEntrySums == LedgerSpec => []BalanceIsEntrySum
<1>1. LedgerInit => LedgerTypeOK /\ Finite /\ BalanceIsEntrySum
  BY LedgerInitSums
<1> QED
  BY <1>1, LedgerTypeStep, FiniteStep, EntrySumStep, DoubleEntryHolds, PTL DEF LedgerSpec

=============================================================================
