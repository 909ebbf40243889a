--------------------------- MODULE ReadApiProofs ---------------------------
(***************************************************************************)
(* Proofs about ReadApi, for any number of readers, requests, writers and  *)
(* rows, any sizes of pages and any width of an integer that holds them.   *)
(*                                                                         *)
(*   1. Data: ids of a sequence, pages of a finite list, and offsets that  *)
(*      wrap.                                                              *)
(*   2. What a step of a writer does to what a reader was shown and to the *)
(*      lists of the walks.                                                *)
(*   3. ReadInv is inductive, and the properties follow.                   *)
(***************************************************************************)
EXTENDS ReadApi, LedgerProofs

\* A non-empty finite set of numbers has a largest member.
LEMMA MaxExists ==
    ASSUME NEW S, IsFiniteSet(S), S \subseteq Int, S # {}
    PROVE  Max(S) \in S /\ \A y \in S : y <= Max(S)
<1> DEFINE Above(x) == {y \in S : x <= y}
           C == {Above(x) : x \in S}
<1> HIDE DEF C
<1>1. PICK s \in C : \A r \in C : r \subseteq s => r = s
  <2>1. \A x \in S : Above(x) \subseteq S
    OBVIOUS
  <2>2. C \in SUBSET SUBSET S
    <3>1. ASSUME NEW c \in C PROVE c \subseteq S
      <4>1. PICK x \in S : c = Above(x)
        BY DEF C
      <4> QED
        BY <4>1
    <3> QED
      BY <3>1
  <2>3. C # {}
    BY DEF C
  <2> QED
    BY ONLY IsFiniteSet(S), <2>2, <2>3, MinimalSubset
<1>2. PICK x \in S : s = Above(x)
  BY DEF C
<1>3. ASSUME NEW y \in S PROVE y <= x
  <2>1. CASE y > x
    <3>1. Above(y) \subseteq s
      <4>1. \A z \in S : y <= z => x <= z
        BY <2>1
      <4> QED
        BY <1>2, <4>1
    <3>2. Above(y) \in C
      BY DEF C
    <3>3. Above(y) = s
      BY <1>1, <3>1, <3>2
    <3>4. x \in s /\ x \notin Above(y)
      BY <1>2, <2>1
    <3> QED
      BY <3>3, <3>4
  <2> QED
    BY <2>1
<1>4. \E z \in S : \A y \in S : z >= y
  BY <1>3
<1> QED
  BY <1>4 DEF Max

\* The next id of a sequence is new, and ids stay in the order they were
\* handed out in.
LEMMA NextNumbered ==
    ASSUME NEW S, IsFiniteSet(S), NEW no \in [S -> Nat], Numbered(no), NEW x \in S, no[x] = 0,
           NEW next, next = [no EXCEPT ![x] = NextNo(no)]
    PROVE  /\ Numbered(next)
           /\ next[x] \in 1 .. Cardinality(S)
<1>1. Used(no) \subseteq S \ {x} /\ Used(no) \subseteq S
  BY DEF Used
<1>2. IsFiniteSet(S \ {x}) /\ Cardinality(S \ {x}) = Cardinality(S) - 1 /\ Cardinality(S) \in Nat
  BY FS_RemoveElement, FS_CardinalityType
<1>3. /\ IsFiniteSet(Used(no)) /\ Cardinality(Used(no)) \in Nat
      /\ Cardinality(Used(no)) <= Cardinality(S) - 1
  BY <1>1, <1>2, FS_Subset, FS_CardinalityType
<1> DEFINE n == Cardinality(Used(no))
<1>4. next \in [S -> Nat] /\ next[x] = n + 1 /\ \A y \in S \ {x} : next[y] = no[y]
  BY <1>3 DEF NextNo
<1>5. Cardinality(Used(next)) = n + 1
  <2>1. DOMAIN next = S /\ DOMAIN no = S
    BY <1>4
  <2>2. \A y \in S : next[y] # 0 <=> no[y] # 0 \/ y = x
    BY <1>3, <1>4
  <2>3. Used(next) = Used(no) \cup {x} /\ x \notin Used(no)
    BY <2>1, <2>2 DEF Used
  <2> QED
    BY <1>3, <2>3, FS_AddElement
<1>6. \A y, z \in S : no[y] <= n /\ (no[y] = no[z] /\ no[y] # 0 => y = z)
  BY DEF Numbered
<1>7. n \in Nat
  BY <1>3
<1> HIDE DEF n
<1>8. ASSUME NEW y \in S, NEW z \in S
      PROVE  next[y] <= n + 1 /\ (next[y] = next[z] /\ next[y] # 0 => y = z)
  <2>1. no[y] <= n /\ no[z] <= n /\ no[y] \in Nat /\ no[z] \in Nat /\ (no[y] = no[z] /\ no[y] # 0 => y = z)
    BY <1>6
  <2>2. (y # x => next[y] = no[y]) /\ (z # x => next[z] = no[z])
    BY <1>4
  <2> QED
    BY <1>4, <1>7, <2>1, <2>2
<1>9. Numbered(next)
  BY <1>4, <1>5, <1>8 DEF Numbered
<1>10. n <= Cardinality(S) - 1
  BY <1>3 DEF n
<1> QED
  BY <1>2, <1>4, <1>7, <1>9, <1>10

-----------------------------------------------------------------------------
LEMMA BeforeOrders ==
    ASSUME NEW kind, NEW x \in Int, NEW y \in Int
    PROVE  /\ ~Before(kind, x, x)
           /\ x = y \/ Before(kind, x, y) \/ Before(kind, y, x)
           /\ \A z \in Int : Before(kind, z, x) /\ Before(kind, x, y) => Before(kind, z, y)
BY DEF Before

\* The place of a row in a list of rows.
Place(R, kind, x) == Cardinality({y \in R : Before(kind, y, x)})

LEMMA PlaceBounds ==
    ASSUME NEW R, IsFiniteSet(R), R \subseteq Int, NEW kind, NEW x \in R
    PROVE  Place(R, kind, x) \in 0 .. Cardinality(R) - 1
<1>1. {y \in R : Before(kind, y, x)} \subseteq R \ {x}
  BY BeforeOrders
<1>2. IsFiniteSet(R \ {x}) /\ Cardinality(R \ {x}) = Cardinality(R) - 1 /\ Cardinality(R) \in Nat
  BY FS_RemoveElement, FS_CardinalityType
<1>3. /\ Cardinality({y \in R : Before(kind, y, x)}) <= Cardinality(R) - 1
      /\ Cardinality({y \in R : Before(kind, y, x)}) \in Nat
  BY <1>1, <1>2, FS_Subset, FS_CardinalityType
<1> QED
  BY <1>2, <1>3 DEF Place

\* Rows have different places.
LEMMA PlaceGrows ==
    ASSUME NEW R, IsFiniteSet(R), R \subseteq Int, NEW kind, NEW x \in R, NEW y \in R, Before(kind, x, y)
    PROVE  Place(R, kind, x) < Place(R, kind, y)
<1> DEFINE X == {z \in R : Before(kind, z, x)}
           Y == {z \in R : Before(kind, z, y)}
<1>1. X \cup {x} \subseteq Y /\ x \notin X /\ X \subseteq R /\ Y \subseteq R
  BY BeforeOrders
<1>2. IsFiniteSet(X) /\ IsFiniteSet(Y)
  BY <1>1, FS_Subset
<1> HIDE DEF X, Y
<1>3. Cardinality(X \cup {x}) = Cardinality(X) + 1 /\ Cardinality(X) \in Nat /\ Cardinality(Y) \in Nat
  BY <1>1, <1>2, FS_AddElement, FS_CardinalityType
<1>4. Cardinality(X \cup {x}) <= Cardinality(Y)
  BY <1>1, <1>2, FS_Subset
<1> QED
  BY <1>3, <1>4 DEF Place, X, Y

LEMMA PlaceInjective ==
    ASSUME NEW R, IsFiniteSet(R), R \subseteq Int, NEW kind, NEW x \in R, NEW y \in R,
           Place(R, kind, x) = Place(R, kind, y)
    PROVE  x = y
<1>1. Place(R, kind, x) \in Int
  <2>1. Cardinality(R) \in Nat /\ Place(R, kind, x) \in 0 .. Cardinality(R) - 1
    BY PlaceBounds, FS_CardinalityType
  <2> QED
    BY <2>1
<1>2. x = y \/ Before(kind, x, y) \/ Before(kind, y, x)
  BY BeforeOrders
<1>3. CASE Before(kind, x, y)
  <2>1. Place(R, kind, x) < Place(R, kind, y)
    BY <1>3, PlaceGrows
  <2> QED
    BY <1>1, <2>1
<1>4. CASE Before(kind, y, x)
  <2>1. Place(R, kind, y) < Place(R, kind, x)
    BY <1>4, PlaceGrows
  <2> QED
    BY <1>1, <2>1
<1> QED
  BY <1>2, <1>3, <1>4

\* The rows in the places of a page.
PlacesOf(R, kind, n, size) == {y \in R : Place(R, kind, y) \in n .. n + size - 1}

\* A page with a row behind it is full.
LEMMA FullPage ==
    ASSUME NEW R, IsFiniteSet(R), R \subseteq Int, NEW kind, NEW n \in Nat, NEW size \in Nat,
           NEW x \in R, n + size <= Place(R, kind, x)
    PROVE  size <= Cardinality(PlacesOf(R, kind, n, size))
<1> DEFINE N == Cardinality(R)
           f == [y \in R |-> Place(R, kind, y)]
           P == {y \in R : Place(R, kind, y) \in n .. n + size - 1}
           g == [y \in P |-> Place(R, kind, y)]
<1>1. N \in Nat /\ \A y \in R : Place(R, kind, y) \in 0 .. N - 1
  BY PlaceBounds, FS_CardinalityType
<1>2. f \in Injection(R, 0 .. N - 1)
  <2>1. \A y, z \in R : Place(R, kind, y) = Place(R, kind, z) => y = z
    BY PlaceInjective
  <2>2. f \in [R -> 0 .. N - 1]
    BY <1>1
  <2> QED
    BY <2>1, <2>2 DEF Injection, IsInjective
<1>3. IsFiniteSet(0 .. N - 1) /\ Cardinality(0 .. N - 1) = N
  BY <1>1, FS_Interval
<1>4. f \in Surjection(R, 0 .. N - 1)
  <2> HIDE DEF f
  <2>1. Cardinality(R) = Cardinality(0 .. N - 1)
    BY <1>3
  <2> QED
    BY <1>2, <1>3, <2>1, FS_Injection
<1>5. ASSUME NEW k \in n .. n + size - 1 PROVE \E y \in P : g[y] = k
  <2>1. k \in 0 .. N - 1
    BY <1>1
  <2>2. PICK y \in R : f[y] = k
    BY <1>4, <2>1 DEF Surjection
  <2> QED
    BY <2>2
<1>6. g \in Surjection(P, n .. n + size - 1)
  BY <1>5 DEF Surjection
<1>7. IsFiniteSet(P)
  BY FS_Subset
<1>8. Cardinality(n .. n + size - 1) = size
  BY FS_Interval
<1>9. Cardinality(n .. n + size - 1) <= Cardinality(P)
  <2> HIDE DEF g, P
  <2> QED
    BY <1>6, <1>7, FS_Surjection
<1> QED
  BY <1>8, <1>9 DEF PlacesOf

\* A row moves only towards the end of a list that gets longer.
LEMMA PlaceStays ==
    ASSUME NEW R, NEW T, IsFiniteSet(T), R \subseteq T, NEW kind, NEW x
    PROVE  Place(R, kind, x) <= Place(T, kind, x)
<1>1. {y \in R : Before(kind, y, x)} \subseteq {y \in T : Before(kind, y, x)}
  OBVIOUS
<1>2. IsFiniteSet({y \in T : Before(kind, y, x)})
  BY FS_Subset
<1> QED
  BY <1>1, <1>2, FS_Subset DEF Place

-----------------------------------------------------------------------------
USE LedgerAssumption, ReadAssumption

\* An int32 that holds a number below 2^32 holds it, or is negative.
LEMMA Wraps ==
    ASSUME NEW n \in Nat, n < 2 * HalfInt32
    PROVE  Int32(n) = IF n < HalfInt32 THEN n ELSE n - 2 * HalfInt32
<1>1. CASE n < HalfInt32
  <2>1. (n + HalfInt32) % (2 * HalfInt32) = n + HalfInt32
    BY <1>1
  <2> QED
    BY <1>1, <2>1 DEF Int32
<1>2. CASE ~(n < HalfInt32)
  <2>1. (n + HalfInt32) % (2 * HalfInt32) = n - HalfInt32
    <3> DEFINE m == n - HalfInt32
    <3>1. m \in 0 .. 2 * HalfInt32 - 1 /\ n + HalfInt32 = m + 2 * HalfInt32
      BY <1>2
    <3>2. (m + 2 * HalfInt32) % (2 * HalfInt32) = m
      BY <3>1
    <3> QED
      BY <3>1, <3>2
  <2> QED
    BY <1>2, <2>1 DEF Int32
<1> QED
  BY <1>1, <1>2

-----------------------------------------------------------------------------
\* What the fields of a request are.
LEMMA RequestFields ==
    ASSUME NEW q \in ReadRequest
    PROVE  /\ q.kind # "none"
           /\ q.kind \in List <=> q \in ListAccounts \cup ListOf
           /\ q.kind \in List => q.page \in 1 .. MaxPage /\ q.size \in Nat
           /\ q.kind # "listAccounts" => q.account \in AccountId
           /\ q.kind \in {"getTransfer", "getEntry"} => q.id \in RowNo
<1>1. q \in ListAccounts \/ q \in ListOf \/ q \in GetAccount \/ q \in GetRow
  BY DEF ReadRequest
<1>2. CASE q \in ListAccounts
  BY <1>2 DEF ListAccounts, List
<1>3. CASE q \in ListOf
  BY <1>3 DEF ListOf, List
<1>4. CASE q \in GetAccount
  BY <1>4 DEF GetAccount, List, ListAccounts, ListOf
<1>5. CASE q \in GetRow
  BY <1>5 DEF GetRow, List, ListAccounts, ListOf
<1> QED
  BY <1>1, <1>2, <1>3, <1>4, <1>5

\* Another page of the same list.
LEMMA PageFields ==
    ASSUME NEW q \in ListAccounts \cup ListOf, NEW n
    PROVE  LET p == [q EXCEPT !.page = n] IN
           /\ p.page = n /\ p.kind = q.kind /\ p.user = q.user /\ p.size = q.size
           /\ q.kind # "listAccounts" => p.account = q.account
<1>1. CASE q \in ListAccounts
  BY <1>1 DEF ListAccounts
<1>2. CASE q \in ListOf
  BY <1>2 DEF ListOf
<1> QED
  BY <1>1, <1>2

LEMMA SamePage ==
    ASSUME NEW q \in ListAccounts \cup ListOf
    PROVE  q = [q EXCEPT !.page = q.page]
<1>1. CASE q \in ListAccounts
  BY <1>1 DEF ListAccounts
<1>2. CASE q \in ListOf
  BY <1>2 DEF ListOf
<1> QED
  BY <1>1, <1>2

LEMMA RowNoNat == RowNo \cup {0} \subseteq Nat
<1>1. Cardinality(Call) \in Nat
  BY FS_CardinalityType
<1> QED
  BY <1>1 DEF RowNo

\* Which ids rows have.
LEMMA RowIds ==
    ReadTypeOK =>
        /\ \A id : TransfersOf(id) \subseteq 0 .. 2 * Cardinality(Call)
        /\ \A id : EntryNosOf(id) \subseteq 0 .. 2 * Cardinality(Call)
<1> SUFFICES ASSUME ReadTypeOK
             PROVE  /\ \A id : TransfersOf(id) \subseteq 0 .. 2 * Cardinality(Call)
                    /\ \A id : EntryNosOf(id) \subseteq 0 .. 2 * Cardinality(Call)
  OBVIOUS
<1>1. Cardinality(Call) \in Nat
  BY FS_CardinalityType
<1>2. RowNo \cup {0} = 0 .. 2 * Cardinality(Call)
  BY <1>1 DEF RowNo
<1>3. ASSUME NEW t \in transfers PROVE transferNo[t.id] \in RowNo \cup {0}
  BY DEF ReadTypeOK, LedgerTypeOK, Transfer
<1>4. ASSUME NEW e \in entries PROVE entryNo[e.id] \in RowNo \cup {0}
  BY DEF ReadTypeOK, LedgerTypeOK, Entry
<1> QED
  BY <1>2, <1>3, <1>4 DEF TransfersOf, EntryNosOf, EntriesOf

\* A list has finitely many rows.
ListsFinite ==
    \A q \in ListAccounts \cup ListOf : IsFiniteSet(Rows(q)) /\ Rows(q) \subseteq Nat

LEMMA RowsFinite == ReadTypeOK => ListsFinite
<1> SUFFICES ASSUME ReadTypeOK, NEW q \in ListAccounts \cup ListOf
             PROVE  IsFiniteSet(Rows(q)) /\ Rows(q) \subseteq Nat
  BY DEF ListsFinite
<1>1. CASE q.kind = "listAccounts"
  <2>1. Rows(q) \subseteq DOMAIN accounts
    BY <1>1 DEF Rows
  <2>2. DOMAIN accounts \subseteq 0 .. nextAccount - 1 /\ nextAccount \in Nat
    <3>1. nextAccount \in Nat /\ DOMAIN accounts \cup drawn \subseteq {id \in AccountId : id < nextAccount}
      BY DEF ReadTypeOK
    <3>2. ASSUME NEW id \in DOMAIN accounts PROVE id \in Nat /\ id < nextAccount
      BY <3>1
    <3> QED
      BY <3>1, <3>2
  <2>3. IsFiniteSet(0 .. nextAccount - 1)
    BY <2>2, FS_Interval
  <2> QED
    BY <2>1, <2>2, <2>3, FS_Subset
<1>2. CASE q.kind # "listAccounts"
  <2>1. q.kind = "listTransfers" \/ q.kind = "listEntries"
    BY <1>2 DEF ListAccounts, ListOf
  <2>2. Rows(q) = TransfersOf(q.account) \/ Rows(q) = EntryNosOf(q.account)
    BY <2>1 DEF Rows
  <2>3. Rows(q) \subseteq 0 .. 2 * Cardinality(Call)
    BY <2>2, RowIds
  <2>4. Cardinality(Call) \in Nat
    BY FS_CardinalityType
  <2>5. IsFiniteSet(0 .. 2 * Cardinality(Call)) /\ 0 .. 2 * Cardinality(Call) \subseteq Nat
    BY <2>4, FS_Interval
  <2> QED
    BY <2>3, <2>5, FS_Subset
<1> QED
  BY <1>1, <1>2

\* The rows of a list are those of its kind, user and account.
LEMMA SameRows ==
    ASSUME NEW p \in ListAccounts \cup ListOf, NEW q \in ListAccounts \cup ListOf,
           p.kind = q.kind, p.user = q.user, q.kind # "listAccounts" => p.account = q.account
    PROVE  Rows(p) = Rows(q) /\ \A x : Ahead(p, x) = Ahead(q, x)
<1>1. q.kind \in List
  BY DEF ListAccounts, ListOf, List
<1>2. Rows(p) = Rows(q)
  BY <1>1 DEF Rows, List
<1> QED
  BY <1>2 DEF Ahead

\* Entries, like transfers, are of accounts that are there.
LEMMA RowsHaveAccounts ==
    ASSUME DoubleEntry
    PROVE  /\ \A t \in transfers : t.from \in DOMAIN accounts /\ t.to \in DOMAIN accounts
           /\ \A e \in entries : e.account \in DOMAIN accounts
<1>1. ASSUME NEW t \in transfers PROVE t.from \in DOMAIN accounts /\ t.to \in DOMAIN accounts
  BY DEF DoubleEntry, Referenced
<1>2. ASSUME NEW e \in entries PROVE e.account \in DOMAIN accounts
  <2>1. PICK t \in transfers : e = FromEntry(t.id, t) \/ e = ToEntry(t.id, t)
    BY DEF DoubleEntry
  <2> QED
    BY <1>1, <2>1 DEF FromEntry, ToEntry
<1> QED
  BY <1>1, <1>2

-----------------------------------------------------------------------------
\* A step of a writer.  Rows of transfers and entries stay, with their ids; an
\* account that is there afterwards had its owner before, or had an id that was
\* drawn; and one that goes away had no rows.
Written ==
    /\ UNCHANGED readerVars
    /\ transfers \subseteq transfers'
    /\ entries \subseteq entries'
    /\ \A t \in transfers : transferNo'[t.id] = transferNo[t.id]
    /\ \A e \in entries : entryNo'[e.id] = entryNo[e.id]
    /\ \A id \in DOMAIN accounts' :
          \/ id \in DOMAIN accounts /\ accounts'[id].owner = accounts[id].owner
          \/ id \in drawn
    /\ \A id \in DOMAIN accounts :
          \/ id \in DOMAIN accounts' /\ accounts'[id].owner = accounts[id].owner
          \/ id \notin DOMAIN accounts' /\ id \notin Referenced(transfers) /\ \A e \in entries : e.account # id
    /\ nextAccount' \in Nat /\ nextAccount <= nextAccount'
    /\ drawn' \subseteq drawn \cup {nextAccount}
    /\ \A r \in Reader :
          \/ walk'[r] = NoWalk
          \/ /\ walk'[r] = walk[r]
             /\ walk[r].list.kind = "listAccounts" =>
                   \A id \in DOMAIN accounts :
                      accounts[id].owner = walk[r].list.user => id \in DOMAIN accounts'

LEMMA DrawWritten == ASSUME ReadInv, DrawAccount PROVE Written
BY DEF DrawAccount, Written, ledgerVars, ReadInv, ReadTypeOK

LEMMA OpenWritten ==
    ASSUME ReadInv, NEW id \in AccountId, NEW owner \in Owner, NEW currency \in Currency,
           OpenAccount(id, owner, currency)
    PROVE  Written
BY DEF OpenAccount, Open, Written, ReadInv, ReadTypeOK

LEMMA CloseWritten ==
    ASSUME ReadInv, NEW id \in AccountId, CloseAccount(id)
    PROVE  Written
BY DEF CloseAccount, Close, Written, ReadInv, ReadTypeOK, numbers

LEMMA InsertWritten ==
    ASSUME ReadInv, NEW c \in Call, NEW leg \in {"from", "to"},
           InsertTransfer(c) \/ InsertEntry(c, leg)
    PROVE  Written
<1>1. CASE InsertTransfer(c)
  BY <1>1 DEF InsertTransfer, Written, ledgerVars, ReadInv, ReadTypeOK, LedgerTypeOK, Transfer, NumberInv
<1>2. CASE InsertEntry(c, leg)
  BY <1>2 DEF InsertEntry, Written, ledgerVars, ReadInv, ReadTypeOK, LedgerTypeOK, Entry, NumberInv
<1> QED
  BY <1>1, <1>2

LEMMA CommitWritten ==
    ASSUME ReadInv, NEW c \in Call, NEW a \in TransferTxParams, CommitTransfer(c, a)
    PROVE  Written
<1>1. LedgerTypeOK /\ Move(c, a)
  BY DEF ReadInv, ReadTypeOK, CommitTransfer
<1>2. /\ DOMAIN accounts' = DOMAIN accounts
      /\ \A id \in DOMAIN accounts : accounts'[id].owner = accounts[id].owner
  BY <1>1, MoveRows
<1>3. transfers \subseteq transfers' /\ entries \subseteq entries'
  BY <1>1 DEF Move
<1> QED
  BY <1>2, <1>3 DEF CommitTransfer, Written, numbers, ReadInv, ReadTypeOK

LEMMA WritesWritten == ReadInv /\ Writes => Written
BY DrawWritten, OpenWritten, CloseWritten, InsertWritten, CommitWritten DEF Writes

\* Writers take no row away from its owner,
LEMMA OwnsStays ==
    ASSUME ReadInv, Written, NEW q, NEW n, Owns(q, n)
    PROVE  Owns(q, n)'
<1>1. q.account \in DOMAIN accounts /\ accounts[q.account].owner = q.user
  BY DEF Owns
<1>2. CASE q.kind \in {"listTransfers", "getTransfer"}
  <2>1. PICK t \in transfers : q.account \in {t.from, t.to} /\ n = transferNo[t.id]
    BY <1>2 DEF Owns, TransfersOf
  <2>2. q.account \in Referenced(transfers)
    BY <2>1 DEF Referenced
  <2>3. t \in transfers' /\ n = transferNo'[t.id]
    BY <2>1 DEF Written
  <2>4. n \in TransfersOf(q.account)'
    BY <2>1, <2>3 DEF TransfersOf
  <2> QED
    BY <1>1, <1>2, <2>2, <2>4 DEF Written, Owns
<1>3. CASE q.kind \notin {"listTransfers", "getTransfer"}
  <2>1. PICK e \in entries : e.account = q.account /\ n = entryNo[e.id]
    BY <1>3 DEF Owns, EntryNosOf, EntriesOf
  <2>2. e \in entries' /\ n = entryNo'[e.id]
    BY <2>1 DEF Written
  <2>3. n \in EntryNosOf(q.account)'
    BY <2>1, <2>2 DEF EntryNosOf, EntriesOf
  <2> QED
    BY <1>1, <1>3, <2>1, <2>3 DEF Written, Owns
<1> QED
  BY <1>2, <1>3

\* nor do they give an account to another, nor its id to a new one.
LEMMA OwnOrGoneStays ==
    ASSUME ReadInv, Written, NEW q, q.account \in AccountId, OwnOrGone(q)
    PROVE  OwnOrGone(q)'
<1>1. nextAccount \in Nat /\ q.account \in Nat
  BY DEF ReadInv, ReadTypeOK
<1>2. q.account < nextAccount' /\ q.account \notin drawn'
  BY <1>1 DEF Written, OwnOrGone
<1>3. q.account \in DOMAIN accounts' => accounts'[q.account].owner = q.user
  BY DEF Written, OwnOrGone
<1> QED
  BY <1>2, <1>3 DEF OwnOrGone

LEMMA WrittenAnswering ==
    ASSUME ReadInv, Written, NEW r \in Reader
    PROVE  Answering(r)'
<1>1. Answering(r)
  BY DEF ReadInv, ReaderInv
<1>2. PICK q : q = req[r]
  OBVIOUS
<1>3. /\ q = req'[r] /\ stage'[r] = stage[r] /\ shown'[r] = shown[r]
      /\ status'[r] = status[r] /\ follows'[r] = follows[r]
  BY <1>2 DEF Written, readerVars
<1>4. q.kind \in {"listTransfers", "listEntries", "getTransfer"} => \A n \in shown[r] : Owns(q, n)'
  BY <1>1, <1>2, OwnsStays DEF Answering
<1>5. follows[r] => Owns(q, q.id)'
  BY <1>1, <1>2, OwnsStays DEF Answering
<1>6. stage[r] = "readRows" => q.kind = "listAccounts" \/ OwnOrGone(q)'
  <2>1. stage[r] = "readRows" /\ q.kind # "listAccounts" => q.account \in AccountId
    BY <1>1, <1>2, RequestFields DEF Answering
  <2> QED
    BY <1>1, <1>2, <2>1, OwnOrGoneStays DEF Answering
<1> QED
  BY <1>1, <1>2, <1>3, <1>4, <1>5, <1>6 DEF Answering

\* A list that is walked gets longer, and its rows move towards its end.
LEMMA WrittenWalking ==
    ASSUME ReadInv, ReadTypeOK', Written, NEW r \in Reader
    PROVE  Walking(r)'
<1>1. Walking(r) /\ walk[r] \in Walk \cup {NoWalk}
  BY DEF ReadInv, WalkInv, ReadTypeOK
<1>2. PICK w : w = walk[r]
  OBVIOUS
<1>3. CASE walk'[r] = NoWalk
  BY <1>3 DEF Walking
<1>4. CASE walk'[r] # NoWalk
  <2>1. /\ w = walk'[r] /\ w # NoWalk /\ w \in Walk
        /\ stage'[r] = stage[r] /\ req'[r] = req[r]
    BY <1>1, <1>2, <1>4 DEF Written, readerVars
  <2>2. PICK q \in ListAccounts \cup ListOf : q = w.list
    BY <2>1 DEF Walk
  <2>3. Rows(q) \subseteq Rows(q)'
    <3>1. CASE q.kind = "listAccounts"
      BY <1>2, <1>4, <2>1, <2>2, <3>1 DEF Written, Rows
    <3>2. CASE q.kind # "listAccounts"
      <4>1. q.kind = "listTransfers" \/ q.kind = "listEntries"
        BY <3>2 DEF ListAccounts, ListOf
      <4>2. TransfersOf(q.account) \subseteq TransfersOf(q.account)'
        BY DEF Written, TransfersOf
      <4>3. EntryNosOf(q.account) \subseteq EntryNosOf(q.account)'
        BY DEF Written, EntryNosOf, EntriesOf
      <4> QED
        BY <4>1, <4>2, <4>3 DEF Rows
    <3> QED
      BY <3>1, <3>2
  <2>4. IsFiniteSet(Rows(q)) /\ Rows(q) \subseteq Nat
    BY RowsFinite DEF ReadInv, ListsFinite
  <2>5. IsFiniteSet(Rows(q)') /\ Rows(q)' \subseteq Nat
    <3>1. ListsFinite'
      BY RowsFinite, ReadTypeOK', PTL
    <3> QED
      BY <3>1 DEF ListsFinite
  <2>6. ASSUME NEW x \in Rows(q) PROVE Ahead(q, x) <= Ahead(q, x)' /\ Ahead(q, x) \in Int /\ Ahead(q, x)' \in Int
    <3>1. Ahead(q, x) = Place(Rows(q), q.kind, x)
      BY DEF Ahead, Place
    <3>2. Ahead(q, x)' = Place(Rows(q)', q.kind, x)
      BY DEF Ahead, Place
    <3>3. Ahead(q, x) <= Ahead(q, x)'
      BY <2>3, <2>5, <3>1, <3>2, PlaceStays
    <3>4. Cardinality(Rows(q)) \in Nat /\ Place(Rows(q), q.kind, x) \in 0 .. Cardinality(Rows(q)) - 1
      BY <2>4, PlaceBounds, FS_CardinalityType
    <3>5. Cardinality(Rows(q)') \in Nat /\ Place(Rows(q)', q.kind, x) \in 0 .. Cardinality(Rows(q)') - 1
      BY <2>3, <2>5, PlaceBounds, FS_CardinalityType
    <3> QED
      BY <3>1, <3>2, <3>3, <3>4, <3>5
  <2>7. w.done => w.had \subseteq w.got
    BY <1>1, <1>2, <2>1 DEF Walking
  <2>8. ~w.done => /\ w.had \subseteq Rows(q)
                   /\ (w.next - 1) * q.size < HalfInt32 + q.size
                   /\ \A x \in w.had \ w.got : (w.next - 1) * q.size <= Ahead(q, x)
    BY <1>1, <1>2, <2>1, <2>2 DEF Walking
  <2>9. stage'[r] \in {"readAccount", "readRows"} => ~w.done /\ req'[r] = [q EXCEPT !.page = w.next]
    BY <1>1, <1>2, <2>1, <2>2 DEF Walking
  <2>10. (w.next - 1) * q.size \in Int
    <3>1. w.next \in Int
      BY <2>1 DEF Walk
    <3>2. q.size \in Int
      <4>1. q \in ReadRequest
        BY DEF ReadRequest
      <4> QED
        BY <4>1, RequestFields
    <3> QED
      BY <3>1, <3>2
  <2>11. ~w.done => /\ w.had \subseteq Rows(q)'
                    /\ (w.next - 1) * q.size < HalfInt32 + q.size
                    /\ \A x \in w.had \ w.got : (w.next - 1) * q.size <= Ahead(q, x)'
    <3> DEFINE o == (w.next - 1) * q.size
    <3> HIDE DEF o
    <3>1. ASSUME ~w.done, NEW x \in w.had \ w.got PROVE o <= Ahead(q, x)'
      BY <2>6, <2>8, <2>10, <3>1 DEF o
    <3> QED
      BY <2>3, <2>8, <3>1 DEF o
  <2> QED
    BY <2>1, <2>2, <2>7, <2>9, <2>11 DEF Walking
<1> QED
  BY <1>3, <1>4

-----------------------------------------------------------------------------
\* Writers are operations of the ledger, or leave it alone.
LEMMA WritesLedger == Writes => [LedgerNext]_ledgerVars
BY DEF Writes, LedgerNext, DrawAccount, OpenAccount, CloseAccount, InsertTransfer, InsertEntry, CommitTransfer

\* The entries of all calls.
Legs == Call \X {"from", "to"}

LEMMA LegsFinite == IsFiniteSet(Legs) /\ Cardinality(Legs) = 2 * Cardinality(Call)
<1>1. IsFiniteSet({"from", "to"}) /\ Cardinality({"from", "to"}) = 2
  <2>1. IsFiniteSet({"from"}) /\ Cardinality({"from"}) = 1
    BY FS_Singleton
  <2>2. IsFiniteSet({"from"} \cup {"to"}) /\ Cardinality({"from"} \cup {"to"}) = 1 + 1
    BY <2>1, FS_AddElement
  <2>3. {"from"} \cup {"to"} = {"from", "to"}
    OBVIOUS
  <2> QED
    BY <2>2, <2>3
<1>2. Cardinality(Call) \in Nat
  BY FS_CardinalityType
<1>3. IsFiniteSet(Legs) /\ Cardinality(Legs) = Cardinality(Call) * 2
  BY <1>1, FS_Product DEF Legs
<1> QED
  BY <1>2, <1>3

\* The parts of ReadTypeOK that writers change.
TablesOK ==
    /\ LedgerTypeOK
    /\ nextAccount \in Nat
    /\ DOMAIN accounts \cup drawn \subseteq {id \in AccountId : id < nextAccount}
    /\ DOMAIN accounts \cap drawn = {}
    /\ transferNo \in [Call -> RowNo \cup {0}]
    /\ entryNo \in [Legs -> RowNo \cup {0}]

LEMMA NumbersStay == NumberInv /\ UNCHANGED <<transferNo, entryNo, transfers, entries>> => NumberInv'
BY DEF NumberInv, Numbered, Used

LEMMA DrawKeeps == ASSUME ReadInv, DrawAccount PROVE NumberInv' /\ (LedgerTypeOK' => TablesOK')
<1>1. /\ nextAccount \in Nat
      /\ \A id \in DOMAIN accounts \cup drawn : id \in AccountId /\ id < nextAccount
      /\ DOMAIN accounts \cap drawn = {}
  BY DEF ReadInv, ReadTypeOK
<1>2. /\ nextAccount' \in Nat
      /\ \A id \in DOMAIN accounts' \cup drawn' : id \in AccountId /\ id < nextAccount'
      /\ DOMAIN accounts' \cap drawn' = {}
  <2>1. accounts' = accounts /\ drawn' = drawn \cup {nextAccount} /\ nextAccount \in AccountId
    BY DEF DrawAccount, ledgerVars
  <2>2. nextAccount' = nextAccount + 1
    BY DEF DrawAccount
  <2>3. ASSUME NEW id \in DOMAIN accounts' \cup drawn' PROVE id \in AccountId /\ id < nextAccount'
    <3>1. id \in DOMAIN accounts \cup drawn \/ id = nextAccount
      BY <2>1
    <3>2. CASE id \in DOMAIN accounts \cup drawn
      <4>1. id \in AccountId /\ id < nextAccount /\ id \in Nat
        BY <1>1, <3>2
      <4> QED
        BY <1>1, <2>2, <4>1
    <3>3. CASE id = nextAccount
      BY <1>1, <2>1, <2>2, <3>3
    <3> QED
      BY <3>1, <3>2, <3>3
  <2>4. nextAccount \notin DOMAIN accounts
    BY <1>1
  <2> QED
    BY <1>1, <2>1, <2>2, <2>3, <2>4
<1>3. UNCHANGED <<transferNo, entryNo, transfers, entries>>
  BY DEF DrawAccount, ledgerVars
<1>4. NumberInv'
  BY <1>3, NumbersStay DEF ReadInv
<1> QED
  BY <1>2, <1>3, <1>4 DEF ReadInv, ReadTypeOK, TablesOK, Legs

LEMMA OpenKeeps ==
    ASSUME ReadInv, NEW id \in AccountId, NEW owner \in Owner, NEW currency \in Currency,
           OpenAccount(id, owner, currency)
    PROVE  NumberInv' /\ (LedgerTypeOK' => TablesOK')
<1>1. /\ nextAccount \in Nat
      /\ \A x \in DOMAIN accounts \cup drawn : x \in AccountId /\ x < nextAccount
      /\ DOMAIN accounts \cap drawn = {}
  BY DEF ReadInv, ReadTypeOK
<1>2. /\ nextAccount' \in Nat
      /\ \A x \in DOMAIN accounts' \cup drawn' : x \in AccountId /\ x < nextAccount'
      /\ DOMAIN accounts' \cap drawn' = {}
  BY <1>1 DEF OpenAccount, Open
<1>3. UNCHANGED <<transferNo, entryNo, transfers, entries>>
  BY DEF OpenAccount, Open
<1>4. NumberInv'
  BY <1>3, NumbersStay DEF ReadInv
<1> QED
  BY <1>2, <1>3, <1>4 DEF ReadInv, ReadTypeOK, TablesOK, Legs

LEMMA CloseKeeps ==
    ASSUME ReadInv, NEW id \in AccountId, CloseAccount(id)
    PROVE  NumberInv' /\ (LedgerTypeOK' => TablesOK')
<1>1. DOMAIN accounts' \subseteq DOMAIN accounts
  BY DEF CloseAccount, Close
<1>2. UNCHANGED <<nextAccount, drawn, transferNo, entryNo, transfers, entries>>
  BY DEF CloseAccount, Close, numbers
<1>3. NumberInv'
  BY <1>2, NumbersStay DEF ReadInv
<1> QED
  BY <1>1, <1>2, <1>3 DEF ReadInv, ReadTypeOK, TablesOK, Legs

LEMMA InsertTransferKeeps ==
    ASSUME ReadInv, NEW c \in Call, InsertTransfer(c)
    PROVE  NumberInv' /\ (LedgerTypeOK' => TablesOK')
<1>1. /\ transferNo \in [Call -> RowNo \cup {0}] /\ transferNo[c] = 0
      /\ transferNo' = [transferNo EXCEPT ![c] = NextNo(transferNo)]
  BY DEF ReadInv, ReadTypeOK, InsertTransfer
<1>2. transferNo \in [Call -> Nat]
  BY <1>1, RowNoNat
<1>3. Numbered(transferNo') /\ transferNo'[c] \in 1 .. Cardinality(Call)
  BY <1>1, <1>2, NextNumbered DEF ReadInv, NumberInv
<1>4. transferNo'[c] \in RowNo /\ transferNo'[c] # 0
  BY <1>3, FS_CardinalityType DEF RowNo
<1>5. transferNo' \in [Call -> RowNo \cup {0}] /\ \A d \in Call \ {c} : transferNo'[d] = transferNo[d]
  BY <1>1, <1>4
<1>6. \A d \in Call : transferNo[d] # 0 => transferNo'[d] # 0
  BY <1>4, <1>5
<1>7. \A t \in transfers : t.id \in Call
  BY DEF ReadInv, ReadTypeOK, LedgerTypeOK, Transfer
<1>8. NumberInv'
  BY <1>3, <1>6, <1>7 DEF InsertTransfer, ledgerVars, ReadInv, NumberInv, Numbered, Used
<1> QED
  BY <1>5, <1>8 DEF InsertTransfer, ledgerVars, ReadInv, ReadTypeOK, TablesOK, Legs

LEMMA InsertEntryKeeps ==
    ASSUME ReadInv, NEW c \in Call, NEW leg \in {"from", "to"}, InsertEntry(c, leg)
    PROVE  NumberInv' /\ (LedgerTypeOK' => TablesOK')
<1> DEFINE x == <<c, leg>>
<1>1. /\ entryNo \in [Legs -> RowNo \cup {0}] /\ entryNo[x] = 0
      /\ entryNo' = [entryNo EXCEPT ![x] = NextNo(entryNo)] /\ x \in Legs
  BY DEF ReadInv, ReadTypeOK, InsertEntry, Legs
<1>2. entryNo \in [Legs -> Nat]
  BY <1>1, RowNoNat
<1> HIDE DEF x
<1>3. Numbered(entryNo') /\ entryNo'[x] \in 1 .. Cardinality(Legs)
  BY <1>1, <1>2, NextNumbered, LegsFinite DEF ReadInv, NumberInv
<1>4. entryNo'[x] \in RowNo /\ entryNo'[x] # 0
  BY <1>3, LegsFinite, FS_CardinalityType DEF RowNo
<1>5. entryNo' \in [Legs -> RowNo \cup {0}] /\ \A y \in Legs \ {x} : entryNo'[y] = entryNo[y]
  BY <1>1, <1>4
<1>6. \A y \in Legs : entryNo[y] # 0 => entryNo'[y] # 0
  BY <1>4, <1>5
<1>7. \A e \in entries : e.id \in Legs
  BY DEF ReadInv, ReadTypeOK, LedgerTypeOK, Entry, Legs
<1>8. transferNo' = transferNo /\ transfers' = transfers /\ entries' = entries
  BY DEF InsertEntry, ledgerVars
<1>9. ASSUME NEW d \in Call
      PROVE  /\ entryNo'[<<d, "to">>] # 0 => entryNo'[<<d, "from">>] # 0
             /\ entryNo'[<<d, "from">>] # 0 => transferNo'[d] # 0
  <2>1. <<d, "to">> \in Legs /\ <<d, "from">> \in Legs
    BY DEF Legs
  <2>2. /\ entryNo[<<d, "to">>] # 0 => entryNo[<<d, "from">>] # 0
        /\ entryNo[<<d, "from">>] # 0 => transferNo[d] # 0
    BY DEF ReadInv, NumberInv
  <2>3. x = <<d, "to">> => entryNo[<<d, "from">>] # 0
    BY DEF InsertEntry, x
  <2>4. x = <<d, "from">> => transferNo[d] # 0
    BY DEF InsertEntry, x
  <2> QED
    BY <1>5, <1>6, <1>8, <2>1, <2>2, <2>3, <2>4
<1>10. \A e \in entries' : entryNo'[e.id] # 0
  BY <1>6, <1>7, <1>8 DEF ReadInv, NumberInv
<1>11. NumberInv'
  BY <1>3, <1>8, <1>9, <1>10 DEF ReadInv, NumberInv, Numbered, Used
<1> QED
  BY <1>5, <1>11 DEF InsertEntry, ledgerVars, ReadInv, ReadTypeOK, TablesOK

LEMMA CommitKeeps ==
    ASSUME ReadInv, NEW c \in Call, NEW a \in TransferTxParams, CommitTransfer(c, a)
    PROVE  NumberInv' /\ (LedgerTypeOK' => TablesOK')
<1>1. LedgerTypeOK /\ Move(c, a)
  BY DEF ReadInv, ReadTypeOK, CommitTransfer
<1>2. DOMAIN accounts' = DOMAIN accounts
  BY <1>1, MoveRows
<1>3. nextAccount' = nextAccount /\ drawn' = drawn /\ transferNo' = transferNo /\ entryNo' = entryNo
  BY DEF CommitTransfer, numbers
<1>4. transferNo[c] # 0 /\ entryNo[<<c, "from">>] # 0 /\ entryNo[<<c, "to">>] # 0
  BY DEF CommitTransfer, ReadInv, NumberInv
<1>5. \A t, u \in transfers' : transferNo[t.id] # 0 /\ (t.id = u.id => t = u)
  <2>1. \A t \in transfers' : t \in transfers \/ t = TransferRow(c, a)
    BY <1>1 DEF Move
  <2>2. TransferRow(c, a).id = c /\ \A t \in transfers : t.id # c
    BY <1>1 DEF Move, TransferRow
  <2> QED
    BY <1>4, <2>1, <2>2 DEF ReadInv, NumberInv
<1>6. \A e \in entries' : entryNo[e.id] # 0
  <2>1. \A e \in entries' : e \in entries \/ e = FromEntry(c, a) \/ e = ToEntry(c, a)
    BY <1>1 DEF Move
  <2>2. FromEntry(c, a).id = <<c, "from">> /\ ToEntry(c, a).id = <<c, "to">>
    BY DEF FromEntry, ToEntry
  <2> QED
    BY <1>4, <2>1, <2>2 DEF ReadInv, NumberInv
<1>7. NumberInv'
  BY <1>3, <1>5, <1>6 DEF ReadInv, NumberInv, Numbered, Used
<1> QED
  BY <1>2, <1>3, <1>7 DEF ReadInv, ReadTypeOK, TablesOK, Legs

LEMMA WritesKeep == ReadInv /\ Writes => ReadInv'
<1> SUFFICES ASSUME ReadInv, Writes PROVE ReadInv'
  OBVIOUS
<1>1. Written
  BY WritesWritten
<1>2. LedgerTypeOK' /\ DoubleEntry'
  BY WritesLedger, LedgerTypeStep, DoubleEntryStep DEF ReadInv, ReadTypeOK
<1>3. NumberInv' /\ TablesOK'
  BY <1>2, DrawKeeps, OpenKeeps, CloseKeeps, InsertTransferKeeps, InsertEntryKeeps, CommitKeeps DEF Writes
<1>4. walk' \in [Reader -> Walk \cup {NoWalk}]
  <2>1. walk \in [Reader -> Walk \cup {NoWalk}]
    BY DEF ReadInv, ReadTypeOK
  <2>2. ASSUME NEW id \in AccountId, CloseAccount(id) PROVE walk' \in [Reader -> Walk \cup {NoWalk}]
    BY <2>1, <2>2 DEF CloseAccount
  <2>3. walk' = walk \/ \E id \in AccountId : CloseAccount(id)
    BY DEF Writes, DrawAccount, OpenAccount, InsertTransfer, InsertEntry, CommitTransfer
  <2> QED
    BY <2>1, <2>2, <2>3
<1>5. ReadTypeOK'
  BY <1>1, <1>3, <1>4 DEF Written, readerVars, ReadInv, ReadTypeOK, TablesOK, Legs
<1>6. ReaderInv' /\ WalkInv'
  BY <1>1, <1>5, WrittenAnswering, WrittenWalking DEF ReaderInv, WalkInv
<1> QED
  BY <1>2, <1>3, <1>5, <1>6 DEF ReadInv

-----------------------------------------------------------------------------
\* What a step of a reader leaves alone, and what it means for the others.
LEMMA TablesSame ==
    ASSUME UNCHANGED <<ledgerVars, numbers>>
    PROVE  /\ \A q, n : Owns(q, n)' <=> Owns(q, n)
           /\ \A q : OwnOrGone(q)' <=> OwnOrGone(q)
           /\ \A q \in ListAccounts \cup ListOf : Rows(q)' = Rows(q)
           /\ \A q \in ListAccounts \cup ListOf : \A x : Ahead(q, x)' = Ahead(q, x)
           /\ ReadTypeOK /\ NumberInv /\ DoubleEntry => TablesOK' /\ NumberInv' /\ DoubleEntry'
<1> USE DEF ledgerVars, numbers
<1>1. \A id : TransfersOf(id)' = TransfersOf(id) /\ EntryNosOf(id)' = EntryNosOf(id)
  BY DEF TransfersOf, EntryNosOf, EntriesOf
<1>2. \A q \in ListAccounts \cup ListOf : Rows(q)' = Rows(q)
  <2> TAKE q \in ListAccounts \cup ListOf
  <2>1. q.kind = "listAccounts" \/ q.kind = "listTransfers" \/ q.kind = "listEntries"
    BY DEF ListAccounts, ListOf
  <2> QED
    BY <1>1, <2>1 DEF Rows
<1>3. \A q \in ListAccounts \cup ListOf : \A x : Ahead(q, x)' = Ahead(q, x)
  BY <1>2 DEF Ahead
<1>4. \A q, n : Owns(q, n)' <=> Owns(q, n)
  BY <1>1 DEF Owns
<1>5. \A q : OwnOrGone(q)' <=> OwnOrGone(q)
  BY DEF OwnOrGone
<1>6. ReadTypeOK => TablesOK'
  BY DEF ReadTypeOK, LedgerTypeOK, TablesOK, Legs
<1>7. NumberInv /\ DoubleEntry => NumberInv' /\ DoubleEntry'
  BY NumbersStay DEF DoubleEntry
<1> QED
  BY <1>2, <1>3, <1>4, <1>5, <1>6, <1>7

\* The parts of ReadTypeOK that readers change.
ReadersOK ==
    /\ stage \in [Reader -> {"idle", "readAccount", "readRows", "replied"}]
    /\ req \in [Reader -> ReadRequest \cup {NoRequest}]
    /\ status \in [Reader -> {0, 200, 400, 403, 404, 500}]
    /\ shown \in [Reader -> SUBSET (AccountId \cup RowNo)]
    /\ sent \in [Reader -> 0 .. MaxRequests]
    /\ faults \in 0 .. MaxFaults
    /\ walk \in [Reader -> Walk \cup {NoWalk}]
    /\ follows \in [Reader -> BOOLEAN]

Same(r) ==
    /\ UNCHANGED <<ledgerVars, numbers>>
    /\ stage'[r] = stage[r] /\ req'[r] = req[r] /\ status'[r] = status[r]
    /\ shown'[r] = shown[r] /\ walk'[r] = walk[r] /\ follows'[r] = follows[r]

LEMMA WalkingKeeps ==
    ASSUME ReadInv, NEW r \in Reader, UNCHANGED <<ledgerVars, numbers>>, walk'[r] = walk[r],
           stage'[r] \in {"readAccount", "readRows"} =>
              stage[r] \in {"readAccount", "readRows"} /\ req'[r] = req[r]
    PROVE  Walking(r)'
<1>1. PICK w : w = walk[r]
  OBVIOUS
<1>2. w = walk'[r] /\ Walking(r) /\ w \in Walk \cup {NoWalk}
  BY <1>1 DEF ReadInv, WalkInv, ReadTypeOK
<1>3. CASE w = NoWalk
  BY <1>2, <1>3 DEF Walking
<1>4. CASE w # NoWalk
  <2>1. w.list \in ListAccounts \cup ListOf
    BY <1>2, <1>4 DEF Walk
  <2>2. Rows(w.list)' = Rows(w.list) /\ \A x : Ahead(w.list, x)' = Ahead(w.list, x)
    BY <2>1, TablesSame
  <2> QED
    BY <1>1, <1>2, <1>4, <2>2 DEF Walking
<1> QED
  BY <1>3, <1>4

LEMMA SameKeeps ==
    ASSUME ReadInv, NEW r \in Reader, Same(r)
    PROVE  Answering(r)' /\ Walking(r)'
<1>1. PICK q : q = req[r]
  OBVIOUS
<1>2. q = req'[r] /\ Answering(r) /\ UNCHANGED <<ledgerVars, numbers>>
  BY <1>1 DEF Same, ReadInv, ReaderInv
<1>3. Answering(r)'
  BY <1>1, <1>2, TablesSame DEF Answering, Same
<1>4. Walking(r)'
  BY WalkingKeeps DEF Same
<1> QED
  BY <1>3, <1>4

\* An answer without rows.
LEMMA ReplyKeeps ==
    ASSUME ReadInv, NEW r \in Reader, NEW code \in {403, 404, 500}, Reply(r, code),
           stage[r] \in {"readAccount", "readRows"}, follows[r] => code = 500,
           UNCHANGED <<ledgerVars, numbers, req, sent, follows>>, faults' \in 0 .. MaxFaults
    PROVE  Answering(r)' /\ Walking(r)' /\ ReadersOK'
<1>1. ReadersOK'
  BY DEF ReadInv, ReadTypeOK, ReadersOK, Reply
<1>2. /\ stage'[r] = "replied" /\ status'[r] = code /\ shown'[r] = shown[r] /\ walk'[r] = walk[r]
      /\ follows'[r] = follows[r] /\ req'[r] = req[r]
  BY DEF Reply, ReadInv, ReadTypeOK
<1>3. PICK q : q = req[r]
  OBVIOUS
<1>4. q = req'[r] /\ Answering(r)
  BY <1>2, <1>3 DEF ReadInv, ReaderInv
<1>5. Answering(r)'
  BY <1>2, <1>3, <1>4, TablesSame DEF Answering
<1>6. Walking(r)'
  BY <1>2, WalkingKeeps
<1> QED
  BY <1>1, <1>5, <1>6

\* An answer with one row.
LEMMA ShowKeeps ==
    ASSUME ReadInv, NEW r \in Reader, NEW row \in AccountId \cup RowNo, Show(r, {row}),
           stage[r] \in {"readAccount", "readRows"}, req[r].kind \notin List,
           req[r].kind = "getTransfer" => Owns(req[r], row),
           UNCHANGED <<ledgerVars, numbers, req, sent, faults, follows>>
    PROVE  Answering(r)' /\ Walking(r)' /\ ReadersOK'
<1>1. ReadersOK'
  BY DEF ReadInv, ReadTypeOK, ReadersOK, Show
<1>2. /\ stage'[r] = "replied" /\ status'[r] = 200 /\ shown'[r] = {row} /\ walk'[r] = walk[r]
      /\ follows'[r] = follows[r] /\ req'[r] = req[r]
  BY DEF Show, ReadInv, ReadTypeOK
<1>3. PICK q : q = req[r]
  OBVIOUS
<1>4. q = req'[r] /\ Answering(r)
  BY <1>2, <1>3 DEF ReadInv, ReaderInv
<1>5. q.kind \notin List /\ (q.kind = "getTransfer" => Owns(q, row))
  BY <1>3
<1>6. Answering(r)'
  BY <1>2, <1>3, <1>4, <1>5, TablesSame DEF Answering, List
<1>7. Walking(r)'
  BY <1>2, WalkingKeeps
<1> QED
  BY <1>1, <1>6, <1>7

-----------------------------------------------------------------------------
\* GetAccount and the comparison of its owner.
LEMMA ReadAccountKeeps ==
    ASSUME ReadInv, NEW r \in Reader, ReadAccount(r)
    PROVE  Answering(r)' /\ Walking(r)' /\ ReadersOK'
<1>1. PICK q : q = req[r]
  OBVIOUS
<1>2. /\ stage[r] = "readAccount" /\ q \in ReadRequest /\ q.kind # "listAccounts" /\ Answering(r)
      /\ q.account \in AccountId
  <2>1. stage[r] = "readAccount" /\ Answering(r)
    BY DEF ReadAccount, ReadInv, ReaderInv
  <2>2. q \in ReadRequest /\ q.kind # "listAccounts"
    BY <1>1, <2>1 DEF Answering
  <2> QED
    BY <2>1, <2>2, RequestFields
<1>3. UNCHANGED <<ledgerVars, numbers, req, sent, faults, follows>> /\ faults' \in 0 .. MaxFaults
  BY DEF ReadAccount, ReadInv, ReadTypeOK
<1>4. CASE \/ q.account \notin DOMAIN accounts /\ Reply(r, 404)
           \/ q.account \in DOMAIN accounts /\ accounts[q.account].owner # q.user /\ Reply(r, 403)
  <2>1. ~follows[r]
    BY <1>1, <1>2, <1>4 DEF Answering, Owns
  <2> QED
    BY <1>2, <1>3, <1>4, <2>1, ReplyKeeps
<1>5. CASE q.kind = "getAccount" /\ Show(r, {q.account})
  BY <1>1, <1>2, <1>3, <1>5, ShowKeeps DEF List
<1>6. CASE /\ q.account \in DOMAIN accounts /\ accounts[q.account].owner = q.user
           /\ Go(r, "readRows")
  <2>1. ReadersOK'
    BY <1>3, <1>6 DEF ReadInv, ReadTypeOK, ReadersOK, Go
  <2>2. /\ stage'[r] = "readRows" /\ status'[r] = status[r] /\ shown'[r] = shown[r]
        /\ walk'[r] = walk[r] /\ follows'[r] = follows[r] /\ q = req'[r]
    BY <1>1, <1>3, <1>6 DEF Go, ReadInv, ReadTypeOK
  <2>3. OwnOrGone(q)
    <3>1. /\ DOMAIN accounts \cup drawn \subseteq {id \in AccountId : id < nextAccount}
          /\ DOMAIN accounts \cap drawn = {}
      BY DEF ReadInv, ReadTypeOK
    <3> QED
      BY <1>6, <3>1 DEF OwnOrGone
  <2>4. Answering(r)'
    BY <1>1, <1>2, <1>3, <2>2, <2>3, TablesSame DEF Answering
  <2>5. Walking(r)'
    BY <1>1, <1>2, <1>3, <2>2, WalkingKeeps
  <2> QED
    BY <2>1, <2>4, <2>5
<1> QED
  BY <1>1, <1>4, <1>5, <1>6 DEF ReadAccount

\* GetTransfer: whose transfers a list shows can fetch each of them.
LEMMA ReadTransferKeeps ==
    ASSUME ReadInv, NEW r \in Reader, ReadTransfer(r)
    PROVE  Answering(r)' /\ Walking(r)' /\ ReadersOK'
<1>1. PICK q : q = req[r]
  OBVIOUS
<1>2. /\ stage[r] = "readRows" /\ q.kind = "getTransfer" /\ q \in ReadRequest /\ q.id \in RowNo
      /\ OwnOrGone(q) /\ Answering(r)
  <2>1. stage[r] = "readRows" /\ q.kind = "getTransfer" /\ Answering(r)
    BY <1>1 DEF ReadTransfer, ReadInv, ReaderInv
  <2>2. q \in ReadRequest /\ OwnOrGone(q)
    BY <1>1, <2>1 DEF Answering
  <2> QED
    BY <2>1, <2>2, RequestFields
<1>3. UNCHANGED <<ledgerVars, numbers, req, sent, faults, follows>> /\ faults' \in 0 .. MaxFaults
  BY DEF ReadTransfer, ReadInv, ReadTypeOK
<1>4. follows[r] => \E u \in transfers : transferNo[u.id] = q.id /\ q.account \in {u.from, u.to}
  BY <1>1, <1>2 DEF Answering, Owns, TransfersOf
<1>5. CASE TransferOf(q.id) = {} /\ Reply(r, 404)
  <2>1. ~follows[r]
    BY <1>4, <1>5 DEF TransferOf
  <2> QED
    BY <1>2, <1>3, <1>5, <2>1, ReplyKeeps
<1>6. ASSUME NEW t \in TransferOf(q.id), q.account \in {t.from, t.to}, Show(r, {q.id})
      PROVE  Answering(r)' /\ Walking(r)' /\ ReadersOK'
  <2>1. t \in transfers /\ transferNo[t.id] = q.id
    BY DEF TransferOf
  <2>2. q.id \in TransfersOf(q.account)
    BY <1>6, <2>1 DEF TransfersOf
  <2>3. q.account \in DOMAIN accounts /\ accounts[q.account].owner = q.user
    BY <1>2, <1>6, <2>1, RowsHaveAccounts DEF ReadInv, OwnOrGone
  <2>4. Owns(q, q.id)
    BY <1>2, <2>2, <2>3 DEF Owns
  <2> QED
    BY <1>1, <1>2, <1>3, <1>6, <2>4, ShowKeeps DEF List
<1>7. ASSUME NEW t \in TransferOf(q.id), q.account \notin {t.from, t.to}, Reply(r, 403)
      PROVE  Answering(r)' /\ Walking(r)' /\ ReadersOK'
  <2>1. t \in transfers /\ transferNo[t.id] = q.id
    BY DEF TransferOf
  <2>2. ASSUME NEW u \in transfers, transferNo[u.id] = q.id PROVE u = t
    <3>1. t.id \in Call /\ u.id \in Call /\ DOMAIN transferNo = Call
      BY <2>1 DEF ReadInv, ReadTypeOK, LedgerTypeOK, Transfer
    <3>2. transferNo[t.id] # 0
      BY <2>1 DEF ReadInv, NumberInv
    <3>3. t.id = u.id
      BY <2>1, <2>2, <3>1, <3>2 DEF ReadInv, NumberInv, Numbered
    <3> QED
      BY <2>1, <3>3 DEF ReadInv, NumberInv
  <2>3. ~follows[r]
    BY <1>4, <1>7, <2>2
  <2> QED
    BY <1>2, <1>3, <1>7, <2>3, ReplyKeeps
<1> QED
  BY <1>1, <1>5, <1>6, <1>7 DEF ReadTransfer

\* GetEntry.
LEMMA ReadEntryKeeps ==
    ASSUME ReadInv, NEW r \in Reader, ReadEntry(r)
    PROVE  Answering(r)' /\ Walking(r)' /\ ReadersOK'
<1>1. PICK q : q = req[r]
  OBVIOUS
<1>2. stage[r] = "readRows" /\ q.kind = "getEntry" /\ q \in ReadRequest /\ q.id \in RowNo /\ Answering(r)
  <2>1. stage[r] = "readRows" /\ q.kind = "getEntry" /\ Answering(r)
    BY <1>1 DEF ReadEntry, ReadInv, ReaderInv
  <2>2. q \in ReadRequest
    BY <1>1, <2>1 DEF Answering
  <2> QED
    BY <2>1, <2>2, RequestFields
<1>3. UNCHANGED <<ledgerVars, numbers, req, sent, faults, follows>> /\ faults' \in 0 .. MaxFaults
  BY DEF ReadEntry, ReadInv, ReadTypeOK
<1>4. CASE EntryOf(q.id) = {} /\ Reply(r, 404)
  <2>1. follows[r] => \E e \in entries : entryNo[e.id] = q.id
    BY <1>1, <1>2 DEF Answering, Owns, EntryNosOf, EntriesOf
  <2>2. ~follows[r]
    BY <1>4, <2>1 DEF EntryOf
  <2> QED
    BY <1>2, <1>3, <1>4, <2>2, ReplyKeeps
<1>5. CASE Show(r, {q.id})
  BY <1>1, <1>2, <1>3, <1>5, ShowKeeps DEF List
<1> QED
  BY <1>1, <1>4, <1>5 DEF ReadEntry

LEMMA QueryFailsKeeps ==
    ASSUME ReadInv, NEW r \in Reader, QueryFails(r)
    PROVE  Answering(r)' /\ Walking(r)' /\ ReadersOK'
<1>1. faults' \in 0 .. MaxFaults
  BY DEF QueryFails, ReadInv, ReadTypeOK
<1> QED
  BY <1>1, ReplyKeeps DEF QueryFails

-----------------------------------------------------------------------------
\* A row of a list has a place in it.
LEMMA AheadIsNat ==
    ASSUME ReadTypeOK, NEW q \in ListAccounts \cup ListOf, NEW x \in Rows(q)
    PROVE  Ahead(q, x) \in Nat
<1>1. IsFiniteSet(Rows(q)) /\ Rows(q) \subseteq Int
  BY RowsFinite DEF ListsFinite
<1>2. Cardinality(Rows(q)) \in Nat /\ Place(Rows(q), q.kind, x) \in 0 .. Cardinality(Rows(q)) - 1
  BY <1>1, PlaceBounds, FS_CardinalityType
<1> QED
  BY <1>2 DEF Ahead, Place

\* A request starts a walk, goes on with one, or ends it.
LEMMA WalkStarts ==
    ASSUME ReadInv, NEW r \in Reader, NEW q \in ReadRequest, Receive(r, q), q.kind \in List, q.page = 1
    PROVE  Walking(r)' /\ walk'[r] \in Walk
<1>1. q \in ListAccounts \cup ListOf /\ q.size \in Nat /\ ReadTypeOK
  BY RequestFields DEF ReadInv
<1>2. UNCHANGED <<ledgerVars, numbers>> /\ req'[r] = q
  BY DEF Receive, ReadInv, ReadTypeOK
<1>3. walk'[r] = [list |-> q, next |-> 1, had |-> Rows(q), got |-> {}, done |-> FALSE]
  BY DEF Receive, NextWalk, ReadInv, ReadTypeOK
<1>4. Rows(q) \subseteq Nat
  BY <1>1, RowsFinite DEF ListsFinite
<1>5. 1 \in 1 .. MaxPage + 1
  OBVIOUS
<1>6. walk'[r] \in Walk
  BY <1>1, <1>3, <1>4, <1>5 DEF Walk
<1>7. Rows(q)' = Rows(q) /\ \A x \in Rows(q) : Ahead(q, x)' \in Nat
  BY <1>1, <1>2, TablesSame, AheadIsNat
<1>8. PICK w : w = walk'[r]
  OBVIOUS
<1>9. w.list = q /\ w.next = 1 /\ w.had = Rows(q) /\ w.got = {} /\ w.done = FALSE
  BY <1>3, <1>8
<1>10. (w.next - 1) * q.size = 0
  BY <1>1, <1>9
<1>11. (w.next - 1) * q.size < HalfInt32 + q.size
  BY <1>1, <1>10
<1>12. \A x \in w.had \ w.got : (w.next - 1) * q.size <= Ahead(q, x)'
  BY <1>7, <1>9, <1>10
<1>13. req'[r] = [q EXCEPT !.page = w.next]
  BY <1>1, <1>2, <1>9, SamePage
<1>14. Walking(r)'
  BY <1>7, <1>8, <1>9, <1>11, <1>12, <1>13 DEF Walking
<1> QED
  BY <1>6, <1>14

LEMMA WalkContinues ==
    ASSUME ReadInv, NEW r \in Reader, NEW q \in ReadRequest, Receive(r, q),
           q.kind \notin List \/ q.page # 1
    PROVE  Walking(r)' /\ walk'[r] \in Walk \cup {NoWalk}
<1>1. PICK w : w = walk[r]
  OBVIOUS
<1>2. UNCHANGED <<ledgerVars, numbers>> /\ req'[r] = q
  BY DEF Receive, ReadInv, ReadTypeOK
<1>3. walk'[r] = NextWalk(w, q)
  BY <1>1 DEF Receive, ReadInv, ReadTypeOK
<1>4. walk'[r] = NoWalk \/ (walk'[r] = w /\ Continues(w, q))
  BY <1>3 DEF NextWalk
<1>5. Walking(r) /\ w \in Walk \cup {NoWalk}
  BY <1>1 DEF ReadInv, WalkInv, ReadTypeOK
<1>6. CASE walk'[r] = NoWalk
  BY <1>6 DEF Walking
<1>7. CASE walk'[r] = w /\ w # NoWalk /\ Continues(w, q)
  <2>1. w.list \in ListAccounts \cup ListOf
    BY <1>5, <1>7 DEF Walk
  <2>2. Rows(w.list)' = Rows(w.list) /\ \A x : Ahead(w.list, x)' = Ahead(w.list, x)
    BY <1>2, <2>1, TablesSame
  <2>3. ~w.done /\ q = [w.list EXCEPT !.page = w.next]
    BY <1>7 DEF Continues
  <2>4. Walking(r)'
    BY <1>1, <1>2, <1>5, <1>7, <2>2, <2>3 DEF Walking
  <2> QED
    BY <1>5, <1>7, <2>4
<1> QED
  BY <1>4, <1>6, <1>7

\* A reader sends a request.
LEMMA ReceiveKeeps ==
    ASSUME ReadInv, NEW r \in Reader, NEW q \in ReadRequest, Receive(r, q)
    PROVE  Answering(r)' /\ Walking(r)' /\ ReadersOK'
<1>1. Walking(r)' /\ walk'[r] \in Walk \cup {NoWalk}
  BY WalkStarts, WalkContinues
<1>2. UNCHANGED <<ledgerVars, numbers>>
  BY DEF Receive
<1>3. /\ req'[r] = q /\ shown'[r] = {}
      /\ follows'[r] = (q.kind \in {"getTransfer", "getEntry"} /\ Follows(req[r], q, shown[r]))
      /\ \/ ~Binds(q) /\ stage'[r] = "replied" /\ status'[r] = 400
         \/ Binds(q) /\ q.kind = "listAccounts" /\ stage'[r] = "readRows" /\ status'[r] = 0
         \/ Binds(q) /\ q.kind # "listAccounts" /\ stage'[r] = "readAccount" /\ status'[r] = 0
  BY DEF Receive, ReadInv, ReadTypeOK
<1>4. PICK p : p = req[r]
  OBVIOUS
<1>5. follows'[r] => Owns(q, q.id)
  <2>1. ASSUME follows'[r] PROVE Owns(q, q.id)
    <3>1. Follows(p, q, shown[r]) /\ Answering(r)
      BY <1>3, <1>4, <2>1 DEF ReadInv, ReaderInv
    <3>2. CASE p.kind = "listTransfers" /\ q = [kind |-> "getTransfer", user |-> p.user,
                                                account |-> p.account, id |-> q.id] /\ q.id \in shown[r]
      <4>1. Owns(p, q.id)
        BY <1>4, <3>1, <3>2 DEF Answering
      <4>2. q.kind = "getTransfer" /\ q.user = p.user /\ q.account = p.account
        BY <3>2
      <4> QED
        BY <3>2, <4>1, <4>2 DEF Owns
    <3>3. CASE p.kind = "listEntries" /\ q = [kind |-> "getEntry", user |-> p.user,
                                              account |-> p.account, id |-> q.id] /\ q.id \in shown[r]
      <4>1. Owns(p, q.id)
        BY <1>4, <3>1, <3>3 DEF Answering
      <4>2. q.kind = "getEntry" /\ q.user = p.user /\ q.account = p.account
        BY <3>3
      <4> QED
        BY <3>3, <4>1, <4>2 DEF Owns
    <3> QED
      BY <3>1, <3>2, <3>3 DEF Follows
  <2> QED
    BY <2>1
<1>6. follows'[r] => q.kind \in {"getTransfer", "getEntry"} /\ status'[r] = 0
  BY <1>3 DEF Binds, List
<1>7. Answering(r)'
  BY <1>2, <1>3, <1>5, <1>6, TablesSame DEF Answering
<1>8. ReadersOK'
  <2>1. walk' \in [Reader -> Walk \cup {NoWalk}]
    <3>1. walk \in [Reader -> Walk \cup {NoWalk}] /\ walk' = [walk EXCEPT ![r] = NextWalk(@, q)]
      BY DEF Receive, ReadInv, ReadTypeOK
    <3> QED
      BY <1>1, <3>1
  <2>2. follows' \in [Reader -> BOOLEAN]
    <3>1. follows' = [follows EXCEPT ![r] = q.kind \in {"getTransfer", "getEntry"}
                                              /\ Follows(req[r], q, shown[r])]
      BY DEF Receive
    <3>2. follows \in [Reader -> BOOLEAN]
      BY DEF ReadInv, ReadTypeOK
    <3> QED
      BY <3>1, <3>2 DEF Follows
  <2>3. /\ stage' \in [Reader -> {"idle", "readAccount", "readRows", "replied"}]
        /\ status' \in [Reader -> {0, 200, 400, 403, 404, 500}]
    BY DEF Receive, ReadInv, ReadTypeOK
  <2>4. req' \in [Reader -> ReadRequest \cup {NoRequest}] /\ shown' \in [Reader -> SUBSET (AccountId \cup RowNo)]
    BY DEF Receive, ReadInv, ReadTypeOK
  <2>5. sent' \in [Reader -> 0 .. MaxRequests] /\ faults' \in 0 .. MaxFaults
    BY DEF Receive, ReadInv, ReadTypeOK
  <2> QED
    BY <2>1, <2>2, <2>3, <2>4, <2>5 DEF ReadersOK
<1> QED
  BY <1>1, <1>7, <1>8

-----------------------------------------------------------------------------
\* The page a walk asks for next is the one behind those it has read; what is
\* not on it is behind it too, and nothing is when it is not full.
LEMMA PageWalked ==
    ASSUME ReadTypeOK, NEW q \in ListAccounts \cup ListOf, NEW n \in Nat, NEW size \in Nat \ {0},
           Offset(q) = n, q.size = size, NEW x \in Rows(q), n <= Ahead(q, x), x \notin Page(q)
    PROVE  n + size <= Ahead(q, x) /\ ~(Cardinality(Page(q)) < size)
<1>1. IsFiniteSet(Rows(q)) /\ Rows(q) \subseteq Int
  BY RowsFinite DEF ListsFinite
<1>2. Ahead(q, x) \in Nat
  BY AheadIsNat
<1>3. n + size <= Ahead(q, x)
  <2>1. Ahead(q, x) \notin n .. n + size - 1
    BY DEF Page
  <2> QED
    BY <1>2, <2>1
<1>4. Ahead(q, x) = Place(Rows(q), q.kind, x)
  BY DEF Ahead, Place
<1>5. size <= Cardinality(PlacesOf(Rows(q), q.kind, n, size))
  <2>1. n + size <= Place(Rows(q), q.kind, x) /\ size \in Nat
    BY <1>3, <1>4
  <2> QED
    BY <1>1, <2>1, FullPage
<1>6. Page(q) = PlacesOf(Rows(q), q.kind, n, size)
  BY DEF Page, PlacesOf, Ahead, Place
<1>7. IsFiniteSet(Page(q)) /\ Cardinality(Page(q)) \in Nat
  BY <1>1, FS_Subset, FS_CardinalityType DEF Page
<1> QED
  BY <1>3, <1>5, <1>6, <1>7

\* ListAccounts, ListTransfers, ListEntries.
LEMMA ListKeeps ==
    ASSUME ReadInv, NEW r \in Reader, stage[r] = "readRows", req[r].kind \in List,
           Offset(req[r]) >= 0, Show(r, Page(req[r])),
           UNCHANGED <<ledgerVars, numbers, req, sent, faults, follows>>
    PROVE  Answering(r)' /\ Walking(r)' /\ ReadersOK'
<1>1. PICK q, w : q = req[r] /\ w = walk[r]
  OBVIOUS
<1>2. /\ Answering(r) /\ Walking(r) /\ ReadTypeOK /\ w \in Walk \cup {NoWalk}
      /\ q \in ReadRequest /\ q.kind \in List /\ Binds(q)
      /\ q.kind = "listAccounts" \/ OwnOrGone(q)
  BY <1>1 DEF ReadInv, ReaderInv, WalkInv, ReadTypeOK, Answering
<1>3. q \in ListAccounts \cup ListOf /\ q.page \in 1 .. MaxPage /\ q.size \in Nat
  BY <1>2, RequestFields
<1>4. /\ stage'[r] = "replied" /\ status'[r] = 200 /\ shown'[r] = Page(q)
      /\ walk'[r] = Walked(w, q, Page(q)) /\ follows'[r] = follows[r] /\ q = req'[r]
  BY <1>1, <1>2 DEF Show, ReadTypeOK
<1>5. /\ IsFiniteSet(Rows(q)) /\ Rows(q) \subseteq Nat
      /\ Page(q) \subseteq Rows(q)
  BY <1>2, <1>3, RowsFinite DEF ListsFinite, Page
<1>6. q.kind \in {"listTransfers", "listEntries", "getTransfer"} => \A n \in Page(q) : Owns(q, n)
  <2> SUFFICES ASSUME q.kind \in {"listTransfers", "listEntries", "getTransfer"}, NEW n \in Page(q)
               PROVE  Owns(q, n)
    OBVIOUS
  <2>1. CASE q.kind = "listTransfers"
    <3>1. n \in TransfersOf(q.account)
      BY <1>5, <2>1 DEF Rows
    <3>2. q.account \in DOMAIN accounts
      BY <3>1, RowsHaveAccounts DEF TransfersOf, ReadInv
    <3> QED
      BY <1>2, <2>1, <3>1, <3>2 DEF Owns, OwnOrGone
  <2>2. CASE q.kind = "listEntries"
    <3>1. n \in EntryNosOf(q.account)
      BY <1>5, <2>2 DEF Rows
    <3>2. q.account \in DOMAIN accounts
      BY <3>1, RowsHaveAccounts DEF EntryNosOf, EntriesOf, ReadInv
    <3> QED
      BY <1>2, <2>2, <3>1, <3>2 DEF Owns, OwnOrGone
  <2> QED
    BY <1>2, <2>1, <2>2 DEF List
<1>7. Answering(r)'
  <2>1. ~follows[r]
    BY <1>1, <1>2 DEF Answering, List
  <2> QED
    BY <1>2, <1>4, <1>6, <2>1, TablesSame DEF Answering
<1>8. Walking(r)' /\ walk'[r] \in Walk \cup {NoWalk}
  <2>1. CASE w = NoWalk
    BY <1>4, <2>1 DEF Walked, Walking
  <2>2. CASE w # NoWalk
    <3>1. PICK p \in ListAccounts \cup ListOf : p = w.list
      BY <1>2, <2>2 DEF Walk
    <3>2. w \in Walk /\ ~w.done /\ q = [p EXCEPT !.page = w.next]
      BY <1>1, <1>2, <2>2, <3>1 DEF Walking
    <3>3. /\ q.page = w.next /\ p.kind = q.kind /\ p.user = q.user /\ p.size = q.size
          /\ q.kind # "listAccounts" => p.account = q.account
      BY <3>2, PageFields
    <3>4. Rows(p) = Rows(q) /\ \A x : Ahead(p, x) = Ahead(q, x)
      BY <1>3, <3>3, SameRows
    <3>5. PICK size, n : size = q.size /\ n = (w.next - 1) * q.size
      OBVIOUS
    <3>6. /\ w.had \subseteq Rows(q)
          /\ n < HalfInt32 + size
          /\ \A x \in w.had \ w.got : n <= Ahead(q, x)
      BY <1>1, <1>2, <2>2, <3>1, <3>2, <3>3, <3>4, <3>5 DEF Walking
    <3>7. size \in 1 .. HalfInt32 /\ w.next \in 1 .. MaxPage
      <4>1. /\ size \in MinPageSize[q.kind] .. MaxPageSize[q.kind]
            /\ MinPageSize[q.kind] \in Nat \ {0} /\ MaxPageSize[q.kind] \in 0 .. HalfInt32
        BY <1>2, <3>5 DEF Binds
      <4> QED
        BY <1>3, <3>3, <4>1
    <3>8. n \in Nat /\ w.next * size = n + size
      BY <3>5, <3>7
    <3>9. Offset(q) = n /\ n < HalfInt32
      <4>1. Offset(q) = Int32(n) /\ Offset(q) >= 0
        BY <1>1, <3>3, <3>5 DEF Offset
      <4>2. n < 2 * HalfInt32
        BY <3>6, <3>7, <3>8
      <4>3. Int32(n) = IF n < HalfInt32 THEN n ELSE n - 2 * HalfInt32
        BY <3>8, <4>2, Wraps
      <4> QED
        BY <3>8, <4>1, <4>2, <4>3
    <3>10. PICK v : v = walk'[r]
      OBVIOUS
    <3>11. /\ v = [w EXCEPT !.next = @ + 1, !.got = @ \cup Page(q), !.done = Cardinality(Page(q)) < size]
           /\ v # NoWalk => v = walk'[r]
      BY <1>4, <2>2, <3>5, <3>10 DEF Walked
    <3>12. /\ v.list = p /\ v.next = w.next + 1 /\ v.had = w.had /\ v.got = w.got \cup Page(q)
           /\ v.done = (Cardinality(Page(q)) < size)
      BY <3>1, <3>2, <3>11 DEF Walk
    <3>13. v \in Walk
      <4>1. w.next + 1 \in 1 .. MaxPage + 1
        BY <3>7
      <4>2. w.got \cup Page(q) \in SUBSET Nat
        BY <1>5, <3>2 DEF Walk
      <4>3. \A m \in 1 .. MaxPage + 1, g \in SUBSET Nat, b \in BOOLEAN :
               [w EXCEPT !.next = m, !.got = g, !.done = b] \in Walk
        BY <3>2, Zenon DEF Walk
      <4>4. (Cardinality(Page(q)) < size) \in BOOLEAN
        OBVIOUS
      <4> QED
        BY <3>11, <4>1, <4>2, <4>3, <4>4, Zenon
    <3>14. ASSUME NEW x \in v.had \ v.got
           PROVE  x \in Rows(q) /\ n + size <= Ahead(q, x) /\ ~v.done
      <4>1. x \in Rows(q) /\ n <= Ahead(q, x) /\ x \notin Page(q)
        BY <3>6, <3>12
      <4>2. n + size <= Ahead(q, x) /\ ~(Cardinality(Page(q)) < size)
        BY <1>2, <1>3, <3>5, <3>7, <3>8, <3>9, <4>1, PageWalked
      <4> QED
        BY <3>12, <4>1, <4>2
    <3>15. (v.next - 1) * p.size = n + size
      <4>1. (w.next + 1) - 1 = w.next
        BY <3>7
      <4> QED
        BY <3>3, <3>5, <3>8, <3>12, <4>1
    <3>16. n + size < HalfInt32 + size
      BY <3>7, <3>8, <3>9
    <3>17. Rows(p)' = Rows(q) /\ \A x : Ahead(p, x)' = Ahead(q, x)
      BY <3>4, TablesSame
    <3>18. v.had \subseteq Rows(p)'
      BY <3>6, <3>12, <3>17
    <3>19. v.done => v.had \subseteq v.got
      BY <3>14
    <3>20. (v.next - 1) * p.size < HalfInt32 + p.size
      BY <3>3, <3>5, <3>15, <3>16
    <3>21. \A x \in v.had \ v.got : (v.next - 1) * p.size <= Ahead(p, x)'
      BY <3>14, <3>15, <3>17
    <3>22. Walking(r)'
      BY <1>4, <3>10, <3>12, <3>18, <3>19, <3>20, <3>21 DEF Walking
    <3> QED
      BY <3>10, <3>13, <3>22
  <2> QED
    BY <2>1, <2>2
<1>9. ReadersOK'
  <2>1. Page(q) \subseteq AccountId \cup RowNo
    <3>1. CASE q.kind = "listAccounts"
      BY <1>2, <1>5, <3>1 DEF Rows, ReadTypeOK, LedgerTypeOK
    <3>2. CASE q.kind = "listTransfers"
      <4>1. \A t \in transfers : transferNo[t.id] \in RowNo
        BY <1>2 DEF ReadInv, NumberInv, ReadTypeOK, LedgerTypeOK, Transfer
      <4> QED
        BY <1>5, <3>2, <4>1 DEF Rows, TransfersOf
    <3>3. CASE q.kind = "listEntries"
      <4>1. \A e \in entries : entryNo[e.id] \in RowNo
        BY <1>2 DEF ReadInv, NumberInv, ReadTypeOK, LedgerTypeOK, Entry
      <4> QED
        BY <1>5, <3>3, <4>1 DEF Rows, EntryNosOf, EntriesOf
    <3> QED
      BY <1>2, <3>1, <3>2, <3>3 DEF List
  <2>2. shown' \in [Reader -> SUBSET (AccountId \cup RowNo)]
    BY <1>1, <1>2, <2>1 DEF Show, ReadTypeOK
  <2>3. walk' \in [Reader -> Walk \cup {NoWalk}]
    <3>1. walk \in [Reader -> Walk \cup {NoWalk}] /\ walk' = [walk EXCEPT ![r] = Walked(@, req[r], Page(req[r]))]
      BY <1>1, <1>2 DEF Show, ReadTypeOK
    <3> QED
      BY <1>8, <3>1
  <2> QED
    BY <1>2, <2>2, <2>3 DEF Show, ReadTypeOK, ReadersOK
<1> QED
  BY <1>7, <1>8, <1>9

LEMMA ReadListKeeps ==
    ASSUME ReadInv, NEW r \in Reader, ReadList(r)
    PROVE  Answering(r)' /\ Walking(r)' /\ ReadersOK'
<1>1. CASE Reply(r, 500)
  BY <1>1, ReplyKeeps DEF ReadList, ReadInv, ReadTypeOK
<1>2. CASE Offset(req[r]) >= 0 /\ Show(r, Page(req[r]))
  BY <1>2, ListKeeps DEF ReadList
<1> QED
  BY <1>1, <1>2 DEF ReadList

LEMMA ReadsKeep == ASSUME ReadInv, NEW r \in Reader, Reads(r) PROVE ReadInv'
<1>1. PICK q \in ReadRequest : \/ Receive(r, q) \/ ReadAccount(r) \/ ReadTransfer(r)
                               \/ ReadEntry(r) \/ ReadList(r) \/ QueryFails(r)
  <2>1. req[r] \in ReadRequest \cup {NoRequest}
    BY DEF ReadInv, ReadTypeOK
  <2>2. stage[r] # "idle" => req[r] \in ReadRequest
    BY DEF ReadInv, ReaderInv, Answering
  <2>3. CASE \E q \in {x \in ReadRequest : x.kind \in Kind /\ x.user \in User} : Receive(r, q)
    BY <2>3
  <2>4. CASE ReadAccount(r) \/ ReadTransfer(r) \/ ReadEntry(r) \/ ReadList(r) \/ QueryFails(r)
    <3>1. stage[r] # "idle"
      BY <2>4 DEF ReadAccount, ReadTransfer, ReadEntry, ReadList, QueryFails
    <3> QED
      BY <2>2, <2>4, <3>1
  <2> QED
    BY <2>3, <2>4 DEF Reads
<1>2. UNCHANGED <<ledgerVars, numbers>>
  BY <1>1 DEF Receive, ReadAccount, ReadTransfer, ReadEntry, ReadList, QueryFails
<1>3. Answering(r)' /\ Walking(r)' /\ ReadersOK'
  BY <1>1, ReceiveKeeps, ReadAccountKeeps, ReadTransferKeeps, ReadEntryKeeps, ReadListKeeps, QueryFailsKeeps
<1>4. ASSUME NEW o \in Reader \ {r} PROVE Answering(o)' /\ Walking(o)'
  <2>1. Same(o)
    <3> USE <1>1, <1>2 DEF Same, ReadInv, ReadTypeOK, Reply, Show, Go
    <3>1. CASE Receive(r, q)
      BY <3>1 DEF Receive
    <3>2. CASE ReadAccount(r)
      BY <3>2 DEF ReadAccount
    <3>3. CASE ReadTransfer(r)
      BY <3>3 DEF ReadTransfer
    <3>4. CASE ReadEntry(r)
      BY <3>4 DEF ReadEntry
    <3>5. CASE ReadList(r)
      BY <3>5 DEF ReadList
    <3>6. CASE QueryFails(r)
      BY <3>6 DEF QueryFails
    <3> QED
      BY <3>1, <3>2, <3>3, <3>4, <3>5, <3>6
  <2> QED
    BY <2>1, SameKeeps
<1>5. TablesOK' /\ NumberInv' /\ DoubleEntry'
  BY <1>2, TablesSame DEF ReadInv
<1>6. ReadTypeOK'
  BY <1>3, <1>5 DEF TablesOK, ReadersOK, ReadTypeOK, Legs
<1>7. ReaderInv' /\ WalkInv'
  BY <1>3, <1>4 DEF ReaderInv, WalkInv
<1> QED
  BY <1>5, <1>6, <1>7 DEF ReadInv

-----------------------------------------------------------------------------
LEMMA ReadInvInit == ReadInit => ReadInv
<1> SUFFICES ASSUME ReadInit PROVE ReadInv
  OBVIOUS
<1> DEFINE D == DOMAIN InitAccounts
           top == Max(D \cup {0})
<1>1. IsFiniteSet(D \cup {0}) /\ D \cup {0} \subseteq Nat
  BY InitAssumption, FS_AddElement
<1>2. top \in D \cup {0} /\ \A y \in D \cup {0} : y <= top
  BY <1>1, MaxExists
<1> HIDE DEF top
<1>3. top \in Nat /\ \A id \in D : id \in AccountId /\ id < top + 1
  <2>1. top \in Nat
    BY <1>1, <1>2
  <2>2. ASSUME NEW id \in D PROVE id \in AccountId /\ id < top + 1
    BY <1>2, <2>1, InitAssumption
  <2> QED
    BY <2>1, <2>2
<1>4. accounts = InitAccounts /\ transfers = {} /\ entries = {} /\ nextAccount = top + 1
  BY DEF ReadInit, LedgerInit, top
<1>5. LedgerTypeOK /\ DoubleEntry
  BY <1>4, InitAssumption DEF LedgerTypeOK, DoubleEntry, Referenced
<1>6. ReadTypeOK
  <2>1. /\ nextAccount \in Nat
        /\ DOMAIN accounts \cup drawn \subseteq {id \in AccountId : id < nextAccount}
        /\ DOMAIN accounts \cap drawn = {}
    <3>1. DOMAIN accounts = D /\ drawn = {}
      BY <1>4 DEF ReadInit
    <3>2. \A id \in D : id \in AccountId /\ id < nextAccount
      BY <1>3, <1>4
    <3> HIDE DEF D
    <3> QED
      BY <1>3, <1>4, <3>1, <3>2
  <2>2. transferNo \in [Call -> RowNo \cup {0}] /\ entryNo \in [Call \X {"from", "to"} -> RowNo \cup {0}]
    BY DEF ReadInit
  <2>3. ReadersOK
    BY DEF ReadInit, ReadersOK
  <2> QED
    BY <1>5, <2>1, <2>2, <2>3 DEF ReadTypeOK, ReadersOK
<1>7. NumberInv
  <2>1. ASSUME NEW no, \A x \in DOMAIN no : no[x] = 0 PROVE Numbered(no)
    <3>1. Used(no) = {}
      BY <2>1 DEF Used
    <3>2. Cardinality(Used(no)) = 0
      BY <3>1, FS_EmptySet
    <3> QED
      BY <2>1, <3>2 DEF Numbered
  <2>2. Numbered(transferNo) /\ Numbered(entryNo)
    BY <2>1 DEF ReadInit
  <2> QED
    BY <1>4, <2>2 DEF ReadInit, NumberInv
<1>8. ReaderInv
  BY DEF ReadInit, ReaderInv, Answering, NoRequest
<1>9. WalkInv
  BY DEF ReadInit, WalkInv, Walking
<1> QED
  BY <1>5, <1>6, <1>7, <1>8, <1>9 DEF ReadInv

\* ReadInv is an invariant: what a reader was shown stays his, and the rows a
\* walk has not shown are behind the pages it has read.
THEOREM ReadInvariant == ReadSpec => []ReadInv
<1>1. ReadInv /\ [ReadNext]_readVars => ReadInv'
  <2> SUFFICES ASSUME ReadInv, [ReadNext]_readVars PROVE ReadInv'
    OBVIOUS
  <2>1. CASE UNCHANGED readVars
    <3>1. UNCHANGED <<ledgerVars, numbers>> /\ \A r \in Reader : Same(r)
      BY <2>1 DEF readVars, Same
    <3>2. TablesOK' /\ NumberInv' /\ DoubleEntry'
      BY <3>1, TablesSame DEF ReadInv
    <3>3. ReadersOK'
      BY <2>1 DEF readVars, ReadInv, ReadTypeOK, ReadersOK
    <3>4. ReaderInv' /\ WalkInv'
      BY <3>1, SameKeeps DEF ReaderInv, WalkInv
    <3> QED
      BY <3>2, <3>3, <3>4 DEF ReadInv, ReadTypeOK, TablesOK, ReadersOK, Legs
  <2>2. CASE Writes
    BY <2>2, WritesKeep
  <2>3. ASSUME NEW r \in Reader, Reads(r) PROVE ReadInv'
    BY <2>3, ReadsKeep
  <2> QED
    BY <2>1, <2>2, <2>3 DEF ReadNext, AllAnswered
<1> QED
  BY <1>1, ReadInvInit, PTL DEF ReadSpec

\* Requests, answers, ids and walks keep their types.
THEOREM ReadTypeCorrect == ReadSpec => []ReadTypeOK
<1>1. ReadInv => ReadTypeOK
  BY DEF ReadInv
<1> QED
  BY <1>1, ReadInvariant, PTL

\* What a list or getTransfer shows is of an account of the user, although
\* the account was read in a query before.
THEOREM ListsShowOwn == ReadSpec => []ShowsOwn
<1>1. ReadInv => ShowsOwn
  BY DEF ReadInv, ReaderInv, Answering, ShowsOwn, Owns
<1> QED
  BY <1>1, ReadInvariant, PTL

\* What a list showed can be fetched by its id from the same account.
THEOREM ListedIsFetched == ReadSpec => []ListedCanBeFetched
<1>1. ReadInv => ListedCanBeFetched
  BY DEF ReadInv, ReaderInv, Answering, ListedCanBeFetched
<1> QED
  BY <1>1, ReadInvariant, PTL

\* Who reads a list page by page until one is not full has been shown every
\* row that was there at the start, whatever is committed meanwhile, and
\* although offsets of later pages do not fit an int32.
THEOREM WalksMissNothing == ReadSpec => []WalkMissesNothing
<1>1. ReadInv => WalkMissesNothing
  BY DEF ReadInv, WalkInv, Walking, WalkMissesNothing
<1> QED
  BY <1>1, ReadInvariant, PTL

=============================================================================
