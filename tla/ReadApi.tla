------------------------------- MODULE ReadApi -------------------------------
(***************************************************************************)
(* The GET handlers of api/account.go, api/transfer.go and api/entry.go,   *)
(* over the committed tables of Ledger, with the paging of their lists.    *)
(*                                                                         *)
(* A handler reads the account in its path and then, in a query of its     *)
(* own, the rows it shows.  Lists are ordered by the ids that sequences    *)
(* hand out when a row is inserted, not when it is committed: a row with a *)
(* small id may appear after one with a large id, in a page already read.  *)
(***************************************************************************)
EXTENDS Ledger

CONSTANTS
    Reader,         \* clients; each has one request at a time
    HalfInt32,      \* 2^31
    MinPageSize,    \* the binding tags of page_size
    MaxPageSize,
    NoWalk,
    Kind,           \* bound: the kinds of request that are sent
    User,           \* bound: the users who send them
    PageSize,       \* bound: the page sizes clients ask for
    MaxPage,        \* bound: the largest page_id
    MaxRequests,    \* bound: requests of a reader
    MaxFaults       \* bound: queries that fail

List == {"listAccounts", "listTransfers", "listEntries"}

ASSUME ReadAssumption ==
    /\ HalfInt32 \in Nat \ {0}
    /\ MinPageSize \in [List -> Nat \ {0}]
    /\ MaxPageSize \in [List -> 0 .. HalfInt32]
    /\ User \subseteq Owner
    /\ PageSize \subseteq Nat
    /\ MaxPage \in Nat
    /\ MaxRequests \in Nat
    /\ MaxFaults \in Nat

VARIABLES
    nextAccount,    \* the accounts sequence
    drawn,          \* account ids drawn by inserts not yet committed
    transferNo,     \* the id of a call's transfer row, 0 before its insert
    entryNo,        \* the ids of its two entries, likewise
    stage,          \* what the handler of a reader's request does next
    req,            \* the request
    status,         \* the status of the answer, 0 before it
    shown,          \* the ids of the rows in the answer
    sent,           \* requests sent so far
    faults,         \* queries that failed so far
    \* Only for the properties:
    walk,           \* the pages of one list the reader has read in order
    follows         \* whether it asks for a row of the list it was just shown

numbers == <<nextAccount, drawn, transferNo, entryNo>>
readVars == <<ledgerVars, numbers, stage, req, status, shown, sent, faults, walk, follows>>

RowNo == 1 .. 2 * Cardinality(Call)
ListAccounts == [kind : {"listAccounts"}, user : Owner, page : 1 .. MaxPage, size : PageSize]
ListOf == [kind : {"listTransfers", "listEntries"}, user : Owner, account : AccountId,
           page : 1 .. MaxPage, size : PageSize]
GetAccount == [kind : {"getAccount"}, user : Owner, account : AccountId]
GetRow == [kind : {"getTransfer", "getEntry"}, user : Owner, account : AccountId, id : RowNo]
ReadRequest == ListAccounts \cup ListOf \cup GetAccount \cup GetRow
NoRequest == [kind |-> "none"]
Walk == [list : ListAccounts \cup ListOf, next : 1 .. MaxPage + 1, had : SUBSET Nat,
         got : SUBSET Nat, done : BOOLEAN]

ReadTypeOK ==
    /\ LedgerTypeOK
    /\ nextAccount \in Nat
    /\ DOMAIN accounts \cup drawn \subseteq {id \in AccountId : id < nextAccount}
    /\ DOMAIN accounts \cap drawn = {}
    /\ transferNo \in [Call -> RowNo \cup {0}]
    /\ entryNo \in [Call \X {"from", "to"} -> RowNo \cup {0}]
    /\ stage \in [Reader -> {"idle", "readAccount", "readRows", "replied"}]
    /\ req \in [Reader -> ReadRequest \cup {NoRequest}]
    /\ status \in [Reader -> {0, 200, 400, 403, 404, 500}]
    /\ shown \in [Reader -> SUBSET (AccountId \cup RowNo)]
    /\ sent \in [Reader -> 0 .. MaxRequests]
    /\ faults \in 0 .. MaxFaults
    /\ walk \in [Reader -> Walk \cup {NoWalk}]
    /\ follows \in [Reader -> BOOLEAN]

ReadInit ==
    /\ LedgerInit
    /\ nextAccount = Max(DOMAIN InitAccounts \cup {0}) + 1
    /\ drawn = {}
    /\ transferNo = [c \in Call |-> 0]
    /\ entryNo = [e \in Call \X {"from", "to"} |-> 0]
    /\ stage = [r \in Reader |-> "idle"]
    /\ req = [r \in Reader |-> NoRequest]
    /\ status = [r \in Reader |-> 0]
    /\ shown = [r \in Reader |-> {}]
    /\ sent = [r \in Reader |-> 0]
    /\ faults = 0
    /\ walk = [r \in Reader |-> NoWalk]
    /\ follows = [r \in Reader |-> FALSE]

-----------------------------------------------------------------------------
(***************************************************************************)
(* The writers: the committed effects of Ledger, and the ids their inserts *)
(* draw before.  An insert that is rolled back loses its id.  The accounts *)
(* of a transfer are chosen at its commit, where TransferStore fixes them  *)
(* at the call: more can happen here than there.                           *)
(***************************************************************************)
readerVars == <<stage, req, status, shown, sent, faults, follows>>

Used(no) == {x \in DOMAIN no : no[x] # 0}
NextNo(no) == 1 + Cardinality(Used(no))

\* Mutant of DrawAccount: any id that no account has, not that of a sequence.
DrawFreeAccount ==
    /\ \E id \in AccountId \ (DOMAIN accounts \cup drawn) : drawn' = drawn \cup {id}
    /\ UNCHANGED <<ledgerVars, nextAccount, transferNo, entryNo, readerVars, walk>>

\* INSERT INTO accounts takes the next id,
DrawAccount ==
    /\ nextAccount \in AccountId
    /\ drawn' = drawn \cup {nextAccount}
    /\ nextAccount' = nextAccount + 1
    /\ UNCHANGED <<ledgerVars, transferNo, entryNo, readerVars, walk>>

\* and is committed.
OpenAccount(id, owner, currency) ==
    /\ id \in drawn
    /\ Open(id, owner, currency)
    /\ drawn' = drawn \ {id}
    /\ UNCHANGED <<nextAccount, transferNo, entryNo, readerVars, walk>>

\* DELETE FROM accounts.  A walk over a list that gets shorter is given up.
CloseAccount(id) ==
    /\ Close(id)
    /\ walk' = [r \in Reader |->
                  IF /\ walk[r] # NoWalk
                     /\ walk[r].list.kind = "listAccounts"
                     /\ walk[r].list.user = accounts[id].owner
                  THEN NoWalk
                  ELSE walk[r]]
    /\ UNCHANGED <<numbers, readerVars>>

\* INSERT INTO transfers takes the next id,
InsertTransfer(c) ==
    /\ transferNo[c] = 0
    /\ transferNo' = [transferNo EXCEPT ![c] = NextNo(transferNo)]
    /\ UNCHANGED <<ledgerVars, nextAccount, drawn, entryNo, readerVars, walk>>

\* so do the two INSERT INTO entries,
InsertEntry(c, leg) ==
    /\ transferNo[c] # 0
    /\ entryNo[<<c, leg>>] = 0
    /\ leg = "to" => entryNo[<<c, "from">>] # 0
    /\ entryNo' = [entryNo EXCEPT ![<<c, leg>>] = NextNo(entryNo)]
    /\ UNCHANGED <<ledgerVars, nextAccount, drawn, transferNo, readerVars, walk>>

\* and the transaction commits.
CommitTransfer(c, a) ==
    /\ entryNo[<<c, "to">>] # 0
    /\ Move(c, a)
    /\ UNCHANGED <<numbers, readerVars, walk>>

-----------------------------------------------------------------------------
\* The ids of the committed rows of an account, of either leg.
TransfersOf(account) ==
    {transferNo[t.id] : t \in {x \in transfers : account \in {x.from, x.to}}}

EntryNosOf(account) == {entryNo[e.id] : e \in EntriesOf(account)}

\* The committed row of an id, if any.
TransferOf(no) == {t \in transfers : transferNo[t.id] = no}
EntryOf(no) == {e \in entries : entryNo[e.id] = no}

\* All rows a list is about (the WHERE of its query).
Rows(q) ==
    CASE q.kind = "listAccounts" -> {id \in DOMAIN accounts : accounts[id].owner = q.user}
      [] q.kind = "listTransfers" -> TransfersOf(q.account)
      [] q.kind = "listEntries" -> EntryNosOf(q.account)

\* ORDER BY id, and for entries ORDER BY id DESC.
Before(kind, x, y) == IF kind = "listEntries" THEN x > y ELSE x < y

\* The product of two int32 values.
Int32(n) == ((n + HalfInt32) % (2 * HalfInt32)) - HalfInt32

\* Mutant of Offset: pages are counted from zero.
OffsetFromZero(q) == Int32(q.page * q.size)

Offset(q) == Int32((q.page - 1) * q.size)

\* How many rows of a list come before x.
Ahead(q, x) == Cardinality({y \in Rows(q) : Before(q.kind, y, x)})

\* LIMIT and OFFSET: the rows with Offset(q) or more, but not a page more,
\* before them.
Page(q) == {x \in Rows(q) : Ahead(q, x) \in Offset(q) .. Offset(q) + q.size - 1}

\* What the client makes of an answer to its next page.
Walked(w, q, rows) ==
    IF w = NoWalk THEN NoWalk
    ELSE [w EXCEPT !.next = @ + 1, !.got = @ \cup rows, !.done = Cardinality(rows) < q.size]

Reply(r, s) ==
    /\ stage' = [stage EXCEPT ![r] = "replied"]
    /\ status' = [status EXCEPT ![r] = s]
    /\ UNCHANGED <<shown, walk>>

Show(r, rows) ==
    /\ stage' = [stage EXCEPT ![r] = "replied"]
    /\ status' = [status EXCEPT ![r] = 200]
    /\ shown' = [shown EXCEPT ![r] = rows]
    /\ walk' = IF req[r].kind \in List
               THEN [walk EXCEPT ![r] = Walked(@, req[r], rows)]
               ELSE walk

Go(r, next) ==
    /\ stage' = [stage EXCEPT ![r] = next]
    /\ UNCHANGED <<status, shown, walk>>

\* The binding tags.
Binds(q) == q.kind \in List => q.size \in MinPageSize[q.kind] .. MaxPageSize[q.kind]

\* A walk reads page 1, 2, ... of one list until a page is not full; a page
\* that was answered with an error may be asked for again.
Continues(w, q) == w # NoWalk /\ ~w.done /\ q = [w.list EXCEPT !.page = w.next]

NextWalk(w, q) ==
    CASE q.kind \notin List -> NoWalk
      [] q.kind \in List /\ q.page = 1 ->
            [list |-> q, next |-> 1, had |-> Rows(q), got |-> {}, done |-> FALSE]
      [] OTHER -> IF Continues(w, q) THEN w ELSE NoWalk

\* Whether q asks for a row of the list that answered p.
Follows(p, q, rows) ==
    \/ p.kind = "listTransfers" /\ q = [kind |-> "getTransfer", user |-> p.user,
                                        account |-> p.account, id |-> q.id] /\ q.id \in rows
    \/ p.kind = "listEntries" /\ q = [kind |-> "getEntry", user |-> p.user,
                                      account |-> p.account, id |-> q.id] /\ q.id \in rows

\* A reader sends a request; it is refused at once, or its handler goes on.
Receive(r, q) ==
    /\ stage[r] \in {"idle", "replied"}
    /\ sent[r] < MaxRequests
    /\ sent' = [sent EXCEPT ![r] = @ + 1]
    /\ req' = [req EXCEPT ![r] = q]
    /\ shown' = [shown EXCEPT ![r] = {}]
    /\ follows' = [follows EXCEPT ![r] = q.kind \in {"getTransfer", "getEntry"}
                                           /\ Follows(req[r], q, shown[r])]
    /\ walk' = [walk EXCEPT ![r] = NextWalk(@, q)]
    /\ \/ ~Binds(q) /\ stage' = [stage EXCEPT ![r] = "replied"]
                    /\ status' = [status EXCEPT ![r] = 400]
       \/ Binds(q) /\ q.kind = "listAccounts" /\ stage' = [stage EXCEPT ![r] = "readRows"]
                   /\ status' = [status EXCEPT ![r] = 0]
       \/ Binds(q) /\ q.kind # "listAccounts" /\ stage' = [stage EXCEPT ![r] = "readAccount"]
                   /\ status' = [status EXCEPT ![r] = 0]
    /\ UNCHANGED <<ledgerVars, numbers, faults>>

\* GetAccount and the comparison of its owner.
ReadAccount(r) ==
    LET q == req[r]
        found == q.account \in DOMAIN accounts
        own == found /\ accounts[q.account].owner = q.user
    IN
    /\ stage[r] = "readAccount"
    /\ \/ ~found /\ Reply(r, 404)
       \/ found /\ ~own /\ Reply(r, 403)
       \/ own /\ q.kind = "getAccount" /\ Show(r, {q.account})
       \/ own /\ q.kind # "getAccount" /\ Go(r, "readRows")
    /\ UNCHANGED <<ledgerVars, numbers, req, sent, faults, follows>>

\* Mutant of ReadTransfer: both legs must be of the account.
ReadTransferOfBoth(r) ==
    LET q == req[r]
        rows == TransferOf(q.id)
    IN
    /\ stage[r] = "readRows"
    /\ q.kind = "getTransfer"
    /\ \/ rows = {} /\ Reply(r, 404)
       \/ \E t \in rows :
             IF t.from = q.account /\ t.to = q.account THEN Show(r, {q.id}) ELSE Reply(r, 403)
    /\ UNCHANGED <<ledgerVars, numbers, req, sent, faults, follows>>

\* GetTransfer, which must have a leg of the account.
ReadTransfer(r) ==
    LET q == req[r]
        rows == TransferOf(q.id)
    IN
    /\ stage[r] = "readRows"
    /\ q.kind = "getTransfer"
    /\ \/ rows = {} /\ Reply(r, 404)
       \/ \E t \in rows :
             IF q.account \in {t.from, t.to} THEN Show(r, {q.id}) ELSE Reply(r, 403)
    /\ UNCHANGED <<ledgerVars, numbers, req, sent, faults, follows>>

\* GetEntry, whichever account it is of.
ReadEntry(r) ==
    LET q == req[r]
        rows == EntryOf(q.id)
    IN
    /\ stage[r] = "readRows"
    /\ q.kind = "getEntry"
    /\ \/ rows = {} /\ Reply(r, 404)
       \/ rows # {} /\ Show(r, {q.id})
    /\ UNCHANGED <<ledgerVars, numbers, req, sent, faults, follows>>

\* ListAccounts, ListTransfers, ListEntries: PostgreSQL refuses an OFFSET below
\* zero, and any error is a 500.
ReadList(r) ==
    LET q == req[r] IN
    /\ stage[r] = "readRows"
    /\ q.kind \in List
    /\ \/ Offset(q) < 0 /\ Reply(r, 500)
       \/ Offset(q) >= 0 /\ Show(r, Page(q))
    /\ UNCHANGED <<ledgerVars, numbers, req, sent, faults, follows>>

\* Any other error of a query is a 500 too.
QueryFails(r) ==
    /\ stage[r] \in {"readAccount", "readRows"}
    /\ faults < MaxFaults
    /\ faults' = faults + 1
    /\ Reply(r, 500)
    /\ UNCHANGED <<ledgerVars, numbers, req, sent, follows>>

Writes ==
    \/ DrawAccount
    \/ \E id \in AccountId, owner \in Owner, currency \in Currency :
          OpenAccount(id, owner, currency)
    \/ \E id \in AccountId : CloseAccount(id)
    \/ \E c \in Call : InsertTransfer(c) \/ InsertEntry(c, "from") \/ InsertEntry(c, "to")
    \/ \E c \in Call, a \in TransferTxParams : CommitTransfer(c, a)

Reads(r) ==
    \/ \E q \in {x \in ReadRequest : x.kind \in Kind /\ x.user \in User} : Receive(r, q)
    \/ ReadAccount(r) \/ ReadTransfer(r) \/ ReadEntry(r) \/ ReadList(r) \/ QueryFails(r)

AllAnswered ==
    /\ \A r \in Reader : stage[r] = "replied" /\ sent[r] = MaxRequests
    /\ UNCHANGED readVars

ReadNext ==
    \/ Writes
    \/ \E r \in Reader : Reads(r)
    \/ AllAnswered

ReadSpec == ReadInit /\ [][ReadNext]_readVars

-----------------------------------------------------------------------------
(***************************************************************************)
(* The inductive invariant: what a handler relies on between its queries,  *)
(* and where the rows are that a walk has not shown yet                    *)
(***************************************************************************)

\* Ids of a sequence are handed out once, in its order.
Numbered(no) ==
    \A x, y \in DOMAIN no :
        /\ no[x] <= Cardinality(Used(no))
        /\ no[x] = no[y] /\ no[x] # 0 => x = y

NumberInv ==
    /\ Numbered(transferNo)
    /\ Numbered(entryNo)
    /\ \A c \in Call :
          /\ entryNo[<<c, "to">>] # 0 => entryNo[<<c, "from">>] # 0
          /\ entryNo[<<c, "from">>] # 0 => transferNo[c] # 0
    /\ \A t, u \in transfers : transferNo[t.id] # 0 /\ (t.id = u.id => t = u)
    /\ \A e \in entries : entryNo[e.id] # 0

\* n is the id of a transfer or an entry of the account of q, which is the
\* user's.
Owns(q, n) ==
    /\ q.account \in DOMAIN accounts
    /\ accounts[q.account].owner = q.user
    /\ n \in IF q.kind \in {"listTransfers", "getTransfer"}
             THEN TransfersOf(q.account)
             ELSE EntryNosOf(q.account)

\* An account that was the user's when it was read is so still, or is gone
\* for good.
OwnOrGone(q) ==
    /\ q.account < nextAccount
    /\ q.account \notin drawn
    /\ q.account \in DOMAIN accounts => accounts[q.account].owner = q.user

\* Where a request stands that reader r has sent.
Answering(r) ==
    LET q == req[r] IN
    /\ stage[r] = "idle" => q = NoRequest /\ shown[r] = {} /\ ~follows[r]
    /\ stage[r] # "idle" => q \in ReadRequest
    /\ stage[r] \in {"readAccount", "readRows"} => Binds(q) /\ status[r] = 0 /\ shown[r] = {}
    /\ stage[r] = "readAccount" => q.kind # "listAccounts"
    /\ stage[r] = "readRows" => q.kind = "listAccounts" \/ OwnOrGone(q)
    /\ q.kind \in {"listTransfers", "listEntries", "getTransfer"} => \A n \in shown[r] : Owns(q, n)
    /\ follows[r] =>
          /\ q.kind \in {"getTransfer", "getEntry"}
          /\ Owns(q, q.id)
          /\ status[r] \in {0, 200, 500}

ReaderInv == \A r \in Reader : Answering(r)

\* A walk asks for one page after the other, as long as the offset fits, and
\* a row it has not shown is not on a page before the next.
Walking(r) ==
    LET w == walk[r]
        q == w.list
        offset == (w.next - 1) * q.size
    IN  w # NoWalk =>
          /\ w.done => w.had \subseteq w.got
          /\ ~w.done =>
                /\ w.had \subseteq Rows(q)
                /\ offset < HalfInt32 + q.size
                /\ \A x \in w.had \ w.got : offset <= Ahead(q, x)
          /\ stage[r] \in {"readAccount", "readRows"} =>
                ~w.done /\ req[r] = [q EXCEPT !.page = w.next]

WalkInv == \A r \in Reader : Walking(r)

ReadInv ==
    /\ ReadTypeOK
    /\ DoubleEntry
    /\ NumberInv
    /\ ReaderInv
    /\ WalkInv

-----------------------------------------------------------------------------
(***************************************************************************)
(* Properties                                                              *)
(***************************************************************************)

\* Who reads page after page of a list until one is not full has been shown
\* every row that was there at the start, although rows are committed between
\* two pages, in no order of their ids, and the offset may not fit an int32
\* (api/transfer.go:183).  Rows may be shown twice.
WalkMissesNothing ==
    \A r \in Reader : walk[r] # NoWalk /\ walk[r].done => walk[r].had \subseteq walk[r].got

\* What a list or getTransfer shows belongs to an account of the user, which
\* was read in a query before: another account under the same id must not
\* have come between the two.
ShowsOwn ==
    \A r \in Reader :
        LET q == req[r]
            account == accounts[q.account]
        IN
        /\ q.kind \in {"listTransfers", "getTransfer"} =>
              \A n \in shown[r] :
                  n \in TransfersOf(q.account) /\ account.owner = q.user
        /\ q.kind = "listEntries" =>
              \A n \in shown[r] : n \in EntryNosOf(q.account) /\ account.owner = q.user

\* A transfer or an entry that a list showed can be fetched by its id from the
\* same account afterwards: the two agree on whose it is, and neither the row
\* nor the account goes away.
ListedCanBeFetched ==
    \A r \in Reader : follows[r] => status[r] \in {0, 200, 500}

=============================================================================
