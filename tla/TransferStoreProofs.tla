------------------------ MODULE TransferStoreProofs ------------------------
(***************************************************************************)
(* Proofs about TransferStore, for any accounts, calls, amounts, pool size *)
(* and number of lost connections.                                         *)
(*                                                                         *)
(*   1. StoreInv is inductive: one lemma per conjunct, over Frame (what a  *)
(*      step leaves to the other calls) and OwnStep (what it does to its   *)
(*      own).  TypeCorrect and FailuresLeaveNothing follow from it alone.  *)
(*   2. DeadlockFree: in a circle of waiting calls the ids of the awaited  *)
(*      accounts would grow for ever.                                      *)
(*   3. StoreImplementsLedger: every step is a step of Ledger or changes   *)
(*      no table.                                                          *)
(*   4. What LedgerProofs shows of the ledger holds of the store.          *)
(*   5. AcknowledgedStays: no later step takes an acknowledged row away.   *)
(***************************************************************************)
EXTENDS TransferStore, LedgerProofs

USE BigintAssumption, LedgerAssumption, InitAssumption, StoreAssumption

\* A table of balances of some accounts is a member of Balances.
LEMMA BalancesIntro ==
    ASSUME NEW ids \in SUBSET AccountId, NEW b \in [ids -> Bigint]
    PROVE  b \in Balances
BY Zenon DEF Balances

\* What membership in Balances says of a table of balances.
LEMMA BalancesElim ==
    ASSUME NEW b \in Balances
    PROVE  b \in [DOMAIN b -> Bigint] /\ DOMAIN b \in SUBSET AccountId
<1>1. PICK s \in {[ids -> Bigint] : ids \in SUBSET AccountId} : b \in s
  BY Zenon DEF Balances
<1>2. PICK ids \in SUBSET AccountId : s = [ids -> Bigint]
  BY Zenon
<1> QED
  BY <1>1, <1>2

\* No call has begun at the start, so the invariant holds.
LEMMA InitInv == Init => StoreInv
<1> SUFFICES ASSUME Init PROVE StoreInv
  OBVIOUS
<1>1. TypeOK
  <2>1. LedgerTypeOK
    BY DEF Init, LedgerInit, LedgerTypeOK
  <2>2. NoRows \in TransferTxResult
    <3>1. [id \in {} |-> 0] \in [{} -> Bigint]
      OBVIOUS
    <3>2. [id \in {} |-> 0] \in Balances
      BY <3>1, BalancesIntro
    <3> QED
      BY <3>2 DEF NoRows, TransferTxResult
  <2> QED
    BY <2>1, <2>2 DEF Init, TypeOK, Label, Error
<1>2. ArgInv /\ LocksExclude /\ HeldInv /\ LockedInv /\ WrittenInv
  BY DEF Init, ArgInv, LocksExclude, HeldInv, LockedInv, WrittenInv, InTransfer, Writing
<1>3. CommittedInv
  BY DEF Init, LedgerInit, CommittedInv
<1> QED
  BY <1>1, <1>2, <1>3 DEF StoreInv

-----------------------------------------------------------------------------
\* The rows a request leaves behind have the types of their tables.
LEMMA RowTypes ==
    ASSUME NEW c \in Call, NEW a \in TransferCall
    PROVE  /\ TransferRow(c, a) \in Transfer
           /\ FromEntry(c, a) \in Entry
           /\ ToEntry(c, a) \in Entry
           /\ Legs(a)[1] \in [account : {a.from, a.to}, amount : Int]
           /\ Legs(a)[2] \in [account : {a.from, a.to}, amount : Int]
BY DEF TransferCall, TransferRow, FromEntry, ToEntry, Transfer, Entry, Legs

\* Every statement leaves every variable in its type.
LEMMA TypeStep == ASSUME StoreInv, [Next]_vars PROVE TypeOK'
<1> USE DEF StoreInv, TypeOK, LedgerTypeOK, ledgerVars
<1>1. ASSUME NEW c \in Call, NEW a \in Request, Issue(c, a) PROVE TypeOK'
  BY <1>1 DEF Issue, Label
<1>2. ASSUME NEW c \in Call, Acquire(c) PROVE TypeOK'
  BY <1>2 DEF Acquire, Label, ArgInv, Request, TransferCall, CreateCall, DeleteCall
<1>3. ASSUME NEW c \in Call, CreateTransfer(c) PROVE TypeOK'
  <2> DEFINE a == arg[c]
  <2>1. a \in TransferCall /\ TransferRow(c, a) \in Transfer /\ a.from \in AccountId
    BY <1>3, RowTypes DEF CreateTransfer, ArgInv, InTransfer, TransferCall
  <2>2. CASE pc' = [pc EXCEPT ![c] = "rollback"]
    BY <1>3, <2>2 DEF CreateTransfer, Fail, Continue, Label, Error
  <2>3. CASE pc' = [pc EXCEPT ![c] = "shareTo"]
    <3>1. result' = [result EXCEPT ![c].transfers = {TransferRow(c, a)}] /\ Lock(c, a.from, "KeyShare")
      BY <1>3, <2>3 DEF CreateTransfer, Fail, Label
    <3>2. result' \in [Call -> TransferTxResult]
      BY <2>1, <3>1 DEF TransferTxResult
    <3>3. locks' \in [Call -> SUBSET (AccountId \X RowLock)]
      BY <2>1, <3>1 DEF Lock, RowLock
    <3> QED
      BY <1>3, <2>3, <3>2, <3>3 DEF CreateTransfer, Continue, Fail, Label
  <2> QED
    BY <1>3, <2>2, <2>3 DEF CreateTransfer, Fail, Continue
<1>4. ASSUME NEW c \in Call, ShareTo(c) PROVE TypeOK'
  BY <1>4 DEF ShareTo, Fail, Lock, Continue, Label, Error, ArgInv, InTransfer, RowLock, TransferCall
<1>5. ASSUME NEW c \in Call, CreateFromEntry(c) \/ CreateToEntry(c) PROVE TypeOK'
  <2>1. /\ FromEntry(c, arg[c]) \in Entry
        /\ ToEntry(c, arg[c]) \in Entry
    BY <1>5, RowTypes DEF CreateFromEntry, CreateToEntry, ArgInv, InTransfer
  <2>2. result' \in [Call -> TransferTxResult]
    <3>1. \A rows \in SUBSET Entry : [result[c] EXCEPT !.entries = rows] \in TransferTxResult
      BY DEF TransferTxResult
    <3>2. {FromEntry(c, arg[c])} \in SUBSET Entry
      BY <2>1
    <3>3. result[c].entries \cup {ToEntry(c, arg[c])} \in SUBSET Entry
      BY <2>1 DEF TransferTxResult
    <3>4. CASE CreateFromEntry(c)
      BY <3>1, <3>2, <3>4 DEF CreateFromEntry
    <3>5. CASE CreateToEntry(c)
      BY <3>1, <3>3, <3>5 DEF CreateToEntry
    <3> QED
      BY <1>5, <3>4, <3>5
  <2> QED
    BY <1>5, <2>2 DEF CreateFromEntry, CreateToEntry, Continue, Label
<1>7. ASSUME NEW c \in Call, NEW leg \in [account : AccountId, amount : Int],
             NEW l \in Label, AddAccountBalance(c, leg, l)
      PROVE TypeOK'
  <2>1. CASE UNCHANGED <<locks, result>> /\ pc' = [pc EXCEPT ![c] = "rollback"]
    BY <1>7, <2>1 DEF AddAccountBalance, Fail, Continue, Label, Error
  <2>2. CASE /\ leg.account \in DOMAIN accounts
             /\ accounts[leg.account].balance + leg.amount \in Bigint
             /\ Lock(c, leg.account, "NoKeyUpdate")
             /\ result' = [result EXCEPT ![c].balances =
                          [id \in DOMAIN @ \cup {leg.account} |->
                             IF id = leg.account
                             THEN accounts[id].balance + leg.amount
                             ELSE @[id]]]
             /\ Continue(c, l)
    <3> DEFINE ids == DOMAIN result[c].balances
    <3>1. result[c].balances \in [ids -> Bigint] /\ ids \in SUBSET AccountId
      BY BalancesElim DEF TransferTxResult
    <3> DEFINE bal == [id \in ids \cup {leg.account} |->
                          IF id = leg.account
                          THEN accounts[id].balance + leg.amount
                          ELSE result[c].balances[id]]
    <3>2. bal \in [ids \cup {leg.account} -> Bigint]
      BY <3>1, <2>2
    <3>3. bal \in Balances
      <4>1. ids \cup {leg.account} \in SUBSET AccountId
        BY <3>1
      <4> HIDE DEF bal, ids
      <4> QED
        BY <3>2, <4>1, BalancesIntro
    <3>4. result' = [result EXCEPT ![c] = [result[c] EXCEPT !.balances = bal]]
      BY <2>2, <3>1
    <3>5. [result[c] EXCEPT !.balances = bal] \in TransferTxResult
      <4>1. \A r \in TransferTxResult, b \in Balances : [r EXCEPT !.balances = b] \in TransferTxResult
        BY Zenon DEF TransferTxResult
      <4>2. result[c] \in TransferTxResult
        OBVIOUS
      <4> HIDE DEF bal
      <4> QED
        BY <3>3, <4>1, <4>2, Zenon
    <3>6. result' \in [Call -> TransferTxResult]
      BY <3>4, <3>5
    <3>7. locks' \in [Call -> SUBSET (AccountId \X RowLock)]
      BY <2>2 DEF Lock, RowLock
    <3> QED
      BY <1>7, <2>2, <3>6, <3>7 DEF AddAccountBalance, Continue
  <2> QED
    BY <1>7, <2>1, <2>2 DEF AddAccountBalance, Fail
<1>8. ASSUME NEW c \in Call, AddFirst(c) \/ AddSecond(c) PROVE TypeOK'
  BY <1>8, <1>7, RowTypes DEF AddFirst, AddSecond, Label, ArgInv, InTransfer, TransferCall
<1>9. ASSUME NEW c \in Call, Commit(c) PROVE TypeOK'
  <2>1. result[c].balances \in [DOMAIN result[c].balances -> Bigint]
    BY BalancesElim DEF TransferTxResult
  <2>2. DOMAIN accounts' \subseteq AccountId /\ accounts' \in [DOMAIN accounts' -> Account]
    BY <1>9, <2>1 DEF Commit, Account
  <2>3. transfers' \subseteq Transfer /\ entries' \subseteq Entry
    BY <1>9 DEF Commit, TransferTxResult
  <2>4. /\ pc' \in [Call -> Label]
        /\ err' \in [Call -> Error]
        /\ locks' \in [Call -> SUBSET (AccountId \X RowLock)]
        /\ faults' \in 0 .. MaxFaults
    BY <1>9 DEF Commit, ReturnCommitted, Return, LoseConnection, Label, Error
  <2> QED
    BY <1>9, <2>2, <2>3, <2>4 DEF Commit
<1>10. ASSUME NEW c \in Call, Rollback(c) PROVE TypeOK'
  BY <1>10 DEF Rollback, Return, Label
<1>11. ASSUME NEW c \in Call, CreateAccount(c) PROVE TypeOK'
  <2>1. DOMAIN accounts' \subseteq AccountId /\ accounts' \in [DOMAIN accounts' -> Account]
    <3>1. CASE accounts' = accounts
      BY <3>1
    <3>2. CASE /\ nextId \in AccountId
               /\ accounts' = [id \in DOMAIN accounts \cup {nextId} |->
                                 IF id = nextId
                                 THEN [owner |-> arg[c].owner, currency |-> arg[c].currency, balance |-> 0]
                                 ELSE accounts[id]]
      <4>1. arg[c].owner \in Owner /\ arg[c].currency \in Currency
        BY <1>11 DEF CreateAccount, ArgInv, CreateCall
      <4> QED
        BY <3>2, <4>1 DEF Account, Bigint
    <3> QED
      BY <1>11, <3>1, <3>2 DEF CreateAccount
  <2>2. /\ pc' \in [Call -> Label]
        /\ err' \in [Call -> Error]
        /\ locks' \in [Call -> SUBSET (AccountId \X RowLock)]
        /\ faults' \in 0 .. MaxFaults
        /\ nextId' \in Nat
    BY <1>11 DEF CreateAccount, ReturnCommitted, Return, LoseConnection, Label, Error
  <2> QED
    BY <1>11, <2>1, <2>2 DEF CreateAccount
<1>12. ASSUME NEW c \in Call, DeleteAccount(c) PROVE TypeOK'
  BY <1>12 DEF DeleteAccount, Return, Lock, Continue, Label, Error, ArgInv, DeleteCall, RowLock
<1>13. ASSUME NEW c \in Call, CheckReferences(c) PROVE TypeOK'
  BY <1>13 DEF CheckReferences, ReturnCommitted, Return, LoseConnection, Label, Error
<1>14. ASSUME NEW c \in Call, ConnectionLost(c) PROVE TypeOK'
  BY <1>14 DEF ConnectionLost, Return, LoseConnection, Label, Error
<1>15. CASE UNCHANGED vars
  BY <1>15 DEF vars
<1> QED
  BY <1>1, <1>2, <1>3, <1>4, <1>5, <1>8, <1>9, <1>10, <1>11, <1>12, <1>13, <1>14, <1>15
  DEF Next, Progress, Quiet

-----------------------------------------------------------------------------
\* A step of one call.
Step(c) == Progress(c) \/ ConnectionLost(c) \/ \E a \in Request : Issue(c, a)

\* A step of the system is a step of one call.
LEMMA NextCases == [Next]_vars => UNCHANGED vars \/ \E c \in Call : Step(c)
BY DEF Next, Quiet, Step

\* What belongs to another call does not change.
LEMMA Frame ==
    ASSUME NEW c \in Call, Step(c), TypeOK
    PROVE  \A d \in Call \ {c} :
              /\ pc'[d] = pc[d]
              /\ arg'[d] = arg[d]
              /\ locks'[d] = locks[d]
              /\ result'[d] = result[d]
              /\ err'[d] = err[d]
<1> USE DEF TypeOK
<1>1. ASSUME NEW a \in Request, Issue(c, a) PROVE \A d \in Call \ {c} : arg'[d] = arg[d] /\ pc'[d] = pc[d]
  BY <1>1 DEF Issue
<1>2. \A d \in Call \ {c} : arg'[d] = arg[d]
  BY <1>1 DEF Step, Progress, Acquire, CreateTransfer, ShareTo, CreateFromEntry,
     CreateToEntry, AddFirst, AddSecond, AddAccountBalance, Commit, Rollback, CreateAccount, DeleteAccount,
     CheckReferences, ConnectionLost
<1>3. \A d \in Call \ {c} : pc'[d] = pc[d]
  BY <1>1 DEF Step, Progress, Acquire, CreateTransfer, ShareTo, CreateFromEntry,
     CreateToEntry, AddFirst, AddSecond, AddAccountBalance, Commit, Rollback, CreateAccount, DeleteAccount,
     CheckReferences, ConnectionLost, Fail, Continue, Return, ReturnCommitted
<1>4. \A d \in Call \ {c} : locks'[d] = locks[d]
  BY DEF Step, Progress, Issue, Acquire, CreateTransfer, ShareTo, CreateFromEntry,
     CreateToEntry, AddFirst, AddSecond, AddAccountBalance, Commit, Rollback, CreateAccount, DeleteAccount,
     CheckReferences, ConnectionLost, Fail, Lock, Return, ReturnCommitted
<1>5. \A d \in Call \ {c} : err'[d] = err[d]
  BY DEF Step, Progress, Issue, Acquire, CreateTransfer, ShareTo, CreateFromEntry,
     CreateToEntry, AddFirst, AddSecond, AddAccountBalance, Commit, Rollback, CreateAccount, DeleteAccount,
     CheckReferences, ConnectionLost, Fail, Continue, Return, ReturnCommitted
<1>6. \A d \in Call \ {c} : result'[d] = result[d]
  BY DEF Step, Progress, Issue, Acquire, CreateTransfer, ShareTo, CreateFromEntry,
     CreateToEntry, AddFirst, AddSecond, AddAccountBalance, Commit, Rollback, CreateAccount, DeleteAccount,
     CheckReferences, ConnectionLost, Fail
<1> QED
  BY <1>2, <1>3, <1>4, <1>5, <1>6

\* How each step moves its own call: the label, the locks and the label's
\* condition on the arguments.
LEMMA OwnStep ==
    ASSUME NEW c \in Call, Step(c), TypeOK
    PROVE  \/ /\ pc[c] = "idle" /\ pc'[c] = "acquire"
              /\ locks'[c] = locks[c]
              /\ arg'[c] \in Request
           \/ /\ pc[c] = "acquire" /\ pc'[c] = arg[c].op
              /\ locks'[c] = locks[c] /\ arg'[c] = arg[c]
           \/ /\ pc[c] = "createTransfer" /\ pc'[c] = "shareTo" /\ Checked(arg[c])
              /\ locks'[c] = locks[c] \cup {<<arg[c].from, "KeyShare">>} /\ arg'[c] = arg[c]
           \/ /\ pc[c] = "shareTo" /\ pc'[c] = "createFromEntry"
              /\ locks'[c] = locks[c] \cup {<<arg[c].to, "KeyShare">>} /\ arg'[c] = arg[c]
           \/ /\ pc[c] = "createFromEntry" /\ pc'[c] = "createToEntry"
              /\ locks'[c] = locks[c] /\ arg'[c] = arg[c]
           \/ /\ pc[c] = "createToEntry" /\ pc'[c] = "addFirst"
              /\ locks'[c] = locks[c] /\ arg'[c] = arg[c]
           \/ /\ pc[c] = "addFirst" /\ pc'[c] = "addSecond"
              /\ locks'[c] = locks[c] \cup {<<Legs(arg[c])[1].account, "NoKeyUpdate">>} /\ arg'[c] = arg[c]
           \/ /\ pc[c] = "addSecond" /\ pc'[c] = "commit"
              /\ locks'[c] = locks[c] \cup {<<Legs(arg[c])[2].account, "NoKeyUpdate">>} /\ arg'[c] = arg[c]
           \/ /\ pc[c] = "deleteAccount" /\ pc'[c] = "checkReferences"
              /\ locks'[c] = locks[c] \cup {<<arg[c].id, "Update">>} /\ arg'[c] = arg[c]
           \/ /\ pc[c] \in {"createTransfer", "shareTo", "addFirst", "addSecond"} /\ pc'[c] = "rollback"
              /\ locks'[c] = locks[c] /\ arg'[c] = arg[c]
              /\ err'[c] \notin {"nil", "connection"}
           \/ /\ pc[c] \notin {"idle", "done"} /\ pc'[c] = "done"
              /\ locks'[c] = {} /\ arg'[c] = arg[c]
<1> USE DEF TypeOK
<1>1. ASSUME NEW a \in Request, Issue(c, a) PROVE pc[c] = "idle" /\ pc'[c] = "acquire" /\ locks'[c] = locks[c] /\ arg'[c] \in Request
  BY <1>1 DEF Issue
<1>2. CASE Acquire(c)
  BY <1>2 DEF Acquire
<1>3. CASE CreateTransfer(c)
  BY <1>3 DEF CreateTransfer, Fail, Lock, Continue
<1>4. CASE ShareTo(c)
  BY <1>4 DEF ShareTo, Fail, Lock, Continue
<1>5. CASE CreateFromEntry(c) \/ CreateToEntry(c)
  BY <1>5 DEF CreateFromEntry, CreateToEntry, Continue
<1>6. CASE AddFirst(c) \/ AddSecond(c)
  BY <1>6 DEF AddFirst, AddSecond, AddAccountBalance, Fail, Lock, Continue
<1>7. CASE Commit(c) \/ Rollback(c) \/ CreateAccount(c) \/ CheckReferences(c) \/ ConnectionLost(c)
  BY <1>7 DEF Commit, Rollback, CreateAccount, CheckReferences, ConnectionLost, ReturnCommitted, Return
<1>8. CASE DeleteAccount(c)
  BY <1>8 DEF DeleteAccount, Return, Lock, Continue
<1> QED
  BY <1>1, <1>2, <1>3, <1>4, <1>5, <1>6, <1>7, <1>8 DEF Step, Progress

\* A call stays with the operation it was issued for.
LEMMA ArgStep == ASSUME StoreInv, NEW c \in Call, Step(c) PROVE ArgInv'
<1> USE DEF StoreInv
<1> DEFINE Arg(d) ==
        /\ InTransfer(d) => arg[d] \in TransferCall
        /\ Writing(d) => Checked(arg[d])
        /\ pc[d] = "createAccount" => arg[d] \in CreateCall
        /\ pc[d] \in {"deleteAccount", "checkReferences"} => arg[d] \in DeleteCall
        /\ pc[d] \in {"acquire", "done"} => arg[d] \in Request
        /\ pc[d] = "idle" => arg[d] = NoCall
        /\ pc[d] = "rollback" => err[d] \notin {"nil", "connection"}
<1>1. \A d \in Call : Arg(d)
  BY DEF ArgInv
<1>2. ASSUME NEW d \in Call \ {c} PROVE Arg(d)'
  <2>1. pc'[d] = pc[d] /\ arg'[d] = arg[d] /\ err'[d] = err[d]
    BY Frame
  <2> QED
    BY <1>1, <2>1 DEF InTransfer, Writing
<1>3. Arg(c)'
  <2>1. pc[c] = "acquire" => \/ arg[c] \in TransferCall /\ arg[c].op = "createTransfer"
                             \/ arg[c] \in CreateCall /\ arg[c].op = "createAccount"
                             \/ arg[c] \in DeleteCall /\ arg[c].op = "deleteAccount"
    BY <1>1 DEF Request, TransferCall, CreateCall, DeleteCall
  <2>2. pc[c] \in {"createAccount", "deleteAccount", "checkReferences"} \/ InTransfer(c) => arg[c] \in Request
    BY <1>1 DEF Request
  <2>3. pc[c] \in Label
    BY DEF TypeOK
  <2> QED
    BY <1>1, <2>1, <2>2, <2>3, OwnStep DEF InTransfer, Writing, Label
<1> QED
  BY <1>2, <1>3 DEF ArgInv

\* The locks of a call go on following from the statements it sent.
LEMMA HeldStep == ASSUME StoreInv, NEW c \in Call, Step(c) PROVE HeldInv'
<1> USE DEF StoreInv
<1> DEFINE Held(d) ==
        /\ pc[d] = "shareTo" => locks[d] = {<<arg[d].from, "KeyShare">>}
        /\ pc[d] \in {"createFromEntry", "createToEntry", "addFirst"} => locks[d] = Shared(d)
        /\ pc[d] = "addSecond" => locks[d] = Shared(d) \cup Updated(d, 1)
        /\ pc[d] = "commit" => locks[d] = Shared(d) \cup Updated(d, 2)
        /\ pc[d] = "checkReferences" => locks[d] = {<<arg[d].id, "Update">>}
        /\ pc[d] \in {"idle", "acquire", "done", "createTransfer",
                      "createAccount", "deleteAccount"} => locks[d] = {}
<1>1. \A d \in Call : Held(d)
  BY DEF HeldInv
<1>2. ASSUME NEW d \in Call \ {c} PROVE Held(d)'
  <2>1. pc'[d] = pc[d] /\ arg'[d] = arg[d] /\ locks'[d] = locks[d]
    BY Frame
  <2> QED
    BY <1>1, <2>1 DEF Shared, Updated
<1>3. Held(c)'
  <2>1. pc[c] = "acquire" => arg[c].op \in {"createTransfer", "createAccount", "deleteAccount"}
    BY DEF ArgInv, Request, TransferCall, CreateCall, DeleteCall
  <2>2. /\ Updated(c, 1) = {<<Legs(arg[c])[1].account, "NoKeyUpdate">>}
        /\ Updated(c, 2) = {<<Legs(arg[c])[1].account, "NoKeyUpdate">>,
                            <<Legs(arg[c])[2].account, "NoKeyUpdate">>}
    <3>1. 1 .. 1 = {1} /\ 1 .. 2 = {1, 2}
      OBVIOUS
    <3> QED
      BY <3>1 DEF Updated
  <2>3. arg'[c] = arg[c] => Shared(c)' = Shared(c) /\ Updated(c, 1)' = Updated(c, 1) /\ Updated(c, 2)' = Updated(c, 2)
    BY DEF Shared, Updated
  <2> QED
    BY <1>1, <2>1, <2>2, <2>3, OwnStep DEF Shared
<1> QED
  BY <1>2, <1>3 DEF HeldInv

\* A call gets only locks that exclude none of the others'.
LEMMA NewLocks ==
    ASSUME StoreInv, NEW c \in Call, Step(c)
    PROVE  \A w \in locks'[c] \ locks[c] :
              /\ w[1] \in DOMAIN accounts
              /\ \A d \in Call \ {c} : \A held \in locks[d] :
                    held[1] = w[1] => ~Conflict(held[2], w[2])
<1> USE DEF StoreInv, TypeOK
<1>1. \A w \in Awaits(c) : Granted(c) =>
         \A d \in Call \ {c} : \A held \in locks[d] :
            held[1] = w[1] => ~Conflict(held[2], w[2])
  BY DEF Granted, WaitsFor
<1>2. CASE CreateTransfer(c)
  BY <1>1, <1>2 DEF CreateTransfer, Fail, Lock, Continue, Awaits
<1>3. CASE ShareTo(c)
  BY <1>1, <1>3 DEF ShareTo, Fail, Lock, Continue, Awaits
<1>4. CASE AddFirst(c)
  BY <1>1, <1>4 DEF AddFirst, AddAccountBalance, Fail, Lock, Continue, Awaits
<1>5. CASE AddSecond(c)
  BY <1>1, <1>5 DEF AddSecond, AddAccountBalance, Fail, Lock, Continue, Awaits
<1>6. CASE DeleteAccount(c)
  <2>1. CASE Lock(c, arg[c].id, "Update") /\ arg[c].id \in DOMAIN accounts /\ accounts[arg[c].id].owner = arg[c].owner
    <3>1. <<arg[c].id, "Update">> \in Awaits(c) /\ Granted(c)
      BY <1>6, <2>1 DEF DeleteAccount, Awaits
    <3> QED
      BY <1>1, <2>1, <3>1 DEF Lock
  <2>2. CASE locks' = [locks EXCEPT ![c] = {}]
    BY <2>2
  <2> QED
    BY <1>6, <2>1, <2>2 DEF DeleteAccount, Return
<1>7. CASE locks'[c] \subseteq locks[c]
  BY <1>7
<1> QED
  BY <1>2, <1>3, <1>4, <1>5, <1>6, <1>7
  DEF Step, Progress, Issue, Acquire, CreateFromEntry, CreateToEntry, Commit, Rollback,
      CreateAccount, CheckReferences, ConnectionLost, Return, ReturnCommitted

\* A lock is granted only when it excludes none that others hold.
LEMMA ExcludeStep == ASSUME StoreInv, NEW c \in Call, Step(c) PROVE LocksExclude'
<1> USE DEF StoreInv
<1>1. \A d \in Call \ {c} : locks'[d] = locks[d]
  BY Frame
<1>2. ASSUME NEW d \in Call \ {c}, NEW x \in locks'[c], NEW y \in locks[d], x[1] = y[1]
      PROVE  ~Conflict(x[2], y[2]) /\ ~Conflict(y[2], x[2])
  <2>1. CASE x \in locks[c]
    BY <1>2, <2>1 DEF LocksExclude
  <2>2. CASE x \notin locks[c]
    BY <1>2, <2>2, NewLocks DEF Conflict
  <2> QED
    BY <2>1, <2>2
<1> QED
  BY <1>1, <1>2 DEF LocksExclude

\* A row another call has locked stays, and keeps its balance if the lock is
\* that of an update.
LEMMA LockedRows ==
    ASSUME StoreInv, NEW c \in Call, Step(c), NEW d \in Call \ {c}, NEW l \in locks[d]
    PROVE  /\ l[1] \in DOMAIN accounts'
           /\ l[2] = "NoKeyUpdate" => accounts'[l[1]] = accounts[l[1]]
<1> USE DEF StoreInv
<1>1. l[1] \in DOMAIN accounts
  BY DEF LockedInv
<1>2. CASE accounts' = accounts
  BY <1>1, <1>2
<1>3. CASE Commit(c)
  <2>1. {<<arg[c].from, "NoKeyUpdate">>, <<arg[c].to, "NoKeyUpdate">>} \subseteq locks[c]
    <3>1. 1 .. 2 = {1, 2}
      OBVIOUS
    <3>2. locks[c] = Shared(c) \cup Updated(c, 2)
      BY <1>3 DEF Commit, HeldInv
    <3>3. {Legs(arg[c])[1].account, Legs(arg[c])[2].account} = {arg[c].from, arg[c].to}
      BY DEF Legs
    <3> QED
      BY <3>1, <3>2, <3>3 DEF Updated
  <2>2. DOMAIN result[c].balances = {arg[c].from, arg[c].to}
    BY <1>3 DEF Commit, WrittenInv
  <2>3. l[2] = "NoKeyUpdate" => l[1] \notin {arg[c].from, arg[c].to}
    BY <2>1 DEF LocksExclude, Conflict
  <2> QED
    BY <1>1, <1>3, <2>2, <2>3 DEF Commit
<1>4. CASE CreateAccount(c)
  BY <1>1, <1>4 DEF CreateAccount, CommittedInv, TypeOK, LedgerTypeOK
<1>5. CASE CheckReferences(c)
  <2>1. l[1] # arg[c].id
    <3>1. <<arg[c].id, "Update">> \in locks[c]
      BY <1>5 DEF CheckReferences, HeldInv
    <3> QED
      BY <3>1 DEF LocksExclude, Conflict
  <2> QED
    BY <1>1, <1>5, <2>1 DEF CheckReferences
<1> QED
  BY <1>2, <1>3, <1>4, <1>5
  DEF Step, Progress, Issue, Acquire, CreateTransfer, ShareTo, CreateFromEntry, CreateToEntry,
      AddFirst, AddSecond, AddAccountBalance, Rollback, DeleteAccount, ConnectionLost, ledgerVars

\* No step takes a row away that another call has locked.
LEMMA LockedStep == ASSUME StoreInv, NEW c \in Call, Step(c) PROVE LockedInv'
<1> USE DEF StoreInv
<1>1. \A d \in Call \ {c} : \A l \in locks'[d] : l[1] \in DOMAIN accounts'
  BY Frame, LockedRows
<1>2. ASSUME NEW l \in locks'[c] PROVE l[1] \in DOMAIN accounts'
  <2>1. l[1] \in DOMAIN accounts
    BY NewLocks DEF LockedInv
  <2>2. locks'[c] = {} \/ accounts' = accounts
    BY DEF Step, Progress, Issue, Acquire, CreateTransfer, ShareTo, CreateFromEntry, CreateToEntry,
      AddFirst, AddSecond, AddAccountBalance, Rollback, DeleteAccount, ConnectionLost, ledgerVars,
      Commit, CreateAccount, CheckReferences, Return, ReturnCommitted, TypeOK
  <2> QED
    BY <2>1, <2>2
<1> QED
  BY <1>1, <1>2 DEF LockedInv

-----------------------------------------------------------------------------
\* The two updates of a transfer are of its two accounts.
LEMMA LegFacts ==
    ASSUME NEW a \in TransferCall, Checked(a)
    PROVE  /\ Legs(a)[1].account # Legs(a)[2].account
           /\ {Legs(a)[1].account, Legs(a)[2].account} = {a.from, a.to}
           /\ Legs(a)[1].account < Legs(a)[2].account
           /\ \/ /\ Legs(a)[1] = [account |-> a.from, amount |-> -a.amount]
                 /\ Legs(a)[2] = [account |-> a.to, amount |-> a.amount]
              \/ /\ Legs(a)[2] = [account |-> a.from, amount |-> -a.amount]
                 /\ Legs(a)[1] = [account |-> a.to, amount |-> a.amount]
BY DEF Legs, TransferCall, Checked

\* What a transaction wrote stays true of the rows it will replace.
LEMMA WrittenStep == ASSUME StoreInv, NEW c \in Call, Step(c) PROVE WrittenInv'
<1> USE DEF StoreInv
<1> DEFINE Written(d) ==
        LET a == arg[d]
            rows == result[d]
        IN
        /\ pc[d] \in {"idle", "acquire", "createTransfer"} => rows = NoRows
        /\ Writing(d) => rows.transfers = {TransferRow(d, a)}
        /\ pc[d] = "createToEntry" => rows.entries = {FromEntry(d, a)}
        /\ pc[d] \in {"addFirst", "addSecond", "commit"} =>
              rows.entries = {FromEntry(d, a), ToEntry(d, a)}
        /\ Writing(d) /\ pc[d] \notin {"addSecond", "commit"} => DOMAIN rows.balances = {}
        /\ pc[d] = "addSecond" => DOMAIN rows.balances = {Legs(a)[1].account}
        /\ pc[d] = "commit" => DOMAIN rows.balances = {a.from, a.to}
        /\ pc[d] \in {"addSecond", "commit"} =>
              rows.balances[Legs(a)[1].account] = After(Legs(a)[1])
        /\ pc[d] = "commit" => rows.balances[Legs(a)[2].account] = After(Legs(a)[2])
<1>1. \A d \in Call : Written(d)
  BY DEF WrittenInv
<1>2. ASSUME NEW d \in Call \ {c} PROVE Written(d)'
  <2>1. pc'[d] = pc[d] /\ arg'[d] = arg[d] /\ result'[d] = result[d]
    BY Frame
  <2>2. 1 .. 1 = {1} /\ 1 .. 2 = {1, 2}
    OBVIOUS
  <2>3. pc[d] \in {"addSecond", "commit"} => <<Legs(arg[d])[1].account, "NoKeyUpdate">> \in locks[d]
    BY <2>2 DEF HeldInv, Updated
  <2>4. pc[d] = "commit" => <<Legs(arg[d])[2].account, "NoKeyUpdate">> \in locks[d]
    BY <2>2 DEF HeldInv, Updated
  <2>5. pc[d] \in {"addSecond", "commit"} => After(Legs(arg[d])[1])' = After(Legs(arg[d])[1])
    BY <2>1, <2>3, LockedRows DEF After
  <2>6. pc[d] = "commit" => After(Legs(arg[d])[2])' = After(Legs(arg[d])[2])
    BY <2>1, <2>4, LockedRows DEF After
  <2> QED
    BY <1>1, <2>1, <2>5, <2>6 DEF Writing, InTransfer, After
<1>3. Written(c)'
  <2> USE DEF TypeOK
  <2>0. CASE pc'[c] = "rollback" \/ pc'[c] = "done"
    BY <2>0 DEF Writing, InTransfer
  <2>1. CASE CreateTransfer(c) /\ pc'[c] # "rollback"
    <3>1. /\ arg' = arg
          /\ result'[c] = [result[c] EXCEPT !.transfers = {TransferRow(c, arg[c])}]
          /\ pc'[c] = "shareTo"
      BY <2>1 DEF CreateTransfer, Fail, Continue
    <3>2. result[c] = NoRows
      BY <1>1, <2>1 DEF CreateTransfer
    <3> QED
      BY <3>1, <3>2 DEF NoRows
  <2>2. CASE ShareTo(c)
    BY <1>1, <2>2 DEF ShareTo, Fail, Continue, Writing, InTransfer
  <2>3. CASE CreateFromEntry(c)
    BY <1>1, <2>3 DEF CreateFromEntry, Continue, Writing, InTransfer
  <2>4. CASE CreateToEntry(c)
    BY <1>1, <2>4 DEF CreateToEntry, Continue, Writing, InTransfer
  <2>5. CASE AddFirst(c) /\ pc'[c] # "rollback"
    <3> DEFINE leg == Legs(arg[c])[1]
               bal == [id \in DOMAIN result[c].balances \cup {leg.account} |->
                         IF id = leg.account THEN After(leg) ELSE result[c].balances[id]]
    <3>1. /\ arg' = arg /\ accounts' = accounts
          /\ pc[c] = "addFirst" /\ pc'[c] = "addSecond"
          /\ result'[c] = [result[c] EXCEPT !.balances = bal]
      BY <2>5 DEF AddFirst, AddAccountBalance, Fail, Continue, ledgerVars, After
    <3>2. DOMAIN bal = {leg.account} /\ bal[leg.account] = After(leg)
      BY <1>1, <3>1 DEF Writing, InTransfer
    <3>3. /\ result'[c].transfers = result[c].transfers
          /\ result'[c].entries = result[c].entries
          /\ result'[c].balances = bal
      <4> HIDE DEF bal
      <4> QED
        BY <3>1 DEF TransferTxResult
    <3> HIDE DEF bal
    <3> QED
      BY <1>1, <3>1, <3>2, <3>3 DEF Writing, InTransfer, After
  <2>6. CASE AddSecond(c) /\ pc'[c] # "rollback"
    <3> DEFINE first == Legs(arg[c])[1]
               leg == Legs(arg[c])[2]
               bal == [id \in DOMAIN result[c].balances \cup {leg.account} |->
                         IF id = leg.account THEN After(leg) ELSE result[c].balances[id]]
    <3>1. /\ arg' = arg /\ accounts' = accounts
          /\ pc[c] = "addSecond" /\ pc'[c] = "commit"
          /\ result'[c] = [result[c] EXCEPT !.balances = bal]
      BY <2>6 DEF AddSecond, AddAccountBalance, Fail, Continue, ledgerVars, After
    <3>2. /\ first.account # leg.account
          /\ {first.account, leg.account} = {arg[c].from, arg[c].to}
      BY <3>1, LegFacts DEF ArgInv, InTransfer, Writing
    <3>3. /\ DOMAIN bal = {arg[c].from, arg[c].to}
          /\ bal[leg.account] = After(leg)
          /\ bal[first.account] = After(first)
      BY <1>1, <3>1, <3>2
    <3>4. /\ result'[c].transfers = result[c].transfers
          /\ result'[c].entries = result[c].entries
          /\ result'[c].balances = bal
      <4> HIDE DEF bal
      <4> QED
        BY <3>1 DEF TransferTxResult
    <3> HIDE DEF bal
    <3> QED
      BY <1>1, <3>1, <3>3, <3>4 DEF Writing, InTransfer, After
  <2>7. CASE result' = result /\ ~Writing(c)'
    BY <1>1, <2>7, OwnStep DEF Writing, InTransfer
  <2>8. (\E a \in Request : Issue(c, a)) \/ Acquire(c) => result' = result /\ ~Writing(c)'
    BY DEF Issue, Acquire, ArgInv, Request, TransferCall, CreateCall, DeleteCall, Writing, InTransfer
  <2>9. DeleteAccount(c) => result' = result /\ ~Writing(c)'
    BY DEF DeleteAccount, Return, Continue, Writing, InTransfer
  <2>10. Commit(c) \/ Rollback(c) \/ CreateAccount(c) \/ CheckReferences(c) \/ ConnectionLost(c)
            => pc'[c] = "done"
    BY DEF Commit, Rollback, CreateAccount, CheckReferences, ConnectionLost, Return, ReturnCommitted
  <2> QED
    BY <2>0, <2>1, <2>2, <2>3, <2>4, <2>5, <2>6, <2>7, <2>8, <2>9, <2>10 DEF Step, Progress
<1> QED
  BY <1>2, <1>3 DEF WrittenInv

-----------------------------------------------------------------------------
\* The steps that change the committed tables, and how.
LEMMA TableSteps ==
    ASSUME NEW c \in Call, Step(c)
    PROVE  \/ Commit(c)
           \/ CreateAccount(c)
           \/ CheckReferences(c)
           \/ UNCHANGED <<ledgerVars, nextId>>
BY DEF Step, Progress, Issue, Acquire, CreateTransfer, ShareTo, CreateFromEntry, CreateToEntry,
       AddFirst, AddSecond, AddAccountBalance, Rollback, DeleteAccount, ConnectionLost

\* Committed rows stay the rows of calls that returned.
LEMMA CommittedStep == ASSUME StoreInv, NEW c \in Call, Step(c) PROVE CommittedInv'
<1> USE DEF StoreInv
<1>1. \A id \in DOMAIN accounts' : id < nextId'
  <2>1. nextId \in Nat /\ \A id \in DOMAIN accounts : id \in Nat /\ id < nextId
    BY DEF CommittedInv, TypeOK, LedgerTypeOK
  <2>2. CASE DOMAIN accounts' \subseteq DOMAIN accounts /\ nextId' = nextId
    BY <2>1, <2>2
  <2>3. CASE DOMAIN accounts' \subseteq DOMAIN accounts \cup {nextId} /\ nextId' = nextId + 1
    BY <2>1, <2>3
  <2>4. CreateAccount(c) =>
           \/ DOMAIN accounts' \subseteq DOMAIN accounts /\ nextId' = nextId
           \/ DOMAIN accounts' \subseteq DOMAIN accounts \cup {nextId} /\ nextId' = nextId + 1
    BY DEF CreateAccount
  <2>5. Commit(c) \/ CheckReferences(c) \/ UNCHANGED <<ledgerVars, nextId>>
           => DOMAIN accounts' \subseteq DOMAIN accounts /\ nextId' = nextId
    BY DEF Commit, CheckReferences, ledgerVars
  <2> QED
    BY <2>2, <2>3, <2>4, <2>5, TableSteps
<1>2. ASSUME NEW t \in transfers
      PROVE  pc'[t.id] = "done" /\ err'[t.id] \in {"nil", "connection"}
  <2>1. t.id \in Call /\ pc[t.id] = "done" /\ err[t.id] \in {"nil", "connection"}
    BY DEF CommittedInv, TypeOK, LedgerTypeOK, Transfer
  <2>2. pc[c] # "done"
    BY OwnStep
  <2> QED
    BY <2>1, <2>2, Frame
<1>3. CASE Commit(c)
  <2>1. /\ result[c].transfers = {TransferRow(c, arg[c])}
        /\ result[c].entries = {FromEntry(c, arg[c]), ToEntry(c, arg[c])}
        /\ DOMAIN result[c].balances = {arg[c].from, arg[c].to}
    BY <1>3 DEF Commit, WrittenInv, Writing, InTransfer
  <2>2. /\ transfers' = transfers \cup {TransferRow(c, arg[c])}
        /\ entries' = entries \cup {FromEntry(c, arg[c]), ToEntry(c, arg[c])}
    BY <1>3, <2>1 DEF Commit
  <2>3. pc'[c] = "done" /\ err'[c] \in {"nil", "connection"}
    BY <1>3 DEF Commit, ReturnCommitted, Return, TypeOK
  <2>4. /\ TransferRow(c, arg[c]).id = c
        /\ FromEntry(c, TransferRow(c, arg[c])) = FromEntry(c, arg[c])
        /\ ToEntry(c, TransferRow(c, arg[c])) = ToEntry(c, arg[c])
        /\ Referenced({TransferRow(c, arg[c])}) = {arg[c].from, arg[c].to}
    BY DEF TransferRow, FromEntry, ToEntry, Referenced
  <2>5. \A t \in transfers' : pc'[t.id] = "done" /\ err'[t.id] \in {"nil", "connection"}
    BY <1>2, <2>2, <2>3, <2>4
  <2>6. \A e \in entries' : \E t \in transfers' : e \in {FromEntry(t.id, t), ToEntry(t.id, t)}
    BY <2>2, <2>4 DEF CommittedInv
  <2>7. Referenced(transfers') = Referenced(transfers) \cup {arg[c].from, arg[c].to}
    BY <2>2, <2>4 DEF Referenced
  <2>8. \A id \in DOMAIN accounts' \ Referenced(transfers') : accounts'[id].balance = 0
    BY <1>3, <2>1, <2>7 DEF Commit, CommittedInv
  <2> QED
    BY <1>1, <2>5, <2>6, <2>8 DEF CommittedInv, Referenced
<1>4. CASE CreateAccount(c)
  <2>1. transfers' = transfers /\ entries' = entries
    BY <1>4 DEF CreateAccount
  <2>2. \A id \in DOMAIN accounts' \ Referenced(transfers') : accounts'[id].balance = 0
    BY <1>4, <2>1 DEF CreateAccount, CommittedInv
  <2> QED
    BY <1>1, <1>2, <2>1, <2>2 DEF CommittedInv, Referenced
<1>5. CASE CheckReferences(c)
  <2>1. transfers' = transfers /\ entries' \subseteq entries
    BY <1>5 DEF CheckReferences
  <2>2. \A id \in DOMAIN accounts' \ Referenced(transfers') : accounts'[id].balance = 0
    BY <1>5, <2>1 DEF CheckReferences, CommittedInv
  <2> QED
    BY <1>1, <1>2, <2>1, <2>2 DEF CommittedInv, Referenced
<1>6. CASE UNCHANGED <<ledgerVars, nextId>>
  BY <1>1, <1>2, <1>6 DEF CommittedInv, Referenced, ledgerVars
<1> QED
  BY <1>3, <1>4, <1>5, <1>6, TableSteps

\* The invariant is inductive.
LEMMA InvStep == StoreInv /\ [Next]_vars => StoreInv'
<1> SUFFICES ASSUME StoreInv, [Next]_vars PROVE StoreInv'
  OBVIOUS
<1>1. CASE UNCHANGED vars
  BY <1>1 DEF vars, StoreInv, TypeOK, LedgerTypeOK, ArgInv, LocksExclude, HeldInv, LockedInv,
              WrittenInv, CommittedInv, InTransfer, Writing, Shared, Updated, After, Referenced
<1>2. ASSUME NEW c \in Call, Step(c) PROVE StoreInv'
  BY <1>2, TypeStep, ArgStep, ExcludeStep, HeldStep, LockedStep, WrittenStep, CommittedStep DEF StoreInv
<1> QED
  BY <1>1, <1>2, NextCases

\* The inductive invariant: what each call has done so far, and what its
\* locks guarantee of the rows it will replace.
THEOREM StoreInvariant == Spec => []StoreInv
BY InitInv, InvStep, PTL DEF Spec

\* Every variable has its type, for any accounts, calls, pool and faults.
THEOREM TypeCorrect == Spec => []TypeOK
<1>1. StoreInv => TypeOK
  BY DEF StoreInv
<1> QED
  BY <1>1, StoreInvariant, PTL

\* A failed statement leaves no row behind: a call that ended with an error
\* of its own owns no transfer and no entry.
THEOREM FailuresLeaveNothing == Spec => []FailedLeavesNothing
<1>1. StoreInv => FailedLeavesNothing
  BY DEF StoreInv, CommittedInv, FailedLeavesNothing, FromEntry, ToEntry, TypeOK, LedgerTypeOK, Transfer
<1> QED
  BY <1>1, StoreInvariant, PTL

-----------------------------------------------------------------------------
(***************************************************************************)
(* No deadlock.  Only a call of TransferTx between its statements holds    *)
(* locks and waits; a KeyShare is waited for only by DELETE, which holds   *)
(* nothing; so a circle is one of second updates, each waiting for the     *)
(* first update of another call, on an account with a larger id each time. *)
(***************************************************************************)

\* A function to numbers has a largest value on a finite, non-empty set.
LEMMA Largest ==
    ASSUME NEW T, IsFiniteSet(T), T # {}, NEW f \in [T -> Nat]
    PROVE  \E x \in T : \A y \in T : f[y] <= f[x]
<1> DEFINE Above(x) == {y \in T : f[y] > f[x]}
           Less == {p \in Nat \X Nat : p[1] < p[2]}
           N == {Cardinality(Above(x)) : x \in T}
<1>1. \A x \in T : IsFiniteSet(Above(x)) /\ Cardinality(Above(x)) \in Nat
  BY FS_Subset, FS_CardinalityType
<1>2. N \subseteq Nat /\ N # {}
  <2> HIDE DEF Above
  <2> QED
    BY <1>1
<1>3. IsWellFoundedOn(Less, Nat)
  BY NatLessThanWellFounded DEF OpToRel
<1>4. PICK n \in N : \A m \in N : <<m, n>> \notin Less
  <2> HIDE DEF N, Less
  <2> QED
    BY <1>2, <1>3, WFMin
<1>5. ASSUME NEW m \in N PROVE n <= m
  <2>1. m \in Nat /\ n \in Nat /\ <<m, n>> \notin Less
    BY <1>2, <1>4
  <2>2. ~(m < n)
    BY <2>1
  <2> QED
    BY <2>1, <2>2
<1>6. PICK x \in T : n = Cardinality(Above(x))
  OBVIOUS
<1>7. ASSUME NEW y \in T, f[y] > f[x] PROVE FALSE
  <2>1. Above(y) \in SUBSET Above(x)
    BY <1>7
  <2>2. y \in Above(x) /\ y \notin Above(y)
    BY <1>7
  <2> HIDE DEF Above
  <2>3. Cardinality(Above(y)) <= Cardinality(Above(x)) /\ Cardinality(Above(y)) # Cardinality(Above(x))
    BY <1>1, <2>1, <2>2, FS_Subset
  <2>4. n <= Cardinality(Above(y))
    BY <1>5
  <2> QED
    BY <1>1, <1>6, <2>3, <2>4
<1> QED
  BY <1>7

\* A call that waits and is waited for is a transfer between its statements.
LEMMA HoldAndWait ==
    ASSUME StoreInv, NEW c \in Call, NEW d \in Call, NEW e \in Call, WaitsFor(c, d), WaitsFor(d, e)
    PROVE  pc[d] \in {"shareTo", "addFirst", "addSecond"}
<1>1. pc[d] \in {"createTransfer", "shareTo", "addFirst", "addSecond", "deleteAccount", "createAccount"}
  BY DEF WaitsFor, Awaits
<1>2. locks[d] # {}
  BY DEF WaitsFor
<1> QED
  BY <1>1, <1>2 DEF StoreInv, HeldInv

\* If one such call waits for another, the other is at its second update; if
\* the first is, too, it wants the row the other updated first.
LEMMA WaitChain ==
    ASSUME StoreInv, NEW d \in Call, NEW e \in Call, WaitsFor(d, e),
           pc[d] \in {"shareTo", "addFirst", "addSecond"},
           pc[e] \in {"shareTo", "addFirst", "addSecond"}
    PROVE  /\ pc[e] = "addSecond"
           /\ pc[d] = "addSecond" => Legs(arg[d])[2].account = Legs(arg[e])[1].account
<1>1. 1 .. 1 = {1}
  OBVIOUS
<1>2. \A l \in locks[e] : \/ l[2] = "KeyShare"
                          \/ pc[e] = "addSecond" /\ l = <<Legs(arg[e])[1].account, "NoKeyUpdate">>
  BY <1>1 DEF StoreInv, HeldInv, Shared, Updated
<1>3. PICK w \in Awaits(d), h \in locks[e] : h[1] = w[1] /\ Conflict(h[2], w[2])
  BY DEF WaitsFor
<1>4. w[2] \in {"KeyShare", "NoKeyUpdate"}
  BY DEF Awaits
<1>5. h[2] # "KeyShare"
  BY <1>3, <1>4 DEF Conflict
<1>6. pc[d] = "addSecond" => w = <<Legs(arg[d])[2].account, "NoKeyUpdate">>
  BY DEF Awaits
<1> QED
  BY <1>2, <1>3, <1>5, <1>6

\* The holder of the largest account updated first waits for nobody in the set.
LEMMA Acyclic == StoreInv => NoDeadlock
<1> SUFFICES ASSUME StoreInv, NEW S \in SUBSET Call, S # {},
                    \A c \in S : \E d \in S : WaitsFor(c, d)
             PROVE  FALSE
  BY DEF NoDeadlock
<1> DEFINE T == {c \in S : pc[c] = "addSecond"}
           f == [c \in T |-> Legs(arg[c])[1].account]
<1>1. ASSUME NEW c \in T
      PROVE  /\ arg[c] \in TransferCall /\ Checked(arg[c])
             /\ f[c] \in Nat
             /\ f[c] < Legs(arg[c])[2].account
  <2>1. arg[c] \in TransferCall /\ Checked(arg[c])
    BY DEF StoreInv, ArgInv, InTransfer, Writing
  <2>2. Legs(arg[c])[1].account \in AccountId
    <3>1. arg[c].from \in AccountId /\ arg[c].to \in AccountId
      BY <2>1 DEF TransferCall
    <3> QED
      BY <3>1 DEF Legs
  <2>3. f[c] = Legs(arg[c])[1].account
    OBVIOUS
  <2> HIDE DEF f
  <2> QED
    BY <2>1, <2>2, <2>3, LegFacts
<1>2. T # {}
  <2>1. PICK c \in S : TRUE
    OBVIOUS
  <2>2. PICK d \in S : WaitsFor(c, d)
    OBVIOUS
  <2>3. PICK e \in S : WaitsFor(d, e)
    OBVIOUS
  <2>4. PICK g \in S : WaitsFor(e, g)
    OBVIOUS
  <2> QED
    BY <2>2, <2>3, <2>4, HoldAndWait, WaitChain
<1>3. IsFiniteSet(T)
  BY FS_Subset
<1>4. f \in [T -> Nat]
  BY <1>1
<1>5. PICK m \in T : \A c \in T : f[c] <= f[m]
  <2> HIDE DEF f, T
  <2> QED
    BY <1>2, <1>3, <1>4, Largest
<1>6. PICK e \in S : WaitsFor(m, e)
  OBVIOUS
<1>7. PICK g \in S : WaitsFor(e, g)
  OBVIOUS
<1>8. pc[e] = "addSecond" /\ Legs(arg[m])[2].account = Legs(arg[e])[1].account
  <2>1. pc[e] \in {"shareTo", "addFirst", "addSecond"}
    BY <1>6, <1>7, HoldAndWait
  <2> QED
    BY <1>6, <2>1, WaitChain
<1>9. e \in T /\ f[e] = Legs(arg[m])[2].account
  BY <1>8
<1>10. Legs(arg[m])[2].account \in Nat /\ f[m] < Legs(arg[m])[2].account /\ f[e] <= f[m] /\ f[m] \in Nat
  <2>1. {Legs(arg[m])[1].account, Legs(arg[m])[2].account} = {arg[m].from, arg[m].to}
    BY <1>1, LegFacts
  <2>2. {arg[m].from, arg[m].to} \subseteq Nat
    BY <1>1 DEF TransferCall
  <2> HIDE DEF f, T
  <2> QED
    BY <1>1, <1>5, <1>9, <2>1, <2>2
<1> QED
  BY <1>9, <1>10

\* Calls of the store never wait for each other in a circle, however many
\* there are and whatever accounts they name.
THEOREM DeadlockFree == Spec => []NoDeadlock
BY Acyclic, StoreInvariant, PTL

-----------------------------------------------------------------------------
(***************************************************************************)
(* The store implements the ledger: COMMIT is a Move, the insertion of an  *)
(* account an Open, its deletion a Close, and nothing else is visible.     *)
(***************************************************************************)

\* COMMIT of a transfer is one Move of the ledger.
LEMMA CommitIsMove ==
    ASSUME StoreInv, NEW c \in Call, Commit(c)
    PROVE  \E a \in TransferTxParams : Move(c, a)
<1> USE DEF StoreInv
<1> DEFINE r == arg[c]
           a == [from |-> r.from, to |-> r.to, amount |-> r.amount]
           b == result[c].balances
<1>1. r \in TransferCall /\ Checked(r) /\ pc[c] = "commit"
  BY DEF Commit, ArgInv, InTransfer, Writing
<1>2. a \in TransferTxParams /\ Checked(a) /\ a.from # a.to
  BY <1>1 DEF TransferCall, TransferTxParams, Checked
<1>3. /\ TransferRow(c, a) = TransferRow(c, r)
      /\ FromEntry(c, a) = FromEntry(c, r)
      /\ ToEntry(c, a) = ToEntry(c, r)
  BY DEF TransferRow, FromEntry, ToEntry
<1>4. /\ result[c].transfers = {TransferRow(c, a)}
      /\ result[c].entries = {FromEntry(c, a), ToEntry(c, a)}
      /\ DOMAIN b = {a.from, a.to}
  BY <1>1, <1>3 DEF WrittenInv, Writing, InTransfer
<1>5. /\ b[a.from] = accounts[a.from].balance - a.amount
      /\ b[a.to] = accounts[a.to].balance + a.amount
  <2>1. b[Legs(r)[1].account] = After(Legs(r)[1]) /\ b[Legs(r)[2].account] = After(Legs(r)[2])
    BY <1>1 DEF WrittenInv
  <2>2. {a.from, a.to} \subseteq DOMAIN accounts
    <3>1. Shared(c) \subseteq locks[c]
      BY <1>1 DEF HeldInv
    <3> QED
      BY <3>1 DEF Shared, LockedInv
  <2>3. accounts[a.from].balance \in Int /\ accounts[a.to].balance \in Int /\ a.amount \in Int
    BY <1>1, <2>2 DEF TypeOK, LedgerTypeOK, Account, Bigint, TransferCall
  <2>4. \/ /\ Legs(r)[1] = [account |-> a.from, amount |-> -a.amount]
           /\ Legs(r)[2] = [account |-> a.to, amount |-> a.amount]
        \/ /\ Legs(r)[2] = [account |-> a.from, amount |-> -a.amount]
           /\ Legs(r)[1] = [account |-> a.to, amount |-> a.amount]
    BY DEF Legs
  <2> HIDE DEF a, b, r
  <2> QED
    BY <2>1, <2>3, <2>4 DEF After
<1>6. {a.from, a.to} \subseteq DOMAIN accounts
  <2>1. Shared(c) \subseteq locks[c]
    BY <1>1 DEF HeldInv
  <2> QED
    BY <2>1 DEF Shared, LockedInv
<1>7. \A t \in transfers : t.id # c
  BY <1>1 DEF CommittedInv
<1>8. b[a.from] \in Bigint /\ b[a.to] \in Bigint
  <2>1. b \in [{a.from, a.to} -> Bigint]
    BY <1>4, BalancesElim DEF TypeOK, TransferTxResult
  <2> QED
    BY <2>1
<1>9. accounts' = [accounts EXCEPT ![a.from].balance = @ - a.amount,
                                   ![a.to].balance = @ + a.amount]
  <2>1. accounts' = [id \in DOMAIN accounts |->
                       IF id \in {a.from, a.to}
                       THEN [accounts[id] EXCEPT !.balance = b[id]]
                       ELSE accounts[id]]
    BY <1>4 DEF Commit
  <2>2. accounts \in [DOMAIN accounts -> Account]
    BY DEF TypeOK, LedgerTypeOK
  <2> HIDE DEF a, b
  <2> QED
    BY <1>2, <1>5, <1>6, <2>1, <2>2
<1>10. /\ transfers' = transfers \cup {TransferRow(c, a)}
       /\ entries' = entries \cup {FromEntry(c, a), ToEntry(c, a)}
  BY <1>4 DEF Commit
<1> HIDE DEF a, b
<1>11. Move(c, a)
  BY <1>2, <1>5, <1>6, <1>7, <1>8, <1>9, <1>10 DEF Move
<1> QED
  BY <1>2, <1>11

\* The INSERT of an account is one Open of the ledger.
LEMMA CreateIsOpen ==
    ASSUME StoreInv, NEW c \in Call, CreateAccount(c)
    PROVE  \/ UNCHANGED ledgerVars
           \/ \E id \in AccountId, owner \in Owner, currency \in Currency : Open(id, owner, currency)
<1> USE DEF StoreInv
<1> DEFINE a == arg[c]
<1>1. a.owner \in Owner /\ a.currency \in Currency
  BY DEF CreateAccount, ArgInv, CreateCall
<1>2. nextId \notin DOMAIN accounts
  BY DEF CommittedInv, TypeOK
<1>3. CASE accounts' = accounts
  BY <1>3 DEF CreateAccount, ledgerVars
<1>4. CASE accounts' # accounts
  <2>1. /\ nextId \in AccountId
        /\ ~\E id \in DOMAIN accounts : accounts[id].owner = a.owner /\ accounts[id].currency = a.currency
        /\ accounts' = [id \in DOMAIN accounts \cup {nextId} |->
                          IF id = nextId
                          THEN [owner |-> a.owner, currency |-> a.currency, balance |-> 0]
                          ELSE accounts[id]]
        /\ UNCHANGED <<transfers, entries>>
    BY <1>4 DEF CreateAccount
  <2>2. Open(nextId, a.owner, a.currency)
    BY <1>2, <2>1 DEF Open
  <2> QED
    BY <1>1, <2>1, <2>2
<1> QED
  BY <1>3, <1>4

\* The end of a DELETE that is not refused is one Close of the ledger.
LEMMA DeleteIsClose ==
    ASSUME StoreInv, NEW c \in Call, CheckReferences(c)
    PROVE  UNCHANGED ledgerVars \/ \E id \in AccountId : Close(id)
<1> USE DEF StoreInv
<1> DEFINE id == arg[c].id
<1>1. CASE id \in Referenced(transfers)
  BY <1>1 DEF CheckReferences, ledgerVars
<1>2. CASE id \notin Referenced(transfers)
  <2>1. id \in DOMAIN accounts /\ id \in AccountId
    <3>1. <<id, "Update">> \in locks[c] /\ arg[c] \in DeleteCall
      BY DEF CheckReferences, HeldInv, ArgInv
    <3> QED
      BY <3>1 DEF LockedInv, DeleteCall
  <2>2. accounts[id].balance = 0
    BY <1>2, <2>1 DEF CommittedInv
  <2>3. \A e \in entries : e.account # id
    BY <1>2 DEF CommittedInv, Referenced, FromEntry, ToEntry
  <2>4. /\ accounts' = [x \in DOMAIN accounts \ {id} |-> accounts[x]]
        /\ entries' = {e \in entries : e.account # id}
        /\ transfers' = transfers
    BY <1>2 DEF CheckReferences
  <2>5. entries' = entries
    BY <2>3, <2>4
  <2>6. Close(id)
    BY <1>2, <2>1, <2>2, <2>3, <2>4, <2>5 DEF Close
  <2> QED
    BY <2>1, <2>6
<1> QED
  BY <1>1, <1>2

\* Every step of the store is a step of the ledger or leaves it alone.
LEMMA StepSimulation == StoreInv /\ [Next]_vars => [LedgerNext]_ledgerVars
<1> SUFFICES ASSUME StoreInv, [Next]_vars PROVE [LedgerNext]_ledgerVars
  OBVIOUS
<1>1. CASE UNCHANGED vars
  BY <1>1 DEF vars, ledgerVars
<1>2. ASSUME NEW c \in Call, Step(c) PROVE [LedgerNext]_ledgerVars
  BY <1>2, TableSteps, CommitIsMove, CreateIsOpen, DeleteIsClose DEF LedgerNext
<1> QED
  BY <1>1, <1>2, NextCases

\* Whatever runs beside it and wherever connections fail, every operation of
\* the store happens on the committed tables in one step or not at all.
THEOREM StoreImplementsLedger == Spec => LedgerSpec
<1>1. Init => LedgerInit
  BY DEF Init
<1> QED
  BY <1>1, StepSimulation, StoreInvariant, PTL DEF Spec, LedgerSpec

\* The books of the store are double at every instant of every interleaving.
THEOREM StoreBooksDouble == Spec => []DoubleEntry
BY StoreImplementsLedger, DoubleEntryHolds, PTL

\* However calls interleave and fail, all balances add up to what they added
\* up to at the start.
THEOREM StoreConservesMoney == Spec => []MoneyConserved
BY StoreImplementsLedger, MoneyStaysConserved, PTL

\* The balance of every account is the sum of its entries, at every instant:
\* no update of a balance is lost, doubled or without its entry.
THEOREM StoreBalancesAreEntrySums == Spec => []BalanceIsEntrySum
BY StoreImplementsLedger, BalancesAreEntrySums, PTL

-----------------------------------------------------------------------------
\* No step takes away the rows of a transfer whose caller was told.
LEMMA AckedStep == StoreInv /\ AckedIsRecorded /\ [Next]_vars => AckedIsRecorded'
<1> SUFFICES ASSUME StoreInv, AckedIsRecorded, [Next]_vars PROVE AckedIsRecorded'
  OBVIOUS
<1>1. CASE UNCHANGED vars
  BY <1>1 DEF vars, AckedIsRecorded
<1>2. ASSUME NEW c \in Call, Step(c) PROVE AckedIsRecorded'
  <2> USE DEF StoreInv
  <2>1. transfers \subseteq transfers'
    BY <1>2, TableSteps DEF Commit, CreateAccount, CheckReferences, ledgerVars
  <2>2. ASSUME NEW e \in entries, e.account \in Referenced(transfers) PROVE e \in entries'
    BY <1>2, <2>2, TableSteps DEF Commit, CreateAccount, CheckReferences, ledgerVars
  <2>3. ASSUME NEW d \in Call \ {c}, pc'[d] = "done", err'[d] = "nil", arg'[d].op = "createTransfer"
        PROVE  /\ TransferRow(d, arg'[d]) \in transfers'
               /\ {FromEntry(d, arg'[d]), ToEntry(d, arg'[d])} \subseteq entries'
    <3> DEFINE a == arg[d]
    <3>1. arg'[d] = a /\ pc[d] = "done" /\ err[d] = "nil"
      BY <1>2, <2>3, Frame
    <3>2. TransferRow(d, a) \in transfers /\ {FromEntry(d, a), ToEntry(d, a)} \subseteq entries
      BY <2>3, <3>1 DEF AckedIsRecorded
    <3>3. {FromEntry(d, a).account, ToEntry(d, a).account} \subseteq Referenced(transfers)
      BY <3>2 DEF FromEntry, ToEntry, TransferRow, Referenced
    <3> QED
      BY <2>1, <2>2, <3>1, <3>2, <3>3
  <2>4. ASSUME pc'[c] = "done", err'[c] = "nil", arg'[c].op = "createTransfer"
        PROVE  /\ TransferRow(c, arg'[c]) \in transfers'
               /\ {FromEntry(c, arg'[c]), ToEntry(c, arg'[c])} \subseteq entries'
    <3>1. Commit(c)
      <4> USE DEF TypeOK
      <4>1. arg'[c] = arg[c]
        BY <1>2, <2>4, OwnStep
      <4>2. pc[c] \notin {"createAccount", "deleteAccount", "checkReferences"}
        BY <2>4, <4>1 DEF ArgInv, CreateCall, DeleteCall
      <4>3. ~Rollback(c) /\ ~ConnectionLost(c)
        BY <2>4 DEF Rollback, ConnectionLost, Return, ArgInv
      <4>4. ~CreateAccount(c) /\ ~DeleteAccount(c) /\ ~CheckReferences(c)
        BY <4>2 DEF CreateAccount, DeleteAccount, CheckReferences
      <4>5. ~Acquire(c) /\ ~CreateTransfer(c) /\ ~ShareTo(c) /\ ~CreateFromEntry(c)
              /\ ~CreateToEntry(c) /\ ~AddFirst(c) /\ ~AddSecond(c)
        BY <2>4 DEF Acquire, CreateTransfer, ShareTo, CreateFromEntry, CreateToEntry, AddFirst,
                    AddSecond, AddAccountBalance, Fail, Continue, ArgInv, Request, TransferCall, CreateCall, DeleteCall
      <4>6. \A a \in Request : ~Issue(c, a)
        BY <2>4 DEF Issue
      <4> QED
        BY <1>2, <4>3, <4>4, <4>5, <4>6 DEF Step, Progress
    <3> QED
      BY <3>1 DEF Commit, WrittenInv, Writing, InTransfer
  <2> QED
    BY <2>3, <2>4 DEF AckedIsRecorded
<1> QED
  BY <1>1, <1>2, NextCases

\* A transfer acknowledged with "nil" is in the tables from then on, with
\* both its entries.
THEOREM AcknowledgedStays == Spec => []AckedIsRecorded
<1>1. Init => AckedIsRecorded
  BY DEF Init, AckedIsRecorded
<1> QED
  BY <1>1, AckedStep, StoreInvariant, PTL DEF Spec

=============================================================================
