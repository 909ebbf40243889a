---------------------------- MODULE BankApiProofs ----------------------------
(***************************************************************************)
(* Proofs about BankApi, for any owners, currencies, accounts, amounts and *)
(* number of concurrent requests.                                          *)
(*                                                                         *)
(*   1. Moved: what a step does to one request, whoever takes it.          *)
(*   2. ApiInv is inductive: the store's invariant goes through, since a   *)
(*      handler does nothing to the store but call it once; Identity says  *)
(*      what of an account no step changes.                                *)
(*   3. The properties follow: of what was authorised, told, deleted, and  *)
(*      of the money in each currency.                                     *)
(***************************************************************************)
EXTENDS BankApi, TransferStoreProofs

USE BigintAssumption, LedgerAssumption, InitAssumption, StoreAssumption

\* A call of the store takes a step of its own.
Runs(c) == Progress(c) \/ ConnectionLost(c)

\* What is known of a request's part of a state.
Same(c) ==
    /\ stage'[c] = stage[c] /\ req'[c] = req[c] /\ status'[c] = status[c]
    /\ pc'[c] = pc[c] /\ arg'[c] = arg[c] /\ err'[c] = err[c]

\* The ways in which a request goes on.
Moved(c) ==
    \/ Same(c)
    \/ /\ stage[c] = "idle" /\ stage'[c] = "replied"
       /\ req'[c] \in HttpRequest /\ status'[c] = 400
       /\ pc'[c] = pc[c] /\ arg'[c] = arg[c] /\ err'[c] = err[c]
    \/ /\ stage[c] = "idle" /\ stage'[c] = "readFrom"
       /\ req'[c] \in PostTransfer /\ status'[c] = status[c]
       /\ pc'[c] = pc[c] /\ arg'[c] = arg[c] /\ err'[c] = err[c]
    \/ /\ stage[c] = "idle" /\ stage'[c] = "store"
       /\ req'[c] \in PostAccount \cup DelAccount /\ status'[c] = status[c]
       /\ pc'[c] = "acquire" /\ arg'[c] = StoreArg(req'[c]) /\ err'[c] = err[c]
    \/ /\ stage[c] \in {"readFrom", "readTo"} /\ stage'[c] = "replied"
       /\ req'[c] = req[c] /\ status'[c] \in {400, 403, 404, 500}
       /\ pc'[c] = pc[c] /\ arg'[c] = arg[c] /\ err'[c] = err[c]
    \/ /\ stage[c] = "readFrom" /\ stage'[c] = "readTo"
       /\ req'[c] = req[c] /\ status'[c] = status[c]
       /\ pc'[c] = pc[c] /\ arg'[c] = arg[c] /\ err'[c] = err[c]
       /\ req[c].from \in DOMAIN accounts
       /\ FromAsRead(req[c])
    \/ /\ stage[c] = "readTo" /\ stage'[c] = "store"
       /\ req'[c] = req[c] /\ status'[c] = status[c]
       /\ pc'[c] = "acquire" /\ arg'[c] = StoreArg(req[c]) /\ err'[c] = err[c]
       /\ req[c].to \in DOMAIN accounts
       /\ ToAsRead(req[c])
    \/ /\ stage[c] = "store" /\ stage'[c] = "replied" /\ pc[c] = "done"
       /\ req'[c] = req[c] /\ status'[c] = StatusOf(req[c], err[c])
       /\ pc'[c] = pc[c] /\ arg'[c] = arg[c] /\ err'[c] = err[c]
    \/ /\ Runs(c)
       /\ stage'[c] = stage[c] /\ req'[c] = req[c] /\ status'[c] = status[c]
       /\ pc[c] \notin {"idle", "done"} /\ pc'[c] # "idle" /\ arg'[c] = arg[c]

\* The kinds of requests, and the arguments they give the store.
LEMMA Kinds ==
    /\ \A r \in PostTransfer : r.kind = "postTransfer" /\ StoreArg(r) = TransferArg(r)
    /\ \A r \in PostAccount : r.kind = "postAccount" /\ StoreArg(r) = CreateArg(r)
    /\ \A r \in DelAccount : r.kind = "deleteAccount" /\ StoreArg(r) = DeleteArg(r)
    /\ \A r \in HttpRequest :
          /\ r.kind = "postTransfer" => r \in PostTransfer
          /\ r.kind = "postAccount" => r \in PostAccount
          /\ r.kind = "deleteAccount" => r \in DelAccount
    /\ NoRequest.kind = "none" /\ NoRequest \notin HttpRequest
BY DEF PostTransfer, PostAccount, DelAccount, HttpRequest, NoRequest, StoreArg

\* What a handler gives the store is a request the store knows.
LEMMA StoreArgs ==
    /\ \A r \in PostTransfer : TransferArg(r) \in Request
    /\ \A r \in PostAccount : Acceptable(r) => CreateArg(r) \in Request
    /\ \A r \in DelAccount : DeleteArg(r) \in Request
<1>1. ASSUME NEW r \in PostTransfer PROVE TransferArg(r) \in TransferCall
  BY DEF PostTransfer, TransferArg, TransferCall
<1>2. ASSUME NEW r \in PostAccount, Acceptable(r) PROVE CreateArg(r) \in CreateCall
  BY <1>2 DEF PostAccount, CreateArg, CreateCall, Acceptable
<1>3. ASSUME NEW r \in DelAccount PROVE DeleteArg(r) \in DeleteCall
  BY DEF DelAccount, DeleteArg, DeleteCall
<1> QED
  BY <1>1, <1>2, <1>3 DEF Request

\* A call of the store that runs has begun and has not returned.
LEMMA RunsOwn ==
    ASSUME StoreInv, NEW c \in Call, Runs(c)
    PROVE  Step(c) /\ pc[c] \notin {"idle", "done"} /\ pc'[c] # "idle" /\ arg'[c] = arg[c]
<1>1. Step(c)
  BY DEF Runs, Step
<1>2. pc[c] \notin {"idle", "done"}
  BY DEF Runs, Progress, Acquire, CreateTransfer, ShareTo, CreateFromEntry, CreateToEntry, AddFirst,
         AddSecond, Commit, Rollback, CreateAccount, DeleteAccount, CheckReferences, ConnectionLost
<1>3. pc[c] = "acquire" => arg[c].op # "idle"
  BY DEF StoreInv, ArgInv, Request, TransferCall, CreateCall, DeleteCall
<1> QED
  BY <1>1, <1>2, <1>3, OwnStep DEF StoreInv

\* Every step is one of these for every request.
LEMMA ApiMoves == ASSUME ApiInv, [ApiNext]_apiVars, NEW d \in Call PROVE Moved(d)
<1> USE DEF ApiInv, ApiTypeOK, TypeOK
<1>0. Same(d) => Moved(d)
  BY DEF Moved
<1>1. ASSUME NEW c \in Call, NEW r \in HttpRequest, Receive(c, r) PROVE Moved(d)
  <2>1. CASE d # c
    BY <1>0, <1>1, <2>1 DEF Receive, Reply, Go, Issue, Same, vars
  <2>2. CASE d = c /\ ~Acceptable(r) /\ Reply(c, 400) /\ UNCHANGED vars
    <3>1. /\ stage[d] = "idle" /\ stage'[d] = "replied" /\ req'[d] = r /\ status'[d] = 400
          /\ pc'[d] = pc[d] /\ arg'[d] = arg[d] /\ err'[d] = err[d]
      BY <1>1, <2>2 DEF Receive, Reply, vars
    <3> QED
      BY <3>1 DEF Moved
  <2>3. CASE d = c /\ r.kind = "postTransfer" /\ Go(c, "readFrom") /\ UNCHANGED vars
    <3>1. /\ stage[d] = "idle" /\ stage'[d] = "readFrom" /\ req'[d] = r /\ status'[d] = status[d]
          /\ pc'[d] = pc[d] /\ arg'[d] = arg[d] /\ err'[d] = err[d]
      BY <1>1, <2>3 DEF Receive, Go, vars
    <3> QED
      BY <2>3, <3>1, Kinds DEF Moved
  <2>4. ASSUME NEW a, d = c, r \in PostAccount \cup DelAccount, a = StoreArg(r), Go(c, "store"), Issue(c, a)
        PROVE  Moved(d)
    <3>1. /\ stage[d] = "idle" /\ stage'[d] = "store" /\ req'[d] = r /\ status'[d] = status[d]
          /\ pc'[d] = "acquire" /\ arg'[d] = a /\ err'[d] = err[d]
      BY <1>1, <2>4 DEF Receive, Go, Issue
    <3> QED
      BY <2>4, <3>1 DEF Moved
  <2>5. \/ ~Acceptable(r) /\ Reply(c, 400) /\ UNCHANGED vars
        \/ r.kind = "postTransfer" /\ Go(c, "readFrom") /\ UNCHANGED vars
        \/ r.kind = "postAccount" /\ Go(c, "store") /\ Issue(c, CreateArg(r))
        \/ r.kind = "deleteAccount" /\ Go(c, "store") /\ Issue(c, DeleteArg(r))
    BY <1>1 DEF Receive
  <2> QED
    BY <2>1, <2>2, <2>3, <2>4, <2>5, Kinds
<1>2. ASSUME NEW c \in Call, ReadFrom(c) PROVE Moved(d)
  <2>1. CASE d # c
    BY <1>0, <1>2, <2>1 DEF ReadFrom, Reply, Go, Same, vars
  <2>2. CASE d = c
    <3>1. /\ stage[d] = "readFrom" /\ req'[d] = req[d]
          /\ pc'[d] = pc[d] /\ arg'[d] = arg[d] /\ err'[d] = err[d]
      BY <1>2, <2>2 DEF ReadFrom, vars
    <3>2. CASE \E s \in {400, 403, 404} : Reply(c, s)
      <4>1. stage'[d] = "replied" /\ status'[d] \in {400, 403, 404}
        BY <2>2, <3>2 DEF Reply
      <4> QED
        BY <3>1, <4>1 DEF Moved
    <3>3. CASE Go(c, "readTo") /\ ~\E s \in {400, 403, 404} : Reply(c, s)
      <4>1. stage'[d] = "readTo" /\ status'[d] = status[d]
        BY <2>2, <3>3 DEF Go
      <4>2. /\ req[d].from \in DOMAIN accounts
            /\ accounts[req[d].from].owner = req[d].user
            /\ accounts[req[d].from].currency = req[d].currency
        BY <1>2, <2>2, <3>3 DEF ReadFrom
      <4>3. FromAsRead(req[d])
        BY <4>2 DEF FromAsRead, StoreInv, CommittedInv
      <4> QED
        BY <3>1, <4>1, <4>2, <4>3 DEF Moved
    <3> QED
      BY <1>2, <3>2, <3>3 DEF ReadFrom
  <2> QED
    BY <2>1, <2>2
<1>3. ASSUME NEW c \in Call, ReadTo(c) PROVE Moved(d)
  <2>1. CASE d # c
    BY <1>0, <1>3, <2>1 DEF ReadTo, Reply, Go, Issue, Same, vars
  <2>2. CASE d = c /\ UNCHANGED vars /\ \E s \in {400, 404} : Reply(c, s)
    <3>1. /\ stage[d] = "readTo" /\ stage'[d] = "replied" /\ req'[d] = req[d] /\ status'[d] \in {400, 404}
          /\ pc'[d] = pc[d] /\ arg'[d] = arg[d] /\ err'[d] = err[d]
      BY <1>3, <2>2 DEF ReadTo, Reply, vars
    <3> QED
      BY <3>1 DEF Moved
  <2>3. CASE /\ d = c /\ Go(c, "store") /\ Issue(c, TransferArg(req[c]))
             /\ req[c].to \in DOMAIN accounts /\ accounts[req[c].to].currency = req[c].currency
    <3>1. /\ stage[d] = "readTo" /\ stage'[d] = "store" /\ req'[d] = req[d] /\ status'[d] = status[d]
          /\ pc'[d] = "acquire" /\ arg'[d] = TransferArg(req[d]) /\ err'[d] = err[d]
      BY <1>3, <2>3 DEF ReadTo, Go, Issue
    <3>2. StoreArg(req[d]) = TransferArg(req[d])
      BY <3>1, Kinds DEF HandlerInv
    <3>3. req[d].to \in DOMAIN accounts /\ ToAsRead(req[d])
      BY <2>3 DEF ToAsRead, StoreInv, CommittedInv
    <3> QED
      BY <3>1, <3>2, <3>3 DEF Moved
  <2> QED
    BY <1>3, <2>1, <2>2, <2>3 DEF ReadTo
<1>4. ASSUME NEW c \in Call, QueryFails(c) PROVE Moved(d)
  <2>1. CASE d # c
    BY <1>0, <1>4, <2>1 DEF QueryFails, Reply, Same
  <2>2. CASE d = c
    <3>1. /\ stage[d] \in {"readFrom", "readTo"} /\ stage'[d] = "replied"
          /\ req'[d] = req[d] /\ status'[d] = 500
          /\ pc'[d] = pc[d] /\ arg'[d] = arg[d] /\ err'[d] = err[d]
      BY <1>4, <2>2 DEF QueryFails, Reply
    <3> QED
      BY <3>1 DEF Moved
  <2> QED
    BY <2>1, <2>2
<1>5. ASSUME NEW c \in Call, Answer(c) PROVE Moved(d)
  <2>1. CASE d # c
    BY <1>0, <1>5, <2>1 DEF Answer, Reply, Same, vars
  <2>2. CASE d = c
    <3>1. /\ stage[d] = "store" /\ stage'[d] = "replied" /\ pc[d] = "done"
          /\ req'[d] = req[d] /\ status'[d] = StatusOf(req[d], err[d])
          /\ pc'[d] = pc[d] /\ arg'[d] = arg[d] /\ err'[d] = err[d]
      BY <1>5, <2>2 DEF Answer, Reply, vars
    <3> QED
      BY <3>1 DEF Moved
  <2> QED
    BY <2>1, <2>2
<1>6. ASSUME NEW c \in Call, Runs(c), UNCHANGED <<stage, req, status>> PROVE Moved(d)
  <2>1. CASE d # c
    BY <1>0, <1>6, <2>1, RunsOwn, Frame DEF Same
  <2>2. CASE d = c
    BY <1>6, <2>2, RunsOwn DEF Moved
  <2> QED
    BY <2>1, <2>2
<1>7. CASE UNCHANGED apiVars
  BY <1>0, <1>7 DEF apiVars, vars, Same
<1> QED
  BY <1>1, <1>2, <1>3, <1>4, <1>5, <1>6, <1>7 DEF ApiNext, StoreStep, AllReplied, Runs

-----------------------------------------------------------------------------
\* A failed query takes a connection and nothing else of the store.
LostQuery ==
    /\ UNCHANGED <<ledgerVars, nextId, pc, arg, locks, result, err>>
    /\ LoseConnection

\* To the store, a step of a handler is a step of one call or none.
LEMMA StoreMoves ==
    ASSUME ApiInv, [ApiNext]_apiVars
    PROVE  [Next]_vars \/ LostQuery
<1> USE DEF ApiInv
<1>1. ASSUME NEW c \in Call, NEW r \in HttpRequest, Receive(c, r) PROVE [Next]_vars
  <2>1. \/ UNCHANGED vars
        \/ r \in PostAccount /\ Acceptable(r) /\ Issue(c, CreateArg(r))
        \/ r \in DelAccount /\ Issue(c, DeleteArg(r))
    BY <1>1, Kinds DEF Receive
  <2> QED
    BY <2>1, StoreArgs DEF Next
<1>2. ASSUME NEW c \in Call, ReadFrom(c) \/ Answer(c) PROVE [Next]_vars
  BY <1>2 DEF ReadFrom, Answer, vars
<1>3. ASSUME NEW c \in Call, ReadTo(c) PROVE [Next]_vars
  <2>1. req[c] \in PostTransfer
    BY <1>3 DEF ReadTo, HandlerInv
  <2>2. UNCHANGED vars \/ Issue(c, TransferArg(req[c]))
    BY <1>3 DEF ReadTo
  <2> QED
    BY <2>1, <2>2, StoreArgs DEF Next
<1>4. ASSUME NEW c \in Call, QueryFails(c) PROVE LostQuery
  BY <1>4 DEF QueryFails, LostQuery
<1>5. CASE StoreStep
  BY <1>5 DEF StoreStep, Next
<1>6. CASE UNCHANGED apiVars
  BY <1>6 DEF apiVars
<1> QED
  BY <1>1, <1>2, <1>3, <1>4, <1>5, <1>6 DEF ApiNext, AllReplied

\* So the store's invariant holds under the handlers, and what they do to the
\* tables is what the ledger allows.
LEMMA StoreGoesOn ==
    ASSUME ApiInv, [ApiNext]_apiVars
    PROVE  StoreInv' /\ [LedgerNext]_ledgerVars
<1>1. CASE [Next]_vars
  BY <1>1, InvStep, StepSimulation DEF ApiInv
<1>2. CASE LostQuery
  <2>1. TypeOK'
    BY <1>2 DEF LostQuery, LoseConnection, ApiInv, StoreInv, TypeOK, LedgerTypeOK, ledgerVars
  <2>2. ArgInv' /\ LocksExclude' /\ HeldInv' /\ LockedInv' /\ WrittenInv' /\ CommittedInv'
    BY <1>2 DEF LostQuery, ApiInv, StoreInv, ArgInv, LocksExclude, HeldInv, LockedInv, WrittenInv,
                CommittedInv, InTransfer, Writing, Shared, Updated, After, Referenced, ledgerVars
  <2> QED
    BY <1>2, <2>1, <2>2 DEF StoreInv, LostQuery
<1> QED
  BY <1>1, <1>2, StoreMoves

\* What of the accounts no step changes: ids are issued in order and once, and
\* an account keeps its owner and its currency.
LEMMA Identity ==
    ASSUME ApiInv, [ApiNext]_apiVars
    PROVE  /\ nextId \in Nat /\ nextId' \in Nat /\ nextId <= nextId'
           /\ \A id \in DOMAIN accounts' : id \in Nat
           /\ \A id \in DOMAIN accounts' : id < nextId =>
                 /\ id \in DOMAIN accounts
                 /\ accounts'[id].owner = accounts[id].owner
                 /\ accounts'[id].currency = accounts[id].currency
<1> USE DEF ApiInv
<1>0. /\ nextId \in Nat /\ nextId' \in Nat
      /\ \A id \in DOMAIN accounts' : id \in Nat
      /\ accounts \in [DOMAIN accounts -> Account]
  BY StoreGoesOn DEF StoreInv, TypeOK, LedgerTypeOK
<1>1. CASE UNCHANGED <<ledgerVars, nextId>>
  BY <1>0, <1>1 DEF ledgerVars
<1>2. ASSUME NEW c \in Call, Commit(c) PROVE nextId <= nextId' /\ \A id \in DOMAIN accounts' :
                 /\ id \in DOMAIN accounts
                 /\ accounts'[id].owner = accounts[id].owner
                 /\ accounts'[id].currency = accounts[id].currency
  BY <1>0, <1>2 DEF Commit, Account
<1>3. ASSUME NEW c \in Call, CreateAccount(c) PROVE nextId <= nextId' /\ \A id \in DOMAIN accounts' :
                 id < nextId => id \in DOMAIN accounts /\ accounts'[id] = accounts[id]
  BY <1>0, <1>3 DEF CreateAccount
<1>4. ASSUME NEW c \in Call, CheckReferences(c) PROVE nextId <= nextId' /\ \A id \in DOMAIN accounts' :
                 id \in DOMAIN accounts /\ accounts'[id] = accounts[id]
  BY <1>0, <1>4 DEF CheckReferences
<1>5. \/ UNCHANGED <<ledgerVars, nextId>>
      \/ \E c \in Call : Commit(c) \/ CreateAccount(c) \/ CheckReferences(c)
  BY StoreMoves, NextCases, TableSteps DEF LostQuery, vars, ledgerVars
<1> QED
  BY <1>0, <1>1, <1>2, <1>3, <1>4, <1>5

-----------------------------------------------------------------------------
\* A status is one of those that handlers answer.
LEMMA Statuses ==
    \A r \in HttpRequest : \A e \in Error : StatusOf(r, e) \in {200, 404, 409, 500}
BY Kinds DEF HttpRequest, StatusOf, TransferStatus, CreateStatus, DeleteStatus, IsUniqueViolationError,
             IsNotFoundError, IsForeignKeyViolationError

LEMMA HandlerStepInv == ASSUME ApiInv, [ApiNext]_apiVars PROVE HandlerInv'
<1> USE DEF ApiInv
<1> DEFINE Handler(c) ==
        /\ stage[c] = "idle" <=> req[c] = NoRequest
        /\ stage[c] = "replied" <=> status[c] # 0
        /\ stage[c] \in {"idle", "readFrom", "readTo"} => pc[c] = "idle"
        /\ stage[c] \in {"readFrom", "readTo"} => req[c] \in PostTransfer
        /\ stage[c] = "store" => pc[c] # "idle"
        /\ stage[c] = "replied" =>
              \/ pc[c] = "idle" /\ status[c] # 200
              \/ pc[c] = "done" /\ status[c] = StatusOf(req[c], err[c])
        /\ pc[c] # "idle" => arg[c] = StoreArg(req[c])
<1> SUFFICES ASSUME NEW c \in Call PROVE Handler(c)'
  BY DEF HandlerInv
<1>1. Handler(c)
  BY DEF HandlerInv
<1>2. Moved(c)
  BY ApiMoves
<1>3. stage[c] \in Stage /\ req[c] \in HttpRequest \cup {NoRequest} /\ err[c] \in Error
  BY DEF ApiTypeOK, TypeOK
<1>4. stage[c] # "idle" => StatusOf(req[c], err[c]) \in {200, 404, 409, 500}
  BY <1>1, <1>3, Statuses
<1>5. PostTransfer \subseteq HttpRequest /\ PostAccount \cup DelAccount \subseteq HttpRequest
  BY DEF HttpRequest
<1> QED
  BY <1>1, <1>2, <1>3, <1>4, <1>5, Kinds DEF Moved, Same, Stage

LEMMA ApiTypeStep == ASSUME ApiInv, [ApiNext]_apiVars PROVE ApiTypeOK'
<1> USE DEF ApiInv
<1>1. ASSUME NEW c \in Call
      PROVE  stage'[c] \in Stage /\ req'[c] \in HttpRequest \cup {NoRequest} /\ status'[c] \in Status
  <2>1. Moved(c) /\ err[c] \in Error
    BY ApiMoves DEF ApiTypeOK, TypeOK
  <2>2. stage[c] \in Stage /\ req[c] \in HttpRequest \cup {NoRequest} /\ status[c] \in Status
    BY DEF ApiTypeOK
  <2>3. stage[c] # "idle" => StatusOf(req[c], err[c]) \in {200, 404, 409, 500}
    BY <2>1, <2>2, Statuses DEF HandlerInv
  <2> QED
    BY <2>1, <2>2, <2>3 DEF Moved, Same, Stage, Status, HttpRequest
<1>2. /\ stage' = [c \in Call |-> stage'[c]]
      /\ req' = [c \in Call |-> req'[c]]
      /\ status' = [c \in Call |-> status'[c]]
  BY DEF ApiTypeOK, ApiNext, Receive, ReadFrom, ReadTo, QueryFails, Answer, StoreStep, AllReplied,
         Reply, Go, apiVars
<1>3. /\ stage' \in [Call -> Stage]
      /\ req' \in [Call -> HttpRequest \cup {NoRequest}]
      /\ status' \in [Call -> Status]
  BY <1>1, <1>2
<1> QED
  BY <1>3, StoreGoesOn DEF ApiTypeOK, StoreInv

LEMMA ReadStep == ASSUME ApiInv, [ApiNext]_apiVars PROVE ReadInv'
<1> USE DEF ApiInv
<1>1. ASSUME NEW r \in PostTransfer, FromAsRead(r) PROVE FromAsRead(r)'
  <2>1. r.from \in Nat
    BY DEF PostTransfer
  <2> QED
    BY <1>1, <2>1, Identity DEF FromAsRead
<1>2. ASSUME NEW r \in PostTransfer, ToAsRead(r) PROVE ToAsRead(r)'
  <2>1. r.to \in Nat
    BY DEF PostTransfer
  <2> QED
    BY <1>2, <2>1, Identity DEF ToAsRead
<1> SUFFICES ASSUME NEW c \in Call, req'[c].kind = "postTransfer"
             PROVE  /\ stage'[c] = "readTo" \/ pc'[c] # "idle" => FromAsRead(req[c])' 
                    /\ pc'[c] # "idle" => ToAsRead(req[c])'
  BY DEF ReadInv
<1>3. req'[c] \in PostTransfer
  BY ApiTypeStep, Kinds DEF ApiTypeOK
<1>4. Moved(c)
  BY ApiMoves
<1>5. /\ stage'[c] = "readTo" \/ pc'[c] # "idle" => req'[c] = req[c] /\ FromAsRead(req[c])
      /\ pc'[c] # "idle" => req'[c] = req[c] /\ ToAsRead(req[c])
  BY <1>3, <1>4, Kinds DEF Moved, Same, ReadInv, HandlerInv
<1> QED
  BY <1>1, <1>2, <1>3, <1>5

\* A deletion that the store has confirmed removed its account.
LEMMA DeleteDone ==
    ASSUME StoreInv, NEW c \in Call, Runs(c), arg[c] \in DeleteCall, pc'[c] = "done", err'[c] = "nil"
    PROVE  arg[c].id < nextId /\ nextId' = nextId /\ arg[c].id \notin DOMAIN accounts'
<1> USE DEF StoreInv, TypeOK
<1>1. pc[c] \notin {"createAccount"} /\ ~InTransfer(c)
  BY DEF ArgInv, CreateCall, DeleteCall, TransferCall
<1>2. ~Commit(c) /\ ~Rollback(c) /\ ~CreateAccount(c) /\ ~ConnectionLost(c)
  BY <1>1 DEF Commit, Rollback, CreateAccount, ConnectionLost, Return, InTransfer
<1>3. ~Acquire(c) /\ ~DeleteAccount(c)
  BY DEF Acquire, DeleteAccount, Return, Continue, DeleteCall
<1>4. ~CreateTransfer(c) /\ ~ShareTo(c) /\ ~CreateFromEntry(c) /\ ~CreateToEntry(c) /\ ~AddFirst(c) /\ ~AddSecond(c)
  BY <1>1 DEF CreateTransfer, ShareTo, CreateFromEntry, CreateToEntry, AddFirst, AddSecond, InTransfer
<1>5. CheckReferences(c)
  BY <1>2, <1>3, <1>4 DEF Runs, Progress
<1>6. arg[c].id \notin Referenced(transfers)
  BY <1>5 DEF CheckReferences, Return
<1>7. <<arg[c].id, "Update">> \in locks[c]
  BY <1>5 DEF CheckReferences, HeldInv
<1>8. arg[c].id \in DOMAIN accounts
  BY <1>7 DEF LockedInv
<1>9. arg[c].id < nextId
  BY <1>8 DEF CommittedInv
<1> QED
  BY <1>5, <1>6, <1>9 DEF CheckReferences

LEMMA DeletedStep == ASSUME ApiInv, [ApiNext]_apiVars PROVE DeletedInv'
<1> USE DEF ApiInv
<1> SUFFICES ASSUME NEW c \in Call, req'[c].kind = "deleteAccount", pc'[c] = "done", err'[c] = "nil"
             PROVE  req'[c].id < nextId' /\ req'[c].id \notin DOMAIN accounts'
  BY DEF DeletedInv
<1>1. Moved(c)
  BY ApiMoves
<1>2. req'[c] \in DelAccount
  BY ApiTypeStep, Kinds DEF ApiTypeOK
<1>3. CASE pc[c] = "done"
  <2>1. req'[c] = req[c] /\ err[c] = "nil"
    BY <1>1, <1>3 DEF Moved, Same, HandlerInv
  <2>2. req[c].id < nextId /\ req[c].id \notin DOMAIN accounts
    BY <1>3, <2>1 DEF DeletedInv
  <2>3. req[c].id \in Nat
    BY <1>2, <2>1 DEF DelAccount
  <2> QED
    BY <2>1, <2>2, <2>3, Identity
<1>4. CASE pc[c] # "done"
  <2>1. Runs(c) /\ req'[c] = req[c] /\ pc[c] # "idle"
    BY <1>1, <1>4 DEF Moved, Same, HandlerInv
  <2>2. arg[c] = DeleteArg(req[c]) /\ arg[c] \in DeleteCall
    BY <1>2, <2>1, Kinds DEF HandlerInv, DeleteArg, DelAccount, DeleteCall
  <2>3. arg[c].id = req[c].id
    BY <2>2 DEF DeleteArg
  <2> QED
    BY <2>1, <2>2, <2>3, DeleteDone
<1> QED
  BY <1>3, <1>4

-----------------------------------------------------------------------------
LEMMA ApiInitInv == ApiInit => ApiInv
<1> SUFFICES ASSUME ApiInit PROVE ApiInv
  OBVIOUS
<1>1. StoreInv
  BY InitInv DEF ApiInit
<1>2. ApiTypeOK
  BY <1>1 DEF ApiInit, ApiTypeOK, StoreInv, Stage, Status
<1>3. HandlerInv /\ ReadInv /\ DeletedInv
  BY DEF ApiInit, Init, HandlerInv, ReadInv, DeletedInv, NoRequest
<1> QED
  BY <1>1, <1>2, <1>3 DEF ApiInv

LEMMA ApiInvStep == ApiInv /\ [ApiNext]_apiVars => ApiInv'
BY StoreGoesOn, ApiTypeStep, HandlerStepInv, ReadStep, DeletedStep DEF ApiInv

\* The invariant of the handlers, whatever requests arrive together: each has
\* read what is still true, and is where its call of the store is.
THEOREM ApiInvariant == ApiSpec => []ApiInv
BY ApiInitInv, ApiInvStep, PTL DEF ApiSpec

\* Every variable of the handlers and of the store under them has its type.
THEOREM ApiTypeCorrect == ApiSpec => []ApiTypeOK
<1>1. ApiInv => ApiTypeOK
  BY DEF ApiInv
<1> QED
  BY <1>1, ApiInvariant, PTL

\* Under any mix of requests the tables are those of the ledger.
THEOREM ApiImplementsLedger == ApiSpec => LedgerSpec
<1>1. ApiInit => LedgerInit
  BY DEF ApiInit, Init
<1>2. ApiInv /\ [ApiNext]_apiVars => [LedgerNext]_ledgerVars
  BY StoreGoesOn
<1> QED
  BY <1>1, <1>2, ApiInvariant, PTL DEF ApiSpec, LedgerSpec

-----------------------------------------------------------------------------
\* A transfer commits between the accounts its handler read.
LEMMA NewTransfer ==
    ASSUME ApiInv, [ApiNext]_apiVars, NEW t \in transfers' \ transfers
    PROVE  LET r == req'[t.id] IN
           /\ t.id \in Call
           /\ accounts'[t.from].owner = r.user
           /\ accounts'[t.from].currency = r.currency
           /\ accounts'[t.to].currency = r.currency
           /\ <<t.from, t.to, t.amount>> = <<r.from, r.to, r.amount>>
<1> USE DEF ApiInv, StoreInv
<1>1. PICK c \in Call : Commit(c)
  <2>1. transfers' # transfers
    OBVIOUS
  <2> QED
    BY <2>1, StoreMoves, NextCases, TableSteps
    DEF LostQuery, vars, ledgerVars, CreateAccount, CheckReferences
<1>2. pc[c] = "commit" /\ arg[c] \in TransferCall /\ t = TransferRow(c, arg[c])
  BY <1>1 DEF Commit, ArgInv, InTransfer, Writing, WrittenInv
<1>3. req[c] \in PostTransfer /\ arg[c] = TransferArg(req[c])
  <2>1. req[c] \in HttpRequest /\ arg[c] = StoreArg(req[c])
    BY <1>2 DEF HandlerInv, ApiTypeOK
  <2> QED
    BY <1>2, <2>1, Kinds DEF HttpRequest, TransferCall, CreateArg, DeleteArg
<1>4. t.id = c /\ t.from = req[c].from /\ t.to = req[c].to /\ t.amount = req[c].amount
  BY <1>2, <1>3 DEF TransferRow, TransferArg
<1>5. req'[c] = req[c]
  BY <1>2, ApiMoves DEF Moved, Same, HandlerInv
<1>6. FromAsRead(req[c]) /\ ToAsRead(req[c])
  BY <1>2, <1>3, Kinds DEF ReadInv
<1>7. t.from \in DOMAIN accounts /\ t.to \in DOMAIN accounts
  <2>1. Shared(c) \subseteq locks[c]
    BY <1>2 DEF HeldInv
  <2>2. arg[c].from = t.from /\ arg[c].to = t.to
    BY <1>2 DEF TransferRow
  <2> QED
    BY <2>1, <2>2 DEF Shared, LockedInv
<1>8. DOMAIN accounts' = DOMAIN accounts
  BY <1>1 DEF Commit
<1>9. /\ accounts'[t.from].owner = accounts[t.from].owner
      /\ accounts'[t.from].currency = accounts[t.from].currency
      /\ accounts'[t.to].currency = accounts[t.to].currency
  BY <1>7, <1>8, Identity DEF CommittedInv
<1> QED
  BY <1>4, <1>5, <1>6, <1>7, <1>9 DEF FromAsRead, ToAsRead

\* What was authorised stays so: the accounts of a transfer stay, and so do
\* their owners and the request.
LEMMA AuthorizedStep ==
    ApiInv /\ DoubleEntry /\ DoubleEntry' /\ TransfersAuthorized /\ [ApiNext]_apiVars
        => TransfersAuthorized'
<1> SUFFICES ASSUME ApiInv, DoubleEntry, DoubleEntry', TransfersAuthorized, [ApiNext]_apiVars,
                    NEW t \in transfers'
             PROVE  LET r == req'[t.id] IN
                    /\ accounts'[t.from].owner = r.user
                    /\ accounts'[t.from].currency = r.currency
                    /\ accounts'[t.to].currency = r.currency
                    /\ <<t.from, t.to, t.amount>> = <<r.from, r.to, r.amount>>
  BY DEF TransfersAuthorized
<1> USE DEF ApiInv, StoreInv
<1>1. CASE t \notin transfers
  BY <1>1, NewTransfer
<1>2. CASE t \in transfers
  <2>1. t.id \in Call /\ pc[t.id] = "done"
    BY <1>2 DEF CommittedInv, TypeOK, LedgerTypeOK, Transfer
  <2>2. req'[t.id] = req[t.id]
    BY <2>1, ApiMoves DEF Moved, Same, HandlerInv
  <2>3. /\ t.from \in DOMAIN accounts /\ t.to \in DOMAIN accounts
        /\ t.from \in DOMAIN accounts' /\ t.to \in DOMAIN accounts'
    BY <1>2 DEF DoubleEntry, Referenced
  <2>4. /\ accounts'[t.from].owner = accounts[t.from].owner
        /\ accounts'[t.from].currency = accounts[t.from].currency
        /\ accounts'[t.to].currency = accounts[t.to].currency
    BY <2>3, Identity DEF CommittedInv
  <2> QED
    BY <1>2, <2>2, <2>4 DEF TransfersAuthorized
<1> QED
  BY <1>1, <1>2

\* Although a handler checks the accounts of a transfer in queries of their
\* own, money leaves only accounts of the user who asked, and both accounts
\* have the currency of the request (api/transfer.go:37-74).
THEOREM TransfersStayAuthorized == ApiSpec => []TransfersAuthorized
<1>1. ApiInit => TransfersAuthorized
  BY DEF ApiInit, Init, LedgerInit, TransfersAuthorized
<1>2. ApiSpec => []DoubleEntry
  BY ApiImplementsLedger, DoubleEntryHolds, PTL
<1> QED
  BY <1>1, <1>2, AuthorizedStep, ApiInvariant, PTL DEF ApiSpec

-----------------------------------------------------------------------------
\* The accounts of a currency.
Of(cur) == {id \in DOMAIN accounts : accounts[id].currency = cur}

\* Where transfers stay within a currency, so does the money.
LEMMA CurrencyStep ==
    LedgerTypeOK /\ Finite /\ CurrencyConserved /\ TransfersAuthorized' /\ [LedgerNext]_ledgerVars
        => CurrencyConserved'
<1> SUFFICES ASSUME LedgerTypeOK, Finite, CurrencyConserved, TransfersAuthorized', [LedgerNext]_ledgerVars,
                    NEW cur \in Currency
             PROVE  BalanceSum(accounts', Of(cur)') = BalanceSum(accounts, Of(cur))
  BY DEF CurrencyConserved, Of
<1> DEFINE S == Of(cur)
           T == Of(cur)'
           Goal == BalanceSum(accounts', T) = BalanceSum(accounts, S)
<1>1. S \in SUBSET DOMAIN accounts /\ IsFiniteSet(S)
  BY FS_Subset DEF Of, Finite
<1>2. \A id \in DOMAIN accounts : accounts[id].balance \in Int
  BY DEF LedgerTypeOK, Account, Bigint
<1>3. ASSUME NEW id \in AccountId, NEW owner \in Owner, NEW currency \in Currency,
             Open(id, owner, currency)
      PROVE  Goal
  <2>1. /\ id \notin DOMAIN accounts
        /\ DOMAIN accounts' = DOMAIN accounts \cup {id}
        /\ accounts'[id].balance = 0
        /\ \A x \in DOMAIN accounts : accounts'[x] = accounts[x]
    BY <1>3 DEF Open
  <2>2. S \in SUBSET T /\ T \ S \subseteq {id}
    BY <2>1 DEF Of
  <2>3. T \subseteq S \cup {id}
    BY <2>2
  <2>4. IsFiniteSet(T)
    BY <1>1, <2>3, FS_AddElement, FS_Subset
  <2>5. /\ \A x \in T : accounts'[x].balance \in Int
        /\ \A x \in S : accounts[x].balance = accounts'[x].balance
        /\ \A x \in T \ S : accounts'[x].balance = 0
    BY <1>1, <1>2, <2>1, <2>2
  <2> HIDE DEF S, T
  <2>6. BalanceSum(accounts, S) = BalanceSum(accounts', T)
    BY <2>2, <2>4, <2>5, BalanceSumZeros
  <2> QED
    BY <2>6
<1>4. ASSUME NEW c \in Call, NEW a \in TransferTxParams, Move(c, a) PROVE Goal
  <2>1. /\ DOMAIN accounts' = DOMAIN accounts
        /\ a.from \in DOMAIN accounts /\ a.to \in DOMAIN accounts
        /\ a.from # a.to /\ a.amount \in Int
        /\ \A id \in DOMAIN accounts : accounts'[id].currency = accounts[id].currency
        /\ accounts'[a.from].balance = accounts[a.from].balance - a.amount
        /\ accounts'[a.to].balance = accounts[a.to].balance + a.amount
        /\ \A id \in DOMAIN accounts \ {a.from, a.to} : accounts'[id].balance = accounts[id].balance
    BY <1>4, MoveRows
  <2>2. accounts'[a.from].currency = accounts'[a.to].currency
    <3> DEFINE row == TransferRow(c, a)
    <3>1. row \in transfers' /\ row.from = a.from /\ row.to = a.to
      BY <1>4 DEF Move, TransferRow
    <3> HIDE DEF row
    <3> QED
      BY <3>1 DEF TransfersAuthorized
  <2>3. T = S
    BY <2>1 DEF Of
  <2>4. a.from \in S <=> a.to \in S
    BY <2>1, <2>2 DEF Of
  <2>5. \A id \in S : accounts[id].balance \in Int
    BY <1>1, <1>2
  <2>6. \A id \in S \ {a.from, a.to} : accounts'[id].balance = accounts[id].balance
    BY <1>1, <2>1
  <2> HIDE DEF S, T
  <2>7. CASE a.from \in S
    <3>1. BalanceSum(accounts', S) = BalanceSum(accounts, S)
      BY <1>1, <2>1, <2>4, <2>5, <2>6, <2>7, BalanceSumMove
    <3> QED
      BY <2>3, <3>1
  <2>8. CASE a.from \notin S
    <3>1. \A id \in S : accounts'[id].balance = accounts[id].balance
      BY <2>4, <2>6, <2>8
    <3>2. BalanceSum(accounts', S) = BalanceSum(accounts, S)
      BY <1>1, <2>5, <3>1, BalanceSumZeros
    <3> QED
      BY <2>3, <3>2
  <2> QED
    BY <2>7, <2>8
<1>5. ASSUME NEW id \in AccountId, Close(id) PROVE Goal
  <2>1. /\ DOMAIN accounts' = DOMAIN accounts \ {id}
        /\ accounts[id].balance = 0
        /\ \A x \in DOMAIN accounts' : accounts'[x] = accounts[x]
    BY <1>5 DEF Close
  <2>2. T \in SUBSET S /\ S \ T \subseteq {id}
    BY <2>1 DEF Of
  <2>3. /\ \A x \in S : accounts[x].balance \in Int
        /\ \A x \in T : accounts'[x].balance = accounts[x].balance
        /\ \A x \in S \ T : accounts[x].balance = 0
    BY <1>1, <1>2, <2>1, <2>2 DEF Of
  <2> HIDE DEF S, T
  <2>4. BalanceSum(accounts', T) = BalanceSum(accounts, S)
    BY <1>1, <2>2, <2>3, BalanceSumZeros
  <2> QED
    BY <2>4
<1>6. CASE UNCHANGED ledgerVars
  BY <1>6 DEF ledgerVars, Of
<1> QED
  BY <1>3, <1>4, <1>5, <1>6 DEF LedgerNext

\* In each currency the balances add up to zero, however many accounts and
\* transfers there are.
THEOREM CurrenciesStayConserved == ApiSpec => []CurrencyConserved
<1>1. ApiInit => CurrencyConserved /\ Finite /\ LedgerTypeOK
  <2> SUFFICES ASSUME ApiInit PROVE CurrencyConserved /\ Finite /\ LedgerTypeOK
    OBVIOUS
  <2>1. LedgerInit
    BY DEF ApiInit, Init
  <2>2. \A id \in DOMAIN accounts : accounts[id].balance = 0
    BY <2>1 DEF LedgerInit
  <2>3. BalanceSum(accounts, {}) = 0
    BY BalanceSumIs, SumOverEmpty, FS_EmptySet
  <2>4. ASSUME NEW cur \in Currency PROVE BalanceSum(accounts, Of(cur)) = 0
    <3>1. IsFiniteSet(Of(cur)) /\ \A id \in Of(cur) : accounts[id].balance = 0
      BY <2>1, <2>2, LedgerInitSums, FS_Subset DEF Of, Finite
    <3>2. BalanceSum(accounts, {}) = BalanceSum(accounts, Of(cur))
      BY <3>1, BalanceSumZeros
    <3> QED
      BY <2>3, <3>2
  <2> QED
    BY <2>1, <2>4, LedgerInitSums DEF CurrencyConserved, Of
<1> QED
  BY <1>1, LedgerTypeStep, FiniteStep, CurrencyStep, ApiImplementsLedger, TransfersStayAuthorized, PTL
  DEF ApiSpec, LedgerSpec

-----------------------------------------------------------------------------
\* An account whose deletion was answered 200 never comes back under its id.
THEOREM DeletedStaysDeleted == ApiSpec => []DeletedStaysGone
<1>1. ApiInv /\ DoubleEntry => DeletedStaysGone
  <2> SUFFICES ASSUME ApiInv, DoubleEntry, NEW c \in Call, req[c].kind = "deleteAccount", status[c] = 200
               PROVE  req[c].id \notin DOMAIN accounts /\ req[c].id \notin Referenced(transfers)
    BY DEF DeletedStaysGone
  <2>1. pc[c] = "done" /\ StatusOf(req[c], err[c]) = 200
    BY DEF ApiInv, HandlerInv
  <2>2. err[c] = "nil"
    BY <2>1 DEF StatusOf, DeleteStatus, IsNotFoundError, IsForeignKeyViolationError
  <2> QED
    BY <2>1, <2>2 DEF ApiInv, DeletedInv, DoubleEntry
<1>2. ApiSpec => []DoubleEntry
  BY ApiImplementsLedger, DoubleEntryHolds, PTL
<1> QED
  BY <1>1, <1>2, ApiInvariant, PTL

\* A query that fails says nothing of what the store has acknowledged.
LEMMA ApiAckedStep == ApiInv /\ AckedIsRecorded /\ [ApiNext]_apiVars => AckedIsRecorded'
<1>1. ASSUME LostQuery, AckedIsRecorded PROVE AckedIsRecorded'
  BY <1>1 DEF LostQuery, AckedIsRecorded, ledgerVars
<1>2. ApiInv => StoreInv
  BY DEF ApiInv
<1> QED
  BY <1>1, <1>2, StoreMoves, AckedStep

\* The answer to a transfer tells what became of it, for ever: 200 and its
\* row and both entries are there, 4xx and nothing of it is.
THEOREM AnswersTellTransfers == ApiSpec => []AnswerTellsTransfer
<1>1. ApiInv /\ AckedIsRecorded => AnswerTellsTransfer
  <2> SUFFICES ASSUME ApiInv, AckedIsRecorded, NEW c \in Call,
                      req[c].kind = "postTransfer", status[c] \notin {0, 500}
               PROVE  LET r == req[c]
                          recorded == TransferRow(c, r) \in transfers
                          written == {FromEntry(c, r), ToEntry(c, r)} \cap entries
                      IN IF status[c] = 200
                         THEN recorded /\ written = {FromEntry(c, r), ToEntry(c, r)}
                         ELSE ~recorded /\ written = {}
    BY DEF AnswerTellsTransfer
  <2> USE DEF ApiInv, StoreInv
  <2> DEFINE r == req[c]
  <2>1. r \in PostTransfer /\ stage[c] = "replied"
    BY Kinds DEF ApiTypeOK, HandlerInv
  <2>2. CASE status[c] = 200
    <3>1. pc[c] = "done" /\ err[c] = "nil" /\ arg[c] = TransferArg(r)
      BY <2>1, <2>2, Kinds DEF HandlerInv, StatusOf, TransferStatus
    <3>2. /\ TransferRow(c, arg[c]) = TransferRow(c, r)
          /\ FromEntry(c, arg[c]) = FromEntry(c, r)
          /\ ToEntry(c, arg[c]) = ToEntry(c, r)
      BY <3>1 DEF TransferArg, TransferRow, FromEntry, ToEntry
    <3>3. arg[c].op = "createTransfer"
      BY <3>1 DEF TransferArg
    <3> QED
      BY <2>2, <3>1, <3>2, <3>3 DEF AckedIsRecorded
  <2>3. CASE status[c] # 200
    <3>1. pc[c] = "idle"
      BY <2>1, <2>3 DEF HandlerInv, StatusOf, TransferStatus
    <3>2. \A t \in transfers : t.id # c
      BY <3>1 DEF CommittedInv
    <3>3. \A e \in entries : e.id[1] # c
      BY <3>2 DEF CommittedInv, FromEntry, ToEntry
    <3>4. TransferRow(c, r).id = c /\ FromEntry(c, r).id[1] = c /\ ToEntry(c, r).id[1] = c
      BY DEF TransferRow, FromEntry, ToEntry
    <3> QED
      BY <2>3, <3>2, <3>3, <3>4
  <2> QED
    BY <2>2, <2>3
<1>2. ApiInit => AckedIsRecorded
  BY DEF ApiInit, Init, AckedIsRecorded
<1> QED
  BY <1>1, <1>2, ApiAckedStep, ApiInvariant, PTL DEF ApiSpec

=============================================================================
