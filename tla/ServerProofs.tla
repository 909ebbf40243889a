---------------------------- MODULE ServerProofs ----------------------------
(***************************************************************************)
(* Proofs about Server, for any users, requests, kinds of request, tokens  *)
(* and number of exits of the process.                                     *)
(*                                                                         *)
(*   1. What a step is to the handlers: one of UserNext, or one of three   *)
(*      of the process around them, which leave the tables alone.          *)
(*   2. What a step is to one request, and to the tables.                  *)
(*   3. ServerInv is inductive.                                            *)
(*   4. Every step is one of Once or none, and sessions outlive the        *)
(*      process.                                                           *)
(***************************************************************************)
EXTENDS Server, UserApiProofs

USE ServerAssumption

\* What clients send stays possible when more has been given to them.
LEMMA SentGrows == ASSUME \A t \in Given : t \in Given', NEW r \in Sent PROVE r \in Sent'
<1> DEFINE Shows == Given \cup {Garbage}
           Logins == {x \in CreateUser \cup LoginUser : x.front \in Front}
           Bare(S) == {[kind |-> k, token |-> t] : k \in {"refresh", "logout"}, t \in S}
           Gets(S) == {[kind |-> "getUser", token |-> t, username |-> u] : t \in S, u \in User}
           Updating(S) == {[kind |-> "updateUser", token |-> t, email |-> e] : t \in S, e \in Email}
           Changes(S) == {[kind |-> "changePassword", token |-> t, old |-> p, new |-> q] :
                            t \in S, p \in Password, q \in Password}
           All(S) == Logins \cup Bare(S) \cup Gets(S) \cup Updating(S) \cup Changes(S)
<1>1. Sent = All(Shows) /\ Sent' = All(Shows')
  BY DEF Sent
<1>2. Shows \subseteq Shows'
  OBVIOUS
<1> HIDE DEF Shows
<1>3. ASSUME NEW S, NEW T, S \subseteq T
      PROVE  /\ Bare(S) \subseteq Bare(T) /\ Gets(S) \subseteq Gets(T)
             /\ Updating(S) \subseteq Updating(T) /\ Changes(S) \subseteq Changes(T)
  BY <1>3
<1> HIDE DEF Logins, Bare, Gets, Updating, Changes
<1> QED
  BY <1>1, <1>2, <1>3

LEMMA PossibleAreSent == \A r \in Possible : r \in Sent /\ r.kind \in Kind
BY DEF Possible

-----------------------------------------------------------------------------
\* What the process around the handlers does to the part of a request they
\* know: nothing, end its handler, or have it wait for a connection.
Unmoved(c) == stage'[c] = stage[c] /\ status'[c] = status[c] /\ req'[c] = req[c]
Stopped(c) ==
    /\ stage[c] # "idle" /\ stage'[c] = "replied" /\ req'[c] = req[c]
    /\ status'[c] = status[c] \/ (status[c] = 0 /\ status'[c] = 500)
Queued(c) ==
    /\ stage[c] = "idle" /\ stage'[c] = "idle" /\ status'[c] = status[c]
    /\ req[c] = NoRequest /\ req'[c] \in Possible

Around ==
    /\ UNCHANGED <<users, sessions, now, locals, faults, since, seen>>
    /\ stage' = [c \in Call |-> stage'[c]]
    /\ status' = [c \in Call |-> status'[c]]
    /\ req' = [c \in Call |-> req'[c]]
    /\ \A c \in Call : Unmoved(c) \/ Stopped(c) \/ Queued(c)

LEMMA AroundGiven == ASSUME UserTypeOK, Around, NEW t \in Given PROVE t \in Given'
<1>1. access' = access /\ refresh' = refresh
  BY DEF Around, locals
<1>2. \A c \in Call : status[c] = 200 => status'[c] = 200
  BY DEF Around, Unmoved, Stopped, Queued
<1>3. CASE \E c \in Call : status[c] = 200 /\ access[c] # None /\ t = access[c].token
  BY <1>1, <1>2, <1>3 DEF Given
<1>4. CASE \E c \in Call : status[c] = 200 /\ refresh[c] # None /\ t = refresh[c].token
  BY <1>1, <1>2, <1>4 DEF Given
<1> QED
  BY <1>3, <1>4 DEF Given

LEMMA AroundTypes == ASSUME HandlerInv, Around PROVE UserTypeOK'
<1> USE DEF HandlerInv
<1>1. \A c \in Call : stage'[c] \in UserStage /\ status'[c] \in UserStatus
  BY DEF Around, Unmoved, Stopped, Queued, UserTypeOK, UserStage, UserStatus
<1>2. \A c \in Call : req'[c] \in UserRequest \cup {NoRequest}
  BY PossibleAreSent, SentIs DEF Around, Unmoved, Stopped, Queued, UserTypeOK
<1>3. /\ stage' \in [Call -> UserStage] /\ status' \in [Call -> UserStatus]
      /\ req' \in [Call -> UserRequest \cup {NoRequest}]
  BY <1>1, <1>2 DEF Around
<1> QED
  BY <1>3 DEF Around, UserTypeOK, locals

LEMMA AroundStages == ASSUME HandlerInv, Around PROVE StageInv'
<1> USE DEF HandlerInv
<1> DEFINE Staged(c) ==
        LET r == req[c] IN
        /\ r = NoRequest => stage[c] = "idle"
        /\ status[c] # 0 => stage[c] = "replied"
        /\ stage[c] = "insertUser" => r \in CreateUser /\ r.password \notin TooLong
        /\ stage[c] = "readUser" => r \in LoginUser \cup GetUser \cup ChangePassword
        /\ stage[c] = "updatePassword" =>
              r \in ChangePassword /\ r.new \notin TooLong /\ Subject(r) \in DOMAIN users
        /\ stage[c] = "updateUser" => r \in UpdateUser
        /\ stage[c] = "makeAccess" => r \in LoginUser \cup RefreshToken
        /\ stage[c] \in {"makeRefresh", "storeSession"} => r \in LoginUser
        /\ stage[c] \in {"readClock", "readSession"} => r \in RefreshToken
<1> SUFFICES ASSUME NEW c \in Call PROVE Staged(c)'
  BY DEF StageInv
<1>1. Staged(c) /\ users' = users
  BY DEF StageInv, Around
<1>2. CASE Unmoved(c)
  BY <1>1, <1>2 DEF Unmoved
<1>3. CASE Stopped(c)
  BY <1>1, <1>3 DEF Stopped
<1>4. CASE Queued(c)
  BY <1>1, <1>4 DEF Queued
<1> QED
  BY <1>2, <1>3, <1>4 DEF Around

LEMMA AroundGates == ASSUME HandlerInv, Around PROVE GateInv'
<1> USE DEF HandlerInv
<1> DEFINE Gate(c) ==
        LET r == req[c]
            accepted == VerifyToken(r.token, since[c])
        IN
        /\ since[c] <= now
        /\ stage[c] # "idle" /\ Public(r) => (status[c] = 400 <=> ~Binds(r))
        /\ stage[c] # "idle" /\ ~Public(r) =>
              /\ r.token # Garbage => r.token \in Given
              /\ status[c] # 401 => accepted
              /\ r.kind \in {"getUser", "updateUser", "logout"} /\ status[c] = 401 => ~accepted
<1> SUFFICES ASSUME NEW c \in Call PROVE Gate(c)'
  BY DEF GateInv
<1>1. Gate(c) /\ since' = since /\ now' = now
  BY DEF GateInv, Around
<1>2. \A t \in Given : t \in Given'
  BY AroundGiven
<1>3. CASE Unmoved(c)
  BY <1>1, <1>2, <1>3 DEF Unmoved
<1>4. CASE Stopped(c)
  BY <1>1, <1>2, <1>4 DEF Stopped
<1>5. CASE Queued(c)
  BY <1>1, <1>5 DEF Queued
<1> QED
  BY <1>3, <1>4, <1>5 DEF Around

LEMMA AroundTokens == ASSUME HandlerInv, Around PROVE TokenInv'
<1> USE DEF HandlerInv
<1> SUFFICES ASSUME NEW c \in Call
             PROVE  /\ access'[c] # None =>
                          /\ stage'[c] \in {"makeRefresh", "storeSession", "replied"}
                          /\ req'[c] \in LoginUser \cup RefreshToken
                          /\ access'[c].token = [id |-> [by |-> c, use |-> "access"], username |-> Subject(req'[c]),
                                                 exp |-> NumericDate(access'[c].expiredAt)]
                    /\ refresh'[c] # None =>
                          /\ stage'[c] \in {"storeSession", "replied"}
                          /\ req'[c] \in LoginUser
                          /\ refresh'[c].token = [id |-> [by |-> c, use |-> "refresh"], username |-> Subject(req'[c]),
                                                  exp |-> NumericDate(refresh'[c].expiredAt)]
                    /\ stage'[c] = "storeSession" => refresh'[c] # None
  BY DEF TokenInv, IsIssued, MadeBy
<1>1. access' = access /\ refresh' = refresh
  BY DEF Around, locals
<1>2. access[c] # None \/ refresh[c] # None => stage[c] # "idle"
  BY DEF TokenInv
<1>3. stage[c] # "idle" => req'[c] = req[c] /\ stage'[c] \in {stage[c], "replied"}
  BY DEF Around, Unmoved, Stopped, Queued
<1>4. stage[c] = "idle" => stage'[c] = "idle"
  BY DEF Around, Unmoved, Stopped, Queued
<1> QED
  BY <1>1, <1>2, <1>3, <1>4, IssuedAre DEF TokenInv

LEMMA AroundSessions == ASSUME HandlerInv, Around PROVE SessionInv'
<1> USE DEF HandlerInv
<1>1. refresh' = refresh /\ sessions' = sessions /\ since' = since /\ clock' = clock /\ now' = now
  BY DEF Around, locals
<1>2. ASSUME NEW id \in DOMAIN sessions
      PROVE  /\ id.use = "refresh" /\ stage'[id.by] = "replied" /\ refresh[id.by] # None
             /\ sessions[id] = [username |-> Subject(req'[id.by]), token |-> refresh[id.by].token,
                                expires |-> refresh[id.by].expiredAt]
  <2>1. id.by \in Call
    BY <1>2 DEF UserTypeOK, TokenId
  <2>2. /\ id.use = "refresh" /\ stage[id.by] = "replied" /\ refresh[id.by] # None
        /\ sessions[id] = NewSession(id.by)
    BY <1>2 DEF SessionInv
  <2>3. stage'[id.by] = "replied" /\ req'[id.by] = req[id.by]
    BY <2>1, <2>2 DEF Around, Unmoved, Stopped, Queued
  <2> QED
    BY <2>2, <2>3 DEF NewSession
<1>3. ASSUME NEW c \in Call
      PROVE  /\ refresh[c] # None /\ status'[c] = 200 => IdOf(c) \in DOMAIN sessions
             /\ stage'[c] = "readSession" => since[c] <= clock[c] /\ clock[c] <= now
             /\ req'[c].kind = "refresh" /\ (stage'[c] = "makeAccess" \/ status'[c] = 200) =>
                   /\ req'[c].token.id \in DOMAIN sessions
                   /\ since[c] < sessions[req'[c].token.id].expires
  <2>1. /\ status'[c] = 200 => status[c] = 200
        /\ stage'[c] # "replied" => stage'[c] = stage[c]
        /\ stage[c] # "idle" => req'[c] = req[c]
    BY DEF Around, Unmoved, Stopped, Queued
  <2>2. status'[c] = 200 \/ stage'[c] = "makeAccess" => stage[c] # "idle"
    BY <2>1 DEF StageInv
  <2> QED
    BY <2>1, <2>2, Sessions
<1> QED
  BY <1>1, <1>2, <1>3 DEF SessionInv, NewSession, IdOf

LEMMA AroundSeen == ASSUME HandlerInv, Around PROVE SeenInv'
<1> USE DEF HandlerInv
<1> SUFFICES ASSUME NEW c \in Call
             PROVE  /\ stage'[c] \notin {"idle", "replied"} => PasswordOf(Subject(req[c]))' \in seen'[c]
                    /\ req'[c].kind = "login" /\ stage'[c] \in {"makeAccess", "makeRefresh", "storeSession"} =>
                          req'[c].password \in seen'[c]
                    /\ stage'[c] = "updatePassword" => req'[c].old \in seen'[c]
  BY DEF SeenInv
<1>1. users' = users /\ seen' = seen
  BY DEF Around
<1>2. stage'[c] \notin {"idle", "replied"} => stage'[c] = stage[c] /\ req'[c] = req[c]
  BY DEF Around, Unmoved, Stopped, Queued
<1> QED
  BY <1>1, <1>2 DEF SeenInv, PasswordOf

LEMMA AroundHandlers == ASSUME HandlerInv, Around PROVE HandlerInv'
BY AroundTypes, AroundStages, AroundGates, AroundTokens, AroundSessions, AroundSeen DEF HandlerInv

\* The three steps that are not the handlers' are such.
LEMMA ExitIsAround == ASSUME ServerInv, Exit PROVE Around
<1> USE DEF ServerInv, HandlerInv, UserTypeOK
<1>1. PICK sent \in SUBSET {c \in Call : stage[c] \in WriteStage} :
         stage' = [c \in Call |-> IF stage[c] = "idle" \/ c \in sent THEN stage[c] ELSE "replied"]
  BY DEF Exit
<1> QED
  BY <1>1 DEF Exit, Around, Unmoved, Stopped, locals

LEMMA CancelledIsAround == ASSUME ServerInv, NEW c \in Call, Cancelled(c) PROVE Around
<1> USE DEF ServerInv, HandlerInv, UserTypeOK
<1>1. stage[c] \notin {"idle", "replied"} /\ status[c] = 0
  BY DEF Cancelled, WriteStage, StageInv
<1>2. /\ stage' = [stage EXCEPT ![c] = "replied"] /\ status' = [status EXCEPT ![c] = 500]
      /\ UNCHANGED <<users, sessions, now, req, locals, faults, since, seen>>
  BY DEF Cancelled, Reply
<1>3. \A d \in Call : Unmoved(d) \/ Stopped(d)
  BY <1>1, <1>2 DEF Unmoved, Stopped
<1> QED
  BY <1>2, <1>3 DEF Around

LEMMA GatewayIsAround ==
    ASSUME ServerInv, NEW c \in Call, NEW r \in Possible, EnterGateway(c, r) PROVE Around
<1> USE DEF ServerInv, HandlerInv, UserTypeOK
<1>1. req[c] = NoRequest /\ stage[c] = "idle"
  BY DEF EnterGateway, Enter, DoorInv, StageInv
<1> QED
  BY <1>1 DEF EnterGateway, Around, Unmoved, Queued, locals

\* All others are steps of the handlers, or none.
LEMMA Handled ==
    ASSUME ServerInv, [ServerNext]_serverVars
    PROVE  [UserNext]_userVars \/ Around
<1>1. CASE UNCHANGED serverVars \/ Start \/ ServeHttp \/ ServeRpc \/ Dial \/ Redial \/ GoIdle \/ Quiet
  BY <1>1 DEF serverVars, Start, ServeHttp, ServeRpc, Dial, Redial, GoIdle, Quiet
<1>2. CASE RpcFails \/ HttpFails
  BY <1>2, ExitIsAround DEF RpcFails, HttpFails
<1>3. ASSUME NEW c \in Call, NEW r \in Possible, EnterGin(c, r) \/ EnterRpc(c, r) PROVE UserNext
  <2>1. Receive(c, r) /\ r \in {x \in Sent : x.kind \in Kind}
    BY <1>3, PossibleAreSent DEF EnterGin, EnterRpc
  <2> QED
    BY <2>1 DEF UserNext
<1>4. ASSUME NEW c \in Call, Invoke(c) PROVE UserNext
  <2>1. Receive(c, req[c]) /\ req[c] \in {x \in Sent : x.kind \in Kind}
    BY <1>4 DEF Invoke, Picking, ServerInv, DoorInv
  <2> QED
    BY <2>1 DEF UserNext
<1>5. ASSUME NEW c \in Call, Unavailable(c) \/ Deliver(c) \/ Leave(c) PROVE UNCHANGED userVars
  BY <1>5 DEF Unavailable, Deliver, Leave
<1>6. ASSUME NEW c \in Call, Work(c) PROVE UserNext
  BY <1>6 DEF Work, UserNext
<1>7. CASE Others
  BY <1>7 DEF Others, UserNext
<1>8. ASSUME NEW c \in Call, NEW r \in Possible, EnterGateway(c, r) PROVE Around
  BY <1>8, GatewayIsAround
<1>9. ASSUME NEW c \in Call, Cancelled(c) PROVE Around
  BY <1>9, CancelledIsAround
<1> QED
  BY <1>1, <1>2, <1>3, <1>4, <1>5, <1>6, <1>7, <1>8, <1>9 DEF ServerNext

LEMMA HandlersStep == ASSUME ServerInv, [ServerNext]_serverVars PROVE HandlerInv'
BY Handled, HandlerInvStep, AroundHandlers DEF ServerInv

LEMMA GivenGrows == ASSUME ServerInv, [ServerNext]_serverVars, NEW t \in Given PROVE t \in Given'
BY Handled, GivenStays, AroundGiven DEF ServerInv, HandlerInv

-----------------------------------------------------------------------------
\* What a handler does to the tables: the request that changes one is answered
\* by the same step, 200 or, when the answer of PostgreSQL is lost, 500.
Changed == ~UNCHANGED <<users, sessions>>

LEMMA InsertsRow ==
    ASSUME HandlerInv, NEW c \in Call, InsertUser(c), status'[c] = 200
    PROVE  Changed
<1> USE DEF HandlerInv
<1>1. req[c].username \notin DOMAIN users /\ AddUser(req[c])
  BY DEF InsertUser, Reply, UserTypeOK
<1>2. req[c].username \in DOMAIN users'
  BY <1>1 DEF AddUser
<1> QED
  BY <1>1, <1>2 DEF Changed

LEMMA StoresRow ==
    ASSUME HandlerInv, NEW c \in Call, StoreSession(c)
    PROVE  Changed
<1> USE DEF HandlerInv
<1>1. stage[c] = "storeSession"
  BY DEF StoreSession
<1>2. NewSession(c).token.id = IdOf(c)
  BY <1>1, NewSessionIs
<1>3. IdOf(c) \in DOMAIN sessions'
  BY <1>2 DEF StoreSession, AddSession
<1>4. IdOf(c) \notin DOMAIN sessions
  BY <1>1 DEF SessionInv, IdOf
<1> QED
  BY <1>3, <1>4 DEF Changed

LEMMA Effects ==
    ASSUME HandlerInv, NEW c \in Call, HandlerStep(c)
    PROVE  /\ Active(c) /\ status[c] = 0 /\ Keeps(c)
           /\ stage'[c] # "idle"
           /\ Changed => /\ stage'[c] = "replied" /\ status'[c] \in {200, 500}
                         /\ req[c].kind \in Inserts \cup Updates
           /\ status'[c] = 200 /\ req[c].kind \in Inserts => Changed
<1> USE DEF HandlerInv
<1>1. [UserNext]_userVars
  BY DEF UserNext
<1>2. Active(c) /\ ~Arrives(c)
  BY DEF Active, Arrives, HandlerStep, InsertUser, ReadProfile, ReadUser, ReadOldPassword, UpdatePassword,
         UpdateProfile, MakeAccess, MakeRefresh, StoreSession, ReadClock, ReadSession
<1>3. status[c] = 0 /\ Keeps(c)
  BY <1>1, <1>2, Onwards DEF StageInv, Active, Same
<1>4. stage'[c] # "idle"
  BY <1>1, <1>2, Onwards DEF Onward, Same, Goes, Active
<1>5. ASSUME Changed
      PROVE  stage'[c] = "replied" /\ status'[c] \in {200, 500} /\ req[c].kind \in Inserts \cup Updates
  <2>1. CASE InsertUser(c)
    BY <1>5, <2>1 DEF Changed, InsertUser, ReplyCommitted, Reply, UserTypeOK, StageInv, CreateUser, Inserts
  <2>2. CASE UpdatePassword(c)
    BY <2>2 DEF UpdatePassword, ReplyCommitted, Reply, UserTypeOK, StageInv, ChangePassword, Updates
  <2>3. CASE UpdateProfile(c)
    BY <1>5, <2>3 DEF Changed, UpdateProfile, ReplyCommitted, Reply, UserTypeOK, StageInv, UpdateUser, Updates
  <2>4. CASE StoreSession(c)
    BY <2>4 DEF StoreSession, ReplyCommitted, Reply, UserTypeOK, StageInv, LoginUser, Inserts
  <2> QED
    BY <1>5, <2>1, <2>2, <2>3, <2>4 DEF Changed, HandlerStep, ReadProfile, ReadUser, ReadOldPassword,
       MakeAccess, MakeRefresh, ReadClock, ReadSession
<1>6. ASSUME status'[c] = 200, req[c].kind \in Inserts PROVE Changed
  <2>1. req[c] \notin GetUser \cup RefreshToken \cup UpdateUser \cup ChangePassword
    BY <1>6 DEF Inserts, GetUser, RefreshToken, UpdateUser, ChangePassword
  <2>2. Onward(c)
    BY <1>1, <1>2, <1>3, <1>6, Onwards DEF Same, Goes
  <2>3. stage[c] \in {"insertUser", "storeSession"}
    BY <1>3, <1>6, <2>1, <2>2 DEF Onward, StageInv, WriteStage, Inserts
  <2>4. InsertUser(c) \/ StoreSession(c)
    BY <2>3 DEF HandlerStep, ReadProfile, ReadUser, ReadOldPassword, UpdatePassword,
                UpdateProfile, MakeAccess, MakeRefresh, ReadClock, ReadSession
  <2> QED
    BY <1>6, <2>4, InsertsRow, StoresRow
<1> QED
  BY <1>2, <1>3, <1>4, <1>5, <1>6

-----------------------------------------------------------------------------
\* The ways in which a request goes on between its door and its answer.
Apart(c) == door'[c] = door[c] /\ told'[c] = told[c]
Writeless(c) == wrote'[c] = wrote[c]

Rests(c) == Same(c) /\ Apart(c) /\ Writeless(c)

Enters(c) ==
    /\ main' # "down"
    /\ door[c] = "none" /\ door'[c] \in {"gin", "rpc"} /\ told'[c] = told[c] /\ Writeless(c)
    /\ Arrives(c)

Waits(c) ==
    /\ main' # "down"
    /\ door[c] = "none" /\ door'[c] = "gateway" /\ told'[c] \in {told[c], 400} /\ Writeless(c)
    /\ Queued(c)

Called(c) == Picking(c) /\ Arrives(c) /\ req'[c] = req[c] /\ Apart(c) /\ Writeless(c)

Works(c) ==
    /\ HandlerStep(c) /\ Apart(c)
    /\ wrote'[c] = IF Changed THEN wrote[c] + 1 ELSE wrote[c]

GivesUp(c) == Active(c) /\ Keeps(c) /\ Ends(c, 500) /\ Apart(c) /\ Writeless(c)

Informed(c) ==
    /\ Same(c) /\ Writeless(c)
    /\ door[c] # "none" /\ door'[c] = door[c] /\ told[c] = 0
    /\ \/ told'[c] = Lost
       \/ stage[c] = "idle" /\ told'[c] = 503
       \/ stage[c] = "replied" /\ told'[c] = Shown(c)

Dies(c) ==
    /\ Keeps(c) /\ KeepsLocals(c) /\ Writeless(c) /\ status'[c] = status[c]
    /\ stage'[c] \in {stage[c], "replied"} /\ (stage[c] = "idle" => stage'[c] = "idle")
    /\ door'[c] = door[c]
    /\ told'[c] = IF door[c] # "none" /\ told[c] = 0 THEN Lost ELSE told[c]

\* The process ends in the same step, or it does not end.
Fares(c) ==
    \/ Dies(c)
    \/ /\ main' = "down" => main = "down"
       /\ Rests(c) \/ Enters(c) \/ Waits(c) \/ Called(c) \/ Works(c) \/ GivesUp(c) \/ Informed(c)

\* Of the steps of a request, only those that follow concern others.
LEMMA Receiving ==
    ASSUME UserTypeOK, NEW c \in Call, NEW r \in Sent, Receive(c, r)
    PROVE  Arrives(c) /\ req'[c] = r /\ \A d \in Call : d # c => Same(d)
<1>1. Arrives(c)
  BY Acts
<1>2. req'[c] = r
  BY DEF Receive, UserTypeOK
<1>3. \A d \in Call : d # c => Same(d)
  BY OthersSame
<1> QED
  BY <1>1, <1>2, <1>3

LEMMA EnteringFares ==
    ASSUME ServerInv, NEW c \in Call, NEW r \in Possible, EnterGin(c, r) \/ EnterRpc(c, r) \/ EnterGateway(c, r),
           NEW d \in Call
    PROVE  Fares(d)
<1> USE DEF ServerInv, HandlerInv
<1>1. /\ door \in [Call -> Door \cup {"none"}] /\ told \in [Call -> UserStatus \cup {Lost, 503}]
      /\ main = "down" => rpc = "none"
      /\ door[c] = "none" /\ door' = [door EXCEPT ![c] = door'[c]] /\ wrote' = wrote /\ main' = main
  BY DEF ServerTypeOK, EnterGin, EnterRpc, EnterGateway, Enter
<1>2. main # "down"
  BY <1>1 DEF EnterGin, EnterRpc, EnterGateway
<1>3. CASE EnterGin(c, r) \/ EnterRpc(c, r)
  <2>1. Arrives(c) /\ \A e \in Call : e # c => Same(e)
    BY <1>3, Receiving, PossibleAreSent DEF EnterGin, EnterRpc
  <2>2. told' = told /\ door'[c] \in {"gin", "rpc"}
    BY <1>1, <1>3 DEF EnterGin, EnterRpc, Enter
  <2> QED
    BY <1>1, <1>2, <2>1, <2>2 DEF Fares, Rests, Enters, Apart, Writeless
<1>4. CASE EnterGateway(c, r)
  <2>1. Around /\ req[c] = NoRequest /\ stage[c] = "idle"
    BY <1>1, <1>4, GatewayIsAround DEF DoorInv, StageInv
  <2>2. door'[c] = "gateway" /\ told'[c] \in {told[c], 400} /\ \A e \in Call : e # c => told'[e] = told[e]
    BY <1>1, <1>4 DEF EnterGateway, Enter
  <2>3. Queued(c)
    BY <1>4, <2>1 DEF EnterGateway, Queued, UserTypeOK
  <2>4. \A e \in Call : e # c => Same(e)
    BY <1>4 DEF EnterGateway, Same, Keeps, KeepsLocals, Goes, locals, UserTypeOK
  <2> QED
    BY <1>1, <1>2, <2>2, <2>3, <2>4 DEF Fares, Rests, Waits, Apart, Writeless
<1> QED
  BY <1>3, <1>4

LEMMA ExitFares == ASSUME ServerInv, Exit, NEW d \in Call PROVE Dies(d)
<1> USE DEF ServerInv, HandlerInv, UserTypeOK
<1>1. PICK sent \in SUBSET {c \in Call : stage[c] \in WriteStage} :
         stage' = [c \in Call |-> IF stage[c] = "idle" \/ c \in sent THEN stage[c] ELSE "replied"]
  BY DEF Exit
<1> QED
  BY <1>1 DEF Exit, Dies, Keeps, KeepsLocals, Writeless, locals

LEMMA HandlingFares ==
    ASSUME ServerInv, NEW c \in Call, Invoke(c) \/ Work(c) \/ Cancelled(c), NEW d \in Call
    PROVE  Fares(d)
<1> USE DEF ServerInv, HandlerInv
<1>1. main' = main /\ door' = door /\ told' = told
  BY DEF Invoke, Work, Cancelled, process, clients
<1>2. CASE Invoke(c)
  <2>1. Receive(c, req[c]) /\ req[c] \in Sent /\ Picking(c) /\ wrote' = wrote
    BY <1>2 DEF Invoke, Picking, DoorInv
  <2>2. Arrives(c) /\ req'[c] = req[c] /\ \A e \in Call : e # c => Same(e)
    BY <2>1, Receiving
  <2> QED
    BY <1>1, <2>1, <2>2 DEF Fares, Rests, Called, Apart, Writeless
<1>3. CASE Work(c)
  <2>1. HandlerStep(c) /\ \A e \in Call : e # c => Same(e)
    BY <1>3, OthersSame DEF Work
  <2>2. \A e \in Call : wrote'[e] = IF e = c /\ Changed THEN wrote[e] + 1 ELSE wrote[e]
    BY <1>3 DEF Work, Changed, ServerTypeOK
  <2> QED
    BY <1>1, <2>1, <2>2 DEF Fares, Rests, Works, Apart, Writeless
<1>4. CASE Cancelled(c)
  <2>1. Active(c) /\ Keeps(c) /\ Ends(c, 500) /\ wrote' = wrote
    BY <1>4 DEF Cancelled, Reply, Active, WriteStage, Keeps, Ends, UserTypeOK
  <2>2. \A e \in Call : e # c => Same(e)
    BY <1>4 DEF Cancelled, Reply, Same, Keeps, KeepsLocals, Goes, locals, UserTypeOK
  <2> QED
    BY <1>1, <2>1, <2>2 DEF Fares, Rests, GivesUp, Apart, Writeless
<1> QED
  BY <1>2, <1>3, <1>4

LEMMA TellingFares ==
    ASSUME ServerInv, NEW c \in Call, Unavailable(c) \/ Deliver(c) \/ Leave(c), NEW d \in Call
    PROVE  Fares(d)
<1> USE DEF ServerInv, HandlerInv
<1>1. main' = main /\ door' = door /\ wrote' = wrote /\ Same(d)
  BY DEF Unavailable, Deliver, Leave, process, userVars, locals, Same, Keeps, KeepsLocals, Goes
<1>2. told' = [told EXCEPT ![c] = told'[c]] /\ told[c] = 0
  BY DEF Unavailable, Deliver, Leave, ServerTypeOK, Picking
<1>3. \/ told'[c] = Lost
      \/ stage[c] = "idle" /\ told'[c] = 503
      \/ stage[c] = "replied" /\ told'[c] = Shown(c)
  BY DEF Unavailable, Deliver, Leave, ServerTypeOK, Picking, HTTPStatusFromCode
<1>4. door[c] # "none"
  BY DEF Unavailable, Deliver, Leave, Picking, DoorInv, StageInv
<1> QED
  BY <1>1, <1>2, <1>3, <1>4 DEF Fares, Rests, Informed, Apart, Writeless, ServerTypeOK

LEMMA Faring == ASSUME ServerInv, [ServerNext]_serverVars, NEW d \in Call PROVE Fares(d)
<1> USE DEF ServerInv, HandlerInv
<1>1. CASE UNCHANGED serverVars \/ Start \/ ServeHttp \/ ServeRpc \/ Dial \/ Redial \/ GoIdle \/ Quiet
  <2>1. UNCHANGED <<userVars, clients, wrote>> /\ (main' = "down" => main = "down")
    BY <1>1 DEF serverVars, process, Start, ServeHttp, ServeRpc, Dial, Redial, GoIdle, Quiet
  <2> QED
    BY <2>1 DEF clients, userVars, locals, Fares, Rests, Apart, Writeless, Same, Keeps, KeepsLocals, Goes
<1>2. CASE RpcFails \/ HttpFails
  BY <1>2, ExitFares DEF RpcFails, HttpFails, Fares
<1>3. CASE Others
  <2>1. main' = main /\ door' = door /\ told' = told /\ wrote' = wrote
    BY <1>3 DEF Others, process, clients
  <2>2. CASE Tick
    BY <2>1, <2>2 DEF Tick, locals, Fares, Rests, Apart, Writeless, Same, Keeps, KeepsLocals, Goes
  <2>3. ASSUME NEW c \in Call, QueryFails(c) PROVE Fares(d)
    <3>1. c # d => Same(d)
      BY <2>3, OthersSame
    <3>2. c = d => Active(d) /\ Keeps(d) /\ Ends(d, 500)
      BY <2>3, Acts DEF Fails, Active, WriteStage
    <3> QED
      BY <2>1, <3>1, <3>2 DEF Fares, Rests, GivesUp, Apart, Writeless
  <2> QED
    BY <1>3, <2>2, <2>3 DEF Others
<1> QED
  BY <1>1, <1>2, <1>3, EnteringFares, HandlingFares, TellingFares DEF ServerNext

-----------------------------------------------------------------------------
LEMMA ShownTypes ==
    ASSUME UserTypeOK, NEW c \in Call
    PROVE  /\ Shown(c) \in UserStatus \cup {503}
           /\ status[c] # 0 => Shown(c) # 0
           /\ Shown(c) = 200 <=> status[c] = 200
           /\ Shown(c) \notin {0, 200, 500} => status[c] \notin {0, 200, 500}
BY DEF Shown, HTTPStatusFromCode, RpcCode, UserTypeOK, UserStatus

\* What is known of a request that arrives.
LEMMA Entered ==
    ASSUME ServerInv, NEW c \in Call, Arrives(c)
    PROVE  /\ req'[c] \in Sent /\ req'[c] # NoRequest /\ status[c] = 0 /\ stage[c] = "idle"
           /\ stage'[c] # "idle" /\ status'[c] # 200
           /\ stage'[c] = "replied" => status'[c] # 0
<1> USE DEF ServerInv, HandlerInv
<1>1. /\ req'[c] \in Sent /\ req'[c] \in UserRequest /\ stage[c] = "idle" /\ status[c] = 0
  BY Arrival DEF Arrives, StageInv
<1>2. stage'[c] # "idle" /\ status'[c] # 200
  BY ArrivalOnly
<1>3. stage'[c] = "replied" => status'[c] # 0
  BY <1>1, Arrival, FirstQueries DEF Goes, Ends
<1> QED
  BY <1>1, <1>2, <1>3, Kinds

LEMMA ProcessTypes ==
    ASSUME ServerInv, [ServerNext]_serverVars
    PROVE  /\ main' \in {"down", "wiring", "serving"}
           /\ rpc' \in {"none", "starting", "serving"}
           /\ conn' \in {"idle", "connecting", "ready", "failed"}
           /\ exits' \in 0 .. MaxExits
           /\ main' = "down" <=> rpc' = "none"
<1>1. /\ main \in {"down", "wiring", "serving"} /\ rpc \in {"none", "starting", "serving"}
      /\ conn \in {"idle", "connecting", "ready", "failed"}
      /\ exits \in 0 .. MaxExits /\ (main = "down" <=> rpc = "none")
  BY DEF ServerInv, ServerTypeOK
<1>2. CASE UNCHANGED serverVars \/ Start \/ ServeHttp \/ ServeRpc \/ Dial \/ Redial \/ GoIdle \/ Quiet
  BY <1>1, <1>2 DEF serverVars, process, Start, ServeHttp, ServeRpc, Dial, Redial, GoIdle, Quiet
<1>3. CASE RpcFails \/ HttpFails
  BY <1>1, <1>3 DEF RpcFails, HttpFails, Exit
<1>4. ASSUME NEW c \in Call, NEW r \in Possible, EnterGin(c, r) \/ EnterRpc(c, r) \/ EnterGateway(c, r)
      PROVE  UNCHANGED <<main, rpc, exits>> /\ conn' \in {conn, "connecting"}
  BY <1>4 DEF EnterGin, EnterRpc, EnterGateway, Enter
<1>5. ASSUME NEW c \in Call,
             Invoke(c) \/ Unavailable(c) \/ Work(c) \/ Deliver(c) \/ Leave(c) \/ Cancelled(c)
      PROVE  UNCHANGED process
  BY <1>5 DEF Invoke, Unavailable, Work, Deliver, Leave, Cancelled
<1>6. CASE Others
  BY <1>1, <1>6 DEF Others, process
<1> QED
  BY <1>1, <1>2, <1>3, <1>4, <1>5, <1>6 DEF ServerNext, process

LEMMA RequestFunctions ==
    ASSUME ServerInv, [ServerNext]_serverVars
    PROVE  /\ door' = [c \in Call |-> door'[c]]
           /\ told' = [c \in Call |-> told'[c]]
           /\ wrote' = [c \in Call |-> wrote'[c]]
<1>1. /\ door = [c \in Call |-> door[c]] /\ told = [c \in Call |-> told[c]] /\ wrote = [c \in Call |-> wrote[c]]
  BY DEF ServerInv, ServerTypeOK
<1>2. \/ door' = door
      \/ \E c \in Call, d \in Door : door' = [door EXCEPT ![c] = d]
  BY DEF ServerNext, RpcFails, HttpFails, Exit, Start, ServeHttp, ServeRpc, Dial, Redial, GoIdle,
         EnterGin, EnterRpc, EnterGateway, Enter, Invoke, Unavailable, Work, Deliver, Leave, Cancelled, Others,
         Quiet, serverVars, clients, Door
<1>3. told' = told \/ told' = [d \in Call |-> told'[d]]
  <2>1. CASE RpcFails \/ HttpFails
    BY <2>1 DEF RpcFails, HttpFails, Exit
  <2>2. ASSUME NEW c \in Call, NEW r \in Possible, EnterGin(c, r) \/ EnterRpc(c, r) \/ EnterGateway(c, r)
        PROVE  told' = told \/ told' = [d \in Call |-> told'[d]]
    BY <1>1, <2>2 DEF EnterGin, EnterRpc, EnterGateway
  <2>3. ASSUME NEW c \in Call, Unavailable(c) \/ Deliver(c) \/ Leave(c) PROVE told' = [d \in Call |-> told'[d]]
    BY <1>1, <2>3 DEF Unavailable, Deliver, Leave
  <2> QED
    BY <2>1, <2>2, <2>3 DEF ServerNext, Start, ServeHttp, ServeRpc, Dial, Redial, GoIdle, Invoke, Work, Cancelled,
       Others, Quiet, serverVars, clients
<1>4. wrote' = wrote \/ \E c \in Call : wrote' = [wrote EXCEPT ![c] = @ + 1]
  BY DEF ServerNext, RpcFails, HttpFails, Exit, Start, ServeHttp, ServeRpc, Dial, Redial, GoIdle,
         EnterGin, EnterRpc, EnterGateway, Enter, Invoke, Unavailable, Work, Deliver, Leave, Cancelled, Others,
         Quiet, serverVars
<1> QED
  BY <1>1, <1>2, <1>3, <1>4

LEMMA ServerTypeStep == ASSUME ServerInv, [ServerNext]_serverVars PROVE ServerTypeOK'
<1> USE DEF ServerInv, HandlerInv
<1>1. ASSUME NEW c \in Call
      PROVE  /\ door'[c] \in Door \cup {"none"} /\ told'[c] \in UserStatus \cup {Lost, 503}
             /\ wrote'[c] \in Nat
  <2>1. door[c] \in Door \cup {"none"} /\ told[c] \in UserStatus \cup {Lost, 503} /\ wrote[c] \in Nat
    BY DEF ServerTypeOK
  <2>2. Shown(c) \in UserStatus \cup {503} /\ 400 \in UserStatus
    BY ShownTypes DEF UserStatus
  <2> QED
    BY <2>1, <2>2, Faring DEF Fares, Dies, Rests, Enters, Waits, Called, Works, GivesUp, Informed,
       Apart, Writeless, Door
<1>2. /\ door' \in [Call -> Door \cup {"none"}]
      /\ told' \in [Call -> UserStatus \cup {Lost, 503}]
      /\ wrote' \in [Call -> Nat]
  BY <1>1, RequestFunctions
<1>3. UserTypeOK'
  BY HandlersStep
<1> QED
  BY <1>2, <1>3, ProcessTypes DEF ServerTypeOK

LEMMA DoorStep == ASSUME ServerInv, [ServerNext]_serverVars PROVE DoorInv'
<1> USE DEF ServerInv, HandlerInv
<1> SUFFICES ASSUME NEW c \in Call
             PROVE  /\ door'[c] = "none" <=> req'[c] = NoRequest
                    /\ stage'[c] = "idle" /\ door'[c] # "none" =>
                          door'[c] = "gateway" /\ req'[c] \in Sent' /\ req'[c].kind \in Kind
  BY DEF DoorInv
<1>1. /\ door[c] = "none" <=> req[c] = NoRequest
      /\ stage[c] = "idle" /\ door[c] # "none" => door[c] = "gateway" /\ req[c] \in Sent /\ req[c].kind \in Kind
  BY DEF DoorInv
<1>2. \A r \in Sent : r \in Sent'
  BY SentGrows, GivenGrows
<1>3. CASE Rests(c) \/ Dies(c) \/ GivesUp(c) \/ Informed(c)
  BY <1>1, <1>2, <1>3 DEF Rests, Dies, GivesUp, Informed, Same, Keeps, Goes, Ends, Apart
<1>4. CASE Enters(c) \/ Called(c)
  BY <1>1, <1>4, Entered DEF Enters, Called, Picking, Apart
<1>5. CASE Waits(c)
  <2>1. req'[c] \in Sent /\ req'[c].kind \in Kind
    BY <1>5, PossibleAreSent DEF Waits, Queued
  <2>2. req'[c] # NoRequest
    BY <2>1, SentIs, Kinds
  <2> QED
    BY <1>2, <1>5, <2>1, <2>2 DEF Waits
<1>6. CASE Works(c)
  BY <1>1, <1>6, Effects DEF Works, Apart, Keeps, Active
<1> QED
  BY <1>3, <1>4, <1>5, <1>6, Faring DEF Fares

LEMMA ToldStep == ASSUME ServerInv, [ServerNext]_serverVars PROVE ToldInv'
<1> USE DEF ServerInv, HandlerInv
<1> DEFINE Answered(c) ==
        /\ door[c] = "none" => told[c] = 0
        /\ told[c] \notin {0, Lost} =>
              \/ stage[c] = "idle" /\ told[c] \in {400, 503}
              \/ stage[c] = "replied" /\ status[c] # 0 /\ told[c] = Shown(c)
        /\ stage[c] = "replied" /\ status[c] = 0 => told[c] = Lost
        /\ main = "down" /\ door[c] # "none" => told[c] # 0
<1> SUFFICES ASSUME NEW c \in Call PROVE Answered(c)'
  BY DEF ToldInv
<1>1. Answered(c) /\ (status[c] # 0 => stage[c] = "replied") /\ (door[c] = "none" => stage[c] = "idle")
  BY DEF ToldInv, StageInv, DoorInv
<1>2. door'[c] = door[c] /\ status'[c] = status[c] => Shown(c)' = Shown(c)
  BY DEF Shown
<1>3. CASE Rests(c) /\ (main' = "down" => main = "down")
  BY <1>1, <1>2, <1>3 DEF Rests, Same, Goes, Apart
<1>4. CASE Dies(c)
  BY <1>1, <1>2, <1>4 DEF Dies, Lost
<1>5. CASE GivesUp(c) /\ (main' = "down" => main = "down")
  BY <1>1, <1>5 DEF GivesUp, Active, Ends, Apart
<1>6. CASE Informed(c)
  BY <1>1, <1>2, <1>6, ShownTypes DEF Informed, Same, Goes, Lost
<1>7. CASE Enters(c)
  BY <1>1, <1>7, Entered DEF Enters
<1>8. CASE Called(c) /\ (main' = "down" => main = "down")
  BY <1>1, <1>8, Entered DEF Called, Picking, Apart
<1>9. CASE Waits(c)
  BY <1>1, <1>9 DEF Waits, Queued
<1>10. CASE Works(c) /\ (main' = "down" => main = "down")
  <2>1. Active(c) /\ status[c] = 0 /\ told[c] \in {0, Lost} /\ told'[c] = told[c] /\ door'[c] = door[c]
    BY <1>1, <1>10, Effects DEF Works, Apart, Active
  <2>2. stage'[c] = "replied" => status'[c] # 0
    <3>1. [UserNext]_userVars /\ ~Arrives(c)
      BY <1>10, <2>1 DEF Works, UserNext, Active, Arrives
    <3> QED
      BY <2>1, <3>1, Onwards DEF Onward, Same, Goes, Active
  <2> QED
    BY <1>1, <1>10, <2>1, <2>2
<1> QED
  BY <1>3, <1>4, <1>5, <1>6, <1>7, <1>8, <1>9, <1>10, Faring DEF Fares

LEMMA WroteStep == ASSUME ServerInv, [ServerNext]_serverVars PROVE WroteInv'
<1> USE DEF ServerInv, HandlerInv
<1> DEFINE Wrote(c) ==
        /\ wrote[c] \in {0, 1}
        /\ wrote[c] = 1 =>
              /\ stage[c] = "replied"
              /\ status[c] \in {200, 500}
              /\ req[c].kind \in Inserts \cup Updates
        /\ status[c] = 200 /\ req[c].kind \in Inserts => wrote[c] = 1
<1> SUFFICES ASSUME NEW c \in Call PROVE Wrote(c)'
  BY DEF WroteInv
<1>1. Wrote(c) /\ (status[c] # 0 => stage[c] = "replied")
  BY DEF WroteInv, StageInv
<1>2. CASE Rests(c) \/ Dies(c) \/ Informed(c)
  BY <1>1, <1>2 DEF Rests, Dies, Informed, Same, Keeps, Goes, Writeless
<1>3. CASE GivesUp(c)
  BY <1>1, <1>3 DEF GivesUp, Active, Ends, Writeless
<1>4. CASE Enters(c) \/ Called(c)
  BY <1>1, <1>4, Entered DEF Enters, Called, Writeless
<1>5. CASE Waits(c)
  BY <1>1, <1>5 DEF Waits, Queued, Writeless
<1>6. CASE Works(c)
  <2>1. Active(c) /\ wrote[c] = 0
    BY <1>1, <1>6, Effects DEF Works, Active
  <2> QED
    BY <1>6, <2>1, Effects DEF Works, Keeps
<1> QED
  BY <1>2, <1>3, <1>4, <1>5, <1>6, Faring DEF Fares

LEMMA ServerInitInv == ServerInit => ServerInv
<1> SUFFICES ASSUME ServerInit PROVE ServerInv
  OBVIOUS
<1>1. UserInit /\ HandlerInv
  BY UserInitInv DEF ServerInit, UserInv
<1>2. ServerTypeOK
  BY <1>1 DEF ServerInit, ServerTypeOK, HandlerInv, UserStatus
<1>3. DoorInv /\ ToldInv /\ WroteInv
  BY <1>1 DEF ServerInit, UserInit, DoorInv, ToldInv, WroteInv
<1> QED
  BY <1>1, <1>2, <1>3 DEF ServerInv

LEMMA ServerInvStep == ServerInv /\ [ServerNext]_serverVars => ServerInv'
BY HandlersStep, ServerTypeStep, DoorStep, ToldStep, WroteStep DEF ServerInv

\* The invariant of the process, its doors and its handlers: where each
\* request is, what its client was told, and what it has changed.
THEOREM ServerInvariant == ServerSpec => []ServerInv
BY ServerInitInv, ServerInvStep, PTL DEF ServerSpec

\* Every variable has its type, and the two servers of a process live and end
\* together (cmd/main.go:37-42).
THEOREM ServerTypeCorrect == ServerSpec => []ServerTypeOK
<1>1. ServerInv => ServerTypeOK
  BY DEF ServerInv
<1> QED
  BY <1>1, ServerInvariant, PTL

-----------------------------------------------------------------------------
\* The process leaves what RefreshHonoured is about alone.
LEMMA RefreshHonouredAround == ASSUME HandlerInv, RefreshHonoured, Around PROVE RefreshHonoured'
<1> USE DEF HandlerInv
<1> SUFFICES ASSUME NEW c \in Call, req'[c].kind = "refresh", req'[c].token # Garbage,
                    req'[c].token.id.use = "refresh", status'[c] = 401
             PROVE  refresh'[req'[c].token.id.by].expiredAt <= now'
  BY DEF RefreshHonoured
<1>1. refresh' = refresh /\ now' = now
  BY DEF Around, locals
<1>2. status[c] = 401
  BY DEF Around, Unmoved, Stopped, Queued
<1>3. req'[c] = req[c]
  BY <1>2 DEF Around, Unmoved, Stopped, Queued, StageInv
<1> QED
  BY <1>1, <1>2, <1>3 DEF RefreshHonoured

\* A refresh token that was given is good until its expiry, however often the
\* process ended since: sessions and the key of the maker outlive it.
THEOREM SessionsOutliveProcess == ServerSpec => []RefreshHonoured
<1>1. ServerInit => RefreshHonoured
  BY DEF ServerInit, UserInit, RefreshHonoured, NoRequest
<1>2. ServerInv /\ RefreshHonoured /\ [ServerNext]_serverVars => RefreshHonoured'
  BY Handled, RefreshHonouredStep, RefreshHonouredAround DEF ServerInv
<1> QED
  BY <1>1, <1>2, ServerInvariant, PTL DEF ServerSpec

\* The process leaves what was answered alone, and answers 500 where it cuts a
\* handler off.
LEMMA AnsweredAround ==
    ASSUME HandlerInv, Around, NEW c \in Call
    PROVE  /\ status'[c] # 0 => req'[c] = req[c] /\ status'[c] \in {status[c], 500}
           /\ stage'[c] # "idle" => stage[c] # "idle" /\ req'[c] = req[c]
           /\ status[c] # 0 => req'[c] = req[c] /\ status'[c] = status[c]
BY DEF HandlerInv, StageInv, Around, Unmoved, Stopped, Queued

LEMMA AnswersTimelyAround == ASSUME HandlerInv, AnswersTimely, Around PROVE AnswersTimely'
<1> SUFFICES ASSUME NEW c \in Call, status'[c] \in {200, 401, 404}
             PROVE  LET r == req'[c] IN
                    /\ r.kind = "login" =>
                          /\ status'[c] = 200 => r.password \in seen'[c]
                          /\ status'[c] = 401 => seen'[c] \ {r.password, NoPassword} # {}
                          /\ status'[c] = 404 => NoPassword \in seen'[c]
                    /\ r.kind = "changePassword" =>
                          /\ status'[c] = 200 => {r.old, r.new} \subseteq seen'[c]
                          /\ status'[c] = 401 /\ VerifyToken(r.token, since'[c]) => seen'[c] \ {r.old} # {}
  BY DEF AnswersTimely
<1>1. req'[c] = req[c] /\ status'[c] = status[c] /\ seen' = seen /\ since' = since
  BY AnsweredAround DEF Around
<1> QED
  BY <1>1 DEF AnswersTimely

\* An answer to a password was true at some instant of its request, although
\* the context of a call may end, and the process, between its queries.
THEOREM AnswersStayTimely == ServerSpec => []AnswersTimely
<1>1. ServerInit => AnswersTimely
  BY DEF ServerInit, UserInit, AnswersTimely, NoRequest
<1>2. ServerInv /\ AnswersTimely /\ [ServerNext]_serverVars => AnswersTimely'
  BY Handled, AnswersTimelyStep, AnswersTimelyAround DEF ServerInv
<1> QED
  BY <1>1, <1>2, ServerInvariant, PTL DEF ServerSpec

LEMMA TracesAround == ASSUME HandlerInv, AccessTracesToLogin, Around PROVE AccessTracesToLogin'
<1> SUFFICES ASSUME NEW c \in Call, stage'[c] # "idle", ~Public(req'[c]), status'[c] # 401
             PROVE  \E d \in Call : LoggedIn(d, req[c].token.username, since[c])'
  BY DEF AccessTracesToLogin, LoggedIn
<1>1. stage[c] # "idle" /\ req'[c] = req[c] /\ seen' = seen /\ since' = since
  BY AnsweredAround DEF Around
<1>2. status[c] # 401
  BY AnsweredAround
<1>3. PICK d \in Call : LoggedIn(d, req[c].token.username, since[c])
  BY <1>1, <1>2 DEF AccessTracesToLogin, LoggedIn
<1>4. req'[d] = req[d] /\ status'[d] = status[d]
  BY <1>3, AnsweredAround DEF LoggedIn
<1> QED
  BY <1>1, <1>3, <1>4 DEF LoggedIn

\* Whichever door a request came through, and however often the process that
\* made its token has ended: who acts as a user had logged in as that user.
THEOREM AccessTracesAcrossExits == ServerSpec => []AccessTracesToLogin
<1>1. ServerInit => AccessTracesToLogin
  BY DEF ServerInit, UserInit, AccessTracesToLogin
<1>2. ServerInv /\ AnswersTimely /\ AccessTracesToLogin /\ [ServerNext]_serverVars => AccessTracesToLogin'
  BY Handled, TracesStep, TracesAround DEF ServerInv
<1> QED
  BY <1>1, <1>2, AnswersStayTimely, ServerInvariant, PTL DEF ServerSpec

\* A session ends when it was to, whatever happens to the process: the leeway
\* of its token and the time a request waits do not lengthen it.
THEOREM SessionsEnd == ServerSpec => []NoRefreshAfterExpiry
<1>1. ServerInv => NoRefreshAfterExpiry
  BY RefreshedInTime DEF ServerInv
<1> QED
  BY <1>1, ServerInvariant, PTL

\* An access token is good until the instant its client was told, across the
\* processes that verify it.
THEOREM AccessOutlivesProcess == ServerSpec => []AccessHonoured
<1>1. ServerInv => AccessHonoured
  BY RefusedInTime DEF ServerInv
<1> QED
  BY <1>1, ServerInvariant, PTL

LEMMA LoginAnswersAround == ASSUME HandlerInv, LoginAnswers, Around PROVE LoginAnswers'
BY AnsweredAround DEF LoginAnswers

\* Who registered and has kept the password is let in over the same front end,
\* by any process, unless a query fails or is cut off.
THEOREM RegisteredLogInLater == ServerSpec => []RegisteredCanLogIn
<1>1. ServerInit => LoginAnswers
  BY DEF ServerInit, UserInit, LoginAnswers
<1>2. ServerInv /\ LoginAnswers /\ [ServerNext]_serverVars => LoginAnswers'
  BY Handled, LoginAnswersStep, LoginAnswersAround DEF ServerInv
<1>3. ServerInv /\ AnswersTimely /\ LoginAnswers => RegisteredCanLogIn
  BY RegisteredFares DEF ServerInv
<1> QED
  BY <1>1, <1>2, <1>3, AnswersStayTimely, ServerInvariant, PTL DEF ServerSpec

-----------------------------------------------------------------------------
\* To Access, the process around the handlers ends requests.
LEMMA AroundEnds ==
    ASSUME HandlerInv, Around
    PROVE  A!End({c \in Call : stage'[c] = "replied"})
<1> USE DEF HandlerInv
<1>1. UNCHANGED <<users, sessions, now, access, refresh, since>>
  BY DEF Around, locals
<1>2. ASSUME NEW c \in Call
      PROVE  /\ stage'[c] = "idle" <=> stage[c] = "idle"
             /\ stage[c] # "idle" => req'[c] = req[c]
             /\ stage'[c] \notin {"idle", "replied"} => stage'[c] = stage[c]
  BY DEF Around, Unmoved, Stopped, Queued
<1>3. claims' = claims
  BY <1>2 DEF claims
<1>4. \A c \in Call : Role(c)' = IF stage'[c] = "replied" THEN "outside" ELSE Role(c)
  BY <1>2 DEF Role
<1>5. roles' = [c \in Call |-> IF stage'[c] = "replied" THEN "outside" ELSE roles[c]]
  BY <1>4 DEF roles
<1>6. passwords' = passwords /\ tokens' = tokens
  BY <1>1 DEF passwords, PasswordOf, tokens, MadeBy
<1> QED
  BY <1>1, <1>3, <1>5, <1>6 DEF A!End

\* What Access promises of the handlers it promises of the service: a request
\* that waits for a connection, is cut off or outlives its process has shown
\* what it would have had to, and sessions and passwords are kept.
THEOREM ServiceImplementsAccess == ServerSpec => AccessSpec
<1>1. ServerInit => A!Init
  BY InitImplements DEF ServerInit
<1>2. ServerInv /\ [ServerNext]_serverVars => [A!Next]_(A!accessVars)
  <2> SUFFICES ASSUME ServerInv, [ServerNext]_serverVars
               PROVE  [A!Next]_(A!accessVars)
    OBVIOUS
  <2>1. CASE [UserNext]_userVars
    BY <2>1, StepImplements DEF ServerInv
  <2>2. CASE Around
    BY <2>2, AroundEnds DEF ServerInv, A!Next
  <2> QED
    BY <2>1, <2>2, Handled
<1> QED
  BY <1>1, <1>2, ServerInvariant, PTL DEF ServerSpec, AccessSpec, A!Spec

-----------------------------------------------------------------------------
\* What Once sees of a request.
LEMMA OnceViews ==
    /\ asks = [c \in Call |-> asks[c]] /\ answers = [c \in Call |-> answers[c]]
    /\ \A c \in Call : asks[c] = Asked(c) /\ answers[c] = Effect(told[c])
BY DEF asks, answers

LEMMA OnceEffects ==
    ASSUME NEW s
    PROVE  /\ Effect(s) = "nothing" <=> s = 0
           /\ Effect(s) = "lost" <=> s = Lost
           /\ Effect(s) = "done" <=> s = 200
           /\ Effect(s) = "failed" <=> s = 500
           /\ Effect(s) \in {"nothing", "lost", "done", "failed", "refused"}
BY DEF Effect, Lost

LEMMA OnceAsked ==
    ASSUME NEW c \in Call
    PROVE  /\ Asked(c) = "no" <=> door[c] = "none"
           /\ Asked(c) = "insert" <=> door[c] # "none" /\ req[c].kind \in Inserts
           /\ Asked(c) = "update" <=> door[c] # "none" /\ req[c].kind \in Updates
           /\ Asked(c) \in {"no", "insert", "update", "read"}
BY DEF Asked, Inserts, Updates

\* What a step leaves of a request, Once does not see.
LEMMA Unseen ==
    ASSUME NEW c \in Call, door'[c] = door[c], req'[c] = req[c]
    PROVE  asks'[c] = asks[c] /\ (told'[c] = told[c] => answers'[c] = answers[c])
<1>1. Asked(c)' = Asked(c)
  BY DEF Asked
<1>2. told'[c] = told[c] => Effect(told'[c]) = Effect(told[c])
  OBVIOUS
<1> QED
  BY <1>1, <1>2 DEF asks, answers

LEMMA Stutters ==
    ASSUME UNCHANGED <<door, told, req, wrote>>
    PROVE  UNCHANGED <<asks, wrote, answers>>
<1>1. \A c \in Call : asks'[c] = asks[c] /\ answers'[c] = answers[c]
  BY Unseen
<1>2. asks' = [c \in Call |-> asks'[c]] /\ answers' = [c \in Call |-> answers'[c]]
  BY DEF asks, answers
<1> QED
  BY <1>1, <1>2, OnceViews

\* A request that arrives at a door is asked, and refused at once if the
\* gateway cannot decode it.
LEMMA EnteringAsks ==
    ASSUME ServerInv, NEW c \in Call, NEW r \in Possible, EnterGin(c, r) \/ EnterRpc(c, r) \/ EnterGateway(c, r)
    PROVE  O!Ask(c)
<1> USE DEF ServerInv, HandlerInv
<1>1. /\ door[c] = "none" /\ door' = [door EXCEPT ![c] = door'[c]] /\ door'[c] # "none"
      /\ req' = [req EXCEPT ![c] = r] /\ wrote' = wrote
      /\ told' \in {told, [told EXCEPT ![c] = 400]}
  BY DEF EnterGin, EnterRpc, EnterGateway, Enter, Receive, ServerTypeOK
<1>2. door \in [Call -> Door \cup {"none"}] /\ told \in [Call -> UserStatus \cup {Lost, 503}] /\ told[c] = 0
      /\ req \in [Call -> UserRequest \cup {NoRequest}]
  BY <1>1 DEF ServerTypeOK, UserTypeOK, ToldInv
<1>3. \A d \in Call : d # c => asks'[d] = asks[d] /\ answers'[d] = answers[d]
  BY <1>1, <1>2, Unseen
<1>4. asks[c] = "no" /\ asks'[c] \in {"read", "insert", "update"}
  BY <1>1 DEF asks, Asked
<1>5. answers'[c] \in {answers[c], "refused"}
  BY <1>1, <1>2 DEF answers, Effect, Lost
<1>6. asks' = [d \in Call |-> asks'[d]] /\ answers' = [d \in Call |-> answers'[d]]
  BY DEF asks, answers
<1>7. asks' = [asks EXCEPT ![c] = asks'[c]] /\ answers' = [answers EXCEPT ![c] = answers'[c]]
  BY <1>3, <1>6, OnceViews
<1>8. answers' \in {answers, [answers EXCEPT ![c] = "refused"]}
  BY <1>5, <1>7, OnceViews
<1> QED
  BY <1>1, <1>4, <1>7, <1>8 DEF O!Ask

\* The end of the process loses the answers nobody was told yet.
LEMMA ExitLoses == ASSUME ServerInv, Exit PROVE O!Lose({c \in Call : door[c] # "none" /\ told[c] = 0})
<1> USE DEF ServerInv, HandlerInv
<1> DEFINE S == {c \in Call : door[c] # "none" /\ told[c] = 0}
<1>1. /\ told' = [c \in Call |-> IF door[c] # "none" /\ told[c] = 0 THEN Lost ELSE told[c]]
      /\ door' = door /\ req' = req /\ wrote' = wrote
  BY DEF Exit
<1>2. asks' = asks
  <2>1. \A c \in Call : asks'[c] = asks[c]
    BY <1>1, Unseen
  <2>2. asks' = [c \in Call |-> asks'[c]]
    BY DEF asks
  <2> QED
    BY <2>1, <2>2, OnceViews
<1>3. answers' = [c \in Call |-> IF c \in S THEN "lost" ELSE answers[c]]
  <2>1. answers' = [c \in Call |-> Effect(told'[c])]
    BY DEF answers
  <2>2. ASSUME NEW c \in Call PROVE Effect(told'[c]) = IF c \in S THEN "lost" ELSE answers[c]
    BY <1>1, OnceEffects, OnceViews
  <2> HIDE DEF S
  <2> QED
    BY <2>1, <2>2
<1>4. \A c \in S : asks[c] # "no" /\ answers[c] = "nothing"
  BY OnceViews, OnceEffects, OnceAsked
<1> QED
  BY <1>1, <1>2, <1>3, <1>4 DEF O!Lose

\* A client that leaves loses its answer.  Any other answer is told once, and
\* is true of what the request has done.
LEMMA LeavingLoses == ASSUME ServerInv, NEW c \in Call, Leave(c) PROVE O!Lose({c})
<1> USE DEF ServerInv, HandlerInv
<1>1. door[c] # "none" /\ told[c] = 0 /\ told' = [told EXCEPT ![c] = Lost] /\ UNCHANGED <<door, req, wrote>>
  BY DEF Leave, userVars
<1>2. told \in [Call -> UserStatus \cup {Lost, 503}]
  BY DEF ServerTypeOK
<1>3. asks' = asks
  <2>1. \A d \in Call : asks'[d] = asks[d]
    BY <1>1, Unseen
  <2>2. asks' = [d \in Call |-> asks'[d]]
    BY DEF asks
  <2> QED
    BY <2>1, <2>2, OnceViews
<1>4. answers' = [d \in Call |-> IF d \in {c} THEN "lost" ELSE answers[d]]
  <2>1. answers' = [d \in Call |-> Effect(told'[d])]
    BY DEF answers
  <2>2. ASSUME NEW d \in Call PROVE Effect(told'[d]) = IF d \in {c} THEN "lost" ELSE answers[d]
    BY <1>1, <1>2, OnceEffects, OnceViews
  <2> QED
    BY <2>1, <2>2
<1>5. asks[c] # "no" /\ answers[c] = "nothing"
  BY <1>1, OnceViews, OnceEffects, OnceAsked
<1> QED
  BY <1>1, <1>3, <1>4, <1>5 DEF O!Lose

LEMMA TellingTells ==
    ASSUME ServerInv, NEW c \in Call, Unavailable(c) \/ Deliver(c)
    PROVE  \E a \in {"done", "refused", "failed"} : O!Tell(c, a)
<1> USE DEF ServerInv, HandlerInv
<1>1. /\ told[c] = 0 /\ told' = [told EXCEPT ![c] = told'[c]] /\ UNCHANGED <<door, req, wrote>>
      /\ told \in [Call -> UserStatus \cup {Lost, 503}]
  BY DEF Unavailable, Deliver, Picking, userVars, clients, ServerTypeOK
<1>2. door[c] # "none"
  BY DEF Unavailable, Deliver, Picking, DoorInv, StageInv
<1>3. /\ told'[c] \notin {0, Lost}
      /\ told'[c] = 200 <=> status[c] = 200
      /\ told'[c] \notin {200, 500} => status[c] \notin {200, 500}
  <2>1. CASE Unavailable(c)
    BY <1>1, <2>1 DEF Unavailable, Picking, HTTPStatusFromCode, StageInv, Lost
  <2>2. CASE Deliver(c)
    <3>1. told'[c] = Shown(c) /\ stage[c] = "replied"
      BY <1>1, <2>2 DEF Deliver
    <3>2. status[c] # 0 /\ Shown(c) \in UserStatus \cup {503}
      BY <1>1, <3>1, ShownTypes DEF ToldInv, Lost
    <3>3. Lost \notin UserStatus \cup {503}
      BY DEF Lost, UserStatus
    <3> QED
      BY <3>1, <3>2, <3>3, ShownTypes
  <2> QED
    BY <2>1, <2>2
<1>4. asks' = asks
  <2>1. \A d \in Call : asks'[d] = asks[d]
    BY <1>1, Unseen
  <2>2. asks' = [d \in Call |-> asks'[d]]
    BY DEF asks
  <2> QED
    BY <2>1, <2>2, OnceViews
<1> DEFINE a == Effect(told'[c])
<1>5. answers' = [answers EXCEPT ![c] = a]
  <2>1. answers' = [d \in Call |-> Effect(told'[d])]
    BY DEF answers
  <2>2. \A d \in Call : d # c => Effect(told'[d]) = answers[d]
    BY <1>1, OnceViews
  <2> QED
    BY <2>1, <2>2, OnceViews
<1>6. a \in {"done", "refused", "failed"} /\ (a = "done" <=> told'[c] = 200) /\ (a = "failed" <=> told'[c] = 500)
  BY <1>3, OnceEffects
<1> HIDE DEF a
<1>7. asks[c] # "no" /\ answers[c] = "nothing"
  BY <1>1, <1>2, OnceViews, OnceEffects, OnceAsked
<1>8. a = "done" /\ asks[c] = "insert" => wrote[c] = 1
  BY <1>3, <1>6, OnceViews, OnceAsked DEF WroteInv
<1>9. a = "refused" => wrote[c] = 0
  BY <1>3, <1>6 DEF WroteInv
<1> QED
  BY <1>1, <1>4, <1>5, <1>6, <1>7, <1>8, <1>9 DEF O!Tell

\* A statement that changes a table is the only effect of its request, whose
\* client has not been told anything.
LEMMA WorkingActs == ASSUME ServerInv, NEW c \in Call, Work(c) PROVE O!Act(c) \/ UNCHANGED <<asks, wrote, answers>>
<1> USE DEF ServerInv, HandlerInv
<1>1. HandlerStep(c) /\ UNCHANGED <<door, told, req>> /\ wrote' = IF Changed THEN [wrote EXCEPT ![c] = @ + 1] ELSE wrote
  BY DEF Work, clients, Changed, HandlerStep, InsertUser, ReadProfile, ReadUser, ReadOldPassword, UpdatePassword,
         UpdateProfile, MakeAccess, MakeRefresh, StoreSession, ReadClock, ReadSession
<1>2. asks' = asks /\ answers' = answers
  <2>1. \A d \in Call : asks'[d] = asks[d] /\ answers'[d] = answers[d]
    BY <1>1, Unseen
  <2>2. asks' = [d \in Call |-> asks'[d]] /\ answers' = [d \in Call |-> answers'[d]]
    BY DEF asks, answers
  <2> QED
    BY <2>1, <2>2, OnceViews
<1>3. CASE ~Changed
  BY <1>1, <1>2, <1>3
<1>4. CASE Changed
  <2>1. Active(c) /\ req[c].kind \in Inserts \cup Updates
    BY <1>1, <1>4, Effects
  <2>2. door[c] # "none" /\ told[c] \in {0, Lost} /\ wrote[c] = 0
    BY <2>1 DEF Active, DoorInv, StageInv, ToldInv, WroteInv
  <2>3. asks[c] \in {"insert", "update"} /\ answers[c] \in {"nothing", "lost"}
    BY <2>1, <2>2, OnceViews, OnceEffects, OnceAsked
  <2>4. wrote' = [wrote EXCEPT ![c] = 1]
    BY <1>1, <1>4, <2>2
  <2> QED
    BY <1>2, <2>2, <2>3, <2>4 DEF O!Act
<1> QED
  BY <1>3, <1>4

LEMMA InitAsks == ServerInit => O!Init
<1> SUFFICES ASSUME ServerInit PROVE O!Init
  OBVIOUS
<1>1. \A c \in Call : door[c] = "none" /\ told[c] = 0
  BY DEF ServerInit
<1>2. \A c \in Call : Asked(c) = "no" /\ Effect(told[c]) = "nothing"
  BY <1>1, OnceAsked, OnceEffects
<1>3. asks = [c \in Call |-> "no"] /\ answers = [c \in Call |-> "nothing"]
  BY <1>2 DEF asks, answers
<1> QED
  BY <1>3 DEF ServerInit, O!Init

LEMMA StepOnce == ServerInv /\ [ServerNext]_serverVars => [O!Next]_<<asks, wrote, answers>>
<1> SUFFICES ASSUME ServerInv, [ServerNext]_serverVars
             PROVE  O!Next \/ UNCHANGED <<asks, wrote, answers>>
  OBVIOUS
<1> USE DEF ServerInv, HandlerInv
<1>1. CASE UNCHANGED serverVars \/ Start \/ ServeHttp \/ ServeRpc \/ Dial \/ Redial \/ GoIdle \/ Quiet \/ Others
  <2>1. UNCHANGED <<door, told, req, wrote>>
    BY <1>1 DEF serverVars, userVars, clients, Start, ServeHttp, ServeRpc, Dial, Redial, GoIdle, Quiet, Others,
                Tick, QueryFails
  <2> QED
    BY <2>1, Stutters
<1>2. ASSUME NEW c \in Call, Invoke(c) \/ Cancelled(c) PROVE UNCHANGED <<asks, wrote, answers>>
  <2>1. UNCHANGED <<door, told, req, wrote>>
    BY <1>2 DEF Invoke, Cancelled, Receive, clients, UserTypeOK
  <2> QED
    BY <2>1, Stutters
<1>3. CASE RpcFails \/ HttpFails
  <2>1. O!Lose({c \in Call : door[c] # "none" /\ told[c] = 0})
    BY <1>3, ExitLoses DEF RpcFails, HttpFails
  <2> QED
    BY <2>1 DEF O!Next
<1>4. ASSUME NEW c \in Call, Leave(c) PROVE O!Next
  BY <1>4, LeavingLoses DEF O!Next
<1>5. ASSUME NEW c \in Call, NEW r \in Possible, EnterGin(c, r) \/ EnterRpc(c, r) \/ EnterGateway(c, r) PROVE O!Next
  BY <1>5, EnteringAsks DEF O!Next
<1>6. ASSUME NEW c \in Call, Unavailable(c) \/ Deliver(c) PROVE O!Next
  BY <1>6, TellingTells DEF O!Next
<1>7. ASSUME NEW c \in Call, Work(c) PROVE O!Next \/ UNCHANGED <<asks, wrote, answers>>
  BY <1>7, WorkingActs DEF O!Next
<1> QED
  BY <1>1, <1>2, <1>3, <1>4, <1>5, <1>6, <1>7 DEF ServerNext

\* Whichever door a request goes through, whatever its client or the process
\* does meanwhile: it takes effect at most once, 200 means that it did, and a
\* 4xx or 503 that it did not and will not.
THEOREM RequestsTakeEffectOnce == ServerSpec => OnceSpec
BY InitAsks, StepOnce, ServerInvariant, PTL DEF ServerSpec, OnceSpec, O!Spec

=============================================================================
