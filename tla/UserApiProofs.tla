--------------------------- MODULE UserApiProofs ---------------------------
(***************************************************************************)
(* Proofs about UserApi, for any users, passwords, lifetimes, precision    *)
(* and leeway of tokens, and number of concurrent requests.                *)
(*                                                                         *)
(*   1. Tokens: what rounding and leeway do to an expiry.                  *)
(*   2. Moved: what a step does to one request, whoever takes it; and what *)
(*      it does to the sessions, the passwords and the tokens given.       *)
(*   3. UserInv is inductive.                                              *)
(*   4. The properties follow, those of several requests by an induction   *)
(*      of their own, and every step is one of Access or none.             *)
(***************************************************************************)
EXTENDS UserApi, TLAPS

USE TokenAssumption, UserAssumption

\* A date loses less than a second: the leeway, a second or more, makes up for
\* it.  So a token is accepted at every instant before the expiry that the
\* client was told, and at none that is the leeway or more after it.
LEMMA Dates ==
    \A t \in Int : NumericDate(t) \in Int /\ NumericDate(t) <= t /\ t < NumericDate(t) + TokenLeeway
<1> SUFFICES ASSUME NEW t \in Int
             PROVE  NumericDate(t) \in Int /\ NumericDate(t) <= t /\ t < NumericDate(t) + TokenLeeway
  OBVIOUS
<1>1. t % Second \in 0 .. Second - 1
  OBVIOUS
<1> QED
  BY <1>1 DEF NumericDate

LEMMA Created ==
    ASSUME NEW id \in TokenId, NEW u \in User, NEW d \in Int, NEW t \in Int
    PROVE  LET m == CreateToken(id, u, d, t) IN
           /\ m \in Issued
           /\ m # None
           /\ m.expiredAt = t + d
           /\ m.token = [id |-> id, username |-> u, exp |-> NumericDate(m.expiredAt)]
BY Dates DEF CreateToken, Issued, Token

\* The kinds of requests.
LEMMA Kinds ==
    /\ \A r \in UserRequest :
          /\ r.kind = "createUser" <=> r \in CreateUser
          /\ r.kind = "login" <=> r \in LoginUser
          /\ r.kind = "refresh" <=> r \in RefreshToken
          /\ r.kind = "getUser" <=> r \in GetUser
          /\ r.kind = "updateUser" <=> r \in UpdateUser
          /\ r.kind = "changePassword" <=> r \in ChangePassword
          /\ r.kind = "logout" <=> r \in LogoutUser
          /\ Public(r) => r.username \in User /\ r.password \in Password /\ Subject(r) = r.username
          /\ ~Public(r) => r.token \in Credential /\ Subject(r) = r.token.username
    /\ NoRequest \notin UserRequest /\ NoRequest.kind = "none" /\ ~Public(NoRequest)
BY DEF UserRequest, CreateUser, LoginUser, RefreshToken, GetUser, UpdateUser, ChangePassword, LogoutUser,
       Public, Subject, NoRequest

\* Whom a request that presents no garbage is about.
LEMMA Subjects ==
    \A r \in UserRequest :
        /\ Public(r) <=> r \in CreateUser \cup LoginUser
        /\ Public(r) \/ r.token # Garbage => Subject(r) \in User
<1> SUFFICES ASSUME NEW r \in UserRequest
             PROVE  /\ Public(r) <=> r \in CreateUser \cup LoginUser
                    /\ Public(r) \/ r.token # Garbage => Subject(r) \in User
  OBVIOUS
<1>1. Public(r) <=> r \in CreateUser \cup LoginUser
  BY Kinds DEF Public
<1>2. CASE Public(r)
  BY <1>1, <1>2, Kinds
<1>3. CASE ~Public(r)
  BY <1>1, <1>3, Kinds DEF Credential, Token
<1> QED
  BY <1>2, <1>3, <1>1

LEMMA TokenParts == \A t \in Token : t # Garbage /\ t.id \in TokenId /\ t.username \in User /\ t.exp \in Int
BY DEF Token

\* Who made a token.
LEMMA Makers ==
    ASSUME NEW c \in Call
    PROVE  /\ [by |-> c, use |-> "access"] \in TokenId
           /\ [by |-> c, use |-> "refresh"] \in TokenId
           /\ MadeBy([by |-> c, use |-> "access"]) = access[c]
           /\ MadeBy([by |-> c, use |-> "refresh"]) = refresh[c]
BY DEF TokenId, MadeBy

LEMMA IssuedAre ==
    ASSUME TokenInv, NEW c \in Call
    PROVE  /\ access[c] # None =>
                access[c].token = [id |-> [by |-> c, use |-> "access"], username |-> Subject(req[c]),
                                   exp |-> NumericDate(access[c].expiredAt)]
           /\ refresh[c] # None =>
                refresh[c].token = [id |-> [by |-> c, use |-> "refresh"], username |-> Subject(req[c]),
                                    exp |-> NumericDate(refresh[c].expiredAt)]
<1>1. access[c] # None => IsIssued([by |-> c, use |-> "access"])
  BY DEF TokenInv
<1>2. refresh[c] # None => IsIssued([by |-> c, use |-> "refresh"])
  BY DEF TokenInv
<1> QED
  BY <1>1, <1>2, Makers DEF IsIssued

\* A token that was given is the one its maker was returned.
LEMMA GivenIs ==
    ASSUME UserTypeOK, TokenInv, NEW t \in Given
    PROVE  /\ t \in Token
           /\ t.id.by \in Call
           /\ status[t.id.by] = 200
           /\ MadeBy(t.id) \in Issued
           /\ MadeBy(t.id) # None
           /\ MadeBy(t.id).token = t
           /\ t.username = Subject(req[t.id.by])
           /\ t.exp = NumericDate(MadeBy(t.id).expiredAt)
           /\ req[t.id.by] \in LoginUser \cup RefreshToken
<1>1. ASSUME NEW c \in Call, status[c] = 200, access[c] # None, t = access[c].token
      PROVE  /\ t.id = [by |-> c, use |-> "access"] /\ MadeBy(t.id) = access[c]
             /\ t.username = Subject(req[c]) /\ t.exp = NumericDate(access[c].expiredAt)
             /\ access[c] \in Issued /\ req[c] \in LoginUser \cup RefreshToken
  <2>1. t = [id |-> [by |-> c, use |-> "access"], username |-> Subject(req[c]),
             exp |-> NumericDate(access[c].expiredAt)]
    BY <1>1, IssuedAre
  <2>2. access[c] \in Issued
    BY <1>1 DEF UserTypeOK
  <2>3. req[c] \in LoginUser \cup RefreshToken
    BY <1>1 DEF TokenInv
  <2> QED
    BY <2>1, <2>2, <2>3, Makers
<1>2. ASSUME NEW c \in Call, status[c] = 200, refresh[c] # None, t = refresh[c].token
      PROVE  /\ t.id = [by |-> c, use |-> "refresh"] /\ MadeBy(t.id) = refresh[c]
             /\ t.username = Subject(req[c]) /\ t.exp = NumericDate(refresh[c].expiredAt)
             /\ refresh[c] \in Issued /\ req[c] \in LoginUser \cup RefreshToken
  <2>1. t = [id |-> [by |-> c, use |-> "refresh"], username |-> Subject(req[c]),
             exp |-> NumericDate(refresh[c].expiredAt)]
    BY <1>2, IssuedAre
  <2>2. refresh[c] \in Issued
    BY <1>2 DEF UserTypeOK
  <2>3. req[c] \in LoginUser \cup RefreshToken
    BY <1>2 DEF TokenInv
  <2> QED
    BY <2>1, <2>2, <2>3, Makers
<1>3. \/ \E c \in Call : status[c] = 200 /\ access[c] # None /\ t = access[c].token
      \/ \E c \in Call : status[c] = 200 /\ refresh[c] # None /\ t = refresh[c].token
  BY DEF Given
<1>4. \A m \in Issued : m.token \in Token /\ m # None
  BY DEF Issued
<1>5. CASE \E c \in Call : status[c] = 200 /\ access[c] # None /\ t = access[c].token
  <2>1. PICK c \in Call : status[c] = 200 /\ access[c] # None /\ t = access[c].token
    BY <1>5
  <2>2. /\ t.id = [by |-> c, use |-> "access"] /\ MadeBy(t.id) = access[c]
        /\ t.username = Subject(req[c]) /\ t.exp = NumericDate(access[c].expiredAt)
        /\ access[c] \in Issued /\ req[c] \in LoginUser \cup RefreshToken
    BY <1>1, <2>1, Zenon
  <2>3. t.id.by = c
    BY <2>2
  <2> QED
    BY <1>4, <2>1, <2>2, <2>3
<1>6. CASE \E c \in Call : status[c] = 200 /\ refresh[c] # None /\ t = refresh[c].token
  <2>1. PICK c \in Call : status[c] = 200 /\ refresh[c] # None /\ t = refresh[c].token
    BY <1>6
  <2>2. /\ t.id = [by |-> c, use |-> "refresh"] /\ MadeBy(t.id) = refresh[c]
        /\ t.username = Subject(req[c]) /\ t.exp = NumericDate(refresh[c].expiredAt)
        /\ refresh[c] \in Issued /\ req[c] \in LoginUser \cup RefreshToken
    BY <1>2, <2>1, Zenon
  <2>3. t.id.by = c
    BY <2>2
  <2> QED
    BY <1>4, <2>1, <2>2, <2>3
<1> QED
  BY <1>3, <1>5, <1>6

\* What clients send: requests, with tokens that were given or none of ours.
LEMMA SentIs ==
    ASSUME UserTypeOK, TokenInv, NEW r \in Sent
    PROVE  /\ r \in UserRequest
           /\ ~Public(r) => r.token \in Given \cup {Garbage}
<1> DEFINE Shown == Given \cup {Garbage}
<1>1. Shown \subseteq Credential
  BY GivenIs DEF Credential
<1> HIDE DEF Shown
<1>2. \/ r \in CreateUser \cup LoginUser
      \/ \E t \in Shown : r = [kind |-> "refresh", token |-> t] \/ r = [kind |-> "logout", token |-> t]
      \/ \E t \in Shown, u \in User : r = [kind |-> "getUser", token |-> t, username |-> u]
      \/ \E t \in Shown, e \in Email : r = [kind |-> "updateUser", token |-> t, email |-> e]
      \/ \E t \in Shown, p \in Password, q \in Password :
            r = [kind |-> "changePassword", token |-> t, old |-> p, new |-> q]
  <2> DEFINE Logins == {x \in CreateUser \cup LoginUser : x.front \in Front}
             Bare == {[kind |-> k, token |-> t] : k \in {"refresh", "logout"}, t \in Shown}
             Gets == {[kind |-> "getUser", token |-> t, username |-> u] : t \in Shown, u \in User}
             Updates == {[kind |-> "updateUser", token |-> t, email |-> e] : t \in Shown, e \in Email}
             Changes == {[kind |-> "changePassword", token |-> t, old |-> p, new |-> q] :
                            t \in Shown, p \in Password, q \in Password}
  <2>1. Sent = Logins \cup Bare \cup Gets \cup Updates \cup Changes
    BY DEF Sent, Shown
  <2>2. CASE r \in Logins
    BY <2>2
  <2>3. CASE r \in Bare
    BY <2>3
  <2>4. CASE r \in Gets
    BY <2>4
  <2>5. CASE r \in Updates
    BY <2>5
  <2>6. CASE r \in Changes
    BY <2>6
  <2> HIDE DEF Logins, Bare, Gets, Updates, Changes
  <2> QED
    BY <2>1, <2>2, <2>3, <2>4, <2>5, <2>6
<1>3. CASE r \in CreateUser \cup LoginUser
  BY <1>3 DEF UserRequest, Public, CreateUser, LoginUser
<1>4. CASE \E t \in Shown : r = [kind |-> "refresh", token |-> t] \/ r = [kind |-> "logout", token |-> t]
  BY <1>1, <1>4 DEF UserRequest, Public, RefreshToken, LogoutUser, Shown
<1>5. CASE \E t \in Shown, u \in User : r = [kind |-> "getUser", token |-> t, username |-> u]
  BY <1>1, <1>5 DEF UserRequest, Public, GetUser, Shown
<1>6. CASE \E t \in Shown, e \in Email : r = [kind |-> "updateUser", token |-> t, email |-> e]
  BY <1>1, <1>6 DEF UserRequest, Public, UpdateUser, Shown
<1>7. CASE \E t \in Shown, p \in Password, q \in Password :
              r = [kind |-> "changePassword", token |-> t, old |-> p, new |-> q]
  BY <1>1, <1>7 DEF UserRequest, Public, ChangePassword, Shown
<1> QED
  BY <1>2, <1>3, <1>4, <1>5, <1>6, <1>7

-----------------------------------------------------------------------------
\* What is known of a request's part of a state.
Keeps(c) == req'[c] = req[c] /\ since'[c] = since[c]
KeepsLocals(c) == access'[c] = access[c] /\ refresh'[c] = refresh[c] /\ clock'[c] = clock[c]
Ends(c, s) == stage'[c] = "replied" /\ status'[c] = s
Goes(c, next) == stage'[c] = next /\ status'[c] = status[c]
Same(c) == Keeps(c) /\ KeepsLocals(c) /\ Goes(c, stage[c])

Known(c) == Subject(req[c]) \in DOMAIN users
Right(c) == Presented(req[c]) = PasswordOf(Subject(req[c]))
Open(c) ==
    LET row == SessionOf(req[c].token.id) IN row # None /\ Usable(row, req[c].token, clock[c])

\* The ways in which a request goes on.
Arrives(c) ==
    \E r \in Sent :
        /\ stage[c] = "idle"
        /\ req'[c] = r /\ since'[c] = now /\ KeepsLocals(c)
        /\ IF Refusal(r) = 0 THEN Goes(c, FirstQuery(r)) ELSE Ends(c, Refusal(r))

Reads(c) ==
    /\ Keeps(c) /\ KeepsLocals(c)
    /\ \/ stage[c] = "readUser" /\ req[c].kind = "getUser" /\ \E s \in {200, 404} : Ends(c, s)
       \/ /\ stage[c] = "readUser" /\ req[c].kind \in {"login", "changePassword"}
          /\ \/ ~Known(c) /\ Ends(c, 404)
             \/ Known(c) /\ ~Right(c) /\ Ends(c, 401)
             \/ Known(c) /\ Right(c) /\ req[c].kind = "login" /\ Goes(c, "makeAccess")
             \/ /\ Known(c) /\ Right(c) /\ req[c].kind = "changePassword"
                /\ \/ req[c].new \in TooLong /\ Ends(c, 500)
                   \/ req[c].new \notin TooLong /\ Goes(c, "updatePassword")
       \/ stage[c] = "readSession" /\ ~Open(c) /\ Ends(c, 401)
       \/ stage[c] = "readSession" /\ Open(c) /\ Goes(c, "makeAccess")

Writes(c) ==
    /\ Keeps(c) /\ KeepsLocals(c)
    /\ \/ stage[c] \in {"insertUser", "updateUser"} /\ \E s \in {200, 409, 500} : Ends(c, s)
       \/ stage[c] \in {"updatePassword", "storeSession"} /\ \E s \in {200, 500} : Ends(c, s)

Fails(c) ==
    /\ Keeps(c) /\ KeepsLocals(c)
    /\ stage[c] \in WriteStage \cup {"readUser", "readSession"}
    /\ Ends(c, 500)

Makes(c) ==
    /\ Keeps(c)
    /\ \/ /\ stage[c] = "makeAccess"
          /\ access'[c] = CreateToken([by |-> c, use |-> "access"], Subject(req[c]), AccessTokenDuration, now)
          /\ refresh'[c] = refresh[c] /\ clock'[c] = clock[c]
          /\ \/ req[c].kind = "login" /\ Goes(c, "makeRefresh")
             \/ req[c].kind = "refresh" /\ Ends(c, 200)
       \/ /\ stage[c] = "makeRefresh"
          /\ refresh'[c] = CreateToken([by |-> c, use |-> "refresh"], Subject(req[c]), RefreshTokenDuration, now)
          /\ access'[c] = access[c] /\ clock'[c] = clock[c]
          /\ Goes(c, "storeSession")
       \/ /\ stage[c] = "readClock"
          /\ clock'[c] = now
          /\ access'[c] = access[c] /\ refresh'[c] = refresh[c]
          /\ Goes(c, "readSession")

Moved(c) == Same(c) \/ Arrives(c) \/ Reads(c) \/ Writes(c) \/ Fails(c) \/ Makes(c)

Functions ==
    /\ stage' = [c \in Call |-> stage'[c]]
    /\ req' = [c \in Call |-> req'[c]]
    /\ access' = [c \in Call |-> access'[c]]
    /\ refresh' = [c \in Call |-> refresh'[c]]
    /\ clock' = [c \in Call |-> clock'[c]]
    /\ status' = [c \in Call |-> status'[c]]
    /\ since' = [c \in Call |-> since'[c]]

LEMMA MovesFunctions == ASSUME UserTypeOK, [UserNext]_userVars PROVE Functions
<1> USE DEF UserTypeOK, Functions
<1>1. CASE UNCHANGED userVars \/ Tick \/ AllReplied
  BY <1>1 DEF Tick, AllReplied, userVars, locals
<1>2. ASSUME NEW c \in Call, NEW r \in Sent, Receive(c, r) PROVE Functions
  BY <1>2 DEF Receive, Reply, Go, locals
<1>3. ASSUME NEW c \in Call, InsertUser(c) \/ UpdatePassword(c) \/ UpdateProfile(c) \/ StoreSession(c)
      PROVE  Functions
  BY <1>3 DEF InsertUser, UpdatePassword, UpdateProfile, StoreSession, ReplyCommitted, Reply, locals
<1>4. ASSUME NEW c \in Call, ReadProfile(c) \/ ReadUser(c) \/ ReadOldPassword(c) \/ ReadSession(c) \/ QueryFails(c)
      PROVE  Functions
  BY <1>4 DEF ReadProfile, ReadUser, ReadOldPassword, ReadSession, QueryFails, Reply, Go, locals
<1>5. ASSUME NEW c \in Call, MakeAccess(c) \/ MakeRefresh(c) \/ ReadClock(c) PROVE Functions
  BY <1>5 DEF MakeAccess, MakeRefresh, ReadClock, Reply, Go
<1> QED
  BY <1>1, <1>2, <1>3, <1>4, <1>5 DEF UserNext, HandlerStep

\* Only one request moves.
LEMMA OthersSame ==
    ASSUME UserTypeOK, NEW c \in Call, NEW d \in Call, d # c,
           (\E r \in Sent : Receive(c, r)) \/ HandlerStep(c) \/ QueryFails(c)
    PROVE  Same(d)
BY DEF UserTypeOK, Same, Keeps, KeepsLocals, Goes, HandlerStep, Receive, InsertUser, ReadProfile, ReadUser,
       ReadOldPassword, UpdatePassword, UpdateProfile, MakeAccess, MakeRefresh, StoreSession, ReadClock,
       ReadSession, QueryFails, ReplyCommitted, Reply, Go, locals

\* What each action is to its request.
LEMMA Acts ==
    ASSUME UserTypeOK, NEW c \in Call
    PROVE  /\ \A r \in Sent : Receive(c, r) => Arrives(c)
           /\ ReadProfile(c) \/ ReadUser(c) \/ ReadOldPassword(c) \/ ReadSession(c) => Reads(c)
           /\ InsertUser(c) \/ UpdatePassword(c) \/ UpdateProfile(c) \/ StoreSession(c) => Writes(c)
           /\ MakeAccess(c) \/ MakeRefresh(c) \/ ReadClock(c) => Makes(c)
           /\ QueryFails(c) => Fails(c)
<1> USE DEF UserTypeOK
<1>1. ASSUME NEW r \in Sent, Receive(c, r) PROVE Arrives(c)
  BY <1>1 DEF Receive, Arrives, KeepsLocals, Reply, Go, Goes, Ends, locals
<1>2. ASSUME ReadProfile(c) PROVE Reads(c)
  BY <1>2 DEF ReadProfile, Reply, Reads, Keeps, KeepsLocals, Ends, locals
<1>3. ASSUME ReadUser(c) \/ ReadOldPassword(c) PROVE Reads(c)
  BY <1>3 DEF ReadUser, ReadOldPassword, CheckPassword, Reply, Go, Reads, Keeps, KeepsLocals, Ends, Goes,
              Known, Right, locals
<1>4. ASSUME ReadSession(c) PROVE Reads(c)
  BY <1>4 DEF ReadSession, Reply, Go, Reads, Keeps, KeepsLocals, Ends, Goes, Open, locals
<1>5. ASSUME InsertUser(c) \/ UpdatePassword(c) \/ UpdateProfile(c) \/ StoreSession(c) PROVE Writes(c)
  BY <1>5 DEF InsertUser, UpdatePassword, UpdateProfile, StoreSession, ReplyCommitted, Reply,
              Writes, Keeps, KeepsLocals, Ends, locals
<1>6. ASSUME MakeAccess(c) \/ MakeRefresh(c) \/ ReadClock(c) PROVE Makes(c)
  BY <1>6 DEF MakeAccess, MakeRefresh, ReadClock, Reply, Go, Makes, Keeps, Ends, Goes
<1>7. ASSUME QueryFails(c) PROVE Fails(c)
  BY <1>7 DEF QueryFails, Reply, Fails, Keeps, KeepsLocals, Ends, locals
<1> QED
  BY <1>1, <1>2, <1>3, <1>4, <1>5, <1>6, <1>7

LEMMA Moves == ASSUME UserTypeOK, [UserNext]_userVars, NEW d \in Call PROVE Moved(d)
<1>1. CASE UNCHANGED userVars \/ Tick \/ AllReplied
  BY <1>1 DEF Tick, AllReplied, userVars, locals, Moved, Same, Keeps, KeepsLocals, Goes
<1>2. ASSUME NEW c \in Call, c # d, (\E r \in Sent : Receive(c, r)) \/ HandlerStep(c) \/ QueryFails(c)
      PROVE  Moved(d)
  BY <1>2, OthersSame DEF Moved
<1>3. ASSUME (\E r \in Sent : Receive(d, r)) \/ HandlerStep(d) \/ QueryFails(d) PROVE Moved(d)
  BY <1>3, Acts DEF HandlerStep, Moved
<1> QED
  BY <1>1, <1>2, <1>3 DEF UserNext

\* A request moves by a step of its own.
LEMMA OwnMove ==
    ASSUME UserTypeOK, [UserNext]_userVars, NEW c \in Call, ~Same(c)
    PROVE  (\E r \in Sent : Receive(c, r)) \/ HandlerStep(c) \/ QueryFails(c)
<1>1. CASE UNCHANGED userVars \/ Tick \/ AllReplied
  BY <1>1 DEF Tick, AllReplied, userVars, locals, Same, Keeps, KeepsLocals, Goes
<1> QED
  BY <1>1, OthersSame DEF UserNext

-----------------------------------------------------------------------------
\* Time goes on, within its bound.
LEMMA TimeMoves == ASSUME UserTypeOK, [UserNext]_userVars PROVE now' \in 0 .. MaxTime /\ now <= now'
<1>1. now' = now \/ Tick
  BY DEF UserNext, HandlerStep, Receive, InsertUser, ReadProfile, ReadUser, ReadOldPassword,
         UpdatePassword, UpdateProfile, MakeAccess, MakeRefresh, StoreSession, ReadClock, ReadSession, QueryFails,
         AllReplied, userVars
<1> QED
  BY <1>1 DEF Tick, UserTypeOK

\* Failures are counted, within their bound.
LEMMA FaultMoves == ASSUME UserTypeOK, [UserNext]_userVars PROVE faults' \in 0 .. MaxFaults
<1>1. faults' = faults \/ FailQuery
  BY DEF UserNext, HandlerStep, Receive, InsertUser, ReadProfile, ReadUser, ReadOldPassword,
         UpdatePassword, UpdateProfile, MakeAccess, MakeRefresh, StoreSession, ReadClock, ReadSession, QueryFails,
         ReplyCommitted, Tick, AllReplied, userVars
<1> QED
  BY <1>1 DEF FailQuery, UserTypeOK

\* The session of c's login.
IdOf(c) == [by |-> c, use |-> "refresh"]

LEMMA NewSessionIs ==
    ASSUME UserTypeOK, TokenInv, StageInv, NEW c \in Call, stage[c] = "storeSession"
    PROVE  NewSession(c) \in Session /\ NewSession(c).token.id = IdOf(c)
<1>1. refresh[c] # None /\ refresh[c] \in Issued /\ req[c] \in LoginUser
  BY DEF UserTypeOK, TokenInv, StageInv
<1>2. refresh[c].token.id = IdOf(c)
  <2>1. refresh[c].token = [id |-> [by |-> c, use |-> "refresh"], username |-> Subject(req[c]),
                            exp |-> NumericDate(refresh[c].expiredAt)]
    BY <1>1, IssuedAre
  <2> QED
    BY <2>1 DEF IdOf
<1>3. Subject(req[c]) \in User
  BY <1>1, Subjects DEF UserRequest
<1>4. refresh[c].token \in Token /\ refresh[c].expiredAt \in Int
  BY <1>1 DEF Issued
<1> QED
  BY <1>2, <1>3, <1>4 DEF NewSession, Session

\* A step adds the session of a login it answers, or none.
LEMMA SessionMoves ==
    ASSUME UserTypeOK, TokenInv, StageInv, [UserNext]_userVars
    PROVE  \/ sessions' = sessions /\ ~\E c \in Call : stage[c] = "storeSession" /\ status'[c] = 200
           \/ \E c \in Call :
                 /\ stage[c] = "storeSession" /\ stage'[c] = "replied"
                 /\ DOMAIN sessions' = DOMAIN sessions \cup {IdOf(c)}
                 /\ sessions'[IdOf(c)] = NewSession(c)
                 /\ \A id \in DOMAIN sessions \ {IdOf(c)} : sessions'[id] = sessions[id]
                 /\ sessions' \in [DOMAIN sessions' -> Session]
                 /\ \A d \in Call : stage[d] = "storeSession" /\ status'[d] = 200 => d = c
<1>1. ASSUME NEW c \in Call, StoreSession(c)
      PROVE  /\ stage[c] = "storeSession" /\ stage'[c] = "replied"
             /\ DOMAIN sessions' = DOMAIN sessions \cup {IdOf(c)}
             /\ sessions'[IdOf(c)] = NewSession(c)
             /\ \A id \in DOMAIN sessions \ {IdOf(c)} : sessions'[id] = sessions[id]
             /\ sessions' \in [DOMAIN sessions' -> Session]
             /\ \A d \in Call : stage[d] = "storeSession" /\ status'[d] = 200 => d = c
  <2>1. stage[c] = "storeSession" /\ stage'[c] = "replied"
    BY <1>1 DEF StoreSession, ReplyCommitted, Reply, UserTypeOK
  <2>2. NewSession(c) \in Session /\ NewSession(c).token.id = IdOf(c)
    BY <2>1, NewSessionIs
  <2> DEFINE row == NewSession(c)
  <2>3. sessions' = [id \in DOMAIN sessions \cup {IdOf(c)} |-> IF id = IdOf(c) THEN row ELSE sessions[id]]
    BY <1>1, <2>2 DEF StoreSession, AddSession
  <2>4. \A id \in DOMAIN sessions : sessions[id] \in Session
    BY DEF UserTypeOK
  <2>5. ASSUME NEW d \in Call, stage[d] = "storeSession", status'[d] = 200 PROVE d = c
    <3>1. d # c => Same(d)
      BY <1>1, OthersSame DEF HandlerStep
    <3>2. status[d] # 200
      BY <2>5 DEF StageInv
    <3> QED
      BY <2>5, <3>1, <3>2 DEF Same, Goes
  <2> HIDE DEF row
  <2> QED
    BY <2>1, <2>2, <2>3, <2>4, <2>5 DEF row
<1>2. ASSUME sessions' = sessions, ~\E c \in Call : StoreSession(c)
      PROVE  ~\E c \in Call : stage[c] = "storeSession" /\ status'[c] = 200
  <2> SUFFICES ASSUME NEW c \in Call, stage[c] = "storeSession", status'[c] = 200 PROVE FALSE
    OBVIOUS
  <2>1. status[c] = 0
    BY DEF StageInv, UserTypeOK
  <2>2. (\E r \in Sent : Receive(c, r)) \/ HandlerStep(c) \/ QueryFails(c)
    BY <2>1, OwnMove DEF Same, Goes
  <2> QED
    BY <1>2, <2>2 DEF HandlerStep, Receive, InsertUser, ReadProfile, ReadUser, ReadOldPassword,
       UpdatePassword, UpdateProfile, MakeAccess, MakeRefresh, ReadClock, ReadSession, QueryFails,
       Reply, UserTypeOK
<1>3. sessions' = sessions \/ \E c \in Call : StoreSession(c)
  BY DEF UserNext, HandlerStep, Receive, InsertUser, ReadProfile, ReadUser, ReadOldPassword,
         UpdatePassword, UpdateProfile, MakeAccess, MakeRefresh, ReadClock, ReadSession, QueryFails,
         Tick, AllReplied, userVars
<1>4. CASE \E c \in Call : StoreSession(c)
  <2>1. PICK c \in Call : StoreSession(c)
    BY <1>4
  <2> QED
    BY <1>1, <2>1
<1> QED
  BY <1>2, <1>3, <1>4

-----------------------------------------------------------------------------
Active(c) == stage[c] \notin {"idle", "replied"}

\* Requests in progress are about users.
LEMMA ActiveSubjects ==
    ASSUME UserTypeOK, StageInv, GateInv, NEW c \in Call, Active(c)
    PROVE  req[c] \in UserRequest /\ Subject(req[c]) \in User
<1>1. req[c] \in UserRequest /\ status[c] = 0
  BY DEF Active, UserTypeOK, StageInv
<1>2. ~Public(req[c]) => req[c].token # Garbage
  BY <1>1 DEF Active, GateInv, VerifyToken
<1> QED
  BY <1>1, <1>2, Subjects

\* What a step does to the users.
Arrived(c) ==
    /\ stage[c] = "idle" /\ users' = users
    /\ seen' = [seen EXCEPT ![c] = SeenFirst(req'[c])]

Registers(c) ==
    /\ stage[c] = "insertUser"
    /\ req[c].username \notin DOMAIN users
    /\ AddUser(req[c])
    /\ SeeAll(req[c].username, req[c].password)

Sets(c) ==
    /\ stage[c] = "updatePassword"
    /\ SetPassword(Subject(req[c]), req[c].new)
    /\ SeeAll(Subject(req[c]), req[c].new)

Profiles(c) ==
    /\ stage[c] = "updateUser" /\ seen' = seen
    /\ SetEmail(Subject(req[c]), req[c].email)

LEMMA UserMoves ==
    ASSUME UserTypeOK, [UserNext]_userVars
    PROVE  \/ UNCHANGED <<users, seen>>
           \/ \E c \in Call : Arrived(c) \/ Registers(c) \/ Sets(c) \/ Profiles(c)
<1>1. ASSUME NEW c \in Call, NEW r \in Sent, Receive(c, r) PROVE Arrived(c)
  BY <1>1 DEF Receive, Arrived, UserTypeOK
<1>2. ASSUME NEW c \in Call, InsertUser(c) PROVE UNCHANGED <<users, seen>> \/ Registers(c)
  BY <1>2 DEF InsertUser, Registers
<1>3. ASSUME NEW c \in Call, UpdatePassword(c) PROVE Sets(c)
  BY <1>3 DEF UpdatePassword, Sets
<1>4. ASSUME NEW c \in Call, UpdateProfile(c) PROVE UNCHANGED <<users, seen>> \/ Profiles(c)
  BY <1>4 DEF UpdateProfile, Profiles
<1>5. \/ UNCHANGED <<users, seen>>
      \/ \E c \in Call :
            (\E r \in Sent : Receive(c, r)) \/ InsertUser(c) \/ UpdatePassword(c) \/ UpdateProfile(c)
  BY DEF UserNext, HandlerStep, ReadProfile, ReadUser, ReadOldPassword, MakeAccess, MakeRefresh, StoreSession,
         ReadClock, ReadSession, QueryFails, Tick, AllReplied, userVars
<1> QED
  BY <1>1, <1>2, <1>3, <1>4, <1>5

\* Users stay, and rows stay rows.
LEMMA RowsMove ==
    ASSUME UserTypeOK, StageInv, [UserNext]_userVars
    PROVE  /\ DOMAIN users \subseteq DOMAIN users'
           /\ DOMAIN users' \subseteq User
           /\ users' \in [DOMAIN users' -> UserRow]
<1> USE DEF UserTypeOK
<1>1. ASSUME NEW c \in Call, Registers(c)
      PROVE  /\ DOMAIN users \subseteq DOMAIN users' /\ DOMAIN users' \subseteq User
             /\ users' \in [DOMAIN users' -> UserRow]
  <2>1. req[c] \in CreateUser /\ req[c].password \notin TooLong
    BY <1>1 DEF Registers, StageInv
  <2> QED
    BY <1>1, <2>1 DEF Registers, AddUser, CreateUser, UserRow
<1>2. ASSUME NEW u \in User, NEW p \in Password \ TooLong, SetPassword(u, p)
      PROVE  /\ DOMAIN users \subseteq DOMAIN users' /\ DOMAIN users' \subseteq User
             /\ users' \in [DOMAIN users' -> UserRow]
  <2>1. \A row \in UserRow : [row EXCEPT !.password = p] \in UserRow
    BY Zenon DEF UserRow
  <2>2. users' = [users EXCEPT ![u] = [users[u] EXCEPT !.password = p]]
    BY <1>2 DEF SetPassword
  <2>3. DOMAIN users' = DOMAIN users
    BY <2>2
  <2>4. ASSUME NEW x \in DOMAIN users PROVE users'[x] \in UserRow
    BY <2>1, <2>2
  <2> QED
    BY <2>2, <2>3, <2>4
<1>3. ASSUME NEW u, NEW e \in Email, SetEmail(u, e)
      PROVE  /\ DOMAIN users \subseteq DOMAIN users' /\ DOMAIN users' \subseteq User
             /\ users' \in [DOMAIN users' -> UserRow]
  <2>1. \A row \in UserRow : [row EXCEPT !.email = e] \in UserRow
    BY Zenon DEF UserRow
  <2>2. users' = [users EXCEPT ![u] = [users[u] EXCEPT !.email = e]]
    BY <1>3 DEF SetEmail
  <2>3. DOMAIN users' = DOMAIN users
    BY <2>2
  <2>4. ASSUME NEW x \in DOMAIN users PROVE users'[x] \in UserRow
    BY <2>1, <2>2
  <2> QED
    BY <2>2, <2>3, <2>4
<1>4. ASSUME NEW c \in Call, Sets(c)
      PROVE  Subject(req[c]) \in User /\ req[c].new \in Password \ TooLong
  BY <1>4 DEF Sets, StageInv, ChangePassword
<1>5. ASSUME NEW c \in Call, Profiles(c) PROVE req[c].email \in Email
  BY <1>5 DEF Profiles, StageInv, UpdateUser
<1> QED
  BY <1>1, <1>2, <1>3, <1>4, <1>5, UserMoves DEF Arrived, Sets, Profiles

LEMMA SetPasswordIs ==
    ASSUME UserTypeOK, NEW u \in DOMAIN users, NEW p, SetPassword(u, p)
    PROVE  /\ DOMAIN users' = DOMAIN users
           /\ users'[u].password = p
           /\ \A v \in DOMAIN users \ {u} : users'[v] = users[v]
<1>1. users' = [users EXCEPT ![u] = [users[u] EXCEPT !.password = p]]
  BY DEF SetPassword
<1>2. users[u] \in UserRow
  BY DEF UserTypeOK
<1>3. [users[u] EXCEPT !.password = p].password = p
  BY <1>2 DEF UserRow
<1> QED
  BY <1>1, <1>3

LEMMA SetEmailIs ==
    ASSUME UserTypeOK, NEW u, NEW e, SetEmail(u, e)
    PROVE  /\ DOMAIN users' = DOMAIN users
           /\ \A v \in DOMAIN users : users'[v].password = users[v].password
<1>1. users' = [users EXCEPT ![u] = [users[u] EXCEPT !.email = e]]
  BY DEF SetEmail
<1>2. \A v \in DOMAIN users : users[v] \in UserRow
  BY DEF UserTypeOK
<1>3. \A row \in UserRow : [row EXCEPT !.email = e].password = row.password
  BY DEF UserRow
<1> QED
  BY <1>1, <1>2, <1>3

\* A password changes for one user at a time.
LEMMA PasswordIs ==
    ASSUME UserTypeOK, StageInv, NEW c \in Call, NEW u \in User
    PROVE  /\ Registers(c) => PasswordOf(u)' = IF u = Subject(req[c]) THEN req[c].password ELSE PasswordOf(u)
           /\ Sets(c) => PasswordOf(u)' = IF u = Subject(req[c]) THEN req[c].new ELSE PasswordOf(u)
           /\ Profiles(c) => PasswordOf(u)' = PasswordOf(u)
           /\ users' = users => PasswordOf(u)' = PasswordOf(u)
<1>1. ASSUME Registers(c)
      PROVE  PasswordOf(u)' = IF u = Subject(req[c]) THEN req[c].password ELSE PasswordOf(u)
  <2>1. req[c] \in CreateUser
    BY <1>1 DEF Registers, StageInv
  <2>2. Subject(req[c]) = req[c].username
    BY <2>1, Kinds, Subjects DEF UserRequest
  <2>3. users' = [v \in DOMAIN users \cup {req[c].username} |->
                    IF v = req[c].username THEN [password |-> req[c].password, email |-> req[c].email] ELSE users[v]]
    BY <1>1 DEF Registers, AddUser
  <2> QED
    BY <2>2, <2>3 DEF PasswordOf
<1>2. ASSUME Sets(c)
      PROVE  PasswordOf(u)' = IF u = Subject(req[c]) THEN req[c].new ELSE PasswordOf(u)
  <2>1. Subject(req[c]) \in DOMAIN users
    BY <1>2 DEF Sets, StageInv
  <2> QED
    BY <1>2, <2>1, SetPasswordIs DEF Sets, PasswordOf
<1>3. ASSUME Profiles(c) PROVE PasswordOf(u)' = PasswordOf(u)
  BY <1>3, SetEmailIs DEF Profiles, PasswordOf
<1>4. ASSUME users' = users PROVE PasswordOf(u)' = PasswordOf(u)
  BY <1>4 DEF PasswordOf
<1> QED
  BY <1>1, <1>2, <1>3, <1>4

LEMMA PasswordMoves ==
    ASSUME UserTypeOK, StageInv, [UserNext]_userVars, NEW u \in User
    PROVE  \/ PasswordOf(u)' = PasswordOf(u)
           \/ \E c \in Call : u = Subject(req[c]) /\ Registers(c) /\ PasswordOf(u)' = req[c].password
           \/ \E c \in Call : u = Subject(req[c]) /\ Sets(c) /\ PasswordOf(u)' = req[c].new
<1>1. users' = users => PasswordOf(u)' = PasswordOf(u)
  BY DEF PasswordOf
<1> QED
  BY <1>1, PasswordIs, UserMoves DEF Arrived

LEMMA PasswordType ==
    ASSUME UserTypeOK, NEW u
    PROVE  PasswordOf(u) \in (Password \ TooLong) \cup {NoPassword}
<1>1. \A v \in DOMAIN users : users[v] \in UserRow
  BY DEF UserTypeOK
<1> QED
  BY <1>1 DEF PasswordOf, UserRow

LEMMA SeenMoves ==
    ASSUME UserTypeOK, StageInv, GateInv, [UserNext]_userVars
    PROVE  /\ seen' \in [Call -> SUBSET (Password \cup {NoPassword})]
           /\ \A d \in Call : stage[d] # "idle" => seen[d] \subseteq seen'[d]
           /\ \A c, d \in Call : Active(d) /\ Subject(req[d]) = Subject(req[c]) =>
                 /\ Registers(c) => req[c].password \in seen'[d]
                 /\ Sets(c) => req[c].new \in seen'[d]
<1> DEFINE Grown ==
             /\ seen' \in [Call -> SUBSET (Password \cup {NoPassword})]
             /\ \A d \in Call : stage[d] # "idle" => seen[d] \subseteq seen'[d]
<1>0. seen \in [Call -> SUBSET (Password \cup {NoPassword})]
  BY DEF UserTypeOK
<1>1. ASSUME NEW c \in Call, Registers(c)
      PROVE  req[c].password \in Password /\ SeeAll(Subject(req[c]), req[c].password)
  <2>1. req[c] \in CreateUser
    BY <1>1 DEF Registers, StageInv
  <2>2. Subject(req[c]) = req[c].username
    BY <2>1, Kinds, Subjects DEF UserRequest
  <2> QED
    BY <1>1, <2>1, <2>2 DEF Registers, CreateUser
<1>2. ASSUME NEW c \in Call, Sets(c)
      PROVE  req[c].new \in Password /\ SeeAll(Subject(req[c]), req[c].new)
  BY <1>2 DEF Sets, StageInv, ChangePassword
<1>3. ASSUME NEW u, NEW p \in Password, SeeAll(u, p)
      PROVE  Grown /\ \A d \in Call : Active(d) /\ Subject(req[d]) = u => p \in seen'[d]
  BY <1>0, <1>3 DEF SeeAll, Active
<1>4. ASSUME NEW c \in Call, Arrived(c) PROVE Grown
  <2>1. SeenFirst(req'[c]) \in SUBSET (Password \cup {NoPassword})
    BY PasswordType DEF SeenFirst
  <2> QED
    BY <1>0, <1>4, <2>1 DEF Arrived
<1>5. ASSUME seen' = seen PROVE Grown
  BY <1>0, <1>5
<1>6. Grown
  BY <1>1, <1>2, <1>3, <1>4, <1>5, UserMoves DEF Profiles
<1> HIDE DEF Grown
<1>7. \A c, d \in Call : Active(d) /\ Subject(req[d]) = Subject(req[c]) =>
         /\ Registers(c) => req[c].password \in seen'[d]
         /\ Sets(c) => req[c].new \in seen'[d]
  BY <1>1, <1>2, <1>3
<1> QED
  BY <1>6, <1>7 DEF Grown

\* So the password in force stays one that every request about it has seen.
LEMMA SeenInForce ==
    ASSUME UserTypeOK, StageInv, GateInv, [UserNext]_userVars,
           NEW d \in Call, Active(d), NEW u \in User, u = Subject(req[d]), PasswordOf(u) \in seen[d]
    PROVE  PasswordOf(u)' \in seen'[d]
<1>1. seen[d] \subseteq seen'[d]
  BY SeenMoves DEF Active
<1> QED
  BY <1>1, PasswordMoves, SeenMoves

\* A request that arrives sees the password in force.
LEMMA ArrivalSees ==
    ASSUME UserTypeOK, [UserNext]_userVars, NEW d \in Call, Arrives(d), stage'[d] # "idle"
    PROVE  users' = users /\ seen'[d] = SeenFirst(req'[d])
<1>1. \E r \in Sent : Receive(d, r)
  <2>1. stage[d] = "idle" /\ ~Same(d)
    BY DEF Arrives, Same, Goes
  <2> QED
    BY <2>1, OwnMove DEF HandlerStep, InsertUser, ReadProfile, ReadUser, ReadOldPassword, UpdatePassword,
       UpdateProfile, MakeAccess, MakeRefresh, StoreSession, ReadClock, ReadSession, QueryFails, WriteStage
<1> QED
  BY <1>1 DEF Receive, UserTypeOK

\* A change of a password that is answered 200 was made.
LEMMA ChangeIsSet ==
    ASSUME UserTypeOK, StageInv, [UserNext]_userVars,
           NEW c \in Call, stage[c] = "updatePassword", status'[c] = 200
    PROVE  Sets(c)
<1>1. status[c] = 0
  BY DEF StageInv, UserTypeOK
<1>2. (\E r \in Sent : Receive(c, r)) \/ HandlerStep(c) \/ QueryFails(c)
  BY <1>1, OwnMove DEF Same, Goes
<1>3. UpdatePassword(c)
  BY <1>1, <1>2 DEF HandlerStep, Receive, InsertUser, ReadProfile, ReadUser, ReadOldPassword,
     UpdateProfile, MakeAccess, MakeRefresh, StoreSession, ReadClock, ReadSession, QueryFails,
     Reply, UserTypeOK
<1> QED
  BY <1>3 DEF UpdatePassword, Sets

-----------------------------------------------------------------------------
\* How a request starts: the first check that fails, or the first query.
LEMMA Refusals ==
    ASSUME NEW r \in UserRequest
    PROVE  /\ Refusal(r) \in {0, 400, 401, 403, 500, 501}
           /\ Refusal(r) = 401 <=> ~Authorized(r)
           /\ Refusal(r) = 400 <=> Authorized(r) /\ ~Binds(r)
           /\ Public(r) => Authorized(r)
           /\ r.kind = "login" => Refusal(r) \in {0, 400}
           /\ Refusal(r) = 0 => r.kind # "logout" /\ (r.kind = "createUser" => r.password \notin TooLong)
BY DEF Refusal, Authorized, Public

LEMMA FirstQueries ==
    ASSUME NEW r \in UserRequest, Refusal(r) = 0
    PROVE  \/ FirstQuery(r) = "insertUser" /\ r \in CreateUser /\ r.password \notin TooLong
           \/ FirstQuery(r) = "updateUser" /\ r \in UpdateUser
           \/ FirstQuery(r) = "readClock" /\ r \in RefreshToken
           \/ FirstQuery(r) = "readUser" /\ r \in LoginUser \cup GetUser \cup ChangePassword
<1>1. r.kind # "logout" /\ (r.kind = "createUser" => r.password \notin TooLong)
  BY Refusals
<1>2. CASE r \in CreateUser
  BY <1>1, <1>2, Kinds DEF FirstQuery
<1>3. CASE r \in UpdateUser
  BY <1>3, Kinds DEF FirstQuery
<1>4. CASE r \in RefreshToken
  BY <1>4, Kinds DEF FirstQuery
<1>5. CASE r \in LoginUser \cup GetUser \cup ChangePassword
  <2>1. r.kind \in {"login", "getUser", "changePassword"}
    BY <1>5, Kinds
  <2> QED
    BY <1>5, <2>1 DEF FirstQuery
<1>6. r \notin LogoutUser
  BY <1>1, Kinds
<1> QED
  BY <1>2, <1>3, <1>4, <1>5, <1>6 DEF UserRequest

\* The steps that follow are those of this state and the next.
LEMMA Arrival ==
    ASSUME UserTypeOK, TokenInv, NEW c \in Call, Arrives(c)
    PROVE  /\ stage[c] = "idle"
           /\ req'[c] \in UserRequest /\ since'[c] = now /\ KeepsLocals(c)
           /\ ~Public(req'[c]) => req'[c].token \in Given \cup {Garbage}
           /\ \/ Refusal(req'[c]) = 0 /\ Goes(c, FirstQuery(req'[c]))
              \/ Refusal(req'[c]) # 0 /\ Ends(c, Refusal(req'[c]))
BY SentIs DEF Arrives

LEMMA StageStep == ASSUME UserTypeOK, TokenInv, StageInv, [UserNext]_userVars PROVE StageInv'
<1> DEFINE Staged(c) ==
        LET r == req[c] IN
        /\ r = NoRequest => stage[c] = "idle"
        /\ status[c] # 0 => stage[c] = "replied"
        /\ stage[c] = "insertUser" => r \in CreateUser /\ r.password \notin TooLong
        /\ stage[c] = "readUser" => r \in LoginUser \cup GetUser \cup ChangePassword
        /\ stage[c] = "updatePassword" =>
              r \in ChangePassword /\ r.new \notin TooLong /\ Subject(r) \in DOMAIN users
        /\ stage[c] = "updateUser" => r \in UpdateUser
        /\ stage[c] = "makeAccess" => r \in LoginUser \cup RefreshToken
        /\ stage[c] \in {"makeRefresh", "storeSession"} => r \in LoginUser
        /\ stage[c] \in {"readClock", "readSession"} => r \in RefreshToken
<1> SUFFICES ASSUME NEW c \in Call PROVE Staged(c)'
  BY DEF StageInv
<1>1. Staged(c) /\ stage[c] \in UserStage /\ req[c] \in UserRequest \cup {NoRequest}
  BY DEF StageInv, UserTypeOK
<1>2. DOMAIN users \subseteq DOMAIN users'
  BY RowsMove
<1>3. CASE Same(c)
  BY <1>1, <1>2, <1>3 DEF Same, Keeps, Goes
<1>4. CASE Arrives(c)
  <2>1. req'[c] \in UserRequest /\ req'[c] # NoRequest /\ status[c] = 0
    BY <1>1, <1>4, Arrival, Kinds
  <2>2. CASE Refusal(req'[c]) = 0 /\ Goes(c, FirstQuery(req'[c]))
    BY <2>1, <2>2, FirstQueries DEF Goes
  <2>3. CASE Refusal(req'[c]) # 0 /\ Ends(c, Refusal(req'[c]))
    BY <2>1, <2>3 DEF Ends
  <2> QED
    BY <1>4, <2>2, <2>3, Arrival
<1>5. CASE Reads(c)
  <2>1. stage[c] = "readUser" => (req[c].kind = "login" <=> req[c] \in LoginUser)
                                 /\ (req[c].kind = "changePassword" <=> req[c] \in ChangePassword)
    BY <1>1, Kinds
  <2> QED
    BY <1>1, <1>2, <1>5, <2>1 DEF Reads, Keeps, Ends, Goes, Known
<1>6. CASE Writes(c)
  BY <1>1, <1>6 DEF Writes, Keeps, Ends
<1>7. CASE Fails(c)
  BY <1>1, <1>7 DEF Fails, WriteStage, Keeps, Ends
<1>8. CASE Makes(c)
  <2>1. stage[c] = "makeAccess" => (req[c].kind = "login" <=> req[c] \in LoginUser)
    BY <1>1, Kinds
  <2> QED
    BY <1>1, <1>8, <2>1 DEF Makes, Keeps, Ends, Goes
<1> QED
  BY <1>3, <1>4, <1>5, <1>6, <1>7, <1>8, Moves DEF Moved

LEMMA UserTypeStep == ASSUME HandlerInv, [UserNext]_userVars PROVE UserTypeOK'
<1> USE DEF HandlerInv
<1>1. ASSUME NEW c \in Call
      PROVE  /\ stage'[c] \in UserStage
             /\ req'[c] \in UserRequest \cup {NoRequest}
             /\ status'[c] \in UserStatus
             /\ since'[c] \in 0 .. MaxTime
             /\ clock'[c] \in 0 .. MaxTime
  <2>1. /\ stage[c] \in UserStage /\ req[c] \in UserRequest \cup {NoRequest} /\ status[c] \in UserStatus
        /\ since[c] \in 0 .. MaxTime /\ clock[c] \in 0 .. MaxTime /\ now \in 0 .. MaxTime
    BY DEF UserTypeOK
  <2>2. CASE Arrives(c)
    <3>1. req'[c] \in UserRequest /\ since'[c] = now /\ clock'[c] = clock[c]
      BY <2>2, Arrival DEF KeepsLocals
    <3>2. Refusal(req'[c]) \in UserStatus
      BY <3>1, Refusals DEF UserStatus
    <3>3. Refusal(req'[c]) = 0 => FirstQuery(req'[c]) \in UserStage
      BY <3>1, FirstQueries DEF UserStage
    <3>4. stage'[c] \in UserStage /\ status'[c] \in UserStatus
      BY <2>1, <2>2, <3>2, <3>3, Arrival DEF Goes, Ends, UserStage
    <3> QED
      BY <2>1, <3>1, <3>4
  <2>3. CASE Same(c)
    BY <2>1, <2>3 DEF Same, Keeps, KeepsLocals, Goes
  <2>4. CASE Reads(c) \/ Writes(c) \/ Fails(c)
    BY <2>1, <2>4 DEF Reads, Writes, Fails, Keeps, KeepsLocals, Goes, Ends, UserStage, UserStatus
  <2>5. CASE Makes(c)
    BY <2>1, <2>5 DEF Makes, Keeps, Goes, Ends, UserStage, UserStatus
  <2> QED
    BY <2>2, <2>3, <2>4, <2>5, Moves DEF Moved
<1>2. ASSUME NEW c \in Call
      PROVE  access'[c] \in Issued \cup {None} /\ refresh'[c] \in Issued \cup {None}
  <2>1. access[c] \in Issued \cup {None} /\ refresh[c] \in Issued \cup {None} /\ now \in Int
    BY DEF UserTypeOK
  <2>2. CASE stage[c] \in {"makeAccess", "makeRefresh"}
    <3>1. Subject(req[c]) \in User
      BY <2>2, ActiveSubjects DEF Active
    <3>2. /\ CreateToken([by |-> c, use |-> "access"], Subject(req[c]), AccessTokenDuration, now) \in Issued
          /\ CreateToken([by |-> c, use |-> "refresh"], Subject(req[c]), RefreshTokenDuration, now) \in Issued
      BY <2>1, <3>1, Created, Makers
    <3> QED
      BY <2>1, <2>2, <3>2, Moves DEF Moved, Same, Arrives, Reads, Writes, Fails, Makes, KeepsLocals
  <2>3. CASE stage[c] \notin {"makeAccess", "makeRefresh"}
    BY <2>1, <2>3, Moves DEF Moved, Same, Arrives, Reads, Writes, Fails, Makes, KeepsLocals
  <2> QED
    BY <2>2, <2>3
<1>3. /\ stage' \in [Call -> UserStage]
      /\ req' \in [Call -> UserRequest \cup {NoRequest}]
      /\ status' \in [Call -> UserStatus]
      /\ since' \in [Call -> 0 .. MaxTime]
      /\ clock' \in [Call -> 0 .. MaxTime]
      /\ access' \in [Call -> Issued \cup {None}]
      /\ refresh' \in [Call -> Issued \cup {None}]
  BY <1>1, <1>2, MovesFunctions DEF Functions
<1>4. DOMAIN sessions' \subseteq TokenId /\ sessions' \in [DOMAIN sessions' -> Session]
  <2>1. DOMAIN sessions \subseteq TokenId /\ sessions \in [DOMAIN sessions -> Session]
    BY DEF UserTypeOK
  <2>2. \A c \in Call : IdOf(c) \in TokenId
    BY Makers DEF IdOf
  <2> QED
    BY <2>1, <2>2, SessionMoves
<1> QED
  BY <1>3, <1>4, RowsMove, TimeMoves, FaultMoves, SeenMoves DEF UserTypeOK

-----------------------------------------------------------------------------
\* What a request has made, been answered or been given stays.
LEMMA RepliedStays ==
    ASSUME UserTypeOK, [UserNext]_userVars, NEW c \in Call, stage[c] = "replied"
    PROVE  Same(c)
BY Moves DEF Moved, Arrives, Reads, Writes, Fails, Makes, WriteStage

LEMMA GivenStays ==
    ASSUME UserTypeOK, StageInv, [UserNext]_userVars, NEW t \in Given
    PROVE  t \in Given'
<1>1. \A c \in Call : status[c] = 200 =>
         status'[c] = 200 /\ access'[c] = access[c] /\ refresh'[c] = refresh[c]
  BY RepliedStays DEF StageInv, Same, KeepsLocals, Goes
<1>2. CASE \E c \in Call : status[c] = 200 /\ access[c] # None /\ t = access[c].token
  BY <1>1, <1>2 DEF Given
<1>3. CASE \E c \in Call : status[c] = 200 /\ refresh[c] # None /\ t = refresh[c].token
  BY <1>1, <1>3 DEF Given
<1> QED
  BY <1>2, <1>3 DEF Given

LEMMA SessionsStay ==
    ASSUME UserTypeOK, StageInv, TokenInv, SessionInv, [UserNext]_userVars, NEW id \in DOMAIN sessions
    PROVE  id \in DOMAIN sessions' /\ sessions'[id] = sessions[id]
<1>1. ASSUME NEW c \in Call, stage[c] = "storeSession" PROVE id # IdOf(c)
  BY <1>1 DEF SessionInv, IdOf
<1> QED
  BY <1>1, SessionMoves

LEMMA GateStep == ASSUME HandlerInv, [UserNext]_userVars PROVE GateInv'
<1> USE DEF HandlerInv
<1> DEFINE Gate(c) ==
        LET r == req[c]
            accepted == VerifyToken(r.token, since[c])
        IN
        /\ since[c] <= now
        /\ stage[c] # "idle" /\ Public(r) => (status[c] = 400 <=> ~Binds(r))
        /\ stage[c] # "idle" /\ ~Public(r) =>
              /\ r.token # Garbage => r.token \in Given
              /\ status[c] # 401 => accepted
              /\ r.kind \in {"getUser", "updateUser", "logout"} /\ status[c] = 401 => ~accepted
<1> SUFFICES ASSUME NEW c \in Call PROVE Gate(c)'
  BY DEF GateInv
<1>1. Gate(c) /\ (status[c] # 0 => stage[c] = "replied") /\ (req[c] = NoRequest => stage[c] = "idle")
  BY DEF GateInv, StageInv
<1>2. /\ now \in Int /\ now' \in Int /\ since[c] \in Int /\ now <= now'
      /\ req[c] \in UserRequest \cup {NoRequest}
  BY TimeMoves DEF UserTypeOK
<1>3. \A t \in Given : t \in Given'
  BY GivenStays
<1>4. CASE Arrives(c)
  <2>1. /\ stage[c] = "idle" /\ req'[c] \in UserRequest /\ since'[c] = now
        /\ ~Public(req'[c]) => req'[c].token \in Given \cup {Garbage}
    BY <1>4, Arrival
  <2>2. status'[c] = Refusal(req'[c])
    BY <1>1, <1>4, <2>1, Arrival DEF Goes, Ends
  <2>3. ~Public(req'[c]) => (Authorized(req'[c]) <=> VerifyToken(req'[c].token, now))
    BY DEF Authorized
  <2> QED
    BY <1>2, <1>3, <2>1, <2>2, <2>3, Refusals
<1>5. CASE Same(c)
  BY <1>1, <1>2, <1>3, <1>5 DEF Same, Keeps, Goes
<1>6. ASSUME Keeps(c), Active(c), status'[c] # 400,
             status'[c] = 401 => req[c].kind \in {"login", "changePassword", "refresh"}
      PROVE  Gate(c)'
  BY <1>1, <1>2, <1>3, <1>6 DEF Keeps, Active
<1>7. CASE Reads(c)
  <2>1. stage[c] = "readSession" => req[c].kind = "refresh"
    BY <1>2, Kinds DEF StageInv, UserRequest
  <2>2. status[c] = 0
    BY <1>1, <1>7 DEF Reads
  <2> QED
    BY <1>6, <1>7, <2>1, <2>2 DEF Reads, Active, Ends, Goes
<1>8. CASE Writes(c) \/ Fails(c)
  BY <1>6, <1>8 DEF Writes, Fails, WriteStage, Active, Ends
<1>9. CASE Makes(c)
  <2>1. status[c] = 0
    BY <1>1, <1>9 DEF Makes
  <2> QED
    BY <1>6, <1>9, <2>1 DEF Makes, Active, Ends, Goes
<1> QED
  BY <1>4, <1>5, <1>7, <1>8, <1>9, Moves DEF Moved

LEMMA TokenStep == ASSUME HandlerInv, [UserNext]_userVars PROVE TokenInv'
<1> USE DEF HandlerInv
<1> DEFINE Made(c, use, m) ==
        m.token = [id |-> [by |-> c, use |-> use], username |-> Subject(req[c]), exp |-> NumericDate(m.expiredAt)]
           Tokened(c) ==
        /\ access[c] # None =>
              /\ stage[c] \in {"makeRefresh", "storeSession", "replied"}
              /\ req[c] \in LoginUser \cup RefreshToken
              /\ Made(c, "access", access[c])
        /\ refresh[c] # None =>
              /\ stage[c] \in {"storeSession", "replied"}
              /\ req[c] \in LoginUser
              /\ Made(c, "refresh", refresh[c])
        /\ stage[c] = "storeSession" => refresh[c] # None
<1>1. (\A c \in Call : Tokened(c)') => TokenInv'
  BY DEF TokenInv, IsIssued, MadeBy
<1> SUFFICES ASSUME NEW c \in Call PROVE Tokened(c)'
  BY <1>1
<1>2. Tokened(c)
  <2>1. access[c] # None => Made(c, "access", access[c])
    BY IssuedAre
  <2>2. refresh[c] # None => Made(c, "refresh", refresh[c])
    BY IssuedAre
  <2> HIDE DEF Made
  <2> QED
    BY <2>1, <2>2 DEF TokenInv
<1>4. CASE Same(c)
  BY <1>2, <1>4 DEF Same, Keeps, KeepsLocals, Goes
<1>5. CASE Arrives(c)
  <2>1. access'[c] = None /\ refresh'[c] = None /\ req'[c] \in UserRequest
    BY <1>2, <1>5, Arrival DEF KeepsLocals
  <2>2. stage'[c] # "storeSession"
    BY <1>5, <2>1, Arrival, FirstQueries DEF Goes, Ends
  <2> QED
    BY <2>1, <2>2
<1>6. CASE Reads(c) \/ Writes(c) \/ Fails(c)
  BY <1>2, <1>6 DEF Reads, Writes, Fails, WriteStage, Keeps, KeepsLocals, Goes, Ends
<1>7. CASE Makes(c)
  <2>1. stage[c] \in {"makeAccess", "makeRefresh"} => Subject(req[c]) \in User /\ now \in Int
    BY ActiveSubjects DEF Active, UserTypeOK
  <2>2. CASE stage[c] = "makeAccess"
    <3> DEFINE m == CreateToken([by |-> c, use |-> "access"], Subject(req[c]), AccessTokenDuration, now)
    <3>1. m # None /\ Made(c, "access", m)
      <4>1. [by |-> c, use |-> "access"] \in TokenId /\ AccessTokenDuration \in Int
        BY Makers
      <4>2. /\ m # None
            /\ m.token = [id |-> [by |-> c, use |-> "access"], username |-> Subject(req[c]),
                          exp |-> NumericDate(m.expiredAt)]
        BY <2>1, <2>2, <4>1, Created
      <4> QED
        BY <4>2
    <3>2. access'[c] = m /\ refresh'[c] = refresh[c] /\ req'[c] = req[c] /\ stage'[c] \in {"makeRefresh", "replied"}
      BY <1>7, <2>2 DEF Makes, Keeps, Goes, Ends
    <3>3. req[c] \in LoginUser \cup RefreshToken /\ refresh[c] = None
      BY <1>2, <2>2 DEF StageInv
    <3> HIDE DEF m
    <3> QED
      BY <3>1, <3>2, <3>3
  <2>3. CASE stage[c] = "makeRefresh"
    <3> DEFINE m == CreateToken([by |-> c, use |-> "refresh"], Subject(req[c]), RefreshTokenDuration, now)
    <3>1. m # None /\ Made(c, "refresh", m)
      <4>1. [by |-> c, use |-> "refresh"] \in TokenId /\ RefreshTokenDuration \in Int
        BY Makers
      <4>2. /\ m # None
            /\ m.token = [id |-> [by |-> c, use |-> "refresh"], username |-> Subject(req[c]),
                          exp |-> NumericDate(m.expiredAt)]
        BY <2>1, <2>3, <4>1, Created
      <4> QED
        BY <4>2
    <3>2. refresh'[c] = m /\ access'[c] = access[c] /\ req'[c] = req[c] /\ stage'[c] = "storeSession"
      BY <1>7, <2>3 DEF Makes, Keeps, Goes, Ends
    <3>3. req[c] \in LoginUser
      BY <2>3 DEF StageInv
    <3> HIDE DEF m
    <3> QED
      BY <1>2, <3>1, <3>2, <3>3
  <2>4. CASE stage[c] = "readClock"
    BY <1>2, <1>7, <2>4 DEF Makes, Keeps, Goes
  <2> QED
    BY <1>7, <2>2, <2>3, <2>4 DEF Makes
<1> QED
  BY <1>4, <1>5, <1>6, <1>7, Moves DEF Moved

\* Where a handler goes from where.
Onward(c) ==
    \/ stage'[c] = "replied" /\ status'[c] = 500
    \/ stage'[c] = "replied" /\ status'[c] = 409 /\ stage[c] \in {"insertUser", "updateUser"}
    \/ /\ stage'[c] = "replied" /\ status'[c] = 404 /\ stage[c] = "readUser"
       /\ req[c].kind = "getUser" \/ ~Known(c)
    \/ /\ stage'[c] = "replied" /\ status'[c] = 401
       /\ \/ stage[c] = "readUser" /\ req[c].kind \in {"login", "changePassword"} /\ Known(c) /\ ~Right(c)
          \/ stage[c] = "readSession" /\ ~Open(c)
    \/ /\ stage'[c] = "replied" /\ status'[c] = 200
       /\ \/ stage[c] = "readUser" /\ req[c].kind = "getUser"
          \/ stage[c] \in WriteStage
          \/ stage[c] = "makeAccess" /\ req[c].kind = "refresh"
    \/ /\ status'[c] = status[c]
       /\ \/ /\ stage[c] = "readUser" /\ Known(c) /\ Right(c)
             /\ \/ req[c].kind = "login" /\ stage'[c] = "makeAccess"
                \/ req[c].kind = "changePassword" /\ stage'[c] = "updatePassword"
          \/ stage[c] = "readSession" /\ Open(c) /\ stage'[c] = "makeAccess"
          \/ stage[c] = "makeAccess" /\ req[c].kind = "login" /\ stage'[c] = "makeRefresh"
          \/ stage[c] = "makeRefresh" /\ stage'[c] = "storeSession"
          \/ stage[c] = "readClock" /\ clock'[c] = now /\ stage'[c] = "readSession"

LEMMA Onwards ==
    ASSUME UserTypeOK, [UserNext]_userVars, NEW c \in Call, ~Same(c), ~Arrives(c)
    PROVE  Keeps(c) /\ Active(c) /\ Onward(c)
<1>1. CASE Reads(c)
  BY <1>1 DEF Reads, Ends, Goes, Onward, Active
<1>2. CASE Writes(c) \/ Fails(c)
  BY <1>2 DEF Writes, Fails, Ends, Onward, Active, WriteStage
<1>3. CASE Makes(c)
  BY <1>3 DEF Makes, Ends, Goes, Onward, Active
<1> QED
  BY <1>1, <1>2, <1>3, Moves DEF Moved

\* An arrival leads no further than the first query.
LEMMA ArrivalOnly ==
    ASSUME UserTypeOK, TokenInv, StageInv, NEW c \in Call, Arrives(c)
    PROVE  /\ stage'[c] \in {"insertUser", "updateUser", "readClock", "readUser", "replied"}
           /\ status'[c] # 200
<1>1. req'[c] \in UserRequest /\ status[c] = 0
  BY Arrival DEF StageInv
<1> QED
  BY <1>1, Arrival, Refusals, FirstQueries DEF Goes, Ends

\* What SessionInv says of a request.
LEMMA Sessions ==
    ASSUME SessionInv, NEW c \in Call
    PROVE  /\ refresh[c] # None /\ status[c] = 200 => IdOf(c) \in DOMAIN sessions
           /\ stage[c] = "readSession" => since[c] <= clock[c] /\ clock[c] <= now
           /\ req[c].kind = "refresh" /\ (stage[c] = "makeAccess" \/ status[c] = 200) =>
                 /\ req[c].token.id \in DOMAIN sessions
                 /\ since[c] < sessions[req[c].token.id].expires
BY Zenon DEF SessionInv, IdOf

LEMMA SessionStep == ASSUME HandlerInv, [UserNext]_userVars PROVE SessionInv'
<1> USE DEF HandlerInv
<1>1. ASSUME NEW id \in DOMAIN sessions'
      PROVE  /\ id.use = "refresh" /\ stage'[id.by] = "replied" /\ refresh'[id.by] # None
             /\ sessions'[id] = [username |-> Subject(req'[id.by]), token |-> refresh'[id.by].token,
                                 expires |-> refresh'[id.by].expiredAt]
  <2>1. CASE id \in DOMAIN sessions
    <3>1. /\ id.use = "refresh" /\ stage[id.by] = "replied" /\ refresh[id.by] # None
          /\ sessions[id] = NewSession(id.by) /\ id.by \in Call
      BY <2>1 DEF SessionInv, UserTypeOK, TokenId
    <3>2. Same(id.by)
      BY <3>1, RepliedStays
    <3>3. sessions'[id] = sessions[id]
      BY <2>1, SessionsStay
    <3> QED
      BY <3>1, <3>2, <3>3 DEF Same, Keeps, KeepsLocals, Goes, NewSession
  <2>2. CASE id \notin DOMAIN sessions
    <3>1. PICK c \in Call : /\ stage[c] = "storeSession" /\ stage'[c] = "replied"
                            /\ id = IdOf(c) /\ sessions'[id] = NewSession(c)
      BY <2>2, SessionMoves
    <3>2. id.by = c /\ id.use = "refresh"
      BY <3>1 DEF IdOf
    <3>3. refresh[c] # None
      BY <3>1 DEF TokenInv
    <3>4. req'[c] = req[c] /\ refresh'[c] = refresh[c]
      BY <3>1, Moves DEF Moved, Same, Arrives, Reads, Writes, Fails, Makes, Keeps, KeepsLocals
    <3> QED
      BY <3>1, <3>2, <3>3, <3>4 DEF NewSession
  <2> QED
    BY <2>1, <2>2
<1>2. ASSUME NEW c \in Call, refresh'[c] # None, status'[c] = 200
      PROVE  IdOf(c) \in DOMAIN sessions'
  <2>1. CASE stage[c] = "replied"
    <3>1. refresh[c] # None /\ status[c] = 200
      BY <1>2, <2>1, RepliedStays DEF Same, KeepsLocals, Goes
    <3>2. IdOf(c) \in DOMAIN sessions
      BY <3>1 DEF SessionInv, IdOf
    <3> QED
      BY <3>2, SessionsStay
  <2>2. CASE stage[c] = "storeSession"
    <3>1. ~(sessions' = sessions /\ ~\E d \in Call : stage[d] = "storeSession" /\ status'[d] = 200)
      BY <1>2, <2>2
    <3>2. PICK d \in Call :
             /\ DOMAIN sessions' = DOMAIN sessions \cup {IdOf(d)}
             /\ \A e \in Call : stage[e] = "storeSession" /\ status'[e] = 200 => e = d
      BY <3>1, SessionMoves, Zenon
    <3>3. c = d
      BY <1>2, <2>2, <3>2
    <3> QED
      BY <3>2, <3>3
  <2>3. CASE stage[c] \notin {"replied", "storeSession"}
    <3>1. refresh[c] = None /\ status[c] = 0
      BY <2>3 DEF TokenInv, StageInv
    <3>2. stage[c] # "makeRefresh"
      BY <1>2, <3>1, Onwards, ArrivalOnly DEF Onward, Same, Goes, WriteStage
    <3>3. refresh'[c] = refresh[c]
      BY <3>2, Moves DEF Moved, Same, Arrives, Reads, Writes, Fails, Makes, KeepsLocals
    <3> QED
      BY <1>2, <3>1, <3>3
  <2> QED
    BY <2>1, <2>2, <2>3
<1>3. ASSUME NEW c \in Call, stage'[c] = "readSession"
      PROVE  since'[c] <= clock'[c] /\ clock'[c] <= now'
  <2>1. /\ now \in Int /\ now' \in Int /\ since[c] \in Int /\ clock[c] \in Int
        /\ now <= now' /\ since[c] <= now
    BY TimeMoves DEF UserTypeOK, GateInv
  <2>2. CASE Same(c)
    <3>1. stage[c] = "readSession" /\ since'[c] = since[c] /\ clock'[c] = clock[c]
      BY <1>3, <2>2 DEF Same, Keeps, KeepsLocals, Goes
    <3> QED
      BY <2>1, <3>1, Sessions
  <2>3. CASE ~Same(c)
    <3>1. ~Arrives(c)
      BY <1>3, ArrivalOnly
    <3>2. clock'[c] = now /\ since'[c] = since[c]
      BY <1>3, <2>3, <3>1, Onwards DEF Onward, Keeps
    <3> QED
      BY <2>1, <3>2
  <2> QED
    BY <2>2, <2>3
<1>4. ASSUME NEW c \in Call, req'[c].kind = "refresh", stage'[c] = "makeAccess" \/ status'[c] = 200
      PROVE  /\ req'[c].token.id \in DOMAIN sessions'
             /\ since'[c] < sessions'[req'[c].token.id].expires
  <2> DEFINE id == req[c].token.id
  <2>1. ~Arrives(c)
    BY <1>4, ArrivalOnly
  <2>2. req'[c] = req[c] /\ since'[c] = since[c]
    BY <2>1, Onwards DEF Same, Keeps
  <2>3. req[c] \in RefreshToken
    BY <1>4, <2>2, Kinds DEF UserTypeOK
  <2>4. CASE stage[c] = "makeAccess" \/ status[c] = 200
    <3>1. id \in DOMAIN sessions /\ since[c] < sessions[id].expires
      BY <1>4, <2>2, <2>4, Sessions
    <3> HIDE DEF id
    <3>2. id \in DOMAIN sessions' /\ sessions'[id] = sessions[id]
      BY <3>1, SessionsStay
    <3> QED
      BY <2>2, <3>1, <3>2 DEF id
  <2>5. CASE stage[c] # "makeAccess" /\ status[c] # 200
    <3>1. stage[c] = "readSession" /\ Open(c)
      <4>1. req[c].kind = "refresh"
        BY <2>3 DEF RefreshToken
      <4>2. stage[c] \notin WriteStage
        <5>1. req[c] \notin CreateUser \cup ChangePassword \cup UpdateUser \cup LoginUser
          BY <2>3 DEF RefreshToken, CreateUser, ChangePassword, UpdateUser, LoginUser
        <5> QED
          BY <5>1 DEF StageInv, WriteStage
      <4>3. ~Same(c)
        BY <1>4, <2>5 DEF Same, Goes
      <4>4. Onward(c)
        BY <2>1, <4>3, Onwards
      <4> QED
        BY <1>4, <2>5, <4>1, <4>2, <4>4 DEF Onward
    <3>2. id \in DOMAIN sessions /\ clock[c] < sessions[id].expires
      <4> DEFINE row == SessionOf(id)
      <4>1. row # None /\ clock[c] < row.expires
        BY <3>1 DEF Open, Usable
      <4> HIDE DEF id
      <4> QED
        BY <4>1 DEF SessionOf
    <3>3. since[c] <= clock[c] /\ since[c] \in Int /\ clock[c] \in Int
      BY <3>1, Sessions DEF UserTypeOK
    <3> HIDE DEF id
    <3>4. sessions[id].expires \in Int
      <4>1. sessions[id] \in Session
        BY <3>2 DEF UserTypeOK
      <4> QED
        BY <4>1 DEF Session
    <3>5. id \in DOMAIN sessions' /\ sessions'[id] = sessions[id]
      BY <3>2, SessionsStay
    <3> QED
      BY <2>2, <3>2, <3>3, <3>4, <3>5 DEF id
  <2> QED
    BY <2>4, <2>5
<1> QED
  BY <1>1, <1>2, <1>3, <1>4 DEF SessionInv, NewSession, IdOf

LEMMA SeenStep == ASSUME HandlerInv, [UserNext]_userVars PROVE SeenInv'
<1> USE DEF HandlerInv
<1>1. ASSUME NEW c \in Call, stage'[c] \notin {"idle", "replied"}
      PROVE  PasswordOf(Subject(req[c]))' \in seen'[c]
  <2>1. CASE Arrives(c)
    <3>1. users' = users /\ seen'[c] = SeenFirst(req'[c])
      BY <1>1, <2>1, ArrivalSees
    <3>2. req'[c] \in UserRequest /\ Refusal(req'[c]) # 401
      BY <1>1, <2>1, Arrival DEF Ends
    <3>3. ~(~Public(req'[c]) /\ req'[c].token = Garbage)
      BY <3>2, Refusals DEF Authorized, VerifyToken
    <3> QED
      BY <3>1, <3>3 DEF SeenFirst, PasswordOf
  <2>2. CASE ~Arrives(c)
    <3>1. Active(c) /\ req'[c] = req[c]
      BY <1>1, <2>2, Moves DEF Moved, Same, Reads, Writes, Fails, Makes, Keeps, Goes, Ends, Active, WriteStage
    <3>2. Subject(req[c]) \in User /\ PasswordOf(Subject(req[c])) \in seen[c]
      BY <3>1, ActiveSubjects DEF SeenInv, Active
    <3> DEFINE u == Subject(req[c])
    <3>3. \A x \in User : x = u => PasswordOf(x)' \in seen'[c]
      BY <3>1, <3>2, SeenInForce
    <3> QED
      BY <3>1, <3>2, <3>3 DEF PasswordOf
  <2> QED
    BY <2>1, <2>2
<1>2. ASSUME NEW c \in Call,
             \/ req'[c].kind = "login" /\ stage'[c] \in {"makeAccess", "makeRefresh", "storeSession"}
             \/ stage'[c] = "updatePassword"
      PROVE  Presented(req'[c]) \in seen'[c]
  <2>1. ~Arrives(c)
    BY <1>2, ArrivalOnly
  <2>2. req'[c] = req[c]
    BY <2>1, Onwards DEF Same, Keeps
  <2>3. stage[c] # "idle"
    BY <1>2, <2>1, Onwards DEF Same, Goes, Active
  <2>4. seen[c] \subseteq seen'[c]
    BY <2>3, SeenMoves
  <2>5. /\ stage[c] = "readSession" => req[c].kind = "refresh"
        /\ stage[c] = "updatePassword" => req[c].kind = "changePassword"
    BY DEF StageInv, RefreshToken, ChangePassword
  <2>6. \/ stage[c] = "readUser" /\ Right(c)
        \/ req[c].kind = "login" /\ stage[c] \in {"makeAccess", "makeRefresh", "storeSession"}
        \/ stage[c] = "updatePassword" /\ req[c].kind = "changePassword"
    BY <1>2, <2>1, <2>2, <2>5, Onwards DEF Same, Goes, Onward
  <2>7. Presented(req[c]) \in seen[c]
    BY <2>6 DEF Right, SeenInv, Presented
  <2> QED
    BY <2>2, <2>4, <2>7
<1>3. ASSUME NEW c \in Call, stage'[c] = "updatePassword" PROVE req'[c].kind = "changePassword"
  BY <1>3, StageStep, UserTypeStep, Kinds DEF StageInv, UserTypeOK, UserRequest
<1> QED
  BY <1>1, <1>2, <1>3 DEF SeenInv, Presented

-----------------------------------------------------------------------------
LEMMA UserInitInv == UserInit => UserInv
<1> SUFFICES ASSUME UserInit PROVE UserInv
  OBVIOUS
<1>1. UserTypeOK
  BY DEF UserInit, UserTypeOK, UserStage, UserStatus
<1>2. StageInv /\ GateInv /\ TokenInv /\ SessionInv /\ SeenInv /\ AnswerInv
  BY Kinds DEF UserInit, StageInv, GateInv, TokenInv, SessionInv, SeenInv, AnswerInv, NoRequest
<1> QED
  BY <1>1, <1>2 DEF UserInv, HandlerInv

LEMMA HandlerInvStep == HandlerInv /\ [UserNext]_userVars => HandlerInv'
BY UserTypeStep, StageStep, GateStep, TokenStep, SessionStep, SeenStep DEF HandlerInv

LEMMA AnswerStep == UserInv /\ [UserNext]_userVars => AnswerInv'
<1> SUFFICES ASSUME UserInv, [UserNext]_userVars, NEW c \in Call
             PROVE  /\ stage'[c] = "idle" => req'[c] = NoRequest
                    /\ stage'[c] = "replied" => status'[c] # 0
  BY DEF AnswerInv
<1> USE DEF UserInv, HandlerInv
<1>1. CASE Same(c)
  BY <1>1 DEF Same, Keeps, Goes, AnswerInv
<1>2. CASE Arrives(c)
  <2>1. req'[c] \in UserRequest
    BY <1>2, Arrival
  <2> QED
    BY <1>2, <2>1, Arrival, FirstQueries DEF Goes, Ends
<1>3. CASE ~Same(c) /\ ~Arrives(c)
  <2>1. Active(c) /\ Onward(c)
    BY <1>3, Onwards
  <2> QED
    BY <2>1 DEF Onward, Active
<1> QED
  BY <1>1, <1>2, <1>3

LEMMA UserInvStep == UserInv /\ [UserNext]_userVars => UserInv'
BY HandlerInvStep, AnswerStep DEF UserInv

\* The invariant of the handlers of users, whatever requests arrive together:
\* what each has shown, seen and made at every stage.
THEOREM UserInvariant == UserSpec => []UserInv
BY UserInitInv, UserInvStep, PTL DEF UserSpec

\* Every variable has its type; in particular no row of users holds a password
\* that bcrypt refuses to hash.
THEOREM UserTypeCorrect == UserSpec => []UserTypeOK
<1>1. UserInv => UserTypeOK
  BY DEF UserInv, HandlerInv
<1> QED
  BY <1>1, UserInvariant, PTL

-----------------------------------------------------------------------------
LEMMA RefreshedInTime == HandlerInv => NoRefreshAfterExpiry
BY Sessions DEF HandlerInv, NoRefreshAfterExpiry

\* Leeway of a token and delays of the request do not lengthen a session: who
\* got a token for it arrived while it was open (api/token.go:49,
\* token/jwt/maker.go:14).
THEOREM NoTokenAfterExpiry == UserSpec => []NoRefreshAfterExpiry
<1>1. UserInv => NoRefreshAfterExpiry
  BY RefreshedInTime DEF UserInv
<1> QED
  BY <1>1, UserInvariant, PTL

\* A token that was given is refused only after the expiry that was told.
LEMMA RefusedLate ==
    ASSUME UserTypeOK, TokenInv, NEW t \in Given, NEW instant \in Int, ~VerifyToken(t, instant)
    PROVE  MadeBy(t.id).expiredAt <= instant
<1>1. /\ t \in Token /\ MadeBy(t.id) \in Issued
      /\ t.exp = NumericDate(MadeBy(t.id).expiredAt)
  BY GivenIs
<1>2. MadeBy(t.id).expiredAt \in Int /\ t.exp \in Int /\ t # Garbage
  BY <1>1, TokenParts DEF Issued
<1>3. t.exp + TokenLeeway <= instant
  BY <1>2 DEF VerifyToken
<1>4. MadeBy(t.id).expiredAt < t.exp + TokenLeeway
  BY <1>1, <1>2, Dates
<1> QED
  BY <1>2, <1>3, <1>4

LEMMA RefusedInTime == HandlerInv => AccessHonoured
<1> SUFFICES ASSUME HandlerInv, NEW c \in Call,
                    req[c].kind \in {"getUser", "updateUser", "logout"},
                    req[c].token # Garbage, req[c].token.id.use = "access", status[c] = 401
             PROVE  access[req[c].token.id.by].expiredAt <= since[c]
  BY DEF AccessHonoured
<1> USE DEF HandlerInv
<1>1. stage[c] # "idle" /\ ~Public(req[c])
  BY DEF StageInv, Public
<1>2. req[c].token \in Given /\ ~VerifyToken(req[c].token, since[c])
  BY <1>1 DEF GateInv
<1>3. since[c] \in Int
  BY DEF UserTypeOK
<1>4. MadeBy(req[c].token.id).expiredAt <= since[c]
  BY <1>2, <1>3, RefusedLate
<1> QED
  BY <1>4 DEF MadeBy

\* An access token is accepted until the instant the client was told, although
\* the token itself holds an earlier one.
THEOREM AccessIsHonoured == UserSpec => []AccessHonoured
<1>1. UserInv => AccessHonoured
  BY RefusedInTime DEF UserInv
<1> QED
  BY <1>1, UserInvariant, PTL

\* The session of a refresh token that was given is there, and is that token's.
LEMMA GivenHasSession ==
    ASSUME HandlerInv, NEW t \in Given, t.id.use = "refresh"
    PROVE  /\ t.id \in DOMAIN sessions
           /\ sessions[t.id] = [username |-> t.username, token |-> t, expires |-> MadeBy(t.id).expiredAt]
<1> USE DEF HandlerInv
<1>1. /\ t \in Token /\ t.id.by \in Call /\ status[t.id.by] = 200
      /\ MadeBy(t.id) # None /\ MadeBy(t.id).token = t /\ t.username = Subject(req[t.id.by])
  BY GivenIs
<1>2. MadeBy(t.id) = refresh[t.id.by]
  BY DEF MadeBy
<1>3. t.id = IdOf(t.id.by)
  BY <1>1 DEF Token, TokenId, IdOf
<1>4. t.id \in DOMAIN sessions
  BY <1>1, <1>2, <1>3, Sessions
<1>5. sessions[t.id] = NewSession(t.id.by)
  BY <1>4 DEF SessionInv
<1> QED
  BY <1>1, <1>2, <1>4, <1>5 DEF NewSession

\* A refresh is refused at its arrival or when its session has been read, and
\* both happen only after the expiry.
LEMMA RefreshHonouredStep == HandlerInv /\ RefreshHonoured /\ [UserNext]_userVars => RefreshHonoured'
<1> SUFFICES ASSUME HandlerInv, RefreshHonoured, [UserNext]_userVars, NEW c \in Call,
                    req'[c].kind = "refresh", req'[c].token # Garbage,
                    req'[c].token.id.use = "refresh", status'[c] = 401
             PROVE  refresh'[req'[c].token.id.by].expiredAt <= now'
  BY DEF RefreshHonoured
<1> USE DEF HandlerInv
<1> DEFINE t == req'[c].token
<1>1. /\ now \in Int /\ now' \in Int /\ now <= now'
      /\ req'[c] \in UserRequest /\ ~Public(req'[c])
  BY TimeMoves, UserTypeStep, Kinds DEF UserTypeOK, Public
<1>2. t \in Given
  <2>1. CASE Arrives(c)
    BY <1>1, <2>1, Arrival
  <2>2. CASE ~Arrives(c)
    <3>1. req'[c] = req[c]
      BY <2>2, Onwards DEF Same, Keeps
    <3>2. stage[c] # "idle"
      BY <2>2, Onwards DEF Same, Goes, Active, StageInv
    <3> QED
      BY <1>1, <3>1, <3>2 DEF GateInv
  <2> QED
    BY <2>1, <2>2
<1> DEFINE d == t.id.by
           ends == refresh[d].expiredAt
<1>3. /\ d \in Call /\ status[d] = 200 /\ refresh'[d] = refresh[d]
      /\ MadeBy(t.id) = refresh[d] /\ refresh[d] \in Issued
  <2>1. d \in Call /\ status[d] = 200 /\ MadeBy(t.id) \in Issued
    BY <1>2, GivenIs
  <2>2. MadeBy(t.id) = refresh[d]
    BY DEF MadeBy
  <2>3. Same(d)
    BY <2>1, RepliedStays DEF StageInv
  <2> QED
    BY <2>1, <2>2, <2>3 DEF Same, KeepsLocals
<1>4. ends \in Int
  BY <1>3 DEF Issued
<1>5. CASE Arrives(c)
  <2>1. Refusal(req'[c]) = 401
    BY <1>5, Arrival DEF Goes, Ends, StageInv
  <2>2. ~VerifyToken(t, now)
    BY <1>1, <2>1, Refusals DEF Authorized
  <2>3. ends <= now
    BY <1>1, <1>2, <1>3, <2>2, RefusedLate
  <2> HIDE DEF ends, t
  <2> QED
    BY <1>1, <1>3, <1>4, <2>3 DEF ends, t
<1>6. CASE Same(c)
  <2>1. ends <= now
    BY <1>6 DEF Same, Keeps, Goes, RefreshHonoured
  <2> HIDE DEF ends, t
  <2> QED
    BY <1>1, <1>3, <1>4, <2>1 DEF ends, t
<1>7. CASE ~Arrives(c) /\ ~Same(c)
  <2>1. req'[c] = req[c] /\ req[c] \in RefreshToken
    BY <1>1, <1>7, Onwards, Kinds DEF Keeps
  <2>2. stage[c] = "readSession" /\ ~Open(c)
    <3>1. status[c] = 0
      BY <1>7, Onwards DEF Active, StageInv, UserTypeOK
    <3>2. req[c].kind = "refresh"
      BY <2>1 DEF RefreshToken
    <3> QED
      BY <1>7, <3>1, <3>2, Onwards DEF Onward
  <2>3. /\ t.id \in DOMAIN sessions
        /\ sessions[t.id] = [username |-> t.username, token |-> t, expires |-> MadeBy(t.id).expiredAt]
    BY <1>2, GivenHasSession
  <2>4. SessionOf(t.id) = sessions[t.id] /\ sessions[t.id] # None
    BY <2>3 DEF SessionOf, UserTypeOK
  <2>5. ~(clock[c] < ends)
    BY <1>3, <2>1, <2>2, <2>3, <2>4 DEF Open, Usable
  <2>6. clock[c] <= now /\ clock[c] \in Int
    BY <2>2, Sessions DEF UserTypeOK
  <2> HIDE DEF ends, t
  <2> QED
    BY <1>1, <1>3, <1>4, <2>5, <2>6 DEF ends, t
<1> QED
  BY <1>5, <1>6, <1>7

\* A refresh token is good until the expiry it was made with, whatever the
\* precision of the dates in it: its session was stored before it was given.
THEOREM RefreshIsHonoured == UserSpec => []RefreshHonoured
<1>1. UserInit => RefreshHonoured
  BY DEF UserInit, RefreshHonoured, NoRequest
<1>2. UserInv => HandlerInv
  BY DEF UserInv
<1> QED
  BY <1>1, <1>2, RefreshHonouredStep, UserInvariant, PTL DEF UserSpec

-----------------------------------------------------------------------------
LEMMA AnswersTimelyStep == HandlerInv /\ AnswersTimely /\ [UserNext]_userVars => AnswersTimely'
<1> DEFINE Timely(c) ==
        LET r == req[c] IN
        /\ r.kind = "login" =>
              /\ status[c] = 200 => r.password \in seen[c]
              /\ status[c] = 401 => seen[c] \ {r.password, NoPassword} # {}
              /\ status[c] = 404 => NoPassword \in seen[c]
        /\ r.kind = "changePassword" =>
              /\ status[c] = 200 => {r.old, r.new} \subseteq seen[c]
              /\ status[c] = 401 /\ VerifyToken(r.token, since[c]) => seen[c] \ {r.old} # {}
<1> SUFFICES ASSUME HandlerInv, AnswersTimely, [UserNext]_userVars, NEW c \in Call PROVE Timely(c)'
  BY DEF AnswersTimely
<1> USE DEF HandlerInv
<1>1. Timely(c) /\ (status[c] # 0 => stage[c] = "replied") /\ (req[c] = NoRequest => stage[c] = "idle")
  BY DEF AnswersTimely, StageInv
<1>2. stage[c] # "idle" => seen[c] \subseteq seen'[c]
  BY SeenMoves
<1>3. CASE Same(c)
  BY <1>1, <1>2, <1>3, Kinds DEF Same, Keeps, Goes
<1>4. CASE Arrives(c)
  <2>1. req'[c] \in UserRequest /\ since'[c] = now /\ status'[c] = Refusal(req'[c])
    BY <1>1, <1>4, Arrival DEF Goes, Ends
  <2>2. req'[c].kind = "changePassword" /\ status'[c] = 401 => ~VerifyToken(req'[c].token, since'[c])
    <3>1. Refusal(req'[c]) = 401 => ~VerifyToken(req'[c].token, now)
      BY <2>1, Refusals DEF Authorized
    <3> QED
      BY <2>1, <3>1
  <2>3. req'[c].kind = "login" => status'[c] \in {0, 400}
    BY <2>1, Refusals
  <2>4. status'[c] # 200
    BY <1>4, ArrivalOnly
  <2> QED
    BY <2>2, <2>3, <2>4
<1>5. CASE ~Arrives(c) /\ ~Same(c)
  <2>1. req'[c] = req[c] /\ since'[c] = since[c] /\ Active(c) /\ Onward(c)
    BY <1>5, Onwards DEF Keeps
  <2>2. status[c] = 0 /\ seen[c] \subseteq seen'[c]
    BY <1>1, <1>2, <2>1 DEF Active
  <2>3. PasswordOf(Subject(req[c])) \in seen[c]
    BY <2>1 DEF SeenInv, Active
  <2>4. /\ stage[c] = "readSession" => req[c].kind = "refresh"
        /\ stage[c] \in WriteStage /\ req[c].kind = "login" => stage[c] = "storeSession"
        /\ stage[c] \in WriteStage /\ req[c].kind = "changePassword" => stage[c] = "updatePassword"
    BY DEF StageInv, WriteStage, CreateUser, LoginUser, RefreshToken, UpdateUser, ChangePassword
  <2>5. CASE status'[c] = 200 /\ req[c].kind = "login"
    <3>1. stage[c] = "storeSession"
      BY <2>1, <2>2, <2>4, <2>5 DEF Onward
    <3>2. req[c].password \in seen[c]
      BY <2>5, <3>1 DEF SeenInv
    <3> QED
      BY <2>1, <2>2, <2>5, <3>2
  <2>6. CASE status'[c] = 200 /\ req[c].kind = "changePassword"
    <3>1. stage[c] = "updatePassword"
      BY <2>1, <2>2, <2>4, <2>6 DEF Onward
    <3>2. req[c].old \in seen[c]
      BY <3>1 DEF SeenInv
    <3>3. req[c].new \in seen'[c]
      BY <2>1, <2>6, <3>1, ChangeIsSet, SeenMoves
    <3> QED
      BY <2>1, <2>2, <2>6, <3>2, <3>3
  <2>7. CASE status'[c] = 401 /\ req[c].kind \in {"login", "changePassword"}
    <3>1. Known(c) /\ ~Right(c)
      BY <2>1, <2>2, <2>4, <2>7 DEF Onward
    <3>2. PasswordOf(Subject(req[c])) # NoPassword
      BY <3>1 DEF Known, PasswordOf, UserTypeOK, UserRow
    <3>3. PasswordOf(Subject(req[c])) # IF req[c].kind = "login" THEN req[c].password ELSE req[c].old
      BY <3>1 DEF Right, Presented
    <3> QED
      BY <2>1, <2>2, <2>3, <2>7, <3>2, <3>3
  <2>8. CASE status'[c] = 404 /\ req[c].kind = "login"
    <3>1. ~Known(c)
      BY <2>1, <2>2, <2>4, <2>8 DEF Onward
    <3>2. PasswordOf(Subject(req[c])) = NoPassword
      BY <3>1 DEF Known, PasswordOf
    <3> QED
      BY <2>1, <2>2, <2>3, <2>8, <3>2
  <2> QED
    BY <2>1, <2>5, <2>6, <2>7, <2>8
<1> QED
  BY <1>3, <1>4, <1>5

\* An answer to a password is true of an instant between the request and the
\* answer, though it is read, compared and replaced in different queries
\* (api/user.go).
THEOREM AnswersAreTimely == UserSpec => []AnswersTimely
<1>1. UserInit => AnswersTimely
  BY DEF UserInit, AnswersTimely, NoRequest
<1>2. UserInv => HandlerInv
  BY DEF UserInv
<1> QED
  BY <1>1, <1>2, AnswersTimelyStep, UserInvariant, PTL DEF UserSpec

\* The answers to a login: none is a conflict.
LoginAnswers == \A c \in Call : req[c].kind = "login" => status[c] \in {0, 200, 400, 401, 404, 500}

LEMMA LoginAnswersStep == HandlerInv /\ LoginAnswers /\ [UserNext]_userVars => LoginAnswers'
<1> SUFFICES ASSUME HandlerInv, LoginAnswers, [UserNext]_userVars, NEW c \in Call, req'[c].kind = "login"
             PROVE  status'[c] \in {0, 200, 400, 401, 404, 500}
  BY DEF LoginAnswers
<1> USE DEF HandlerInv
<1>1. CASE Same(c)
  BY <1>1 DEF Same, Keeps, Goes, LoginAnswers
<1>2. CASE Arrives(c)
  <2>1. req'[c] \in UserRequest /\ status'[c] = Refusal(req'[c])
    BY <1>2, Arrival DEF Goes, Ends, StageInv
  <2> QED
    BY <2>1, Refusals
<1>3. CASE ~Arrives(c) /\ ~Same(c)
  <2>1. req[c].kind = "login" /\ Active(c) /\ Onward(c)
    BY <1>3, Onwards DEF Keeps
  <2>2. status[c] = 0 /\ stage[c] \notin {"insertUser", "updateUser"}
    BY <2>1 DEF Active, StageInv, UserTypeOK, CreateUser, UpdateUser
  <2> QED
    BY <2>1, <2>2 DEF Onward
<1> QED
  BY <1>1, <1>2, <1>3

\* What makes a registered user able to log in.
LEMMA RegisteredFares == HandlerInv /\ AnswersTimely /\ LoginAnswers => RegisteredCanLogIn
<1> SUFFICES ASSUME HandlerInv, AnswersTimely, LoginAnswers, NEW c \in Call, NEW d \in Call,
                    req[c].kind = "createUser", status[c] = 200,
                    req[d].kind = "login", req[d].front = req[c].front,
                    req[d].password = req[c].password, status[d] # 0, seen[d] = {req[d].password}
             PROVE  status[d] \in {200, 500}
  BY DEF RegisteredCanLogIn
<1> USE DEF HandlerInv
<1>1. req[d] \in UserRequest /\ req[d].password \in Password
  BY Kinds DEF UserTypeOK, Public
<1>2. stage[c] = "replied" /\ stage[d] = "replied" /\ Binds(req[c])
  BY DEF StageInv, GateInv, Public
<1>3. Binds(req[d]) <=> req[d].password \notin TooShort[req[d].front]
  BY DEF Binds, Public
<1>4. req[c].password \notin TooShort[req[c].front]
  BY <1>2 DEF Binds, Public
<1>5. status[d] # 400
  BY <1>2, <1>3, <1>4 DEF GateInv, Public
<1>6. status[d] \notin {401, 404}
  BY <1>1 DEF AnswersTimely
<1> QED
  BY <1>5, <1>6 DEF LoginAnswers

\* Who registered over a front end and has kept the password is let in over it,
\* unless a query fails: what validates one validates the other
\* (gapi/validator.go, the binding tags of api/user.go).
THEOREM RegisteredLogIn == UserSpec => []RegisteredCanLogIn
<1>1. UserInit => LoginAnswers
  BY DEF UserInit, LoginAnswers
<1>2. UserInv => HandlerInv
  BY DEF UserInv
<1> QED
  BY <1>1, <1>2, RegisteredFares, LoginAnswersStep, AnswersAreTimely, UserInvariant, PTL DEF UserSpec

-----------------------------------------------------------------------------
\* A login that was answered.
LoggedIn(d, u, t) ==
    /\ req[d].kind = "login"
    /\ status[d] = 200
    /\ req[d].username = u
    /\ req[d].password \in seen[d]
    /\ since[d] <= t

LEMMA LoginStays ==
    ASSUME HandlerInv, [UserNext]_userVars, NEW d \in Call, NEW u, NEW t, LoggedIn(d, u, t)
    PROVE  LoggedIn(d, u, t)'
<1> USE DEF HandlerInv
<1>1. stage[d] = "replied"
  BY DEF LoggedIn, StageInv
<1>2. Same(d) /\ seen[d] \subseteq seen'[d]
  BY <1>1, RepliedStays, SeenMoves
<1> QED
  BY <1>2 DEF LoggedIn, Same, Keeps, Goes

\* Who made a token that was given had logged in, or used such a token.
LEMMA GivenTraces ==
    ASSUME HandlerInv, AnswersTimely, AccessTracesToLogin, NEW t \in Given
    PROVE  \E d \in Call : LoggedIn(d, t.username, now)
<1> USE DEF HandlerInv
<1> DEFINE e == t.id.by
<1>1. e \in Call /\ status[e] = 200 /\ t.username = Subject(req[e]) /\ req[e] \in LoginUser \cup RefreshToken
  BY GivenIs
<1>2. \A d \in Call : since[d] \in Int /\ since[d] <= now /\ now \in Int
  BY DEF UserTypeOK, GateInv
<1>3. CASE req[e] \in LoginUser
  <2>1. req[e].kind = "login" /\ Subject(req[e]) = req[e].username
    BY <1>3 DEF LoginUser, Subject, Public
  <2>2. req[e].password \in seen[e]
    BY <1>1, <2>1 DEF AnswersTimely
  <2> QED
    BY <1>1, <1>2, <2>1, <2>2 DEF LoggedIn
<1>4. CASE req[e] \in RefreshToken
  <2>1. req[e].kind = "refresh" /\ Subject(req[e]) = req[e].token.username /\ ~Public(req[e])
    BY <1>4 DEF RefreshToken, Subject, Public
  <2>2. PICK d \in Call : LoggedIn(d, req[e].token.username, since[e])
    BY <1>1, <2>1 DEF AccessTracesToLogin, LoggedIn, StageInv
  <2> QED
    BY <1>1, <1>2, <2>1, <2>2 DEF LoggedIn
<1> QED
  BY <1>1, <1>3, <1>4

LEMMA TracesStep ==
    HandlerInv /\ AnswersTimely /\ AccessTracesToLogin /\ [UserNext]_userVars => AccessTracesToLogin'
<1> SUFFICES ASSUME HandlerInv, AnswersTimely, AccessTracesToLogin, [UserNext]_userVars, NEW c \in Call,
                    stage'[c] # "idle", ~Public(req'[c]), status'[c] # 401
             PROVE  \E d \in Call : LoggedIn(d, req[c].token.username, since[c])'
  BY DEF AccessTracesToLogin, LoggedIn
<1> USE DEF HandlerInv
<1>1. ASSUME NEW u, NEW t, u = req'[c].token.username, t = since'[c], \E d \in Call : LoggedIn(d, u, t)
      PROVE  \E d \in Call : LoggedIn(d, req[c].token.username, since[c])'
  <2>1. PICK d \in Call : LoggedIn(d, u, t)
    BY <1>1
  <2>2. LoggedIn(d, u, t)'
    BY <2>1, LoginStays
  <2> QED
    BY <1>1, <2>2 DEF LoggedIn
<1>2. CASE Arrives(c)
  <2>1. /\ req'[c] \in UserRequest /\ since'[c] = now /\ req'[c].token \in Given \cup {Garbage}
        /\ status'[c] = Refusal(req'[c])
    BY <1>2, Arrival DEF Goes, Ends, StageInv
  <2>2. req'[c].token \in Given
    BY <2>1, Refusals DEF Authorized, VerifyToken
  <2>3. \E d \in Call : LoggedIn(d, req'[c].token.username, now)
    BY <2>2, GivenTraces
  <2> QED
    BY <1>1, <2>1, <2>3
<1>3. CASE ~Arrives(c)
  <2>1. req'[c] = req[c] /\ since'[c] = since[c] /\ status[c] # 401 /\ stage[c] # "idle"
    <3>1. CASE Same(c)
      BY <3>1 DEF Same, Keeps, Goes
    <3>2. CASE ~Same(c)
      BY <1>3, <3>2, Onwards DEF Keeps, Active, StageInv, UserTypeOK
    <3> QED
      BY <3>1, <3>2
  <2>2. \E d \in Call : LoggedIn(d, req[c].token.username, since[c])
    BY <2>1 DEF AccessTracesToLogin, LoggedIn
  <2> QED
    BY <1>1, <2>1, <2>2
<1> QED
  BY <1>2, <1>3

\* Whoever acts as a user, there was a login as that user with a password that
\* was the user's at the time, however many refreshes lie between.
THEOREM AccessTraces == UserSpec => []AccessTracesToLogin
<1>1. UserInit => AccessTracesToLogin
  BY DEF UserInit, AccessTracesToLogin
<1>2. UserInv => HandlerInv
  BY DEF UserInv
<1> QED
  BY <1>1, <1>2, TracesStep, AnswersAreTimely, UserInvariant, PTL DEF UserSpec

-----------------------------------------------------------------------------
\* The claim of a request that names a user.
LEMMA Claims ==
    /\ Claim(NoRequest) = None
    /\ \A r \in UserRequest : Claim(r) # None
    /\ \A r \in UserRequest : Public(r) \/ r.token # Garbage =>
          /\ Claim(r) \notin {None, Garbage}
          /\ Claim(r).user = Subject(r)
          /\ r.kind \in {"login", "changePassword"} => Claim(r).password = Presented(r)
          /\ r.kind = "createUser" => Claim(r).new = r.password
          /\ r.kind = "changePassword" => Claim(r).new = r.new
          /\ r.kind \notin {"createUser", "changePassword"} => Claim(r).new = NoPassword
          /\ ~Public(r) => Claim(r).token = r.token.id
<1> USE ClaimAssumption
<1>1. Claim(NoRequest) = None
  BY DEF Claim
<1>2. ASSUME NEW r \in UserRequest, ~(Public(r) \/ r.token # Garbage) PROVE Claim(r) = Garbage
  <2>1. r # NoRequest
    BY Kinds
  <2> QED
    BY <1>2, <2>1 DEF Claim
<1>3. ASSUME NEW r \in UserRequest, Public(r) \/ r.token # Garbage
      PROVE  /\ Claim(r) \notin {None, Garbage}
             /\ Claim(r).user = Subject(r)
             /\ r.kind \in {"login", "changePassword"} => Claim(r).password = Presented(r)
             /\ r.kind = "createUser" => Claim(r).new = r.password
             /\ r.kind = "changePassword" => Claim(r).new = r.new
             /\ r.kind \notin {"createUser", "changePassword"} => Claim(r).new = NoPassword
             /\ ~Public(r) => Claim(r).token = r.token.id
  <2> DEFINE p == IF r.kind \in {"login", "changePassword"} THEN Presented(r) ELSE NoPassword
             n == CASE r.kind = "createUser" -> r.password
                    [] r.kind = "changePassword" -> r.new
                    [] OTHER -> NoPassword
             i == IF Public(r) THEN None ELSE r.token.id
             known == Password \cup {NoPassword}
  <2>1. r # NoRequest /\ Subject(r) \in User
    BY <1>3, Kinds, Subjects
  <2>2. Claim(r) = [user |-> Subject(r), password |-> p, new |-> n, token |-> i]
    BY <1>3, <2>1 DEF Claim
  <2>3. p \in known
    BY Kinds DEF Presented, LoginUser, ChangePassword
  <2>4. n \in known
    BY Kinds DEF CreateUser, ChangePassword
  <2>5. i \in TokenId \cup {None}
    BY <1>3, Kinds, TokenParts DEF Credential
  <2> HIDE DEF p, n, i, known
  <2>6. Claim(r) \in [user : User, password : known, new : known, token : TokenId \cup {None}]
    BY <2>1, <2>2, <2>3, <2>4, <2>5
  <2>7. Claim(r) \notin {None, Garbage}
    BY <2>6 DEF known
  <2>8. Claim(r).user = Subject(r) /\ Claim(r).password = p /\ Claim(r).new = n /\ Claim(r).token = i
    BY <2>2
  <2> QED
    BY <2>7, <2>8 DEF p, n, i
<1> QED
  BY <1>1, <1>2, <1>3

\* The role of a request at each stage.
LEMMA Roles ==
    ASSUME NEW c \in Call
    PROVE  /\ stage[c] \in {"updatePassword", "makeAccess", "makeRefresh", "storeSession"} => Role(c) = "proven"
           /\ stage[c] \in {"idle", "insertUser", "replied"} => Role(c) = "outside"
           /\ stage[c] \in {"readUser", "updateUser", "readClock", "readSession"} =>
                 Role(c) = IF Public(req[c]) THEN "outside" ELSE "inside"
BY DEF Role

\* What Access sees of a step of one request.
LEMMA Views ==
    ASSUME UserTypeOK, [UserNext]_userVars, NEW c \in Call, \A d \in Call : d # c => Same(d)
    PROVE  /\ stage'[c] # "idle" => claims' = [claims EXCEPT ![c] = Claim(req'[c])]
           /\ since' = [since EXCEPT ![c] = since'[c]]
           /\ roles' = [roles EXCEPT ![c] = Role(c)']
           /\ Keeps(c) /\ stage[c] # "idle" /\ stage'[c] # "idle" => claims' = claims /\ since' = since
           /\ KeepsLocals(c) => tokens' = tokens
<1> USE DEF Same, Keeps, KeepsLocals, Goes
<1>1. Functions /\ since = [d \in Call |-> since[d]]
  BY MovesFunctions DEF UserTypeOK
<1>2. /\ stage'[c] # "idle" => claims' = [claims EXCEPT ![c] = Claim(req'[c])]
      /\ Keeps(c) /\ stage[c] # "idle" /\ stage'[c] # "idle" => claims' = claims
  BY DEF claims
<1>3. since' = [since EXCEPT ![c] = since'[c]] /\ (Keeps(c) => since' = since)
  BY <1>1 DEF Functions
<1>4. roles' = [roles EXCEPT ![c] = Role(c)']
  <2>1. \A d \in Call : d # c => Role(d)' = Role(d)
    BY DEF Role
  <2> QED
    BY <2>1 DEF roles
<1>5. ASSUME KeepsLocals(c) PROVE tokens' = tokens
  <2>1. \A x \in TokenId : MadeBy(x)' = MadeBy(x)
    BY <1>5 DEF MadeBy, TokenId
  <2> QED
    BY <2>1 DEF tokens
<1> QED
  BY <1>2, <1>3, <1>4, <1>5

\* A request that ends and changes nothing else.
LEMMA Ended ==
    ASSUME HandlerInv, [UserNext]_userVars, NEW c \in Call, \A d \in Call : d # c => Same(d),
           Active(c), Keeps(c), KeepsLocals(c), stage'[c] = "replied",
           passwords' = passwords, sessions' = sessions, now' = now
    PROVE  A!End({c})
<1>1. Role(c)' = "outside"
  BY DEF Role
<1> QED
  BY <1>1, Views DEF A!End, HandlerInv, Active, roles

\* What a step of one request does to the tables and the clock.
LEMMA Tables ==
    ASSUME UserTypeOK, NEW c \in Call
    PROVE  /\ now' = now \/ ~((\E r \in Sent : Receive(c, r)) \/ HandlerStep(c) \/ QueryFails(c))
           /\ InsertUser(c) \/ UpdatePassword(c) \/ UpdateProfile(c) => sessions' = sessions
           /\ InsertUser(c) => users' = users \/ Registers(c)
           /\ UpdatePassword(c) => Sets(c)
           /\ UpdateProfile(c) => users' = users \/ Profiles(c)
           /\ StoreSession(c) => users' = users
           /\ (\E r \in Sent : Receive(c, r)) \/ QueryFails(c) => UNCHANGED <<users, sessions>>
           /\ ReadProfile(c) \/ ReadUser(c) \/ ReadOldPassword(c) \/ ReadSession(c) => UNCHANGED <<users, sessions>>
           /\ MakeAccess(c) \/ MakeRefresh(c) \/ ReadClock(c) => UNCHANGED <<users, sessions>>
<1>1. InsertUser(c) => now' = now /\ sessions' = sessions /\ (users' = users \/ Registers(c))
  BY DEF InsertUser, Registers
<1>2. UpdatePassword(c) => now' = now /\ sessions' = sessions /\ Sets(c)
  BY DEF UpdatePassword, Sets
<1>3. UpdateProfile(c) => now' = now /\ sessions' = sessions /\ (users' = users \/ Profiles(c))
  BY DEF UpdateProfile, Profiles
<1>4. StoreSession(c) => now' = now /\ users' = users
  BY DEF StoreSession
<1>5. (\E r \in Sent : Receive(c, r)) \/ QueryFails(c) => UNCHANGED <<users, sessions, now>>
  BY DEF Receive, QueryFails
<1>6. ReadProfile(c) \/ ReadUser(c) \/ ReadOldPassword(c) \/ ReadSession(c) => UNCHANGED <<users, sessions, now>>
  BY DEF ReadProfile, ReadUser, ReadOldPassword, ReadSession
<1>7. MakeAccess(c) \/ MakeRefresh(c) \/ ReadClock(c) => UNCHANGED <<users, sessions, now>>
  BY DEF MakeAccess, MakeRefresh, ReadClock
<1> QED
  BY <1>1, <1>2, <1>3, <1>4, <1>5, <1>6, <1>7 DEF HandlerStep

LEMMA PasswordsAre ==
    ASSUME UserTypeOK, StageInv, NEW c \in Call
    PROVE  /\ users' = users \/ Profiles(c) => passwords' = passwords
           /\ Registers(c) => /\ passwords' = [passwords EXCEPT ![Subject(req[c])] = req[c].password]
                              /\ passwords[Subject(req[c])] = NoPassword
           /\ Sets(c) => passwords' = [passwords EXCEPT ![Subject(req[c])] = req[c].new]
<1>1. ASSUME users' = users \/ Profiles(c) PROVE passwords' = passwords
  BY <1>1, PasswordIs DEF passwords
<1>2. ASSUME Registers(c)
      PROVE  /\ passwords' = [passwords EXCEPT ![Subject(req[c])] = req[c].password]
             /\ passwords[Subject(req[c])] = NoPassword
  <2>1. req[c] \in CreateUser
    BY <1>2 DEF Registers, StageInv
  <2>2. Subject(req[c]) = req[c].username /\ Subject(req[c]) \in User
    BY <2>1, Kinds, Subjects DEF UserRequest
  <2>3. PasswordOf(Subject(req[c])) = NoPassword
    BY <1>2, <2>2 DEF Registers, PasswordOf
  <2> QED
    BY <1>2, <2>2, <2>3, PasswordIs DEF passwords
<1>3. ASSUME Sets(c) PROVE passwords' = [passwords EXCEPT ![Subject(req[c])] = req[c].new]
  BY <1>3, PasswordIs DEF passwords
<1> QED
  BY <1>1, <1>2, <1>3

-----------------------------------------------------------------------------
\* To Access, an arrival is one, and a token that lets it in was made.
LEMMA ArriveImplements ==
    ASSUME HandlerInv, [UserNext]_userVars, NEW c \in Call, \A d \in Call : d # c => Same(d),
           Arrives(c), UNCHANGED <<users, sessions, now>>
    PROVE  A!Arrive(c)
<1> USE DEF HandlerInv
<1>1. /\ stage[c] = "idle" /\ stage'[c] # "idle" /\ req'[c] \in UserRequest /\ since'[c] = now /\ KeepsLocals(c)
      /\ ~Public(req'[c]) => req'[c].token \in Given \cup {Garbage}
  BY Arrival, ArrivalOnly
<1> DEFINE k == Claim(req'[c])
<1>2. claims[c] = None /\ k # None
  BY <1>1, Claims DEF claims
<1>3. claims' = [claims EXCEPT ![c] = k] /\ claims'[c] = k /\ since' = [since EXCEPT ![c] = now]
  BY <1>1, Views DEF claims
<1>4. passwords' = passwords /\ tokens' = tokens
  BY <1>1, Views, PasswordsAre
<1>5. roles' = [roles EXCEPT ![c] = Role(c)'] /\ roles[c] = "outside" /\ roles = [d \in Call |-> roles[d]]
  BY <1>1, Views, Roles DEF roles
<1>6. CASE Role(c)' = "outside"
  <2>1. roles' = roles
    BY <1>5, <1>6
  <2> QED
    BY <1>2, <1>3, <1>4, <2>1 DEF A!Arrive
<1>7. CASE Role(c)' # "outside"
  <2> DEFINE t == req'[c].token
  <2>1. stage'[c] \in {"readUser", "updateUser", "readClock", "readSession"} /\ ~Public(req'[c]) /\ Role(c)' = "inside"
    BY <1>7, ArrivalOnly DEF Role
  <2>2. t \in Given /\ VerifyToken(t, now)
    <3>1. Refusal(req'[c]) = 0
      BY <2>1, Arrival DEF Ends
    <3> QED
      BY <1>1, <2>1, <3>1, Refusals DEF Authorized, VerifyToken
  <2>3. /\ t \in Token /\ MadeBy(t.id) # None /\ MadeBy(t.id) \in Issued /\ MadeBy(t.id).token = t
        /\ t.exp = NumericDate(MadeBy(t.id).expiredAt)
    BY <2>2, GivenIs
  <2>4. t # Garbage /\ t.id \in TokenId /\ t.exp \in Int /\ MadeBy(t.id).expiredAt \in Int /\ now \in Int
    BY <2>3, TokenParts DEF Issued, UserTypeOK
  <2>5. /\ t.id \in DOMAIN tokens
        /\ tokens[t.id].user = t.username /\ tokens[t.id].until = MadeBy(t.id).expiredAt
    BY <2>3, <2>4 DEF tokens
  <2>6. now < tokens[t.id].until + TokenLeeway
    <3>1. now < t.exp + TokenLeeway
      BY <2>2 DEF VerifyToken
    <3>2. t.exp <= MadeBy(t.id).expiredAt
      BY <2>3, <2>4, Dates
    <3> HIDE DEF t
    <3> QED
      BY <2>4, <2>5, <3>1, <3>2
  <2>7. k # Garbage /\ k.user = t.username /\ k.token = t.id
    BY <1>1, <2>1, <2>4, Claims, Kinds
  <2> HIDE DEF k, t
  <2> QED
    BY <1>2, <1>3, <1>4, <1>5, <2>1, <2>5, <2>6, <2>7 DEF A!Arrive
<1> QED
  BY <1>6, <1>7

\* A request in progress claims to be a user.
LEMMA ActiveClaims ==
    ASSUME HandlerInv, NEW c \in Call, Active(c)
    PROVE  /\ req[c] \in UserRequest
           /\ Public(req[c]) \/ req[c].token # Garbage
           /\ Subject(req[c]) \in User
           /\ claims[c] = Claim(req[c])
           /\ claims[c] \notin {None, Garbage}
           /\ claims[c].user = Subject(req[c])
<1> USE DEF HandlerInv
<1>1. req[c] \in UserRequest /\ Subject(req[c]) \in User
  BY ActiveSubjects
<1>2. status[c] = 0
  BY DEF Active, UserTypeOK, StageInv
<1>3. Public(req[c]) \/ req[c].token # Garbage
  BY <1>2 DEF Active, GateInv, VerifyToken
<1>4. claims[c] = Claim(req[c])
  BY DEF claims, Active
<1> QED
  BY <1>1, <1>3, <1>4, Claims

\* The session a refresh goes on with is open, and ends when its token does.
LEMMA OpenIs ==
    ASSUME HandlerInv, NEW c \in Call, stage[c] = "readSession", Open(c)
    PROVE  /\ req[c].token.id \in DOMAIN sessions
           /\ since[c] < tokens[req[c].token.id].until
<1> USE DEF HandlerInv
<1> DEFINE id == req[c].token.id
<1>1. id \in DOMAIN sessions /\ clock[c] < sessions[id].expires
  BY DEF Open, SessionOf, Usable
<1>2. id \in TokenId /\ id.by \in Call /\ id.use = "refresh" /\ refresh[id.by] # None /\ sessions[id] = NewSession(id.by)
  BY <1>1 DEF UserTypeOK, SessionInv, TokenId
<1>3. refresh[id.by] \in Issued
  BY <1>2 DEF UserTypeOK
<1> HIDE DEF id
<1>4. MadeBy(id) = refresh[id.by] /\ sessions[id].expires = refresh[id.by].expiredAt
  BY <1>2 DEF MadeBy, NewSession
<1>5. tokens[id].until = refresh[id.by].expiredAt
  BY <1>2, <1>4 DEF tokens
<1>6. since[c] \in Int /\ clock[c] \in Int /\ since[c] <= clock[c]
  BY Sessions DEF UserTypeOK
<1>7. refresh[id.by].expiredAt \in Int
  BY <1>3 DEF Issued
<1> QED
  BY <1>1, <1>4, <1>5, <1>6, <1>7 DEF id

LEMMA ReadsImplements ==
    ASSUME HandlerInv, [UserNext]_userVars, NEW c \in Call, \A d \in Call : d # c => Same(d),
           Reads(c), UNCHANGED <<users, sessions, now>>
    PROVE  A!End({c}) \/ A!Prove(c)
<1> USE DEF HandlerInv
<1>1. Keeps(c) /\ KeepsLocals(c) /\ passwords' = passwords /\ stage'[c] # "idle"
  BY PasswordsAre DEF Reads, Ends, Goes
<1>2. Active(c)
  BY DEF Reads, Active
<1>3. claims' = claims /\ since' = since /\ tokens' = tokens /\ roles' = [roles EXCEPT ![c] = Role(c)']
  BY <1>1, <1>2, Views DEF Active
<1> DEFINE k == claims[c]
<1>4. k \notin {None, Garbage} /\ k.user = Subject(req[c]) /\ k = Claim(req[c]) /\ req[c] \in UserRequest
      /\ Subject(req[c]) \in User /\ (Public(req[c]) \/ req[c].token # Garbage)
  BY <1>2, ActiveClaims
<1>5. roles[c] = Role(c) /\ passwords[Subject(req[c])] = PasswordOf(Subject(req[c]))
  BY <1>4 DEF roles, passwords
<1>6. CASE stage'[c] = "replied"
  BY <1>1, <1>2, <1>6, Ended
<1>7. CASE stage[c] = "readUser" /\ stage'[c] # "replied"
  <2>1. /\ req[c].kind \in {"login", "changePassword"} /\ Right(c)
        /\ \/ req[c].kind = "login" /\ stage'[c] = "makeAccess"
           \/ req[c].kind = "changePassword" /\ stage'[c] = "updatePassword"
    BY <1>7 DEF Reads, Ends, Goes
  <2>2. Role(c)' = "proven"
    BY <2>1 DEF Role
  <2>3. k.password = PasswordOf(Subject(req[c])) /\ k.password \in Password
    <3>1. k.password = Presented(req[c])
      BY <1>4, <2>1, Claims
    <3>2. Presented(req[c]) \in Password
      BY <1>4, <2>1, Kinds DEF Presented, LoginUser, ChangePassword
    <3> QED
      BY <2>1, <3>1, <3>2 DEF Right
  <2>4. k.new # NoPassword => Role(c) = "inside"
    <3>1. CASE req[c].kind = "login"
      <4>1. k.new = NoPassword
        BY <1>4, <3>1, Claims
      <4> QED
        BY <4>1
    <3>2. CASE req[c].kind = "changePassword"
      BY <1>7, <3>2, Roles DEF Public
    <3> QED
      BY <2>1, <3>1, <3>2
  <2>5. A!ByPassword(c, k)
    BY <1>5, <1>4, <2>3, <2>4 DEF A!ByPassword
  <2> HIDE DEF k
  <2> QED
    BY <1>1, <1>3, <1>4, <2>2, <2>5 DEF A!Prove, k
<1>8. CASE stage[c] = "readSession" /\ stage'[c] # "replied"
  <2>1. stage'[c] = "makeAccess" /\ Open(c)
    BY <1>8 DEF Reads, Ends, Goes
  <2>2. Role(c)' = "proven"
    BY <2>1 DEF Role
  <2>3. req[c].kind = "refresh" /\ ~Public(req[c])
    BY <1>8 DEF StageInv, RefreshToken, Public
  <2>4. roles[c] = "inside"
    BY <1>5, <1>8, <2>3, Roles
  <2>5. k.token = req[c].token.id
    BY <1>4, <2>3, Claims
  <2>6. A!BySession(c, k)
    BY <1>8, <2>1, <2>4, <2>5, OpenIs DEF A!BySession
  <2> HIDE DEF k
  <2> QED
    BY <1>1, <1>3, <1>4, <2>2, <2>6 DEF A!Prove, k
<1> QED
  BY <1>6, <1>7, <1>8 DEF Reads

\* A proven request goes on or ends.
LEMMA ProvenGoesOn ==
    ASSUME HandlerInv, [UserNext]_userVars, NEW c \in Call, \A d \in Call : d # c => Same(d),
           stage[c] \in {"updatePassword", "makeAccess", "makeRefresh", "storeSession"},
           stage'[c] \in {"makeRefresh", "storeSession", "replied"}
    PROVE  roles[c] = "proven" /\ A!GoesOn(c)
<1>1. Role(c) = "proven" /\ roles[c] = Role(c) /\ roles = [d \in Call |-> roles[d]]
  BY Roles DEF roles
<1>2. Role(c)' \in {"proven", "outside"}
  BY DEF Role
<1>3. roles' = [roles EXCEPT ![c] = Role(c)']
  BY Views DEF HandlerInv
<1> QED
  BY <1>1, <1>2, <1>3 DEF A!GoesOn

\* What a write does to the tables is what it claims to.
LEMMA WritesImplements ==
    ASSUME HandlerInv, [UserNext]_userVars, NEW c \in Call, \A d \in Call : d # c => Same(d),
           InsertUser(c) \/ UpdatePassword(c) \/ UpdateProfile(c) \/ StoreSession(c)
    PROVE  A!Register(c) \/ A!SetPassword(c) \/ A!Open(c) \/ A!End({c})
<1> USE DEF HandlerInv
<1>1. Writes(c) /\ Keeps(c) /\ KeepsLocals(c) /\ stage'[c] = "replied" /\ now' = now
  BY Acts, Tables DEF Writes, Ends, HandlerStep
<1>2. Active(c)
  BY <1>1 DEF Writes, Active
<1>3. /\ claims' = claims /\ since' = since /\ tokens' = tokens
      /\ roles' = [roles EXCEPT ![c] = "outside"] /\ roles = [d \in Call |-> roles[d]]
  BY <1>1, <1>2, Views, Roles DEF Role, roles, Active
<1> DEFINE k == claims[c]
<1>4. k \notin {None, Garbage} /\ k.user = Subject(req[c]) /\ k = Claim(req[c]) /\ req[c] \in UserRequest
      /\ Subject(req[c]) \in User /\ (Public(req[c]) \/ req[c].token # Garbage)
  BY <1>2, ActiveClaims
<1>5. CASE sessions' = sessions /\ (users' = users \/ Profiles(c))
  BY <1>1, <1>2, <1>5, PasswordsAre, Ended
<1>6. CASE InsertUser(c) /\ Registers(c)
  <2>1. req[c].kind = "createUser" /\ req[c].password \in Password
    BY <1>6 DEF Registers, StageInv, CreateUser
  <2>2. k.new = req[c].password /\ k.new # NoPassword
    BY <1>4, <2>1, Claims
  <2>3. roles[c] = "outside"
    BY <1>6, Roles DEF Registers, roles
  <2>4. roles' = roles
    BY <1>3, <2>3
  <2>5. passwords' = [passwords EXCEPT ![k.user] = k.new] /\ passwords[k.user] = NoPassword
    BY <1>4, <1>6, <2>2, PasswordsAre
  <2>6. sessions' = sessions
    BY <1>6, Tables
  <2> HIDE DEF k
  <2> QED
    BY <1>1, <1>3, <1>4, <2>2, <2>4, <2>5, <2>6 DEF A!Register, k
<1>7. CASE UpdatePassword(c)
  <2>1. Sets(c) /\ sessions' = sessions
    BY <1>7, Tables
  <2>2. req[c] \in ChangePassword /\ stage[c] = "updatePassword"
    BY <2>1 DEF Sets, StageInv
  <2>3. req[c].kind = "changePassword" /\ req[c].new \in Password
    BY <2>2 DEF ChangePassword
  <2>4. k.new = req[c].new /\ k.new # NoPassword
    BY <1>4, <2>3, Claims
  <2>5. passwords' = [passwords EXCEPT ![k.user] = k.new]
    BY <1>4, <2>1, <2>4, PasswordsAre
  <2>6. roles[c] = "proven" /\ A!GoesOn(c)
    BY <1>1, <2>2, ProvenGoesOn
  <2> HIDE DEF k
  <2> QED
    BY <1>1, <1>3, <2>1, <2>4, <2>5, <2>6 DEF A!SetPassword, k
<1>8. CASE StoreSession(c)
  <2>1. stage[c] = "storeSession" /\ users' = users
    BY <1>8, Tables DEF StoreSession
  <2>2. refresh[c] # None /\ refresh[c] \in Issued
    BY <2>1 DEF TokenInv, UserTypeOK
  <2>3. NewSession(c).token.id = IdOf(c)
    BY <2>1, NewSessionIs
  <2>4. DOMAIN sessions' = DOMAIN sessions \cup {IdOf(c)}
    BY <1>8, <2>3 DEF StoreSession, AddSession
  <2>5. refresh[c].token.username = Subject(req[c])
    <3>1. refresh[c].token = [id |-> [by |-> c, use |-> "refresh"], username |-> Subject(req[c]),
                              exp |-> NumericDate(refresh[c].expiredAt)]
      BY <2>2, IssuedAre
    <3> QED
      BY <3>1
  <2>6. IdOf(c) \in DOMAIN tokens /\ tokens[IdOf(c)].user = k.user
    BY <1>4, <2>2, <2>5, Makers DEF tokens, IdOf
  <2>7. roles[c] = "proven" /\ A!GoesOn(c)
    BY <1>1, <2>1, ProvenGoesOn
  <2>8. passwords' = passwords
    BY <2>1, PasswordsAre
  <2> HIDE DEF k
  <2> QED
    BY <1>1, <1>3, <2>4, <2>6, <2>7, <2>8 DEF A!Open, k
<1> QED
  BY <1>5, <1>6, <1>7, <1>8, Tables

\* The token a step makes.
LEMMA NewToken ==
    ASSUME NEW c \in Call, NEW id \in TokenId, NEW d,
           MadeBy(id) = None, MadeBy(id)' # None,
           MadeBy(id)'.token.username = Subject(req[c]), MadeBy(id)'.expiredAt = now + d,
           \A x \in TokenId : x # id => MadeBy(x)' = MadeBy(x)
    PROVE  /\ id \in DOMAIN tokens' \ DOMAIN tokens
           /\ tokens' = [x \in DOMAIN tokens \cup {id} |->
                           IF x = id THEN [user |-> Subject(req[c]), until |-> now + d] ELSE tokens[x]]
<1> DEFINE Dom == {x \in TokenId : MadeBy(x) # None}
<1>1. DOMAIN tokens = Dom /\ DOMAIN tokens' = Dom \cup {id} /\ id \notin Dom
  BY DEF tokens
<1>2. \A x \in Dom : tokens'[x] = tokens[x]
  BY DEF tokens
<1>3. tokens'[id] = [user |-> Subject(req[c]), until |-> now + d]
  BY DEF tokens
<1>4. tokens' = [x \in Dom \cup {id} |-> tokens'[x]]
  BY <1>1 DEF tokens
<1> HIDE DEF Dom
<1> QED
  BY <1>1, <1>2, <1>3, <1>4

LEMMA MakesImplements ==
    ASSUME HandlerInv, [UserNext]_userVars, NEW c \in Call, \A d \in Call : d # c => Same(d),
           Makes(c), UNCHANGED <<users, sessions, now>>
    PROVE  A!Make(c) \/ UNCHANGED A!accessVars
<1> USE DEF HandlerInv
<1>1. Keeps(c) /\ passwords' = passwords /\ stage'[c] # "idle"
  BY PasswordsAre DEF Makes, Ends, Goes
<1>2. Active(c)
  BY DEF Makes, Active
<1>3. claims' = claims /\ since' = since /\ roles' = [roles EXCEPT ![c] = Role(c)']
  BY <1>1, <1>2, Views DEF Active
<1>4. claims[c].user = Subject(req[c]) /\ Subject(req[c]) \in User /\ now \in Int
  BY <1>2, ActiveClaims DEF UserTypeOK
<1>5. ASSUME NEW id \in TokenId, NEW d \in {AccessTokenDuration, RefreshTokenDuration},
             MadeBy(id) = None, MadeBy(id)' = CreateToken(id, Subject(req[c]), d, now),
             \A x \in TokenId : x # id => MadeBy(x)' = MadeBy(x),
             roles[c] = "proven" /\ A!GoesOn(c)
      PROVE  A!Make(c)
  <2> DEFINE m == CreateToken(id, Subject(req[c]), d, now)
  <2>1. m \in Issued /\ m # None /\ m.expiredAt = now + d /\ m.token.username = Subject(req[c])
    <3>1. d \in Int
      OBVIOUS
    <3>2. /\ m \in Issued /\ m # None /\ m.expiredAt = now + d
          /\ m.token = [id |-> id, username |-> Subject(req[c]), exp |-> NumericDate(m.expiredAt)]
      BY <1>4, <3>1, Created
    <3> HIDE DEF m
    <3> QED
      BY <3>2
  <2> HIDE DEF m
  <2>2. MadeBy(id)' # None /\ MadeBy(id)'.token.username = Subject(req[c]) /\ MadeBy(id)'.expiredAt = now + d
    BY <1>5, <2>1 DEF m
  <2>3. /\ id \in DOMAIN tokens' \ DOMAIN tokens
        /\ tokens' = [x \in DOMAIN tokens \cup {id} |->
                        IF x = id THEN [user |-> Subject(req[c]), until |-> now + d] ELSE tokens[x]]
    BY ONLY <1>5, <2>2, NewToken
  <2> QED
    BY <1>1, <1>3, <1>4, <1>5, <2>3 DEF A!Make
<1>6. CASE stage[c] = "makeAccess"
  <2> DEFINE id == [by |-> c, use |-> "access"]
  <2>1. access[c] = None /\ stage'[c] \in {"makeRefresh", "replied"}
        /\ access'[c] = CreateToken(id, Subject(req[c]), AccessTokenDuration, now)
        /\ refresh'[c] = refresh[c]
    BY <1>6 DEF Makes, Ends, Goes, TokenInv
  <2>2. id \in TokenId /\ MadeBy(id) = access[c] /\ MadeBy(id)' = access'[c]
    BY DEF MadeBy, TokenId
  <2>3. \A x \in TokenId : x # id => MadeBy(x)' = MadeBy(x)
    BY <2>1 DEF MadeBy, TokenId, Same, KeepsLocals
  <2>4. roles[c] = "proven" /\ A!GoesOn(c)
    BY <1>6, <2>1, ProvenGoesOn
  <2> HIDE DEF id
  <2> QED
    BY <1>5, <2>1, <2>2, <2>3, <2>4
<1>7. CASE stage[c] = "makeRefresh"
  <2> DEFINE id == [by |-> c, use |-> "refresh"]
  <2>1. refresh[c] = None /\ stage'[c] = "storeSession"
        /\ refresh'[c] = CreateToken(id, Subject(req[c]), RefreshTokenDuration, now)
        /\ access'[c] = access[c]
    BY <1>7 DEF Makes, Goes, TokenInv
  <2>2. id \in TokenId /\ MadeBy(id) = refresh[c] /\ MadeBy(id)' = refresh'[c]
    BY DEF MadeBy, TokenId
  <2>3. \A x \in TokenId : x # id => MadeBy(x)' = MadeBy(x)
    BY <2>1 DEF MadeBy, TokenId, Same, KeepsLocals
  <2>4. roles[c] = "proven" /\ A!GoesOn(c)
    BY <1>7, <2>1, ProvenGoesOn
  <2> HIDE DEF id
  <2> QED
    BY <1>5, <2>1, <2>2, <2>3, <2>4
<1>8. CASE stage[c] = "readClock"
  <2>1. stage'[c] = "readSession" /\ access'[c] = access[c] /\ refresh'[c] = refresh[c] /\ req'[c] = req[c]
    BY <1>8 DEF Makes, Goes, Keeps
  <2>2. Role(c)' = Role(c)
    BY <1>8, <2>1 DEF Role
  <2>3. roles' = roles
    BY <1>3, <2>2 DEF roles
  <2>4. \A x \in TokenId : MadeBy(x)' = MadeBy(x)
    BY <2>1 DEF MadeBy, TokenId, Same, KeepsLocals
  <2>5. tokens' = tokens
    BY <2>4 DEF tokens
  <2> QED
    BY <1>1, <1>3, <2>3, <2>5 DEF A!accessVars
<1> QED
  BY <1>6, <1>7, <1>8 DEF Makes

-----------------------------------------------------------------------------
LEMMA InitImplements == UserInit => A!Init
<1> SUFFICES ASSUME UserInit PROVE A!Init
  OBVIOUS
<1>1. \A c \in Call : claims[c] = None /\ roles[c] = "outside"
  BY Claims DEF UserInit, claims, roles, Role
<1>2. \A x \in TokenId : MadeBy(x) = None
  BY DEF UserInit, MadeBy, TokenId
<1>3. DOMAIN tokens = {}
  BY <1>2 DEF tokens
<1> QED
  BY <1>1, <1>3 DEF UserInit, A!Init

LEMMA StepImplements == HandlerInv /\ [UserNext]_userVars => [A!Next]_(A!accessVars)
<1> SUFFICES ASSUME HandlerInv, [UserNext]_userVars PROVE A!Next \/ UNCHANGED A!accessVars
  OBVIOUS
<1> USE DEF HandlerInv
<1>1. CASE UNCHANGED userVars \/ Tick \/ AllReplied
  <2>1. UNCHANGED <<users, sessions, stage, req, access, refresh, since>>
    BY <1>1 DEF Tick, AllReplied, userVars, locals
  <2>2. UNCHANGED <<passwords, claims, roles, tokens>>
    BY <2>1 DEF passwords, PasswordOf, claims, roles, Role, tokens, MadeBy
  <2>3. now' = now \/ now' = now + 1
    BY <1>1 DEF Tick, AllReplied, userVars
  <2> QED
    BY <2>1, <2>2, <2>3 DEF A!Next, A!Tick, A!accessVars
<1>2. ASSUME NEW c \in Call, (\E r \in Sent : Receive(c, r)) \/ HandlerStep(c) \/ QueryFails(c)
      PROVE  A!Next \/ UNCHANGED A!accessVars
  <2>1. now' = now /\ \A d \in Call : d # c => Same(d)
    BY <1>2, Tables, OthersSame
  <2>2. CASE \E r \in Sent : Receive(c, r)
    BY <2>1, <2>2, Acts, Tables, ArriveImplements DEF A!Next
  <2>3. CASE ReadProfile(c) \/ ReadUser(c) \/ ReadOldPassword(c) \/ ReadSession(c)
    BY <2>1, <2>3, Acts, Tables, ReadsImplements DEF A!Next
  <2>4. CASE InsertUser(c) \/ UpdatePassword(c) \/ UpdateProfile(c) \/ StoreSession(c)
    BY <2>1, <2>4, WritesImplements DEF A!Next
  <2>5. CASE MakeAccess(c) \/ MakeRefresh(c) \/ ReadClock(c)
    BY <2>1, <2>5, Acts, Tables, MakesImplements DEF A!Next
  <2>6. CASE QueryFails(c)
    <3>1. Fails(c) /\ UNCHANGED <<users, sessions>>
      BY <2>6, Acts, Tables
    <3>2. Active(c) /\ Keeps(c) /\ KeepsLocals(c) /\ stage'[c] = "replied" /\ passwords' = passwords
      BY <3>1, PasswordsAre DEF Fails, Ends, Active, WriteStage
    <3>3. A!End({c})
      BY <2>1, <3>1, <3>2, Ended
    <3> QED
      BY <3>3 DEF A!Next
  <2> QED
    BY <1>2, <2>2, <2>3, <2>4, <2>5, <2>6 DEF HandlerStep
<1> QED
  BY <1>1, <1>2 DEF UserNext

\* The handlers implement Access: nobody makes a token, opens a session or sets
\* a password who has not shown what Access asks for, in one instant, although
\* the handlers ask in several statements and readings of the clock
\* (api/user.go, api/token.go).
THEOREM UsersImplementAccess == UserSpec => AccessSpec
<1>1. UserInv => HandlerInv
  BY DEF UserInv
<1> QED
  BY <1>1, InitImplements, StepImplements, UserInvariant, PTL DEF UserSpec, AccessSpec, A!Spec

=============================================================================
