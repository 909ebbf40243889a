------------------------------- MODULE UserApi -------------------------------
(***************************************************************************)
(* Users, their passwords and their sessions: the handlers of api/user.go  *)
(* and api/token.go behind the middleware, and the gRPC service of gapi/   *)
(* behind its interceptor, which share the maker of tokens and the tables  *)
(* users and sessions.                                                     *)
(*                                                                         *)
(* A handler is a goroutine.  Each of its queries is a transaction of its  *)
(* own, and it reads the clock whenever it makes or verifies a token, so   *)
(* other requests run and time passes between any two of its steps.        *)
(*                                                                         *)
(* A status stands for the gRPC code that gapi/error.go gives in its place.*)
(***************************************************************************)
EXTENDS Tokens

CONSTANTS
    Password,               \* passwords, different in the bytes bcrypt reads
    TooLong,                \* those bcrypt refuses to hash
    TooShort,               \* those a front end refuses: rest counts runes, grpc bytes
    Email,
    AccessTokenDuration,
    RefreshTokenDuration,
    InitUsers,              \* the users table at the start
    NoPassword,             \* of a user who is not registered
    None,
    Front,                  \* bound: the front ends that are used
    Kind,                   \* bound: the kinds of request that are sent
    MaxTime,                \* bound: the last tick
    MaxFaults               \* bound: queries that fail

FrontEnd == {"rest", "grpc"}
UserRow == [password : Password \ TooLong, email : Email]
Session == [username : User, token : Token, expires : Int]

ASSUME UserAssumption ==
    /\ TooLong \subseteq Password
    /\ NoPassword \notin Password
    /\ TooShort \in [FrontEnd -> SUBSET Password]
    /\ Front \subseteq FrontEnd
    /\ AccessTokenDuration \in Int
    /\ RefreshTokenDuration \in Int
    /\ DOMAIN InitUsers \subseteq User
    /\ InitUsers \in [DOMAIN InitUsers -> UserRow]
    /\ None \notin Issued \cup Session
    /\ Garbage \notin Token
    /\ MaxTime \in Nat
    /\ MaxFaults \in Nat

VARIABLES
    users,      \* the users table: username |-> row
    sessions,   \* the sessions table: token id |-> row
    now,        \* the clock
    stage,      \* what the handler of a request does next
    req,        \* the request
    access,     \* the access token a handler made
    refresh,    \* the refresh token a handler made
    clock,      \* "now" of refreshToken
    status,     \* the status of the answer, 0 before it
    faults,     \* queries that failed so far
    \* Only for the properties:
    since,      \* when the request arrived
    seen        \* the passwords its user has had since then

locals == <<access, refresh, clock>>
userVars == <<users, sessions, now, stage, req, locals, status, faults, since, seen>>

Credential == Token \cup {Garbage}
CreateUser == [kind : {"createUser"}, front : FrontEnd, username : User, password : Password, email : Email]
LoginUser == [kind : {"login"}, front : FrontEnd, username : User, password : Password]
RefreshToken == [kind : {"refresh"}, token : Credential]
GetUser == [kind : {"getUser"}, token : Credential, username : User]
UpdateUser == [kind : {"updateUser"}, token : Credential, email : Email]
ChangePassword == [kind : {"changePassword"}, token : Credential, old : Password, new : Password]
LogoutUser == [kind : {"logout"}, token : Credential]
UserRequest == CreateUser \cup LoginUser \cup RefreshToken \cup GetUser \cup UpdateUser
                 \cup ChangePassword \cup LogoutUser
NoRequest == [kind |-> "none"]

UserStage == {"idle", "insertUser", "readUser", "updatePassword", "updateUser", "makeAccess",
              "makeRefresh", "storeSession", "readClock", "readSession", "replied"}
\* The handler ends with a statement that changes a table.
WriteStage == {"insertUser", "updatePassword", "updateUser", "storeSession"}
UserStatus == {0, 200, 400, 401, 403, 404, 409, 500, 501}

UserTypeOK ==
    /\ DOMAIN users \subseteq User
    /\ users \in [DOMAIN users -> UserRow]
    /\ DOMAIN sessions \subseteq TokenId
    /\ sessions \in [DOMAIN sessions -> Session]
    /\ now \in 0 .. MaxTime
    /\ stage \in [Call -> UserStage]
    /\ req \in [Call -> UserRequest \cup {NoRequest}]
    /\ access \in [Call -> Issued \cup {None}]
    /\ refresh \in [Call -> Issued \cup {None}]
    /\ clock \in [Call -> 0 .. MaxTime]
    /\ status \in [Call -> UserStatus]
    /\ faults \in 0 .. MaxFaults
    /\ since \in [Call -> 0 .. MaxTime]
    /\ seen \in [Call -> SUBSET (Password \cup {NoPassword})]

UserInit ==
    /\ users = InitUsers
    /\ sessions = [id \in {} |-> None]
    /\ now = 0
    /\ stage = [c \in Call |-> "idle"]
    /\ req = [c \in Call |-> NoRequest]
    /\ access = [c \in Call |-> None]
    /\ refresh = [c \in Call |-> None]
    /\ clock = [c \in Call |-> 0]
    /\ status = [c \in Call |-> 0]
    /\ faults = 0
    /\ since = [c \in Call |-> 0]
    /\ seen = [c \in Call |-> {}]

-----------------------------------------------------------------------------
\* What a client can have: the tokens of the answers.
Given ==
    {access[c].token : c \in {d \in Call : status[d] = 200 /\ access[d] # None}}
      \cup {refresh[c].token : c \in {d \in Call : status[d] = 200 /\ refresh[d] # None}}

Public(r) == r.kind \in {"createUser", "login"}

\* The user a request is about: the name it gives, or that in its token.
Subject(r) == IF Public(r) THEN r.username ELSE r.token.username

\* The password a request presents for its user.
Presented(r) == IF r.kind = "login" THEN r.password ELSE r.old

PasswordOf(u) == IF u \in DOMAIN users THEN users[u].password ELSE NoPassword

SeenFirst(r) ==
    IF ~Public(r) /\ r.token = Garbage THEN {} ELSE {PasswordOf(Subject(r))}

Reply(c, s) ==
    /\ stage' = [stage EXCEPT ![c] = "replied"]
    /\ status' = [status EXCEPT ![c] = s]

Go(c, next) ==
    /\ stage' = [stage EXCEPT ![c] = next]
    /\ UNCHANGED status

FailQuery ==
    /\ faults < MaxFaults
    /\ faults' = faults + 1

\* A statement that changes a table was committed; the handler learns it, or
\* the connection is lost before the answer of the server.
ReplyCommitted(c) ==
    \/ Reply(c, 200) /\ UNCHANGED faults
    \/ Reply(c, 500) /\ FailQuery

\* Every request about u in progress has now seen password p.
SeeAll(u, p) ==
    seen' = [d \in Call |->
               IF stage[d] \notin {"idle", "replied"} /\ Subject(req[d]) = u
               THEN seen[d] \cup {p}
               ELSE seen[d]]

-----------------------------------------------------------------------------
\* The statements of db/sqlc on the two tables.
EmailTaken(u, email) == \E v \in DOMAIN users \ {u} : users[v].email = email

AddUser(r) ==
    users' = [u \in DOMAIN users \cup {r.username} |->
                IF u = r.username THEN [password |-> r.password, email |-> r.email] ELSE users[u]]

SetPassword(u, p) == users' = [users EXCEPT ![u].password = p]

SetEmail(u, email) == users' = [users EXCEPT ![u].email = email]

AddSession(row) ==
    sessions' = [id \in DOMAIN sessions \cup {row.token.id} |->
                   IF id = row.token.id THEN row ELSE sessions[id]]

SessionOf(id) == IF id \in DOMAIN sessions THEN sessions[id] ELSE None

\* Passwords differ in the bytes bcrypt reads.
CheckPassword(p, hashed) == p = hashed

-----------------------------------------------------------------------------
\* The middleware and the interceptor.
Authorized(r) == Public(r) \/ VerifyToken(r.token, now)

\* Mutant of Binds: the gRPC login counts runes where registration counts
\* bytes.
BindsLoginByRunes(r) ==
    CASE r.kind = "createUser" -> r.password \notin TooShort[r.front]
      [] r.kind = "login" -> r.password \notin TooShort["rest"]
      [] r.kind = "changePassword" ->
            {r.old, r.new} \cap TooShort["rest"] = {} /\ r.old # r.new
      [] OTHER -> TRUE

\* The binding tags, the validators of gapi, and updateUserPassword's own
\* check of its two passwords.
Binds(r) ==
    CASE Public(r) -> r.password \notin TooShort[r.front]
      [] r.kind = "changePassword" ->
            {r.old, r.new} \cap TooShort["rest"] = {} /\ r.old # r.new
      [] OTHER -> TRUE

\* Mutant of Refusal: the error of HashPassword is dropped.
RefusalWithoutHash(r) ==
    IF ~Authorized(r) THEN 401
    ELSE IF ~Binds(r) THEN 400
    ELSE IF r.kind = "getUser" /\ r.token.username # r.username THEN 403
    ELSE IF r.kind = "logout" THEN 501
    ELSE 0

\* The status of a request that is answered before any query, 0 for others:
\* the first check that fails decides.
Refusal(r) ==
    IF ~Authorized(r) THEN 401
    ELSE IF ~Binds(r) THEN 400
    ELSE IF r.kind = "createUser" /\ r.password \in TooLong THEN 500
    ELSE IF r.kind = "getUser" /\ r.token.username # r.username THEN 403
    ELSE IF r.kind = "logout" THEN 501
    ELSE 0

FirstQuery(r) ==
    CASE r.kind = "createUser" -> "insertUser"
      [] r.kind = "updateUser" -> "updateUser"
      [] r.kind = "refresh" -> "readClock"
      [] OTHER -> "readUser"

\* A request arrives.
Receive(c, r) ==
    /\ stage[c] = "idle"
    /\ req' = [req EXCEPT ![c] = r]
    /\ since' = [since EXCEPT ![c] = now]
    /\ seen' = [seen EXCEPT ![c] = SeenFirst(r)]
    /\ \/ Refusal(r) # 0 /\ Reply(c, Refusal(r))
       \/ Refusal(r) = 0 /\ Go(c, FirstQuery(r))
    /\ UNCHANGED <<users, sessions, now, locals, faults>>

\* INSERT INTO users: usernames are unique, and so are emails.
InsertUser(c) ==
    LET r == req[c]
        taken == r.username \in DOMAIN users \/ EmailTaken(r.username, r.email)
    IN
    /\ stage[c] = "insertUser"
    /\ \/ taken /\ Reply(c, 409) /\ UNCHANGED <<users, seen, faults>>
       \/ /\ ~taken
          /\ AddUser(r)
          /\ SeeAll(r.username, r.password)
          /\ ReplyCommitted(c)
    /\ UNCHANGED <<sessions, now, req, locals, since>>

\* getUser and profileUser.
ReadProfile(c) ==
    /\ stage[c] = "readUser"
    /\ req[c].kind = "getUser"
    /\ Reply(c, IF Subject(req[c]) \in DOMAIN users THEN 200 ELSE 404)
    /\ UNCHANGED <<users, sessions, now, req, locals, faults, since, seen>>

\* Mutant of ReadUser: loginUser goes on after an error of CheckPassword.
ReadUserUnchecked(c) ==
    LET known == Subject(req[c]) \in DOMAIN users IN
    /\ stage[c] = "readUser"
    /\ req[c].kind = "login"
    /\ \/ ~known /\ Reply(c, 404)
       \/ known /\ Go(c, "makeAccess")
    /\ UNCHANGED <<users, sessions, now, req, locals, faults, since, seen>>

\* loginUser compares the password.
ReadUser(c) ==
    LET r == req[c]
        known == Subject(r) \in DOMAIN users
        matches == CheckPassword(Presented(r), PasswordOf(Subject(r)))
    IN
    /\ stage[c] = "readUser"
    /\ r.kind = "login"
    /\ \/ ~known /\ Reply(c, 404)
       \/ known /\ ~matches /\ Reply(c, 401)
       \/ known /\ matches /\ Go(c, "makeAccess")
    /\ UNCHANGED <<users, sessions, now, req, locals, faults, since, seen>>

\* updateUserPassword compares the old password, and hashes the new one.
ReadOldPassword(c) ==
    LET r == req[c]
        known == Subject(r) \in DOMAIN users
        matches == CheckPassword(Presented(r), PasswordOf(Subject(r)))
    IN
    /\ stage[c] = "readUser"
    /\ r.kind = "changePassword"
    /\ \/ ~known /\ Reply(c, 404)
       \/ known /\ ~matches /\ Reply(c, 401)
       \/ known /\ matches /\ r.new \in TooLong /\ Reply(c, 500)
       \/ known /\ matches /\ r.new \notin TooLong /\ Go(c, "updatePassword")
    /\ UNCHANGED <<users, sessions, now, req, locals, faults, since, seen>>

\* Mutant of UpdatePassword: the hash is that of the old password.
UpdatePasswordKeepsOld(c) ==
    LET r == req[c]
        u == Subject(r)
    IN
    /\ stage[c] = "updatePassword"
    /\ SetPassword(u, r.old)
    /\ SeeAll(u, r.old)
    /\ ReplyCommitted(c)
    /\ UNCHANGED <<sessions, now, req, locals, since>>

\* UPDATE users SET hashed_password: whatever the row holds by now.
UpdatePassword(c) ==
    LET r == req[c]
        u == Subject(r)
    IN
    /\ stage[c] = "updatePassword"
    /\ SetPassword(u, r.new)
    /\ SeeAll(u, r.new)
    /\ ReplyCommitted(c)
    /\ UNCHANGED <<sessions, now, req, locals, since>>

\* UPDATE users SET full_name, email.
UpdateProfile(c) ==
    LET u == Subject(req[c])
        email == req[c].email
    IN
    /\ stage[c] = "updateUser"
    /\ \/ EmailTaken(u, email) /\ Reply(c, 409) /\ UNCHANGED <<users, faults>>
       \/ ~EmailTaken(u, email) /\ SetEmail(u, email) /\ ReplyCommitted(c)
    /\ UNCHANGED <<sessions, now, req, locals, since, seen>>

\* The access token of a login, or the one a refresh is for.
MakeAccess(c) ==
    LET r == req[c] IN
    /\ stage[c] = "makeAccess"
    /\ access' = [access EXCEPT ![c] =
                    CreateToken([by |-> c, use |-> "access"], Subject(r), AccessTokenDuration, now)]
    /\ \/ r.kind = "login" /\ Go(c, "makeRefresh")
       \/ r.kind = "refresh" /\ Reply(c, 200)
    /\ UNCHANGED <<users, sessions, now, req, refresh, clock, faults, since, seen>>

\* The refresh token of a login, by a reading of the clock of its own.
MakeRefresh(c) ==
    /\ stage[c] = "makeRefresh"
    /\ refresh' = [refresh EXCEPT ![c] =
                     CreateToken([by |-> c, use |-> "refresh"], Subject(req[c]), RefreshTokenDuration, now)]
    /\ Go(c, "storeSession")
    /\ UNCHANGED <<users, sessions, now, req, access, clock, faults, since, seen>>

\* Mutant of NewSession: the payload is that of the access token.
NewSessionOfAccess(c) ==
    [username |-> Subject(req[c]), token |-> refresh[c].token, expires |-> access[c].expiredAt]

NewSession(c) ==
    [username |-> Subject(req[c]), token |-> refresh[c].token, expires |-> refresh[c].expiredAt]

\* Mutant of StoreSession: an error of CreateSession is only logged.
StoreSessionUnchecked(c) ==
    /\ stage[c] = "storeSession"
    /\ \/ AddSession(NewSession(c)) /\ ReplyCommitted(c)
       \/ Reply(c, 200) /\ FailQuery /\ UNCHANGED sessions
    /\ UNCHANGED <<users, now, req, locals, since, seen>>

\* INSERT INTO sessions, and the answer with both tokens.
StoreSession(c) ==
    /\ stage[c] = "storeSession"
    /\ AddSession(NewSession(c))
    /\ ReplyCommitted(c)
    /\ UNCHANGED <<users, now, req, locals, since, seen>>

\* refreshToken takes the time once more, after VerifyToken took it.
ReadClock(c) ==
    /\ stage[c] = "readClock"
    /\ clock' = [clock EXCEPT ![c] = now]
    /\ Go(c, "readSession")
    /\ UNCHANGED <<users, sessions, now, req, access, refresh, faults, since, seen>>

\* Mutant of Usable: the expiry is left to VerifyToken.
UsableForever(row, token, instant) == row.username = token.username /\ row.token = token

\* What refreshToken asks of the session it read.  No statement ever blocks a
\* session.
Usable(row, token, instant) ==
    /\ row.username = token.username
    /\ row.token = token
    /\ instant < row.expires

\* GetSession and the checks of its row.
ReadSession(c) ==
    LET token == req[c].token
        row == SessionOf(token.id)
        usable == row # None /\ Usable(row, token, clock[c])
    IN
    /\ stage[c] = "readSession"
    /\ \/ ~usable /\ Reply(c, 401)
       \/ usable /\ Go(c, "makeAccess")
    /\ UNCHANGED <<users, sessions, now, req, locals, faults, since, seen>>

\* A query fails without effect, or the context of a gRPC call is cancelled:
\* any error of the store but those above is a 500.
QueryFails(c) ==
    /\ stage[c] \in WriteStage \cup {"readUser", "readSession"}
    /\ FailQuery
    /\ Reply(c, 500)
    /\ UNCHANGED <<users, sessions, now, req, locals, since, seen>>

Tick ==
    /\ now < MaxTime
    /\ now' = now + 1
    /\ UNCHANGED <<users, sessions, stage, req, locals, status, faults, since, seen>>

AllReplied == (\A c \in Call : stage[c] = "replied") /\ UNCHANGED userVars

\* What a client sends: tokens it was given, or garbage.
Sent ==
    {r \in CreateUser \cup LoginUser : r.front \in Front}
      \cup {[kind |-> k, token |-> t] : k \in {"refresh", "logout"}, t \in Given \cup {Garbage}}
      \cup {[kind |-> "getUser", token |-> t, username |-> u] : t \in Given \cup {Garbage}, u \in User}
      \cup {[kind |-> "updateUser", token |-> t, email |-> e] : t \in Given \cup {Garbage}, e \in Email}
      \cup {[kind |-> "changePassword", token |-> t, old |-> p, new |-> q] :
              t \in Given \cup {Garbage}, p \in Password, q \in Password}

HandlerStep(c) ==
    \/ InsertUser(c) \/ ReadProfile(c) \/ ReadUser(c) \/ ReadOldPassword(c)
    \/ UpdatePassword(c) \/ UpdateProfile(c)
    \/ MakeAccess(c) \/ MakeRefresh(c) \/ StoreSession(c)
    \/ ReadClock(c) \/ ReadSession(c)

UserNext ==
    \/ \E c \in Call, r \in {x \in Sent : x.kind \in Kind} : Receive(c, r)
    \/ \E c \in Call : HandlerStep(c) \/ QueryFails(c)
    \/ Tick
    \/ AllReplied

UserSpec == UserInit /\ [][UserNext]_userVars

-----------------------------------------------------------------------------
(***************************************************************************)
(* The inductive invariant: what a request has shown and done at each      *)
(* stage of its handler                                                    *)
(***************************************************************************)

\* The kind of a request at each stage.
StageInv ==
    \A c \in Call :
        LET r == req[c] IN
        /\ r = NoRequest => stage[c] = "idle"
        /\ status[c] # 0 => stage[c] = "replied"
        /\ stage[c] = "insertUser" => r \in CreateUser /\ r.password \notin TooLong
        /\ stage[c] = "readUser" => r \in LoginUser \cup GetUser \cup ChangePassword
        /\ stage[c] = "updatePassword" =>
              r \in ChangePassword /\ r.new \notin TooLong /\ Subject(r) \in DOMAIN users
        /\ stage[c] = "updateUser" => r \in UpdateUser
        /\ stage[c] = "makeAccess" => r \in LoginUser \cup RefreshToken
        /\ stage[c] \in {"makeRefresh", "storeSession"} => r \in LoginUser
        /\ stage[c] \in {"readClock", "readSession"} => r \in RefreshToken

\* What a request showed when it arrived: a token that some answer gave, and
\* that was accepted unless the answer is 401.
GateInv ==
    \A c \in Call :
        LET r == req[c]
            accepted == VerifyToken(r.token, since[c])
        IN
        /\ since[c] <= now
        /\ stage[c] # "idle" /\ Public(r) => (status[c] = 400 <=> ~Binds(r))
        /\ stage[c] # "idle" /\ ~Public(r) =>
              /\ r.token # Garbage => r.token \in Given
              /\ status[c] # 401 => accepted
              /\ r.kind \in {"getUser", "updateUser", "logout"} /\ status[c] = 401 => ~accepted

\* What CreateToken returned to handler c.
MadeBy(id) == IF id.use = "access" THEN access[id.by] ELSE refresh[id.by]
IsIssued(id) ==
    MadeBy(id).token = [id |-> id, username |-> Subject(req[id.by]), exp |-> NumericDate(MadeBy(id).expiredAt)]

TokenInv ==
    \A c \in Call :
        /\ access[c] # None =>
              /\ stage[c] \in {"makeRefresh", "storeSession", "replied"}
              /\ req[c] \in LoginUser \cup RefreshToken
              /\ IsIssued([by |-> c, use |-> "access"])
        /\ refresh[c] # None =>
              /\ stage[c] \in {"storeSession", "replied"}
              /\ req[c] \in LoginUser
              /\ IsIssued([by |-> c, use |-> "refresh"])
        /\ stage[c] = "storeSession" => refresh[c] # None

\* A session is that of a login, whose answer was not sent before; and a
\* refresh goes on only with one that was open when it arrived.
SessionInv ==
    /\ \A id \in DOMAIN sessions :
          /\ id.use = "refresh"
          /\ stage[id.by] = "replied"
          /\ refresh[id.by] # None
          /\ sessions[id] = NewSession(id.by)
    /\ \A c \in Call :
          /\ refresh[c] # None /\ status[c] = 200 => [by |-> c, use |-> "refresh"] \in DOMAIN sessions
          /\ stage[c] = "readSession" => since[c] <= clock[c] /\ clock[c] <= now
          /\ req[c].kind = "refresh" /\ (stage[c] = "makeAccess" \/ status[c] = 200) =>
                /\ req[c].token.id \in DOMAIN sessions
                /\ since[c] < sessions[req[c].token.id].expires

\* The password in force is one a request in progress has seen, and so is the
\* one it was compared with.
SeenInv ==
    \A c \in Call :
        LET r == req[c] IN
        /\ stage[c] \notin {"idle", "replied"} => PasswordOf(Subject(r)) \in seen[c]
        /\ r.kind = "login" /\ stage[c] \in {"makeAccess", "makeRefresh", "storeSession"} =>
              r.password \in seen[c]
        /\ stage[c] = "updatePassword" => r.old \in seen[c]

\* What holds of the handlers whatever the process around them does.
HandlerInv ==
    /\ UserTypeOK
    /\ StageInv
    /\ GateInv
    /\ TokenInv
    /\ SessionInv
    /\ SeenInv

\* A handler that nothing stops starts when its request is there, and ends
\* with a status.
AnswerInv ==
    \A c \in Call :
        /\ stage[c] = "idle" => req[c] = NoRequest
        /\ stage[c] = "replied" => status[c] # 0

UserInv == HandlerInv /\ AnswerInv

-----------------------------------------------------------------------------
(***************************************************************************)
(* Properties                                                              *)
(***************************************************************************)

\* The answer to a request that presents a password is true of some instant
\* between its arrival and its answer, whoever changed the password or
\* registered the name meanwhile (api/user.go: read, compare and write are
\* separate).  A change that was answered 200 was in force for a while, even
\* if another has replaced it.
AnswersTimely ==
    \A c \in Call :
        LET r == req[c] IN
        /\ r.kind = "login" =>
              /\ status[c] = 200 => r.password \in seen[c]
              /\ status[c] = 401 => seen[c] \ {r.password, NoPassword} # {}
              /\ status[c] = 404 => NoPassword \in seen[c]
        /\ r.kind = "changePassword" =>
              /\ status[c] = 200 => {r.old, r.new} \subseteq seen[c]
              /\ status[c] = 401 /\ VerifyToken(r.token, since[c]) => seen[c] \ {r.old} # {}

\* Nobody acts as a user without a login, answered before, whose password was
\* that user's at the time, however many refreshes and changes of the
\* password lie between the two.
AccessTracesToLogin ==
    \A c \in Call :
        stage[c] # "idle" /\ ~Public(req[c]) /\ status[c] # 401 =>
            \E d \in Call :
                /\ req[d].kind = "login"
                /\ status[d] = 200
                /\ req[d].username = req[c].token.username
                /\ req[d].password \in seen[d]
                /\ since[d] <= since[c]

\* A refresh that arrives after its session expired gets no token, although
\* its token is accepted for longer than the session (token/jwt/maker.go:14)
\* and "now" is read before the session is (api/token.go:49).
NoRefreshAfterExpiry ==
    \A c \in Call :
        req[c].kind = "refresh" /\ status[c] = 200 =>
            /\ req[c].token.id \in DOMAIN sessions
            /\ since[c] < sessions[req[c].token.id].expires

\* A refresh token that was handed out is good until the expiry it was made
\* with: no answer to a login goes out before its session is stored, or with
\* a session that cannot be found by it.
RefreshHonoured ==
    \A c \in Call :
        /\ req[c].kind = "refresh"
        /\ req[c].token # Garbage
        /\ req[c].token.id.use = "refresh"
        /\ status[c] = 401
        => refresh[req[c].token.id.by].expiredAt <= now

\* An access token is good until the instant the client was told
\* (access_token_expires_at), although the token itself holds an earlier one.
AccessHonoured ==
    \A c \in Call :
        /\ req[c].kind \in {"getUser", "updateUser", "logout"}
        /\ req[c].token # Garbage
        /\ req[c].token.id.use = "access"
        /\ status[c] = 401
        => access[req[c].token.id.by].expiredAt <= since[c]

\* Who registered over a front end and has kept the password can log in over
\* it: its two validators agree.
RegisteredCanLogIn ==
    \A c, d \in Call :
        /\ req[c].kind = "createUser" /\ status[c] = 200
        /\ req[d].kind = "login"
        /\ req[d].front = req[c].front
        /\ req[d].username = req[c].username
        /\ req[d].password = req[c].password
        /\ status[d] # 0
        /\ seen[d] = {req[d].password}
        => status[d] \in {200, 500}

(***************************************************************************)
(* The users, their sessions and the handlers implement Access.            *)
(***************************************************************************)
\* None and Garbage are no claims of a user.
ASSUME ClaimAssumption ==
    /\ None # Garbage
    /\ LET known == Password \cup {NoPassword}
       IN  {None, Garbage} \cap [user : User, password : known, new : known, token : TokenId \cup {None}] = {}

Claim(r) ==
    CASE r = NoRequest -> None
      [] r # NoRequest /\ ~Public(r) /\ r.token = Garbage -> Garbage
      [] OTHER ->
            [user |-> Subject(r),
             password |-> IF r.kind \in {"login", "changePassword"} THEN Presented(r) ELSE NoPassword,
             new |-> CASE r.kind = "createUser" -> r.password
                       [] r.kind = "changePassword" -> r.new
                       [] OTHER -> NoPassword,
             token |-> IF Public(r) THEN None ELSE r.token.id]

Role(c) ==
    CASE stage[c] \in {"updatePassword", "makeAccess", "makeRefresh", "storeSession"} -> "proven"
      [] stage[c] \in {"readUser", "updateUser", "readClock", "readSession"} /\ ~Public(req[c]) -> "inside"
      [] OTHER -> "outside"

passwords == [u \in User |-> PasswordOf(u)]
claims == [c \in Call |-> IF stage[c] = "idle" THEN None ELSE Claim(req[c])]
roles == [c \in Call |-> Role(c)]
tokens == [id \in {x \in TokenId : MadeBy(x) # None} |->
             [user |-> MadeBy(id).token.username, until |-> MadeBy(id).expiredAt]]

A == INSTANCE Access WITH
    Leeway <- TokenLeeway,
    Lifetime <- {AccessTokenDuration, RefreshTokenDuration},
    NoClaim <- None,
    Stranger <- Garbage,
    password <- passwords,
    claim <- claims,
    role <- roles,
    made <- tokens,
    open <- DOMAIN sessions

\* The handlers promise what Access does, although each judges a request in
\* one query and acts on it in another, reads the clock up to three times, and
\* verifies tokens whose expiry is rounded (api/user.go, api/token.go).
AccessSpec == A!Spec

=============================================================================
