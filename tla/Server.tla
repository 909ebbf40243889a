------------------------------- MODULE Server -------------------------------
(***************************************************************************)
(* The process around the user service: how cmd/main.go starts it, the     *)
(* three doors by which a request reaches a handler, and what becomes of   *)
(* requests when a client leaves or the process ends.                      *)
(*                                                                         *)
(*   gin      the REST handlers of api/;                                   *)
(*   rpc      the gRPC service, for clients of its own port;               *)
(*   gateway  HTTP requests below /v1/, each of which becomes a call of    *)
(*            that gRPC service over a connection of the process to itself.*)
(*                                                                         *)
(* Memory ends with the process; the tables do not.  A statement that was  *)
(* on its way to PostgreSQL when the process ended may still be executed.  *)
(***************************************************************************)
EXTENDS UserApi

CONSTANTS
    MaxExits        \* bound: how often the process ends

ASSUME ServerAssumption == MaxExits \in Nat

VARIABLES
    main,       \* the main goroutine
    rpc,        \* the goroutine of the gRPC server
    conn,       \* the connection of the gateway to the gRPC server
    door,       \* the door a request came through, "none" before
    told,       \* what the client of a request was told, 0 before
    exits,      \* how often the process ended
    \* Only for the properties:
    wrote       \* how many statements of a request changed a table

process == <<main, rpc, conn, exits>>
clients == <<door, told>>
serverVars == <<userVars, process, clients, wrote>>

Door == {"gin", "rpc", "gateway"}

\* Not an answer: the client left, or its connection broke.
Lost == 499

InProgress(c) == door[c] # "none" /\ stage[c] \notin {"idle", "replied"}

\* The requests whose answer 200 means a new row, and those that may find the
\* row as they want it.
Inserts == {"createUser", "login"}
Updates == {"updateUser", "changePassword"}

\* A request of the gateway whose call has not been sent.
Picking(c) == door[c] = "gateway" /\ stage[c] = "idle" /\ told[c] = 0

\* The two servers of a process live and end together.
ServerTypeOK ==
    /\ UserTypeOK
    /\ main \in {"down", "wiring", "serving"}
    /\ rpc \in {"none", "starting", "serving"}
    /\ conn \in {"idle", "connecting", "ready", "failed"}
    /\ door \in [Call -> Door \cup {"none"}]
    /\ told \in [Call -> UserStatus \cup {Lost, 503}]
    /\ exits \in 0 .. MaxExits
    /\ wrote \in [Call -> Nat]
    /\ main = "down" <=> rpc = "none"

ServerInit ==
    /\ UserInit
    /\ main = "down"
    /\ rpc = "none"
    /\ conn = "idle"
    /\ door = [c \in Call |-> "none"]
    /\ told = [c \in Call |-> 0]
    /\ exits = 0
    /\ wrote = [c \in Call |-> 0]

-----------------------------------------------------------------------------
\* The process.

\* main up to the goroutine it starts for the gRPC server.  Errors before
\* that end a process that did nothing.
Start ==
    /\ main = "down"
    /\ main' = "wiring"
    /\ rpc' = "starting"
    /\ conn' = "idle"
    /\ UNCHANGED <<userVars, exits, clients, wrote>>

\* Mutant of ServeHttp: grpcServer.Start is called without "go".
ServeHttpAfterRpc ==
    /\ main = "wiring"
    /\ rpc = "none"
    /\ main' = "serving"
    /\ UNCHANGED <<userVars, rpc, conn, exits, clients, wrote>>

\* The gateway, the two patterns, and ListenAndServe.  The gateway does not
\* dial before its first request.
ServeHttp ==
    /\ main = "wiring"
    /\ main' = "serving"
    /\ UNCHANGED <<userVars, rpc, conn, exits, clients, wrote>>

\* gapi's Start: listen, register the service, serve.
ServeRpc ==
    /\ rpc = "starting"
    /\ rpc' = "serving"
    /\ UNCHANGED <<userVars, main, conn, exits, clients, wrote>>

\* Mutant of Exit: the sessions are kept by the process.
ExitLosesSessions ==
    /\ main # "down"
    /\ exits < MaxExits
    /\ exits' = exits + 1
    /\ main' = "down"
    /\ rpc' = "none"
    /\ conn' = "idle"
    /\ sessions' = [id \in {} |-> None]
    /\ stage' = [c \in Call |-> IF stage[c] = "idle" THEN "idle" ELSE "replied"]
    /\ told' = [c \in Call |-> IF door[c] # "none" /\ told[c] = 0 THEN Lost ELSE told[c]]
    /\ UNCHANGED <<users, now, req, locals, status, faults, since, seen, door, wrote>>

\* The process ends: no deferred call is run, no request is waited for.
Exit ==
    /\ main # "down"
    /\ exits < MaxExits
    /\ exits' = exits + 1
    /\ main' = "down"
    /\ rpc' = "none"
    /\ conn' = "idle"
    /\ \E sent \in SUBSET {c \in Call : stage[c] \in WriteStage} :
          stage' = [c \in Call |-> IF stage[c] = "idle" \/ c \in sent THEN stage[c] ELSE "replied"]
    /\ told' = [c \in Call |-> IF door[c] # "none" /\ told[c] = 0 THEN Lost ELSE told[c]]
    /\ UNCHANGED <<users, sessions, now, req, locals, status, faults, since, seen, door, wrote>>

\* Mutant of RpcFails: the error is logged and the process goes on.
RpcFailsAlone ==
    /\ rpc # "none"
    /\ exits < MaxExits
    /\ exits' = exits + 1
    /\ rpc' = "none"
    /\ UNCHANGED <<userVars, main, conn, clients, wrote>>

\* The port of the gRPC server is taken, or Accept fails: log.Fatal.
RpcFails == rpc # "none" /\ Exit

\* The same for ListenAndServe, or the process is killed.
HttpFails == Exit

-----------------------------------------------------------------------------
\* The connection of the gateway.  While it cannot be made, calls fail at once;
\* it is tried again without being asked to, and given up when it is not used.
Dial ==
    /\ conn = "connecting"
    /\ conn' \in (IF rpc = "serving" THEN {"ready"} ELSE {"failed"})
    /\ UNCHANGED <<userVars, main, rpc, exits, clients, wrote>>

Redial ==
    /\ conn = "failed"
    /\ rpc = "serving"
    /\ conn' = "ready"
    /\ UNCHANGED <<userVars, main, rpc, exits, clients, wrote>>

GoIdle ==
    /\ conn \in {"ready", "failed"}
    /\ \A c \in Call : door[c] = "gateway" => ~InProgress(c) /\ ~Picking(c)
    /\ conn' = "idle"
    /\ UNCHANGED <<userVars, main, rpc, exits, clients, wrote>>

-----------------------------------------------------------------------------
\* Requests.

\* The methods of the gRPC service, which are also the routes of the gateway.
Rpc(r) == r.kind = "getUser" \/ (Public(r) /\ r.front = "grpc")

\* The tokens clients were given.
Delivered ==
    UNION {{access[c], refresh[c]} \ {None} : c \in {d \in Call : told[d] = 200}}

Possible ==
    {r \in Sent : /\ r.kind \in Kind
                  /\ Public(r) \/ r.token \in {i.token : i \in Delivered} \cup {Garbage}}

Enter(c, d) ==
    /\ door[c] = "none"
    /\ door' = [door EXCEPT ![c] = d]
    /\ UNCHANGED <<main, rpc, exits, wrote>>

\* A request of gin, and one of the gRPC server behind its interceptor.
EnterGin(c, r) ==
    /\ main = "serving"
    /\ r.kind = "getUser" \/ ~Rpc(r)
    /\ Enter(c, "gin")
    /\ Receive(c, r)
    /\ UNCHANGED <<conn, told>>

EnterRpc(c, r) ==
    /\ rpc = "serving"
    /\ Rpc(r)
    /\ Enter(c, "rpc")
    /\ Receive(c, r)
    /\ UNCHANGED <<conn, told>>

\* A request of the gateway: a body that cannot be decoded is refused here,
\* any other request asks for a connection.
EnterGateway(c, r) ==
    /\ main = "serving"
    /\ Rpc(r)
    /\ Enter(c, "gateway")
    /\ \/ /\ Public(r)
          /\ told' = [told EXCEPT ![c] = 400]
          /\ UNCHANGED conn
       \/ /\ conn' = IF conn = "idle" THEN "connecting" ELSE conn
          /\ UNCHANGED told
    /\ req' = [req EXCEPT ![c] = r]
    /\ UNCHANGED <<users, sessions, now, stage, locals, status, faults, since, seen>>

\* Mutant of Invoke: a call that was answered 503 stays in the queue.
InvokeAnswered(c) ==
    /\ door[c] = "gateway"
    /\ stage[c] = "idle"
    /\ conn = "ready"
    /\ Receive(c, req[c])
    /\ UNCHANGED <<process, clients, wrote>>

\* The call of the client of pb, and the handler of pb that calls gapi.
Invoke(c) ==
    /\ Picking(c)
    /\ conn = "ready"
    /\ Receive(c, req[c])
    /\ UNCHANGED <<process, clients, wrote>>

\* gapi/error.go and the gateway's HTTP status of a code.
RpcCode(s) ==
    CASE s = 200 -> "OK"
      [] s = 400 -> "InvalidArgument"
      [] s = 401 -> "Unauthenticated"
      [] s = 403 -> "PermissionDenied"
      [] s = 404 -> "NotFound"
      [] s = 409 -> "AlreadyExists"
      [] OTHER -> "Internal"

HTTPStatusFromCode(code) ==
    CASE code = "OK" -> 200
      [] code = "InvalidArgument" -> 400
      [] code = "Unauthenticated" -> 401
      [] code = "PermissionDenied" -> 403
      [] code = "NotFound" -> 404
      [] code = "AlreadyExists" -> 409
      [] code = "Unavailable" -> 503
      [] OTHER -> 500

\* The call fails because there is no connection.
Unavailable(c) ==
    /\ Picking(c)
    /\ conn = "failed"
    /\ told' = [told EXCEPT ![c] = HTTPStatusFromCode("Unavailable")]
    /\ UNCHANGED <<userVars, process, door, wrote>>

\* What the status of an answer is to the client.
Shown(c) == IF door[c] = "gin" THEN status[c] ELSE HTTPStatusFromCode(RpcCode(status[c]))

\* The answer reaches the client.
Deliver(c) ==
    /\ stage[c] = "replied"
    /\ told[c] = 0
    /\ told' = [told EXCEPT ![c] = Shown(c)]
    /\ UNCHANGED <<userVars, process, door, wrote>>

\* The client does not wait for the answer.
Leave(c) ==
    /\ door[c] # "none"
    /\ told[c] = 0
    /\ told' = [told EXCEPT ![c] = Lost]
    /\ UNCHANGED <<userVars, process, door, wrote>>

\* The context of a call ends with its client, and its next query fails.  The
\* handlers of gin pass a context that never ends.
Cancelled(c) ==
    /\ door[c] \in {"rpc", "gateway"}
    /\ told[c] = Lost
    /\ stage[c] \in WriteStage \cup {"readUser"}
    /\ Reply(c, 500)
    /\ UNCHANGED <<users, sessions, now, req, locals, faults, since, seen, process, clients, wrote>>

\* A handler goes on.
Work(c) ==
    /\ HandlerStep(c)
    /\ wrote' = IF <<users, sessions>>' = <<users, sessions>> THEN wrote
                ELSE [wrote EXCEPT ![c] = @ + 1]
    /\ UNCHANGED <<process, clients>>

Others ==
    /\ Tick \/ \E c \in Call : QueryFails(c)
    /\ UNCHANGED <<process, clients, wrote>>

Quiet == (\A c \in Call : told[c] # 0 /\ ~InProgress(c)) /\ UNCHANGED serverVars

ServerNext ==
    \/ Start \/ ServeHttp \/ ServeRpc \/ RpcFails \/ HttpFails
    \/ Dial \/ Redial \/ GoIdle
    \/ \E c \in Call, r \in Possible : EnterGin(c, r) \/ EnterRpc(c, r) \/ EnterGateway(c, r)
    \/ \E c \in Call :
          Invoke(c) \/ Unavailable(c) \/ Work(c) \/ Deliver(c) \/ Leave(c) \/ Cancelled(c)
    \/ Others
    \/ Quiet

ServerSpec == ServerInit /\ [][ServerNext]_serverVars

\* The goroutines of a process that was started go on, and the connection is
\* tried again.  Nothing ends the process, restarts it or sends a request.
ServerFairSpec ==
    ServerSpec /\ WF_serverVars(ServeHttp) /\ WF_serverVars(ServeRpc)
               /\ WF_serverVars(Dial) /\ WF_serverVars(Redial)

-----------------------------------------------------------------------------
(***************************************************************************)
(* The inductive invariant: where a request is between its door and its    *)
(* answer, and what it has done there                                      *)
(***************************************************************************)

\* A request without a handler waits for the connection of the gateway, or did
\* so until its client was told.
DoorInv ==
    \A c \in Call :
        /\ door[c] = "none" <=> req[c] = NoRequest
        /\ stage[c] = "idle" /\ door[c] # "none" =>
              /\ door[c] = "gateway"
              /\ req[c] \in {r \in Sent : r.kind \in Kind}

\* An answer is that of the handler, which has ended, or of the gateway, which
\* will not call one.  Nobody waits for a handler or a process that is gone.
ToldInv ==
    \A c \in Call :
        /\ door[c] = "none" => told[c] = 0
        /\ told[c] \notin {0, Lost} =>
              \/ stage[c] = "idle" /\ told[c] \in {400, 503}
              \/ stage[c] = "replied" /\ status[c] # 0 /\ told[c] = Shown(c)
        /\ stage[c] = "replied" /\ status[c] = 0 => told[c] = Lost
        /\ main = "down" /\ door[c] # "none" => told[c] # 0

\* A request changes a table in its last step, and only there.
WroteInv ==
    \A c \in Call :
        /\ wrote[c] \in {0, 1}
        /\ wrote[c] = 1 =>
              /\ stage[c] = "replied"
              /\ status[c] \in {200, 500}
              /\ req[c].kind \in Inserts \cup Updates
        /\ status[c] = 200 /\ req[c].kind \in Inserts => wrote[c] = 1

ServerInv ==
    /\ ServerTypeOK
    /\ HandlerInv
    /\ DoorInv
    /\ ToldInv
    /\ WroteInv

-----------------------------------------------------------------------------
(***************************************************************************)
(* Properties                                                              *)
(***************************************************************************)

Effect(s) ==
    CASE s = 0 -> "nothing"
      [] s = 200 -> "done"
      [] s = 500 -> "failed"
      [] s = Lost -> "lost"
      [] OTHER -> "refused"

Asked(c) ==
    CASE door[c] = "none" -> "no"
      [] door[c] # "none" /\ req[c].kind \in Inserts -> "insert"
      [] door[c] # "none" /\ req[c].kind \in Updates -> "update"
      [] OTHER -> "read"

asks == [c \in Call |-> Asked(c)]
answers == [c \in Call |-> Effect(told[c])]

O == INSTANCE Once WITH
    asked <- asks,
    effects <- wrote,
    told <- answers

\* Through each of the three doors, and whatever is lost with a client or the
\* process: 200 means that the user or the session is stored, a 4xx and the
\* gateway's 503 that nothing is and nothing will be, and no request is
\* executed twice.
OnceSpec == O!Spec

\* A process that starts serves both protocols or ends: main waits for neither
\* server to start the other (cmd/main.go:39).
ComesUpWhole == main = "wiring" ~> main = "down" \/ (main = "serving" /\ rpc = "serving")

\* The gateway may meet a gRPC server that does not listen yet, but does not
\* answer 503 for ever: a gRPC server that cannot serve ends the process
\* (cmd/main.go:39-41).
GatewayRecovers == conn = "failed" ~> conn # "failed"

=============================================================================
