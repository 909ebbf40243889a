------------------------------- MODULE Access -------------------------------
(***************************************************************************)
(* What the user service promises, without tables, tokens or statements:   *)
(* who may do what in whose name, and until when.                          *)
(*                                                                         *)
(* A request is "outside" until it has shown something: a token that has   *)
(* not run out lets it in, and it is "proven" once it has shown the        *)
(* password in force, or a session that was open when it arrived.  Only    *)
(* proven requests make tokens, open sessions or set passwords, and only   *)
(* for the user they claim to be.  Each is one step: nothing that is true  *)
(* when a claim is judged may have become false before it is acted on,     *)
(* except the password itself.                                             *)
(***************************************************************************)
EXTENDS Integers

CONSTANTS
    Call,           \* requests
    NoPassword,     \* of a user who is not registered
    Leeway,         \* how long a token is accepted after it ran out
    Lifetime,       \* for how long tokens are made
    NoClaim,        \* of a request that has not arrived
    Stranger        \* the claim of a request that names no user

VARIABLES
    now,        \* the clock
    password,   \* of every user
    claim,      \* what a request shows: a user, a password, a token, a new password
    since,      \* when it arrived
    role,       \* what it has earned
    made,       \* tokens: id |-> user and instant at which it runs out
    open        \* the tokens that have a session

accessVars == <<now, password, claim, since, role, made, open>>

Init ==
    /\ now = 0
    /\ \A c \in Call : claim[c] = NoClaim /\ role[c] = "outside"
    /\ DOMAIN made = {}
    /\ open = {}

\* The request goes on, or it ends with this step.
GoesOn(c) == role' \in {role, [role EXCEPT ![c] = "outside"]}

Tick ==
    /\ now' = now + 1
    /\ UNCHANGED <<password, claim, since, role, made, open>>

\* A request arrives, and is let in by a token that is its user's.
Arrive(c) ==
    LET k == claim'[c] IN
    /\ claim[c] = NoClaim
    /\ k # NoClaim
    /\ claim' = [claim EXCEPT ![c] = k]
    /\ since' = [since EXCEPT ![c] = now]
    /\ \/ UNCHANGED role
       \/ /\ k # Stranger
          /\ k.token \in DOMAIN made
          /\ made[k.token].user = k.user
          /\ now < made[k.token].until + Leeway
          /\ role' = [role EXCEPT ![c] = "inside"]
    /\ UNCHANGED <<now, password, made, open>>

\* A name that nobody has is registered.
Register(c) ==
    LET k == claim[c] IN
    /\ k \notin {NoClaim, Stranger}
    /\ password[k.user] = NoPassword
    /\ k.new # NoPassword
    /\ password' = [password EXCEPT ![k.user] = k.new]
    /\ UNCHANGED <<now, claim, since, role, made, open>>

\* Who sets a new password shows a token besides the old one.
ByPassword(c, k) ==
    /\ k.password # NoPassword
    /\ k.password = password[k.user]
    /\ k.new # NoPassword => role[c] = "inside"

\* Leeway and delays of the request do not count: it must have arrived before
\* the session ended.
BySession(c, k) ==
    /\ role[c] = "inside"
    /\ k.token \in open
    /\ since[c] < made[k.token].until

Prove(c) ==
    LET k == claim[c] IN
    /\ k \notin {NoClaim, Stranger}
    /\ ByPassword(c, k) \/ BySession(c, k)
    /\ role' = [role EXCEPT ![c] = "proven"]
    /\ UNCHANGED <<now, password, claim, since, made, open>>

Make(c) ==
    /\ role[c] = "proven"
    /\ DOMAIN made \subseteq DOMAIN made'
    /\ \E d \in Lifetime, t \in DOMAIN made' \ DOMAIN made :
          made' = [x \in DOMAIN made \cup {t} |->
                     IF x = t THEN [user |-> claim[c].user, until |-> now + d] ELSE made[x]]
    /\ GoesOn(c)
    /\ UNCHANGED <<now, password, claim, since, open>>

Open(c) ==
    /\ role[c] = "proven"
    /\ \E t \in DOMAIN made : made[t].user = claim[c].user /\ open' = open \cup {t}
    /\ GoesOn(c)
    /\ UNCHANGED <<now, password, claim, since, made>>

SetPassword(c) ==
    /\ role[c] = "proven"
    /\ claim[c].new # NoPassword
    /\ password' = [password EXCEPT ![claim[c].user] = claim[c].new]
    /\ GoesOn(c)
    /\ UNCHANGED <<now, claim, since, made, open>>

\* Any number of requests end at once.
End(S) ==
    /\ role' = [c \in Call |-> IF c \in S THEN "outside" ELSE role[c]]
    /\ UNCHANGED <<now, password, claim, since, made, open>>

Next ==
    \/ Tick
    \/ \E c \in Call :
          Arrive(c) \/ Register(c) \/ Prove(c) \/ Make(c) \/ Open(c) \/ SetPassword(c)
    \/ \E S \in SUBSET Call : End(S)

Spec == Init /\ [][Next]_accessVars

=============================================================================
