------------------------------- MODULE Tokens -------------------------------
(***************************************************************************)
(* token/jwt/maker.go: tokens that carry a name and an expiry, and that    *)
(* only the holder of the key can make.  Time is counted in ticks, a       *)
(* number of which make the second to which a token rounds its dates.      *)
(***************************************************************************)
EXTENDS Integers

CONSTANTS
    User,           \* usernames
    Call,           \* requests; a token is named after the one that made it
    Second,         \* ticks in a second (jwt.TimePrecision)
    TokenLeeway,    \* ticks a token is accepted after its expiry
    Garbage         \* what a client may send that no maker signed

\* The leeway is 30 seconds.
ASSUME TokenAssumption ==
    /\ Second \in Nat \ {0}
    /\ TokenLeeway \in Nat
    /\ Second <= TokenLeeway

TokenId == [by : Call, use : {"access", "refresh"}]
Token == [id : TokenId, username : User, exp : Int]

\* The payload CreateToken returns beside the token keeps the exact expiry.
Issued == [token : Token, expiredAt : Int]

\* jwt.NewNumericDate drops what is less than a second.
NumericDate(t) == t - (t % Second)

CreateToken(id, username, duration, now) ==
    [token |-> [id |-> id, username |-> username, exp |-> NumericDate(now + duration)],
     expiredAt |-> now + duration]

\* Mutant of VerifyToken: the parser is called without WithLeeway.
VerifyTokenStrictly(token, now) == token # Garbage /\ now < token.exp

VerifyToken(token, now) == token # Garbage /\ now < token.exp + TokenLeeway

=============================================================================
