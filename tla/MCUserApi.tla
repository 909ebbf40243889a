------------------------------ MODULE MCUserApi ------------------------------
(***************************************************************************)
(* Instances of UserApi for TLC.  A second has two ticks, so a token made  *)
(* at an odd tick carries an earlier expiry than its payload.              *)
(***************************************************************************)
EXTENDS UserApi, TLC

CONSTANTS c1, c2, c3, c4, alice, bob, p1, p2, p3, a1, b1

OneUser == alice :> [password |-> p1, email |-> a1]

NoUsers == [u \in {} |-> None]

\* p3 is short in runes and long enough in bytes.
RunesAndBytes == [rest |-> {p3}, grpc |-> {}]
AllLong == [rest |-> {}, grpc |-> {}]

Symmetric == Permutations(Call)

=============================================================================
