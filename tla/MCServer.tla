------------------------------ MODULE MCServer ------------------------------
(***************************************************************************)
(* An instance of Server for TLC: two users, one of them registered.       *)
(***************************************************************************)
EXTENDS Server, TLC

CONSTANTS c1, c2, alice, bob, p1, a1, b1

OneUser == alice :> [password |-> p1, email |-> a1]

AllLong == [rest |-> {}, grpc |-> {}]

=============================================================================
