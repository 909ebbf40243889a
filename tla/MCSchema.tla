------------------------------ MODULE MCSchema ------------------------------
(***************************************************************************)
(* An instance of Schema for TLC: two users with an account each, and an   *)
(* id for a third account.                                                 *)
(***************************************************************************)
EXTENDS Schema, TLC

CONSTANTS c1, c2, alice, bob, usd, eur

MCInitAccounts ==
    (1 :> [owner |-> alice, currency |-> usd, balance |-> 0]) @@
    (2 :> [owner |-> bob, currency |-> usd, balance |-> 0])

MCMinBigint == -2

Symmetric == Permutations(Call)

=============================================================================
