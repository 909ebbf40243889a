------------------------------ MODULE MCReadApi ------------------------------
(***************************************************************************)
(* Instances of ReadApi for TLC.  Page sizes start at 1 where the code's   *)
(* start at 1 or 5, and an int32 has three bits.                           *)
(***************************************************************************)
EXTENDS ReadApi, TLC

CONSTANTS c1, c2, alice, bob, carol, usd, eur, r1

MCInitAccounts ==
    (1 :> [owner |-> alice, currency |-> usd, balance |-> 0]) @@
    (2 :> [owner |-> bob, currency |-> usd, balance |-> 0])

MCMinBigint == -1

Smallest == [kind \in List |-> 1]
Largest == [kind \in List |-> IF kind = "listAccounts" THEN 1 ELSE 2]

Symmetric == Permutations(Call)

=============================================================================
