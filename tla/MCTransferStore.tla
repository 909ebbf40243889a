--------------------------- MODULE MCTransferStore ---------------------------
(***************************************************************************)
(* Instances of TransferStore for TLC: two accounts of two owners, one id  *)
(* that no account has at the start, and a BIGINT small enough to overflow.*)
(***************************************************************************)
EXTENDS TransferStore, TLC

CONSTANTS c1, c2, c3, alice, bob, usd

MCInitAccounts ==
    (1 :> [owner |-> alice, currency |-> usd, balance |-> 0]) @@
    (2 :> [owner |-> bob, currency |-> usd, balance |-> 0])

MCMinBigint == -2

Symmetric == Permutations(Call)

=============================================================================
