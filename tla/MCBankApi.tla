------------------------------ MODULE MCBankApi ------------------------------
(***************************************************************************)
(* Instances of BankApi for TLC: the accounts of two owners, with an id    *)
(* left for a new account in either currency.                              *)
(***************************************************************************)
EXTENDS BankApi, TLC

CONSTANTS c1, c2, c3, alice, bob, usd, eur, gbp

Opened(owner, currency) == [owner |-> owner, currency |-> currency, balance |-> 0]

OneCurrency == (1 :> Opened(alice, usd)) @@ (2 :> Opened(bob, usd))

MCMinBigint == -2

Symmetric == Permutations(Call)

=============================================================================
