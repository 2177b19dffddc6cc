------------------------------ MODULE MCWallet ------------------------------
(* A small instance of WalletService for TLC. *)
EXTENDS WalletService

CONSTANTS w1, w2, k1, k2, k3, c1, c2, c3

Funds == [w \in Wallets |-> IF w = w1 THEN 1 ELSE 0]

\* Two debits of one cent that w1 can pay for one at a time, a credit to it, and
\* an operation with the same key, on another wallet.
Operations ==
  {[wallet |-> w1, key |-> k1, delta |-> -1], [wallet |-> w1, key |-> k2, delta |-> -1],
   [wallet |-> w1, key |-> k3, delta |-> 1], [wallet |-> w2, key |-> k1, delta |-> 2]}
=============================================================================
