---------------------------- MODULE WalletStore ----------------------------
(***************************************************************************)
(* What account-service promises its callers: an operation moves a wallet's*)
(* balance once per key, together with its record, and never below zero.   *)
(***************************************************************************)
EXTENDS Integers

CONSTANTS Wallets, Keys,
          opening,     \* initialBalanceCents of a wallet
          Active,      \* wallets whose status is 'active'
          Requests     \* the operations that are asked for

VARIABLES created, balance, op

Init ==
  /\ created = {}
  /\ balance = [w \in Wallets |-> 0]
  /\ op = [w \in Wallets |-> [k \in Keys |-> 0]]

CreateWallet(w) ==
  /\ w \notin created
  /\ created' = created \cup {w}
  /\ balance' = [balance EXCEPT ![w] = opening[w]]
  /\ UNCHANGED op

Apply(m) ==
  /\ op[m.wallet][m.key] = 0
  /\ m.wallet \in created \cap Active /\ balance[m.wallet] + m.delta >= 0
  /\ balance' = [balance EXCEPT ![m.wallet] = balance[m.wallet] + m.delta]
  /\ op' = [op EXCEPT ![m.wallet][m.key] = m.delta]
  /\ UNCHANGED created

Next == (\E w \in Wallets : CreateWallet(w)) \/ (\E m \in Requests : Apply(m))

Spec == Init /\ [][Next]_<<created, balance, op>>
=============================================================================
