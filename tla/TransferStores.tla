--------------------------- MODULE TransferStores ---------------------------
(***************************************************************************)
(* What Transfer takes for granted of account-service and ledger-service is*)
(* what WalletStore and BatchStore promise, which WalletService and        *)
(* LedgerChain keep: its calls ask for nothing else and do nothing else.   *)
(***************************************************************************)
EXTENDS TransferEscrow, Integers, Sequences

\* The operation key "<id>:debit", "<id>:reversal" or "<id>:credit", and the
\* wallet and the amounts that come with it.
Keys == [tx : Txs, kind : Kinds \ {"batch"}]

Operation(k, cents) ==
  [wallet |-> WalletOf(k), key |-> k,
   delta  |-> IF k.kind = "debit" THEN -cents ELSE cents]

AmountsOf(t, kind) ==
  {amount[t]} \cup IF kind \in {"batch", "credit"} THEN {quoted[t]} ELSE {}

Operations ==
  UNION {{Operation(k, cents) : cents \in AmountsOf(k.tx, k.kind) \ {0}} :
           k \in Keys}

\* wallet_balance_operations: the delta of each key, at the key's wallet.
DeltaOf(k) == IF k.kind = "debit" THEN -op[k.tx][k.kind] ELSE op[k.tx][k.kind]
Deltas ==
  [w \in Wallets |->
     [k \in Keys |-> IF w = WalletOf(k) THEN DeltaOf(k) ELSE 0]]

Accounts == INSTANCE WalletStore WITH
              opening <- initial, Requests <- Operations,
              created <- Wallets, op <- Deltas

\* Of a batch only the recipient's amount counts here.
Lists(t) == {<<cents>> : cents \in AmountsOf(t, "batch") \ {0}}
Batches  == [t \in Txs |-> IF batch[t] = 0 THEN <<>> ELSE <<batch[t]>>]

Ledger == INSTANCE BatchStore WITH
            Acceptable <- [t \in Txs |-> Lists(t)], recorded <- Batches

\* When it begins all wallets exist, have their opening balances, and nothing
\* is recorded.  Every step, a late request's among them, is one operation of
\* the account, or one batch of the ledger, or changes neither.
UsesStores ==
  /\ balance = initial /\ \A w \in Wallets, k \in Keys : Deltas[w][k] = 0
  /\ [][Accounts!Next]_<<balance, Deltas>>
  /\ Ledger!Spec
=============================================================================
