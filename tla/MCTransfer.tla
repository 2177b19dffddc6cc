----------------------------- MODULE MCTransfer -----------------------------
(* Small instances of Transfer for TLC. *)
EXTENDS TransferEscrow

CONSTANTS t1, t2, r1, r2, alice, bob, carol

\* alice -> bob (t1), bob -> carol (t2)
Senders    == [t \in Txs |-> IF t = t1 THEN alice ELSE bob]
Recipients == [t \in Txs |-> IF t = t1 THEN bob ELSE carol]
Amounts    == [t \in Txs |-> IF t = t1 THEN 2 ELSE 1]
Quotes     == [t \in Txs |-> IF t = t1 THEN 3 ELSE 2]
\* the amount of t2 is worth less than a cent
Dust       == [t \in Txs |-> IF t = t1 THEN 3 ELSE 0]
\* alice can pay; bob can pay only with what alice sends him.
Opening    == [w \in Wallets |-> IF w = alice THEN 2 ELSE 0]
\* everybody can pay
Funded     == [w \in Wallets |-> 2]
=============================================================================
