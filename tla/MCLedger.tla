------------------------------ MODULE MCLedger ------------------------------
(* Small instances of LedgerChain for TLC. *)
EXTENDS LedgerChain

CONSTANTS t1, t2, c1, c2, a1, alice, bob, clearing, usd, bdt

Line(w, d, n, c) == [account |-> w, direction |-> d, cents |-> n, currency |-> c]

\* t1 as an execution posts it before and after its row is converted; t2 in two
\* currencies, once balanced only over both of them, and with amounts of zero.
Postings ==
  [t \in Txs |->
    IF t = t1
    THEN {<<Line(alice, "debit", 1, usd), Line(bob, "credit", 1, usd)>>,
          <<Line(alice, "debit", 1, usd), Line(clearing, "credit", 1, usd),
            Line(clearing, "debit", 2, bdt), Line(bob, "credit", 2, bdt)>>}
    ELSE {<<Line(bob, "debit", 1, usd), Line(alice, "credit", 1, usd)>>,
          <<Line(bob, "debit", 1, usd), Line(alice, "credit", 1, bdt)>>,
          <<Line(bob, "debit", 0, usd), Line(alice, "credit", 0, usd)>>}]
=============================================================================
