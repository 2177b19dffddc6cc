----------------------------- MODULE BatchStore -----------------------------
(***************************************************************************)
(* What ledger-service promises its callers: each transaction gets at most *)
(* one batch, one of the lists posted for it, all at once and for good.    *)
(***************************************************************************)
EXTENDS Sequences

CONSTANTS Txs,
          Acceptable   \* per transaction the valid lists posted for it

VARIABLE recorded      \* per transaction its entries, <<>> before its batch

Init == recorded = [t \in Txs |-> <<>>]

CreateBatch(t) ==
  /\ recorded[t] = <<>>
  /\ \E es \in Acceptable[t] : recorded' = [recorded EXCEPT ![t] = es]

Next == \E t \in Txs : CreateBatch(t)

Spec == Init /\ [][Next]_recorded
=============================================================================
