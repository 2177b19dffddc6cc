--------------------------- MODULE TransferEscrow ---------------------------
(***************************************************************************)
(* The transfers of Transfer implement Escrow: the operations recorded by  *)
(* account-service say where the money is, the row what is announced.      *)
(***************************************************************************)
EXTENDS TransferInv, Functions

PhaseOf(t) ==
  IF Credited(t) THEN "recipient"
  ELSE IF Reversed(t) THEN "refunded"
  ELSE IF Debited(t) THEN "held" ELSE "sender"

VerdictOn(t) == IF status[t] \in Terminal THEN status[t] ELSE "open"

Phase   == [t \in Txs |-> PhaseOf(t)]
Verdict == [t \in Txs |-> VerdictOn(t)]

Promise == INSTANCE Escrow WITH phase <- Phase, verdict <- Verdict

\* Every step of the transfers, the faults among them, is a step of the escrow
\* or changes nothing in it.
ImplementsEscrow == Promise!Spec

-----------------------------------------------------------------------------
(* The wallets and the history of transfers tell the same story.           *)

Paid(S)   == SumFunctionOnSet(amount, S)
Earned(S) == SumFunctionOnSet([t \in Txs |-> op[t]["credit"]], S)
Done      == {t \in Txs : status[t] = "COMPLETED"}

\* Once every row has a terminal status, each wallet differs from its opening
\* balance by exactly the transfers whose rows say COMPLETED.
BooksMatchHistory ==
  (\A t \in Txs : status[t] # "PROCESSING") =>
    \A w \in Wallets :
      balance[w] + Paid({t \in Done : sender[t] = w})
        = initial[w] + Earned({t \in Done : recipient[t] = w})

Total(f) == SumFunctionOnSet(f, Wallets)

\* In every state, also while workers are down and requests in flight: the
\* wallets' money and what transfers have taken and not refunded is the money
\* of the beginning and what recipients have received.  Money that has been
\* taken and not yet been paid or refunded is held, and nothing else is missing.
MoneyConserved ==
  Total(balance) + Paid({t \in Txs : PhaseOf(t) \in {"held", "recipient"}})
    = Total(initial) + Earned({t \in Txs : PhaseOf(t) = "recipient"})
=============================================================================
