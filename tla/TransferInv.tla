---------------------------- MODULE TransferInv -----------------------------
(***************************************************************************)
(* The inductive invariants behind the safety properties of Transfer.      *)
(***************************************************************************)
EXTENDS Transfer

Batched(t) == batch[t] # 0

-----------------------------------------------------------------------------
(* Without the lease.  What a worker is about to do rests on what is       *)
(* already recorded, and records are never taken back; so does what a late *)
(* request will do.                                                        *)

WorkerBacked(w) ==
  LET t == row[w].tx IN
  /\ pc[w] \in {"batch", "reversal"} => Debited(t)
  /\ pc[w] = "credit" => Debited(t) /\ Batched(t)
  /\ pc[w] = "complete" => Credited(t)
  /\ pc[w] = "markReversed" => Reversed(t)
  /\ pc[w] = "getBatch" /\ reversalSeen[w] => Reversed(t)

MessageBacked(m) ==
  /\ m.kind # "debit" => Debited(m.tx)
  /\ m.kind = "credit" => Batched(m.tx)

\* The strengthening of Backed that every step preserves, under every fault:
\* each worker's program counter is evidence of the calls served before it.
BackedInv ==
  /\ Backed
  /\ \A w \in Workers : WorkerBacked(w)
  /\ \A m \in late : MessageBacked(m)

-----------------------------------------------------------------------------
(* With the lease: leases are not lost under their holder, Redis is up when*)
(* a lease is acquired, and no reversal lands after its caller gave up.    *)

LeaseHolds ==
  Faults \cap {"outage", "lapse"} = {} /\ "reversal" \notin LateKinds

Running(w) == pc[w] \in RunSteps \ {"release"}

CreditUnderway(t) == \E m \in late : m.tx = t /\ m.kind = "credit"

\* What a running worker has read is still so.
WorkerExclusive(w) ==
  LET t == row[w].tx IN
  /\ Running(w) => lease[t] = w
  /\ pc[w] = "getBatch" => (reversalSeen[w] <=> Reversed(t))
  /\ pc[w] \in {"debit", "batch", "credit"} => ~Reversed(t)
  /\ pc[w] \in {"debit", "batch", "reversal"} =>
       ~Credited(t) /\ ~CreditUnderway(t)

MessageExclusive(m) ==
  m.kind # "reversal" /\ (m.kind = "credit" => ~Reversed(m.tx))

\* The strengthening of NoMoneyCreated: an execution that may still refund has
\* seen that nobody pays, one that may still pay has seen that nobody refunds,
\* and its lease keeps both true.
ExclusiveInv ==
  /\ NoMoneyCreated
  /\ \A w \in Workers : WorkerExclusive(w)
  /\ \A m \in late : MessageExclusive(m)

-----------------------------------------------------------------------------
(* With the clock: the FX branch of a request is over before its row is a  *)
(* minute old (it is bounded by 15 seconds and one write), so no recovery  *)
(* runs beside it.                                                         *)

ClockHolds == "stall" \notin Faults

\* Rows on which nobody but their own request has acted or may act.
Untouched(t) == pc[t] \in FxSteps \cup {"new"} \/ status[t] = "FAILED"

\* What the recipient gets, once the FX branch is over.
Due(t) == IF converted[t] THEN quoted[t] ELSE amount[t]

\* The row as the database has it: what a worker may act on.
Current(r) == ~Untouched(r.tx) /\ r.converted = converted[r.tx]

RowSettled(t) ==
  /\ pc[t] = "new" <=> status[t] = "absent"
  /\ pc[t] = "new" => ~converted[t] /\ ~row[t].converted
  /\ pc[t] \in FxSteps => status[t] = "PROCESSING"
  /\ row[t].tx = t /\ queue[t] = {}
  /\ t \in stale => ~Untouched(t)
  /\ Untouched(t) => ~Debited(t) /\ ~keyDone[t]

BooksSettled(t) ==
  /\ Debited(t) => op[t]["debit"] = amount[t]
  /\ Reversed(t) => op[t]["reversal"] = amount[t]
  /\ Credited(t) => op[t]["credit"] = Due(t)
  /\ Batched(t) => batch[t] = Due(t)

WorkerSettled(w) ==
  /\ pc[w] \in RunSteps \cup {"acquire"} => Current(row[w])
  /\ \A r \in queue[w] : Current(r)

MessageSettled(m) ==
  /\ ~Untouched(m.tx)
  /\ m.cents = IF m.kind \in {"batch", "credit"} THEN Due(m.tx)
               ELSE amount[m.tx]

\* The strengthening of FirstWriterWins and LedgerAgrees: a row that others act
\* on is past its FX branch, so that all of them hold the same snapshot of it.
SettledInv ==
  /\ \A t \in Txs : RowSettled(t) /\ BooksSettled(t)
  /\ \A w \in Workers : WorkerSettled(w)
  /\ \A m \in late : MessageSettled(m)
=============================================================================
