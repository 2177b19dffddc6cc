------------------------------ MODULE Transfer ------------------------------
(***************************************************************************)
(* The money path of NovaPay: transaction-service's initiate() and         *)
(* execute(), its recovery of stale rows, and the wallet operations and    *)
(* ledger batches they cause in account-service and ledger-service.        *)
(*                                                                         *)
(* A worker is whatever runs execute(): the live request of a transaction  *)
(* (named by the transaction itself) or a recoverer, that is, one replica's *)
(* scheduler or one POST /internal/recover.  A worker's step is one call it *)
(* awaits.  A wallet operation and a ledger batch are atomic here, because *)
(* each is one database transaction of the service that owns it.           *)
(***************************************************************************)
EXTENDS Naturals, FiniteSets

CONSTANTS
  Txs,            \* accepted transfer requests, one idempotency key each
  International,  \* those sent to POST /transfers/international
  Mismatched,     \* those whose quote is for other currencies
  Recoverers,     \* schedulers and manual recoveries that may run at once
  Wallets,
  Active,         \* wallets that exist and are active
  sender, recipient,
  amount,         \* amountCents
  quoted,         \* cents(amountCents, rate) of the request's quote
  initial,        \* opening balances
  NoOne, Orphan,  \* lease values: the key is absent; its token has no holder
  Faults,         \* the kinds of fault that may happen
  LateKinds,      \* the calls that may land after their caller gave up
  MaxFaults,      \* bound on the number of faults
  ScanLimit       \* RECOVERY_SCAN_LIMIT

Workers == Txs \cup Recoverers
Kinds == {"debit", "batch", "reversal", "credit"}
FaultKinds == {"crash", "lost", "outage", "lapse", "stall"}

ASSUME SetsAssumption ==
  /\ Txs # {} /\ Txs \cap Recoverers = {}
  /\ NoOne \notin Workers /\ Orphan \notin Workers /\ NoOne # Orphan
  /\ International \subseteq Txs /\ Mismatched \subseteq International
  /\ Active \subseteq Wallets
  /\ Faults \subseteq FaultKinds /\ LateKinds \subseteq Kinds

ASSUME DataAssumption ==
  /\ sender \in [Txs -> Wallets] /\ recipient \in [Txs -> Wallets]
  /\ amount \in [Txs -> Nat \ {0}] /\ quoted \in [Txs -> Nat]
  /\ initial \in [Wallets -> Nat]
  /\ MaxFaults \in Nat /\ ScanLimit \in Nat \ {0}

VARIABLES
  \* transaction-service's database
  status,        \* transactions.status, "absent" before the row exists
  converted,     \* destinationAmountCents and destinationCurrency are written
  keyDone,       \* idempotency_keys.status = 'completed'
  before,        \* the rows whose processingStartedAt is earlier
  stale,         \* rows whose processingStartedAt is over a minute old
  \* account-service's and ledger-service's databases
  balance,       \* wallets.balance_cents
  op,            \* wallet_balance_operations: |delta_cents|, 0 for no such row
  batch,         \* recipient's amount in the ledger batch, 0 for no batch
  late,          \* requests their caller gave up on that may still land
  \* Redis
  lease,         \* txn-recovery:<id>
  \* the workers
  pc,
  row,           \* the row handed to execute(), as it was read
  queue,         \* a recoverer's rows still to execute
  reversalSeen,  \* reversalApplied
  threw,         \* the execution has thrown
  faults

rowVars  == <<status, converted, keyDone, before, stale>>
books    == <<balance, op, batch>>
workVars == <<pc, row, queue, reversalSeen, threw>>
vars     == <<rowVars, books, late, lease, workVars, faults>>

Statuses == {"absent", "PROCESSING", "COMPLETED", "REVERSED", "FAILED"}
Terminal == {"COMPLETED", "REVERSED", "FAILED"}
Rows     == [tx : Txs, converted : BOOLEAN]
Messages == [tx : Txs, kind : Kinds, cents : Nat]
FxSteps  == {"consume", "fxWrite", "fxFail"}
\* The steps of runExecute() and the release in execute()'s finally.
RunSteps == Kinds \cup {"status", "getReversal", "getBatch", "complete",
                        "markReversed", "release"}
PCs      == RunSteps \cup FxSteps \cup {"new", "acquire", "done", "idle"}

\* The state space, the schema's constraints among it: no wallet is overdrawn
\* (CHECK (balance_cents >= 0)), whatever the interleaving of its debits.
TypeOK ==
  /\ status \in [Txs -> Statuses]
  /\ converted \in [Txs -> BOOLEAN]
  /\ keyDone \in [Txs -> BOOLEAN]
  /\ before \in [Txs -> SUBSET Txs]
  /\ stale \in SUBSET Txs
  /\ balance \in [Wallets -> Nat]
  /\ op \in [Txs -> [Kinds \ {"batch"} -> Nat]]
  /\ batch \in [Txs -> Nat]
  /\ late \in SUBSET Messages
  /\ lease \in [Txs -> Workers \cup {NoOne, Orphan}]
  /\ pc \in [Workers -> PCs]
  /\ row \in [Workers -> Rows]
  /\ queue \in [Workers -> SUBSET Rows]
  /\ reversalSeen \in [Workers -> BOOLEAN]
  /\ threw \in [Workers -> BOOLEAN]
  /\ faults \in 0 .. MaxFaults

-----------------------------------------------------------------------------
(* Calls to account-service and ledger-service.                            *)

Destination(r) == IF r.converted THEN quoted[r.tx] ELSE amount[r.tx]

\* Mutation of Request: the credit is not converted.
RequestUnconvertedCredit(w, k) ==
  [tx |-> row[w].tx, kind |-> k,
   cents |-> IF k = "batch" THEN Destination(row[w]) ELSE amount[row[w].tx]]

Request(w, k) ==
  [tx |-> row[w].tx, kind |-> k,
   cents |-> IF k \in {"batch", "credit"} THEN Destination(row[w])
             ELSE amount[row[w].tx]]

WalletOf(m) == IF m.kind = "credit" THEN recipient[m.tx] ELSE sender[m.tx]

Recorded(m) ==
  IF m.kind = "batch" THEN batch[m.tx] # 0 ELSE op[m.tx][m.kind] # 0

\* Mutation of Accepts: the UPDATE lacks "balance_cents + delta >= 0".
AcceptsOverdraft(m) ==
  \/ Recorded(m)
  \/ m.cents # 0 /\ (m.kind # "batch" => WalletOf(m) \in Active)

\* The service answers 2xx: a replay, a valid batch, or an operation on an
\* active wallet that its balance covers.
Accepts(m) ==
  \/ Recorded(m)
  \/ /\ m.cents # 0
     /\ m.kind # "batch" => WalletOf(m) \in Active
     /\ m.kind = "debit" => balance[WalletOf(m)] >= m.cents

CreateBatch(m) ==
  /\ batch' = [batch EXCEPT ![m.tx] = IF @ = 0 THEN m.cents ELSE @]
  /\ UNCHANGED <<balance, op>>

\* Mutation of ApplyWalletOperation: a replay moves the balance again.
ApplyWalletOperationAgain(m) ==
  /\ op' = [op EXCEPT ![m.tx][m.kind] = m.cents]
  /\ balance' = [balance EXCEPT ![WalletOf(m)] =
                   IF m.kind = "debit" THEN @ - m.cents ELSE @ + m.cents]
  /\ UNCHANGED batch

ApplyWalletOperation(m) ==
  /\ op' = [op EXCEPT ![m.tx][m.kind] = IF @ = 0 THEN m.cents ELSE @]
  /\ balance' =
       [balance EXCEPT ![WalletOf(m)] =
          IF Recorded(m) THEN @
          ELSE IF m.kind = "debit" THEN @ - m.cents ELSE @ + m.cents]
  /\ UNCHANGED batch

Serve(m) ==
  IF m.kind = "batch" THEN CreateBatch(m) ELSE ApplyWalletOperation(m)

-----------------------------------------------------------------------------
Init ==
  /\ status = [t \in Txs |-> "absent"]
  /\ converted = [t \in Txs |-> FALSE]
  /\ keyDone = [t \in Txs |-> FALSE]
  /\ before = [t \in Txs |-> {}]
  /\ stale = {}
  /\ balance = initial
  /\ op = [t \in Txs |-> [k \in Kinds \ {"batch"} |-> 0]]
  /\ batch = [t \in Txs |-> 0]
  /\ late = {}
  /\ lease = [t \in Txs |-> NoOne]
  /\ pc = [w \in Workers |-> IF w \in Txs THEN "new" ELSE "idle"]
  /\ row = [w \in Workers |->
              [tx |-> IF w \in Txs THEN w ELSE CHOOSE t \in Txs : TRUE,
               converted |-> FALSE]]
  /\ queue = [w \in Workers |-> {}]
  /\ reversalSeen = [w \in Workers |-> FALSE]
  /\ threw = [w \in Workers |-> FALSE]
  /\ faults = 0

Goto(w, label) == pc' = [pc EXCEPT ![w] = label]

\* An exception in runExecute(): the finally of execute() comes next.
Throw(w) == Goto(w, "release") /\ threw' = [threw EXCEPT ![w] = TRUE]

Fault(f) == f \in Faults /\ faults < MaxFaults /\ faults' = faults + 1

-----------------------------------------------------------------------------
(* initiate()                                                              *)

InsertRow(t) ==
  /\ pc[t] = "new"
  /\ status' = [status EXCEPT ![t] = "PROCESSING"]
  /\ before' = [before EXCEPT ![t] = {u \in Txs : status[u] # "absent"}]
  /\ Goto(t, IF t \in International THEN "consume" ELSE "acquire")
  /\ UNCHANGED <<converted, keyDone, stale, books, late, lease, row, queue,
                 reversalSeen, threw, faults>>

\* fx-service grants the quote, grants one for other currencies (the handler
\* answers 422 and leaves the row as it is), or refuses or cannot be reached.
ConsumeQuote(t) ==
  /\ pc[t] = "consume"
  /\ \/ Goto(t, IF t \in Mismatched THEN "done" ELSE "fxWrite")
     \/ Goto(t, "fxFail")
  /\ UNCHANGED <<rowVars, books, late, lease, row, queue, reversalSeen, threw,
                 faults>>

\* Mutation of WriteDestination: execute() is handed the row as inserted.
WriteDestinationOnly(t) ==
  /\ pc[t] = "fxWrite"
  /\ converted' = [converted EXCEPT ![t] = TRUE]
  /\ Goto(t, "acquire")
  /\ UNCHANGED <<status, keyDone, before, stale, books, late, lease, row, queue,
                 reversalSeen, threw, faults>>

WriteDestination(t) ==
  /\ pc[t] = "fxWrite"
  /\ converted' = [converted EXCEPT ![t] = TRUE]
  /\ row' = [row EXCEPT ![t] = [tx |-> t, converted |-> TRUE]]
  /\ Goto(t, "acquire")
  /\ UNCHANGED <<status, keyDone, before, stale, books, late, lease, queue,
                 reversalSeen, threw, faults>>

\* Whatever the row's status has become.
MarkFailed(t) ==
  /\ pc[t] = "fxFail"
  /\ status' = [status EXCEPT ![t] = "FAILED"]
  /\ Goto(t, "done")
  /\ UNCHANGED <<converted, keyDone, before, stale, books, late, lease, row,
                 queue, reversalSeen, threw, faults>>

\* A database call of the FX branch fails, committed or not.
FxWriteFails(t) ==
  /\ Fault("lost")
  /\ \/ /\ pc[t] = "fxWrite"
        /\ converted' = [converted EXCEPT ![t] = TRUE] \/ UNCHANGED converted
        /\ Goto(t, "fxFail")
     \/ /\ pc[t] = "fxFail"
        /\ Goto(t, "done")
        /\ UNCHANGED converted
  /\ UNCHANGED <<status, keyDone, before, stale, books, late, lease, row,
                 queue, reversalSeen, threw>>

-----------------------------------------------------------------------------
(* execute()                                                               *)

Older(r, s) == r.tx \in before[s.tx]

\* execute() returns or throws to its caller.  A live request has answered; a
\* recoverer takes its next row, or gives up its tick when the call threw.
Return(w, failed) ==
  /\ threw' = [threw EXCEPT ![w] = FALSE]
  /\ \/ /\ failed \/ queue[w] = {}
        /\ Goto(w, IF w \in Txs THEN "done" ELSE "idle")
        /\ queue' = [queue EXCEPT ![w] = {}]
        /\ UNCHANGED row
     \/ /\ ~failed
        /\ \E r \in queue[w] :
             /\ \A s \in queue[w] \ {r} : Older(r, s)
             /\ row' = [row EXCEPT ![w] = r]
             /\ queue' = [queue EXCEPT ![w] = @ \ {r}]
        /\ Goto(w, "acquire")

\* Mutation of AcquireLease: SET without NX.
AcquireLeaseAnyway(w) ==
  /\ pc[w] = "acquire"
  /\ lease' = [lease EXCEPT ![row[w].tx] = w]
  /\ Goto(w, "status")
  /\ UNCHANGED <<rowVars, books, late, row, queue, reversalSeen, threw, faults>>

AcquireLease(w) ==
  /\ pc[w] = "acquire"
  /\ lease[row[w].tx] = NoOne
  /\ lease' = [lease EXCEPT ![row[w].tx] = w]
  /\ Goto(w, "status")
  /\ UNCHANGED <<rowVars, books, late, row, queue, reversalSeen, threw, faults>>

\* A contended caller reads the row's status, reports it and does nothing else.
Contended(w) ==
  /\ pc[w] = "acquire"
  /\ lease[row[w].tx] # NoOne
  /\ \/ Return(w, FALSE) /\ UNCHANGED faults
     \/ Return(w, TRUE) /\ Fault("lost")
  /\ UNCHANGED <<rowVars, books, late, lease, reversalSeen>>

\* Redis fails, before or after it stored the token: run without the lease.
FailOpen(w) ==
  /\ Fault("outage")
  /\ pc[w] = "acquire"
  /\ \/ UNCHANGED lease
     \/ /\ lease[row[w].tx] = NoOne
        /\ lease' = [lease EXCEPT ![row[w].tx] = Orphan]
  /\ Goto(w, "status")
  /\ UNCHANGED <<rowVars, books, late, row, queue, reversalSeen, threw>>

\* The release script deletes the key only if it still holds this token; the
\* call's failure is swallowed.
ReleaseLease(w) ==
  /\ pc[w] = "release"
  /\ \/ /\ lease' = [lease EXCEPT ![row[w].tx] = IF @ = w THEN NoOne ELSE @]
        /\ UNCHANGED faults
     \/ /\ Fault("lost")
        /\ lease' = [lease EXCEPT ![row[w].tx] = IF @ = w THEN Orphan ELSE @]
  /\ Return(w, threw[w])
  /\ UNCHANGED <<rowVars, books, late, reversalSeen>>

-----------------------------------------------------------------------------
(* runExecute()                                                            *)

ReadStatus(w) ==
  /\ pc[w] = "status"
  /\ Goto(w, IF status[row[w].tx] = "PROCESSING" THEN "getReversal"
             ELSE "release")
  /\ UNCHANGED <<rowVars, books, late, lease, row, queue, reversalSeen, threw,
                 faults>>

GetReversal(w) ==
  /\ pc[w] = "getReversal"
  /\ reversalSeen' = [reversalSeen EXCEPT ![w] = op[row[w].tx]["reversal"] # 0]
  /\ Goto(w, "getBatch")
  /\ UNCHANGED <<rowVars, books, late, lease, row, queue, threw, faults>>

\* Mutation of GetBatch: the ledger batch counts before the reversal.
GetBatchFirst(w) ==
  /\ pc[w] = "getBatch"
  /\ Goto(w, IF batch[row[w].tx] # 0 THEN "credit"
             ELSE IF reversalSeen[w] THEN "markReversed" ELSE "debit")
  /\ reversalSeen' = [reversalSeen EXCEPT ![w] = FALSE]
  /\ UNCHANGED <<rowVars, books, late, lease, row, queue, threw, faults>>

GetBatch(w) ==
  /\ pc[w] = "getBatch"
  /\ Goto(w, IF reversalSeen[w] THEN "markReversed"
             ELSE IF batch[row[w].tx] # 0 THEN "credit" ELSE "debit")
  /\ reversalSeen' = [reversalSeen EXCEPT ![w] = FALSE]
  /\ UNCHANGED <<rowVars, books, late, lease, row, queue, threw, faults>>

\* Mutations of OnError: a debit's failure is ignored; a reversal's failure is
\* swallowed and the row marked; a ledger failure is not compensated.
OnErrorDebitIgnored(w, k) ==
  /\ threw' = [threw EXCEPT ![w] = TRUE]
  /\ Goto(w, CASE k = "batch" -> "reversal" [] k = "debit" -> "batch"
               [] OTHER -> "release")

OnErrorReversalSwallowed(w, k) ==
  /\ threw' = [threw EXCEPT ![w] = TRUE]
  /\ Goto(w, CASE k = "batch" -> "reversal" [] k = "reversal" -> "markReversed"
               [] OTHER -> "release")

OnErrorUncompensated(w, k) ==
  /\ threw' = [threw EXCEPT ![w] = TRUE]
  /\ Goto(w, IF k = "batch" THEN "markReversed" ELSE "release")

\* A failed ledger call is answered with the reversal; it is rethrown after it.
OnError(w, k) ==
  /\ threw' = [threw EXCEPT ![w] = TRUE]
  /\ Goto(w, IF k = "batch" THEN "reversal" ELSE "release")

\* One awaited POST whose answer arrives.
Post(w, k, next) ==
  LET m == Request(w, k) IN
  /\ pc[w] = k
  /\ \/ /\ Accepts(m)
        /\ Serve(m)
        /\ Goto(w, next)
        /\ UNCHANGED threw
     \/ /\ ~Accepts(m)
        /\ OnError(w, k)
        /\ UNCHANGED books
  /\ UNCHANGED <<rowVars, late, lease, row, queue, reversalSeen, faults>>

DebitSender(w)     == Post(w, "debit", "batch")
CreateLedger(w)    == Post(w, "batch", "credit")
ReverseDebit(w)    == Post(w, "reversal", "markReversed")
CreditRecipient(w) == Post(w, "credit", "complete")

\* One awaited POST whose answer is lost: it was served, it was not, or it
\* will be, after the caller has gone on.
PostFails(w, k) ==
  LET m == Request(w, k) IN
  /\ Fault("lost")
  /\ pc[w] = k
  /\ \/ UNCHANGED <<books, late>>
     \/ Accepts(m) /\ Serve(m) /\ UNCHANGED late
     \/ k \in LateKinds /\ late' = late \cup {m} /\ UNCHANGED books
  /\ OnError(w, k)
  /\ UNCHANGED <<rowVars, lease, row, queue, reversalSeen>>

Deliver(m) ==
  /\ late' = late \ {m}
  /\ \/ Accepts(m) /\ Serve(m)
     \/ ~Accepts(m) /\ UNCHANGED books
  /\ UNCHANGED <<rowVars, lease, workVars, faults>>

\* updateMany(where status = PROCESSING): only the first writer wins.
Settle(t, s) ==
  status' = [status EXCEPT ![t] = IF @ = "PROCESSING" THEN s ELSE @]

\* Mutation of Complete: the key's update is left out of the transaction.
CompleteRowOnly(t) == Settle(t, "COMPLETED") /\ UNCHANGED keyDone

\* One database transaction: the row, if it is PROCESSING, and the key.
Complete(t) == Settle(t, "COMPLETED") /\ keyDone' = [keyDone EXCEPT ![t] = TRUE]

MarkCompleted(w) ==
  /\ pc[w] = "complete"
  /\ Complete(row[w].tx)
  /\ Goto(w, "release")
  /\ UNCHANGED <<converted, before, stale, books, late, lease, row, queue,
                 reversalSeen, threw, faults>>

MarkReversed(w) ==
  /\ pc[w] = "markReversed"
  /\ Settle(row[w].tx, "REVERSED")
  /\ Goto(w, "release")
  /\ UNCHANGED <<converted, keyDone, before, stale, books, late, lease, row,
                 queue, reversalSeen, threw, faults>>

\* A read fails (the 503 of line 126 included).
ReadFails(w) ==
  /\ Fault("lost")
  /\ pc[w] \in {"status", "getReversal", "getBatch"}
  /\ Throw(w)
  /\ UNCHANGED <<rowVars, books, late, lease, row, queue, reversalSeen>>

\* A status write fails, committed or not.
WriteFails(w) ==
  /\ Fault("lost")
  /\ pc[w] \in {"complete", "markReversed"}
  /\ \/ UNCHANGED <<status, keyDone>>
     \/ pc[w] = "complete" /\ Complete(row[w].tx)
     \/ pc[w] = "markReversed" /\ Settle(row[w].tx, "REVERSED")
                               /\ UNCHANGED keyDone
  /\ Throw(w)
  /\ UNCHANGED <<converted, before, stale, books, late, lease, row, queue,
                 reversalSeen>>

-----------------------------------------------------------------------------
(* Recovery and time.                                                      *)

StaleRows == {[tx |-> t, converted |-> converted[t]] :
                t \in {u \in stale : status[u] = "PROCESSING"}}

\* One tick: the oldest ScanLimit stale rows, executed one after the other.
\* The loop ends at the first execution that throws.
RecoveryTick(r) ==
  /\ pc[r] = "idle"
  /\ \E found \in SUBSET StaleRows :
       /\ Cardinality(found) <= ScanLimit
       /\ found # StaleRows => Cardinality(found) = ScanLimit
       /\ \A x \in found, y \in StaleRows \ found : Older(x, y)
       /\ \E x \in found :
            /\ \A y \in found \ {x} : Older(x, y)
            /\ row' = [row EXCEPT ![r] = x]
            /\ queue' = [queue EXCEPT ![r] = found \ {x}]
  /\ Goto(r, "acquire")
  /\ UNCHANGED <<rowVars, books, late, lease, reversalSeen, threw, faults>>

IdleTick(r) == pc[r] = "idle" /\ StaleRows = {} /\ UNCHANGED vars

\* Mutation of Age: rows are stale before the FX branch can be over.
AgeEarly(t) ==
  /\ status[t] = "PROCESSING" /\ t \notin stale
  /\ stale' = stale \cup {t}
  /\ UNCHANGED <<status, converted, keyDone, before, books, late, lease,
                 workVars, faults>>

\* A minute passes.  The FX branch, one call bounded by 15 seconds and one
\* write, is over by then unless the process stalls.
Age(t) ==
  /\ status[t] = "PROCESSING" /\ t \notin stale
  /\ stale' = stale \cup {t}
  /\ \/ pc[t] \notin FxSteps /\ UNCHANGED faults
     \/ pc[t] \in FxSteps /\ Fault("stall")
  /\ UNCHANGED <<status, converted, keyDone, before, books, late, lease,
                 workVars>>

\* The replica dies; a POST it was awaiting may still land.
Crash(w) ==
  /\ Fault("crash")
  /\ pc[w] \notin {"new", "done", "idle"}
  /\ Goto(w, IF w \in Txs THEN "done" ELSE "idle")
  /\ queue' = [queue EXCEPT ![w] = {}]
  /\ threw' = [threw EXCEPT ![w] = FALSE]
  /\ reversalSeen' = [reversalSeen EXCEPT ![w] = FALSE]
  /\ lease' = [t \in Txs |-> IF lease[t] = w THEN Orphan ELSE lease[t]]
  /\ \/ UNCHANGED late
     \/ pc[w] \in LateKinds /\ late' = late \cup {Request(w, pc[w])}
  /\ UNCHANGED <<rowVars, books, row>>

\* Mutation of ExpireLease: the key was set without PX.
ExpireLeaseNever(t) == FALSE /\ UNCHANGED vars

\* The TTL of a lease nobody renews.
ExpireLease(t) ==
  /\ lease[t] = Orphan
  /\ lease' = [lease EXCEPT ![t] = NoOne]
  /\ UNCHANGED <<rowVars, books, late, workVars, faults>>

\* The TTL of a lease whose holder's heartbeats are delayed or fail.
LapseLease(t) ==
  /\ Fault("lapse")
  /\ lease[t] \in Workers
  /\ lease' = [lease EXCEPT ![t] = NoOne]
  /\ UNCHANGED <<rowVars, books, late, workVars>>

-----------------------------------------------------------------------------
Start(t) == InsertRow(t) \/ ConsumeQuote(t) \/ WriteDestination(t)
            \/ MarkFailed(t)

Execute(w) ==
  \/ AcquireLease(w) \/ Contended(w) \/ ReleaseLease(w)
  \/ ReadStatus(w) \/ GetReversal(w) \/ GetBatch(w)
  \/ DebitSender(w) \/ CreateLedger(w) \/ ReverseDebit(w) \/ CreditRecipient(w)
  \/ MarkCompleted(w) \/ MarkReversed(w)

Fail(w) ==
  \/ FailOpen(w) \/ ReadFails(w) \/ WriteFails(w) \/ Crash(w)
  \/ \E k \in Kinds : PostFails(w, k)

Next ==
  \/ \E t \in Txs : Start(t) \/ FxWriteFails(t) \/ Age(t) \/ ExpireLease(t)
                    \/ LapseLease(t)
  \/ \E w \in Workers : Execute(w) \/ Fail(w)
  \/ \E r \in Recoverers : RecoveryTick(r) \/ IdleTick(r)
  \/ \E m \in late : Deliver(m)

Spec == Init /\ [][Next]_vars

\* A replica that is up goes on, its timers fire, Redis expires keys.
Fairness ==
  /\ \A t \in Txs : WF_vars(pc[t] # "new" /\ Start(t))
  /\ \A w \in Workers : WF_vars(Execute(w))
  /\ \A r \in Recoverers : WF_vars(RecoveryTick(r))
  /\ \A t \in Txs : WF_vars(Age(t)) /\ WF_vars(ExpireLease(t))

FairSpec == Spec /\ Fairness

-----------------------------------------------------------------------------
(* Safety.                                                                 *)

Debited(t)  == op[t]["debit"] # 0
Reversed(t) == op[t]["reversal"] # 0
Credited(t) == op[t]["credit"] # 0

\* Nothing is paid or refunded that was not taken from the sender first, and no
\* row claims an outcome that the account and the ledger do not record.  This
\* is what the idempotency guards alone give: the per-key operations and the
\* order of runExecute(), whatever happens to the lease.
Backed ==
  \A t \in Txs :
    /\ Credited(t) => Debited(t) /\ batch[t] # 0
    /\ Reversed(t) \/ batch[t] # 0 => Debited(t)
    /\ status[t] = "COMPLETED" => Credited(t)
    /\ status[t] = "REVERSED" => Reversed(t)

\* No execution refunds the sender of a transfer whose recipient is paid, in
\* either order: the interleaving that the lease of execute() is there for.
NoMoneyCreated == \A t \in Txs : ~(Credited(t) /\ Reversed(t))

\* At most one worker is between the acquisition and the release of a row.
OneExecutor ==
  \A v, w \in Workers :
    /\ pc[v] \in RunSteps \ {"release"} /\ pc[w] \in RunSteps \ {"release"}
    /\ row[v].tx = row[w].tx
    => v = w

\* A FAILED transfer moved nothing, and the stored answer that replays of the
\* key get says COMPLETED exactly for the rows that are.
VerdictIsTruth ==
  \A t \in Txs :
    /\ status[t] = "FAILED" => ~Debited(t) /\ batch[t] = 0
    /\ keyDone[t] <=> status[t] = "COMPLETED"

\* The recipient's wallet and the ledger tell the same amount, though they are
\* written by executions that may hold different snapshots of the row.
LedgerAgrees ==
  \A t \in Txs : Credited(t) => op[t]["credit"] = batch[t]

\* A row that carries the quote's conversion is never paid at any other amount.
QuoteHonoured ==
  \A t \in Txs :
    converted[t] /\ Credited(t) => op[t]["credit"] = quoted[t]

\* "Only the first writer wins": no step replaces a terminal status.
FirstWriterWins ==
  [][\A t \in Txs : status[t] \in Terminal => status'[t] = status[t]]_vars

-----------------------------------------------------------------------------
(* Liveness.                                                               *)

\* account-service refuses neither the debit nor the credit that an open
\* transfer still needs.
Payable(t) ==
  status[t] = "PROCESSING" =>
    /\ {sender[t], recipient[t]} \subseteq Active
    /\ Debited(t) \/ balance[sender[t]] >= amount[t]

\* No transfer is refused for ever.  A debit that is refused for a time only,
\* until the sender receives money, is allowed.
NoneRefusedForEver == \A t \in Txs : <>[]Payable(t)

\* Then every accepted transfer is settled: by its request, or by the ticks of
\* the recovery after it failed, was cut off or crashed.  The condition is on
\* all transfers, because one that is refused for ever stays PROCESSING and
\* blocks the others' ticks (see LeftoversSettle).
Settles ==
  NoneRefusedForEver =>
    \A t \in Txs : status[t] = "PROCESSING" ~> status[t] \in Terminal

\* No debit dangles, under the same condition: the recipient is paid or the
\* sender refunded.
NoDanglingDebit ==
  NoneRefusedForEver =>
    \A t \in Txs : Debited(t) ~> Credited(t) \/ Reversed(t)

-----------------------------------------------------------------------------
(* What the documents say and the code does not do (see the README).       *)

\* recovery.service.ts on a backlog: "leftovers are picked up by later ticks".
\* A transfer that nothing of its own prevents is settled, whatever becomes of
\* the older rows of its tick.
LeftoversSettle ==
  \A t \in Txs :
    /\ {sender[t], recipient[t]} \subseteq Active
    /\ \A u \in Txs \ {t} : sender[u] # sender[t]
    /\ initial[sender[t]] >= amount[t]
    => (status[t] = "PROCESSING" ~> status[t] \in Terminal)
=============================================================================
