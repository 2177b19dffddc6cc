# NovaPay in TLA+

NovaPay moves money between wallets through six small services. This directory
holds TLA+ models of the parts that can go wrong, the TLC runs that check them,
and proofs for TLAPS. The models are written from the code under `services/`;
paths below are relative to `services/<service>/src` unless they say otherwise.

## 1. The system

| component | state it keeps | operations | what is hard | what makes it correct |
|---|---|---|---|---|
| transaction-service, execution (`services/transaction.service.ts`, `lib/http.ts`) | `transactions`, `idempotency_keys` | `initiate()`, `execute()` | three services, no common transaction; lost answers; late requests; crashes between any two awaits; live request against recovery | no money created, verdicts true and final, every debit ends in a payment or a refund |
| transaction-service, recovery (`services/recovery.service.ts`) | none (one timer per replica) | `recoverStaleTransactions()`, the scheduler, `POST /internal/recover` | several replicas scan the same rows; a row that cannot be executed | every stale row is settled that is not refused for ever |
| transaction-service, lease (`lib/recoveryLock.ts`) | Redis key `txn:recovery:<id>` | acquire, renew, release | expiry under a live holder, Redis outage, crash of the holder | at most one executor per row |
| account-service, wallets (`services/wallet.service.ts`) | `wallets`, `wallet_balance_operations` | `applyWalletOperation()`, `getWalletOperation()` | same-key races, concurrent debits | each key applied once, no overdraft |
| ledger-service (`services/ledger.service.ts`) | `ledger_transactions`, `ledger_entries` | `createBatch()`, `getBatch()`, `auditVerify()`, `invariantCheck()` | concurrent appends to one hash chain, audit while batches commit | balanced batches, one per transaction, one unbroken chain |
| fx-service (`services/fx.service.ts`) | `fx_quotes` | create, get, consume | double consumption, expiry, a consumed quote whose answer is lost | a quote is used at most once, within its minute |
| payroll-service (`services/payroll.service.ts`, `worker.ts`, `lib/employerLock.ts`) | `payroll_jobs`, `payroll_items`, BullMQ queue, Redis lease | create job, process job | retries, leases that are not renewed, crash between commit and enqueue | each item paid once, counters right, jobs finish |
| transaction-service, history (`services/history.service.ts`) | none | one page of a wallet's transfers | rows appear while a client pages | no row twice, no old row missed |
| api-gateway (`app.ts`, `plugins/swagger.ts`) | none | forwarding; the OpenAPI document | the document and the handlers are written apart | answers are those of the document |
| service authentication (`middlewares/service-auth.ts`, the rules in six `app.ts`) | none | admit a call or answer 401 or 403 | rules in six files, callers in others | no service is refused its own calls, no client gets at internal operations |
| admin-service | `manual_incidents` | note an incident, forward two diagnostics | a ledger that refuses or is silent | as above |
| encryption, logging, metrics, tracing | none that others depend on | | nothing that interleaves | not modelled, see section 8 |

How they interact. `initiate()` inserts the row and its idempotency key in one
database transaction, consumes a quote for an international transfer, and calls
`execute()`, which takes the row's lease in Redis and then makes up to six calls:
read the row's status, look up the reversal operation (account), look up the batch
(ledger), debit (account), create the batch (ledger), credit (account), and complete the
row and the key in one database transaction. A failed batch call is answered by
a reversal operation (account) and the row becomes REVERSED. A row that is still
PROCESSING after a minute is handed to the same `execute()` by whichever replica's
scheduler, or operator, finds it. Payroll pays each item through `initiate()`.

## 2. Modules

| module | what it is |
|---|---|
| `Transfer` | the money path: `initiate()` of fresh keys, `execute()`, recovery, the lease, and the wallet operations and batches they cause |
| `Escrow` | the abstract promise: money is taken once, held, and paid or refunded once; a verdict follows and never changes |
| `TransferInv` | the inductive invariants of `Transfer` |
| `TransferEscrow` | the refinement mapping from `Transfer` to `Escrow`; what the balances and the rows together say |
| `TransferStores` | the refinement mapping from `Transfer` to the promises of account-service and ledger-service |
| `TransferProofs` | the theorems about `Transfer` and their proofs: types, records, exclusion, amounts, verdicts, the escrow, the balances, the stores |
| `SumTheorems` | sums over finite sets, for the proofs that add up |
| `LedgerChain` | ledger-service: `createBatch()` statement by statement beside the paged `auditVerify()` |
| `BatchStore` | the abstract promise of ledger-service: one whole, valid batch per transaction, for good |
| `LedgerInv`, `LedgerProofs` | the inductive invariants of `LedgerChain`; the theorems about it and their proofs |
| `WalletService` | account-service: `applyWalletOperation()` statement by statement, `createWallet()` |
| `WalletStore` | the abstract promise of account-service: each key once, balance and record together, never below zero |
| `WalletProofs` | the theorems about `WalletService` and their proofs |
| `Payroll` | payroll-service: job creation, the BullMQ worker, the employer's lease, `processPayroll()`, and what transaction-service answers it |
| `PayrollInv`, `PayrollProofs` | its inductive invariants; the theorems about it and their proofs |
| `Initiate` | all of `initiate()` under concurrent, repeated and mixed-up requests, with the quotes of fx-service |
| `Cents` | the conversion of an amount at a quoted rate, and what it should be |
| `InitiateProofs` | the theorems about `Initiate` and `Cents` and their proofs |
| `History` | a traversal of a wallet's transactions, page by page, while rows are inserted |
| `HistoryProofs` | the theorems about `History` and their proofs |
| `Contract` | the OpenAPI document: operations, request schemas, statuses |
| `Gateway` | the HTTP surface: proxy, service authentication, what every handler answers |
| `GatewayProofs` | the theorems about `Gateway` and their proofs |
| `MCTransfer`, `MCLedger`, `MCWallet`, `MCPayroll`, `MCInitiate`, `MCHistory` | small instances for TLC |

### Transfer and the code

*Workers.* Whatever runs `execute()` is a worker: the live request of a transfer,
named by the transfer, or a recoverer (a replica's scheduler or one manual recovery).
`pc[w]` says which awaited call the worker is at. A step is one such call, so any
two executions interleave at every await.

| variable | code |
|---|---|
| `status`, `converted`, `keyDone` | `transactions.status`; `destination_amount_cents` and `destination_currency` are set; `idempotency_keys.status = 'completed'` |
| `before`, `stale` | the order of `processing_started_at`; it is over `STALE_AFTER_MS` ago |
| `balance`, `op` | `wallets.balance_cents`; the absolute delta of `wallet_balance_operations` for the keys `<id>:debit`, `:reversal`, `:credit` |
| `batch` | the recipient's amount in the transaction's batch, 0 for no batch |
| `late` | requests that their caller no longer waits for and that may still be served |
| `lease` | the holder of the token in `txn:recovery:<id>`; `Orphan` when the holder died or never learned of it, `NoOne` when the key is absent |
| `row` | the `tx` argument of `execute()`, a snapshot that may be older than the database's row |
| `queue` | rows of a tick still to execute, also snapshots |
| `reversalSeen`, `threw` | the local `reversalApplied`; an exception is on its way to `execute()`'s caller |

| action | code |
|---|---|
| `InsertRow`, `ConsumeQuote`, `WriteDestination`, `MarkFailed`, `FxWriteFails` | `initiate()`, lines 348-442 |
| `AcquireLease`, `Contended`, `FailOpen`, `ReleaseLease` | `execute()`, lines 35-76 |
| `ReadStatus`, `GetReversal`, `GetBatch` | `runExecute()`, lines 86-176: the status re-check and the two lookups, which decide the branch |
| `DebitSender`, `CreateLedger`, `ReverseDebit`, `CreditRecipient` | the POSTs of `runExecute()`, each with its refusal |
| `PostFails`, `ReadFails`, `WriteFails` | the same calls and the database writes, timed out or failed, with or without effect |
| `Deliver` | a request served after its caller gave up |
| `MarkCompleted`, `MarkReversed` | the conditional status writes |
| `RecoveryTick`, `IdleTick`, `Age` | `findStaleTransactions()` and the loop over its rows; the passing of a minute |
| `Crash`, `ExpireLease`, `LapseLease` | a replica dies; a lease nobody renews expires; a lease expires under its holder |

A wallet operation and a batch are single steps because each is one database transaction of its service: `ImplementsStore` of `LedgerChain` and of
`WalletService` show it, and `StoresAreUsed` (section 6) that `Transfer` takes no more for granted than those two promise. `Accepts` says when such a call answers 2xx, and
`Serve` what it does then. A concurrent call with the same key can also be
answered 500 by the unique index, or 422 if the first leaves too little for a second; that is one of the outcomes of `PostFails`. A cent
amount is a small number; rates are a second number per transfer (`quoted`).
`PENDING`, which `execute()` treats like `PROCESSING`, is never written by the
code and left out.

*Faults* are chosen per run (`Faults`, `LateKinds`) and counted (`MaxFaults`):
`crash`; `lost` (a call or a write fails, with or without its effect); `outage` (Redis
does not answer an acquisition, which then goes on without the lease); `lapse` (a
lease expires under a live holder); `stall` (a process needs more than a minute for
the FX branch, whose one call is bounded by 15 seconds).

### LedgerChain and the code

`createBatch()` runs in a database transaction at PostgreSQL's default isolation:
each statement sees what was committed before it began, and its own rows. A step of
a client is one statement.

| variable | code |
|---|---|
| `rows`, `mine` | committed `ledger_entries`; those of a client's open transaction |
| `nextId` | the serial of `ledger_entries.id`, which aborted transactions do not give back |
| `pc`, `posted` | the next statement of a `POST /batches`; its request |
| `previous` | the local `prevHash` of `createBatch()`, `previousHash` of `auditVerify()` |
| `verdict`, `lastId`, `records` | the result and the cursor of an audit |
| `due`, `overlapped` | no code: what was committed when the audit began; two batches have been between `findFirst` and their end at once |

| action | code |
|---|---|
| `Post` | the route, the schema and `validateBatch()` |
| `FindReplay`, `CreateTransaction`, `FindLast`, `InsertEntry`, `Commit` | the statements of `createBatch()` |
| `Abort` | a crash, a lost connection or a transaction timeout |
| `StartAudit`, `ScanPage` | the loop of `auditVerify()` |

A hash is the sequence of entries it was computed from, so two hashes are equal only when
everything behind them is; the timestamps that are hashed as well are left out. An
INSERT of an id that another open transaction has inserted waits for its end,
as the unique index makes it, and fails if that was a commit. `Outstanding` only keeps
TLC's ids below `MaxId`.

### WalletService and the code

`applyWalletOperation()` runs in a database transaction at read committed isolation. Its
UPDATE locks the wallet's row until the transaction ends, and an UPDATE that has waited for the
lock evaluates its WHERE clause on the new version of the row.

| variable | code |
|---|---|
| `created`, `balance`, `version` | the rows of `wallets`, `balance_cents`, `version` |
| `op` | `delta_cents` of `wallet_balance_operations` per wallet and key, 0 for no row |
| `pc`, `posted`, `answer` | the next statement of a request, the request, its answer: 200, 422 or an error |
| `repeated` | no code: the operation was on record when the request came |

| action | code |
|---|---|
| `CreateWallet` | `createWallet()` |
| `Post` | the route and its validation |
| `FindReplay`, `UpdateBalance`, `Refuse`, `InsertOperation`, `Commit` | the statements; an UPDATE that changes no row is `Refuse` |
| `Abort` | a crash, a lost connection or the transaction's timeout |

No code changes a wallet's status, so the active wallets are a constant. The transaction that
holds the row's lock is the only one that can insert an operation of that wallet, so
an INSERT never waits.

### Payroll and the code

A slot is one of the `WORKER_CONCURRENCY` slots of a worker process; a step of a slot is
one awaited call.

| variable | code |
|---|---|
| `jobStatus`, `processed`, `checkpoint` | `payroll_jobs.status`, `processed_items`, `checkpoint_index` |
| `done` | the `line_index` of the `payroll_items` that are completed |
| `queue`, `attempts`, `stalls`, `holder` | the BullMQ job: its list, `attemptsMade`, `stalledCounter`, and the slot whose lock on it BullMQ accepts |
| `lease` | the holder of the token in `payroll:employer-lock:<id>`; `Orphan` when nobody will delete the key |
| `transfer` | per line, the status of the transaction with the line's key |
| `late` | `POST /transactions` requests that payroll gave up on and that may still arrive |
| `pc`, `job`, `todo`, `threw` | the slot's next call, its job, the rest of the array of `findMany()`, and whether an exception leaves it |
| `struck`, `faults` | no code: which kinds of fault have happened, and how many faults |

| action | code |
|---|---|
| `CreatePayrollJob`, `Enqueue` | `createPayrollJob()`: the database transaction, then `queue.add()`, which may never happen |
| `Take`, `Promote`, `Acknowledge`, `Stalled`, `Stall` | BullMQ: a job is taken, its delay ends, its outcome is recorded, its expired lock is found, its lock expires |
| `AcquireEmployerLock`, `AcquireFails`, `ReleaseEmployerLock` | `withEmployerLock()` |
| `Defer` | `EmployerLockBusyError` in `worker.ts`, also raised for an unready Redis client |
| `Start`, `FindItems`, `PayNext`, `Record`, `Complete`, `StatementFails` | the statements of `processPayroll()`; one fails with or without its effect |
| `InsertRow`, `Executed`, `Replay`, `SendFails`, `ArriveLate` | `POST /transactions`: first request with a key, its answer, any other request's answer, no answer, a request that arrives when nobody waits |
| `Settle` | execution or recovery of the transfer, as `Escrow` abstracts it |
| `Crash`, `Lapse`, `ExpireLease` | a worker dies, the lease expires under its holder, an orphaned key expires |

A transfer is its verdict: that the stored answer exists exactly for COMPLETED rows is
`VerdictIsTruth` of `Transfer`, so `Replay` needs only the row. Left out: the lookup of the
employer for queue entries of an earlier release, and the expiry of idempotency
keys, which begins after a day. A crash takes one slot; that of a process is several.

*Faults*: `crash`; `error` (a statement, a request or a transfer fails); `outage`
(Redis); `stall` (BullMQ's lock expires under a live worker); `lapse` (the job takes
more than the lease's two minutes).

### Initiate, Cents and the code

A request is a call of `POST /transactions` or `POST /transfers/international`, with its key and body
as constants; a step is one call it awaits. `key`, row and quote are named by what is unique in
their tables. What happens to a row after `execute()` has it is `Escrow`: `Settle` gives it one verdict.

| variable | code |
|---|---|
| `owner` | the request whose database transaction inserted the key and the row |
| `status`, `destination` | `transactions.status`, `destination_amount_cents` |
| `keyDone`, `keyExpired` | `idempotency_keys.status = 'completed'`, `expires_at` has passed |
| `pair`, `usedBy`, `lapsed` | `fx_quotes`: the currencies, `used_by_transaction_id`, `expires_at` has passed |
| `pc`, `refusal`, `answer` | the request's next call, the error on its way through the FX branch's `catch`, what it was answered |
| `late` | consumptions whose caller gave up and that may still be served |

| action | code |
|---|---|
| `CreateQuote`, `ExpireQuote`, `ServeLate` | `createQuote()`, time, a consumption served when nobody waits |
| `Refuse`, `Insert`, `Replay`, `ExpireKey` | validation; the insertion of key and row, or P2002; the branch for a key that exists |
| `ConsumeQuote`, `Convert`, `MarkFailed` | the FX branch: `consumeQuote()` with its conditional UPDATE, the conversion, the `catch` |
| `Executed`, `Settle` | the answer of `execute()`; execution or recovery |
| `InsertFails`, `ConsumeFails`, `ConvertFails`, `MarkFails`, `Crash` | the same calls failed, with or without effect; a replica dies |

The branch `IDEMPOTENCY_RACE`, for a key that is gone when it is looked up, is left out: no code deletes
keys. Execution cannot begin during the FX branch, which takes less than the minute after which
recovery takes a row; a process that stalls that long is the fault `stall` of `Transfer`.

A rate is given by the number that its digits spell and by the digits before and after its point, which is all
that `cents()` looks at.

### History and the code

| variable | code |
|---|---|
| `rows`, `open` | committed rows of `transactions`; those being inserted, whose `created_at` is chosen already |
| `wallet`, `cursor`, `hasMore` | the client's query and what the last page returned |
| `items`, `ends`, `present` | no code: all items so far, the last row of each page, the wallet's rows at the first page |

`listHistory()` is one step, since it is one query: `Past` is its keyset condition, `Sorted` its `orderBy`
(the n-th row is the one that n - 1 rows are newer than), `Found` the `take: limit + 1`,
`CursorOf` the encoded cursor with its time cut to a millisecond. A row's time may lie up to `Skew` behind
rows that exist, because each replica has its own clock and a commit takes time. `parseHistoryQuery()` refuses
limits out of range. Filters by status or time only narrow the rows; the wording of an item is left out.

### Gateway, Contract and the code

`Contract` has for every operation of the OpenAPI document its path, its statuses, and the flaws that a request for it can
have. A flaw is a field and a kind: absent, though required; mistyped, of another JSON type; or malformed, of the right
type but against the format, pattern, range or description. In `Gateway` a request is an operation and the set of its
flaws (`defects`), at most `MaxFlaws` of them. It is put on a stack; a call that a handler makes is put on top of it; an answer
takes the top away and is kept in `reply`. One request is followed at a time. Its answers depend on which rows
exist, which `db` keeps by kind and any handler may find or not find. Where they also depend on another request that runs at the same time, as
for two operations with one key, both answers are outcomes of the handler.

The flaws show in which order a handler looks at a request. Each handler says which flaws it refuses (`Refuse`: by its own test, or by
Prisma's complaint, which the error handler turns into a 400), which it does not notice, and which fail before they are refused. `initiate()`
is the one that matters: it inserts the key between its own tests (`EarlyFlaws`) and what only the columns refuse
(`LateFlaws`), so that a malformed wallet id meets an existing key first.

| action | code |
|---|---|
| `Request`, `Scrape`, `PayItem`, `TriggerRecovery` | who calls: a client, Prometheus, payroll, an operator's recovery |
| `Forward`, `Relay`, `GatewayHealth` | the proxy: upstream, rewritten path, the gateway's own identity |
| `registerServiceAuth` | the hook of `service-auth.ts` over the rules of the six `app.ts` (`AccountAllow` ... `AdminAllow`) |
| `PostUsers` ... `PostIncidents`, `GetDiagnostics`, `ForwardDiagnostics` | the handlers: which statuses they can answer, which kinds of rows they need and leave |
| `BeginTransfer`, `BeginRecovery`, `MakeCall`, `Mismatch`, `FxFails`, `ExecuteFails`, `Finish` | the transfer: its calls to the other services and what it makes of their answers |
| `TimeOut` | `AbortSignal.timeout()` of the services' own calls |

## 3. Properties

| property | says | why it could fail |
|---|---|---|
| `NoMoneyCreated` | no transfer is both credited and reversed | live request and recovery on the same row; the decision of `GetBatch` is older than the calls that follow it |
| `OneExecutor` | one worker at a time is inside `runExecute()` for a row | expiry, crash and release of leases |
| `VerdictIsTruth` | FAILED moved nothing; the stored answer exists exactly for COMPLETED rows | two writers of the row, a key written apart from it |
| `LedgerAgrees`, `QuoteHonoured` | credit and batch tell the same amount; a row that carries a conversion is paid at it | workers hold snapshots of different age |
| `FirstWriterWins` | a terminal status is never replaced | the unconditional FAILED of the FX branch |
| `BooksMatchHistory` | once all rows are settled each balance is its opening balance changed by the COMPLETED transfers | retries, late requests, replays |
| `Backed` | credit and reversal only after the debit, credit only after the batch, verdicts only after what they claim; under *every* fault | the order of the calls and the branch of a resumed execution |
| `Settles`, `NoDanglingDebit` | unless account-service refuses a transfer for ever (`NoneRefusedForEver`), every row gets its verdict and every debit ends in a credit or a refund | a lease that never expires, a failure nobody compensates, an older row that is refused for a time |
| `ImplementsEscrow` | every step is a step of `Escrow` or changes nothing in it | all of the above |
| `TypeOK` | the state space; balances are naturals, so no overdraft; committed amounts are positive | concurrent debits of one wallet |
| `InvariantCheckOk` | debits and credits agree in every currency in every state that can be read | half-written and aborted batches, lists balanced only overall |
| `LinksBack` | every entry was hashed onto a committed, older one | reading the last hash beside uncommitted batches, aborts |
| `SerialAuditPasses` | an audit passes although batches commit between its pages, if no two batches overlapped | the hash carried across pages, ids left out by aborts |
| `NoRowSkipped` | a passed audit has verified all that was committed when it began | the end of the loop, the cursor |
| `Answered` | every `POST /batches` ends, also one that waits for another | waiting for the unique index |
| `ImplementsStore` | the statements amount to one step of `BatchStore` | two clients that both found no batch |
| `BalanceIsHistory` | a balance is the opening balance and all recorded deltas, a version counts them | the same key twice at once |
| `AnsweredIsRecorded` | who is answered 200 finds the operation on record, for good | answers before the commit, keys that another wallet has used |
| `ReplayIsAccepted` | an operation on record is never refused when asked for again, though the balance is used up | the order of replay check and UPDATE |
| `ImplementsStore` (of `WalletService`) | the statements amount to one step of `WalletStore` | overlapping UPDATEs, two requests that both found no replay |
| `OneJobPerEmployer` | jobs of one employer are not processed at once, until a lease lapses | deferrals, crashes, failed acquisitions and releases, stalls |
| `ProgressIsTrue` | counter and checkpoint are the number of completed lines, and those are the first ones, unless a slot has lost both locks | retries that begin again, a stalled predecessor that goes on |
| `ListIsCurrent` | a slot's list, read once, stays the set of open lines, under the same condition | the same |
| `NoLineLost` | a job that is completed in the database or in the queue has no open line; under every fault | a line skipped by a failure, an exception lost on the way to BullMQ |
| `CompletedHasTransfer` | a completed line has a transaction; under every fault | a failed request taken for an answer |
| `FailuresBurnAttempts` | attempts and stalls together are no more than the faults | deferrals that count, a failure that counts twice |
| `Finishes` | a queued job is completed, or has thrown as often as it may, or has stalled too often | a deferral that is never taken up again, a failed job not retried |
| `NoForeignAnswer` | two requests with one key and different bodies are never told about one another's transfer | the order of the checks for expiry, payload and stored answer; a key that exists before its row is settled |
| `AnswersAreTrue` | a verdict or a refusal that a client was told stays true | late consumptions, failures between the refusal and the row's FAILED, recovery |
| `QuoteSpentOnce` | a quote converts at most one transfer, the one it records | races for the quote, consumptions served late |
| `PaidAsQuoted` | an international transfer that goes on is paid what its amount is worth at the rate of its own currencies | a quote of other currencies, the padding of the rate |
| `PagesInOrder` | a traversal lists rows of its wallet, newest first, none twice | rows committed between the pages, ties of time, changing limits |
| `NothingSkipped` | it shows every row that was there when it began, but for what the cursor's cut passes over | the look-ahead row, the cursor, late commits |
| `AnsweredAsDocumented` | a request with a flaw is answered 400 and one without by another documented status, but for the flaws that an operation may not notice (`Unnoticed`) or answers wrongly (`Misanswered`), the extra statuses of `AlsoAnswered`, and the 403 of the two internal operations (`NotForClients`) | error paths that end in a 500, missing validation, a test that comes after a lookup |
| `RulesFitCallers` | no service is refused what it asks of another; clients are refused two internal operations and nothing else, and those happen for transfers only | prefixes that admit too much, a caller without a rule |

## 4. Runs

The runs of `Transfer` have three wallets: `t1` pays alice's 2 to bob (3 when converted), `t2` pays
bob's 1 to carol (2 when converted).

| run | instance | states | shows |
|---|---|---|---|
| `recovery` | `t1` international, bob funded by nothing but `t1`; two recoverers, two faults out of crashes and lost answers, late debits, batches and credits | 1.7 million | the lease and the branch order keep payment and refund apart, balances and verdicts agree, the escrow is implemented |
| `degraded` | `t2` international and worth 0 cents, bob without money of his own: `t2`'s debit is refused until `t1` has paid him, or for ever; one recoverer that takes one row per tick, one fault of any kind, everything may land late; fairness | 64 thousand | what remains true without exclusion; settlement of all transfers, and no dangling debit, when none is refused for ever |
| `poison_row` | carol's wallet is not active | | a violation, section 5 |
| `ledger` | two clients, one audit of pages of 3, eight ids: `t1` is posted with two entries and with four, `t2` balanced, balanced only overall, and with zeros; fairness | 85 thousand | batches are atomic and exclusive, audits sound while nothing overlaps |
| `fork` | the same with pages of 1000 | | a violation, section 5 |
| `wallet` | three clients, two debits of one cent, a credit, and an operation of another wallet with the same key, on a wallet with one cent | | operations are atomic and happen once |
| `payroll` | one employer, a job of two lines and one of one line, two slots, two attempts, one stall, any two faults of the five kinds; fairness | | exclusion, progress, completeness and termination of payroll |
| `unpaid` | the same with the code's three attempts | | a violation, section 5 |
| `initiate` | five requests with two keys: a transfer and its repetition, a domestic one that reuses their key, a competitor for their quote, and an invalid one; one quote, three currencies, any two faults | 4.8 million | keys, answers, quotes and conversion |
| `unscaled` | one transfer at a rate of 118.5 | | a violation, section 5 |
| `history` | four rows of two pairs of wallets, limits 1 and 2, two times per millisecond, clocks two apart | 2.4 million | the pages of a traversal |
| `gateway` | every documented operation and three that are not, each with up to two flaws, and the calls of the services | 179 thousand | statuses and permissions; no call without a handler, which would be a deadlock |

Why the bounds are enough. Rows of different transfers meet only in a wallet's
balance and in a recoverer's queue, so one row is enough for the properties of a
row and two for those two meetings. Every execution past the second starts
from the same recorded state as an earlier one, since all that an execution leaves
behind is at most four booleans per transfer and its requests in flight; two
recoverers and the live request give three executions at once, and two faults
let one fail after the other. The theorems of section 6 remove the bounds for the
most important properties. In `LedgerChain` two clients are enough for a pair of
statements to interleave, a page of 3 lets both batch sizes straddle a page, and
eight ids leave room for the longer batch, the shorter one and an abort between. In `WalletService`
three clients let a third operation come between two with the same key. In
`Payroll` one employer is enough, since leases and jobs of different employers never
meet; with two slots either job can meet its own retry or the other job, and a job of two
lines has a line before and a line after its checkpoint. In `Initiate` requests meet
only in a key or in a quote: two keys that want one quote, one of them used by three requests, are every meeting. In
`History` four rows give a page, its look-ahead row, a row that comes behind the reader and one before it;
two times per millisecond give a cut and a tie. In `Gateway` only the flaws
of a request are bounded: a handler's tests are of single flaws, and two of them show which test comes first. `payroll` allows two attempts
instead of three so that its two faults can use them up. Its jobs end, so a state
without a next step is not an error there.

*Fairness* (`degraded`, `ledger`, `payroll`, and the violations of liveness). A worker that is up continues: each
call is bounded by `HTTP_TIMEOUT_MS`. The scheduler's interval fires again after
every tick, failed or not (`recovery.service.ts:57-76`). A minute passes, a
lease that nobody renews expires. No fairness is assumed for requests to arrive,
for late requests to be served, or for any fault. Faults are finite in number,
which the code cannot promise: the liveness properties say that a transfer is
settled once the faults stop. In `ledger` the statements of a client and the pages of an
audit go on; a waiting INSERT is woken when the transaction it waits for ends, so it has
strong fairness. Nobody must post or audit. In `payroll` a slot goes on with its job, delays end and
orphaned keys expire. BullMQ's list is first in, first out, so a job that waits again and
again is taken (strong fairness), and every transfer is settled, which is `Settles` of `Transfer` when no
transfer is refused for ever: employers are funded, and the wallets active. Nobody must post a job.

*Deadlock* is not checked where the modelled behaviour ends: payroll jobs, requests, and
traversals are finite in number. It is checked in the other runs, where recoverers tick, audits and clients go on, and every
call finds its handler.

## 5. Where code and documents disagree

Each of the first four is shown by a run.

1. `poison_row`: recovery takes the oldest row first and a throwing execution ends
   the tick, so one row whose credit is refused (its recipient's wallet is not active)
   keeps all younger ones PROCESSING, against `recovery.service.ts:18-19`; and its
   own debit is never refunded, against `docs/MONEY_MOVEMENT_CONSISTENCY.md:123`. A refused *debit* does the same
   to the rows behind it: `runExecute()` throws at `transaction.service.ts:224-239` and writes no status, so a transfer that its sender
   cannot pay, or whose sender's wallet is not active, stays PROCESSING, is tried again at every tick, and ends the tick
   (`recovery.service.ts:43`). `docs/HARDENING.md:201-202` says that "repeated full runs converge to zero stale rows". `Settles` and
   `NoDanglingDebit` are therefore conditional on `NoneRefusedForEver`; in the run `degraded`, where bob may never get his money, both fail without it (a transfer that crashed after its
   debit is never taken up again while an older one is refused).
2. `fork`: two batches of different transactions read the same last entry and both
   hash onto it; the audit then reports a broken chain though nobody changed
   anything, against `decisions.md:185` and `docs/HARDENING.md:182-184`.
3. `unpaid`: a transfer is reversed and its request answered 500; BullMQ tries the job again,
   the same key is answered 202, which `response.ok` accepts, and the line is recorded
   as completed although the money went back. A test of resumed jobs
   (`payroll-service/test/payroll-resumability.integration.test.ts:34`) says that "no item is lost or double-paid", and
   `decisions.md:106-107` takes the checkpoint for the "last successfully processed line item".
4. `unscaled`: `cents()` pads the digits of a rate to nine and divides by 10^8, which is right for one digit
   before the point. At the provider's rate for USD to BDT, 118.5, a transfer is paid at 1.185.

Also met, and not given a run of their own:

- A reversal that arrives late creates money. The ledger call and then the reversal give up after their 15
  seconds, a minute later a recovery finds no reversal, debits again (a
  replay), creates the batch, pays, and then the reversal arrives. All leases are
  held. `docs/MONEY_MOVEMENT_CONSISTENCY.md:115-116` says "No creation/destruction".
  `recovery` therefore excludes late reversals (add `"reversal"` to its `LateKinds` to see it), and so does
  `LeaseHolds` in the theorems. `NoMoneyCreated` fails in the same way when a
  lease lapses or Redis is down, which `docs/HARDENING.md:194-196` and `:220-221` exclude.
- An international request whose quote is for other currencies is
  answered 422 (`transaction.service.ts:407-416`), but its row stays PROCESSING, and recovery pays the source amount
  unconverted (`Mismatched` in `Transfer`). A crash before the conversion is written has the same effect.
- `FirstWriterWins` fails with `stall`, since the FX branch writes FAILED whatever the status has become; with a second
  fault `NoDanglingDebit` fails too.
- `decisions.md:45-46` says that recovery
  need not act when neither a reversal nor a batch exists, while the code then debits and
  goes forward, which the models do too.
- `OneJobPerEmployer` without its condition fails once
  a job takes more than two minutes, since the lease is not renewed, although
  `payroll.service.ts:58-59` says that jobs of one employer "never execute concurrently";
  and `ProgressIsTrue` fails when BullMQ's lock is lost as well.
- A crash between
  the rows and `queue.add()` leaves a job that stays queued in the database and that no worker
  ever gets; nothing in the code brings it back. A job whose attempts are used up stays
  `running` in the database for ever.
- A wallet operation that overlaps another one with its key can be answered 422, because it has
  found no record and its UPDATE then finds the money gone, although
  `docs/ENCRYPTION_AND_TESTS.md:104-105` says that replayed keys return the wallet: `ReplayIsAccepted`
  is therefore about requests that begin after the first has committed.
- A key whose transfer was REVERSED or FAILED is answered 202 PROCESSING until it expires.
- A new row may become visible behind a reader of the history, since its time is chosen before it commits, by
  a replica's clock. The cursor's time has milliseconds, the column holds microseconds if it is written by
  anything but this service, and rows between the two are passed over. `docs/TRANSACTION_HISTORY.md:63` and `:125` say that neither
  happens; `NothingSkipped` claims what remains.
- The OpenAPI document and the handlers differ where `AnsweredAsDocumented` names it.
  - Not noticed (`Unnoticed`): `POST /accounts/users` tests only that there are an email and a name
    (account-service `wallet.routes.ts:18`), so an email of any form is a 201 although `swagger.ts:46` says
    `format: email`; a phone that is no string passes when it is false. A limit of the history is read by `Number()`, in hexadecimal too, and a
    cursor that no page gave is taken if it decodes. An international transfer without a quote, or with null for it, and one without a
    currency to convert to are noticed at the consumption only, when the row is there: 500 and 422.
  - Answered wrongly (`Misanswered`): a name or a phone that is no string ends in the cipher
    (`crypto.service.ts:11`) as a 500. `initiate()` tests only that there are wallet ids and a currency whose text matches; a malformed
    or mistyped wallet id, a currency that is a list, or a malformed quote id is refused by the columns, after the insertion of the key
    (`transaction.service.ts:349`), so with a key that exists the answer is 409 (`:382-388`), not 400. A currency of
    `POST /fx/quote` that is a list of one passes for that currency, and is a 503 if the provider has no rate. Items of a payroll that
    are no list, and an item that is null, are a 500.
  - Not in the document (`AlsoAnswered`): a completed key is replayed with 200; a transfer that another service
    refuses is answered 500, for which `docs/API.md:63` has 422; an unknown quote 404; a payroll with too many items 400; the later of two
    simultaneous wallet operations with one key, 500.
  - Malformed ids of the getters are answered 400, not 404. `POST /ledger/batches` and `POST /fx/quote/{id}/consume` are
    refused to clients with 403 (`NotForClients`), as `docs/SERVICE_TO_SERVICE_SECURITY.md:62-75` means it; behind that, a
    `transactionId` or quote id that is no UUID fails at the casts of `fx.service.ts:39` and is a 500.
  - Not in the model: a body that is unreadable, null, no object, too large, or of another media type. The error handlers know
    only `AppError` and Prisma's complaints (`error-handler.ts:22-23`), so those are answered 500 where the document has 400.

## 6. Theorems

`TransferProofs` proves, for every set of transfers, recoverers and wallets, every
amount, every scan limit and any number of faults, from `SetsAssumption` and
`DataAssumption` of `Transfer`:

| theorem | statement |
|---|---|
| `TypeCorrect` | `Spec => []TypeOK` |
| `BackedAlways` | `Spec => []Backed` |
| `MoneyIsNotCreated` | `LeaseHolds => (Spec => []NoMoneyCreated)` |
| `ExecutorIsAlone` | `LeaseHolds => (Spec => []OneExecutor)` |

`LeaseHolds` is about constants only: neither `lapse` nor `outage` is among the
faults, and reversals do not land late. Crashes, lost answers, stalls, and late
debits, batches and credits are all allowed.

*`Backed`* is not inductive: that a worker may send a credit depends on what it
has done before. `BackedInv` adds that a worker's program counter is evidence of the calls
served so far (`WorkerBacked`), and that a late request is backed like the worker that
sent it (`MessageBacked`). Records are never taken back (`Grows`), so evidence
stays valid however others interleave: this is why no exclusion is needed.

*`NoMoneyCreated`* needs the lease. `ExclusiveInv` adds that the worker inside
`runExecute()` holds the row's lease, that what it has read is still so (no reversal
exists while it may pay; no credit exists or is under way while it may refund), and that
late credits exist only for transfers that are not reversed. A late reversal would break
the last part, as section 5 tells.

The proofs have one lemma per kind of step (a POST, a return, a status write, a
step that touches neither books nor position) and one step per action.

In the same generality, with the clock:

| theorem | statement |
|---|---|
| `AmountsAgree` | `ClockHolds => (Spec => []LedgerAgrees)` |
| `QuoteIsHonoured` | `ClockHolds => (Spec => []QuoteHonoured)` |
| `VerdictsAreFinal` | `ClockHolds => (Spec => FirstWriterWins)` |
| `VerdictsAreTrue` | `ClockHolds /\ LeaseHolds => (Spec => []VerdictIsTruth)` |
| `TransfersImplementEscrow` | `ClockHolds /\ LeaseHolds => (Spec => ImplementsEscrow)` |
| `BooksMatchTheHistory` | the same hypotheses, finitely many transfers: `Spec => []BooksMatchHistory` |
| `MoneyIsConserved` | the same hypotheses, finitely many transfers and wallets: `Spec => []MoneyConserved` |

`ClockHolds` is about constants too: `stall` is not among the faults, so that the FX branch, one call of
15 seconds and one write, is over before its row is a minute old. The first three theorems
need nothing of the lease: leases may lapse, Redis may be down, reversals may land late. With `stall`,
`FirstWriterWins` fails (section 5).

`SettledInv` is what they rest on. A row is *untouched* while its own request is in the FX branch, and when that
has failed; nobody else acts on it, because it is not stale and only its own request could have handed it on. Once it is past that,
the conversion never changes again, so every worker and every queue has the row's amounts as they are
(`Current`), and every request in flight and every record carries the amount that follows from
them (`Due`). Only then can a status be written by several workers, and all of those writes ask that it is still
PROCESSING. For `VerdictsAreTrue`, `KeyInv` says that the key is completed exactly when the row is, since
one database transaction writes both.

The escrow is simulated in two steps. `BooksWriters` says that a step changes the books only by serving one request,
and that this request is *lawful*: it is backed by earlier records and carries the right amount, and by the lease no reversal
meets a credit. `StatusWriters` says the same of verdicts. Serving a lawful request moves one transfer's money by one step of
`Escrow` or, when it is a replay, by none. `BooksMatchTheHistory` adds `Bookkeeping`: a balance is the opening balance and
the sum of what the recorded operations of all transfers did to this wallet. When all rows have a verdict, the sum
falls apart into what the COMPLETED ones took and what they gave; the others add up to nothing.

`BooksMatchTheHistory` speaks of the moments when nothing is open. `MoneyIsConserved` speaks of all others too, those
between a debit and its payment or refund among them: all balances and what debited transfers hold add up
to the opening balances and what recipients were paid. It sums `Bookkeeping` over the wallets. A transfer's debit is in exactly one
wallet's sum and so is its credit, and by exclusion a refund stands alone against its debit.

One more theorem needs no hypothesis:

| theorem | statement |
|---|---|
| `StoresAreUsed` | `Spec => UsesStores` |

`UsesStores` (`TransferStores`) joins the models of the three services. `Transfer` treats a wallet operation and a batch as single
steps; `WalletService` and `LedgerChain` are proved to keep `WalletStore` and `BatchStore`, for the requests that
they are given. The theorem says that a step of `Transfer` is one operation of `WalletStore`, under the keys, wallets and amounts that
`execute()` posts, or one batch of `BatchStore`, or leaves both tables alone, also when a lease is lost, a request lands
late or a clock stalls. It rests on `AskedInv`, and on the types of what workers hold: every amount that is posted, or still in
flight, is the transfer's own or the quoted one. A request that finds its record changes nothing (`ReplayStays`), any other
one is applied or recorded once (`ServeApplies`, `ServeRecords`).

`WalletProofs` proves, for all wallets, keys, requests and clients, from `WalletAssumption`:

| theorem | statement |
|---|---|
| `NoOverdraft` | `Spec => []TypeOK`, which has balances in `Nat` |
| `AnswersAreTrue` | `Spec => []AnsweredIsRecorded` |
| `ReplaysAreAccepted` | `Spec => []ReplayIsAccepted` |
| `ServiceImplementsStore` | `Spec => ImplementsStore`: every step is one of `WalletStore` or changes none of its tables |
| `BalancesAreHistories` | finitely many keys: `Spec => []BalanceIsHistory` |

`LockInv` says what the row's lock gives: one open transaction per wallet, so that what the
UPDATE saw still holds at the commit, and what the unique index gives: nothing is on record for a
transaction about to commit. `AskedInv` says that a repeated request never gets as far as the UPDATE.
`HistoryInv` adds to `BalanceIsHistory` that a wallet that does not exist yet has no operations. A commit adds one operation,
and `LockInv` says that the balance it writes is the one that the UPDATE saw and that its key was unused.

`LedgerProofs` proves, for all transactions, lists, accounts, currencies, page sizes, numbers of ids and audits, and
any finite number of clients, from `ListsAssumption`:

| theorem | statement |
|---|---|
| `LedgerInductive` | `Spec => []LedgerInv`, the inductive invariant |
| `LedgerTypes` | `Spec => []TypeOK` |
| `NoRowIsSkipped` | `Spec => []NoRowSkipped` |
| `EntriesLinkBack` | `Spec => []LinksBack` |
| `InvariantCheckHolds` | `Spec => []InvariantCheckOk` |
| `SerialAuditsPass` | `Spec => []SerialAuditPasses` |
| `LedgerImplementsStore` | `Spec => ImplementsStore`: every step is one of `BatchStore` or changes none of its records |

`LedgerInv` has two parts. `PostingInv` says that ids are never used twice, not even by aborted transactions
(`IdsInv`), that a client with uncommitted entries has written exactly the first ones of a valid list (`BatchInv`), and
that the unique index lets one client at a time do so for a transaction, which has no batch yet (`RequestInv`, `IndexInv`).
`AuditInv` names for every audit the entries that it owes and those it has read: up to its last id it has missed none of those
it owes, whatever smaller ids were committed behind it meanwhile. `NoRowSkipped` follows, since a page that is shorter than its
limit has read all the rest.

Three more invariants are kept on top of it. `LinksInv`: the last hash that a client carries is one of a
committed entry or one of its own, so an abort takes no hash away from others. `AmountsInv`: what a client
has written so far adds up to the first amounts of its list, so at the commit to a balanced list (`FirstAll`). `ChainInv`: until two batches
overlap, the committed entries are one chain, the one batch in progress goes on from its end, and an audit carries the hash
of the entry it read last. `LedgerImplementsStore` reads the batch of a transaction off its entries in the order of
their ids: a commit adds the whole list (`BatchInOrder`), and no other step changes a batch.

`PayrollProofs` proves, for all jobs, employers, slots, numbers of items and attempts,
and any number of faults of all five kinds, from `PayrollAssumption`:

| theorem | statement |
|---|---|
| `ProgressInvAlways` | `Spec => []ProgressInv`, the inductive invariant |
| `PayrollTypeCorrect` | `Spec => []TypeOK` |
| `NoLineIsLost` | `Spec => []NoLineLost` |
| `EveryLineHasItsTransfer` | `Spec => []CompletedHasTransfer` |
| `EmployersAreSerialised` | `Spec => []OneJobPerEmployer` |
| `ProgressIsTold` | `Spec => []ProgressIsTrue` |
| `ListsAreCurrent` | `Spec => []ListIsCurrent` |
| `AttemptsArePaidFor` | finitely many jobs and slots: `Spec => []FailuresBurnAttempts` |

The argument has three layers. `LineInv` is what a slot knows of its own job: all that is not on
its list is completed, the line whose answer it has got has a transfer, and a
job without an exception is complete. Completed lines and transfers only grow
(`Grows`), so other slots cannot make that untrue (`Frame`), and `NoLineLost`
and `CompletedHasTransfer` follow without any exclusion. `LeaseInv` and
`HolderInv` say who has the lease until one lapses and who has BullMQ's lock until
one is lost: either gives one slot per job (`LocksExclude`). With that the list is not only an
upper bound of the open lines but equal to them, so that its least element is
the number of completed ones (`NextIsCount`) and the counter is right.

`FailuresBurnAttempts` counts attempts when BullMQ records them, which is several steps after the fault that caused
them. `DebtInv` adds what is still to be counted: a slot owes an attempt when it has thrown or when the transfer it waits
for was reversed, a job owes one when its worker is gone. Every fault makes one debt at most,
recording it moves it, and a deferral makes none. `OneWaits` is needed besides: one reversed transfer throws in one slot only,
since only the request that inserted the row waits for its execution.

`InitiateProofs` proves, for all requests, keys, bodies, quotes, rates and any number of faults, from
`InitiateAssumption`:

| theorem | statement |
|---|---|
| `CentsExact` | `cents(a, rate) = Worth(a, rate)` for every amount and every rate with one digit before the point |
| `InitiateTypeCorrect` | `Spec => []TypeOK` |
| `AnswersAreOwn` | `Spec => []NoForeignAnswer` |
| `AnswersStayTrue` | `Spec => []AnswersAreTrue` |
| `QuotesAreSpentOnce` | `Spec => []QuoteSpentOnce` |
| `QuotesAreHonoured` | `Spec => []PaidAsQuoted` if all rates have one digit before the point |

`KeyFacts` is what is on record of a key, `CallFacts` what a call in progress has made sure of: the row is its own, it is
PROCESSING while the FX branch lasts, and before the conversion the quote is spent on it and has its currencies. `AnswerFacts` and
`RateFacts` are the properties in the form in which steps keep them. The assumption of `QuotesAreHonoured`
is what finding 4 lacks.

`HistoryProofs` proves, for all rows, parties, limits, clocks and skews, from `HistoryAssumption`:

| theorem | statement |
|---|---|
| `PagesAreInOrder` | `Spec => []PagesInOrder` |
| `NothingIsSkipped` | `Spec => []NothingSkipped` |

`TableInv` says that there are finitely many rows, each with its own id, so that `Newer` is a total order
of any part of them and `Sorted` lists exactly that part in that order (`SortedIs` and the lemmas before it).
`ReaderInv` says that the cursor between two pages is the last item's, with its time cut to the millisecond. The cut moves the
cursor back, never forward: a row that matches it is older than the last item, so the next page goes on in order; a row of the wallet that
is older and does not match shares the last item's millisecond, and is one of those that `Cut` names.

`GatewayProofs` proves:

| theorem | statement |
|---|---|
| `GatewayInductive` | `Spec => []GatewayInv`, the inductive invariant |
| `AnswersAreDocumented` | `Spec => []AnsweredAsDocumented` |
| `RulesFit` | `Spec => []RulesFitCallers` |

`GatewayInv` has three parts. `StackInv` says where a call comes from: a client's request, what the proxy makes of it (`Routes`), or
what a handler asks of another service, and that a call on top of another one is one that the lower one's handler makes
and waits for. `ReplyInv` says what an answer may be, given who asked and what is wrong with the request. `DbInv` says
which rows imply which others: what another service stores for a transfer exists only when the transfer does. Both properties
follow by looking at the calls that a client, or a service, has made. The theorems hold for every `MaxFlaws`, so for
requests in which any number of things is wrong, and show which of the rules and checks the two properties rest on,
handler by handler.

*Sums.* The models add up with the fold `SumFunctionOnSet`, which takes out one chosen element after the other. Induction over
finite sets cannot be cited, since the library's theorem takes an operator as a parameter. `SumTheorems`
therefore argues by minimal counterexamples: among the finite sets for which a sum is not what it should be, one has no such proper subset, and
one element less or more gives the contradiction (`FiniteInduction`, for a set of sets in place of a predicate). From this come the recursive equation of the
fold, that the choice of the elements does not matter, and the laws that the proofs cite: one element added or changed, two functions added, two
disjoint sets put together. The sums need finite sets of transfers, keys, jobs, slots or clients, which these theorems name as
hypotheses; every set of requests that a running system has is one.

*Hypotheses.* What is assumed beside the `ASSUME`s of the modules is written in each theorem and restricts
constants only, never states: `LeaseHolds` and `ClockHolds` which faults there are, `IsFiniteSet` how many actors, and of
`QuotesAreHonoured` the provider's rates. The instance of `recovery` satisfies the first two together, those of all passing
runs the other two.

*Only model-checked:*

- Liveness: `Settles` and `NoDanglingDebit`, both on the condition `NoneRefusedForEver`, `Answered`, `Finishes`. TLAPS
  does not reason about fairness here.
- The four violations, which are counterexamples.

## 7. Plan

What is left, in this order:

1. Proofs: that `Payroll`'s use of `Initiate`'s answers is what `Initiate` promises, as `StoresAreUsed` says it of
   `Transfer` and its stores.
2. A timed model of the lease and its heartbeat that says how many renewals must fail
   before the fault `lapse` of `Transfer` happens.

## 8. Not modelled

The encryption of names and phone numbers calls a library and decides nothing. Logging, metrics, tracing and
configuration do not influence behaviour. The heartbeat of the lease is the fault `lapse`, the end of a replica's
scheduler the fault `crash`; the wait for a Redis client that is still connecting is part of the acquisition. Of the gateway
the pages that render its document and the schemas of answers are left out, as are bodies that are not
JSON objects, texts that PostgreSQL cannot hold (with a NUL), outages of an upstream or a database, and failures of the proxy, and of service authentication the comparison of secrets, which are taken to be configured. Payroll's lookup for queue entries of an
earlier release is left out. The databases are taken to
be serializable for the single steps named above, Redis to execute one command
or script at a time.
