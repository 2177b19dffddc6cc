------------------------------- MODULE Payroll -------------------------------
(***************************************************************************)
(* payroll-service: createPayrollJob(), the BullMQ worker around           *)
(* runPayrollJobExclusive(), the employer's lease in Redis and             *)
(* processPayroll(), with the transfers that it asks transaction-service   *)
(* for.  A slot of a worker takes one awaited call per step.               *)
(*                                                                         *)
(* Of a transfer only its verdict matters here: it is the one that Escrow  *)
(* promises, and its idempotency key is completed exactly when the row is  *)
(* (VerdictIsTruth of Transfer).                                           *)
(***************************************************************************)
EXTENDS Naturals, FiniteSets, FiniteSetsExt, Functions

CONSTANTS
  Jobs, Employers,
  employer,     \* employerAccountId of a job
  items,        \* totalItems of a job
  Slots,        \* WORKER_CONCURRENCY slots of all worker processes
  NoOne, Orphan,
  Attempts,     \* attempts of queue.add()
  MaxStalled,   \* BullMQ's maxStalledCount
  Faults, MaxFaults

FaultKinds == {"crash", "error", "outage", "lapse", "stall"}

ASSUME PayrollAssumption ==
  /\ Jobs # {} /\ employer \in [Jobs -> Employers]
  /\ items \in [Jobs -> Nat \ {0}]
  /\ NoOne \notin Slots /\ Orphan \notin Slots /\ NoOne # Orphan
  /\ Attempts \in Nat \ {0} /\ MaxStalled \in Nat
  /\ Faults \subseteq FaultKinds /\ MaxFaults \in Nat

VARIABLES
  \* payroll-service's database
  jobStatus,     \* payroll_jobs.status, "absent" before the row exists
  done,          \* lines whose payroll_items.status is 'completed'
  processed,     \* processed_items
  checkpoint,    \* checkpoint_index
  \* Redis: the BullMQ job and the lease
  queue,
  holder,        \* the slot that has BullMQ's lock on the job
  attempts,      \* attemptsMade
  stalls,        \* stalledCounter
  lease,         \* payroll:employer-lock:<employerAccountId>
  \* transaction-service
  transfer,      \* per line the status of the transaction with its key
  late,          \* requests nobody waits for that may still arrive
  \* the slots
  pc,
  job,
  todo,          \* the lines of findMany() that are not yet settled
  threw,
  struck,        \* the kinds of fault that have happened, and their number
  faults

dbVars    == <<jobStatus, done, processed, checkpoint>>
queueVars == <<queue, holder, attempts, stalls>>
txVars    == <<transfer, late>>
slotVars  == <<pc, job, todo, threw>>
faultVars == <<struck, faults>>
vars      == <<dbVars, queueVars, lease, txVars, slotVars, faultVars>>

NoJob == CHOOSE j \in Jobs : TRUE

Lines(j) == 0 .. items[j] - 1

\* The steps of withEmployerLock()'s callback, and the release after it.
RunSteps == {"start", "list", "pay", "send", "execute", "record", "complete"}
PCs      == RunSteps \cup {"idle", "acquire", "release", "acknowledge"}

TypeOK ==
  /\ jobStatus \in [Jobs -> {"absent", "queued", "running", "completed"}]
  /\ done \in [Jobs -> SUBSET Nat] /\ \A j \in Jobs : done[j] \subseteq Lines(j)
  /\ processed \in [Jobs -> Nat] /\ checkpoint \in [Jobs -> Nat]
  /\ queue \in [Jobs -> {"absent", "dropped", "waiting", "delayed", "active",
                         "done", "failed"}]
  /\ holder \in [Jobs -> Slots \cup {NoOne}]
  /\ attempts \in [Jobs -> 0 .. Attempts] /\ stalls \in [Jobs -> Nat]
  /\ lease \in [Employers -> Slots \cup {NoOne, Orphan}]
  /\ DOMAIN transfer = Jobs
  /\ \A j \in Jobs : transfer[j] \in
       [Lines(j) -> {"absent", "PROCESSING", "COMPLETED", "REVERSED"}]
  /\ late \in [Jobs -> SUBSET Nat] /\ \A j \in Jobs : late[j] \subseteq Lines(j)
  /\ pc \in [Slots -> PCs] /\ job \in [Slots -> Jobs]
  /\ todo \in [Slots -> SUBSET Nat] /\ threw \in [Slots -> BOOLEAN]
  /\ struck \subseteq Faults /\ faults \in 0 .. MaxFaults

Init ==
  /\ jobStatus = [j \in Jobs |-> "absent"]
  /\ done = [j \in Jobs |-> {}]
  /\ processed = [j \in Jobs |-> 0] /\ checkpoint = [j \in Jobs |-> 0]
  /\ queue = [j \in Jobs |-> "absent"]
  /\ holder = [j \in Jobs |-> NoOne]
  /\ attempts = [j \in Jobs |-> 0] /\ stalls = [j \in Jobs |-> 0]
  /\ lease = [e \in Employers |-> NoOne]
  /\ transfer = [j \in Jobs |-> [i \in Lines(j) |-> "absent"]]
  /\ late = [j \in Jobs |-> {}]
  /\ pc = [s \in Slots |-> "idle"]
  /\ job = [s \in Slots |-> NoJob]
  /\ todo = [s \in Slots |-> {}] /\ threw = [s \in Slots |-> FALSE]
  /\ struck = {} /\ faults = 0

Strike(kind) ==
  /\ kind \in Faults /\ faults < MaxFaults
  /\ struck' = struck \cup {kind}
  /\ faults' = faults + 1

Goto(s, label) == pc' = [pc EXCEPT ![s] = label]

\* An exception leaves processPayroll(); the lease is released on the way.
Throw(s) == Goto(s, "release") /\ threw' = [threw EXCEPT ![s] = TRUE]

\* The slot is free for another job.
Free(s) ==
  /\ Goto(s, "idle")
  /\ job' = [job EXCEPT ![s] = NoJob]
  /\ todo' = [todo EXCEPT ![s] = {}]
  /\ threw' = [threw EXCEPT ![s] = FALSE]

-----------------------------------------------------------------------------
(* POST /jobs: the rows, then the queue.                                   *)

CreatePayrollJob(j) ==
  /\ jobStatus[j] = "absent"
  /\ jobStatus' = [jobStatus EXCEPT ![j] = "queued"]
  /\ UNCHANGED <<done, processed, checkpoint, queueVars, lease, txVars, slotVars,
                 faultVars>>

\* The service may die, or Redis refuse, between the two.
Enqueue(j) ==
  /\ jobStatus[j] = "queued" /\ queue[j] = "absent"
  /\ \/ /\ queue' = [queue EXCEPT ![j] = "waiting"]
        /\ UNCHANGED faultVars
     \/ /\ Strike("crash") \/ Strike("outage")
        /\ queue' = [queue EXCEPT ![j] = "dropped"]
  /\ UNCHANGED <<dbVars, holder, attempts, stalls, lease, txVars, slotVars>>

-----------------------------------------------------------------------------
(* The queue and the lease.                                                *)

Take(s, j) ==
  /\ pc[s] = "idle" /\ queue[j] = "waiting"
  /\ queue' = [queue EXCEPT ![j] = "active"]
  /\ holder' = [holder EXCEPT ![j] = s]
  /\ job' = [job EXCEPT ![s] = j]
  /\ Goto(s, "acquire")
  /\ UNCHANGED <<dbVars, attempts, stalls, lease, txVars, todo, threw, faultVars>>

Promote(j) ==
  /\ queue[j] = "delayed"
  /\ queue' = [queue EXCEPT ![j] = "waiting"]
  /\ UNCHANGED <<dbVars, holder, attempts, stalls, lease, txVars, slotVars, faultVars>>

\* Mutation of AcquireEmployerLock: SET without NX.
AcquireEmployerLockOver(s) ==
  /\ pc[s] = "acquire"
  /\ lease' = [lease EXCEPT ![employer[job[s]]] = s]
  /\ Goto(s, "start")
  /\ UNCHANGED <<dbVars, queueVars, txVars, job, todo, threw, faultVars>>

\* SET NX PX
AcquireEmployerLock(s) ==
  LET e == employer[job[s]] IN
  /\ pc[s] = "acquire" /\ lease[e] = NoOne
  /\ lease' = [lease EXCEPT ![e] = s]
  /\ Goto(s, "start")
  /\ UNCHANGED <<dbVars, queueVars, txVars, job, todo, threw, faultVars>>

\* Mutation of AcquireFails: it fails open.
AcquireFailsOpen(s) ==
  /\ pc[s] = "acquire" /\ Strike("outage")
  /\ Goto(s, "start")
  /\ UNCHANGED <<dbVars, queueVars, lease, txVars, job, todo, threw>>

\* A failing SET is a failing job, and not released: its key may be there.
AcquireFails(s) ==
  LET e == employer[job[s]] IN
  /\ pc[s] = "acquire" /\ Strike("outage")
  /\ \/ UNCHANGED lease
     \/ lease[e] = NoOne /\ lease' = [lease EXCEPT ![e] = Orphan]
  /\ Goto(s, "acknowledge") /\ threw' = [threw EXCEPT ![s] = TRUE]
  /\ UNCHANGED <<dbVars, queueVars, txVars, job, todo>>

\* Mutation of Defer: a deferral is a failed attempt.
DeferBurns(s) ==
  LET j == job[s] IN
  /\ pc[s] = "acquire" /\ lease[employer[j]] # NoOne /\ holder[j] = s
  /\ queue' = [queue EXCEPT ![j] = "delayed"]
  /\ holder' = [holder EXCEPT ![j] = NoOne]
  /\ attempts' = [attempts EXCEPT ![j] = @ + 1]
  /\ Free(s)
  /\ UNCHANGED <<dbVars, stalls, lease, txVars, faultVars>>

\* EmployerLockBusyError, which an unready Redis client is answered with too:
\* the job is moved to delayed, if it is still this slot's.  A move that fails
\* leaves the job active and its lock to expire.
Defer(s) ==
  LET j == job[s] IN
  /\ pc[s] = "acquire"
  /\ \/ lease[employer[j]] # NoOne /\ UNCHANGED faultVars
     \/ Strike("outage")
  /\ IF holder[j] = s
     THEN /\ holder' = [holder EXCEPT ![j] = NoOne]
          /\ \/ queue' = [queue EXCEPT ![j] = "delayed"]
             \/ faults' > faults /\ UNCHANGED queue
     ELSE UNCHANGED <<queue, holder>>
  /\ Free(s)
  /\ UNCHANGED <<dbVars, attempts, stalls, lease, txVars>>

\* The script deletes the key only if it holds this slot's token.  Its failure
\* replaces the outcome of the job, and the key stays until it expires.
ReleaseEmployerLock(s) ==
  LET e == employer[job[s]]
      Left(value) == lease' = [lease EXCEPT ![e] = IF @ = s THEN value ELSE @]
  IN
  /\ pc[s] = "release"
  /\ \/ Left(NoOne) /\ UNCHANGED <<threw, faultVars>>
     \/ /\ Strike("outage") /\ Left(Orphan)
        /\ threw' = [threw EXCEPT ![s] = TRUE]
  /\ Goto(s, "acknowledge")
  /\ UNCHANGED <<dbVars, queueVars, txVars, job, todo>>

\* Mutation of Acknowledge: a failed job is not tried again.
AcknowledgeOnce(s) ==
  LET j == job[s] IN
  /\ pc[s] = "acknowledge" /\ holder[j] = s
  /\ holder' = [holder EXCEPT ![j] = NoOne]
  /\ attempts' = [attempts EXCEPT ![j] = IF threw[s] THEN @ + 1 ELSE @]
  /\ queue' = [queue EXCEPT ![j] = IF threw[s] THEN "failed" ELSE "done"]
  /\ Free(s)
  /\ UNCHANGED <<dbVars, stalls, lease, txVars, faultVars>>

\* BullMQ records the outcome; a job that is no longer the slot's is left alone.
Acknowledge(s) ==
  LET j == job[s] IN
  /\ pc[s] = "acknowledge"
  /\ IF holder[j] # s
     THEN UNCHANGED <<queue, holder, attempts>>
     ELSE /\ holder' = [holder EXCEPT ![j] = NoOne]
          /\ attempts' = [attempts EXCEPT ![j] = IF threw[s] THEN @ + 1 ELSE @]
          /\ queue' = [queue EXCEPT ![j] =
               IF ~threw[s] THEN "done"
               ELSE IF attempts[j] + 1 < Attempts THEN "waiting" ELSE "failed"]
  /\ Free(s)
  /\ UNCHANGED <<dbVars, stalls, lease, txVars, faultVars>>

\* BullMQ's check for active jobs whose lock has expired.
Stalled(j) ==
  /\ queue[j] = "active" /\ holder[j] = NoOne
  /\ stalls' = [stalls EXCEPT ![j] = @ + 1]
  /\ queue' = [queue EXCEPT ![j] =
                 IF stalls[j] < MaxStalled THEN "waiting" ELSE "failed"]
  /\ UNCHANGED <<dbVars, holder, attempts, lease, txVars, slotVars, faultVars>>

-----------------------------------------------------------------------------
(* processPayroll()                                                        *)

\* The effects of its statements, which a lost answer does not undo.
SetStatus(j, value) ==
  /\ jobStatus' = [jobStatus EXCEPT ![j] = value]
  /\ UNCHANGED <<done, processed, checkpoint>>

SetCompleted(j, i) ==
  /\ done' = [done EXCEPT ![j] = @ \cup {i}]
  /\ processed' = [processed EXCEPT ![j] = @ + 1]
  /\ checkpoint' = [checkpoint EXCEPT ![j] = i + 1]
  /\ UNCHANGED jobStatus

NextLine(s) == Min(todo[s])

Statement(s) ==
  \/ pc[s] = "start" /\ SetStatus(job[s], "running")
  \/ pc[s] = "list" /\ UNCHANGED dbVars
  \/ pc[s] = "record" /\ SetCompleted(job[s], NextLine(s))
  \/ pc[s] = "complete" /\ SetStatus(job[s], "completed")

Start(s) ==
  /\ pc[s] = "start" /\ Statement(s)
  /\ Goto(s, "list")
  /\ UNCHANGED <<queueVars, lease, txVars, job, todo, threw, faultVars>>

\* Mutation of FindItems: completed items are listed too.
FindItemsAll(s) ==
  /\ pc[s] = "list" /\ Statement(s)
  /\ todo' = [todo EXCEPT ![s] = Lines(job[s])]
  /\ Goto(s, "pay")
  /\ UNCHANGED <<queueVars, lease, txVars, job, threw, faultVars>>

FindItems(s) ==
  /\ pc[s] = "list" /\ Statement(s)
  /\ todo' = [todo EXCEPT ![s] = Lines(job[s]) \ done[job[s]]]
  /\ Goto(s, "pay")
  /\ UNCHANGED <<queueVars, lease, txVars, job, threw, faultVars>>

PayNext(s) ==
  /\ pc[s] = "pay"
  /\ Goto(s, IF todo[s] = {} THEN "complete" ELSE "send")
  /\ UNCHANGED <<dbVars, queueVars, lease, txVars, job, todo, threw, faultVars>>

Record(s) ==
  /\ pc[s] = "record" /\ Statement(s)
  /\ todo' = [todo EXCEPT ![s] = @ \ {NextLine(s)}]
  /\ Goto(s, "pay")
  /\ UNCHANGED <<queueVars, lease, txVars, job, threw, faultVars>>

Complete(s) ==
  /\ pc[s] = "complete" /\ Statement(s)
  /\ Goto(s, "release")
  /\ UNCHANGED <<queueVars, lease, txVars, job, todo, threw, faultVars>>

StatementFails(s) ==
  /\ Strike("error")
  /\ pc[s] \in {"start", "list", "record", "complete"}
  /\ Statement(s) \/ UNCHANGED dbVars
  /\ Throw(s)
  /\ UNCHANGED <<queueVars, lease, txVars, job, todo>>

-----------------------------------------------------------------------------
(* POST /transactions, and what becomes of the transfer.                   *)

SetTransfer(j, i, value) == transfer' = [transfer EXCEPT ![j][i] = value]

\* initiate(): the first request with a key inserts its row and executes it.
InsertRow(s) ==
  LET j == job[s]
      i == NextLine(s)
  IN
  /\ pc[s] = "send" /\ transfer[j][i] = "absent"
  /\ SetTransfer(j, i, "PROCESSING")
  /\ Goto(s, "execute")
  /\ UNCHANGED <<dbVars, queueVars, lease, late, job, todo, threw, faultVars>>

\* Any other is answered with the stored response or with 202, both of them ok.
Replay(s) ==
  /\ pc[s] = "send" /\ transfer[job[s]][NextLine(s)] # "absent"
  /\ Goto(s, "record")
  /\ UNCHANGED <<dbVars, queueVars, lease, txVars, job, todo, threw, faultVars>>

\* Mutation of Executed: a line that fails is skipped.
ExecutedOrSkipped(s) ==
  LET verdict == transfer[job[s]][NextLine(s)] IN
  /\ pc[s] = "execute"
  /\ \/ verdict = "COMPLETED" /\ Goto(s, "record") /\ UNCHANGED todo
     \/ /\ verdict = "REVERSED" /\ Goto(s, "pay")
        /\ todo' = [todo EXCEPT ![s] = @ \ {NextLine(s)}]
  /\ UNCHANGED <<dbVars, queueVars, lease, txVars, job, threw, faultVars>>

\* The answer to the first: 201, or an error if the execution has thrown, be it
\* that it gave the debit back or that it leaves the row to the recovery.
Executed(s) ==
  LET verdict == transfer[job[s]][NextLine(s)] IN
  /\ pc[s] = "execute"
  /\ \/ /\ verdict = "COMPLETED" /\ Goto(s, "record")
        /\ UNCHANGED <<threw, faultVars>>
     \/ verdict = "REVERSED" /\ Throw(s) /\ UNCHANGED faultVars
     \/ verdict = "PROCESSING" /\ Strike("error") /\ Throw(s)
  /\ UNCHANGED <<dbVars, queueVars, lease, txVars, job, todo>>

\* Mutation of SendFails: a timeout is taken for an answer.
SendFailsOk(s) ==
  /\ pc[s] = "send" /\ Strike("error")
  /\ Goto(s, "record")
  /\ UNCHANGED <<dbVars, queueVars, lease, txVars, job, todo, threw>>

\* The request or its answer is lost, or the 15 seconds are over before it has
\* arrived: then it may still arrive.
SendFails(s) ==
  /\ pc[s] = "send" /\ Strike("error")
  /\ \/ late' = [late EXCEPT ![job[s]] = @ \cup {NextLine(s)}]
     \/ UNCHANGED late
  /\ Throw(s)
  /\ UNCHANGED <<dbVars, queueVars, lease, transfer, job, todo>>

ArriveLate(j, i) ==
  /\ i \in late[j]
  /\ late' = [late EXCEPT ![j] = @ \ {i}]
  /\ IF transfer[j][i] = "absent" THEN SetTransfer(j, i, "PROCESSING")
     ELSE UNCHANGED transfer
  /\ UNCHANGED <<dbVars, queueVars, lease, slotVars, faultVars>>

\* Its execution or the recovery reaches a verdict: reversed, if a call failed.
Settle(j, i) ==
  /\ transfer[j][i] = "PROCESSING"
  /\ \/ SetTransfer(j, i, "COMPLETED") /\ UNCHANGED faultVars
     \/ SetTransfer(j, i, "REVERSED") /\ Strike("error")
  /\ UNCHANGED <<dbVars, queueVars, lease, late, slotVars>>

-----------------------------------------------------------------------------
(* Faults and expiry.                                                      *)

\* The worker dies.  A request on its way goes on.
Crash(s) ==
  LET j == job[s] IN
  /\ pc[s] # "idle" /\ Strike("crash")
  /\ \/ /\ pc[s] = "send"
        /\ late' = [late EXCEPT ![j] = @ \cup {NextLine(s)}]
     \/ UNCHANGED late
  /\ holder' = [holder EXCEPT ![j] = IF @ = s THEN NoOne ELSE @]
  /\ lease' = [lease EXCEPT ![employer[j]] = IF @ = s THEN Orphan ELSE @]
  /\ Free(s)
  /\ UNCHANGED <<dbVars, queue, attempts, stalls, transfer>>

\* BullMQ's lock expires under a worker too busy to renew it.
Stall(s) ==
  /\ pc[s] # "idle" /\ holder[job[s]] = s /\ Strike("stall")
  /\ holder' = [holder EXCEPT ![job[s]] = NoOne]
  /\ UNCHANGED <<dbVars, queue, attempts, stalls, lease, txVars, slotVars>>

\* The lease, which nobody renews, expires under a job of over two minutes.
Lapse(s) ==
  /\ lease[employer[job[s]]] = s /\ pc[s] # "idle" /\ Strike("lapse")
  /\ lease' = [lease EXCEPT ![employer[job[s]]] = NoOne]
  /\ UNCHANGED <<dbVars, queueVars, txVars, slotVars>>

ExpireLease(e) ==
  /\ lease[e] = Orphan
  /\ lease' = [lease EXCEPT ![e] = NoOne]
  /\ UNCHANGED <<dbVars, queueVars, txVars, slotVars, faultVars>>

-----------------------------------------------------------------------------
Step(s) ==
  \/ AcquireEmployerLock(s) \/ Defer(s) \/ Start(s) \/ FindItems(s)
  \/ PayNext(s) \/ InsertRow(s) \/ Replay(s) \/ Executed(s) \/ Record(s)
  \/ Complete(s) \/ ReleaseEmployerLock(s) \/ Acknowledge(s)

Fail(s) ==
  AcquireFails(s) \/ StatementFails(s) \/ SendFails(s) \/ Crash(s) \/ Stall(s)
    \/ Lapse(s)

Next ==
  \/ \E j \in Jobs :
       \/ CreatePayrollJob(j) \/ Enqueue(j) \/ Promote(j) \/ Stalled(j)
       \/ \E s \in Slots : Take(s, j)
       \/ \E i \in Lines(j) : ArriveLate(j, i) \/ Settle(j, i)
  \/ \E s \in Slots : Step(s) \/ Fail(s)
  \/ \E e \in Employers : ExpireLease(e)

Spec == Init /\ [][Next]_vars

\* A slot goes on with its job, the queue is first in first out, delays and
\* orphaned keys expire, and every transfer is settled, which is Settles of
\* Transfer when none is refused for ever.  Nobody must post a job.
Fairness ==
  /\ \A s \in Slots : WF_vars(Step(s))
  /\ \A j \in Jobs :
       /\ WF_vars(Promote(j)) /\ WF_vars(Stalled(j))
       /\ SF_vars(\E s \in Slots : Take(s, j))
       /\ \A i \in Lines(j) : WF_vars(Settle(j, i))
  /\ \A e \in Employers : WF_vars(ExpireLease(e))

FairSpec == Spec /\ Fairness

-----------------------------------------------------------------------------
(* Safety.                                                                 *)

Running(s) == pc[s] \in RunSteps

Guarded == ~({"lapse", "stall"} \subseteq struck)

\* As long as no lease expires under its holder, jobs of one employer are not
\* processed at the same time, through deferrals, crashes, lost locks and keys
\* that their holder could not delete.
OneJobPerEmployer ==
  "lapse" \notin struck => \A s, r \in Slots :
    Running(s) /\ Running(r) /\ employer[job[s]] = employer[job[r]] => s = r

\* What GET /jobs/:id shows is what the items say: the counter and the checkpoint
\* are the number of completed lines, and these are the first ones, however
\* often the job was begun again: unless a slot that has lost BullMQ's lock and
\* the lease goes on beside its successor.
ProgressIsTrue ==
  Guarded => \A j \in Jobs :
    /\ checkpoint[j] = processed[j]
    /\ done[j] = 0 .. processed[j] - 1

\* A slot's list, read when it began, names all the lines that are still open
\* and no other: none is sent again that is completed, none is left out.
ListIsCurrent ==
  Guarded => \A s \in Slots :
    pc[s] \in {"pay", "send", "execute", "record", "complete"} =>
      todo[s] = Lines(job[s]) \ done[job[s]]

\* No job ends in the database or in the queue with a line that is not completed.
NoLineLost ==
  \A j \in Jobs :
    jobStatus[j] = "completed" \/ queue[j] = "done" => done[j] = Lines(j)

\* A completed line has a transfer: no lost request or lost answer is taken for one.
CompletedHasTransfer ==
  \A j \in Jobs : \A i \in done[j] : transfer[j][i] # "absent"

\* Attempts are burnt by failures only, at most one by each: deferrals are free.
FailuresBurnAttempts ==
  SumFunctionOnSet([j \in Jobs |-> attempts[j] + stalls[j]], Jobs) <= faults

\* A line is completed only if its transfer was carried out, or will be.
CompletedIsPaid ==
  \A j \in Jobs : \A i \in done[j] : transfer[j][i] \in {"PROCESSING", "COMPLETED"}

-----------------------------------------------------------------------------
(* Liveness.                                                               *)

GaveUp(j) == attempts[j] = Attempts \/ stalls[j] > MaxStalled

\* A job that has reached the queue is completed, unless it threw three times or
\* stalled twice.
Finishes ==
  \A j \in Jobs :
    queue[j] = "waiting" ~> (jobStatus[j] = "completed" \/ GaveUp(j))
=============================================================================
