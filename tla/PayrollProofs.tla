--------------------------- MODULE PayrollProofs ---------------------------
(***************************************************************************)
(* Proofs about Payroll, for every set of jobs, employers and slots, every *)
(* number of items and attempts, and any number of faults of any kind.     *)
(***************************************************************************)
EXTENDS PayrollInv, SumTheorems, TLAPS

-----------------------------------------------------------------------------
(* The sums of what is burnt and what is owed.                             *)

LEMMA JobSum ==
  ASSUME IsFiniteSet(Jobs), NEW b, NEW c, NEW j \in Jobs,
         \A x \in Jobs : b[x] \in Int, \A x \in Jobs : c[x] \in Int,
         \A x \in Jobs : x # j => b[x] = c[x]
  PROVE  SumFunctionOnSet(c, Jobs) = SumFunctionOnSet(b, Jobs) + (c[j] - b[j])
BY SumChange

LEMMA SlotSum ==
  ASSUME IsFiniteSet(Slots), NEW o, NEW p, NEW s \in Slots,
         \A x \in Slots : o[x] \in Int, \A x \in Slots : p[x] \in Int,
         \A x \in Slots : x # s => o[x] = p[x]
  PROVE  SumFunctionOnSet(p, Slots) = SumFunctionOnSet(o, Slots) + (p[s] - o[s])
BY SumChange

\* One job's term and one slot's change: the total grows by what the two do.
LEMMA DebtChange ==
  ASSUME IsFiniteSet(Jobs), IsFiniteSet(Slots), NEW b, NEW c, NEW o, NEW p,
         \A x \in Jobs : b[x] \in Int, \A x \in Jobs : c[x] \in Int,
         \A x \in Slots : o[x] \in Int, \A x \in Slots : p[x] \in Int,
         NEW j \in Jobs, NEW s \in Slots,
         \A x \in Jobs : x # j => b[x] = c[x],
         \A x \in Slots : x # s => o[x] = p[x],
         NEW n \in Int, NEW m \in Int, (c[j] - b[j]) + (p[s] - o[s]) <= m - n,
         SumFunctionOnSet(b, Jobs) + SumFunctionOnSet(o, Slots) <= n
  PROVE  SumFunctionOnSet(c, Jobs) + SumFunctionOnSet(p, Slots) <= m
<1>1. SumFunctionOnSet(c, Jobs) = SumFunctionOnSet(b, Jobs) + (c[j] - b[j])
  BY JobSum
<1>2. SumFunctionOnSet(p, Slots) = SumFunctionOnSet(o, Slots) + (p[s] - o[s])
  BY SlotSum
<1>3. PICK B \in Int, O \in Int : /\ B = SumFunctionOnSet(b, Jobs)
                                 /\ O = SumFunctionOnSet(o, Slots)
  BY SumInt
<1>4. /\ SumFunctionOnSet(c, Jobs) = B + (c[j] - b[j])
      /\ SumFunctionOnSet(p, Slots) = O + (p[s] - o[s]) /\ B + O <= n
  BY <1>1, <1>2, <1>3, Zenon
<1>5. b[j] \in Int /\ c[j] \in Int /\ o[s] \in Int /\ p[s] \in Int
  OBVIOUS
<1>6. (B + (c[j] - b[j])) + (O + (p[s] - o[s])) <= m
  BY <1>4, <1>5
<1> QED BY <1>4, <1>6, Zenon

\* No slot's term changes.
LEMMA JobChange ==
  ASSUME IsFiniteSet(Jobs), IsFiniteSet(Slots), NEW b, NEW c, NEW o, NEW p,
         \A x \in Jobs : b[x] \in Int, \A x \in Jobs : c[x] \in Int,
         \A x \in Slots : o[x] \in Int,
         NEW j \in Jobs,
         \A x \in Jobs : x # j => b[x] = c[x],
         \A x \in Slots : o[x] = p[x],
         NEW n \in Int, NEW m \in Int, c[j] - b[j] <= m - n,
         SumFunctionOnSet(b, Jobs) + SumFunctionOnSet(o, Slots) <= n
  PROVE  SumFunctionOnSet(c, Jobs) + SumFunctionOnSet(p, Slots) <= m
<1>1. SumFunctionOnSet(c, Jobs) = SumFunctionOnSet(b, Jobs) + (c[j] - b[j])
  BY JobSum
<1>2. SumFunctionOnSet(o, Slots) = SumFunctionOnSet(p, Slots)
  BY SumEqual
<1>3. PICK B \in Int, O \in Int : /\ B = SumFunctionOnSet(b, Jobs)
                                 /\ O = SumFunctionOnSet(o, Slots)
  BY SumInt
<1>4. /\ SumFunctionOnSet(c, Jobs) = B + (c[j] - b[j])
      /\ SumFunctionOnSet(p, Slots) = O /\ B + O <= n
  BY <1>1, <1>2, <1>3, Zenon
<1>5. b[j] \in Int /\ c[j] \in Int
  OBVIOUS
<1>6. (B + (c[j] - b[j])) + O <= m
  BY <1>4, <1>5
<1> QED BY <1>4, <1>6, Zenon

\* What is burnt by now is at most what is burnt or owed.
LEMMA BurntBelow ==
  ASSUME IsFiniteSet(Jobs), IsFiniteSet(Slots), NEW a, NEW e, NEW b, NEW o,
         \A x \in Jobs : a[x] \in Nat, \A x \in Jobs : e[x] \in Nat,
         \A x \in Jobs : b[x] = a[x] + e[x], \A x \in Slots : o[x] \in Nat,
         NEW n \in Int,
         SumFunctionOnSet(b, Jobs) + SumFunctionOnSet(o, Slots) <= n
  PROVE  SumFunctionOnSet(a, Jobs) <= n
<1>1. SumFunctionOnSet(b, Jobs) =
        SumFunctionOnSet(a, Jobs) + SumFunctionOnSet(e, Jobs)
  <2>1. \A x \in Jobs : a[x] \in Int /\ e[x] \in Int /\ b[x] = a[x] + e[x]
    OBVIOUS
  <2> QED BY <2>1, SumPlus
<1>2. PICK A \in Nat, E \in Nat, O \in Nat :
        /\ A = SumFunctionOnSet(a, Jobs) /\ E = SumFunctionOnSet(e, Jobs)
        /\ O = SumFunctionOnSet(o, Slots)
  BY SumNat
<1>3. (A + E) + O <= n
  BY <1>1, <1>2, Zenon
<1>4. A <= n
  BY <1>3
<1> QED BY <1>2, <1>4, Zenon

\* Nothing is burnt or owed at first.
LEMMA DebtNothing ==
  ASSUME IsFiniteSet(Jobs), IsFiniteSet(Slots), NEW b, NEW o,
         \A x \in Jobs : b[x] = 0, \A x \in Slots : o[x] = 0
  PROVE  SumFunctionOnSet(b, Jobs) + SumFunctionOnSet(o, Slots) = 0
<1>1. SumFunctionOnSet(b, Jobs) = 0
  BY SumZero
<1>2. SumFunctionOnSet(o, Slots) = 0
  BY SumZero
<1> QED BY <1>1, <1>2

-----------------------------------------------------------------------------
USE PayrollAssumption

\* A set of natural numbers has a least element.
LEMMA MinIsLeast ==
  ASSUME NEW S \in SUBSET Nat, S # {}
  PROVE  Min(S) \in S /\ \A y \in S : Min(S) <= y
<1>1. PICK x \in S : \A y \in S : x <= y
  BY LeastNumber
<1> QED BY <1>1 DEF Min

LEMMA NoJobType == NoJob \in Jobs
BY DEF NoJob

LEMMA LinesType == \A j \in Jobs : Lines(j) \subseteq Nat
BY DEF Lines

\* A slot at a line has one of its job.
LEMMA NextLineType ==
  ASSUME TypeOK, LineInv, NEW s \in Slots, AtLine(s)
  PROVE  /\ job[s] \in Jobs
         /\ NextLine(s) \in todo[s] /\ NextLine(s) \in Lines(job[s])
         /\ NextLine(s) \in Nat
<1>1. job[s] \in Jobs /\ todo[s] \in SUBSET Nat
  BY DEF TypeOK
<1>2. todo[s] # {} /\ todo[s] \subseteq Lines(job[s])
  BY DEF LineInv, SlotInv
<1>3. NextLine(s) \in todo[s]
  BY <1>1, <1>2, MinIsLeast DEF NextLine
<1> QED BY <1>1, <1>2, <1>3

-----------------------------------------------------------------------------
(* Type correctness.                                                       *)

DbOK ==
  /\ jobStatus \in [Jobs -> {"absent", "queued", "running", "completed"}]
  /\ done \in [Jobs -> SUBSET Nat] /\ \A j \in Jobs : done[j] \subseteq Lines(j)
  /\ processed \in [Jobs -> Nat] /\ checkpoint \in [Jobs -> Nat]

QueueOK ==
  /\ queue \in [Jobs -> {"absent", "dropped", "waiting", "delayed", "active",
                         "done", "failed"}]
  /\ holder \in [Jobs -> Slots \cup {NoOne}]
  /\ attempts \in [Jobs -> 0 .. Attempts] /\ stalls \in [Jobs -> Nat]

LeaseOK == lease \in [Employers -> Slots \cup {NoOne, Orphan}]

TxOK ==
  /\ DOMAIN transfer = Jobs
  /\ \A j \in Jobs : transfer[j] \in
       [Lines(j) -> {"absent", "PROCESSING", "COMPLETED", "REVERSED"}]
  /\ late \in [Jobs -> SUBSET Nat] /\ \A j \in Jobs : late[j] \subseteq Lines(j)

SlotOK ==
  /\ pc \in [Slots -> PCs] /\ job \in [Slots -> Jobs]
  /\ todo \in [Slots -> SUBSET Nat] /\ threw \in [Slots -> BOOLEAN]

FaultOK == struck \subseteq Faults /\ faults \in 0 .. MaxFaults

LEMMA TypeParts ==
  /\ TypeOK => DbOK /\ QueueOK /\ LeaseOK /\ TxOK /\ SlotOK /\ FaultOK
  /\ DbOK' /\ QueueOK' /\ LeaseOK' /\ TxOK' /\ SlotOK' /\ FaultOK' => TypeOK'
BY DEF TypeOK, DbOK, QueueOK, LeaseOK, TxOK, SlotOK, FaultOK

LEMMA UnchangedType ==
  /\ DbOK /\ UNCHANGED dbVars => DbOK'
  /\ QueueOK /\ UNCHANGED queueVars => QueueOK'
  /\ LeaseOK /\ UNCHANGED lease => LeaseOK'
  /\ TxOK /\ UNCHANGED txVars => TxOK'
  /\ SlotOK /\ UNCHANGED slotVars => SlotOK'
  /\ FaultOK /\ UNCHANGED faultVars => FaultOK'
BY DEF DbOK, QueueOK, LeaseOK, TxOK, SlotOK, FaultOK, dbVars, queueVars, txVars,
       slotVars, faultVars

LEMMA StrikeType ==
  ASSUME FaultOK, NEW kind, Strike(kind)
  PROVE  FaultOK'
BY DEF FaultOK, Strike

\* The next place of a slot, whether or not it throws or gets another list.
LEMMA GotoType ==
  ASSUME SlotOK, NEW s \in Slots, NEW label \in PCs, Goto(s, label), UNCHANGED job,
         threw' \in [Slots -> BOOLEAN], todo' \in [Slots -> SUBSET Nat]
  PROVE  SlotOK'
BY DEF SlotOK, Goto

LEMMA ThrowType ==
  ASSUME SlotOK, NEW s \in Slots, Throw(s), UNCHANGED <<job, todo>>
  PROVE  SlotOK'
BY DEF SlotOK, Throw, Goto, PCs, RunSteps

LEMMA FreeType ==
  ASSUME SlotOK, NEW s \in Slots, Free(s)
  PROVE  SlotOK'
BY NoJobType DEF SlotOK, Free, Goto, PCs

LEMMA StatementType ==
  ASSUME TypeOK, LineInv, NEW s \in Slots, Statement(s)
  PROVE  DbOK'
<1>0. job[s] \in Jobs
  BY DEF TypeOK
<1>1. CASE pc[s] = "start" /\ SetStatus(job[s], "running")
  BY <1>0, <1>1 DEF TypeOK, DbOK, SetStatus
<1>2. CASE pc[s] = "list" /\ UNCHANGED dbVars
  BY <1>2, TypeParts, UnchangedType
<1>3. CASE pc[s] = "record" /\ SetCompleted(job[s], NextLine(s))
  <2>1. NextLine(s) \in Lines(job[s]) /\ NextLine(s) \in Nat
    BY <1>3, NextLineType DEF AtLine
  <2> QED
    BY <1>0, <1>3, <2>1 DEF TypeOK, DbOK, SetCompleted
<1>4. CASE pc[s] = "complete" /\ SetStatus(job[s], "completed")
  BY <1>0, <1>4 DEF TypeOK, DbOK, SetStatus
<1> QED BY <1>1, <1>2, <1>3, <1>4 DEF Statement

LEMMA TypeInit == Init => TypeOK
BY NoJobType DEF Init, TypeOK, PCs

\* A step of the queue or of transaction-service that no slot takes.
LEMMA TypeJobStep ==
  ASSUME TypeOK, QueueInv, NEW j \in Jobs,
         \/ CreatePayrollJob(j) \/ Enqueue(j) \/ Promote(j) \/ Stalled(j)
         \/ \E i \in Lines(j) : ArriveLate(j, i) \/ Settle(j, i)
  PROVE  TypeOK'
<1> USE TypeParts, UnchangedType
<1>1. CASE CreatePayrollJob(j)
  BY <1>1 DEF CreatePayrollJob, DbOK, dbVars
<1>2. CASE Enqueue(j)
  <2>1. QueueOK'
    BY <1>2 DEF Enqueue, QueueOK
  <2>2. FaultOK'
    BY <1>2, StrikeType DEF Enqueue
  <2> QED BY <1>2, <2>1, <2>2 DEF Enqueue
<1>3. CASE Promote(j)
  BY <1>3 DEF Promote, QueueOK
<1>4. CASE Stalled(j)
  BY <1>4 DEF Stalled, QueueOK
<1>5. ASSUME NEW i \in Lines(j), ArriveLate(j, i)
      PROVE  TypeOK'
  <2>1. TxOK'
    <3>1. CASE transfer[j][i] = "absent"
      BY <1>5, <3>1 DEF ArriveLate, SetTransfer, TxOK
    <3>2. CASE transfer[j][i] # "absent"
      BY <1>5, <3>2 DEF ArriveLate, TxOK
    <3> QED BY <3>1, <3>2
  <2> QED BY <1>5, <2>1 DEF ArriveLate
<1>6. ASSUME NEW i \in Lines(j), Settle(j, i)
      PROVE  TypeOK'
  <2>1. TxOK'
    BY <1>6 DEF Settle, SetTransfer, TxOK
  <2>2. FaultOK'
    BY <1>6, StrikeType DEF Settle
  <2> QED BY <1>6, <2>1, <2>2 DEF Settle
<1> QED BY <1>1, <1>2, <1>3, <1>4, <1>5, <1>6

LEMMA TypeTake ==
  ASSUME TypeOK, NEW s \in Slots, NEW j \in Jobs, Take(s, j)
  PROVE  TypeOK'
BY TypeParts, UnchangedType DEF Take, Goto, QueueOK, SlotOK, PCs

LEMMA TypeSlotStep ==
  ASSUME TypeOK, QueueInv, LineInv, NEW s \in Slots, Step(s)
  PROVE  TypeOK'
<1> USE TypeParts, UnchangedType
<1>0. /\ SlotOK /\ job[s] \in Jobs /\ employer[job[s]] \in Employers
      /\ RunSteps \cup {"idle", "release", "acknowledge"} \subseteq PCs
  BY DEF SlotOK, PCs
<1>1. CASE AcquireEmployerLock(s)
  <2>1. LeaseOK'
    BY <1>0, <1>1 DEF AcquireEmployerLock, LeaseOK
  <2>2. SlotOK'
    BY <1>0, <1>1, GotoType DEF AcquireEmployerLock, RunSteps, SlotOK
  <2> QED BY <1>1, <2>1, <2>2 DEF AcquireEmployerLock
<1>2. CASE Defer(s)
  <2>1. QueueOK'
    BY <1>0, <1>2 DEF Defer, QueueOK
  <2>2. FaultOK'
    BY <1>2, StrikeType DEF Defer
  <2>3. SlotOK'
    BY <1>0, <1>2, FreeType DEF Defer
  <2> QED BY <1>2, <2>1, <2>2, <2>3 DEF Defer
<1>3. CASE Start(s)
  <2>1. DbOK' BY <1>3, StatementType DEF Start
  <2>2. SlotOK'
    BY <1>0, <1>3, GotoType DEF Start, RunSteps, SlotOK
  <2> QED BY <1>3, <2>1, <2>2 DEF Start
<1>4. CASE FindItems(s)
  <2>1. DbOK' BY <1>4, StatementType DEF FindItems
  <2>2. todo' \in [Slots -> SUBSET Nat]
    BY <1>0, <1>4, LinesType DEF FindItems, SlotOK
  <2>3. SlotOK'
    BY <1>0, <1>4, <2>2, GotoType DEF FindItems, RunSteps, SlotOK
  <2> QED BY <1>4, <2>1, <2>3 DEF FindItems
<1>5. CASE PayNext(s)
  <2>1. SlotOK'
    <3> DEFINE label == IF todo[s] = {} THEN "complete" ELSE "send"
    <3>1. label \in PCs BY <1>0 DEF RunSteps
    <3> HIDE DEF label
    <3>2. Goto(s, label) BY <1>5 DEF PayNext, label
    <3> QED BY <1>0, <1>5, <3>1, <3>2, GotoType DEF PayNext, SlotOK
  <2> QED BY <1>5, <2>1 DEF PayNext
<1>6. CASE InsertRow(s)
  <2>1. NextLine(s) \in Lines(job[s])
    BY <1>6, NextLineType DEF InsertRow, AtLine
  <2>2. TxOK'
    BY <1>0, <1>6, <2>1 DEF InsertRow, SetTransfer, TxOK
  <2>3. SlotOK'
    BY <1>0, <1>6, GotoType DEF InsertRow, RunSteps, SlotOK
  <2> QED BY <1>6, <2>2, <2>3 DEF InsertRow
<1>7. CASE Replay(s)
  <2>1. SlotOK'
    BY <1>0, <1>7, GotoType DEF Replay, RunSteps, SlotOK
  <2> QED BY <1>7, <2>1 DEF Replay
<1>8. CASE Executed(s)
  <2>1. SlotOK'
    BY <1>0, <1>8, GotoType, ThrowType DEF Executed, RunSteps, SlotOK
  <2>2. FaultOK'
    BY <1>8, StrikeType DEF Executed
  <2> QED BY <1>8, <2>1, <2>2 DEF Executed
<1>9. CASE Record(s)
  <2>1. DbOK' BY <1>9, StatementType DEF Record
  <2>2. todo' \in [Slots -> SUBSET Nat]
    BY <1>0, <1>9 DEF Record, SlotOK
  <2>3. SlotOK'
    BY <1>0, <1>9, <2>2, GotoType DEF Record, RunSteps, SlotOK
  <2> QED BY <1>9, <2>1, <2>3 DEF Record
<1>10. CASE Complete(s)
  <2>1. DbOK' BY <1>10, StatementType DEF Complete
  <2>2. SlotOK'
    BY <1>0, <1>10, GotoType DEF Complete, SlotOK
  <2> QED BY <1>10, <2>1, <2>2 DEF Complete
<1>11. CASE ReleaseEmployerLock(s)
  <2>1. LeaseOK'
    BY <1>0, <1>11 DEF ReleaseEmployerLock, LeaseOK
  <2>2. threw' \in [Slots -> BOOLEAN]
    BY <1>0, <1>11 DEF ReleaseEmployerLock, SlotOK
  <2>3. SlotOK'
    BY <1>0, <1>11, <2>2, GotoType DEF ReleaseEmployerLock, SlotOK
  <2>4. FaultOK'
    BY <1>11, StrikeType DEF ReleaseEmployerLock
  <2> QED BY <1>11, <2>1, <2>3, <2>4 DEF ReleaseEmployerLock
<1>12. CASE Acknowledge(s)
  <2>1. SlotOK' BY <1>0, <1>12, FreeType DEF Acknowledge
  <2>2. QueueOK'
    <3>1. CASE holder[job[s]] = s
      <4>1. holder[job[s]] # NoOne /\ attempts[job[s]] < Attempts
        BY <1>0, <3>1 DEF QueueInv
      <4>2. attempts[job[s]] + 1 \in 0 .. Attempts
        BY <1>0, <4>1 DEF QueueOK
      <4> QED
        BY <1>0, <1>12, <3>1, <4>2 DEF Acknowledge, QueueOK
    <3>2. CASE holder[job[s]] # s
      BY <1>12, <3>2 DEF Acknowledge, queueVars
    <3> QED BY <3>1, <3>2
  <2> QED BY <1>12, <2>1, <2>2 DEF Acknowledge
<1> QED
  BY <1>1, <1>2, <1>3, <1>4, <1>5, <1>6, <1>7, <1>8, <1>9, <1>10, <1>11, <1>12
  DEF Step

LEMMA TypeFail ==
  ASSUME TypeOK, LineInv, NEW s \in Slots, Fail(s)
  PROVE  TypeOK'
<1> USE TypeParts, UnchangedType, StrikeType
<1>0. /\ SlotOK /\ job[s] \in Jobs /\ employer[job[s]] \in Employers
      /\ "acknowledge" \in PCs
  BY DEF SlotOK, PCs
<1>1. CASE AcquireFails(s)
  <2>1. LeaseOK'
    BY <1>0, <1>1 DEF AcquireFails, LeaseOK
  <2>2. SlotOK'
    BY <1>0, <1>1 DEF AcquireFails, Goto, SlotOK
  <2> QED BY <1>1, <2>1, <2>2 DEF AcquireFails
<1>2. CASE StatementFails(s)
  <2>1. DbOK' BY <1>2, StatementType DEF StatementFails
  <2>2. SlotOK' BY <1>0, <1>2, ThrowType DEF StatementFails
  <2> QED BY <1>2, <2>1, <2>2 DEF StatementFails
<1>3. CASE SendFails(s)
  <2>1. NextLine(s) \in Lines(job[s]) /\ NextLine(s) \in Nat
    BY <1>3, NextLineType DEF SendFails, AtLine
  <2>2. TxOK'
    BY <1>0, <1>3, <2>1 DEF SendFails, TxOK
  <2>3. SlotOK' BY <1>0, <1>3, ThrowType DEF SendFails
  <2> QED BY <1>3, <2>2, <2>3 DEF SendFails
<1>4. CASE Crash(s)
  <2>1. pc[s] = "send" => NextLine(s) \in Lines(job[s]) /\ NextLine(s) \in Nat
    BY <1>4, NextLineType DEF AtLine
  <2>2. TxOK'
    BY <1>0, <1>4, <2>1 DEF Crash, TxOK
  <2>3. QueueOK' /\ LeaseOK'
    BY <1>0, <1>4 DEF Crash, QueueOK, LeaseOK
  <2>4. SlotOK' BY <1>0, <1>4, FreeType DEF Crash
  <2> QED BY <1>4, <2>2, <2>3, <2>4 DEF Crash
<1>5. CASE Stall(s)
  BY <1>0, <1>5 DEF Stall, QueueOK
<1>6. CASE Lapse(s)
  BY <1>0, <1>6 DEF Lapse, LeaseOK
<1> QED BY <1>1, <1>2, <1>3, <1>4, <1>5, <1>6 DEF Fail

-----------------------------------------------------------------------------
(* Lines.                                                                  *)

\* Completed lines stay completed, and transfers stay.
Grows ==
  \A j \in Jobs :
    /\ done[j] \subseteq done'[j]
    /\ \A i \in Lines(j) : transfer[j][i] # "absent" => transfer'[j][i] # "absent"

SameSlot(r) ==
  pc'[r] = pc[r] /\ job'[r] = job[r] /\ todo'[r] = todo[r] /\ threw'[r] = threw[r]

\* What a slot knows stays true while others go on.
LEMMA Frame ==
  ASSUME TypeOK, LineInv, TypeOK', Grows, NEW r \in Slots, SameSlot(r)
  PROVE  SlotInv(r)'
<1>1. SlotInv(r) /\ job[r] \in Jobs /\ pc'[r] = pc[r] /\ job'[r] = job[r]
      /\ todo'[r] = todo[r] /\ threw'[r] = threw[r]
  BY DEF LineInv, TypeOK, SameSlot
<1>2. NextLine(r)' = NextLine(r)
  BY <1>1 DEF NextLine
<1>3. done[job[r]] \subseteq done'[job[r]] /\ done'[job[r]] \subseteq Lines(job[r])
  BY <1>1 DEF Grows, TypeOK
<1>4. AtLine(r) => NextLine(r) \in Lines(job[r])
  BY NextLineType
<1>5. pc[r] \in {"execute", "record"} => transfer'[job[r]][NextLine(r)] # "absent"
  BY <1>1, <1>4 DEF Grows, SlotInv, AtLine
<1> QED BY <1>1, <1>2, <1>3, <1>5 DEF SlotInv, AtLine, Listed

\* What a statement does to the lines.
LEMMA StatementEffect ==
  ASSUME TypeOK, NEW s \in Slots, Statement(s), NEW j \in Jobs
  PROVE  /\ done'[j] = done[j] \/ /\ j = job[s] /\ pc[s] = "record"
                                  /\ done'[j] = done[j] \cup {NextLine(s)}
         /\ pc[s] = "record" => NextLine(s) \in done'[job[s]]
         /\ jobStatus'[j] = "completed" =>
              jobStatus[j] = "completed" \/ (j = job[s] /\ pc[s] = "complete")
<1>0. job[s] \in Jobs
  BY DEF TypeOK
<1>1. CASE pc[s] = "start" /\ SetStatus(job[s], "running")
  BY <1>0, <1>1 DEF TypeOK, SetStatus
<1>2. CASE pc[s] = "list" /\ UNCHANGED dbVars
  BY <1>2 DEF dbVars
<1>3. CASE pc[s] = "record" /\ SetCompleted(job[s], NextLine(s))
  BY <1>0, <1>3 DEF TypeOK, SetCompleted
<1>4. CASE pc[s] = "complete" /\ SetStatus(job[s], "completed")
  BY <1>0, <1>4 DEF TypeOK, SetStatus
<1> QED BY <1>1, <1>2, <1>3, <1>4 DEF Statement

\* A statement keeps what is said of lines.
LEMMA StatementKeeps ==
  ASSUME LinesInv, TypeOK', NEW s \in Slots, Statement(s), UNCHANGED <<queue, transfer>>
  PROVE  Grows /\ NoLineLost' /\ CompletedHasTransfer'
<1>0. TypeOK /\ SlotInv(s) /\ job[s] \in Jobs
  BY DEF LinesInv, LineInv, TypeOK
<1>1. \A j \in Jobs : done[j] \subseteq done'[j] /\ done'[j] \subseteq Lines(j)
  <2>1. ASSUME NEW j \in Jobs PROVE done[j] \subseteq done'[j]
    BY <1>0, StatementEffect
  <2>2. \A j \in Jobs : done'[j] \subseteq Lines(j)
    BY DEF TypeOK
  <2> QED BY <2>1, <2>2
<1>2. Grows
  BY <1>1 DEF Grows
<1>3. NoLineLost'
  <2> SUFFICES ASSUME NEW j \in Jobs, jobStatus'[j] = "completed" \/ queue'[j] = "done"
               PROVE  Lines(j) \subseteq done'[j]
    BY <1>1 DEF NoLineLost
  <2>1. CASE jobStatus[j] = "completed" \/ queue[j] = "done"
    BY <1>1, <2>1 DEF LinesInv, NoLineLost
  <2>2. CASE ~(jobStatus[j] = "completed" \/ queue[j] = "done")
    <3>1. j = job[s] /\ pc[s] = "complete"
      BY <1>0, <2>2, StatementEffect
    <3>2. Lines(j) \subseteq done[j]
      BY <1>0, <3>1 DEF SlotInv, Listed
    <3> QED BY <1>1, <3>2
  <2> QED BY <2>1, <2>2
<1>4. CompletedHasTransfer'
  <2> SUFFICES ASSUME NEW j \in Jobs, NEW i \in done'[j]
               PROVE  transfer[j][i] # "absent"
    BY DEF CompletedHasTransfer
  <2>1. CASE i \in done[j]
    BY <2>1 DEF LinesInv, CompletedHasTransfer
  <2>2. CASE i \notin done[j]
    <3>1. j = job[s] /\ pc[s] = "record" /\ i = NextLine(s)
      BY <1>0, <2>2, StatementEffect
    <3> QED BY <1>0, <3>1 DEF SlotInv
  <2> QED BY <2>1, <2>2
<1> QED BY <1>2, <1>3, <1>4

\* So does a step that leaves the database alone and ends no job.
LEMMA OtherKeeps ==
  ASSUME LinesInv, UNCHANGED dbVars,
         \A j \in Jobs : queue'[j] = "done" => queue[j] = "done" \/ done[j] = Lines(j),
         \A j \in Jobs : \A i \in Lines(j) :
           transfer[j][i] # "absent" => transfer'[j][i] # "absent"
  PROVE  Grows /\ NoLineLost' /\ CompletedHasTransfer'
<1>1. Grows
  BY DEF Grows, dbVars
<1>2. NoLineLost'
  BY DEF LinesInv, NoLineLost, dbVars
<1>3. CompletedHasTransfer'
  <2>1. \A j \in Jobs : done[j] \subseteq Lines(j) /\ done'[j] = done[j]
    BY DEF LinesInv, TypeOK, dbVars
  <2> QED BY <2>1 DEF LinesInv, CompletedHasTransfer
<1> QED BY <1>1, <1>2, <1>3

\* A slot that is not among its lines and does not end well has nothing to know.
LEMMA Away ==
  ASSUME NEW s \in Slots,
         pc'[s] \in {"idle", "acquire", "start", "list"} \/
           (pc'[s] \in {"release", "acknowledge"} /\ threw'[s]),
         todo'[s] \subseteq Lines(job'[s]), pc'[s] = "idle" => todo'[s] = {}
  PROVE  SlotInv(s)'
BY DEF SlotInv, AtLine, Listed

LEMMA AwayFree ==
  ASSUME TypeOK, NEW s \in Slots, Free(s)
  PROVE  SlotInv(s)'
<1>1. pc'[s] = "idle" /\ todo'[s] = {}
  BY DEF TypeOK, Free, Goto
<1> QED BY <1>1, Away

LEMMA AwayThrow ==
  ASSUME TypeOK, NEW s \in Slots, SlotInv(s), Throw(s), UNCHANGED <<job, todo>>
  PROVE  SlotInv(s)'
<1>1. pc'[s] = "release" /\ threw'[s] /\ todo'[s] = todo[s] /\ job'[s] = job[s]
  BY DEF TypeOK, Throw, Goto
<1> QED BY <1>1, Away DEF SlotInv

\* A slot's own step keeps what it knows.
LEMMA OwnStep ==
  ASSUME LinesInv, TypeOK', Grows, NEW s \in Slots, Step(s)
  PROVE  SlotInv(s)'
<1>0. /\ TypeOK /\ LineInv /\ SlotInv(s) /\ job[s] \in Jobs /\ todo[s] \in SUBSET Nat
      /\ done[job[s]] \subseteq done'[job[s]] /\ done'[job[s]] \subseteq Lines(job[s])
  BY DEF LinesInv, LineInv, TypeOK, Grows
<1>1. CASE AcquireEmployerLock(s)
  <2>1. pc'[s] = "start" /\ todo'[s] = todo[s] /\ job'[s] = job[s]
    BY <1>0, <1>1 DEF AcquireEmployerLock, Goto, TypeOK
  <2> QED BY <1>0, <2>1, Away DEF SlotInv
<1>2. CASE Defer(s)
  BY <1>0, <1>2, AwayFree DEF Defer
<1>3. CASE Start(s)
  <2>1. pc'[s] = "list" /\ todo'[s] = todo[s] /\ job'[s] = job[s]
    BY <1>0, <1>3 DEF Start, Goto, TypeOK
  <2> QED BY <1>0, <2>1, Away DEF SlotInv
<1>4. CASE FindItems(s)
  <2>1. pc'[s] = "pay" /\ todo'[s] = Lines(job[s]) \ done[job[s]] /\ job'[s] = job[s]
    BY <1>0, <1>4 DEF FindItems, Goto, TypeOK
  <2> QED BY <1>0, <2>1 DEF SlotInv, AtLine, Listed
<1>5. CASE PayNext(s)
  <2>1. /\ pc[s] = "pay" /\ todo'[s] = todo[s] /\ job'[s] = job[s]
        /\ \/ pc'[s] = "complete" /\ todo[s] = {}
           \/ pc'[s] = "send" /\ todo[s] # {}
    BY <1>0, <1>5 DEF PayNext, Goto, TypeOK
  <2> QED BY <1>0, <2>1 DEF SlotInv, AtLine, Listed
<1>6. CASE InsertRow(s)
  <2>1. pc[s] = "send" /\ pc'[s] = "execute" /\ todo'[s] = todo[s] /\ job'[s] = job[s]
    BY <1>0, <1>6 DEF InsertRow, Goto, TypeOK
  <2>2. NextLine(s)' = NextLine(s)
    BY <2>1 DEF NextLine
  <2>3. transfer'[job[s]][NextLine(s)] # "absent"
    <3>1. NextLine(s) \in Lines(job[s])
      BY <1>0, <2>1, NextLineType DEF AtLine
    <3> HIDE DEF NextLine
    <3> QED BY <1>0, <1>6, <3>1 DEF InsertRow, SetTransfer, TypeOK
  <2> QED BY <1>0, <2>1, <2>2, <2>3 DEF SlotInv, AtLine, Listed
<1>7. CASE Replay(s)
  <2>1. /\ pc[s] = "send" /\ pc'[s] = "record" /\ todo'[s] = todo[s] /\ job'[s] = job[s]
        /\ transfer'[job[s]][NextLine(s)] # "absent"
    BY <1>0, <1>7 DEF Replay, Goto, TypeOK, txVars
  <2>2. NextLine(s)' = NextLine(s)
    BY <2>1 DEF NextLine
  <2> QED BY <1>0, <2>1, <2>2 DEF SlotInv, AtLine, Listed
<1>8. CASE Executed(s)
  <2>1. CASE Throw(s)
    BY <1>0, <1>8, <2>1, AwayThrow DEF Executed
  <2>2. CASE transfer[job[s]][NextLine(s)] = "COMPLETED" /\ Goto(s, "record")
    <3>1. /\ pc[s] = "execute" /\ pc'[s] = "record" /\ todo'[s] = todo[s]
          /\ job'[s] = job[s] /\ transfer'[job[s]][NextLine(s)] # "absent"
      BY <1>0, <1>8, <2>2 DEF Executed, Goto, TypeOK, txVars
    <3>2. NextLine(s)' = NextLine(s)
      BY <3>1 DEF NextLine
    <3> QED BY <1>0, <3>1, <3>2 DEF SlotInv, AtLine, Listed
  <2> QED BY <1>8, <2>1, <2>2 DEF Executed
<1>9. CASE Record(s)
  <2>1. /\ pc[s] = "record" /\ pc'[s] = "pay" /\ job'[s] = job[s]
        /\ todo'[s] = todo[s] \ {NextLine(s)}
    BY <1>0, <1>9 DEF Record, Goto, TypeOK
  <2>2. NextLine(s) \in done'[job[s]]
    BY <1>0, <1>9, <2>1, StatementEffect DEF Record
  <2> QED BY <1>0, <2>1, <2>2 DEF SlotInv, AtLine, Listed
<1>10. CASE Complete(s)
  <2>1. /\ pc[s] = "complete" /\ pc'[s] = "release" /\ job'[s] = job[s]
        /\ todo'[s] = todo[s]
    BY <1>0, <1>10 DEF Complete, Goto, TypeOK
  <2> QED BY <1>0, <2>1 DEF SlotInv, AtLine, Listed
<1>11. CASE ReleaseEmployerLock(s)
  <2>1. /\ pc[s] = "release" /\ pc'[s] = "acknowledge" /\ job'[s] = job[s]
        /\ todo'[s] = todo[s] /\ (threw'[s] = threw[s] \/ threw'[s])
    BY <1>0, <1>11 DEF ReleaseEmployerLock, Goto, TypeOK
  <2>2. todo'[s] \subseteq Lines(job'[s])
    BY <1>0, <2>1 DEF SlotInv
  <2>3. CASE threw'[s]
    BY <2>1, <2>2, <2>3, Away
  <2>4. CASE ~threw'[s]
    <3>0. ~threw[s]
      BY <2>1, <2>4, Zenon
    <3>1. done[job[s]] = Lines(job[s])
      BY <1>0, <2>1, <3>0 DEF SlotInv
    <3>2. done'[job[s]] = Lines(job[s])
      BY <1>0, <3>1
    <3> QED BY <2>1, <2>2, <3>2 DEF SlotInv, AtLine, Listed
  <2> QED BY <2>3, <2>4
<1>12. CASE Acknowledge(s)
  BY <1>0, <1>12, AwayFree DEF Acknowledge
<1> QED
  BY <1>1, <1>2, <1>3, <1>4, <1>5, <1>6, <1>7, <1>8, <1>9, <1>10, <1>11, <1>12
  DEF Step

\* So does its failure.
LEMMA OwnFail ==
  ASSUME LinesInv, TypeOK', Grows, NEW s \in Slots, Fail(s)
  PROVE  SlotInv(s)'
<1>0. TypeOK /\ LineInv /\ SlotInv(s) /\ job[s] \in Jobs
  BY DEF LinesInv, LineInv, TypeOK
<1>1. CASE AcquireFails(s)
  <2>1. pc'[s] = "acknowledge" /\ threw'[s] /\ todo'[s] = todo[s] /\ job'[s] = job[s]
    BY <1>0, <1>1 DEF AcquireFails, Goto, TypeOK
  <2> QED BY <1>0, <2>1, Away DEF SlotInv
<1>2. CASE StatementFails(s)
  BY <1>0, <1>2, AwayThrow DEF StatementFails
<1>3. CASE SendFails(s)
  BY <1>0, <1>3, AwayThrow DEF SendFails
<1>4. CASE Crash(s)
  BY <1>0, <1>4, AwayFree DEF Crash
<1>5. CASE Stall(s)
  BY <1>0, <1>5, Frame DEF Stall, slotVars, SameSlot
<1>6. CASE Lapse(s)
  BY <1>0, <1>6, Frame DEF Lapse, slotVars, SameSlot
<1> QED BY <1>1, <1>2, <1>3, <1>4, <1>5, <1>6 DEF Fail

\* No slot touches another one's place, job and list.
LEMMA OthersSame ==
  ASSUME TypeOK, NEW s \in Slots, Step(s) \/ Fail(s), NEW r \in Slots, r # s
  PROVE  SameSlot(r)
<1>0. /\ r \in DOMAIN pc /\ r \in DOMAIN job /\ r \in DOMAIN todo /\ r \in DOMAIN threw
      /\ DOMAIN pc = Slots /\ DOMAIN job = Slots /\ DOMAIN todo = Slots
      /\ DOMAIN threw = Slots
  BY DEF TypeOK
<1>1. CASE AcquireEmployerLock(s) \/ Defer(s) \/ Start(s) \/ FindItems(s)
  BY <1>0, <1>1 DEF AcquireEmployerLock, Defer, Start, FindItems, SameSlot, Goto, Free
<1>2. CASE PayNext(s) \/ InsertRow(s) \/ Replay(s) \/ Executed(s)
  BY <1>0, <1>2 DEF PayNext, InsertRow, Replay, Executed, SameSlot, Goto, Throw
<1>3. CASE Record(s) \/ Complete(s) \/ ReleaseEmployerLock(s) \/ Acknowledge(s)
  BY <1>0, <1>3 DEF Record, Complete, ReleaseEmployerLock, Acknowledge, SameSlot,
                    Goto, Free
<1>4. CASE Fail(s)
  BY <1>0, <1>4 DEF Fail, AcquireFails, StatementFails, SendFails, Crash, Stall, Lapse,
                    SameSlot, Goto, Free, Throw, slotVars
<1> QED BY <1>1, <1>2, <1>3, <1>4 DEF Step

\* Lines and transfers in a slot's step.
LEMMA GrowsStep ==
  ASSUME LinesInv, TypeOK', NEW s \in Slots, Step(s)
  PROVE  Grows /\ NoLineLost' /\ CompletedHasTransfer'
<1>0. TypeOK /\ LineInv /\ SlotInv(s) /\ job[s] \in Jobs
  BY DEF LinesInv, LineInv, TypeOK
<1>1. CASE Start(s) \/ FindItems(s) \/ Record(s) \/ Complete(s)
  BY <1>1, StatementKeeps DEF Start, FindItems, Record, Complete, queueVars, txVars
<1>2. CASE AcquireEmployerLock(s) \/ PayNext(s) \/ Replay(s) \/ Executed(s)
           \/ ReleaseEmployerLock(s)
  <2>1. UNCHANGED <<dbVars, queue, transfer>>
    BY <1>2 DEF AcquireEmployerLock, PayNext, Replay, Executed, ReleaseEmployerLock,
                queueVars, txVars
  <2> QED BY <2>1, OtherKeeps
<1>3. CASE InsertRow(s)
  <2>1. UNCHANGED <<dbVars, queue>>
    BY <1>3 DEF InsertRow, queueVars
  <2>2. NextLine(s) \in Lines(job[s])
    BY <1>0, <1>3, NextLineType DEF AtLine, InsertRow
  <2> HIDE DEF NextLine
  <2>3. \A j \in Jobs : \A i \in Lines(j) :
          transfer[j][i] # "absent" => transfer'[j][i] # "absent"
    BY <1>0, <1>3, <2>2 DEF InsertRow, SetTransfer, TypeOK
  <2> QED BY <2>1, <2>3, OtherKeeps
<1>4. CASE Defer(s)
  <2>1. UNCHANGED <<dbVars, transfer>>
    BY <1>4 DEF Defer, txVars
  <2>2. \A j \in Jobs : queue'[j] = "done" => queue[j] = "done"
    BY <1>0, <1>4 DEF Defer, TypeOK
  <2> QED BY <2>1, <2>2, OtherKeeps
<1>5. CASE Acknowledge(s)
  <2>1. UNCHANGED <<dbVars, transfer>>
    BY <1>5 DEF Acknowledge, txVars
  <2>2. ~threw[s] => done[job[s]] = Lines(job[s])
    BY <1>0, <1>5 DEF Acknowledge, SlotInv
  <2>3. \A j \in Jobs : queue'[j] = "done" => queue[j] = "done" \/ done[j] = Lines(j)
    <3>1. CASE holder[job[s]] # s
      BY <1>5, <3>1 DEF Acknowledge
    <3>2. CASE holder[job[s]] = s
      BY <1>0, <1>5, <2>2, <3>2 DEF Acknowledge, TypeOK
    <3> QED BY <3>1, <3>2
  <2> QED BY <2>1, <2>3, OtherKeeps
<1> QED BY <1>1, <1>2, <1>3, <1>4, <1>5 DEF Step

\* Lines and transfers when a slot fails.
LEMMA GrowsFail ==
  ASSUME LinesInv, TypeOK', NEW s \in Slots, Fail(s)
  PROVE  Grows /\ NoLineLost' /\ CompletedHasTransfer'
<1>1. CASE AcquireFails(s) \/ SendFails(s) \/ Crash(s) \/ Stall(s) \/ Lapse(s)
  <2>1. UNCHANGED <<dbVars, queue, transfer>>
    BY <1>1 DEF AcquireFails, SendFails, Crash, Stall, Lapse, queueVars, txVars
  <2> QED BY <2>1, OtherKeeps
<1>2. CASE StatementFails(s)
  <2>1. UNCHANGED <<queue, transfer>>
    BY <1>2 DEF StatementFails, queueVars, txVars
  <2>2. CASE Statement(s)
    BY <2>1, <2>2, StatementKeeps
  <2>3. CASE UNCHANGED dbVars
    BY <2>1, <2>3, OtherKeeps
  <2> QED BY <1>2, <2>2, <2>3 DEF StatementFails
<1> QED BY <1>1, <1>2 DEF Fail

-----------------------------------------------------------------------------
(* The invariant of lines.                                                 *)

\* No step gives BullMQ's lock on a job that is not active, nor tries one that
\* has used up its attempts.
LEMMA QueueStep ==
  ASSUME TypeOK, QueueInv, Next
  PROVE  QueueInv'
<1>0. /\ \A s \in Slots : job[s] \in Jobs /\ s # NoOne
      /\ attempts \in [Jobs -> 0 .. Attempts] /\ Attempts \in Nat
  BY DEF TypeOK
<1>1. ASSUME UNCHANGED queueVars
      PROVE  QueueInv'
  BY <1>1 DEF QueueInv, queueVars
<1>2. ASSUME NEW j \in Jobs, CreatePayrollJob(j) \/ Enqueue(j) \/ Promote(j) \/ Stalled(j)
      PROVE  QueueInv'
  <2>1. CASE CreatePayrollJob(j)
    BY <1>1, <2>1 DEF CreatePayrollJob
  <2>2. CASE Enqueue(j)
    BY <2>2 DEF Enqueue, QueueInv, TypeOK
  <2>3. CASE Promote(j)
    BY <2>3 DEF Promote, QueueInv, TypeOK
  <2>4. CASE Stalled(j)
    BY <2>4 DEF Stalled, QueueInv, TypeOK
  <2> QED BY <1>2, <2>1, <2>2, <2>3, <2>4
<1>3. ASSUME NEW j \in Jobs, NEW s \in Slots, Take(s, j)
      PROVE  QueueInv'
  BY <1>3 DEF Take, QueueInv, TypeOK
<1>4. ASSUME NEW j \in Jobs, NEW i \in Lines(j), ArriveLate(j, i) \/ Settle(j, i)
      PROVE  QueueInv'
  BY <1>1, <1>4 DEF ArriveLate, Settle
<1>5. ASSUME NEW s \in Slots, Step(s)
      PROVE  QueueInv'
  <2>1. CASE Defer(s)
    BY <1>0, <2>1 DEF Defer, QueueInv, TypeOK
  <2>2. CASE Acknowledge(s)
    BY <1>0, <2>2 DEF Acknowledge, QueueInv, TypeOK
  <2>3. CASE ~Defer(s) /\ ~Acknowledge(s)
    BY <1>1, <1>5, <2>3
    DEF Step, AcquireEmployerLock, Start, FindItems, PayNext, InsertRow, Replay,
        Executed, Record, Complete, ReleaseEmployerLock
  <2> QED BY <2>1, <2>2, <2>3
<1>6. ASSUME NEW s \in Slots, Fail(s)
      PROVE  QueueInv'
  <2>1. CASE Crash(s)
    BY <1>0, <2>1 DEF Crash, QueueInv, TypeOK
  <2>2. CASE Stall(s)
    BY <1>0, <2>2 DEF Stall, QueueInv, TypeOK
  <2>3. CASE ~Crash(s) /\ ~Stall(s)
    BY <1>1, <1>6, <2>3 DEF Fail, AcquireFails, StatementFails, SendFails, Lapse
  <2> QED BY <2>1, <2>2, <2>3
<1>7. ASSUME NEW e \in Employers, ExpireLease(e)
      PROVE  QueueInv'
  BY <1>1, <1>7 DEF ExpireLease
<1> QED BY <1>2, <1>3, <1>4, <1>5, <1>6, <1>7 DEF Next

LEMMA TypeStep ==
  ASSUME LinesInv, Next
  PROVE  TypeOK'
<1>1. TypeOK /\ QueueInv /\ LineInv
  BY DEF LinesInv
<1>2. ASSUME NEW e \in Employers, ExpireLease(e)
      PROVE  TypeOK'
  BY <1>1, <1>2, TypeParts, UnchangedType DEF ExpireLease, LeaseOK
<1> QED
  BY <1>1, <1>2, TypeJobStep, TypeTake, TypeSlotStep, TypeFail DEF Next

\* A step of one slot keeps what all of them know.
LEMMA LinesSlot ==
  ASSUME LinesInv, TypeOK', NEW s \in Slots, Step(s) \/ Fail(s)
  PROVE  LineInv' /\ NoLineLost' /\ CompletedHasTransfer'
<1>0. TypeOK /\ LineInv
  BY DEF LinesInv
<1>1. Grows /\ NoLineLost' /\ CompletedHasTransfer'
  BY GrowsStep, GrowsFail
<1>2. SlotInv(s)'
  BY <1>1, OwnStep, OwnFail
<1>3. ASSUME NEW r \in Slots, r # s
      PROVE  SlotInv(r)'
  BY <1>0, <1>1, <1>3, OthersSame, Frame
<1> QED BY <1>1, <1>2, <1>3 DEF LineInv

\* A step of no slot keeps it too.
LEMMA LinesOther ==
  ASSUME LinesInv, TypeOK', UNCHANGED slotVars, Grows
  PROVE  LineInv'
<1> SUFFICES ASSUME NEW r \in Slots PROVE SlotInv(r)'
  BY DEF LineInv
<1>1. SameSlot(r)
  BY DEF slotVars, SameSlot
<1> QED BY <1>1, Frame DEF LinesInv

LEMMA LinesInit == Init => LinesInv
<1> SUFFICES ASSUME Init PROVE LinesInv
  OBVIOUS
<1>1. TypeOK
  BY TypeInit
<1>2. QueueInv /\ LineInv /\ CompletedHasTransfer
  BY <1>1 DEF Init, QueueInv, LineInv, SlotInv, AtLine, Listed, CompletedHasTransfer,
              TypeOK
<1>3. NoLineLost
  BY DEF Init, NoLineLost
<1> QED BY <1>1, <1>2, <1>3 DEF LinesInv

LEMMA LinesStep ==
  ASSUME LinesInv, [Next]_vars
  PROVE  LinesInv'
<1>1. ASSUME UNCHANGED vars
      PROVE  LinesInv'
  <2>1. /\ UNCHANGED <<dbVars, queueVars, lease, txVars, slotVars, faultVars>>
        /\ TypeOK
    BY <1>1 DEF vars, LinesInv
  <2>2. TypeOK'
    BY <2>1, TypeParts, UnchangedType
  <2>3. QueueInv'
    BY <2>1 DEF LinesInv, QueueInv, queueVars
  <2>4. Grows /\ NoLineLost' /\ CompletedHasTransfer'
    <3>1. UNCHANGED <<dbVars, queue, transfer>>
      BY <2>1 DEF queueVars, txVars
    <3> QED BY <3>1, OtherKeeps
  <2> QED BY <2>1, <2>2, <2>3, <2>4, LinesOther DEF LinesInv
<1>2. ASSUME Next
      PROVE  LinesInv'
  <2>0. TypeOK /\ TypeOK' /\ QueueInv'
    BY <1>2, TypeStep, QueueStep DEF LinesInv
  <2>1. ASSUME NEW s \in Slots, Step(s) \/ Fail(s)
        PROVE  LinesInv'
    BY <2>0, <2>1, LinesSlot DEF LinesInv
  <2>2. ASSUME NEW j \in Jobs, CreatePayrollJob(j)
        PROVE  LinesInv'
    <3>1. /\ UNCHANGED <<done, queue, transfer, slotVars>>
          /\ \A k \in Jobs : jobStatus'[k] = "completed" => jobStatus[k] = "completed"
      BY <2>0, <2>2 DEF CreatePayrollJob, TypeOK, queueVars, txVars
    <3>2. Grows /\ NoLineLost' /\ CompletedHasTransfer'
      BY <3>1 DEF Grows, LinesInv, NoLineLost, CompletedHasTransfer
    <3> QED BY <2>0, <3>1, <3>2, LinesOther DEF LinesInv
  <2>3. ASSUME NEW j \in Jobs,
               \/ Enqueue(j) \/ Promote(j) \/ Stalled(j)
               \/ \E i \in Lines(j) : ArriveLate(j, i) \/ Settle(j, i)
        PROVE  LinesInv'
    <3>1. UNCHANGED <<dbVars, slotVars>>
      BY <2>3 DEF Enqueue, Promote, Stalled, ArriveLate, Settle
    <3>2. \A k \in Jobs : queue'[k] = "done" => queue[k] = "done"
      BY <2>0, <2>3 DEF Enqueue, Promote, Stalled, ArriveLate, Settle, TypeOK, queueVars
    <3>3. \A k \in Jobs : \A i \in Lines(k) :
            transfer[k][i] # "absent" => transfer'[k][i] # "absent"
      <4>1. CASE UNCHANGED transfer
        BY <4>1
      <4>2. ASSUME NEW i \in Lines(j), NEW value \in {"PROCESSING", "COMPLETED", "REVERSED"},
                   SetTransfer(j, i, value)
            PROVE  \A k \in Jobs : \A l \in Lines(k) :
                     transfer[k][l] # "absent" => transfer'[k][l] # "absent"
        BY <2>0, <4>2 DEF SetTransfer, TypeOK
      <4> QED
        BY <2>3, <4>1, <4>2 DEF Enqueue, Promote, Stalled, ArriveLate, Settle, txVars
    <3>4. Grows /\ NoLineLost' /\ CompletedHasTransfer'
      BY <3>1, <3>2, <3>3, OtherKeeps
    <3> QED BY <2>0, <3>1, <3>4, LinesOther DEF LinesInv
  <2>4. ASSUME NEW j \in Jobs, NEW s \in Slots, Take(s, j)
        PROVE  LinesInv'
    <3>1. UNCHANGED <<dbVars, transfer>>
      BY <2>4 DEF Take, txVars
    <3>2. \A k \in Jobs : queue'[k] = "done" => queue[k] = "done"
      BY <2>0, <2>4 DEF Take, TypeOK
    <3>3. Grows /\ NoLineLost' /\ CompletedHasTransfer'
      BY <3>1, <3>2, OtherKeeps
    <3>4. LineInv'
      <4> SUFFICES ASSUME NEW r \in Slots PROVE SlotInv(r)'
        BY DEF LineInv
      <4>1. CASE r = s
        <5>1. pc'[s] = "acquire" /\ todo'[s] = {}
          BY <2>0, <2>4 DEF Take, Goto, TypeOK, LinesInv, LineInv, SlotInv
        <5> QED BY <4>1, <5>1, Away
      <4>2. CASE r # s
        <5>1. SameSlot(r)
          BY <2>0, <2>4, <4>2 DEF Take, Goto, SameSlot, TypeOK
        <5> QED BY <2>0, <3>3, <5>1, Frame DEF LinesInv
      <4> QED BY <4>1, <4>2
    <3> QED BY <2>0, <3>3, <3>4 DEF LinesInv
  <2>5. ASSUME NEW e \in Employers, ExpireLease(e)
        PROVE  LinesInv'
    <3>1. UNCHANGED <<dbVars, queue, transfer, slotVars>>
      BY <2>5 DEF ExpireLease, queueVars, txVars
    <3>2. Grows /\ NoLineLost' /\ CompletedHasTransfer'
      BY <3>1, OtherKeeps
    <3> QED BY <2>0, <3>1, <3>2, LinesOther DEF LinesInv
  <2> QED BY <1>2, <2>1, <2>2, <2>3, <2>4, <2>5 DEF Next
<1> QED BY <1>1, <1>2

-----------------------------------------------------------------------------
(* The lease and BullMQ's lock.                                            *)

\* Faults are not forgotten.
LEMMA StruckGrows ==
  ASSUME [Next]_vars
  PROVE  struck \subseteq struck'
<1>1. \A s \in Slots : Step(s) => struck \subseteq struck'
  BY DEF Step, AcquireEmployerLock, Defer, Start, FindItems, PayNext, InsertRow, Replay,
         Executed, Record, Complete, ReleaseEmployerLock, Acknowledge, Strike, faultVars
<1>2. \A s \in Slots : Fail(s) => struck \subseteq struck'
  BY DEF Fail, AcquireFails, StatementFails, SendFails, Crash, Stall, Lapse, Strike,
         faultVars
<1>3. \A j \in Jobs :
        \/ CreatePayrollJob(j) \/ Enqueue(j) \/ Promote(j) \/ Stalled(j)
        \/ \E s \in Slots : Take(s, j)
        \/ \E i \in Lines(j) : ArriveLate(j, i) \/ Settle(j, i)
        => struck \subseteq struck'
  BY DEF CreatePayrollJob, Enqueue, Promote, Stalled, Take, ArriveLate, Settle, Strike,
         faultVars
<1>4. \A e \in Employers : ExpireLease(e) => struck \subseteq struck'
  BY DEF ExpireLease, faultVars
<1>5. UNCHANGED vars => struck \subseteq struck'
  BY DEF vars, faultVars
<1> QED BY <1>1, <1>2, <1>3, <1>4, <1>5 DEF Next

\* A slot takes no lease from another one.
LEMMA LeaseOfOthers ==
  ASSUME TypeOK, NEW s \in Slots, Step(s) \/ Fail(s), NEW e \in Employers,
         NEW r \in Slots, r # s, lease[e] = r
  PROVE  lease'[e] = r
<1>0. /\ lease \in [Employers -> Slots \cup {NoOne, Orphan}]
      /\ job[s] \in Jobs /\ employer[job[s]] \in Employers
      /\ r # NoOne /\ r # Orphan
  BY DEF TypeOK
<1>1. CASE AcquireEmployerLock(s)
  BY <1>0, <1>1 DEF AcquireEmployerLock
<1>2. CASE ReleaseEmployerLock(s)
  BY <1>0, <1>2 DEF ReleaseEmployerLock
<1>3. CASE Step(s) /\ ~AcquireEmployerLock(s) /\ ~ReleaseEmployerLock(s)
  BY <1>3 DEF Step, Defer, Start, FindItems, PayNext, InsertRow, Replay, Executed,
              Record, Complete, Acknowledge
<1>4. CASE Fail(s)
  BY <1>0, <1>4 DEF Fail, AcquireFails, StatementFails, SendFails, Crash, Stall, Lapse
<1> QED BY <1>1, <1>2, <1>3, <1>4

\* It holds its own while it runs.
LEMMA LeaseOfOne ==
  ASSUME TypeOK, LeaseInv, NEW s \in Slots, Step(s) \/ Fail(s), "lapse" \notin struck,
         "lapse" \notin struck', Running(s)' \/ pc'[s] = "release"
  PROVE  lease'[employer[job'[s]]] = s
<1>0. /\ lease \in [Employers -> Slots \cup {NoOne, Orphan}] /\ pc \in [Slots -> PCs]
      /\ job[s] \in Jobs /\ employer[job[s]] \in Employers /\ job \in [Slots -> Jobs]
      /\ Running(s) \/ pc[s] = "release" => lease[employer[job[s]]] = s
  BY DEF TypeOK, LeaseInv
<1>1. CASE AcquireEmployerLock(s)
  BY <1>0, <1>1 DEF AcquireEmployerLock
<1>2. CASE Defer(s) \/ Acknowledge(s) \/ ReleaseEmployerLock(s) \/ AcquireFails(s)
           \/ Crash(s)
  <2>1. pc'[s] \in {"idle", "acknowledge"}
    BY <1>0, <1>2 DEF Defer, Acknowledge, ReleaseEmployerLock, AcquireFails, Crash, Goto,
                      Free
  <2> QED BY <2>1 DEF Running, RunSteps
<1>3. CASE Start(s) \/ FindItems(s) \/ PayNext(s) \/ InsertRow(s) \/ Replay(s)
           \/ Executed(s) \/ Record(s) \/ Complete(s)
  <2>1. UNCHANGED <<lease, job>> /\ Running(s)
    BY <1>3 DEF Start, FindItems, PayNext, InsertRow, Replay, Executed, Record, Complete,
                Running, RunSteps
  <2> QED BY <1>0, <2>1
<1>4. CASE StatementFails(s) \/ SendFails(s)
  <2>1. UNCHANGED <<lease, job>> /\ Running(s)
    BY <1>4 DEF StatementFails, SendFails, Running, RunSteps
  <2> QED BY <1>0, <2>1
<1>5. CASE Stall(s)
  BY <1>0, <1>5 DEF Stall, slotVars, Running
<1>6. CASE Lapse(s)
  BY <1>6 DEF Lapse, Strike
<1> QED BY <1>1, <1>2, <1>3, <1>4, <1>5, <1>6 DEF Step, Fail

LEMMA LeaseStep ==
  ASSUME TypeOK, LeaseInv, [Next]_vars
  PROVE  LeaseInv'
<1> SUFFICES ASSUME "lapse" \notin struck', NEW r \in Slots,
                    Running(r)' \/ pc'[r] = "release"
             PROVE  lease'[employer[job'[r]]] = r
  BY DEF LeaseInv
<1>0. /\ "lapse" \notin struck
      /\ Running(r) \/ pc[r] = "release" => lease[employer[job[r]]] = r
      /\ job[r] \in Jobs /\ employer[job[r]] \in Employers
      /\ r # NoOne /\ r # Orphan
  BY StruckGrows DEF LeaseInv, TypeOK
<1>1. ASSUME NEW s \in Slots, Step(s) \/ Fail(s)
      PROVE  lease'[employer[job'[r]]] = r
  <2>1. CASE r = s
    BY <1>0, <1>1, <2>1, LeaseOfOne
  <2>2. CASE r # s
    <3>1. pc'[r] = pc[r] /\ job'[r] = job[r]
      BY <1>1, <2>2, OthersSame DEF SameSlot
    <3> QED BY <1>0, <1>1, <2>2, <3>1, LeaseOfOthers DEF Running
  <2> QED BY <2>1, <2>2
<1>2. ASSUME UNCHANGED <<lease, slotVars>>
      PROVE  lease'[employer[job'[r]]] = r
  BY <1>0, <1>2 DEF slotVars, Running
<1>3. ASSUME NEW j \in Jobs, NEW s \in Slots, Take(s, j)
      PROVE  lease'[employer[job'[r]]] = r
  <2>1. CASE r = s
    BY <1>3, <2>1 DEF Take, Goto, TypeOK, Running, RunSteps
  <2>2. CASE r # s
    BY <1>0, <1>3, <2>2 DEF Take, Goto, TypeOK, Running
  <2> QED BY <2>1, <2>2
<1>4. ASSUME NEW e \in Employers, ExpireLease(e)
      PROVE  lease'[employer[job'[r]]] = r
  BY <1>0, <1>4 DEF ExpireLease, TypeOK, slotVars, Running
<1>5. ASSUME NEW j \in Jobs,
             \/ CreatePayrollJob(j) \/ Enqueue(j) \/ Promote(j) \/ Stalled(j)
             \/ \E i \in Lines(j) : ArriveLate(j, i) \/ Settle(j, i)
      PROVE  lease'[employer[job'[r]]] = r
  BY <1>2, <1>5 DEF CreatePayrollJob, Enqueue, Promote, Stalled, ArriveLate, Settle
<1>6. CASE UNCHANGED vars
  BY <1>2, <1>6 DEF vars
<1> QED BY <1>1, <1>3, <1>4, <1>5, <1>6 DEF Next

LEMMA HolderStep ==
  ASSUME TypeOK, QueueInv, HolderInv, [Next]_vars
  PROVE  HolderInv'
<1> SUFFICES ASSUME "stall" \notin struck', NEW r \in Slots, pc'[r] # "idle"
             PROVE  holder'[job'[r]] = r /\ queue'[job'[r]] = "active"
  BY DEF HolderInv
<1>0. /\ pc[r] # "idle" => holder[job[r]] = r /\ queue[job[r]] = "active"
      /\ job[r] \in Jobs /\ r # NoOne
      /\ holder \in [Jobs -> Slots \cup {NoOne}] /\ DOMAIN queue = Jobs
      /\ pc \in [Slots -> PCs] /\ job \in [Slots -> Jobs]
  BY StruckGrows DEF HolderInv, TypeOK
<1>1. ASSUME NEW s \in Slots, Step(s) \/ Fail(s)
      PROVE  holder'[job'[r]] = r /\ queue'[job'[r]] = "active"
  <2>0. job[s] \in Jobs
    BY <1>0
  <2>1. CASE Defer(s) \/ Acknowledge(s) \/ Crash(s)
    <3>1. r # s
      BY <1>0, <2>1 DEF Defer, Acknowledge, Crash, Free, Goto
    <3>2. pc'[r] = pc[r] /\ job'[r] = job[r]
      BY <1>1, <3>1, OthersSame DEF SameSlot
    <3> QED BY <1>0, <2>0, <2>1, <3>1, <3>2 DEF Defer, Acknowledge, Crash
  <2>2. CASE Stall(s)
    BY <2>2 DEF Stall, Strike
  <2>3. CASE ~Defer(s) /\ ~Acknowledge(s) /\ ~Crash(s) /\ ~Stall(s)
    <3>1. UNCHANGED <<holder, queue, job>> /\ pc[s] # "idle"
      <4>1. CASE Step(s)
        BY <2>3, <4>1 DEF Step, AcquireEmployerLock, Start, FindItems, PayNext,
          InsertRow, Replay, Executed, Record, Complete, ReleaseEmployerLock, queueVars
      <4>2. CASE Fail(s)
        BY <2>3, <4>2 DEF Fail, AcquireFails, StatementFails, SendFails, Lapse,
                          queueVars, slotVars
      <4> QED BY <1>1, <4>1, <4>2
    <3>2. pc[r] # "idle"
      BY <1>1, <3>1, OthersSame DEF SameSlot
    <3> QED BY <1>0, <3>1, <3>2
  <2> QED BY <2>1, <2>2, <2>3
<1>2. ASSUME NEW j \in Jobs, NEW s \in Slots, Take(s, j)
      PROVE  holder'[job'[r]] = r /\ queue'[job'[r]] = "active"
  <2>1. CASE r = s
    BY <1>0, <1>2, <2>1 DEF Take
  <2>2. CASE r # s
    <3>1. pc'[r] = pc[r] /\ job'[r] = job[r] /\ queue[j] = "waiting"
      BY <1>0, <1>2, <2>2 DEF Take, Goto
    <3> QED BY <1>0, <1>2, <3>1 DEF Take
  <2> QED BY <2>1, <2>2
<1>3. ASSUME NEW j \in Jobs,
             \/ CreatePayrollJob(j) \/ Enqueue(j) \/ Promote(j) \/ Stalled(j)
             \/ \E i \in Lines(j) : ArriveLate(j, i) \/ Settle(j, i)
      PROVE  holder'[job'[r]] = r /\ queue'[job'[r]] = "active"
  BY <1>0, <1>3 DEF CreatePayrollJob, Enqueue, Promote, Stalled, ArriveLate, Settle,
                    queueVars, slotVars
<1>4. ASSUME NEW e \in Employers, ExpireLease(e)
      PROVE  holder'[job'[r]] = r /\ queue'[job'[r]] = "active"
  BY <1>0, <1>4 DEF ExpireLease, queueVars, slotVars
<1>5. CASE UNCHANGED vars
  BY <1>0, <1>5 DEF vars, queueVars, slotVars
<1> QED BY <1>1, <1>2, <1>3, <1>4, <1>5 DEF Next

\* Jobs of an employer are run one at a time, for each of them has its lease.
LEMMA LeaseExcludes == LeaseInv => OneJobPerEmployer
BY DEF LeaseInv, OneJobPerEmployer

\* Either lock suffices for one slot to a job.
LEMMA LocksExclude == LeaseInv /\ HolderInv => OneSlotPerJob
<1> SUFFICES ASSUME LeaseInv, HolderInv, Guarded, NEW s \in Slots, NEW r \in Slots,
                    Running(s), Running(r), job[s] = job[r]
             PROVE  s = r
  BY DEF OneSlotPerJob
<1>1. CASE "lapse" \notin struck
  BY <1>1 DEF LeaseInv
<1>2. CASE "stall" \notin struck
  BY <1>2 DEF HolderInv, Running, RunSteps
<1> QED BY <1>1, <1>2 DEF Guarded

-----------------------------------------------------------------------------
(* Progress.                                                               *)

\* The least line that is left is the number of those before it.
LEMMA NextIsCount ==
  ASSUME NEW n \in Nat, NEW m \in Nat, NEW S,
         S = (0 .. m - 1) \ (0 .. n - 1), S # {}
  PROVE  Min(S) = n
<1>1. S \in SUBSET Nat
  OBVIOUS
<1>2. Min(S) \in S /\ \A y \in S : Min(S) <= y
  BY <1>1, MinIsLeast
<1>3. Min(S) \in Nat /\ n <= Min(S) /\ Min(S) <= m - 1
  BY <1>2
<1>4. n \in S
  BY <1>3
<1> QED BY <1>2, <1>3, <1>4

\* Whatever a slot does to the database is its statement.
LEMMA DbStep ==
  ASSUME NEW s \in Slots, Step(s) \/ Fail(s)
  PROVE  Statement(s) \/ UNCHANGED dbVars
BY DEF Step, AcquireEmployerLock, Defer, Start, FindItems, PayNext, InsertRow, Replay,
       Executed, Record, Complete, ReleaseEmployerLock, Acknowledge, Fail,
       AcquireFails, StatementFails, SendFails, Crash, Stall, Lapse

\* A statement of a slot that runs alone counts what it completes.
LEMMA StatementCounts ==
  ASSUME LinesInv, ProgressIsTrue, ListIsCurrent, Guarded, NEW s \in Slots,
         Statement(s), NEW j \in Jobs
  PROVE  checkpoint'[j] = processed'[j] /\ done'[j] = 0 .. processed'[j] - 1
<1>0. /\ TypeOK /\ LineInv /\ job[s] \in Jobs
      /\ checkpoint[j] = processed[j] /\ done[j] = 0 .. processed[j] - 1
      /\ processed[j] \in Nat
  BY DEF LinesInv, TypeOK, ProgressIsTrue
<1>1. CASE UNCHANGED <<done, processed, checkpoint>>
  BY <1>0, <1>1
<1>2. CASE pc[s] = "record" /\ SetCompleted(job[s], NextLine(s))
  <2>1. CASE j = job[s]
    <3>1. todo[s] = (0 .. items[j] - 1) \ (0 .. processed[j] - 1) /\ todo[s] # {}
      BY <1>0, <1>2, <2>1 DEF ListIsCurrent, Lines, LineInv, SlotInv, AtLine
    <3>2. NextLine(s) = processed[j]
      BY <1>0, <3>1, NextIsCount DEF NextLine
    <3>3. /\ done'[j] = done[j] \cup {processed[j]}
          /\ processed'[j] = processed[j] + 1 /\ checkpoint'[j] = processed[j] + 1
      BY <1>0, <1>2, <2>1, <3>2 DEF SetCompleted, TypeOK
    <3> QED BY <1>0, <3>3
  <2>2. CASE j # job[s]
    BY <1>0, <1>2, <2>2 DEF SetCompleted, TypeOK
  <2> QED BY <2>1, <2>2
<1> QED BY <1>1, <1>2 DEF Statement, SetStatus, dbVars

\* The list of a slot stays current: nobody else completes lines of its job.
LEMMA ListOfOthers ==
  ASSUME LinesInv, OneSlotPerJob, ListIsCurrent, Guarded, NEW s \in Slots,
         Step(s) \/ Fail(s), NEW r \in Slots, r # s, Listed(r)'
  PROVE  todo'[r] = Lines(job'[r]) \ done'[job'[r]]
<1>0. TypeOK /\ job[r] \in Jobs
  BY DEF LinesInv, TypeOK
<1>1. pc'[r] = pc[r] /\ job'[r] = job[r] /\ todo'[r] = todo[r]
  BY <1>0, OthersSame DEF SameSlot
<1>2. todo[r] = Lines(job[r]) \ done[job[r]] /\ Running(r)
  BY <1>1 DEF Listed, ListIsCurrent, Running, RunSteps
<1>3. done'[job[r]] = done[job[r]]
  <2>1. CASE UNCHANGED dbVars
    BY <2>1 DEF dbVars
  <2>2. CASE Statement(s)
    <3>1. pc[s] = "record" => job[r] # job[s]
      BY <1>2 DEF OneSlotPerJob, Running, RunSteps
    <3> QED BY <1>0, <2>2, <3>1, StatementEffect
  <2> QED BY <2>1, <2>2, DbStep
<1> QED BY <1>1, <1>2, <1>3

\* So it does in the slot's own steps.
LEMMA ListOfOne ==
  ASSUME LinesInv, ListIsCurrent, Guarded, NEW s \in Slots, Step(s) \/ Fail(s),
         Listed(s)'
  PROVE  todo'[s] = Lines(job'[s]) \ done'[job'[s]]
<1>0. /\ TypeOK /\ LineInv /\ job[s] \in Jobs
      /\ Listed(s) => todo[s] = Lines(job[s]) \ done[job[s]]
  BY DEF LinesInv, TypeOK, ListIsCurrent, Listed
<1>1. CASE FindItems(s)
  BY <1>0, <1>1 DEF FindItems, Statement, Goto, TypeOK, dbVars
<1>2. CASE PayNext(s) \/ InsertRow(s) \/ Replay(s)
  BY <1>0, <1>2 DEF PayNext, InsertRow, Replay, Listed, dbVars
<1>3. CASE Executed(s)
  BY <1>0, <1>3 DEF Executed, Listed, dbVars
<1>4. CASE Record(s)
  <2>1. done'[job[s]] = done[job[s]] \cup {NextLine(s)}
    BY <1>0, <1>4 DEF Record, Statement, SetCompleted, TypeOK
  <2>2. todo'[s] = todo[s] \ {NextLine(s)} /\ job'[s] = job[s] /\ Listed(s)
    BY <1>0, <1>4 DEF Record, TypeOK, Listed
  <2> QED BY <1>0, <2>1, <2>2
<1>5. CASE Stall(s) \/ Lapse(s)
  BY <1>0, <1>5 DEF Stall, Lapse, slotVars, dbVars, Listed
<1>6. CASE \/ AcquireEmployerLock(s) \/ Defer(s) \/ Start(s) \/ Complete(s)
           \/ ReleaseEmployerLock(s) \/ Acknowledge(s) \/ AcquireFails(s)
           \/ StatementFails(s) \/ SendFails(s) \/ Crash(s)
  <2>1. pc'[s] \in {"idle", "acquire", "start", "list", "release", "acknowledge"}
    BY <1>0, <1>6
    DEF AcquireEmployerLock, Defer, Start, Complete, ReleaseEmployerLock, Acknowledge,
        AcquireFails, StatementFails, SendFails, Crash, Goto, Free, Throw, TypeOK
  <2> QED BY <2>1 DEF Listed
<1> QED BY <1>1, <1>2, <1>3, <1>4, <1>5, <1>6 DEF Step, Fail

LEMMA ProgressStep ==
  ASSUME ProgressInv, [Next]_vars
  PROVE  ProgressIsTrue' /\ ListIsCurrent'
<1>0. /\ LinesInv /\ TypeOK /\ ProgressIsTrue /\ ListIsCurrent /\ OneSlotPerJob
      /\ Guarded' => Guarded
  BY LocksExclude, StruckGrows DEF ProgressInv, LinesInv, Guarded
<1> SUFFICES ASSUME Guarded', Guarded
             PROVE  /\ \A j \in Jobs : /\ checkpoint'[j] = processed'[j]
                                       /\ done'[j] = 0 .. processed'[j] - 1
                    /\ \A r \in Slots : Listed(r)' =>
                         todo'[r] = Lines(job'[r]) \ done'[job'[r]]
  BY <1>0 DEF ProgressIsTrue, ListIsCurrent, Listed
<1>1. ASSUME NEW s \in Slots, Step(s) \/ Fail(s)
      PROVE  /\ \A j \in Jobs : /\ checkpoint'[j] = processed'[j]
                                /\ done'[j] = 0 .. processed'[j] - 1
             /\ \A r \in Slots : Listed(r)' =>
                  todo'[r] = Lines(job'[r]) \ done'[job'[r]]
  <2>1. ASSUME NEW j \in Jobs
        PROVE  checkpoint'[j] = processed'[j] /\ done'[j] = 0 .. processed'[j] - 1
    <3>1. CASE Statement(s)
      BY <1>0, <3>1, StatementCounts
    <3>2. CASE UNCHANGED dbVars
      BY <1>0, <3>2 DEF dbVars, ProgressIsTrue
    <3> QED BY <1>1, <3>1, <3>2, DbStep
  <2>2. ASSUME NEW r \in Slots, Listed(r)'
        PROVE  todo'[r] = Lines(job'[r]) \ done'[job'[r]]
    BY <1>0, <1>1, <2>2, ListOfOne, ListOfOthers
  <2> QED BY <2>1, <2>2
<1>2. ASSUME UNCHANGED <<done, processed, checkpoint>>,
             \A r \in Slots : Listed(r)' =>
               Listed(r) /\ job'[r] = job[r] /\ todo'[r] = todo[r]
      PROVE  /\ \A j \in Jobs : /\ checkpoint'[j] = processed'[j]
                                /\ done'[j] = 0 .. processed'[j] - 1
             /\ \A r \in Slots : Listed(r)' =>
                  todo'[r] = Lines(job'[r]) \ done'[job'[r]]
  BY <1>0, <1>2 DEF ProgressIsTrue, ListIsCurrent, Listed
<1>3. ASSUME UNCHANGED slotVars
      PROVE  \A r \in Slots : Listed(r)' =>
               Listed(r) /\ job'[r] = job[r] /\ todo'[r] = todo[r]
  BY <1>3 DEF slotVars, Listed
<1>4. ASSUME NEW j \in Jobs,
             \/ CreatePayrollJob(j) \/ Enqueue(j) \/ Promote(j) \/ Stalled(j)
             \/ \E i \in Lines(j) : ArriveLate(j, i) \/ Settle(j, i)
      PROVE  UNCHANGED <<done, processed, checkpoint, slotVars>>
  BY <1>4 DEF CreatePayrollJob, Enqueue, Promote, Stalled, ArriveLate, Settle, dbVars
<1>5. ASSUME NEW j \in Jobs, NEW s \in Slots, Take(s, j)
      PROVE  /\ UNCHANGED <<done, processed, checkpoint>>
             /\ \A r \in Slots : Listed(r)' =>
                  Listed(r) /\ job'[r] = job[r] /\ todo'[r] = todo[r]
  BY <1>0, <1>5 DEF Take, Goto, TypeOK, Listed, dbVars
<1>6. ASSUME NEW e \in Employers, ExpireLease(e)
      PROVE  UNCHANGED <<done, processed, checkpoint, slotVars>>
  BY <1>6 DEF ExpireLease, dbVars
<1>7. CASE UNCHANGED vars
  BY <1>2, <1>3, <1>7 DEF vars, dbVars
<1> QED BY <1>1, <1>2, <1>3, <1>4, <1>5, <1>6, <1>7 DEF Next

-----------------------------------------------------------------------------
(* The theorems.                                                           *)

LEMMA ProgressInit == Init => ProgressInv
<1> SUFFICES ASSUME Init PROVE ProgressInv
  OBVIOUS
<1>1. LeaseInv /\ HolderInv /\ ListIsCurrent
  BY DEF Init, LeaseInv, HolderInv, ListIsCurrent, Running, RunSteps
<1>2. ProgressIsTrue
  BY DEF Init, ProgressIsTrue
<1> QED BY <1>1, <1>2, LinesInit DEF ProgressInv

LEMMA ProgressInductive == ProgressInv /\ [Next]_vars => ProgressInv'
<1> SUFFICES ASSUME ProgressInv, [Next]_vars PROVE ProgressInv'
  OBVIOUS
<1>1. LinesInv'
  BY LinesStep DEF ProgressInv
<1>2. LeaseInv' /\ HolderInv'
  BY LeaseStep, HolderStep DEF ProgressInv, LinesInv
<1>3. ProgressIsTrue' /\ ListIsCurrent'
  BY ProgressStep
<1> QED BY <1>1, <1>2, <1>3 DEF ProgressInv

\* The inductive invariant: what slots know of their jobs, and the two locks.
THEOREM ProgressInvAlways == Spec => []ProgressInv
BY ProgressInit, ProgressInductive, PTL DEF Spec

\* createPayrollJob(), the worker, the lease and processPayroll() keep their types.
THEOREM PayrollTypeCorrect == Spec => []TypeOK
<1>1. ProgressInv => TypeOK
  BY DEF ProgressInv, LinesInv
<1> QED BY <1>1, ProgressInvAlways, PTL

\* A job that is marked completed, or acknowledged to BullMQ, has no line left,
\* whatever crashes, stalls, lapses and failures there were on the way.
THEOREM NoLineIsLost == Spec => []NoLineLost
<1>1. ProgressInv => NoLineLost
  BY DEF ProgressInv, LinesInv
<1> QED BY <1>1, ProgressInvAlways, PTL

\* A line that is marked completed has a transaction: no failed or late request
\* is taken for an answer.
THEOREM EveryLineHasItsTransfer == Spec => []CompletedHasTransfer
<1>1. ProgressInv => CompletedHasTransfer
  BY DEF ProgressInv, LinesInv
<1> QED BY <1>1, ProgressInvAlways, PTL

\* Jobs of one employer are run one at a time until a lease lapses.
THEOREM EmployersAreSerialised == Spec => []OneJobPerEmployer
<1>1. ProgressInv => OneJobPerEmployer
  BY LeaseExcludes DEF ProgressInv
<1> QED BY <1>1, ProgressInvAlways, PTL

\* The counter and the checkpoint say what the items say, until a slot has lost
\* both BullMQ's lock and the lease.
THEOREM ProgressIsTold == Spec => []ProgressIsTrue
<1>1. ProgressInv => ProgressIsTrue
  BY DEF ProgressInv
<1> QED BY <1>1, ProgressInvAlways, PTL

\* So does the list a slot works through.
THEOREM ListsAreCurrent == Spec => []ListIsCurrent
<1>1. ProgressInv => ListIsCurrent
  BY DEF ProgressInv
<1> QED BY <1>1, ProgressInvAlways, PTL

-----------------------------------------------------------------------------
(* Attempts.                                                               *)

\* What a job has burnt, and a slot owes.
BurntBy(j) == attempts[j] + stalls[j] + IF Abandoned(j) THEN 1 ELSE 0
OwedBy(s)  == IF Owes(s) THEN 1 ELSE 0

LEMMA DebtTerms ==
  /\ Burnt = [j \in Jobs |-> BurntBy(j)] /\ Owed = [s \in Slots |-> OwedBy(s)]
  /\ TypeOK => \A j \in Jobs : BurntBy(j) \in Nat
  /\ \A s \in Slots : OwedBy(s) \in {0, 1}
<1>1. Burnt = [j \in Jobs |-> BurntBy(j)] /\ Owed = [s \in Slots |-> OwedBy(s)]
  BY DEF Burnt, Owed, BurntBy, OwedBy
<1>2. ASSUME TypeOK, NEW j \in Jobs PROVE BurntBy(j) \in Nat
  <2>1. attempts[j] \in Nat /\ stalls[j] \in Nat
    BY <1>2 DEF TypeOK
  <2> QED BY <2>1 DEF BurntBy
<1> QED BY <1>1, <1>2 DEF OwedBy

\* A fault is counted by one.
LEMMA StrikeCounts ==
  ASSUME TypeOK, NEW kind, Strike(kind)
  PROVE  faults' = faults + 1
BY DEF Strike

\* What other slots and jobs owe is left alone by a slot's step.
LEMMA OthersOwe ==
  ASSUME TypeOK, LineInv, NEW s \in Slots, Step(s) \/ Fail(s), NEW r \in Slots,
         r # s
  PROVE  OwedBy(r)' = OwedBy(r)
<1>1. pc'[r] = pc[r] /\ job'[r] = job[r] /\ todo'[r] = todo[r] /\ threw'[r] = threw[r]
  BY OthersSame DEF SameSlot
<1>2. NextLine(r)' = NextLine(r)
  BY <1>1 DEF NextLine
<1>3. pc[r] = "execute" =>
        (transfer'[job[r]][NextLine(r)] = "REVERSED" <=>
         transfer[job[r]][NextLine(r)] = "REVERSED")
  <2> SUFFICES ASSUME pc[r] = "execute"
               PROVE  transfer'[job[r]][NextLine(r)] = "REVERSED" <=>
                      transfer[job[r]][NextLine(r)] = "REVERSED"
    OBVIOUS
  <2>1. job[r] \in Jobs /\ NextLine(r) \in Lines(job[r]) /\ job[s] \in Jobs
    BY NextLineType DEF AtLine, TypeOK
  <2>2. CASE InsertRow(s)
    <3>1. NextLine(s) \in Lines(job[s])
      BY <2>2, NextLineType DEF AtLine, InsertRow
    <3> HIDE DEF NextLine
    <3> QED BY <2>1, <2>2, <3>1 DEF InsertRow, SetTransfer, TypeOK
  <2>3. CASE ~InsertRow(s)
    <3>1. transfer' = transfer
      BY <2>3 DEF Step, Fail, AcquireEmployerLock, Defer, Start, FindItems, PayNext,
        Replay, Executed, Record, Complete, ReleaseEmployerLock, Acknowledge,
        AcquireFails, StatementFails, SendFails, Crash, Stall, Lapse, txVars
    <3> QED BY <3>1
  <2> QED BY <2>2, <2>3
<1>4. Owes(r)' <=> Owes(r)
  BY <1>1, <1>2, <1>3 DEF Owes
<1> QED BY <1>4 DEF OwedBy

LEMMA OthersBurn ==
  ASSUME TypeOK, NEW s \in Slots, Step(s) \/ Fail(s), NEW j \in Jobs, j # job[s]
  PROVE  BurntBy(j)' = BurntBy(j)
<1>0. job[s] \in Jobs
  BY DEF TypeOK
<1>1. /\ attempts'[j] = attempts[j] /\ stalls'[j] = stalls[j]
      /\ queue'[j] = queue[j] /\ holder'[j] = holder[j]
  <2>1. CASE Defer(s) \/ Acknowledge(s) \/ Crash(s) \/ Stall(s)
    BY <1>0, <2>1 DEF Defer, Acknowledge, Crash, Stall, TypeOK
  <2>2. CASE ~(Defer(s) \/ Acknowledge(s) \/ Crash(s) \/ Stall(s))
    BY <2>2 DEF Step, Fail, AcquireEmployerLock, Start, FindItems, PayNext, InsertRow,
      Replay, Executed, Record, Complete, ReleaseEmployerLock, AcquireFails,
      StatementFails, SendFails, Lapse, queueVars
  <2> QED BY <2>1, <2>2
<1>2. Abandoned(j)' <=> Abandoned(j)
  BY <1>1 DEF Abandoned
<1> QED BY <1>1, <1>2 DEF BurntBy

\* A slot that goes on in place or throws leaves its job's count to the queue.
LEMMA BurnsNothing ==
  ASSUME TypeOK, NEW j \in Jobs, UNCHANGED queueVars
  PROVE  BurntBy(j)' = BurntBy(j)
<1>1. Abandoned(j)' <=> Abandoned(j)
  BY DEF Abandoned, queueVars
<1> QED BY <1>1 DEF BurntBy, queueVars

\* The slot pays for its failure with a fault, and for an attempt with what it owes.
LEMMA OwnDebt ==
  ASSUME TypeOK, QueueInv, LineInv, NEW s \in Slots, Step(s) \/ Fail(s),
         NEW j \in Jobs, j = job[s]
  PROVE  (BurntBy(j)' - BurntBy(j)) + (OwedBy(s)' - OwedBy(s)) <= faults' - faults
<1>0. /\ BurntBy(j) \in Nat /\ OwedBy(s) \in {0, 1} /\ OwedBy(s)' \in {0, 1}
      /\ faults \in Nat /\ pc \in [Slots -> PCs] /\ threw \in [Slots -> BOOLEAN]
      /\ faults' \in {faults, faults + 1}
  <2>1. faults' \in {faults, faults + 1}
    BY StrikeCounts DEF Step, Fail, AcquireEmployerLock, Defer, Start, FindItems,
      PayNext, InsertRow, Replay, Executed, Record, Complete, ReleaseEmployerLock,
      Acknowledge, AcquireFails, StatementFails, SendFails, Crash, Stall, Lapse,
      faultVars
  <2>2. OwedBy(s)' \in {0, 1}
    BY DEF OwedBy
  <2> QED BY <2>1, <2>2, DebtTerms DEF TypeOK
<1>1. ASSUME BurntBy(j)' = BurntBy(j), OwedBy(s)' = OwedBy(s) \/ OwedBy(s)' = 0
                                       \/ faults' = faults + 1
      PROVE  (BurntBy(j)' - BurntBy(j)) + (OwedBy(s)' - OwedBy(s)) <= faults' - faults
  BY <1>0, <1>1
<1>2. CASE AcquireEmployerLock(s) \/ Start(s) \/ FindItems(s) \/ PayNext(s)
           \/ Replay(s) \/ Record(s) \/ Complete(s)
  <2>1. /\ UNCHANGED queueVars /\ threw'[s] = threw[s] /\ pc'[s] # "execute"
    BY <1>0, <1>2 DEF AcquireEmployerLock, Start, FindItems, PayNext, Replay, Record,
      Complete, Goto
  <2>2. OwedBy(s)' = OwedBy(s) \/ OwedBy(s)' = 0
    BY <2>1 DEF OwedBy, Owes
  <2> QED BY <1>1, <2>1, <2>2, BurnsNothing
<1>3. CASE InsertRow(s)
  <2>1. /\ UNCHANGED <<queueVars, job, todo, threw>> /\ pc[s] = "send"
        /\ SetTransfer(job[s], NextLine(s), "PROCESSING")
    BY <1>3 DEF InsertRow
  <2>2. NextLine(s)' = NextLine(s)
    BY <2>1 DEF NextLine
  <2>3. NextLine(s) \in Lines(job[s]) /\ job[s] \in Jobs
    BY <2>1, NextLineType DEF AtLine
  <2>4. transfer'[job[s]][NextLine(s)] = "PROCESSING"
    <3> HIDE DEF NextLine
    <3> QED BY <2>1, <2>3 DEF SetTransfer, TypeOK
  <2>5. OwedBy(s)' = OwedBy(s) \/ OwedBy(s)' = 0
    BY <2>1, <2>2, <2>4 DEF OwedBy, Owes
  <2> QED BY <1>1, <2>1, <2>5, BurnsNothing
<1>4. CASE Executed(s)
  <2>1. UNCHANGED queueVars
    BY <1>4 DEF Executed
  <2>2. CASE pc'[s] = "record" /\ threw' = threw
    <3>1. OwedBy(s)' = OwedBy(s) \/ OwedBy(s)' = 0
      BY <2>2 DEF OwedBy, Owes
    <3> QED BY <1>1, <2>1, <3>1, BurnsNothing
  <2>3. CASE pc[s] = "execute" /\ transfer[job[s]][NextLine(s)] = "REVERSED"
    <3>1. OwedBy(s) = 1
      BY <2>3 DEF OwedBy, Owes
    <3>2. OwedBy(s)' = OwedBy(s) \/ OwedBy(s)' = 0
      BY <1>0, <3>1
    <3> QED BY <1>1, <2>1, <3>2, BurnsNothing
  <2>4. CASE Strike("error")
    BY <1>1, <2>1, <2>4, BurnsNothing, StrikeCounts
  <2> QED BY <1>0, <1>4, <2>2, <2>3, <2>4 DEF Executed, Goto
<1>5. CASE ReleaseEmployerLock(s)
  <2>1. UNCHANGED queueVars /\ pc'[s] = "acknowledge"
    BY <1>0, <1>5 DEF ReleaseEmployerLock, Goto
  <2>2. CASE threw' = threw
    <3>1. OwedBy(s)' = OwedBy(s) \/ OwedBy(s)' = 0
      BY <2>1, <2>2 DEF OwedBy, Owes
    <3> QED BY <1>1, <2>1, <3>1, BurnsNothing
  <2>3. CASE Strike("outage")
    BY <1>1, <2>1, <2>3, BurnsNothing, StrikeCounts
  <2> QED BY <1>5, <2>2, <2>3 DEF ReleaseEmployerLock
<1>6. CASE AcquireFails(s) \/ StatementFails(s) \/ SendFails(s) \/ Lapse(s)
  <2>1. UNCHANGED queueVars
    BY <1>6 DEF AcquireFails, StatementFails, SendFails, Lapse
  <2>2. faults' = faults + 1
    BY <1>6, StrikeCounts DEF AcquireFails, StatementFails, SendFails, Lapse
  <2> QED BY <1>1, <2>1, <2>2, BurnsNothing
<1>7. ASSUME Free(s) PROVE OwedBy(s)' = 0
  <2>1. pc'[s] = "idle" /\ threw'[s] = FALSE
    BY <1>0, <1>7 DEF Free, Goto
  <2> QED BY <2>1 DEF OwedBy, Owes
<1>8. CASE Defer(s)
  <2>1. attempts' = attempts /\ stalls' = stalls /\ OwedBy(s)' = 0
    BY <1>7, <1>8 DEF Defer
  <2>2. CASE holder[j] # s
    <3>1. UNCHANGED queueVars
      BY <1>8, <2>2 DEF Defer, queueVars
    <3> QED BY <1>1, <2>1, <3>1, BurnsNothing
  <2>3. CASE holder[j] = s /\ queue' = [queue EXCEPT ![j] = "delayed"]
    <3>1. ~Abandoned(j) /\ ~Abandoned(j)'
      BY <2>3 DEF Abandoned, TypeOK
    <3>2. BurntBy(j)' = BurntBy(j)
      BY <2>1, <3>1 DEF BurntBy
    <3> QED BY <1>1, <2>1, <3>2
  <2>4. CASE holder[j] = s /\ faults' > faults
    <3>1. BurntBy(j)' <= BurntBy(j) + 1 /\ BurntBy(j)' \in Nat
      <4>1. attempts[j] \in Nat /\ stalls[j] \in Nat
        BY DEF TypeOK
      <4> QED BY <2>1, <4>1 DEF BurntBy
    <3> QED BY <1>0, <2>1, <2>4, <3>1
  <2> QED BY <1>8, <2>2, <2>3, <2>4 DEF Defer
<1>9. CASE Acknowledge(s)
  <2>1. stalls' = stalls /\ OwedBy(s)' = 0
    BY <1>7, <1>9 DEF Acknowledge
  <2>2. CASE holder[j] # s
    <3>1. UNCHANGED queueVars
      BY <1>9, <2>2 DEF Acknowledge, queueVars
    <3> QED BY <1>1, <2>1, <3>1, BurnsNothing
  <2>3. CASE holder[j] = s
    <3>1. ~Abandoned(j) /\ ~Abandoned(j)'
      BY <1>9, <2>3 DEF Abandoned, Acknowledge, TypeOK
    <3>2. attempts[j] \in Nat /\ stalls[j] \in Nat
      BY DEF TypeOK
    <3>3. CASE threw[s]
      <4>1. attempts'[j] = attempts[j] + 1 /\ OwedBy(s) = 1
        BY <1>9, <2>3, <3>3 DEF Acknowledge, TypeOK, OwedBy, Owes
      <4>2. BurntBy(j)' = BurntBy(j) + 1
        BY <2>1, <3>1, <3>2, <4>1 DEF BurntBy
      <4> QED BY <1>0, <2>1, <4>1, <4>2
    <3>4. CASE ~threw[s]
      <4>1. attempts'[j] = attempts[j]
        BY <1>9, <2>3, <3>4 DEF Acknowledge, TypeOK
      <4>2. BurntBy(j)' = BurntBy(j)
        BY <2>1, <3>1, <4>1 DEF BurntBy
      <4> QED BY <1>1, <2>1, <4>2
    <3> QED BY <3>3, <3>4
  <2> QED BY <2>2, <2>3
<1>10. CASE Crash(s) \/ Stall(s)
  <2>1. attempts' = attempts /\ stalls' = stalls /\ faults' = faults + 1
    BY <1>10, StrikeCounts DEF Crash, Stall
  <2>2. BurntBy(j)' <= BurntBy(j) + 1 /\ BurntBy(j)' \in Nat
    <3>1. attempts[j] \in Nat /\ stalls[j] \in Nat
      BY DEF TypeOK
    <3> QED BY <2>1, <3>1 DEF BurntBy
  <2>3. OwedBy(s)' <= OwedBy(s)
    <3>1. CASE Crash(s)
      BY <1>0, <1>7, <3>1 DEF Crash
    <3>2. CASE Stall(s)
      <4>1. UNCHANGED <<txVars, slotVars>>
        BY <3>2 DEF Stall
      <4>2. NextLine(s)' = NextLine(s)
        BY <4>1 DEF slotVars, NextLine
      <4>3. Owes(s)' <=> Owes(s)
        BY <4>1, <4>2 DEF slotVars, txVars, Owes
      <4> QED BY <1>0, <4>3 DEF OwedBy
    <3> QED BY <1>10, <3>1, <3>2
  <2> QED BY <1>0, <2>1, <2>2, <2>3
<1> QED
  BY <1>2, <1>3, <1>4, <1>5, <1>6, <1>8, <1>9, <1>10 DEF Step, Fail

Debt == SumFunctionOnSet(Burnt, Jobs) + SumFunctionOnSet(Owed, Slots)

LEMMA DebtPaid ==
  ASSUME IsFiniteSet(Jobs), IsFiniteSet(Slots), TypeOK, TypeOK', Debt <= faults,
         NEW j \in Jobs, \A x \in Jobs : x # j => BurntBy(x)' = BurntBy(x),
         \/ /\ \A x \in Slots : OwedBy(x)' = OwedBy(x)
            /\ BurntBy(j)' - BurntBy(j) <= faults' - faults
         \/ \E s \in Slots :
              /\ \A x \in Slots : x # s => OwedBy(x)' = OwedBy(x)
              /\ (BurntBy(j)' - BurntBy(j)) + (OwedBy(s)' - OwedBy(s))
                   <= faults' - faults
  PROVE  Debt' <= faults'
<1>1. PICK b, c, o, p : b = Burnt /\ c = Burnt' /\ o = Owed /\ p = Owed'
  OBVIOUS
<1>2. /\ \A x \in Jobs : b[x] = BurntBy(x) /\ c[x] = BurntBy(x)'
      /\ \A x \in Slots : o[x] = OwedBy(x) /\ p[x] = OwedBy(x)'
  <2>1. /\ b = [x \in Jobs |-> BurntBy(x)] /\ c = [x \in Jobs |-> BurntBy(x)']
        /\ o = [x \in Slots |-> OwedBy(x)] /\ p = [x \in Slots |-> OwedBy(x)']
    BY <1>1 DEF Burnt, Owed, BurntBy, OwedBy
  <2> QED BY <2>1, Zenon
<1>3. /\ \A x \in Jobs : b[x] \in Int /\ c[x] \in Int
      /\ \A x \in Slots : o[x] \in Int /\ p[x] \in Int
  <2>1. \A x \in Jobs : BurntBy(x) \in Nat /\ BurntBy(x)' \in Nat
    <3>1. ASSUME NEW x \in Jobs PROVE BurntBy(x)' \in Nat
      <4>1. attempts'[x] \in Nat /\ stalls'[x] \in Nat
        BY DEF TypeOK
      <4> QED BY <4>1 DEF BurntBy
    <3> QED BY <3>1, DebtTerms
  <2>2. \A x \in Slots : OwedBy(x) \in {0, 1} /\ OwedBy(x)' \in {0, 1}
    BY DEF OwedBy
  <2> QED BY <1>2, <2>1, <2>2
<1>4. faults \in Int /\ faults' \in Int
  BY DEF TypeOK
<1>5. SumFunctionOnSet(b, Jobs) + SumFunctionOnSet(o, Slots) <= faults
  BY <1>1 DEF Debt
<1>6. SumFunctionOnSet(c, Jobs) + SumFunctionOnSet(p, Slots) <= faults'
  <2>1. \A x \in Jobs : x # j => b[x] = c[x]
    BY <1>2
  <2>2. CASE /\ \A x \in Slots : OwedBy(x)' = OwedBy(x)
             /\ BurntBy(j)' - BurntBy(j) <= faults' - faults
    <3>1. \A x \in Slots : o[x] = p[x]
      BY <1>2, <2>2
    <3>2. c[j] - b[j] <= faults' - faults
      BY <1>2, <2>2
    <3> QED BY <1>3, <1>4, <1>5, <2>1, <3>1, <3>2, JobChange
  <2>3. ASSUME NEW s \in Slots,
               \A x \in Slots : x # s => OwedBy(x)' = OwedBy(x),
               (BurntBy(j)' - BurntBy(j)) + (OwedBy(s)' - OwedBy(s))
                 <= faults' - faults
        PROVE  SumFunctionOnSet(c, Jobs) + SumFunctionOnSet(p, Slots) <= faults'
    <3>1. \A x \in Slots : x # s => o[x] = p[x]
      BY <1>2, <2>3
    <3>2. (c[j] - b[j]) + (p[s] - o[s]) <= faults' - faults
      BY <1>2, <2>3
    <3> QED BY <1>3, <1>4, <1>5, <2>1, <3>1, <3>2, DebtChange
  <2> QED BY <2>2, <2>3
<1> QED BY <1>1, <1>6 DEF Debt

\* A verdict is owed by the one slot that waits for it.
LEMMA SettleDebt ==
  ASSUME IsFiniteSet(Jobs), IsFiniteSet(Slots), TypeOK, TypeOK', LineInv, OneWaits,
         Debt <= faults, NEW j \in Jobs, NEW i \in Lines(j), Settle(j, i)
  PROVE  Debt' <= faults'
<1>1. /\ UNCHANGED <<queueVars, slotVars>> /\ faults \in Nat
      /\ transfer[j][i] = "PROCESSING"
  BY DEF Settle, TypeOK
<1>2. \A x \in Jobs : BurntBy(x)' = BurntBy(x) /\ BurntBy(x) \in Nat
  BY <1>1, BurnsNothing, DebtTerms
<1> DEFINE Waits(s) == pc[s] = "execute" /\ job[s] = j /\ NextLine(s) = i
<1>3. ASSUME NEW s \in Slots, ~Waits(s) \/ transfer'[j][i] # "REVERSED"
      PROVE  OwedBy(s)' = OwedBy(s)
  <2>1. NextLine(s)' = NextLine(s)
    BY <1>1 DEF slotVars, NextLine
  <2>2. pc[s] = "execute" => (transfer'[job[s]][NextLine(s)] = "REVERSED" <=>
                              transfer[job[s]][NextLine(s)] = "REVERSED")
    <3> SUFFICES ASSUME pc[s] = "execute"
                 PROVE  transfer'[job[s]][NextLine(s)] = "REVERSED" <=>
                        transfer[job[s]][NextLine(s)] = "REVERSED"
      OBVIOUS
    <3>1. job[s] \in Jobs /\ NextLine(s) \in Lines(job[s])
      BY NextLineType DEF AtLine
    <3> HIDE DEF NextLine
    <3> QED BY <1>1, <1>3, <3>1 DEF Settle, SetTransfer, TypeOK
  <2>3. Owes(s)' <=> Owes(s)
    BY <1>1, <2>1, <2>2 DEF Owes, slotVars
  <2> QED BY <2>3 DEF OwedBy
<1>4. \A s \in Slots : OwedBy(s) \in {0, 1} /\ OwedBy(s)' \in {0, 1}
  BY DEF OwedBy
<1>5. CASE transfer'[j][i] # "REVERSED" \/ ~ \E s \in Slots : Waits(s)
  <2>1. \A x \in Slots : OwedBy(x)' = OwedBy(x)
    BY <1>3, <1>5
  <2>2. faults' \in {faults, faults + 1}
    BY StrikeCounts DEF Settle, faultVars
  <2>3. BurntBy(j)' - BurntBy(j) <= faults' - faults
    BY <1>1, <1>2, <2>2
  <2> QED BY <1>2, <2>1, <2>3, DebtPaid
<1>6. ASSUME NEW s \in Slots, Waits(s), transfer'[j][i] = "REVERSED"
      PROVE  Debt' <= faults'
  <2>1. faults' = faults + 1
    <3>1. ~SetTransfer(j, i, "COMPLETED")
      BY <1>6 DEF SetTransfer, TypeOK
    <3> QED BY <3>1, StrikeCounts DEF Settle
  <2>2. \A x \in Slots : x # s => OwedBy(x)' = OwedBy(x)
    BY <1>3, <1>6 DEF OneWaits
  <2>3. (BurntBy(j)' - BurntBy(j)) + (OwedBy(s)' - OwedBy(s)) <= faults' - faults
    BY <1>1, <1>2, <1>4, <2>1
  <2> HIDE DEF Waits
  <2> QED BY <1>2, <2>2, <2>3, DebtPaid
<1> QED BY <1>5, <1>6

\* The queue and the late requests cost nothing that was not abandoned before.
LEMMA JobDebt ==
  ASSUME IsFiniteSet(Jobs), IsFiniteSet(Slots), TypeOK, TypeOK', LineInv,
         Debt <= faults, NEW j \in Jobs,
         \/ CreatePayrollJob(j) \/ Enqueue(j) \/ Promote(j) \/ Stalled(j)
         \/ \E i \in Lines(j) : ArriveLate(j, i)
  PROVE  Debt' <= faults'
<1>1. UNCHANGED slotVars /\ faults' \in {faults, faults + 1} /\ faults \in Nat
  BY StrikeCounts DEF CreatePayrollJob, Enqueue, Promote, Stalled, ArriveLate,
    faultVars, TypeOK
<1>2. ASSUME NEW s \in Slots PROVE OwedBy(s)' = OwedBy(s)
  <2>1. NextLine(s)' = NextLine(s)
    BY <1>1 DEF slotVars, NextLine
  <2>2. pc[s] = "execute" => (transfer'[job[s]][NextLine(s)] = "REVERSED" <=>
                              transfer[job[s]][NextLine(s)] = "REVERSED")
    <3> SUFFICES ASSUME pc[s] = "execute"
                 PROVE  transfer'[job[s]][NextLine(s)] = "REVERSED" <=>
                        transfer[job[s]][NextLine(s)] = "REVERSED"
      OBVIOUS
    <3>1. job[s] \in Jobs /\ NextLine(s) \in Lines(job[s])
      BY NextLineType DEF AtLine
    <3> HIDE DEF NextLine
    <3>2. CASE transfer' = transfer
      BY <3>2
    <3>3. ASSUME NEW i \in Lines(j), ArriveLate(j, i), transfer' # transfer
          PROVE  transfer'[job[s]][NextLine(s)] = "REVERSED" <=>
                 transfer[job[s]][NextLine(s)] = "REVERSED"
      BY <3>1, <3>3 DEF ArriveLate, SetTransfer, TypeOK
    <3> QED BY <3>2, <3>3 DEF CreatePayrollJob, Enqueue, Promote, Stalled, txVars
  <2>3. Owes(s)' <=> Owes(s)
    BY <1>1, <2>1, <2>2 DEF Owes, slotVars
  <2> QED BY <2>3 DEF OwedBy
<1>3. ASSUME NEW x \in Jobs PROVE BurntBy(x)' = BurntBy(x)
  <2>1. CASE UNCHANGED queueVars
    BY <2>1, BurnsNothing
  <2>2. CASE Enqueue(j) \/ Promote(j)
    <3>1. attempts' = attempts /\ stalls' = stalls /\ (Abandoned(x)' <=> Abandoned(x))
      BY <2>2 DEF Enqueue, Promote, Abandoned, TypeOK
    <3> QED BY <3>1 DEF BurntBy
  <2>3. CASE Stalled(j) /\ x = j
    <3>1. /\ attempts' = attempts /\ stalls'[x] = stalls[x] + 1
          /\ Abandoned(x) /\ ~Abandoned(x)'
      BY <2>3 DEF Stalled, Abandoned, TypeOK
    <3>2. attempts[x] \in Nat /\ stalls[x] \in Nat
      BY DEF TypeOK
    <3> QED BY <3>1, <3>2 DEF BurntBy
  <2>4. CASE Stalled(j) /\ x # j
    <3>1. /\ attempts' = attempts /\ stalls'[x] = stalls[x]
          /\ (Abandoned(x)' <=> Abandoned(x))
      BY <2>4 DEF Stalled, Abandoned, TypeOK
    <3> QED BY <3>1 DEF BurntBy
  <2> QED BY <2>1, <2>2, <2>3, <2>4 DEF CreatePayrollJob, ArriveLate
<1>4. BurntBy(j)' - BurntBy(j) <= faults' - faults
  <2>1. BurntBy(j) \in Nat
    BY DebtTerms
  <2> QED BY <1>1, <1>3, <2>1
<1> QED BY <1>2, <1>3, <1>4, DebtPaid

LEMMA TakeDebt ==
  ASSUME IsFiniteSet(Jobs), IsFiniteSet(Slots), TypeOK, TypeOK', Debt <= faults,
         NEW j \in Jobs, NEW s \in Slots, Take(s, j)
  PROVE  Debt' <= faults'
<1>1. ASSUME NEW x \in Jobs PROVE BurntBy(x)' = BurntBy(x)
  <2>1. attempts' = attempts /\ stalls' = stalls /\ (Abandoned(x)' <=> Abandoned(x))
    BY DEF Take, Abandoned, TypeOK
  <2> QED BY <2>1 DEF BurntBy
<1>2. ASSUME NEW x \in Slots, x # s PROVE OwedBy(x)' = OwedBy(x)
  <2>1. /\ pc'[x] = pc[x] /\ job'[x] = job[x] /\ todo' = todo /\ threw' = threw
        /\ transfer' = transfer
    BY <1>2 DEF Take, Goto, TypeOK, txVars
  <2>2. NextLine(x)' = NextLine(x)
    BY <2>1 DEF NextLine
  <2>3. Owes(x)' <=> Owes(x)
    BY <2>1, <2>2 DEF Owes
  <2> QED BY <2>3 DEF OwedBy
<1>3. OwedBy(s)' \in {OwedBy(s), 0} /\ OwedBy(s) \in {0, 1}
  <2>1. pc'[s] = "acquire" /\ threw' = threw
    BY DEF Take, Goto, TypeOK
  <2> QED BY <2>1 DEF OwedBy, Owes
<1>4. (BurntBy(j)' - BurntBy(j)) + (OwedBy(s)' - OwedBy(s)) <= faults' - faults
  <2>1. BurntBy(j) \in Nat /\ faults \in Nat /\ faults' = faults
    BY DebtTerms DEF Take, faultVars, TypeOK
  <2> QED BY <1>1, <1>3, <2>1
<1> QED BY <1>1, <1>2, <1>4, DebtPaid

\* A transfer's row is inserted once.
LEMMA WaitsStep ==
  ASSUME TypeOK, LineInv, OneWaits, [Next]_vars
  PROVE  OneWaits'
<1>1. ASSUME NEW s \in Slots, NEW r \in Slots, s # r, pc'[s] = "execute",
             pc'[r] = "execute", job'[s] = job'[r], NextLine(s)' = NextLine(r)',
             SameSlot(s), SameSlot(r)
      PROVE  FALSE
  <2>1. NextLine(s)' = NextLine(s) /\ NextLine(r)' = NextLine(r)
    BY <1>1 DEF SameSlot, NextLine
  <2> QED BY <1>1, <2>1 DEF SameSlot, OneWaits
<1>2. ASSUME NEW s \in Slots, NEW r \in Slots, s # r, Step(s) \/ Fail(s),
             pc'[s] = "execute", pc'[r] = "execute", job'[s] = job'[r],
             NextLine(s)' = NextLine(r)'
      PROVE  FALSE
  <2>1. SameSlot(r)
    BY <1>2, OthersSame
  <2>2. CASE Stall(s) \/ Lapse(s)
    <3>1. SameSlot(s)
      BY <2>2 DEF Stall, Lapse, slotVars, SameSlot
    <3> QED BY <1>1, <1>2, <2>1, <3>1
  <2>3. CASE InsertRow(s)
    <3>1. /\ UNCHANGED <<job, todo>>
          /\ transfer[job[s]][NextLine(s)] = "absent"
      BY <2>3 DEF InsertRow
    <3>2. NextLine(s)' = NextLine(s) /\ NextLine(r)' = NextLine(r)
      BY <3>1 DEF NextLine
    <3>3. pc[r] = "execute" /\ job[s] = job[r] /\ NextLine(s) = NextLine(r)
      BY <1>2, <2>1, <3>1, <3>2 DEF SameSlot
    <3>4. transfer[job[r]][NextLine(r)] # "absent"
      BY <3>3 DEF LineInv, SlotInv
    <3> QED BY <3>1, <3>3, <3>4
  <2>4. CASE ~InsertRow(s) /\ ~Stall(s) /\ ~Lapse(s)
    <3>1. pc \in [Slots -> PCs]
      BY DEF TypeOK
    <3>2. CASE Step(s)
      BY <1>2, <2>4, <3>1, <3>2 DEF Step, AcquireEmployerLock, Defer, Start, FindItems,
        PayNext, Replay, Executed, Record, Complete, ReleaseEmployerLock, Acknowledge,
        Goto, Throw, Free
    <3>3. CASE Fail(s)
      BY <1>2, <2>4, <3>1, <3>3 DEF Fail, AcquireFails, StatementFails, SendFails,
        Crash, Goto, Throw, Free
    <3> QED BY <1>2, <3>2, <3>3
  <2> QED BY <2>2, <2>3, <2>4
<1>3. SUFFICES ASSUME NEW s \in Slots, NEW r \in Slots, s # r, pc'[s] = "execute",
                      pc'[r] = "execute", job'[s] = job'[r],
                      NextLine(s)' = NextLine(r)'
               PROVE  FALSE
  BY DEF OneWaits
<1>4. CASE UNCHANGED slotVars
  BY <1>1, <1>3, <1>4 DEF slotVars, SameSlot
<1>5. ASSUME NEW t \in Slots, Step(t) \/ Fail(t)
      PROVE  FALSE
  <2>1. CASE t = s
    BY <1>2, <1>3, <1>5, <2>1
  <2>2. CASE t = r
    BY <1>2, <1>3, <1>5, <2>2
  <2>3. CASE t # s /\ t # r
    <3>1. SameSlot(s) /\ SameSlot(r)
      BY <1>5, <2>3, OthersSame
    <3> QED BY <1>1, <1>3, <3>1
  <2> QED BY <2>1, <2>2, <2>3
<1>6. ASSUME NEW t \in Slots, NEW j \in Jobs, Take(t, j)
      PROVE  FALSE
  <2>1. t # s /\ t # r /\ pc \in [Slots -> PCs] /\ job \in [Slots -> Jobs]
    BY <1>3, <1>6 DEF Take, Goto, TypeOK
  <2>2. SameSlot(s) /\ SameSlot(r)
    BY <1>6, <2>1 DEF Take, Goto, SameSlot
  <2> QED BY <1>1, <1>3, <2>2
<1>7. ASSUME NEW j \in Jobs,
             \/ CreatePayrollJob(j) \/ Enqueue(j) \/ Promote(j) \/ Stalled(j)
             \/ \E i \in Lines(j) : ArriveLate(j, i) \/ Settle(j, i)
      PROVE  FALSE
  BY <1>4, <1>7 DEF CreatePayrollJob, Enqueue, Promote, Stalled, ArriveLate, Settle
<1>8. ASSUME NEW e \in Employers, ExpireLease(e)
      PROVE  FALSE
  BY <1>4, <1>8 DEF ExpireLease
<1>9. CASE UNCHANGED vars
  BY <1>4, <1>9 DEF vars
<1> QED BY <1>5, <1>6, <1>7, <1>8, <1>9 DEF Next

LEMMA DebtStep ==
  ASSUME IsFiniteSet(Jobs), IsFiniteSet(Slots), LinesInv, TypeOK', DebtInv,
         [Next]_vars
  PROVE  DebtInv'
<1>0. TypeOK /\ QueueInv /\ LineInv /\ OneWaits /\ Debt <= faults /\ faults \in Nat
  BY DEF LinesInv, DebtInv, Debt, TypeOK
<1>1. OneWaits'
  BY <1>0, WaitsStep
<1>2. Debt' <= faults'
  <2>1. ASSUME NEW s \in Slots, Step(s) \/ Fail(s)
        PROVE  Debt' <= faults'
    <3>1. PICK j \in Jobs : j = job[s]
      BY <1>0 DEF TypeOK
    <3>2. \A x \in Jobs : x # j => BurntBy(x)' = BurntBy(x)
      BY <1>0, <2>1, <3>1, OthersBurn
    <3>3. \A x \in Slots : x # s => OwedBy(x)' = OwedBy(x)
      BY <1>0, <2>1, OthersOwe
    <3>4. (BurntBy(j)' - BurntBy(j)) + (OwedBy(s)' - OwedBy(s)) <= faults' - faults
      BY <1>0, <2>1, <3>1, OwnDebt
    <3> QED BY <1>0, <3>2, <3>3, <3>4, DebtPaid
  <2>2. ASSUME NEW j \in Jobs, NEW s \in Slots, Take(s, j)
        PROVE  Debt' <= faults'
    BY <1>0, <2>2, TakeDebt
  <2>3. ASSUME NEW j \in Jobs,
               \/ CreatePayrollJob(j) \/ Enqueue(j) \/ Promote(j) \/ Stalled(j)
               \/ \E i \in Lines(j) : ArriveLate(j, i)
        PROVE  Debt' <= faults'
    BY <1>0, <2>3, JobDebt
  <2>4. ASSUME NEW j \in Jobs, NEW i \in Lines(j), Settle(j, i)
        PROVE  Debt' <= faults'
    BY <1>0, <2>4, SettleDebt
  <2>5. CASE UNCHANGED <<queueVars, txVars, slotVars, faultVars>>
    <3>1. Burnt' = Burnt /\ Owed' = Owed /\ faults' = faults
      <4>1. \A j \in Jobs : Abandoned(j)' <=> Abandoned(j)
        BY <2>5 DEF Abandoned, queueVars
      <4>2. \A s \in Slots : NextLine(s)' = NextLine(s)
        BY <2>5 DEF slotVars, NextLine
      <4>3. \A s \in Slots : Owes(s)' <=> Owes(s)
        BY <2>5, <4>2 DEF Owes, slotVars, txVars
      <4> QED BY <2>5, <4>1, <4>3 DEF Burnt, Owed, queueVars, faultVars
    <3> QED BY <1>0, <3>1 DEF Debt
  <2>6. ASSUME NEW e \in Employers, ExpireLease(e)
        PROVE  Debt' <= faults'
    BY <2>5, <2>6 DEF ExpireLease
  <2>7. UNCHANGED vars => Debt' <= faults'
    BY <2>5 DEF vars
  <2> QED BY <2>1, <2>2, <2>3, <2>4, <2>6, <2>7 DEF Next
<1> QED BY <1>1, <1>2 DEF DebtInv, Debt

LEMMA DebtInit ==
  ASSUME IsFiniteSet(Jobs), IsFiniteSet(Slots), Init
  PROVE  DebtInv
<1>1. OneWaits
  BY DEF Init, OneWaits
<1>2. \A j \in Jobs : Burnt[j] = 0
  BY DEF Init, Burnt, Abandoned
<1>3. \A s \in Slots : Owed[s] = 0
  BY DEF Init, Owed, Owes
<1>4. SumFunctionOnSet(Burnt, Jobs) + SumFunctionOnSet(Owed, Slots) = 0
  BY <1>2, <1>3, DebtNothing
<1> QED BY <1>1, <1>4 DEF DebtInv, Init

LEMMA DebtCovers ==
  ASSUME IsFiniteSet(Jobs), IsFiniteSet(Slots), TypeOK, DebtInv
  PROVE  FailuresBurnAttempts
<1> DEFINE a == [j \in Jobs |-> attempts[j] + stalls[j]]
           e == [j \in Jobs |-> IF Abandoned(j) THEN 1 ELSE 0]
<1>1. \A j \in Jobs : attempts[j] \in Nat /\ stalls[j] \in Nat
  BY DEF TypeOK
<1>2. \A j \in Jobs : a[j] \in Nat
  BY <1>1
<1>3. \A j \in Jobs : e[j] \in Nat
  OBVIOUS
<1>4. \A j \in Jobs : Burnt[j] = a[j] + e[j]
  BY <1>1 DEF Burnt
<1>5. \A s \in Slots : Owed[s] \in Nat
  BY DEF Owed
<1>6. SumFunctionOnSet(Burnt, Jobs) + SumFunctionOnSet(Owed, Slots) <= faults
  BY DEF DebtInv
<1>7. faults \in Int
  BY DEF TypeOK
<1>8. FailuresBurnAttempts <=> SumFunctionOnSet(a, Jobs) <= faults
  BY DEF FailuresBurnAttempts
<1> HIDE DEF a, e
<1>9. SumFunctionOnSet(a, Jobs) <= faults
  BY <1>2, <1>3, <1>4, <1>5, <1>6, <1>7, BurntBelow
<1> QED BY <1>8, <1>9

\* An attempt or a stall is counted only for a fault that has happened, and none
\* for two: deferrals, replays and lost locks that were given back cost nothing.
THEOREM AttemptsArePaidFor ==
  ASSUME IsFiniteSet(Jobs), IsFiniteSet(Slots)
  PROVE  Spec => []FailuresBurnAttempts
<1>1. Init => LinesInv /\ DebtInv
  BY LinesInit, DebtInit
<1>2. LinesInv /\ DebtInv /\ [Next]_vars => (LinesInv /\ DebtInv)'
  <2> SUFFICES ASSUME LinesInv, DebtInv, [Next]_vars PROVE LinesInv' /\ DebtInv'
    OBVIOUS
  <2>1. LinesInv'
    BY LinesStep
  <2>2. TypeOK'
    BY <2>1 DEF LinesInv
  <2> QED BY <2>1, <2>2, DebtStep
<1>3. LinesInv /\ DebtInv => FailuresBurnAttempts
  BY DebtCovers DEF LinesInv
<1> QED BY <1>1, <1>2, <1>3, PTL DEF Spec
=============================================================================
