--------------------------- MODULE TransferProofs ---------------------------
(***************************************************************************)
(* Proofs about Transfer, for every set of transfers, recoverers, wallets  *)
(* and amounts, and every bound.                                           *)
(***************************************************************************)
EXTENDS TransferStores, SumTheorems, TLAPS

-----------------------------------------------------------------------------
(* Sums over the transfers and over the wallets.                           *)

\* One term of a sum over the transfers changes.
LEMMA TermChange ==
  ASSUME IsFiniteSet(Txs), NEW f, NEW g, NEW u \in Txs,
         \A t \in Txs : f[t] \in Int, \A t \in Txs : g[t] \in Int,
         \A t \in Txs : t # u => f[t] = g[t]
  PROVE  SumFunctionOnSet(g, Txs) = SumFunctionOnSet(f, Txs) + (g[u] - f[u])
BY SumChange

\* One balance of a sum over the wallets changes.
LEMMA PartChange ==
  ASSUME IsFiniteSet(Wallets), NEW f, NEW g, NEW w \in Wallets,
         \A v \in Wallets : f[v] \in Int, \A v \in Wallets : g[v] \in Int,
         \A v \in Wallets : v # w => f[v] = g[v]
  PROVE  SumFunctionOnSet(g, Wallets)
           = SumFunctionOnSet(f, Wallets) + (g[w] - f[w])
BY SumChange

\* A sum over some transfers is one over all of them.
LEMMA SumOver ==
  ASSUME IsFiniteSet(Txs), NEW T \in SUBSET Txs, NEW f,
         \A t \in T : f[t] \in Int
  PROVE  SumFunctionOnSet([t \in Txs |-> IF t \in T THEN f[t] ELSE 0], Txs)
           = SumFunctionOnSet(f, T)
<1> DEFINE g == [t \in Txs |-> IF t \in T THEN f[t] ELSE 0]
<1>1. /\ \A t \in Txs : g[t] \in Int
      /\ \A t \in T : f[t] = g[t]
      /\ \A t \in Txs \ T : g[t] = 0
  OBVIOUS
<1> HIDE DEF g
<1>2. SumFunctionOnSet(g, Txs) = SumFunctionOnSet(f, T)
  BY <1>1, SumSupport
<1> QED
  BY <1>2 DEF g

\* Sums over the transfers are added term by term.
LEMMA SumBoth ==
  ASSUME IsFiniteSet(Txs), NEW f, NEW g, NEW h,
         \A t \in Txs : f[t] \in Int /\ g[t] \in Int /\ h[t] = f[t] + g[t]
  PROVE  SumFunctionOnSet(h, Txs)
           = SumFunctionOnSet(f, Txs) + SumFunctionOnSet(g, Txs)
BY SumPlus

\* Nothing adds up to nothing.
LEMMA SumNothing ==
  ASSUME IsFiniteSet(Txs), NEW f, \A t \in Txs : f[t] = 0
  PROVE  SumFunctionOnSet(f, Txs) = 0
BY SumZero

-----------------------------------------------------------------------------
USE SetsAssumption, DataAssumption

\* What account-service and ledger-service hold is typed.
BooksOK ==
  /\ balance \in [Wallets -> Nat]
  /\ op \in [Txs -> [Kinds \ {"batch"} -> Nat]]
  /\ batch \in [Txs -> Nat]

-----------------------------------------------------------------------------
(* The calls.                                                              *)

\* The requests workers send are messages.
LEMMA RequestType ==
  ASSUME TypeOK, NEW w \in Workers, NEW k \in Kinds
  PROVE  /\ Request(w, k) \in Messages
         /\ Request(w, k).tx = row[w].tx
         /\ Request(w, k).kind = k
BY DEF TypeOK, Request, Messages, Rows, Destination, Kinds

\* Serving a request the service accepts keeps the books typed: no balance
\* becomes negative.
LEMMA ServeType ==
  ASSUME BooksOK, NEW m \in Messages, Accepts(m), Serve(m)
  PROVE  BooksOK'
<1>1. CASE m.kind = "batch"
  BY <1>1 DEF BooksOK, Messages, Serve, CreateBatch
<1>2. CASE m.kind # "batch"
  <2>1. /\ m.tx \in Txs /\ m.cents \in Nat /\ WalletOf(m) \in Wallets
        /\ m.kind \in Kinds \ {"batch"}
    BY <1>2 DEF Messages, WalletOf
  <2>2. m.kind = "debit" /\ ~Recorded(m) => balance[WalletOf(m)] >= m.cents
    BY DEF Accepts
  <2>3. balance' \in [Wallets -> Nat]
    <3>1. balance[WalletOf(m)] \in Nat
      BY <2>1 DEF BooksOK
    <3> QED
      BY <1>2, <2>1, <2>2, <3>1 DEF BooksOK, Serve, ApplyWalletOperation
  <2>4. op' \in [Txs -> [Kinds \ {"batch"} -> Nat]]
    <3>1. op' = [op EXCEPT ![m.tx][m.kind] = IF @ = 0 THEN m.cents ELSE @]
      BY <1>2 DEF Serve, ApplyWalletOperation
    <3> QED
      BY <2>1, <3>1 DEF BooksOK
  <2> QED
    BY <1>2, <2>3, <2>4 DEF BooksOK, Serve, ApplyWalletOperation
<1> QED BY <1>1, <1>2

\* An accepted request records what it is for, and nothing else.
LEMMA ServeEffect ==
  ASSUME BooksOK, NEW m \in Messages, Accepts(m), Serve(m), NEW t \in Txs
  PROVE  /\ Debited(t)' <=> Debited(t) \/ (m.tx = t /\ m.kind = "debit")
         /\ Batched(t)' <=> Batched(t) \/ (m.tx = t /\ m.kind = "batch")
         /\ Reversed(t)' <=> Reversed(t) \/ (m.tx = t /\ m.kind = "reversal")
         /\ Credited(t)' <=> Credited(t) \/ (m.tx = t /\ m.kind = "credit")
<1> USE DEF Debited, Batched, Reversed, Credited
<1>0. m.tx \in Txs /\ m.cents \in Nat /\ m.kind \in Kinds
  BY DEF Messages
<1>1. CASE m.kind = "batch"
  <2>1. Recorded(m) \/ m.cents # 0
    BY DEF Accepts
  <2> QED
    BY <1>0, <1>1, <2>1 DEF BooksOK, Serve, CreateBatch, Recorded
<1>2. CASE m.kind # "batch"
  <2>1. op[m.tx][m.kind] # 0 \/ m.cents # 0
    BY <1>2 DEF Accepts, Recorded
  <2>2. op' = [op EXCEPT ![m.tx][m.kind] = IF @ = 0 THEN m.cents ELSE @]
        /\ batch' = batch
    BY <1>2 DEF Serve, ApplyWalletOperation
  <2>3. \A k \in Kinds \ {"batch"} :
          op'[t][k] # 0 <=> op[t][k] # 0 \/ (m.tx = t /\ m.kind = k)
    BY <1>0, <1>2, <2>1, <2>2 DEF BooksOK
  <2> QED
    BY <1>2, <2>2, <2>3 DEF Kinds
<1> QED BY <1>1, <1>2

\* A replay moves nothing.
LEMMA ReplayStays ==
  ASSUME BooksOK, NEW m \in Messages, Serve(m), Recorded(m)
  PROVE  UNCHANGED books
<1>0. m.tx \in Txs /\ m.kind \in Kinds
  BY DEF Messages
<1>1. CASE m.kind = "batch"
  BY <1>0, <1>1 DEF Serve, CreateBatch, Recorded, BooksOK, books
<1>2. CASE m.kind # "batch"
  <2>1. /\ op' = [op EXCEPT ![m.tx][m.kind] = IF @ = 0 THEN m.cents ELSE @]
        /\ op[m.tx][m.kind] # 0 /\ batch' = batch
        /\ balance' = [balance EXCEPT ![WalletOf(m)] = @]
    BY <1>2 DEF Serve, ApplyWalletOperation, Recorded
  <2>2. op' = op
    BY <1>0, <1>2, <2>1 DEF BooksOK
  <2>3. balance' = balance
    BY <2>1 DEF BooksOK
  <2> QED
    BY <2>1, <2>2, <2>3 DEF books
<1> QED
  BY <1>1, <1>2

-----------------------------------------------------------------------------
(* Type correctness.                                                       *)

LEMMA ReturnType ==
  ASSUME TypeOK, NEW w \in Workers, NEW failed \in BOOLEAN, Return(w, failed)
  PROVE  /\ pc' \in [Workers -> PCs] /\ row' \in [Workers -> Rows]
         /\ queue' \in [Workers -> SUBSET Rows]
         /\ threw' \in [Workers -> BOOLEAN]
<1>1. {"done", "idle", "acquire"} \subseteq PCs
  BY DEF PCs
<1>2. pc' \in [Workers -> PCs] /\ threw' \in [Workers -> BOOLEAN]
  BY <1>1 DEF TypeOK, Return, Goto
<1>3. CASE queue' = [queue EXCEPT ![w] = {}] /\ UNCHANGED row
  BY <1>2, <1>3 DEF TypeOK
<1>4. CASE \E r \in queue[w] : /\ row' = [row EXCEPT ![w] = r]
                              /\ queue' = [queue EXCEPT ![w] = @ \ {r}]
  BY <1>2, <1>4 DEF TypeOK
<1> QED
  BY <1>3, <1>4 DEF Return

LEMMA StaleRowsType ==
  ASSUME TypeOK
  PROVE  StaleRows \subseteq Rows
BY DEF TypeOK, StaleRows, Rows

LEMMA FaultType ==
  ASSUME TypeOK, NEW f, Fault(f)
  PROVE  faults' \in 0 .. MaxFaults
BY DEF TypeOK, Fault

\* A step of one POST, answered or not, keeps the types.
LEMMA PostType ==
  ASSUME TypeOK, NEW w \in Workers, NEW k \in Kinds, NEW next \in PCs,
         Post(w, k, next) \/ PostFails(w, k)
  PROVE  TypeOK'
<1> DEFINE m == Request(w, k)
<1>1. m \in Messages
  BY RequestType
<1>2. BooksOK
  BY DEF TypeOK, BooksOK
<1>3. BooksOK'
  <2>1. (Accepts(m) /\ Serve(m)) \/ UNCHANGED books
    BY DEF Post, PostFails
  <2>2. UNCHANGED books => BooksOK'
    BY <1>2 DEF BooksOK, books
  <2> HIDE DEF m
  <2> QED
    BY <1>1, <1>2, <2>1, <2>2, ServeType
<1>4. late' \in SUBSET Messages
  <2>1. late' = late \/ late' = late \cup {m}
    BY DEF Post, PostFails
  <2> QED
    BY <1>1, <2>1 DEF TypeOK
<1>5. pc' \in [Workers -> PCs] /\ threw' \in [Workers -> BOOLEAN]
  <2>1. {"reversal", "release"} \subseteq PCs
    BY DEF PCs, RunSteps, Kinds
  <2>2. (Goto(w, next) /\ UNCHANGED threw) \/ OnError(w, k)
    BY DEF Post, PostFails
  <2>3. PICK label \in PCs : pc' = [pc EXCEPT ![w] = label]
    BY <2>1, <2>2 DEF OnError, Goto
  <2>4. threw' = threw \/ threw' = [threw EXCEPT ![w] = TRUE]
    BY <2>2 DEF OnError
  <2> QED
    BY <2>3, <2>4 DEF TypeOK
<1>6. faults' \in 0 .. MaxFaults
  BY FaultType DEF TypeOK, Post, PostFails
<1>7. UNCHANGED <<rowVars, lease, row, queue, reversalSeen>>
  BY DEF Post, PostFails
<1> QED
  BY <1>3, <1>4, <1>5, <1>6, <1>7 DEF TypeOK, BooksOK, rowVars

LEMMA TypeInit == Init => TypeOK
<1> SUFFICES ASSUME Init PROVE TypeOK
  OBVIOUS
<1>1. row \in [Workers -> Rows]
  BY DEF Init, Rows
<1> QED
  BY <1>1 DEF Init, TypeOK, Statuses, PCs, Workers

LEMMA TypeStep == TypeOK /\ [Next]_vars => TypeOK'
<1> SUFFICES ASSUME TypeOK, [Next]_vars PROVE TypeOK'
  OBVIOUS
<1>1. CASE UNCHANGED vars
  BY <1>1 DEF vars, rowVars, books, workVars, TypeOK
<1>2. ASSUME NEW t \in Txs,
             Start(t) \/ FxWriteFails(t) \/ Age(t) \/ ExpireLease(t)
             \/ LapseLease(t)
      PROVE  TypeOK'
  <2> USE DEF TypeOK, books, rowVars, workVars
  <2>0. t \in Workers
    BY DEF Workers
  <2>1. CASE InsertRow(t)
    BY <2>0, <2>1 DEF InsertRow, Goto, PCs, FxSteps, Statuses
  <2>2. CASE ConsumeQuote(t)
    BY <2>0, <2>2 DEF ConsumeQuote, Goto, PCs, FxSteps
  <2>3. CASE WriteDestination(t)
    BY <2>0, <2>3 DEF WriteDestination, Goto, PCs, Rows
  <2>4. CASE MarkFailed(t)
    BY <2>0, <2>4 DEF MarkFailed, Goto, PCs, Statuses
  <2>5. CASE FxWriteFails(t)
    <3>1. faults' \in 0 .. MaxFaults
      BY <2>5, FaultType DEF FxWriteFails
    <3>2. converted' \in [Txs -> BOOLEAN]
      BY <2>5 DEF FxWriteFails
    <3>3. pc' \in [Workers -> PCs]
      BY <2>0, <2>5 DEF FxWriteFails, Goto, PCs, FxSteps
    <3> QED
      BY <2>5, <3>1, <3>2, <3>3 DEF FxWriteFails
  <2>6. CASE Age(t)
    <3>1. faults' \in 0 .. MaxFaults
      BY <2>6, FaultType DEF Age
    <3> QED
      BY <2>6, <3>1 DEF Age
  <2>7. CASE ExpireLease(t)
    BY <2>7 DEF ExpireLease
  <2>8. CASE LapseLease(t)
    <3>1. faults' \in 0 .. MaxFaults
      BY <2>8, FaultType DEF LapseLease
    <3> QED
      BY <2>8, <3>1 DEF LapseLease
  <2> QED
    BY <1>2, <2>1, <2>2, <2>3, <2>4, <2>5, <2>6, <2>7, <2>8 DEF Start
<1>3. ASSUME NEW w \in Workers, Execute(w) \/ Fail(w) PROVE TypeOK'
  <2> USE DEF TypeOK, books, rowVars, workVars
  <2>0. row[w].tx \in Txs
    BY DEF Rows
  <2>1. CASE AcquireLease(w)
    BY <2>0, <2>1 DEF AcquireLease, Goto, PCs, RunSteps
  <2>2. CASE Contended(w)
    <3>1. faults' \in 0 .. MaxFaults
      BY <2>2, FaultType DEF Contended
    <3>2. Return(w, FALSE) \/ Return(w, TRUE)
      BY <2>2 DEF Contended
    <3>3. /\ pc' \in [Workers -> PCs] /\ row' \in [Workers -> Rows]
          /\ queue' \in [Workers -> SUBSET Rows]
          /\ threw' \in [Workers -> BOOLEAN]
      BY <3>2, ReturnType
    <3> QED
      BY <2>2, <3>1, <3>3 DEF Contended
  <2>3. CASE ReleaseLease(w)
    <3>1. faults' \in 0 .. MaxFaults
      BY <2>3, FaultType DEF ReleaseLease
    <3>2. lease' \in [Txs -> Workers \cup {NoOne, Orphan}]
      BY <2>3 DEF ReleaseLease
    <3>3. /\ pc' \in [Workers -> PCs] /\ row' \in [Workers -> Rows]
          /\ queue' \in [Workers -> SUBSET Rows]
          /\ threw' \in [Workers -> BOOLEAN]
      <4>1. threw[w] \in BOOLEAN /\ Return(w, threw[w])
        BY <2>3 DEF ReleaseLease
      <4> HIDE DEF TypeOK
      <4> QED
        BY <4>1, ReturnType
    <3> QED
      BY <2>3, <3>1, <3>2, <3>3 DEF ReleaseLease
  <2>4. CASE ReadStatus(w)
    BY <2>4 DEF ReadStatus, Goto, PCs, RunSteps
  <2>5. CASE GetReversal(w)
    BY <2>5 DEF GetReversal, Goto, PCs, RunSteps
  <2>6. CASE GetBatch(w)
    BY <2>6 DEF GetBatch, Goto, PCs, RunSteps, Kinds
  <2>7. CASE \/ DebitSender(w) \/ CreateLedger(w) \/ ReverseDebit(w)
             \/ CreditRecipient(w) \/ \E k \in Kinds : PostFails(w, k)
    <3>1. \E k \in Kinds, next \in PCs : Post(w, k, next) \/ PostFails(w, k)
      BY <2>7 DEF DebitSender, CreateLedger, ReverseDebit, CreditRecipient,
                  PCs, RunSteps, Kinds
    <3> HIDE DEF TypeOK
    <3> QED
      BY <3>1, PostType
  <2>8. CASE MarkCompleted(w)
    BY <2>8 DEF MarkCompleted, Complete, Settle, Goto, PCs, RunSteps, Statuses
  <2>9. CASE MarkReversed(w)
    BY <2>9 DEF MarkReversed, Settle, Goto, PCs, RunSteps, Statuses
  <2>10. CASE FailOpen(w)
    <3>1. faults' \in 0 .. MaxFaults
      BY <2>10, FaultType DEF FailOpen
    <3>2. lease' \in [Txs -> Workers \cup {NoOne, Orphan}]
      BY <2>10 DEF FailOpen
    <3> QED
      BY <2>10, <3>1, <3>2 DEF FailOpen, Goto, PCs, RunSteps
  <2>11. CASE ReadFails(w)
    <3>1. faults' \in 0 .. MaxFaults
      BY <2>11, FaultType DEF ReadFails
    <3> QED
      BY <2>11, <3>1 DEF ReadFails, Throw, Goto, PCs, RunSteps
  <2>12. CASE WriteFails(w)
    <3>1. faults' \in 0 .. MaxFaults
      BY <2>12, FaultType DEF WriteFails
    <3>2. status' \in [Txs -> Statuses] /\ keyDone' \in [Txs -> BOOLEAN]
      BY <2>12 DEF WriteFails, Complete, Settle, Statuses
    <3> QED
      BY <2>12, <3>1, <3>2 DEF WriteFails, Throw, Goto, PCs, RunSteps
  <2>13. CASE Crash(w)
    <3>1. faults' \in 0 .. MaxFaults
      BY <2>13, FaultType DEF Crash
    <3>2. late' \in SUBSET Messages
      <4>1. \/ late' = late
            \/ pc[w] \in Kinds /\ late' = late \cup {Request(w, pc[w])}
        <5> HIDE DEF TypeOK
        <5> QED
          BY <2>13 DEF Crash
      <4>2. late \in SUBSET Messages
        OBVIOUS
      <4>3. pc[w] \in Kinds => Request(w, pc[w]) \in Messages
        <5> HIDE DEF TypeOK
        <5> QED
          BY RequestType
      <4> HIDE DEF TypeOK
      <4> QED
        BY <4>1, <4>2, <4>3
    <3>3. lease' \in [Txs -> Workers \cup {NoOne, Orphan}]
      BY <2>13 DEF Crash
    <3> QED
      BY <2>13, <3>1, <3>2, <3>3 DEF Crash, Goto, PCs
  <2> HIDE DEF TypeOK
  <2> QED
    BY <1>3, <2>1, <2>2, <2>3, <2>4, <2>5, <2>6, <2>7, <2>8, <2>9, <2>10,
       <2>11, <2>12, <2>13 DEF Execute, Fail
<1>4. ASSUME NEW r \in Recoverers, RecoveryTick(r) \/ IdleTick(r)
      PROVE  TypeOK'
  <2>1. CASE IdleTick(r)
    BY <1>1, <2>1 DEF IdleTick
  <2>2. CASE RecoveryTick(r)
    <3>1. PICK found \in SUBSET StaleRows : \E x \in found :
            /\ row' = [row EXCEPT ![r] = x]
            /\ queue' = [queue EXCEPT ![r] = found \ {x}]
      BY <2>2 DEF RecoveryTick
    <3>2. r \in Workers
      BY DEF Workers
    <3>3. row' \in [Workers -> Rows] /\ queue' \in [Workers -> SUBSET Rows]
      <4>1. found \in SUBSET Rows
        BY StaleRowsType
      <4> QED
        BY <3>1, <3>2, <4>1 DEF TypeOK
    <3> QED
      BY <2>2, <3>2, <3>3 DEF RecoveryTick, TypeOK, Goto, PCs, books, rowVars
  <2> QED
    BY <1>4, <2>1, <2>2
<1>5. ASSUME NEW m \in late, Deliver(m) PROVE TypeOK'
  <2>1. m \in Messages /\ BooksOK
    BY DEF TypeOK, BooksOK
  <2>2. BooksOK'
    <3>1. UNCHANGED books => BooksOK'
      BY <2>1 DEF BooksOK, books
    <3> QED
      BY <1>5, <2>1, <3>1, ServeType DEF Deliver
  <2> QED
    BY <1>5, <2>2 DEF Deliver, TypeOK, BooksOK, rowVars, workVars
<1> QED
  BY <1>1, <1>2, <1>3, <1>4, <1>5 DEF Next

\* Every state of the specification is typed; in particular no balance becomes
\* negative, whatever faults happen.
THEOREM TypeCorrect == Spec => []TypeOK
BY TypeInit, TypeStep, PTL DEF Spec

-----------------------------------------------------------------------------
(* The books alone back every outcome.                                     *)

\* The two halves of Backed, and what every step does to the books.
BooksBacked ==
  \A t \in Txs :
    /\ Credited(t) => Debited(t) /\ Batched(t)
    /\ Reversed(t) \/ Batched(t) => Debited(t)

StatusBacked ==
  \A t \in Txs :
    /\ status[t] = "COMPLETED" => Credited(t)
    /\ status[t] = "REVERSED" => Reversed(t)

Grows ==
  \A t \in Txs :
    /\ Debited(t) => Debited(t)'
    /\ Batched(t) => Batched(t)'
    /\ Reversed(t) => Reversed(t)'
    /\ Credited(t) => Credited(t)'

BackedMessages == {m \in Messages : MessageBacked(m)}

LEMMA BackedHalves == Backed <=> BooksBacked /\ StatusBacked
BY DEF Backed, BooksBacked, StatusBacked, Batched

LEMMA QuietGrows ==
  ASSUME UNCHANGED books
  PROVE  Grows /\ (BooksBacked => BooksBacked')
BY DEF books, Grows, BooksBacked, Debited, Batched, Reversed, Credited

\* Serving a request that is backed only adds to the books, and keeps them
\* backed.
LEMMA ServeGrows ==
  ASSUME BooksOK, BooksBacked, NEW m \in Messages, MessageBacked(m),
         (Accepts(m) /\ Serve(m)) \/ UNCHANGED books
  PROVE  Grows /\ BooksBacked'
<1>1. CASE UNCHANGED books
  BY <1>1, QuietGrows
<1>2. CASE Accepts(m) /\ Serve(m)
  BY <1>2, ServeEffect DEF Grows, BooksBacked, MessageBacked
<1> QED BY <1>1, <1>2

\* What a step of one worker must show.
LEMMA WorkerStepBacked ==
  ASSUME TypeOK, BackedInv, NEW w \in Workers,
         Grows, BooksBacked', StatusBacked', WorkerBacked(w)',
         \A v \in Workers \ {w} : /\ pc'[v] = pc[v] /\ row'[v] = row[v]
                                  /\ reversalSeen'[v] = reversalSeen[v],
         late' \subseteq late \cup BackedMessages
  PROVE  BackedInv'
<1>1. Backed'
  BY BackedHalves, PTL
<1>2. ASSUME NEW v \in Workers \ {w} PROVE WorkerBacked(v)'
  <2>1. row[v].tx \in Txs
    BY DEF TypeOK, Rows
  <2> QED
    BY <2>1 DEF BackedInv, WorkerBacked, Grows
<1>3. ASSUME NEW m \in late' PROVE MessageBacked(m)'
  <2>1. m.tx \in Txs /\ MessageBacked(m)
    BY DEF TypeOK, Messages, BackedInv, BackedMessages
  <2> QED
    BY <2>1 DEF MessageBacked, Grows
<1> QED
  BY <1>1, <1>2, <1>3 DEF BackedInv

\* A step that touches neither the books nor a worker's position.
LEMMA QuietStepBacked ==
  ASSUME TypeOK, BackedInv, UNCHANGED <<books, late, pc, row, reversalSeen>>,
         StatusBacked'
  PROVE  BackedInv'
<1>1. Grows /\ BooksBacked'
  BY QuietGrows, BackedHalves DEF BackedInv
<1>2. Backed'
  BY <1>1, BackedHalves, PTL
<1>3. \A w \in Workers : WorkerBacked(w)'
  BY DEF BackedInv, WorkerBacked, books, Debited, Batched, Reversed, Credited
<1>4. \A m \in late' : MessageBacked(m)'
  BY DEF BackedInv, MessageBacked, books, Debited, Batched
<1> QED
  BY <1>2, <1>3, <1>4 DEF BackedInv

\* The request a worker sends at its program counter is backed.
LEMMA RequestBacked ==
  ASSUME TypeOK, BackedInv, NEW w \in Workers, pc[w] \in Kinds
  PROVE  MessageBacked(Request(w, pc[w]))
<1>1. /\ Request(w, pc[w]).tx = row[w].tx
      /\ Request(w, pc[w]).kind = pc[w]
  BY RequestType
<1> QED
  BY <1>1 DEF BackedInv, WorkerBacked, MessageBacked, Kinds

\* Posting, with any outcome.
LEMMA PostBacked ==
  ASSUME TypeOK, BackedInv, NEW w \in Workers, NEW k \in Kinds, NEW next,
         Post(w, k, next) \/ PostFails(w, k),
         \/ k = "debit" /\ next = "batch"
         \/ k = "batch" /\ next = "credit"
         \/ k = "reversal" /\ next = "markReversed"
         \/ k = "credit" /\ next = "complete"
  PROVE  BackedInv'
<1> DEFINE m == Request(w, k)
<1>0. PICK t \in Txs : t = row[w].tx
  BY DEF TypeOK, Rows
<1>1. m \in Messages /\ m.tx = t /\ m.kind = k /\ pc[w] = k
  BY <1>0, RequestType DEF Post, PostFails
<1>2. MessageBacked(m)
  BY <1>1, RequestBacked
<1>3. BooksOK /\ BooksBacked /\ StatusBacked
  BY BackedHalves DEF TypeOK, BooksOK, BackedInv
<1>4. Grows /\ BooksBacked'
  <2>1. (Accepts(m) /\ Serve(m)) \/ UNCHANGED books
    BY DEF Post, PostFails
  <2> HIDE DEF m
  <2> QED
    BY <1>1, <1>2, <1>3, <2>1, ServeGrows
<1>5. UNCHANGED <<status, row, reversalSeen>>
  BY DEF Post, PostFails, rowVars
<1>6. StatusBacked'
  BY <1>3, <1>4, <1>5 DEF StatusBacked, Grows
<1>10. k = "batch" => Debited(t)'
  BY <1>0, <1>1, <1>4 DEF BackedInv, WorkerBacked, Grows
<1>7. WorkerBacked(w)'
  <2>1. CASE Accepts(m) /\ Serve(m) /\ Goto(w, next)
    <3>1. pc'[w] = next
      BY <2>1 DEF Goto, TypeOK
    <3>2. /\ k = "debit" => Debited(t)'
          /\ k = "batch" => Batched(t)'
          /\ k = "reversal" => Reversed(t)'
          /\ k = "credit" => Credited(t)'
      <4> HIDE DEF m
      <4> QED
        BY <1>0, <1>1, <1>3, <2>1, ServeEffect
    <3>3. row'[w].tx = t
      BY <1>0, <1>5
    <3>4. /\ next = "batch" => Debited(t)'
          /\ next = "credit" => Debited(t)' /\ Batched(t)'
          /\ next = "markReversed" => Reversed(t)'
          /\ next = "complete" => Credited(t)'
      BY <1>10, <3>2
    <3> QED
      BY <3>1, <3>3, <3>4
         DEF WorkerBacked, Debited, Batched, Reversed, Credited
  <2>2. CASE OnError(w, k)
    <3>1. pc'[w] = IF k = "batch" THEN "reversal" ELSE "release"
      BY <2>2 DEF OnError, Goto, TypeOK
    <3> QED
      BY <1>0, <1>5, <1>10, <3>1 DEF WorkerBacked
  <2> QED
    BY <2>1, <2>2 DEF Post, PostFails
<1>8. \A v \in Workers \ {w} : pc'[v] = pc[v]
  BY DEF Post, PostFails, OnError, Goto, TypeOK
<1>9. late' \subseteq late \cup BackedMessages
  <2>1. m \in BackedMessages
    BY <1>1, <1>2 DEF BackedMessages
  <2>2. late' \subseteq late \cup {m}
    BY DEF Post, PostFails
  <2> QED
    BY <2>1, <2>2
<1> QED
  BY <1>4, <1>5, <1>6, <1>7, <1>8, <1>9, WorkerStepBacked

\* A step of a worker that leaves the books alone.
LEMMA CallFreeStepBacked ==
  ASSUME TypeOK, BackedInv, NEW w \in Workers, UNCHANGED books,
         StatusBacked', WorkerBacked(w)',
         \A v \in Workers \ {w} : /\ pc'[v] = pc[v] /\ row'[v] = row[v]
                                  /\ reversalSeen'[v] = reversalSeen[v],
         late' \subseteq late \cup BackedMessages
  PROVE  BackedInv'
BY QuietGrows, BackedHalves, WorkerStepBacked DEF BackedInv

\* execute() returns: the worker rests or takes its next row.
LEMMA ReturnBacked ==
  ASSUME TypeOK, NEW w \in Workers, NEW failed, Return(w, failed)
  PROVE  /\ WorkerBacked(w)'
         /\ \A v \in Workers \ {w} : pc'[v] = pc[v] /\ row'[v] = row[v]
<1>1. pc'[w] \in {"done", "idle", "acquire"}
  BY DEF Return, Goto, TypeOK
<1>2. \A v \in Workers \ {w} : pc'[v] = pc[v] /\ row'[v] = row[v]
  BY DEF Return, Goto, TypeOK
<1> QED
  BY <1>1, <1>2 DEF WorkerBacked

\* A terminal status is written for an outcome the books record.
LEMMA SettleBacked ==
  ASSUME TypeOK, StatusBacked, UNCHANGED books, NEW t \in Txs,
         NEW s \in Statuses, Settle(t, s),
         s = "COMPLETED" => Credited(t), s = "REVERSED" => Reversed(t)
  PROVE  StatusBacked'
BY DEF TypeOK, StatusBacked, Settle, books, Credited, Reversed

LEMMA BackedInit == Init => BackedInv
<1> SUFFICES ASSUME Init PROVE BackedInv
  OBVIOUS
<1>1. Backed
  BY DEF Init, Backed, Debited, Reversed, Credited, Kinds
<1>2. \A w \in Workers : WorkerBacked(w)
  BY DEF Init, WorkerBacked
<1> QED
  BY <1>1, <1>2 DEF Init, BackedInv

LEMMA BackedStep == TypeOK /\ BackedInv /\ [Next]_vars => BackedInv'
<1> SUFFICES ASSUME TypeOK, BackedInv, [Next]_vars PROVE BackedInv'
  OBVIOUS
<1>0. BooksBacked /\ StatusBacked
  BY BackedHalves DEF BackedInv
<1>1. ASSUME UNCHANGED <<status, books>> PROVE StatusBacked'
  BY <1>0, <1>1 DEF StatusBacked, books, Credited, Reversed
<1>2. CASE UNCHANGED vars
  BY <1>1, <1>2, QuietStepBacked DEF vars, rowVars, workVars
<1>3. ASSUME NEW t \in Txs,
             Start(t) \/ FxWriteFails(t) \/ Age(t) \/ ExpireLease(t)
             \/ LapseLease(t)
      PROVE  BackedInv'
  <2>0. t \in Workers
    BY DEF Workers
  <2>1. CASE Age(t) \/ ExpireLease(t) \/ LapseLease(t)
    BY <1>1, <2>1, QuietStepBacked
       DEF Age, ExpireLease, LapseLease, rowVars, workVars
  <2>2. CASE Start(t) \/ FxWriteFails(t)
    <3>1. /\ UNCHANGED <<books, late, reversalSeen>>
          /\ \A v \in Workers \ {t} : pc'[v] = pc[v] /\ row'[v] = row[v]
      BY <2>2 DEF Start, InsertRow, ConsumeQuote, WriteDestination, MarkFailed,
                  FxWriteFails, Goto, TypeOK
    <3>2. pc'[t] \in FxSteps \cup {"acquire", "done"}
      BY <2>0, <2>2 DEF Start, InsertRow, ConsumeQuote, WriteDestination,
                  MarkFailed, FxWriteFails, Goto, TypeOK, FxSteps
    <3>3. WorkerBacked(t)'
      BY <3>2 DEF WorkerBacked, FxSteps
    <3>4. StatusBacked'
      <4>1. \/ status' = status
            \/ status' = [status EXCEPT ![t] = "PROCESSING"]
            \/ status' = [status EXCEPT ![t] = "FAILED"]
        BY <2>2 DEF Start, InsertRow, ConsumeQuote, WriteDestination,
                    MarkFailed, FxWriteFails, rowVars
      <4> QED
        BY <1>0, <3>1, <4>1
           DEF TypeOK, StatusBacked, books, Credited, Reversed
    <3> QED
      BY <2>0, <3>1, <3>3, <3>4, CallFreeStepBacked
  <2> QED
    BY <1>3, <2>1, <2>2
<1>4. ASSUME NEW w \in Workers, Execute(w) \/ Fail(w) PROVE BackedInv'
  <2>0. PICK t \in Txs : t = row[w].tx
    BY DEF TypeOK, Rows
  <2>00. WorkerBacked(w)
    BY DEF BackedInv
  <2>1. CASE AcquireLease(w) \/ FailOpen(w) \/ ReadStatus(w) \/ ReadFails(w)
    <3>1. /\ UNCHANGED <<status, books, late, row, reversalSeen>>
          /\ \A v \in Workers \ {w} : pc'[v] = pc[v]
      BY <2>1 DEF AcquireLease, FailOpen, ReadStatus, ReadFails, Throw, Goto,
                  TypeOK, rowVars
    <3>2. pc'[w] \in {"status", "getReversal", "release"}
      BY <2>1 DEF AcquireLease, FailOpen, ReadStatus, ReadFails, Throw, Goto,
                  TypeOK
    <3>3. WorkerBacked(w)'
      BY <3>2 DEF WorkerBacked
    <3> QED
      BY <1>1, <3>1, <3>3, CallFreeStepBacked
  <2>2. CASE Contended(w) \/ ReleaseLease(w)
    <3>1. UNCHANGED <<status, books, late, reversalSeen>>
      BY <2>2 DEF Contended, ReleaseLease, rowVars
    <3>2. \E failed : Return(w, failed)
      BY <2>2 DEF Contended, ReleaseLease
    <3> QED
      BY <1>1, <3>1, <3>2, ReturnBacked, CallFreeStepBacked
  <2>3. CASE GetReversal(w)
    <3>1. /\ UNCHANGED <<status, books, late, row>>
          /\ \A v \in Workers \ {w} : /\ pc'[v] = pc[v]
                                      /\ reversalSeen'[v] = reversalSeen[v]
      BY <2>3 DEF GetReversal, Goto, TypeOK, rowVars
    <3>2. pc'[w] = "getBatch" /\ (reversalSeen'[w] => Reversed(row[w].tx))
      BY <2>3 DEF GetReversal, Goto, TypeOK, Reversed
    <3>3. WorkerBacked(w)'
      BY <3>1, <3>2 DEF WorkerBacked, books, Reversed
    <3> QED
      BY <1>1, <3>1, <3>3, CallFreeStepBacked
  <2>4. CASE GetBatch(w)
    <3>1. /\ UNCHANGED <<status, books, late, row>>
          /\ \A v \in Workers \ {w} : /\ pc'[v] = pc[v]
                                      /\ reversalSeen'[v] = reversalSeen[v]
      BY <2>4 DEF GetBatch, Goto, TypeOK, rowVars
    <3>2. /\ pc'[w] \in {"markReversed", "credit", "debit"}
          /\ pc'[w] = "markReversed" => Reversed(t)
          /\ pc'[w] = "credit" => Debited(t) /\ Batched(t)
      BY <1>0, <2>0, <2>00, <2>4
         DEF GetBatch, Goto, TypeOK, BooksBacked, WorkerBacked, Batched
    <3>3. WorkerBacked(w)'
      BY <2>0, <3>1, <3>2
         DEF WorkerBacked, books, Debited, Batched, Reversed
    <3> QED
      BY <1>1, <3>1, <3>3, CallFreeStepBacked
  <2>5. CASE \/ DebitSender(w) \/ CreateLedger(w) \/ ReverseDebit(w)
             \/ CreditRecipient(w) \/ \E k \in Kinds : PostFails(w, k)
    <3>1. \E k \in Kinds : \E next :
            /\ Post(w, k, next) \/ PostFails(w, k)
            /\ \/ k = "debit" /\ next = "batch"
               \/ k = "batch" /\ next = "credit"
               \/ k = "reversal" /\ next = "markReversed"
               \/ k = "credit" /\ next = "complete"
      BY <2>5 DEF DebitSender, CreateLedger, ReverseDebit, CreditRecipient,
                  Kinds
    <3> QED
      BY <3>1, PostBacked
  <2>6. CASE MarkCompleted(w) \/ MarkReversed(w) \/ WriteFails(w)
    <3>1. /\ UNCHANGED <<books, late, row, reversalSeen>>
          /\ \A v \in Workers \ {w} : pc'[v] = pc[v]
          /\ pc'[w] = "release"
      BY <2>6 DEF MarkCompleted, MarkReversed, WriteFails, Throw, Goto, TypeOK
    <3>2. \/ UNCHANGED status
          \/ pc[w] = "complete" /\ Settle(t, "COMPLETED")
          \/ pc[w] = "markReversed" /\ Settle(t, "REVERSED")
      BY <2>0, <2>6 DEF MarkCompleted, MarkReversed, WriteFails, Complete
    <3>3. /\ pc[w] = "complete" => Credited(t)
          /\ pc[w] = "markReversed" => Reversed(t)
      BY <2>0, <2>00 DEF WorkerBacked
    <3>4. StatusBacked'
      BY <1>0, <1>1, <3>1, <3>2, <3>3, SettleBacked DEF Statuses
    <3>5. WorkerBacked(w)'
      BY <3>1 DEF WorkerBacked
    <3> QED
      BY <3>1, <3>4, <3>5, CallFreeStepBacked
  <2>7. CASE Crash(w)
    <3>1. /\ UNCHANGED <<status, books, row>>
          /\ \A v \in Workers \ {w} : /\ pc'[v] = pc[v]
                                      /\ reversalSeen'[v] = reversalSeen[v]
          /\ pc'[w] \in {"done", "idle"}
      BY <2>7 DEF Crash, Goto, TypeOK, rowVars
    <3>2. late' \subseteq late \cup BackedMessages
      <4>1. \/ late' = late
            \/ pc[w] \in Kinds /\ late' = late \cup {Request(w, pc[w])}
        BY <2>7 DEF Crash
      <4>2. pc[w] \in Kinds => Request(w, pc[w]) \in BackedMessages
        BY RequestType, RequestBacked DEF BackedMessages
      <4> QED
        BY <4>1, <4>2
    <3>3. WorkerBacked(w)'
      BY <3>1 DEF WorkerBacked
    <3> QED
      BY <1>1, <3>1, <3>2, <3>3, CallFreeStepBacked
  <2> QED
    BY <1>4, <2>1, <2>2, <2>3, <2>4, <2>5, <2>6, <2>7 DEF Execute, Fail
<1>5. ASSUME NEW r \in Recoverers, RecoveryTick(r) \/ IdleTick(r)
      PROVE  BackedInv'
  <2>1. CASE IdleTick(r)
    BY <1>2, <2>1 DEF IdleTick
  <2>2. CASE RecoveryTick(r)
    <3>0. r \in Workers
      BY DEF Workers
    <3>1. /\ UNCHANGED <<status, books, late, reversalSeen>>
          /\ \A v \in Workers \ {r} : pc'[v] = pc[v] /\ row'[v] = row[v]
          /\ pc'[r] = "acquire"
      BY <2>2, <3>0 DEF RecoveryTick, Goto, TypeOK, rowVars
    <3>2. WorkerBacked(r)'
      BY <3>1 DEF WorkerBacked
    <3> QED
      BY <1>1, <3>0, <3>1, <3>2, CallFreeStepBacked
  <2> QED
    BY <1>5, <2>1, <2>2
<1>6. ASSUME NEW m \in late, Deliver(m) PROVE BackedInv'
  <2>1. m \in Messages /\ MessageBacked(m) /\ BooksOK
    BY DEF TypeOK, BooksOK, BackedInv
  <2>2. Grows /\ BooksBacked'
    BY <1>0, <1>6, <2>1, ServeGrows DEF Deliver
  <2>3. UNCHANGED <<status, pc, row, reversalSeen>> /\ late' \subseteq late
    BY <1>6 DEF Deliver, rowVars, workVars
  <2>4. StatusBacked'
    BY <1>0, <2>2, <2>3 DEF StatusBacked, Grows
  <2>5. PICK w \in Workers : TRUE
    BY DEF Workers
  <2>6. WorkerBacked(w)'
    <3>1. row[w].tx \in Txs
      BY DEF TypeOK, Rows
    <3> QED
      BY <2>2, <2>3, <3>1 DEF BackedInv, WorkerBacked, Grows
  <2> QED
    BY <2>2, <2>3, <2>4, <2>6, WorkerStepBacked
<1> QED
  BY <1>2, <1>3, <1>4, <1>5, <1>6 DEF Next

\* Under every fault - lost answers, crashes, lapsed leases, no Redis, calls
\* landing late - nothing is paid or refunded that was not taken first, and no
\* status claims what the account and the ledger do not record.
THEOREM BackedAlways == Spec => []Backed
<1>1. Init => TypeOK /\ BackedInv
  BY TypeInit, BackedInit
<1>2. TypeOK /\ BackedInv /\ [Next]_vars => (TypeOK /\ BackedInv)'
  BY TypeStep, BackedStep
<1>3. BackedInv => Backed
  BY DEF BackedInv
<1> QED
  BY <1>1, <1>2, <1>3, PTL DEF Spec

-----------------------------------------------------------------------------
(* With the lease, no money is created.                                    *)

\* Two running workers have different rows.
LEMMA Exclusion ==
  ASSUME ExclusiveInv, NEW v \in Workers, NEW w \in Workers,
         Running(v), Running(w), row[v].tx = row[w].tx
  PROVE  v = w
BY DEF ExclusiveInv, WorkerExclusive

\* A worker that did not move keeps its view if nobody moved its row's money.
LEMMA ViewKept ==
  ASSUME NEW v \in Workers, WorkerExclusive(v),
         pc'[v] = pc[v], row'[v] = row[v], reversalSeen'[v] = reversalSeen[v],
         NEW t, t = row[v].tx,
         Running(v) =>
           /\ lease'[t] = lease[t]
           /\ Reversed(t)' <=> Reversed(t)
           /\ pc[v] \in {"debit", "batch", "reversal"} =>
                /\ Credited(t)' => Credited(t)
                /\ CreditUnderway(t)' => CreditUnderway(t)
  PROVE  WorkerExclusive(v)'
<1>1. CASE ~Running(v)
  BY <1>1 DEF WorkerExclusive, Running, RunSteps, Kinds
<1>2. CASE Running(v)
  BY <1>2 DEF WorkerExclusive, Running, Reversed, Credited, CreditUnderway
<1> QED BY <1>1, <1>2

\* A worker's step without a call: its own view, and the others' leases.
LEMMA CallFreeStepExclusive ==
  ASSUME TypeOK, ExclusiveInv, NEW w \in Workers, UNCHANGED <<books, late>>,
         WorkerExclusive(w)',
         \A v \in Workers \ {w} :
           /\ pc'[v] = pc[v] /\ row'[v] = row[v]
           /\ reversalSeen'[v] = reversalSeen[v]
           /\ Running(v) => lease'[row[v].tx] = lease[row[v].tx]
  PROVE  ExclusiveInv'
<1>1. NoMoneyCreated'
  BY DEF ExclusiveInv, NoMoneyCreated, books, Credited, Reversed
<1>2. ASSUME NEW v \in Workers PROVE WorkerExclusive(v)'
  <2>1. PICK t \in Txs : t = row[v].tx
    BY DEF TypeOK, Rows
  <2>2. /\ Reversed(t)' <=> Reversed(t)
        /\ Credited(t)' <=> Credited(t)
        /\ CreditUnderway(t)' <=> CreditUnderway(t)
    BY DEF books, Credited, Reversed, CreditUnderway
  <2>3. CASE v # w
    BY <2>1, <2>2, <2>3, ViewKept DEF ExclusiveInv
  <2> QED
    BY <2>3
<1>3. ASSUME NEW m \in late' PROVE MessageExclusive(m)'
  BY DEF ExclusiveInv, MessageExclusive, books, Reversed
<1> QED
  BY <1>1, <1>2, <1>3 DEF ExclusiveInv

\* A worker's view asks nothing outside runExecute().
LEMMA RestingExclusive ==
  ASSUME NEW w \in Workers, ~Running(w)'
  PROVE  WorkerExclusive(w)'
BY DEF WorkerExclusive, Running, RunSteps, Kinds

\* Posting, with any outcome.
LEMMA PostExclusive ==
  ASSUME LeaseHolds, TypeOK, BackedInv, ExclusiveInv,
         NEW w \in Workers, NEW k \in Kinds, NEW next,
         Post(w, k, next) \/ PostFails(w, k),
         \/ k = "debit" /\ next = "batch"
         \/ k = "batch" /\ next = "credit"
         \/ k = "reversal" /\ next = "markReversed"
         \/ k = "credit" /\ next = "complete"
  PROVE  ExclusiveInv'
<1> DEFINE m == Request(w, k)
<1>0. PICK t \in Txs : t = row[w].tx
  BY DEF TypeOK, Rows
<1>1. m \in Messages /\ m.tx = t /\ m.kind = k /\ pc[w] = k
  BY <1>0, RequestType DEF Post, PostFails
<1>2. Running(w) /\ WorkerExclusive(w)
  BY <1>1 DEF Running, RunSteps, Kinds, ExclusiveInv
<1>3. /\ k \in {"debit", "batch", "credit"} => ~Reversed(t)
      /\ k \in {"debit", "batch", "reversal"} =>
           ~Credited(t) /\ ~CreditUnderway(t)
  BY <1>0, <1>1, <1>2 DEF WorkerExclusive
<1>4. /\ UNCHANGED <<lease, row, reversalSeen>>
      /\ \A v \in Workers \ {w} : pc'[v] = pc[v]
  BY DEF Post, PostFails, OnError, Goto, TypeOK
<1>5. \A u \in Txs :
        /\ Reversed(u)' => Reversed(u) \/ (u = t /\ k = "reversal")
        /\ Reversed(u) => Reversed(u)'
        /\ Credited(u)' => Credited(u) \/ (u = t /\ k = "credit")
  <2>1. CASE UNCHANGED books
    BY <2>1 DEF books, Reversed, Credited
  <2>2. CASE Accepts(m) /\ Serve(m)
    <3>1. BooksOK
      BY DEF TypeOK, BooksOK
    <3> HIDE DEF m
    <3> QED
      BY <1>1, <2>2, <3>1, ServeEffect
  <2> QED
    BY <2>1, <2>2 DEF Post, PostFails
<1>6. late' = late \/ (late' = late \cup {m} /\ k # "reversal")
  <2>1. /\ late' = late \/ late' = late \cup {m}
        /\ late' = late \/ k \in LateKinds
    BY DEF Post, PostFails
  <2>2. "reversal" \notin LateKinds
    BY DEF LeaseHolds
  <2> HIDE DEF m
  <2> QED
    BY <2>1, <2>2
<1>7. NoMoneyCreated'
  BY <1>3, <1>5 DEF ExclusiveInv, NoMoneyCreated
<1>8. \A u \in Txs : CreditUnderway(u)' =>
        CreditUnderway(u) \/ (u = t /\ k = "credit")
  BY <1>1, <1>6 DEF CreditUnderway
<1>9. WorkerExclusive(w)'
  <2>1. pc'[w] = next \/ pc'[w] = IF k = "batch" THEN "reversal" ELSE "release"
    BY DEF Post, PostFails, OnError, Goto, TypeOK
  <2>2. /\ k \in {"debit", "batch"} => ~Reversed(t)'
        /\ k \in {"debit", "batch"} => ~Credited(t)' /\ ~CreditUnderway(t)'
    BY <1>3, <1>5, <1>8
  <2>3. row'[w].tx = t /\ lease'[t] = w
    BY <1>0, <1>2, <1>4 DEF WorkerExclusive
  <2>4. /\ pc'[w] # "getBatch"
        /\ pc'[w] \in {"debit", "batch", "credit"} => ~Reversed(t)'
        /\ pc'[w] \in {"debit", "batch", "reversal"} =>
             ~Credited(t)' /\ ~CreditUnderway(t)'
    BY <2>1, <2>2
  <2> QED
    BY <2>3, <2>4 DEF WorkerExclusive, Reversed, Credited, CreditUnderway
<1>10. ASSUME NEW v \in Workers \ {w} PROVE WorkerExclusive(v)'
  <2>1. PICK u \in Txs : u = row[v].tx
    BY DEF TypeOK, Rows
  <2>2. Running(v) => u # t
    BY <1>0, <1>2, <2>1, Exclusion
  <2> QED
    BY <1>4, <1>5, <1>8, <2>1, <2>2, ViewKept DEF ExclusiveInv
<1>11. ASSUME NEW n \in late' PROVE MessageExclusive(n)'
  <2>1. CASE n \in late
    <3>1. n.tx \in Txs /\ MessageExclusive(n)
      BY <2>1 DEF TypeOK, Messages, ExclusiveInv
    <3>2. n.tx = t /\ n.kind = "credit" => k # "reversal"
      BY <1>3, <2>1 DEF CreditUnderway
    <3> QED
      BY <1>5, <3>1, <3>2 DEF MessageExclusive
  <2>2. CASE n = m /\ k # "reversal"
    <3>1. n.tx = t /\ n.kind = k
      BY <1>1, <2>2
    <3>2. k = "credit" => ~Reversed(t)'
      BY <1>3, <1>5
    <3> QED
      BY <2>2, <3>1, <3>2 DEF MessageExclusive, Reversed
  <2> QED
    BY <1>6, <2>1, <2>2
<1> QED
  BY <1>7, <1>9, <1>10, <1>11 DEF ExclusiveInv

LEMMA ReturnExclusive ==
  ASSUME TypeOK, NEW w \in Workers, NEW failed, Return(w, failed)
  PROVE  /\ WorkerExclusive(w)'
         /\ \A v \in Workers \ {w} : pc'[v] = pc[v] /\ row'[v] = row[v]
<1>1. pc'[w] \in {"done", "idle", "acquire"}
  BY DEF Return, Goto, TypeOK
<1>2. WorkerExclusive(w)'
  BY <1>1, RestingExclusive DEF Running, RunSteps, Kinds
<1> QED
  BY <1>2 DEF Return, Goto, TypeOK

\* A crash orphans the worker's lease; what it was sending may still land.
LEMMA CrashExclusive ==
  ASSUME LeaseHolds, TypeOK, ExclusiveInv, NEW w \in Workers, Crash(w)
  PROVE  ExclusiveInv'
<1> DEFINE m == Request(w, pc[w])
<1>0. PICK t \in Txs : t = row[w].tx
  BY DEF TypeOK, Rows
<1>1. /\ UNCHANGED <<books, row>>
      /\ \A v \in Workers \ {w} : /\ pc'[v] = pc[v]
                                  /\ reversalSeen'[v] = reversalSeen[v]
      /\ pc'[w] \in {"done", "idle"}
  BY DEF Crash, Goto, TypeOK
<1>2. \/ late' = late
      \/ pc[w] \in Kinds \ {"reversal"} /\ late' = late \cup {m}
  <2>1. /\ late' = late \/ late' = late \cup {m}
        /\ late' = late \/ pc[w] \in LateKinds
    BY DEF Crash
  <2>2. LateKinds \subseteq Kinds \ {"reversal"}
    BY DEF LeaseHolds
  <2> HIDE DEF m
  <2> QED
    BY <2>1, <2>2
<1>3. pc[w] \in Kinds => m.tx = t /\ m.kind = pc[w] /\ Running(w)
  BY <1>0, RequestType DEF Running, RunSteps, Kinds
<1>4. \A u \in Txs : /\ Reversed(u)' <=> Reversed(u)
                     /\ Credited(u)' <=> Credited(u)
  BY <1>1 DEF books, Reversed, Credited
<1>5. \A u \in Txs : CreditUnderway(u)' =>
        CreditUnderway(u) \/ (u = t /\ Running(w))
  <2> HIDE DEF m
  <2> QED
    BY <1>2, <1>3 DEF CreditUnderway
<1>6. WorkerExclusive(w)'
  BY <1>1, RestingExclusive DEF Running, RunSteps, Kinds
<1>7. ASSUME NEW v \in Workers \ {w} PROVE WorkerExclusive(v)'
  <2>1. PICK u \in Txs : u = row[v].tx
    BY DEF TypeOK, Rows
  <2>2. Running(v) /\ Running(w) => u # t
    BY <1>0, <2>1, Exclusion
  <2>3. Running(v) => lease'[u] = lease[u]
    BY <2>1 DEF ExclusiveInv, WorkerExclusive, Crash, TypeOK
  <2> QED
    BY <1>1, <1>4, <1>5, <2>1, <2>2, <2>3, ViewKept DEF ExclusiveInv
<1>8. ASSUME NEW n \in late' PROVE MessageExclusive(n)'
  <2>1. CASE n \in late
    BY <1>1, <2>1 DEF ExclusiveInv, MessageExclusive, books, Reversed
  <2>2. CASE n = m /\ pc[w] \in Kinds \ {"reversal"}
    <3>1. n.tx = t /\ n.kind = pc[w]
      BY <1>3, <2>2
    <3>2. pc[w] = "credit" => ~Reversed(t)'
      BY <1>0, <1>4 DEF ExclusiveInv, WorkerExclusive
    <3> QED
      BY <2>2, <3>1, <3>2 DEF MessageExclusive, Reversed
  <2> QED
    BY <1>2, <2>1, <2>2
<1>9. NoMoneyCreated'
  BY <1>4 DEF ExclusiveInv, NoMoneyCreated
<1> QED
  BY <1>6, <1>7, <1>8, <1>9 DEF ExclusiveInv

\* A late request lands: never a reversal, and a credit only where nobody is
\* about to refund.
LEMMA DeliverExclusive ==
  ASSUME TypeOK, BackedInv, ExclusiveInv, NEW m \in late, Deliver(m)
  PROVE  ExclusiveInv'
<1>1. m \in Messages /\ m.tx \in Txs /\ MessageExclusive(m)
  BY DEF TypeOK, Messages, ExclusiveInv
<1>2. /\ UNCHANGED <<lease, pc, row, reversalSeen>>
      /\ late' \subseteq late
  BY DEF Deliver, workVars
<1>3. \A u \in Txs :
        /\ Reversed(u)' <=> Reversed(u)
        /\ Credited(u)' => Credited(u) \/ (u = m.tx /\ m.kind = "credit")
        /\ CreditUnderway(u)' => CreditUnderway(u)
  <2>0. \A u \in Txs : CreditUnderway(u)' => CreditUnderway(u)
    BY <1>2 DEF CreditUnderway
  <2>1. CASE UNCHANGED books
    BY <2>0, <2>1 DEF books, Reversed, Credited
  <2>2. CASE Accepts(m) /\ Serve(m)
    <3>1. BooksOK
      BY DEF TypeOK, BooksOK
    <3> QED
      BY <1>1, <2>0, <2>2, <3>1, ServeEffect DEF MessageExclusive
  <2> QED
    BY <2>1, <2>2 DEF Deliver
<1>4. NoMoneyCreated'
  BY <1>1, <1>3 DEF ExclusiveInv, NoMoneyCreated, MessageExclusive
<1>5. ASSUME NEW v \in Workers PROVE WorkerExclusive(v)'
  <2>1. PICK u \in Txs : u = row[v].tx
    BY DEF TypeOK, Rows
  <2>2. pc[v] \in {"debit", "batch", "reversal"} /\ m.kind = "credit"
          => u # m.tx
    BY <2>1 DEF ExclusiveInv, WorkerExclusive, CreditUnderway
  <2> QED
    BY <1>2, <1>3, <2>1, <2>2, ViewKept DEF ExclusiveInv
<1>6. ASSUME NEW n \in late' PROVE MessageExclusive(n)'
  <2>1. n.tx \in Txs /\ MessageExclusive(n)
    BY <1>2 DEF TypeOK, Messages, ExclusiveInv
  <2> QED
    BY <1>3, <2>1 DEF MessageExclusive
<1> QED
  BY <1>4, <1>5, <1>6 DEF ExclusiveInv

LEMMA ExclusiveInit == Init => ExclusiveInv
<1> SUFFICES ASSUME Init PROVE ExclusiveInv
  OBVIOUS
<1>1. NoMoneyCreated
  BY DEF Init, NoMoneyCreated, Credited, Kinds
<1>2. \A w \in Workers : WorkerExclusive(w)
  BY DEF Init, WorkerExclusive, Running, RunSteps, Kinds
<1> QED
  BY <1>1, <1>2 DEF Init, ExclusiveInv

LEMMA ExclusiveStep ==
  LeaseHolds /\ TypeOK /\ BackedInv /\ ExclusiveInv /\ [Next]_vars
    => ExclusiveInv'
<1> SUFFICES ASSUME LeaseHolds, TypeOK, BackedInv, ExclusiveInv, [Next]_vars
             PROVE  ExclusiveInv'
  OBVIOUS
<1>0. ~Fault("outage") /\ ~Fault("lapse")
  BY DEF LeaseHolds, Fault
<1>1. ASSUME UNCHANGED <<books, late, pc, row, reversalSeen>>,
             \A t \in Txs : lease[t] \in Workers => lease'[t] = lease[t]
      PROVE  ExclusiveInv'
  <2>1. PICK w \in Workers : TRUE
    BY DEF Workers
  <2>2. \A v \in Workers : Running(v) => lease'[row[v].tx] = lease[row[v].tx]
    BY <1>1 DEF ExclusiveInv, WorkerExclusive, TypeOK, Rows
  <2>3. WorkerExclusive(w)'
    <3>1. PICK t \in Txs : t = row[w].tx
      BY DEF TypeOK, Rows
    <3>2. /\ Reversed(t)' <=> Reversed(t)
          /\ Credited(t)' <=> Credited(t)
          /\ CreditUnderway(t)' <=> CreditUnderway(t)
      BY <1>1 DEF books, Credited, Reversed, CreditUnderway
    <3> QED
      BY <1>1, <2>2, <3>1, <3>2, ViewKept DEF ExclusiveInv
  <2> QED
    BY <1>1, <2>2, <2>3, CallFreeStepExclusive
<1>2. CASE UNCHANGED vars
  BY <1>1, <1>2 DEF vars, workVars
<1>3. ASSUME NEW t \in Txs,
             Start(t) \/ FxWriteFails(t) \/ Age(t) \/ ExpireLease(t)
             \/ LapseLease(t)
      PROVE  ExclusiveInv'
  <2>1. CASE Age(t) \/ ExpireLease(t) \/ LapseLease(t)
    <3>1. UNCHANGED <<books, late, pc, row, reversalSeen>>
      BY <2>1 DEF Age, ExpireLease, LapseLease, workVars
    <3>2. \A u \in Txs : lease[u] \in Workers => lease'[u] = lease[u]
      BY <1>0, <2>1 DEF Age, ExpireLease, LapseLease, TypeOK
    <3> QED
      BY <1>1, <3>1, <3>2
  <2>2. CASE Start(t) \/ FxWriteFails(t)
    <3>0. t \in Workers
      BY DEF Workers
    <3>1. /\ UNCHANGED <<books, late, lease, reversalSeen>>
          /\ \A v \in Workers \ {t} : pc'[v] = pc[v] /\ row'[v] = row[v]
      BY <2>2 DEF Start, InsertRow, ConsumeQuote, WriteDestination, MarkFailed,
                  FxWriteFails, Goto, TypeOK
    <3>2. pc'[t] \in FxSteps \cup {"acquire", "done"}
      BY <2>2, <3>0 DEF Start, InsertRow, ConsumeQuote, WriteDestination,
                  MarkFailed, FxWriteFails, Goto, TypeOK, FxSteps
    <3>3. WorkerExclusive(t)'
      BY <3>0, <3>2, RestingExclusive DEF Running, RunSteps, Kinds, FxSteps
    <3> QED
      BY <3>0, <3>1, <3>3, CallFreeStepExclusive
  <2> QED
    BY <1>3, <2>1, <2>2
<1>4. ASSUME NEW w \in Workers, Execute(w) \/ Fail(w) PROVE ExclusiveInv'
  <2>0. PICK t \in Txs : t = row[w].tx
    BY DEF TypeOK, Rows
  <2>00. WorkerExclusive(w) /\ WorkerBacked(w)
    BY DEF ExclusiveInv, BackedInv
  <2>1. CASE AcquireLease(w)
    <3>1. /\ UNCHANGED <<books, late, row, reversalSeen>>
          /\ \A v \in Workers \ {w} : pc'[v] = pc[v]
          /\ pc'[w] = "status"
          /\ lease[t] = NoOne /\ lease' = [lease EXCEPT ![t] = w]
      BY <2>0, <2>1 DEF AcquireLease, Goto, TypeOK
    <3>2. WorkerExclusive(w)'
      BY <2>0, <3>1 DEF WorkerExclusive, TypeOK
    <3>3. \A v \in Workers \ {w} :
            Running(v) => lease'[row[v].tx] = lease[row[v].tx]
      BY <3>1 DEF ExclusiveInv, WorkerExclusive, TypeOK, Rows
    <3> QED
      BY <3>1, <3>2, <3>3, CallFreeStepExclusive
  <2>2. CASE Contended(w)
    <3>1. UNCHANGED <<books, late, lease, reversalSeen>>
      BY <2>2 DEF Contended
    <3>2. \E failed : Return(w, failed)
      BY <2>2 DEF Contended
    <3>3. /\ WorkerExclusive(w)'
          /\ \A v \in Workers \ {w} : pc'[v] = pc[v] /\ row'[v] = row[v]
      BY <3>2, ReturnExclusive
    <3> QED
      BY <3>1, <3>3, CallFreeStepExclusive
  <2>3. CASE ReleaseLease(w)
    <3>1. UNCHANGED <<books, late, reversalSeen>>
      BY <2>3 DEF ReleaseLease
    <3>2. Return(w, threw[w])
      BY <2>3 DEF ReleaseLease
    <3>3. /\ WorkerExclusive(w)'
          /\ \A v \in Workers \ {w} : pc'[v] = pc[v] /\ row'[v] = row[v]
      BY <3>2, ReturnExclusive
    <3>4. \A u \in Txs : lease[u] # w => lease'[u] = lease[u]
      BY <2>3 DEF ReleaseLease, TypeOK
    <3>5. \A v \in Workers \ {w} :
            Running(v) => lease'[row[v].tx] = lease[row[v].tx]
      BY <3>4 DEF ExclusiveInv, WorkerExclusive, TypeOK, Rows
    <3> QED
      BY <3>1, <3>3, <3>5, CallFreeStepExclusive
  <2>4. CASE \/ ReadStatus(w) \/ ReadFails(w) \/ MarkCompleted(w)
             \/ MarkReversed(w) \/ WriteFails(w)
    <3>1. /\ UNCHANGED <<books, late, lease, row, reversalSeen>>
          /\ \A v \in Workers \ {w} : pc'[v] = pc[v]
          /\ pc'[w] \in {"getReversal", "release"}
          /\ Running(w)
      BY <2>4 DEF ReadStatus, ReadFails, MarkCompleted, MarkReversed,
                  WriteFails, Throw, Goto, TypeOK, Running, RunSteps
    <3>2. WorkerExclusive(w)'
      BY <2>00, <3>1 DEF WorkerExclusive, Running
    <3> QED
      BY <3>1, <3>2, CallFreeStepExclusive
  <2>5. CASE GetReversal(w)
    <3>1. /\ UNCHANGED <<books, late, lease, row>>
          /\ \A v \in Workers \ {w} : /\ pc'[v] = pc[v]
                                      /\ reversalSeen'[v] = reversalSeen[v]
          /\ pc'[w] = "getBatch" /\ Running(w)
          /\ reversalSeen'[w] <=> Reversed(t)
      BY <2>0, <2>5 DEF GetReversal, Goto, TypeOK, Running, RunSteps, Reversed
    <3>2. WorkerExclusive(w)'
      BY <2>0, <2>00, <3>1 DEF WorkerExclusive, books, Reversed
    <3> QED
      BY <3>1, <3>2, CallFreeStepExclusive
  <2>6. CASE GetBatch(w)
    <3>1. /\ UNCHANGED <<books, late, lease, row>>
          /\ \A v \in Workers \ {w} : /\ pc'[v] = pc[v]
                                      /\ reversalSeen'[v] = reversalSeen[v]
          /\ pc[w] = "getBatch" /\ Running(w)
          /\ pc'[w] \in {"markReversed", "credit", "debit"}
          /\ pc'[w] # "markReversed" => ~reversalSeen[w]
          /\ pc'[w] = "debit" => ~Batched(t)
      BY <2>0, <2>6 DEF GetBatch, Goto, TypeOK, Running, RunSteps, Batched
    <3>2. ~Batched(t) => ~Credited(t) /\ ~CreditUnderway(t)
      BY DEF BackedInv, Backed, MessageBacked, CreditUnderway, Batched
    <3>3. WorkerExclusive(w)'
      BY <2>0, <2>00, <3>1, <3>2
         DEF WorkerExclusive, books, Reversed, Credited, CreditUnderway
    <3> QED
      BY <3>1, <3>3, CallFreeStepExclusive
  <2>7. CASE \/ DebitSender(w) \/ CreateLedger(w) \/ ReverseDebit(w)
             \/ CreditRecipient(w) \/ \E k \in Kinds : PostFails(w, k)
    <3>1. \E k \in Kinds : \E next :
            /\ Post(w, k, next) \/ PostFails(w, k)
            /\ \/ k = "debit" /\ next = "batch"
               \/ k = "batch" /\ next = "credit"
               \/ k = "reversal" /\ next = "markReversed"
               \/ k = "credit" /\ next = "complete"
      BY <2>7 DEF DebitSender, CreateLedger, ReverseDebit, CreditRecipient,
                  Kinds
    <3> QED
      BY <3>1, PostExclusive
  <2>8. CASE Crash(w)
    BY <2>8, CrashExclusive
  <2> QED
    BY <1>0, <1>4, <2>1, <2>2, <2>3, <2>4, <2>5, <2>6, <2>7, <2>8
       DEF Execute, Fail, FailOpen
<1>5. ASSUME NEW r \in Recoverers, RecoveryTick(r) \/ IdleTick(r)
      PROVE  ExclusiveInv'
  <2>1. CASE IdleTick(r)
    BY <1>2, <2>1 DEF IdleTick
  <2>2. CASE RecoveryTick(r)
    <3>0. r \in Workers
      BY DEF Workers
    <3>1. /\ UNCHANGED <<books, late, lease, reversalSeen>>
          /\ \A v \in Workers \ {r} : pc'[v] = pc[v] /\ row'[v] = row[v]
          /\ pc'[r] = "acquire"
      BY <2>2, <3>0 DEF RecoveryTick, Goto, TypeOK
    <3>2. WorkerExclusive(r)'
      BY <3>0, <3>1, RestingExclusive DEF Running, RunSteps, Kinds
    <3> QED
      BY <3>0, <3>1, <3>2, CallFreeStepExclusive
  <2> QED
    BY <1>5, <2>1, <2>2
<1>6. ASSUME NEW m \in late, Deliver(m) PROVE ExclusiveInv'
  BY <1>6, DeliverExclusive
<1> QED
  BY <1>2, <1>3, <1>4, <1>5, <1>6 DEF Next

\* Unless a lease is lost under its holder, Redis fails at an acquisition or a
\* reversal lands late, no transfer is both paid and refunded, for any number
\* of transfers, recoverers and other faults.
THEOREM MoneyIsNotCreated == LeaseHolds => (Spec => []NoMoneyCreated)
<1> SUFFICES ASSUME LeaseHolds PROVE Spec => []NoMoneyCreated
  OBVIOUS
<1> DEFINE Inv == TypeOK /\ BackedInv /\ ExclusiveInv
<1>1. Init => Inv
  BY TypeInit, BackedInit, ExclusiveInit
<1>2. Inv /\ [Next]_vars => Inv'
  BY TypeStep, BackedStep, ExclusiveStep
<1>3. Inv => NoMoneyCreated
  BY DEF ExclusiveInv
<1> QED
  BY <1>1, <1>2, <1>3, PTL DEF Spec

\* Under the same assumption the lease does what it is for: no two workers are
\* ever inside runExecute() for the same transfer.
THEOREM ExecutorIsAlone == LeaseHolds => (Spec => []OneExecutor)
<1> SUFFICES ASSUME LeaseHolds PROVE Spec => []OneExecutor
  OBVIOUS
<1> DEFINE Inv == TypeOK /\ BackedInv /\ ExclusiveInv
<1>1. Init => Inv
  BY TypeInit, BackedInit, ExclusiveInit
<1>2. Inv /\ [Next]_vars => Inv'
  BY TypeStep, BackedStep, ExclusiveStep
<1>3. Inv => OneExecutor
  BY Exclusion DEF OneExecutor, Running
<1> QED
  BY <1>1, <1>2, <1>3, PTL DEF Spec

-----------------------------------------------------------------------------
(* The row, its idempotency key, the account and the ledger tell the same  *)
(* outcome and the same amount: rows, snapshots of rows and amounts.       *)

\* Serving a request for the amount that is due keeps the amounts right, and
\* debits only transfers that somebody may act on.
LEMMA ServeSettled ==
  ASSUME BooksOK, NEW m \in Messages, MessageSettled(m),
         \A t \in Txs : BooksSettled(t),
         (Accepts(m) /\ Serve(m)) \/ UNCHANGED books,
         UNCHANGED converted
  PROVE  \A t \in Txs : /\ BooksSettled(t)'
                        /\ Debited(t)' => Debited(t) \/ ~Untouched(t)
<1> SUFFICES ASSUME NEW t \in Txs
             PROVE  /\ BooksSettled(t)'
                    /\ Debited(t)' => Debited(t) \/ ~Untouched(t)
  OBVIOUS
<1> USE DEF Debited, Reversed, Credited, Batched
<1>1. Due(t)' = Due(t)
  BY DEF Due
<1>2. BooksSettled(t)
  OBVIOUS
<1>3. CASE UNCHANGED books
  BY <1>1, <1>2, <1>3 DEF BooksSettled, books
<1>4. CASE Accepts(m) /\ Serve(m) /\ m.kind = "batch"
  <2>1. /\ op' = op
        /\ batch' = [batch EXCEPT ![m.tx] = IF @ = 0 THEN m.cents ELSE @]
    BY <1>4 DEF Serve, CreateBatch
  <2>2. m.tx \in Txs /\ m.cents = Due(m.tx)
    BY <1>4 DEF Messages, MessageSettled
  <2>3. batch'[t] = batch[t] \/ batch'[t] = Due(t)
    BY <2>1, <2>2 DEF BooksOK
  <2> QED
    BY <1>1, <1>2, <2>1, <2>3 DEF BooksSettled
<1>5. CASE Accepts(m) /\ Serve(m) /\ m.kind # "batch"
  <2>1. /\ op' = [op EXCEPT ![m.tx][m.kind] = IF @ = 0 THEN m.cents ELSE @]
        /\ batch' = batch
    BY <1>5 DEF Serve, ApplyWalletOperation
  <2>2. /\ m.tx \in Txs /\ m.kind \in Kinds \ {"batch"}
        /\ m.cents = IF m.kind = "credit" THEN Due(m.tx) ELSE amount[m.tx]
    BY <1>5 DEF Messages, MessageSettled, Kinds
  <2>3. \A k \in Kinds \ {"batch"} :
          \/ op'[t][k] = op[t][k]
          \/ /\ m.tx = t /\ m.kind = k
             /\ op'[t][k] = m.cents
    BY <2>1, <2>2 DEF BooksOK
  <2>4. \A k \in Kinds \ {"batch"} :
          \/ op'[t][k] = op[t][k]
          \/ /\ op'[t][k] = IF k = "credit" THEN Due(t) ELSE amount[t]
             /\ ~Untouched(t)
    BY <2>2, <2>3 DEF MessageSettled
  <2>5. {"debit", "reversal", "credit"} \subseteq Kinds \ {"batch"}
    BY DEF Kinds
  <2> QED
    BY <1>1, <1>2, <2>1, <2>4, <2>5 DEF BooksSettled
<1> QED
  BY <1>3, <1>4, <1>5

\* The request of a worker that acts on the current row is for what is due.
LEMMA RequestSettled ==
  ASSUME TypeOK, NEW w \in Workers, NEW k \in Kinds, Current(row[w])
  PROVE  MessageSettled(Request(w, k))
<1>1. Request(w, k).cents = IF k \in {"batch", "credit"}
                            THEN Destination(row[w]) ELSE amount[row[w].tx]
  BY DEF Request
<1>2. Destination(row[w]) = Due(row[w].tx)
  BY DEF Destination, Due, Current
<1> QED
  BY <1>1, <1>2, RequestType DEF MessageSettled, Current

-----------------------------------------------------------------------------
(* What a step of one worker must show.                                    *)

\* Rows change their status only at the hand of a worker that runs them.
Ruled ==
  \A t \in Txs :
    /\ \/ status'[t] = status[t]
       \/ /\ ~Untouched(t) /\ status[t] = "PROCESSING"
          /\ status'[t] \in {"COMPLETED", "REVERSED"}
    /\ keyDone'[t] = keyDone[t] \/ ~Untouched(t)

LEMMA WorkerStepSettled ==
  ASSUME TypeOK, SettledInv, NEW w \in Workers, Ruled,
         UNCHANGED <<converted, stale>>,
         \A v \in Workers \ {w} : /\ pc'[v] = pc[v] /\ row'[v] = row[v]
                                  /\ queue'[v] = queue[v],
         pc[w] # "new", pc'[w] \notin FxSteps \cup {"new"},
         w \in Txs => row'[w].tx = w /\ queue'[w] = {},
         row'[w].tx \in Txs, queue'[w] \subseteq Rows,
         pc'[w] \in RunSteps \cup {"acquire"} => Current(row'[w]),
         \A r \in queue'[w] : Current(r),
         \A t \in Txs : /\ BooksSettled(t)'
                        /\ Debited(t)' => Debited(t) \/ ~Untouched(t),
         \A m \in late' : m \in Messages /\ MessageSettled(m)
  PROVE  SettledInv'
<1>0. Txs \subseteq Workers
  BY DEF Workers
<1>1. ASSUME NEW t \in Txs
      PROVE  /\ Untouched(t)' => Untouched(t)
             /\ ~Untouched(t) => ~Untouched(t)' /\ converted'[t] = converted[t]
             /\ RowSettled(t)'
  <2>1. RowSettled(t)
    BY DEF SettledInv
  <2>2. Debited(t)' => Debited(t) \/ ~Untouched(t)
    OBVIOUS
  <2>3. Untouched(t)' => Untouched(t)
    <3>1. CASE t = w
      BY <3>1 DEF Ruled, Untouched
    <3>2. CASE t # w
      BY <1>0, <3>2 DEF Ruled, Untouched
    <3> QED BY <3>1, <3>2
  <2>4. ~Untouched(t) => ~Untouched(t)' /\ converted'[t] = converted[t]
    BY <2>3
  <2>5. CASE t = w
    BY <2>1, <2>2, <2>3, <2>5 DEF RowSettled, Ruled, Untouched, TypeOK
  <2>6. CASE t # w
    <3>1. pc'[t] = pc[t] /\ row'[t] = row[t] /\ queue'[t] = queue[t]
      BY <1>0, <2>6
    <3>2. pc[t] = "new" => Untouched(t)
      BY DEF Untouched
    <3>3. pc[t] \in FxSteps => Untouched(t)
      BY DEF Untouched
    <3>4. status'[t] = "absent" <=> status[t] = "absent"
      BY DEF Ruled
    <3>5. pc[t] \in FxSteps => status'[t] = status[t]
      BY <3>3 DEF Ruled
    <3>6. Untouched(t)' => ~Debited(t)' /\ ~keyDone'[t]
      BY <2>1, <2>2, <2>3 DEF RowSettled, Ruled
    <3>7. t \in stale' => ~Untouched(t)'
      BY <2>1, <2>3 DEF RowSettled
    <3>8. /\ pc'[t] = "new" <=> status'[t] = "absent"
          /\ pc'[t] = "new" => ~converted'[t] /\ ~row'[t].converted
          /\ pc'[t] \in FxSteps => status'[t] = "PROCESSING"
          /\ row'[t].tx = t /\ queue'[t] = {}
      BY <2>1, <3>1, <3>4, <3>5 DEF RowSettled
    <3> QED
      BY <2>3, <2>4, <3>6, <3>7, <3>8 DEF RowSettled
  <2> QED
    BY <2>3, <2>4, <2>5, <2>6
<1>2. ASSUME NEW v \in Workers PROVE WorkerSettled(v)'
  <2>1. ASSUME pc'[v] \in RunSteps \cup {"acquire"} PROVE Current(row'[v])
    BY <2>1 DEF SettledInv, WorkerSettled
  <2>2. \A r \in queue'[v] : Current(r)
    BY DEF SettledInv, WorkerSettled
  <2>3. row'[v].tx \in Txs /\ \A r \in queue'[v] : r.tx \in Txs
    BY DEF TypeOK, Rows
  <2>4. ASSUME NEW r, Current(r), r.tx \in Txs PROVE Current(r)'
    BY <1>1, <2>4 DEF Current, Untouched
  <2>5. PICK u \in Txs : u = row'[v].tx
    BY <2>3
  <2>6. ASSUME pc'[v] \in RunSteps \cup {"acquire"}
        PROVE  ~Untouched(u)' /\ row'[v].converted = converted'[u]
    BY <1>1, <2>1, <2>5, <2>6 DEF Current
  <2>7. \A r \in queue'[v] : Current(r)'
    BY <2>2, <2>3, <2>4
  <2> QED
    BY <2>5, <2>6, <2>7 DEF WorkerSettled, Current, Untouched
<1>3. ASSUME NEW m \in late' PROVE MessageSettled(m)'
  <2>1. m.tx \in Txs /\ MessageSettled(m)
    BY DEF Messages
  <2> QED
    BY <1>1, <2>1 DEF MessageSettled, Due, Untouched
<1> QED
  BY <1>1, <1>2, <1>3 DEF SettledInv

-----------------------------------------------------------------------------
(* The steps.                                                              *)

\* execute() returns: the next row, if any, is one that was queued.
LEMMA ReturnSettled ==
  ASSUME TypeOK, SettledInv, NEW w \in Workers, NEW failed, Return(w, failed)
  PROVE  /\ \A v \in Workers \ {w} : /\ pc'[v] = pc[v] /\ row'[v] = row[v]
                                     /\ queue'[v] = queue[v]
         /\ pc'[w] \in {"done", "idle", "acquire"}
         /\ w \in Txs => row'[w].tx = w /\ queue'[w] = {}
         /\ row'[w].tx \in Txs /\ queue'[w] \subseteq Rows
         /\ pc'[w] = "acquire" => Current(row'[w])
         /\ \A r \in queue'[w] : Current(r)
<1>1. \A v \in Workers \ {w} : /\ pc'[v] = pc[v] /\ row'[v] = row[v]
                               /\ queue'[v] = queue[v]
  BY DEF Return, Goto, TypeOK
<1>2. WorkerSettled(w) /\ (w \in Txs => row[w].tx = w /\ queue[w] = {})
  BY DEF SettledInv, RowSettled
<1>3. row[w].tx \in Txs /\ queue[w] \subseteq Rows
  BY DEF TypeOK, Rows
<1>4. CASE /\ Goto(w, IF w \in Txs THEN "done" ELSE "idle")
           /\ queue' = [queue EXCEPT ![w] = {}]
           /\ UNCHANGED row
  <2>1. pc'[w] \in {"done", "idle"} /\ queue'[w] = {} /\ row'[w] = row[w]
    BY <1>4 DEF Goto, TypeOK
  <2> QED
    BY <1>1, <1>2, <1>3, <2>1
<1>5. CASE /\ \E r \in queue[w] : /\ row' = [row EXCEPT ![w] = r]
                                  /\ queue' = [queue EXCEPT ![w] = @ \ {r}]
           /\ Goto(w, "acquire")
  <2>1. PICK r \in queue[w] : /\ row' = [row EXCEPT ![w] = r]
                              /\ queue' = [queue EXCEPT ![w] = @ \ {r}]
    BY <1>5
  <2>2. /\ row'[w] = r /\ queue'[w] = queue[w] \ {r} /\ pc'[w] = "acquire"
    BY <1>5, <2>1 DEF Goto, TypeOK
  <2>3. r.tx \in Txs /\ Current(r)
    BY <1>2, <1>3 DEF Rows, WorkerSettled
  <2> QED
    BY <1>1, <1>2, <1>3, <2>2, <2>3 DEF WorkerSettled
<1> QED
  BY <1>4, <1>5 DEF Return

\* The books of a step that calls nobody.
LEMMA QuietSettled ==
  ASSUME SettledInv, UNCHANGED <<books, converted>>
  PROVE  \A t \in Txs : /\ BooksSettled(t)'
                        /\ Debited(t)' => Debited(t) \/ ~Untouched(t)
BY DEF SettledInv, BooksSettled, books, Due, Debited, Reversed, Credited,
       Batched

\* A worker's step inside execute() that calls neither service.
LEMMA CallFreeStepSettled ==
  ASSUME TypeOK, SettledInv, NEW w \in Workers, Ruled,
         UNCHANGED <<converted, stale, books, late, row, queue>>,
         \A v \in Workers \ {w} : pc'[v] = pc[v],
         pc[w] \in RunSteps \cup {"acquire"}, pc'[w] \in RunSteps
  PROVE  SettledInv'
<1>1. /\ pc[w] # "new" /\ pc'[w] \notin FxSteps \cup {"new"}
  BY DEF RunSteps, FxSteps, Kinds
<1>2. WorkerSettled(w) /\ (w \in Txs => row[w].tx = w /\ queue[w] = {})
  BY DEF SettledInv, RowSettled
<1>3. row[w].tx \in Txs /\ queue[w] \subseteq Rows
  BY DEF TypeOK, Rows
<1>4. \A m \in late' : m \in Messages /\ MessageSettled(m)
  BY DEF TypeOK, SettledInv
<1> QED
  BY <1>1, <1>2, <1>3, <1>4, QuietSettled, WorkerStepSettled
     DEF WorkerSettled

\* One POST, whatever becomes of it.
LEMMA PostSettled ==
  ASSUME TypeOK, SettledInv, NEW w \in Workers, NEW k \in Kinds,
         NEW next \in RunSteps, Post(w, k, next) \/ PostFails(w, k)
  PROVE  SettledInv'
<1> DEFINE m == Request(w, k)
<1>1. /\ pc[w] = k
      /\ UNCHANGED <<status, keyDone, converted, stale, row, queue>>
  BY DEF Post, PostFails, rowVars
<1>2. pc'[w] \in RunSteps /\ \A v \in Workers \ {w} : pc'[v] = pc[v]
  <2>1. {"reversal", "release"} \subseteq RunSteps
    BY DEF RunSteps, Kinds
  <2>2. \E label \in RunSteps : Goto(w, label)
    BY <2>1 DEF Post, PostFails, OnError
  <2> QED
    BY <2>2 DEF Goto, TypeOK
<1>3. WorkerSettled(w) /\ (w \in Txs => row[w].tx = w /\ queue[w] = {})
  BY DEF SettledInv, RowSettled
<1>4. row[w].tx \in Txs /\ queue[w] \subseteq Rows
  BY DEF TypeOK, Rows
<1>5. m \in Messages /\ MessageSettled(m)
  <2>1. Current(row[w])
    BY <1>1, <1>3 DEF WorkerSettled, RunSteps
  <2> QED
    BY <2>1, RequestType, RequestSettled
<1>6. BooksOK /\ \A t \in Txs : BooksSettled(t)
  BY DEF TypeOK, BooksOK, SettledInv
<1>7. (Accepts(m) /\ Serve(m)) \/ UNCHANGED books
  BY DEF Post, PostFails
<1>8. late' = late \/ late' = late \cup {m}
  BY DEF Post, PostFails
<1> HIDE DEF m
<1>9. \A t \in Txs : /\ BooksSettled(t)'
                     /\ Debited(t)' => Debited(t) \/ ~Untouched(t)
  BY <1>1, <1>5, <1>6, <1>7, ServeSettled
<1>10. \A n \in late' : n \in Messages /\ MessageSettled(n)
  BY <1>5, <1>8 DEF TypeOK, SettledInv
<1>11. Ruled
  BY <1>1 DEF Ruled
<1>12. pc[w] # "new" /\ pc'[w] \notin FxSteps \cup {"new"}
  BY <1>1, <1>2 DEF RunSteps, FxSteps, Kinds
<1> QED
  BY <1>1, <1>2, <1>3, <1>4, <1>9, <1>10, <1>11, <1>12, WorkerStepSettled
     DEF WorkerSettled, RunSteps

\* A late request lands.
LEMMA DeliverSettled ==
  ASSUME TypeOK, SettledInv, NEW m \in late, Deliver(m)
  PROVE  SettledInv'
<1>1. /\ UNCHANGED <<status, keyDone, converted, stale, pc, row, queue>>
      /\ late' = late \ {m}
  BY DEF Deliver, rowVars, workVars
<1>2. m \in Messages /\ MessageSettled(m) /\ BooksOK
      /\ \A t \in Txs : BooksSettled(t)
  BY DEF TypeOK, SettledInv, BooksOK
<1>3. \A t \in Txs : /\ BooksSettled(t)'
                     /\ Debited(t)' => Debited(t) \/ ~Untouched(t)
  BY <1>1, <1>2, ServeSettled DEF Deliver
<1>4. \A t \in Txs : Untouched(t)' <=> Untouched(t)
  BY <1>1 DEF Untouched
<1>5. ASSUME NEW t \in Txs PROVE RowSettled(t)'
  <2>1. RowSettled(t)
    BY DEF SettledInv
  <2> QED
    BY <1>1, <1>3, <1>4, <2>1 DEF RowSettled
<1>6. ASSUME NEW v \in Workers PROVE WorkerSettled(v)'
  BY <1>1 DEF SettledInv, WorkerSettled, Current, Untouched
<1>7. ASSUME NEW n \in late' PROVE MessageSettled(n)'
  BY <1>1 DEF SettledInv, MessageSettled, Untouched, Due
<1> QED
  BY <1>3, <1>5, <1>6, <1>7 DEF SettledInv

\* A request's step up to the end of its FX branch: nobody else knows the row.
LEMMA RequestStepSettled ==
  ASSUME TypeOK, BackedInv, SettledInv, NEW t \in Txs,
         pc[t] \in FxSteps \cup {"new"},
         UNCHANGED <<books, late, queue, stale, keyDone>>,
         \A v \in Workers \ {t} : pc'[v] = pc[v] /\ row'[v] = row[v],
         \A u \in Txs \ {t} : /\ status'[u] = status[u]
                              /\ converted'[u] = converted[u],
         pc'[t] \in FxSteps \cup {"acquire", "done"},
         status'[t] \in {"PROCESSING", "FAILED"},
         pc'[t] # "done" => status'[t] = "PROCESSING",
         pc'[t] = "acquire" => row'[t].converted = converted'[t],
         row'[t].tx = t
  PROVE  SettledInv'
<1>0. Txs \subseteq Workers /\ Untouched(t)
  BY DEF Workers, Untouched
<1>1. /\ RowSettled(t) /\ t \notin stale
      /\ ~Debited(t) /\ ~Batched(t) /\ ~Reversed(t) /\ ~Credited(t)
  BY <1>0 DEF SettledInv, RowSettled, BackedInv, Backed, Batched
<1>2. \A u \in Txs \ {t} : Untouched(u)' <=> Untouched(u)
  BY <1>0 DEF Untouched
<1>3. ASSUME NEW u \in Txs PROVE RowSettled(u)' /\ BooksSettled(u)'
  <2>1. CASE u = t
    <3>1. ~Debited(t)' /\ ~Batched(t)' /\ ~Reversed(t)' /\ ~Credited(t)'
      BY <1>1 DEF books, Debited, Batched, Reversed, Credited
    <3>2. BooksSettled(t)'
      BY <3>1 DEF BooksSettled
    <3>3. pc'[t] # "new" /\ status'[t] # "absent"
      BY DEF FxSteps
    <3>4. pc'[t] \in FxSteps => status'[t] = "PROCESSING"
      BY DEF FxSteps
    <3>5. queue'[t] = {} /\ ~keyDone'[t] /\ t \notin stale'
      BY <1>0, <1>1 DEF RowSettled
    <3> QED
      BY <2>1, <3>1, <3>2, <3>3, <3>4, <3>5 DEF RowSettled
  <2>2. CASE u # t
    <3>1. RowSettled(u) /\ BooksSettled(u)
      BY DEF SettledInv
    <3>2. pc'[u] = pc[u] /\ row'[u] = row[u]
      BY <1>0, <2>2
    <3>3. /\ Debited(u)' <=> Debited(u)
          /\ Batched(u)' <=> Batched(u)
          /\ Reversed(u)' <=> Reversed(u)
          /\ Credited(u)' <=> Credited(u)
          /\ Due(u)' = Due(u)
      BY <2>2 DEF books, Debited, Batched, Reversed, Credited, Due
    <3> QED
      BY <1>2, <2>2, <3>1, <3>2, <3>3 DEF RowSettled, BooksSettled, books
  <2> QED
    BY <2>1, <2>2
<1>4. ASSUME NEW r, Current(r), r.tx \in Txs PROVE Current(r)'
  <2>1. r.tx # t
    BY <1>0, <1>4 DEF Current
  <2> QED
    BY <1>2, <1>4, <2>1 DEF Current, Untouched
<1>5. ASSUME NEW v \in Workers PROVE WorkerSettled(v)'
  <2>1. WorkerSettled(v) /\ row[v].tx \in Txs /\ \A r \in queue[v] : r.tx \in Txs
    BY DEF SettledInv, TypeOK, Rows
  <2>2. \A r \in queue'[v] : Current(r)'
    BY <1>4, <2>1 DEF WorkerSettled
  <2>3. CASE v # t
    <3>1. pc'[v] \in RunSteps \cup {"acquire"} => Current(row[v])'
      BY <1>4, <2>1, <2>3 DEF WorkerSettled
    <3>2. row'[v] = row[v]
      BY <2>3
    <3> QED
      BY <2>2, <3>1, <3>2 DEF WorkerSettled, Current
  <2>4. CASE v = t
    <3>1. pc'[t] \in RunSteps \cup {"acquire"} => pc'[t] = "acquire"
      BY DEF RunSteps, FxSteps, Kinds
    <3>2. pc'[t] = "acquire" => ~Untouched(t)'
      BY DEF Untouched, FxSteps
    <3> QED
      BY <2>2, <2>4, <3>1, <3>2 DEF WorkerSettled, Current, Untouched
  <2> QED
    BY <2>3, <2>4
<1>6. ASSUME NEW m \in late' PROVE MessageSettled(m)'
  <2>1. m \in late /\ m.tx \in Txs /\ MessageSettled(m)
    BY DEF SettledInv, TypeOK, Messages
  <2>2. m.tx # t
    BY <1>0, <2>1 DEF MessageSettled
  <2> QED
    BY <1>2, <2>1, <2>2 DEF MessageSettled, Due, Untouched
<1> QED
  BY <1>3, <1>5, <1>6 DEF SettledInv

\* A row gets old: its FX branch is over.
LEMMA AgeSettled ==
  ASSUME ClockHolds, TypeOK, SettledInv, NEW t \in Txs, Age(t)
  PROVE  SettledInv'
<1>1. /\ UNCHANGED <<status, converted, keyDone, books, late, pc, row, queue>>
      /\ stale' = stale \cup {t}
      /\ status[t] = "PROCESSING" /\ pc[t] \notin FxSteps
  BY DEF Age, ClockHolds, Fault, workVars
<1>2. RowSettled(t)
  BY DEF SettledInv
<1>3. ~Untouched(t)
  BY <1>1, <1>2 DEF RowSettled, Untouched
<1>4. ASSUME NEW u \in Txs PROVE RowSettled(u)' /\ BooksSettled(u)'
  <2>1. RowSettled(u) /\ BooksSettled(u)
    BY DEF SettledInv
  <2>2. /\ Untouched(u)' <=> Untouched(u)
        /\ Debited(u)' <=> Debited(u)
        /\ u \in stale' => u \in stale \/ u = t
    BY <1>1 DEF Untouched, Debited, books
  <2>3. BooksSettled(u)'
    BY <1>1, <2>1
       DEF BooksSettled, books, Debited, Batched, Reversed, Credited, Due
  <2> QED
    BY <1>1, <1>3, <2>1, <2>2, <2>3 DEF RowSettled
<1>5. \A v \in Workers : WorkerSettled(v)'
  BY <1>1 DEF SettledInv, WorkerSettled, Current, Untouched
<1>6. \A m \in late' : MessageSettled(m)'
  BY <1>1 DEF SettledInv, MessageSettled, Untouched, Due
<1> QED
  BY <1>4, <1>5, <1>6 DEF SettledInv

\* A tick takes rows that are old, as they are.
LEMMA TickSettled ==
  ASSUME TypeOK, SettledInv, NEW r \in Recoverers, RecoveryTick(r)
  PROVE  SettledInv'
<1>0. r \in Workers /\ r \notin Txs
  BY DEF Workers
<1>1. PICK found \in SUBSET StaleRows : \E x \in found :
        /\ row' = [row EXCEPT ![r] = x]
        /\ queue' = [queue EXCEPT ![r] = found \ {x}]
  BY DEF RecoveryTick
<1>2. PICK x \in found : /\ row' = [row EXCEPT ![r] = x]
                         /\ queue' = [queue EXCEPT ![r] = found \ {x}]
  BY <1>1
<1>3. \A y \in StaleRows : Current(y) /\ y \in Rows
  BY DEF StaleRows, SettledInv, RowSettled, Current, TypeOK, Rows
<1>4. /\ pc[r] = "idle" /\ pc'[r] = "acquire"
      /\ \A v \in Workers \ {r} : /\ pc'[v] = pc[v] /\ row'[v] = row[v]
                                  /\ queue'[v] = queue[v]
      /\ UNCHANGED <<status, keyDone, converted, stale, books, late>>
  BY <1>0, <1>2 DEF RecoveryTick, Goto, TypeOK, rowVars
<1>5. row'[r] = x /\ queue'[r] = found \ {x}
  BY <1>0, <1>2 DEF TypeOK
<1>6. /\ row'[r].tx \in Txs /\ queue'[r] \subseteq Rows
      /\ Current(row'[r]) /\ \A y \in queue'[r] : Current(y)
  <2>1. x \in Rows /\ Current(x) /\ \A y \in found : y \in Rows /\ Current(y)
    BY <1>3
  <2>2. x.tx \in Txs
    BY <2>1 DEF Rows
  <2> QED
    BY <1>5, <2>1, <2>2
<1>7. Ruled /\ \A m \in late' : m \in Messages /\ MessageSettled(m)
  BY <1>4 DEF Ruled, TypeOK, SettledInv
<1>8. pc'[r] \notin FxSteps \cup {"new"}
  BY <1>4 DEF FxSteps
<1> QED
  BY <1>0, <1>4, <1>6, <1>7, <1>8, QuietSettled, WorkerStepSettled

\* A crash: what the worker was sending may still land.
LEMMA CrashSettled ==
  ASSUME TypeOK, SettledInv, NEW w \in Workers, Crash(w)
  PROVE  SettledInv'
<1>1. /\ UNCHANGED <<status, keyDone, converted, stale, books, row>>
      /\ pc[w] \notin {"new", "done", "idle"} /\ pc'[w] \in {"done", "idle"}
      /\ queue'[w] = {}
      /\ \A v \in Workers \ {w} : pc'[v] = pc[v] /\ queue'[v] = queue[v]
  BY DEF Crash, Goto, TypeOK, rowVars
<1>2. WorkerSettled(w) /\ (w \in Txs => row[w].tx = w) /\ row[w].tx \in Txs
  BY DEF SettledInv, RowSettled, TypeOK, Rows
<1>3. \A m \in late' : m \in Messages /\ MessageSettled(m)
  <2>1. \A m \in late : m \in Messages /\ MessageSettled(m)
    BY DEF TypeOK, SettledInv
  <2>2. CASE late' = late
    BY <2>1, <2>2
  <2>3. CASE pc[w] \in Kinds /\ late' = late \cup {Request(w, pc[w])}
    <3>1. Current(row[w])
      BY <1>2, <2>3 DEF WorkerSettled, RunSteps
    <3>2. Request(w, pc[w]) \in Messages /\ MessageSettled(Request(w, pc[w]))
      BY <2>3, <3>1, RequestType, RequestSettled
    <3> QED
      BY <2>1, <2>3, <3>2
  <2>4. LateKinds \subseteq Kinds
    OBVIOUS
  <2> QED
    BY <2>2, <2>3, <2>4 DEF Crash
<1>4. /\ pc'[w] \notin FxSteps \cup {"new"}
      /\ pc'[w] \notin RunSteps \cup {"acquire"}
  BY <1>1 DEF FxSteps, RunSteps, Kinds
<1>5. Ruled
  BY <1>1 DEF Ruled
<1>6. row'[w].tx \in Txs /\ queue'[w] \subseteq Rows /\ \A r \in queue'[w] : Current(r)
  BY <1>1, <1>2
<1> QED
  BY <1>1, <1>2, <1>3, <1>4, <1>5, <1>6, QuietSettled, WorkerStepSettled

\* The writer of a verdict runs the row: it is past its FX branch.
LEMMA SettleRuled ==
  ASSUME TypeOK, NEW t \in Txs, ~Untouched(t),
         status[t] # "absent",
         \/ UNCHANGED <<status, keyDone>>
         \/ Complete(t)
         \/ Settle(t, "REVERSED") /\ UNCHANGED keyDone
  PROVE  Ruled
<1> SUFFICES ASSUME NEW u \in Txs
             PROVE  /\ \/ status'[u] = status[u]
                       \/ /\ ~Untouched(u) /\ status[u] = "PROCESSING"
                          /\ status'[u] \in {"COMPLETED", "REVERSED"}
                    /\ keyDone'[u] = keyDone[u] \/ ~Untouched(u)
  BY DEF Ruled
<1>1. CASE UNCHANGED <<status, keyDone>>
  BY <1>1
<1>2. CASE Complete(t)
  BY <1>2 DEF Complete, Settle, TypeOK
<1>3. CASE Settle(t, "REVERSED") /\ UNCHANGED keyDone
  BY <1>3 DEF Settle, TypeOK
<1> QED
  BY <1>1, <1>2, <1>3

LEMMA SettledInit == Init => SettledInv
<1> SUFFICES ASSUME Init PROVE SettledInv
  OBVIOUS
<1>1. Txs \subseteq Workers
  BY DEF Workers
<1>2. ASSUME NEW t \in Txs PROVE RowSettled(t) /\ BooksSettled(t)
  <2>1. /\ ~Debited(t) /\ ~Reversed(t) /\ ~Credited(t) /\ ~Batched(t)
    BY DEF Init, Debited, Reversed, Credited, Batched, Kinds
  <2>2. /\ pc[t] = "new" /\ status[t] = "absent"
        /\ row[t].tx = t /\ ~row[t].converted /\ ~converted[t]
        /\ queue[t] = {} /\ stale = {} /\ ~keyDone[t]
    BY <1>1 DEF Init
  <2> QED
    BY <2>1, <2>2 DEF RowSettled, BooksSettled, FxSteps
<1>3. ASSUME NEW w \in Workers PROVE WorkerSettled(w)
  <2>1. pc[w] \in {"new", "idle"} /\ queue[w] = {}
    BY DEF Init
  <2> QED
    BY <2>1 DEF WorkerSettled, RunSteps, Kinds
<1>4. late = {}
  BY DEF Init
<1> QED
  BY <1>2, <1>3, <1>4 DEF SettledInv

LEMMA SettledStep ==
  ClockHolds /\ TypeOK /\ BackedInv /\ SettledInv /\ [Next]_vars
    => SettledInv'
<1> SUFFICES ASSUME ClockHolds, TypeOK, BackedInv, SettledInv, [Next]_vars
             PROVE  SettledInv'
  OBVIOUS
<1>1. ASSUME UNCHANGED <<status, converted, keyDone, stale, books, late, pc,
                         row, queue>>
      PROVE  SettledInv'
  <2>1. \A t \in Txs : Untouched(t)' <=> Untouched(t)
    BY <1>1 DEF Untouched
  <2>2. \A t \in Txs : RowSettled(t)'
    BY <1>1, <2>1 DEF SettledInv, RowSettled, books, Debited
  <2>3. \A w \in Workers : WorkerSettled(w)'
    BY <1>1 DEF SettledInv, WorkerSettled, Current, Untouched
  <2>4. \A m \in late' : MessageSettled(m)'
    BY <1>1 DEF SettledInv, MessageSettled, Untouched, Due
  <2> QED
    BY <1>1, <2>2, <2>3, <2>4, QuietSettled DEF SettledInv
<1>2. CASE UNCHANGED vars
  BY <1>1, <1>2 DEF vars, rowVars, workVars
<1>3. ASSUME NEW t \in Txs,
             Start(t) \/ FxWriteFails(t) \/ Age(t) \/ ExpireLease(t)
             \/ LapseLease(t)
      PROVE  SettledInv'
  <2>0. t \in Workers /\ RowSettled(t)
    BY DEF Workers, SettledInv
  <2>1. CASE ExpireLease(t) \/ LapseLease(t)
    BY <1>1, <2>1 DEF ExpireLease, LapseLease, rowVars, workVars
  <2>2. CASE Age(t)
    BY <2>2, AgeSettled
  <2>3. CASE Start(t) \/ FxWriteFails(t)
    <3>1. /\ UNCHANGED <<books, late, queue, stale, keyDone>>
          /\ \A v \in Workers \ {t} : pc'[v] = pc[v] /\ row'[v] = row[v]
          /\ \A u \in Txs \ {t} : /\ status'[u] = status[u]
                                  /\ converted'[u] = converted[u]
          /\ pc[t] \in FxSteps \cup {"new"}
      BY <2>3 DEF Start, InsertRow, ConsumeQuote, WriteDestination, MarkFailed,
                  FxWriteFails, Goto, TypeOK, rowVars, FxSteps
    <3>2. pc'[t] \in FxSteps \cup {"acquire", "done"}
      BY <2>0, <2>3 DEF Start, InsertRow, ConsumeQuote, WriteDestination,
                  MarkFailed, FxWriteFails, Goto, TypeOK, FxSteps
    <3>3. /\ status'[t] \in {"PROCESSING", "FAILED"}
          /\ pc'[t] # "done" => status'[t] = "PROCESSING"
      BY <2>0, <2>3 DEF Start, InsertRow, ConsumeQuote, WriteDestination,
                  MarkFailed, FxWriteFails, Goto, TypeOK, FxSteps, rowVars,
                  RowSettled
    <3>4. row'[t].tx = t
      BY <2>0, <2>3 DEF Start, InsertRow, ConsumeQuote, WriteDestination,
                  MarkFailed, FxWriteFails, RowSettled, TypeOK
    <3>5. pc'[t] = "acquire" => row'[t].converted = converted'[t]
      <4>1. CASE InsertRow(t)
        <5>1. row'[t] = row[t] /\ converted'[t] = converted[t]
          BY <4>1 DEF InsertRow
        <5>2. row[t].converted \in BOOLEAN /\ converted[t] \in BOOLEAN
          BY <2>0 DEF TypeOK, Rows
        <5>3. ~row[t].converted /\ ~converted[t]
          BY <2>0, <4>1 DEF InsertRow, RowSettled
        <5> QED
          BY <5>1, <5>2, <5>3, Zenon
      <4>2. CASE WriteDestination(t)
        BY <2>0, <4>2 DEF WriteDestination, TypeOK
      <4>3. CASE ConsumeQuote(t) \/ MarkFailed(t) \/ FxWriteFails(t)
        BY <2>0, <4>3 DEF ConsumeQuote, MarkFailed, FxWriteFails, Goto, TypeOK
      <4> QED
        BY <2>3, <4>1, <4>2, <4>3 DEF Start
    <3> QED
      BY <3>1, <3>2, <3>3, <3>4, <3>5, RequestStepSettled
  <2> QED
    BY <1>3, <2>1, <2>2, <2>3
<1>4. ASSUME NEW w \in Workers, Execute(w) \/ Fail(w) PROVE SettledInv'
  <2>0. PICK t \in Txs : t = row[w].tx
    BY DEF TypeOK, Rows
  <2>1. WorkerSettled(w) /\ RowSettled(t)
    BY DEF SettledInv
  <2>2. CASE \/ AcquireLease(w) \/ FailOpen(w) \/ ReadStatus(w)
             \/ GetReversal(w) \/ GetBatch(w) \/ ReadFails(w)
    <3>1. /\ UNCHANGED <<status, keyDone, converted, stale, books, late, row,
                         queue>>
          /\ \A v \in Workers \ {w} : pc'[v] = pc[v]
          /\ pc[w] \in RunSteps \cup {"acquire"} /\ pc'[w] \in RunSteps
      BY <2>2 DEF AcquireLease, FailOpen, ReadStatus, GetReversal, GetBatch,
                  ReadFails, Throw, Goto, TypeOK, rowVars, RunSteps, Kinds
    <3>2. Ruled
      BY <3>1 DEF Ruled
    <3> QED
      BY <3>1, <3>2, CallFreeStepSettled
  <2>3. CASE MarkCompleted(w) \/ MarkReversed(w) \/ WriteFails(w)
    <3>1. /\ UNCHANGED <<converted, stale, books, late, row, queue>>
          /\ \A v \in Workers \ {w} : pc'[v] = pc[v]
          /\ pc[w] \in RunSteps /\ pc'[w] \in RunSteps
      BY <2>3 DEF MarkCompleted, MarkReversed, WriteFails, Throw, Goto, TypeOK,
                  RunSteps
    <3>2. \/ UNCHANGED <<status, keyDone>>
          \/ Complete(t)
          \/ Settle(t, "REVERSED") /\ UNCHANGED keyDone
      BY <2>0, <2>3 DEF MarkCompleted, MarkReversed, WriteFails
    <3>3. ~Untouched(t) /\ status[t] # "absent"
      BY <2>0, <2>1, <3>1 DEF WorkerSettled, Current, RowSettled, Untouched
    <3>4. Ruled
      BY <3>2, <3>3, SettleRuled
    <3> QED
      BY <3>1, <3>4, CallFreeStepSettled
  <2>4. CASE Contended(w) \/ ReleaseLease(w)
    <3>1. /\ UNCHANGED <<status, keyDone, converted, stale, books, late>>
          /\ pc[w] \in {"acquire", "release"}
      BY <2>4 DEF Contended, ReleaseLease, rowVars
    <3>2. \E failed : Return(w, failed)
      BY <2>4 DEF Contended, ReleaseLease
    <3>3. Ruled /\ \A m \in late' : m \in Messages /\ MessageSettled(m)
      BY <3>1 DEF Ruled, TypeOK, SettledInv
    <3>4. \A x \in {"done", "idle", "acquire"} :
            /\ x \notin FxSteps \cup {"new"}
            /\ x \in RunSteps \cup {"acquire"} => x = "acquire"
      BY DEF FxSteps, RunSteps, Kinds
    <3> QED
      BY <3>1, <3>2, <3>3, <3>4, ReturnSettled, QuietSettled, WorkerStepSettled
  <2>5. CASE \/ DebitSender(w) \/ CreateLedger(w) \/ ReverseDebit(w)
             \/ CreditRecipient(w) \/ \E k \in Kinds : PostFails(w, k)
    <3>1. \E k \in Kinds, next \in RunSteps :
            Post(w, k, next) \/ PostFails(w, k)
      BY <2>5 DEF DebitSender, CreateLedger, ReverseDebit, CreditRecipient,
                  RunSteps, Kinds
    <3> QED
      BY <3>1, PostSettled
  <2>6. CASE Crash(w)
    BY <2>6, CrashSettled
  <2> QED
    BY <1>4, <2>2, <2>3, <2>4, <2>5, <2>6 DEF Execute, Fail
<1>5. ASSUME NEW r \in Recoverers, RecoveryTick(r) \/ IdleTick(r)
      PROVE  SettledInv'
  BY <1>2, <1>5, TickSettled DEF IdleTick
<1>6. ASSUME NEW m \in late, Deliver(m) PROVE SettledInv'
  BY <1>6, DeliverSettled
<1> QED
  BY <1>2, <1>3, <1>4, <1>5, <1>6 DEF Next

-----------------------------------------------------------------------------
(* What the account, the ledger and the quote say of the amount.           *)

\* If no FX branch outlasts the minute after which a row is stale, the
\* recipient's wallet and the ledger tell the same amount, whatever happens to
\* leases, workers and calls.
THEOREM AmountsAgree == ClockHolds => (Spec => []LedgerAgrees)
<1> SUFFICES ASSUME ClockHolds PROVE Spec => []LedgerAgrees
  OBVIOUS
<1> DEFINE Inv == TypeOK /\ BackedInv /\ SettledInv
<1>1. Init => Inv
  BY TypeInit, BackedInit, SettledInit
<1>2. Inv /\ [Next]_vars => Inv'
  BY TypeStep, BackedStep, SettledStep
<1>3. Inv => LedgerAgrees
  BY DEF BackedInv, Backed, SettledInv, BooksSettled, LedgerAgrees, Batched
<1> QED
  BY <1>1, <1>2, <1>3, PTL DEF Spec

\* Under the same assumption no execution pays a converted row at the amount
\* that was sent instead of the amount that was quoted.
THEOREM QuoteIsHonoured == ClockHolds => (Spec => []QuoteHonoured)
<1> SUFFICES ASSUME ClockHolds PROVE Spec => []QuoteHonoured
  OBVIOUS
<1> DEFINE Inv == TypeOK /\ BackedInv /\ SettledInv
<1>1. Init => Inv
  BY TypeInit, BackedInit, SettledInit
<1>2. Inv /\ [Next]_vars => Inv'
  BY TypeStep, BackedStep, SettledStep
<1>3. Inv => QuoteHonoured
  BY DEF SettledInv, BooksSettled, QuoteHonoured, Due
<1> QED
  BY <1>1, <1>2, <1>3, PTL DEF Spec

-----------------------------------------------------------------------------
(* Verdicts.                                                               *)

\* The steps that write a status.
LEMMA StatusWriters ==
  ASSUME TypeOK, SettledInv, [Next]_vars
  PROVE  \/ UNCHANGED <<status, keyDone>>
         \/ \E t \in Txs : InsertRow(t) \/ MarkFailed(t)
         \/ \E w \in Workers :
              \/ pc[w] = "complete" /\ Complete(row[w].tx)
              \/ pc[w] = "markReversed" /\ Settle(row[w].tx, "REVERSED")
                                        /\ UNCHANGED keyDone
<1> DEFINE Quiet == UNCHANGED <<status, keyDone>>
           Write(w) == \/ pc[w] = "complete" /\ Complete(row[w].tx)
                       \/ pc[w] = "markReversed"
                          /\ Settle(row[w].tx, "REVERSED") /\ UNCHANGED keyDone
<1>1. UNCHANGED vars => Quiet
  BY DEF vars, rowVars
<1>2. ASSUME NEW t \in Txs,
             Start(t) \/ FxWriteFails(t) \/ Age(t) \/ ExpireLease(t)
             \/ LapseLease(t)
      PROVE  Quiet \/ InsertRow(t) \/ MarkFailed(t)
  BY <1>2 DEF Start, ConsumeQuote, WriteDestination, FxWriteFails, Age,
              ExpireLease, LapseLease, rowVars
<1>3. ASSUME NEW w \in Workers, Execute(w) \/ Fail(w)
      PROVE  Quiet \/ Write(w)
  <2>1. CASE MarkCompleted(w) \/ MarkReversed(w) \/ WriteFails(w)
    BY <2>1 DEF MarkCompleted, MarkReversed, WriteFails
  <2>2. CASE \/ AcquireLease(w) \/ Contended(w) \/ ReleaseLease(w)
             \/ ReadStatus(w) \/ GetReversal(w) \/ GetBatch(w)
             \/ FailOpen(w) \/ ReadFails(w) \/ Crash(w)
    BY <2>2 DEF AcquireLease, Contended, ReleaseLease, ReadStatus, GetReversal,
                GetBatch, FailOpen, ReadFails, Crash, rowVars
  <2>3. CASE \/ DebitSender(w) \/ CreateLedger(w) \/ ReverseDebit(w)
             \/ CreditRecipient(w) \/ \E k \in Kinds : PostFails(w, k)
    <3>1. \E k, next : Post(w, k, next) \/ PostFails(w, k)
      BY <2>3 DEF DebitSender, CreateLedger, ReverseDebit, CreditRecipient
    <3> QED
      BY <3>1 DEF Post, PostFails, rowVars
  <2> QED
    BY <1>3, <2>1, <2>2, <2>3 DEF Execute, Fail
<1>4. ASSUME NEW r \in Recoverers, RecoveryTick(r) \/ IdleTick(r)
      PROVE  Quiet
  BY <1>1, <1>4 DEF RecoveryTick, IdleTick, rowVars
<1>5. ASSUME NEW m \in late, Deliver(m) PROVE Quiet
  BY <1>5 DEF Deliver, rowVars
<1> QED
  BY <1>1, <1>2, <1>3, <1>4, <1>5 DEF Next

\* No writer replaces a terminal status.
LEMMA TerminalKept ==
  TypeOK /\ SettledInv /\ [Next]_vars =>
    \A t \in Txs : status[t] \in Terminal => status'[t] = status[t]
<1> SUFFICES ASSUME TypeOK, SettledInv, [Next]_vars, NEW t \in Txs,
                    status[t] \in Terminal
             PROVE  status'[t] = status[t]
  OBVIOUS
<1>1. CASE UNCHANGED <<status, keyDone>>
  BY <1>1
<1>2. ASSUME NEW u \in Txs, InsertRow(u) \/ MarkFailed(u)
      PROVE  status'[t] = status[t]
  <2>1. status[u] \in {"absent", "PROCESSING"}
    BY <1>2 DEF SettledInv, RowSettled, InsertRow, MarkFailed, FxSteps
  <2>2. u # t
    BY <2>1 DEF Terminal
  <2> QED
    BY <1>2, <2>2 DEF InsertRow, MarkFailed, TypeOK
<1>3. ASSUME NEW w \in Workers,
             Complete(row[w].tx) \/ Settle(row[w].tx, "REVERSED")
      PROVE  status'[t] = status[t]
  BY <1>3 DEF Complete, Settle, TypeOK, Terminal
<1> QED
  BY <1>1, <1>2, <1>3, StatusWriters

\* A verdict is final: no request, recovery or replica replaces it, however
\* late it comes and whatever has become of the lease, as long as no FX branch
\* outlasts the minute after which a row is stale.
THEOREM VerdictsAreFinal == ClockHolds => (Spec => FirstWriterWins)
<1> SUFFICES ASSUME ClockHolds PROVE Spec => FirstWriterWins
  OBVIOUS
<1> DEFINE Inv == TypeOK /\ BackedInv /\ SettledInv
           Kept == \A t \in Txs : status[t] \in Terminal => status'[t] = status[t]
<1>1. Init => Inv
  BY TypeInit, BackedInit, SettledInit
<1>2. Inv /\ [Next]_vars => Inv'
  BY TypeStep, BackedStep, SettledStep
<1>3. Inv /\ [Next]_vars => Kept
  BY TerminalKept
<1>4. FirstWriterWins <=> [][Kept]_vars
  BY DEF FirstWriterWins
<1> HIDE DEF Kept
<1> QED
  BY <1>1, <1>2, <1>3, <1>4, PTL DEF Spec

\* The key is completed in the transaction that completes the row.
KeyInv == \A t \in Txs : keyDone[t] = (status[t] = "COMPLETED")

LEMMA KeyStep ==
  ASSUME TypeOK, BackedInv, ExclusiveInv, SettledInv, KeyInv, [Next]_vars
  PROVE  KeyInv'
<1>1. CASE UNCHANGED <<status, keyDone>>
  BY <1>1 DEF KeyInv
<1>2. ASSUME NEW t \in Txs, InsertRow(t) \/ MarkFailed(t) PROVE KeyInv'
  <2>1. /\ status[t] \in {"absent", "PROCESSING"} /\ UNCHANGED keyDone
        /\ \E s \in {"PROCESSING", "FAILED"} : status' = [status EXCEPT ![t] = s]
    BY <1>2 DEF SettledInv, RowSettled, InsertRow, MarkFailed, FxSteps
  <2> QED
    BY <2>1 DEF KeyInv, TypeOK
<1>3. ASSUME NEW w \in Workers, pc[w] = "complete", Complete(row[w].tx)
      PROVE  KeyInv'
  <2>1. PICK t \in Txs : t = row[w].tx
    BY DEF TypeOK, Rows
  <2>2. Credited(t) /\ Debited(t) /\ ~Reversed(t)
    BY <1>3, <2>1
       DEF BackedInv, WorkerBacked, Backed, ExclusiveInv, NoMoneyCreated
  <2>3. ~Untouched(t) /\ RowSettled(t)
    BY <2>2 DEF SettledInv, RowSettled
  <2>4. status[t] # "REVERSED"
    BY <2>2 DEF BackedInv, Backed
  <2>5. status[t] \in {"PROCESSING", "COMPLETED"}
    BY <2>3, <2>4 DEF RowSettled, Untouched, TypeOK, Statuses
  <2>6. /\ status' = [status EXCEPT ![t] = "COMPLETED"]
        /\ keyDone' = [keyDone EXCEPT ![t] = TRUE]
    <3>1. status' = [status EXCEPT ![t] = IF status[t] = "PROCESSING"
                                          THEN "COMPLETED" ELSE status[t]]
      BY <1>3, <2>1 DEF Complete, Settle
    <3> QED
      BY <1>3, <2>1, <2>5, <3>1 DEF Complete
  <2> QED
    BY <2>6 DEF KeyInv, TypeOK
<1>4. ASSUME NEW w \in Workers, Settle(row[w].tx, "REVERSED"), UNCHANGED keyDone
      PROVE  KeyInv'
  <2>1. \A u \in Txs : status'[u] = "COMPLETED" <=> status[u] = "COMPLETED"
    BY <1>4 DEF Settle, TypeOK
  <2> QED
    BY <1>4, <2>1 DEF KeyInv
<1> QED
  BY <1>1, <1>2, <1>3, <1>4, StatusWriters

\* A replay of the key is answered with what happened: the stored answer says
\* COMPLETED exactly for the rows that are, and FAILED rows moved no money.
THEOREM VerdictsAreTrue ==
  ClockHolds /\ LeaseHolds => (Spec => []VerdictIsTruth)
<1> SUFFICES ASSUME ClockHolds, LeaseHolds PROVE Spec => []VerdictIsTruth
  OBVIOUS
<1> DEFINE Inv == TypeOK /\ BackedInv /\ ExclusiveInv /\ SettledInv /\ KeyInv
<1>1. Init => Inv
  <2>1. Init => KeyInv
    BY DEF Init, KeyInv
  <2> QED
    BY <2>1, TypeInit, BackedInit, ExclusiveInit, SettledInit
<1>2. Inv /\ [Next]_vars => Inv'
  BY TypeStep, BackedStep, ExclusiveStep, SettledStep, KeyStep
<1>3. Inv => VerdictIsTruth
  <2> SUFFICES ASSUME Inv, NEW t \in Txs
               PROVE  /\ status[t] = "FAILED" => ~Debited(t) /\ batch[t] = 0
                      /\ keyDone[t] <=> status[t] = "COMPLETED"
    BY DEF VerdictIsTruth
  <2>1. status[t] = "FAILED" => ~Debited(t) /\ batch[t] = 0
    BY DEF SettledInv, RowSettled, Untouched, BackedInv, Backed
  <2>2. keyDone[t] <=> status[t] = "COMPLETED"
    BY DEF KeyInv
  <2> QED
    BY <2>1, <2>2
<1> QED
  BY <1>1, <1>2, <1>3, PTL DEF Spec

-----------------------------------------------------------------------------
(* The escrow.                                                             *)

\* A request that is backed, for the amount due, and on no transfer that ended
\* the other way.
Lawful(m) ==
  /\ MessageBacked(m) /\ MessageSettled(m)
  /\ m.kind = "reversal" => ~Credited(m.tx)
  /\ m.kind = "credit" => ~Reversed(m.tx)

\* The steps that move money: each serves one lawful request.
LEMMA BooksWriters ==
  ASSUME LeaseHolds, TypeOK, BackedInv, ExclusiveInv, SettledInv, [Next]_vars
  PROVE  \/ UNCHANGED books
         \/ /\ UNCHANGED rowVars
            /\ \E m \in Messages : Lawful(m) /\ Accepts(m) /\ Serve(m)
<1> DEFINE Served == /\ UNCHANGED rowVars
                     /\ \E m \in Messages : Lawful(m) /\ Accepts(m) /\ Serve(m)
<1>1. UNCHANGED vars => UNCHANGED books
  BY DEF vars
<1>2. ASSUME NEW t \in Txs,
             Start(t) \/ FxWriteFails(t) \/ Age(t) \/ ExpireLease(t)
             \/ LapseLease(t)
      PROVE  UNCHANGED books
  BY <1>2 DEF Start, InsertRow, ConsumeQuote, WriteDestination, MarkFailed,
              FxWriteFails, Age, ExpireLease, LapseLease
<1>3. ASSUME NEW w \in Workers, Execute(w) \/ Fail(w)
      PROVE  UNCHANGED books \/ Served
  <2>1. CASE \/ AcquireLease(w) \/ Contended(w) \/ ReleaseLease(w)
             \/ ReadStatus(w) \/ GetReversal(w) \/ GetBatch(w)
             \/ MarkCompleted(w) \/ MarkReversed(w) \/ WriteFails(w)
             \/ FailOpen(w) \/ ReadFails(w) \/ Crash(w)
    BY <2>1 DEF AcquireLease, Contended, ReleaseLease, ReadStatus, GetReversal,
                GetBatch, FailOpen, ReadFails, Crash, MarkCompleted,
                MarkReversed, WriteFails
  <2>2. CASE \/ DebitSender(w) \/ CreateLedger(w) \/ ReverseDebit(w)
             \/ CreditRecipient(w) \/ \E k \in Kinds : PostFails(w, k)
    <3>1. PICK k \in Kinds : (\E next : Post(w, k, next)) \/ PostFails(w, k)
      BY <2>2 DEF DebitSender, CreateLedger, ReverseDebit, CreditRecipient,
                  Kinds
    <3> DEFINE m == Request(w, k)
    <3>2. m \in Messages /\ m.tx = row[w].tx /\ m.kind = k
      BY RequestType
    <3>3. pc[w] = k /\ UNCHANGED rowVars
          /\ (UNCHANGED books \/ (Accepts(m) /\ Serve(m)))
      BY <3>1 DEF Post, PostFails
    <3>4. WorkerSettled(w) /\ WorkerBacked(w) /\ WorkerExclusive(w)
      BY DEF SettledInv, BackedInv, ExclusiveInv
    <3>5. MessageSettled(m)
      BY <3>3, <3>4, RequestSettled DEF WorkerSettled, RunSteps
    <3> HIDE DEF m
    <3>6. MessageBacked(m)
      BY <3>2, <3>3, <3>4 DEF WorkerBacked, MessageBacked, Kinds
    <3>7. /\ m.kind = "reversal" => ~Credited(m.tx)
          /\ m.kind = "credit" => ~Reversed(m.tx)
      BY <3>2, <3>3, <3>4 DEF WorkerExclusive
    <3> QED
      BY <3>2, <3>3, <3>5, <3>6, <3>7 DEF Lawful
  <2> QED
    BY <1>3, <2>1, <2>2 DEF Execute, Fail
<1>4. ASSUME NEW r \in Recoverers, RecoveryTick(r) \/ IdleTick(r)
      PROVE  UNCHANGED books
  BY <1>1, <1>4 DEF RecoveryTick, IdleTick
<1>5. ASSUME NEW m \in late, Deliver(m) PROVE UNCHANGED books \/ Served
  <2>1. m \in Messages /\ Lawful(m)
    BY DEF TypeOK, BackedInv, ExclusiveInv, SettledInv, MessageExclusive, Lawful
  <2> QED
    BY <1>5, <2>1 DEF Deliver
<1> QED
  BY <1>1, <1>2, <1>3, <1>4, <1>5 DEF Next


\* What a lawful request that is not a replay does to the wallets.
LEMMA ServeMoves ==
  ASSUME TypeOK, BackedInv, ExclusiveInv, SettledInv,
         NEW m \in Messages, Lawful(m), ~Recorded(m), Accepts(m), Serve(m)
  PROVE  /\ m.kind = "batch" => balance' = balance
         /\ m.kind = "debit" =>
              /\ balance[sender[m.tx]] >= amount[m.tx]
              /\ balance' = [balance EXCEPT ![sender[m.tx]] = @ - amount[m.tx]]
         /\ m.kind = "reversal" =>
              balance' = [balance EXCEPT ![sender[m.tx]] = @ + amount[m.tx]]
         /\ m.kind = "credit" =>
              balance' = [balance EXCEPT ![recipient[m.tx]] = @ + Due(m.tx)]
<1>1. m.cents = IF m.kind \in {"batch", "credit"} THEN Due(m.tx)
                ELSE amount[m.tx]
  BY DEF Lawful, MessageSettled
<1>2. m.kind = "batch" => balance' = balance
  BY DEF Serve, CreateBatch
<1>3. ASSUME m.kind = "debit"
      PROVE  /\ balance[sender[m.tx]] >= amount[m.tx]
             /\ balance' = [balance EXCEPT ![sender[m.tx]] = @ - amount[m.tx]]
  BY <1>1, <1>3 DEF Serve, ApplyWalletOperation, Accepts, WalletOf
<1>4. ASSUME m.kind = "reversal"
      PROVE  balance' = [balance EXCEPT ![sender[m.tx]] = @ + amount[m.tx]]
  BY <1>1, <1>4 DEF Serve, ApplyWalletOperation, WalletOf
<1>5. ASSUME m.kind = "credit"
      PROVE  balance' = [balance EXCEPT ![recipient[m.tx]] = @ + Due(m.tx)]
  BY <1>1, <1>5 DEF Serve, ApplyWalletOperation, WalletOf
<1> QED
  BY <1>2, <1>3, <1>4, <1>5

\* A replay moves nothing, and a request that is not one finds the money where
\* its kind takes it from.
LEMMA ServeFinds ==
  ASSUME TypeOK, BackedInv, ExclusiveInv, SettledInv,
         NEW m \in Messages, Lawful(m)
  PROVE  /\ Accepts(m) /\ Serve(m) /\ Recorded(m) => UNCHANGED books
         /\ ~Recorded(m) /\ m.kind = "debit" =>
              PhaseOf(m.tx) = "sender" /\ VerdictOn(m.tx) = "open"
         /\ ~Recorded(m) /\ m.kind \in {"reversal", "credit"} =>
              PhaseOf(m.tx) = "held"
<1>0. /\ m.tx \in Txs /\ m.kind \in Kinds
      /\ MessageBacked(m) /\ MessageSettled(m) /\ RowSettled(m.tx)
  BY DEF Messages, Lawful, SettledInv
<1>1. ASSUME Accepts(m), Serve(m), Recorded(m) PROVE UNCHANGED books
  BY <1>1, ReplayStays DEF TypeOK, BooksOK
<1>2. ASSUME ~Recorded(m), m.kind = "debit"
      PROVE  PhaseOf(m.tx) = "sender" /\ VerdictOn(m.tx) = "open"
  <2>1. ~Debited(m.tx) /\ ~Credited(m.tx) /\ ~Reversed(m.tx)
    BY <1>0, <1>2 DEF Recorded, Debited, BackedInv, Backed
  <2>2. status[m.tx] \notin Terminal
    BY <1>0, <2>1 DEF BackedInv, Backed, MessageSettled, Untouched, Terminal
  <2> QED
    BY <2>1, <2>2 DEF PhaseOf, VerdictOn
<1>3. ASSUME ~Recorded(m), m.kind \in {"reversal", "credit"}
      PROVE  PhaseOf(m.tx) = "held"
  <2>1. Debited(m.tx)
    BY <1>0, <1>3 DEF MessageBacked
  <2>2. ~Credited(m.tx) /\ ~Reversed(m.tx)
    BY <1>3 DEF Recorded, Credited, Reversed, Lawful
  <2> QED
    BY <2>1, <2>2 DEF PhaseOf
<1> QED
  BY <1>1, <1>2, <1>3

\* Serving a lawful request is a step of the escrow, or none.
LEMMA ServeEscrow ==
  ASSUME TypeOK, BackedInv, ExclusiveInv, SettledInv, status' = status,
         NEW m \in Messages, Lawful(m), Accepts(m), Serve(m)
  PROVE  Promise!Next \/ UNCHANGED <<Phase, Verdict, balance>>
<1>0. m.tx \in Txs /\ m.kind \in Kinds /\ BooksOK
  BY DEF Messages, TypeOK, BooksOK
<1>1. Verdict' = Verdict
  BY DEF Verdict, VerdictOn
<1>2. CASE Recorded(m)
  <2>1. UNCHANGED books
    BY <1>2, ServeFinds
  <2>2. Phase' = Phase
    BY <2>1 DEF books, Phase, PhaseOf, Debited, Reversed, Credited
  <2> QED
    BY <1>1, <2>1, <2>2 DEF books
<1>3. CASE ~Recorded(m)
  <2>1. PICK u \in Txs : u = m.tx
    BY <1>0
  <2>2. \A t \in Txs \ {u} : PhaseOf(t)' = PhaseOf(t)
    <3> SUFFICES ASSUME NEW t \in Txs \ {u} PROVE PhaseOf(t)' = PhaseOf(t)
      OBVIOUS
    <3>1. /\ Debited(t)' <=> Debited(t)
          /\ Reversed(t)' <=> Reversed(t)
          /\ Credited(t)' <=> Credited(t)
      BY <1>0, <2>1, ServeEffect
    <3> QED
      BY <3>1 DEF PhaseOf
  <2>3. PhaseOf(u)' = CASE m.kind = "debit" -> "held"
                        [] m.kind = "reversal" -> "refunded"
                        [] m.kind = "credit" -> "recipient"
                        [] OTHER -> PhaseOf(u)
    <3>1. /\ Debited(u)' <=> Debited(u) \/ m.kind = "debit"
          /\ Reversed(u)' <=> Reversed(u) \/ m.kind = "reversal"
          /\ Credited(u)' <=> Credited(u) \/ m.kind = "credit"
      BY <1>0, <2>1, ServeEffect
    <3>2. /\ m.kind = "debit" => PhaseOf(u) = "sender"
          /\ m.kind \in {"reversal", "credit"} => PhaseOf(u) = "held"
      BY <1>3, <2>1, ServeFinds
    <3> QED
      BY <1>0, <3>1, <3>2 DEF PhaseOf, Kinds
  <2>4. CASE m.kind = "batch"
    <3>1. Phase' = Phase
      BY <2>2, <2>3, <2>4 DEF Phase
    <3> QED
      BY <1>1, <1>3, <2>4, <3>1, ServeMoves
  <2>5. ASSUME NEW from, NEW to, PhaseOf(u) = from, PhaseOf(u)' = to
        PROVE  Promise!Move(u, from, to)
    BY <2>2, <2>5 DEF Promise!Move, Phase
  <2>6. CASE m.kind = "debit"
    <3>1. Promise!Move(u, "sender", "held") /\ Verdict[u] = "open"
      BY <1>3, <2>1, <2>3, <2>5, <2>6, ServeFinds DEF Verdict
    <3> QED
      BY <1>1, <1>3, <2>1, <2>6, <3>1, ServeMoves
         DEF Promise!Next, Promise!Hold
  <2>7. CASE m.kind = "reversal"
    <3>1. Promise!Move(u, "held", "refunded")
      BY <1>3, <2>1, <2>3, <2>5, <2>7, ServeFinds
    <3> QED
      BY <1>1, <1>3, <2>1, <2>7, <3>1, ServeMoves
         DEF Promise!Next, Promise!Refund
  <2>8. CASE m.kind = "credit"
    <3>1. Promise!Move(u, "held", "recipient")
      BY <1>3, <2>1, <2>3, <2>5, <2>8, ServeFinds
    <3>2. Due(u) \in {amount[u], quoted[u]}
      BY DEF Due
    <3> QED
      BY <1>1, <1>3, <2>1, <2>8, <3>1, <3>2, ServeMoves
         DEF Promise!Next, Promise!Pay
  <2> QED
    BY <1>0, <2>4, <2>6, <2>7, <2>8 DEF Kinds
<1> QED
  BY <1>2, <1>3

\* Writing a status announces where the money is, or says what was said before.
LEMMA StatusEscrow ==
  ASSUME TypeOK, BackedInv, ExclusiveInv, SettledInv, [Next]_vars,
         UNCHANGED books
  PROVE  Promise!Next \/ UNCHANGED <<Phase, Verdict, balance>>
<1>1. Phase' = Phase /\ balance' = balance
  BY DEF books, Phase, PhaseOf, Debited, Reversed, Credited
<1>2. ASSUME NEW t \in Txs, NEW s \in Terminal, VerdictOn(t) = "open",
             s = Promise!VerdictOf(PhaseOf(t)),
             status' = [status EXCEPT ![t] = s]
      PROVE  Promise!Next
  <2>1. Verdict' = [Verdict EXCEPT ![t] = s]
    BY <1>2 DEF Verdict, VerdictOn, TypeOK
  <2>2. Verdict[t] = "open" /\ Phase[t] = PhaseOf(t)
    BY <1>2 DEF Verdict, Phase
  <2> QED
    BY <1>1, <1>2, <2>1, <2>2 DEF Promise!Next, Promise!Announce
<1>3. CASE status' = status
  BY <1>1, <1>3 DEF Verdict, VerdictOn
<1>4. ASSUME NEW t \in Txs, InsertRow(t)
      PROVE  UNCHANGED <<Phase, Verdict, balance>>
  <2>1. status[t] = "absent"
    BY <1>4 DEF InsertRow, SettledInv, RowSettled
  <2>2. status' = [status EXCEPT ![t] = "PROCESSING"]
    BY <1>4 DEF InsertRow
  <2> QED
    BY <1>1, <2>1, <2>2 DEF Verdict, VerdictOn, TypeOK, Terminal
<1>5. ASSUME NEW t \in Txs, MarkFailed(t) PROVE Promise!Next
  <2>1. status[t] = "PROCESSING" /\ ~Debited(t)
    BY <1>5 DEF MarkFailed, SettledInv, RowSettled, Untouched, FxSteps
  <2>2. PhaseOf(t) = "sender" /\ VerdictOn(t) = "open"
    BY <2>1 DEF PhaseOf, VerdictOn, BackedInv, Backed, Terminal
  <2> QED
    BY <1>2, <1>5, <2>2 DEF MarkFailed, Promise!VerdictOf, Terminal
<1>6. ASSUME NEW t \in Txs, NEW s \in {"COMPLETED", "REVERSED"}, Settle(t, s),
             PhaseOf(t) = IF s = "COMPLETED" THEN "recipient" ELSE "refunded"
      PROVE  Promise!Next \/ UNCHANGED <<Phase, Verdict, balance>>
  <2>1. CASE status[t] = "PROCESSING"
    <3>1. VerdictOn(t) = "open" /\ s \in Terminal
      BY <2>1 DEF VerdictOn, Terminal
    <3>2. s = Promise!VerdictOf(PhaseOf(t))
      BY <1>6 DEF Promise!VerdictOf
    <3>3. status' = [status EXCEPT ![t] = s]
      BY <1>6, <2>1 DEF Settle
    <3> QED
      BY <1>2, <3>1, <3>2, <3>3
  <2>2. CASE status[t] # "PROCESSING"
    <3>1. status' = status
      BY <1>6, <2>2 DEF Settle, TypeOK
    <3> QED
      BY <1>3, <3>1
  <2> QED
    BY <2>1, <2>2
<1>7. ASSUME NEW w \in Workers,
             \/ pc[w] = "complete" /\ Complete(row[w].tx)
             \/ pc[w] = "markReversed" /\ Settle(row[w].tx, "REVERSED")
      PROVE  Promise!Next \/ UNCHANGED <<Phase, Verdict, balance>>
  <2>1. PICK t \in Txs : t = row[w].tx
    BY DEF TypeOK, Rows
  <2>2. CASE pc[w] = "complete" /\ Complete(row[w].tx)
    <3>1. PhaseOf(t) = "recipient" /\ Settle(t, "COMPLETED")
      BY <2>1, <2>2 DEF BackedInv, WorkerBacked, PhaseOf, Complete
    <3> QED
      BY <1>6, <3>1
  <2>3. CASE pc[w] = "markReversed" /\ Settle(row[w].tx, "REVERSED")
    <3>1. PhaseOf(t) = "refunded" /\ Settle(t, "REVERSED")
      BY <2>1, <2>3
         DEF BackedInv, WorkerBacked, ExclusiveInv, NoMoneyCreated, PhaseOf
    <3> QED
      BY <1>6, <3>1
  <2> QED
    BY <1>7, <2>2, <2>3
<1> QED
  BY <1>3, <1>4, <1>5, <1>7, StatusWriters

\* The transfers implement the escrow: whatever crashes, is lost, lands late or
\* is retried, the sender's money is taken at most once and ends either with the
\* recipient or with the sender again, and what is announced says which.
THEOREM TransfersImplementEscrow ==
  ClockHolds /\ LeaseHolds => (Spec => ImplementsEscrow)
<1> SUFFICES ASSUME ClockHolds, LeaseHolds PROVE Spec => ImplementsEscrow
  OBVIOUS
<1> DEFINE Inv == TypeOK /\ BackedInv /\ ExclusiveInv /\ SettledInv
<1>1. Init => Inv
  BY TypeInit, BackedInit, ExclusiveInit, SettledInit
<1>2. Inv /\ [Next]_vars => Inv'
  BY TypeStep, BackedStep, ExclusiveStep, SettledStep
<1>3. Init => Promise!Init
  <2> SUFFICES ASSUME Init PROVE Promise!Init
    OBVIOUS
  <2>1. Phase = [t \in Txs |-> "sender"]
    BY DEF Init, Phase, PhaseOf, Debited, Reversed, Credited, Kinds
  <2>2. Verdict = [t \in Txs |-> "open"]
    BY DEF Init, Verdict, VerdictOn, Terminal
  <2> QED
    BY <2>1, <2>2 DEF Init, Promise!Init
<1>4. Inv /\ [Next]_vars => [Promise!Next]_<<Phase, Verdict, balance>>
  <2> SUFFICES ASSUME Inv, [Next]_vars
               PROVE  Promise!Next \/ UNCHANGED <<Phase, Verdict, balance>>
    OBVIOUS
  <2>1. CASE UNCHANGED books
    BY <2>1, StatusEscrow
  <2>2. ASSUME UNCHANGED rowVars, NEW m \in Messages, Lawful(m), Accepts(m),
               Serve(m)
        PROVE  Promise!Next \/ UNCHANGED <<Phase, Verdict, balance>>
    BY <2>2, ServeEscrow DEF rowVars
  <2> QED
    BY <2>1, <2>2, BooksWriters
<1> HIDE DEF Inv
<1> QED
  BY <1>1, <1>2, <1>3, <1>4, PTL DEF Spec, ImplementsEscrow, Promise!Spec,
     Promise!vars

-----------------------------------------------------------------------------
(* The wallets and the history.                                            *)

\* What the recorded operations of a transfer add to a wallet.
Net(w) == [t \in Txs |->
             (IF recipient[t] = w THEN op[t]["credit"] ELSE 0)
             + (IF sender[t] = w THEN op[t]["reversal"] - op[t]["debit"] ELSE 0)]

\* Every balance is the opening balance and what the operations added to it.
Bookkeeping ==
  \A w \in Wallets : balance[w] = initial[w] + SumFunctionOnSet(Net(w), Txs)

LEMMA NetType ==
  ASSUME BooksOK, NEW w \in Wallets, NEW t \in Txs
  PROVE  Net(w)[t] \in Int
BY DEF BooksOK, Net, Kinds

LEMMA ServeBookkeeping ==
  ASSUME IsFiniteSet(Txs), BooksOK, Bookkeeping,
         NEW m \in Messages, Accepts(m), Serve(m)
  PROVE  Bookkeeping'
<1> SUFFICES ASSUME NEW w \in Wallets
             PROVE  balance'[w] = initial[w] + SumFunctionOnSet(Net(w)', Txs)
  BY DEF Bookkeeping
<1>0. PICK u \in Txs : u = m.tx
  BY DEF Messages
<1>1. m.cents \in Nat /\ m.kind \in Kinds /\ WalletOf(m) \in Wallets
  BY DEF Messages, WalletOf
<1>2. \A t \in Txs \ {u} : Net(w)'[t] = Net(w)[t]
  BY <1>0, <1>1 DEF Net, Serve, CreateBatch, ApplyWalletOperation, BooksOK
<1>3. balance'[w] - balance[w] = Net(w)'[u] - Net(w)[u]
  <2>1. CASE m.kind = "batch"
    <3>1. Net(w)'[u] = Net(w)[u] /\ balance'[w] = balance[w]
      BY <2>1 DEF Serve, CreateBatch, Net
    <3>2. Net(w)[u] \in Int /\ balance[w] \in Nat
      BY NetType DEF BooksOK
    <3> QED
      BY <3>1, <3>2
  <2>2. CASE m.kind # "batch"
    <3>1. /\ op' = [op EXCEPT ![u][m.kind] = IF @ = 0 THEN m.cents ELSE @]
          /\ balance' = [balance EXCEPT ![WalletOf(m)] =
               IF Recorded(m) THEN @
               ELSE IF m.kind = "debit" THEN @ - m.cents ELSE @ + m.cents]
      BY <1>0, <2>2 DEF Serve, ApplyWalletOperation
    <3>2. Recorded(m) <=> op[u][m.kind] # 0
      BY <1>0, <2>2 DEF Recorded
    <3>3. WalletOf(m) = IF m.kind = "credit" THEN recipient[u] ELSE sender[u]
      BY <1>0 DEF WalletOf
    <3>4. balance[w] \in Nat /\ op[u] \in [Kinds \ {"batch"} -> Nat]
      BY DEF BooksOK
    <3>5. balance'[w] = IF WalletOf(m) # w \/ op[u][m.kind] # 0 THEN balance[w]
                        ELSE IF m.kind = "debit" THEN balance[w] - m.cents
                        ELSE balance[w] + m.cents
      BY <1>1, <3>1, <3>2 DEF BooksOK
    <3>6. \A k \in Kinds \ {"batch"} :
            op'[u][k] = IF k = m.kind /\ op[u][k] = 0 THEN m.cents ELSE op[u][k]
      BY <2>2, <3>1, <3>4 DEF BooksOK
    <3>7. m.kind \in {"debit", "reversal", "credit"}
      BY <1>1, <2>2 DEF Kinds
    <3>8. \A k \in {"debit", "reversal", "credit"} :
            /\ op[u][k] \in Nat
            /\ op'[u][k] = IF k = m.kind /\ op[u][k] = 0 THEN m.cents
                           ELSE op[u][k]
      BY <3>4, <3>6 DEF Kinds
    <3>9. /\ Net(w)[u] = (IF recipient[u] = w THEN op[u]["credit"] ELSE 0)
               + (IF sender[u] = w THEN op[u]["reversal"] - op[u]["debit"] ELSE 0)
          /\ Net(w)'[u] = (IF recipient[u] = w THEN op'[u]["credit"] ELSE 0)
               + (IF sender[u] = w THEN op'[u]["reversal"] - op'[u]["debit"]
                  ELSE 0)
      BY DEF Net
    <3>10. CASE m.kind = "debit"
      <4>1. /\ op'[u]["reversal"] = op[u]["reversal"]
            /\ op'[u]["credit"] = op[u]["credit"]
            /\ op'[u]["debit"] = IF op[u]["debit"] = 0 THEN m.cents
                              ELSE op[u]["debit"]
            /\ op[u]["debit"] \in Nat /\ op[u]["reversal"] \in Nat
            /\ op[u]["credit"] \in Nat
        BY <3>8, <3>10
      <4> QED
        BY <1>1, <3>3, <3>4, <3>5, <3>9, <3>10, <4>1
    <3>11. CASE m.kind = "reversal"
      <4>1. /\ op'[u]["debit"] = op[u]["debit"]
            /\ op'[u]["credit"] = op[u]["credit"]
            /\ op'[u]["reversal"] = IF op[u]["reversal"] = 0 THEN m.cents
                              ELSE op[u]["reversal"]
            /\ op[u]["debit"] \in Nat /\ op[u]["reversal"] \in Nat
            /\ op[u]["credit"] \in Nat
        BY <3>8, <3>11
      <4> QED
        BY <1>1, <3>3, <3>4, <3>5, <3>9, <3>11, <4>1
    <3>12. CASE m.kind = "credit"
      <4>1. /\ op'[u]["debit"] = op[u]["debit"]
            /\ op'[u]["reversal"] = op[u]["reversal"]
            /\ op'[u]["credit"] = IF op[u]["credit"] = 0 THEN m.cents
                              ELSE op[u]["credit"]
            /\ op[u]["debit"] \in Nat /\ op[u]["reversal"] \in Nat
            /\ op[u]["credit"] \in Nat
        BY <3>8, <3>12
      <4> QED
        BY <1>1, <3>3, <3>4, <3>5, <3>9, <3>12, <4>1
    <3> QED
      BY <3>7, <3>10, <3>11, <3>12
  <2> QED
    BY <2>1, <2>2
<1>4. BooksOK' /\ \A t \in Txs : Net(w)[t] \in Int /\ Net(w)'[t] \in Int
  <2>1. BooksOK'
    BY ServeType
  <2> QED
    BY <2>1, NetType DEF BooksOK, Net, Kinds
<1>5. SumFunctionOnSet(Net(w)', Txs)
        = SumFunctionOnSet(Net(w), Txs) + (Net(w)'[u] - Net(w)[u])
  <2>1. PICK f, g : f = Net(w) /\ g = Net(w)'
    OBVIOUS
  <2>2. /\ \A t \in Txs : f[t] \in Int /\ g[t] \in Int
        /\ \A t \in Txs \ {u} : f[t] = g[t]
    BY <1>2, <1>4, <2>1
  <2>3. SumFunctionOnSet(g, Txs) = SumFunctionOnSet(f, Txs) + (g[u] - f[u])
    BY <2>2, TermChange
  <2> QED
    BY <2>1, <2>3
<1>6. PICK s \in Int : s = SumFunctionOnSet(Net(w), Txs)
  BY <1>4, SumInt
<1>7. balance[w] = initial[w] + s
  BY <1>6 DEF Bookkeeping
<1>8. SumFunctionOnSet(Net(w)', Txs) = s + (Net(w)'[u] - Net(w)[u])
  BY <1>5, <1>6, Zenon
<1>9. balance[w] \in Int /\ balance'[w] \in Int /\ initial[w] \in Int
  BY <1>4 DEF BooksOK
<1> QED
  BY <1>3, <1>4, <1>7, <1>8, <1>9

\* What a transfer whose row has a terminal status added to a wallet.
LEMMA SettledNet ==
  ASSUME TypeOK, BackedInv, ExclusiveInv, SettledInv, NEW w \in Wallets,
         NEW t \in Txs, status[t] # "PROCESSING"
  PROVE  /\ op[t]["credit"] \in Int /\ amount[t] \in Int /\ Net(w)[t] \in Int
         /\ (IF t \in Done /\ recipient[t] = w THEN op[t]["credit"] ELSE 0)
              = Net(w)[t] + (IF t \in Done /\ sender[t] = w THEN amount[t] ELSE 0)
<1> DEFINE c == op[t]["credit"]
           r == op[t]["reversal"]
           d == op[t]["debit"]
<1>1. /\ c \in Nat /\ r \in Nat /\ d \in Nat /\ amount[t] \in Nat
      /\ Net(w)[t] = (IF recipient[t] = w THEN c ELSE 0)
                     + (IF sender[t] = w THEN r - d ELSE 0)
  BY DEF TypeOK, Kinds, Net
<1>2. RowSettled(t) /\ BooksSettled(t)
  BY DEF SettledInv
<1>3. CASE status[t] = "COMPLETED"
  <2>1. Credited(t) /\ ~Reversed(t) /\ Debited(t)
    BY <1>3 DEF BackedInv, Backed, ExclusiveInv, NoMoneyCreated
  <2>2. r = 0 /\ d = amount[t] /\ t \in Done
    BY <1>2, <1>3, <2>1 DEF Reversed, BooksSettled, Done
  <2> HIDE DEF c, r, d
  <2> QED
    BY <1>1, <2>2 DEF c
<1>4. CASE status[t] # "COMPLETED"
  <2>1. c = 0 /\ r = d
    <3>1. CASE status[t] = "REVERSED"
      BY <1>2, <3>1 DEF BackedInv, Backed, ExclusiveInv, NoMoneyCreated,
                       BooksSettled, Credited
    <3>2. CASE status[t] \in {"absent", "FAILED"}
      <4>1. ~Debited(t)
        BY <1>2, <3>2 DEF RowSettled, Untouched
      <4>2. ~Credited(t) /\ ~Reversed(t)
        BY <4>1 DEF BackedInv, Backed
      <4> QED
        BY <4>1, <4>2 DEF Debited, Credited, Reversed
    <3> QED
      BY <1>4, <3>1, <3>2 DEF TypeOK, Statuses
  <2>2. t \notin Done
    BY <1>4 DEF Done
  <2> HIDE DEF c, r, d
  <2> QED
    BY <1>1, <2>1, <2>2 DEF c
<1> QED
  BY <1>3, <1>4

LEMMA BooksMatch ==
  ASSUME IsFiniteSet(Txs), TypeOK, BackedInv, ExclusiveInv, SettledInv,
         Bookkeeping
  PROVE  BooksMatchHistory
<1> SUFFICES ASSUME \A t \in Txs : status[t] # "PROCESSING", NEW w \in Wallets
             PROVE  balance[w] + Paid({t \in Done : sender[t] = w})
                      = initial[w] + Earned({t \in Done : recipient[t] = w})
  BY DEF BooksMatchHistory
<1> DEFINE From   == {t \in Done : sender[t] = w}
           To     == {t \in Done : recipient[t] = w}
           credit == [t \in Txs |-> op[t]["credit"]]
           paid   == [t \in Txs |-> IF t \in From THEN amount[t] ELSE 0]
           earned == [t \in Txs |-> IF t \in To THEN credit[t] ELSE 0]
<1>1. \A t \in Txs : /\ credit[t] \in Int /\ amount[t] \in Int
                     /\ Net(w)[t] \in Int /\ paid[t] \in Int
                     /\ earned[t] = Net(w)[t] + paid[t]
  <2> SUFFICES ASSUME NEW t \in Txs
               PROVE  /\ credit[t] \in Int /\ amount[t] \in Int
                      /\ Net(w)[t] \in Int /\ paid[t] \in Int
                      /\ earned[t] = Net(w)[t] + paid[t]
    OBVIOUS
  <2>1. /\ t \in From <=> t \in Done /\ sender[t] = w
        /\ t \in To <=> t \in Done /\ recipient[t] = w
    OBVIOUS
  <2>2. /\ paid[t] = IF t \in Done /\ sender[t] = w THEN amount[t] ELSE 0
        /\ earned[t] = IF t \in Done /\ recipient[t] = w THEN op[t]["credit"]
                       ELSE 0
    BY <2>1
  <2> HIDE DEF From, To, paid, earned
  <2> QED
    BY <2>2, SettledNet
<1>2. From \in SUBSET Txs /\ To \in SUBSET Txs
  BY DEF Done
<1>3. PICK net : net = Net(w)
  OBVIOUS
<1>4. Paid(From) = SumFunctionOnSet(paid, Txs)
  <2> HIDE DEF From
  <2> QED
    BY <1>1, <1>2, SumOver DEF Paid
<1>5. Earned(To) = SumFunctionOnSet(earned, Txs)
  <2>1. Earned(To) = SumFunctionOnSet(credit, To)
    BY DEF Earned
  <2> HIDE DEF To, credit
  <2> QED
    BY <1>1, <1>2, <2>1, SumOver
<1> HIDE DEF From, To, credit, paid, earned
<1>6. SumFunctionOnSet(earned, Txs)
        = SumFunctionOnSet(net, Txs) + SumFunctionOnSet(paid, Txs)
  BY <1>1, <1>3, SumBoth
<1>7. /\ SumFunctionOnSet(net, Txs) \in Int
      /\ SumFunctionOnSet(paid, Txs) \in Int
  BY <1>1, <1>3, SumInt
<1>8. balance[w] = initial[w] + SumFunctionOnSet(net, Txs)
  BY <1>3 DEF Bookkeeping
<1>9. balance[w] + Paid(From) = initial[w] + Earned(To)
  <2>1. PICK a \in Int, b \in Int : /\ a = SumFunctionOnSet(net, Txs)
                                   /\ b = SumFunctionOnSet(paid, Txs)
    BY <1>7
  <2>2. /\ Earned(To) = a + b /\ Paid(From) = b /\ balance[w] = initial[w] + a
    BY <1>4, <1>5, <1>6, <1>8, <2>1, Zenon
  <2> QED
    BY <2>2
<1> QED
  BY <1>9 DEF From, To

\* When every row has a terminal status, each wallet differs from its opening
\* balance by exactly the transfers whose rows say COMPLETED: the history and the
\* balances, kept by two services, tell the same story.
THEOREM BooksMatchTheHistory ==
  ASSUME IsFiniteSet(Txs), ClockHolds, LeaseHolds
  PROVE  Spec => []BooksMatchHistory
<1> DEFINE Inv == /\ TypeOK /\ BackedInv /\ ExclusiveInv /\ SettledInv
                  /\ Bookkeeping
<1>1. Init => Inv
  <2>1. Init => Bookkeeping
    <3> SUFFICES ASSUME Init, NEW w \in Wallets
                 PROVE  balance[w] = initial[w] + SumFunctionOnSet(Net(w), Txs)
      BY DEF Bookkeeping
    <3>1. PICK net : net = Net(w)
      OBVIOUS
    <3>2. \A t \in Txs : net[t] = 0
      BY <3>1 DEF Init, Net, Kinds
    <3>3. SumFunctionOnSet(net, Txs) = 0
      BY <3>2, SumNothing
    <3>4. balance[w] = initial[w] /\ initial[w] \in Nat
      BY DEF Init
    <3> QED
      BY <3>1, <3>3, <3>4
  <2> QED
    BY <2>1, TypeInit, BackedInit, ExclusiveInit, SettledInit
<1>2. Inv /\ [Next]_vars => Inv'
  <2> SUFFICES ASSUME Inv, [Next]_vars PROVE Inv'
    OBVIOUS
  <2>1. Bookkeeping'
    <3>1. CASE UNCHANGED books
      BY <3>1 DEF Bookkeeping, Net, books
    <3>2. ASSUME NEW m \in Messages, Accepts(m), Serve(m) PROVE Bookkeeping'
      BY <3>2, ServeBookkeeping DEF TypeOK, BooksOK
    <3> QED
      BY <3>1, <3>2, BooksWriters
  <2> QED
    BY <2>1, TypeStep, BackedStep, ExclusiveStep, SettledStep
<1>3. Inv => BooksMatchHistory
  BY BooksMatch
<1> HIDE DEF Inv
<1> QED
  BY <1>1, <1>2, <1>3, PTL DEF Spec

-----------------------------------------------------------------------------
(* All the money.                                                          *)

\* What a transfer has taken from the wallets and not given back to them.
Flow == [t \in Txs |-> op[t]["debit"] - op[t]["reversal"] - op[t]["credit"]]

\* What wallets have lost, transfers have taken.
AllBalances == Total(balance) + SumFunctionOnSet(Flow, Txs) = Total(initial)

LEMMA FlowType ==
  ASSUME BooksOK, NEW t \in Txs
  PROVE  /\ Flow[t] = op[t]["debit"] - op[t]["reversal"] - op[t]["credit"]
         /\ Flow[t] \in Int
BY DEF BooksOK, Flow, Kinds

\* A served call moves money between one wallet and one transfer.
LEMMA ServeMovesMoney ==
  ASSUME BooksOK, NEW m \in Messages, Accepts(m), Serve(m)
  PROVE  /\ \A w \in Wallets \ {WalletOf(m)} : balance'[w] = balance[w]
         /\ \A t \in Txs \ {m.tx} : Flow'[t] = Flow[t]
         /\ balance'[WalletOf(m)] - balance[WalletOf(m)]
              = Flow[m.tx] - Flow'[m.tx]
<1>1. /\ m.tx \in Txs /\ m.cents \in Nat /\ m.kind \in Kinds
      /\ WalletOf(m) \in Wallets
  BY DEF Messages, WalletOf
<1>2. BooksOK'
  BY ServeType
<1>3. CASE m.kind = "batch"
  <2>1. op' = op /\ balance' = balance
    BY <1>3 DEF Serve, CreateBatch
  <2>2. balance[WalletOf(m)] \in Nat /\ Flow[m.tx] \in Int
    BY <1>1, FlowType DEF BooksOK
  <2> QED
    BY <2>1, <2>2 DEF Flow
<1>4. CASE m.kind # "batch"
  <2>1. PICK u \in Txs, k \in {"debit", "reversal", "credit"},
             w \in Wallets, c \in Nat :
               u = m.tx /\ k = m.kind /\ w = WalletOf(m) /\ c = m.cents
    BY <1>1, <1>4 DEF Kinds
  <2>2. /\ op' = [op EXCEPT ![u][k] = IF @ = 0 THEN c ELSE @]
        /\ balance' = [balance EXCEPT ![w] =
             IF op[u][k] # 0 THEN @ ELSE IF k = "debit" THEN @ - c ELSE @ + c]
    BY <1>4, <2>1 DEF Serve, ApplyWalletOperation, Recorded
  <2>3. /\ \A v \in Wallets \ {w} : balance'[v] = balance[v]
        /\ balance'[w] = IF op[u][k] # 0 THEN balance[w]
                         ELSE IF k = "debit" THEN balance[w] - c
                         ELSE balance[w] + c
        /\ balance[w] \in Nat
    BY <2>2 DEF BooksOK
  <2>4. /\ \A t \in Txs \ {u} : op'[t] = op[t]
        /\ \A j \in {"debit", "reversal", "credit"} :
             /\ op[u][j] \in Nat
             /\ op'[u][j] = IF j = k /\ op[u][j] = 0 THEN c ELSE op[u][j]
    <3>1. /\ op \in [Txs -> [Kinds \ {"batch"} -> Nat]]
          /\ {"debit", "reversal", "credit"} = Kinds \ {"batch"}
      BY DEF BooksOK, Kinds
    <3>2. op[u] \in [{"debit", "reversal", "credit"} -> Nat]
      BY <3>1
    <3>3. /\ \A t \in Txs \ {u} : op'[t] = op[t]
          /\ op'[u] = [op[u] EXCEPT ![k] = IF @ = 0 THEN c ELSE @]
      BY <2>2, <3>1
    <3> QED
      BY <3>2, <3>3
  <2>5. \A t \in Txs \ {u} : Flow'[t] = Flow[t]
    BY <2>4 DEF Flow
  <2>6. /\ Flow[u] = op[u]["debit"] - op[u]["reversal"] - op[u]["credit"]
        /\ Flow'[u] = op'[u]["debit"] - op'[u]["reversal"] - op'[u]["credit"]
    BY DEF Flow
  <2>7. balance'[w] - balance[w] = Flow[u] - Flow'[u]
    <3>1. CASE k = "debit"
      BY <2>3, <2>4, <2>6, <3>1
    <3>2. CASE k = "reversal"
      BY <2>3, <2>4, <2>6, <3>2
    <3>3. CASE k = "credit"
      BY <2>3, <2>4, <2>6, <3>3
    <3> QED
      BY <3>1, <3>2, <3>3
  <2> QED
    BY <2>1, <2>3, <2>5, <2>7
<1> QED
  BY <1>3, <1>4

LEMMA ServeAllBalances ==
  ASSUME IsFiniteSet(Txs), IsFiniteSet(Wallets), BooksOK, AllBalances,
         NEW m \in Messages, Accepts(m), Serve(m)
  PROVE  AllBalances'
<1>1. PICK u \in Txs, v \in Wallets : u = m.tx /\ v = WalletOf(m)
  BY DEF Messages, WalletOf
<1>2. PICK b, c, f, g : /\ b = balance /\ c = balance'
                        /\ f = Flow /\ g = Flow'
  OBVIOUS
<1>3. /\ \A w \in Wallets : b[w] \in Int /\ c[w] \in Int
      /\ \A t \in Txs : f[t] \in Int /\ g[t] \in Int
  <2>1. BooksOK'
    BY ServeType
  <2>2. \A w \in Wallets : balance[w] \in Int /\ balance'[w] \in Int
    BY <2>1 DEF BooksOK
  <2>3. \A t \in Txs : Flow[t] \in Int
    BY FlowType
  <2>4. \A t \in Txs : Flow'[t] \in Int
    BY <2>1 DEF BooksOK, Flow, Kinds
  <2> QED
    BY <1>2, <2>2, <2>3, <2>4
<1>4. /\ \A w \in Wallets : w # v => b[w] = c[w]
      /\ \A t \in Txs : t # u => f[t] = g[t]
      /\ c[v] - b[v] = f[u] - g[u]
  BY <1>1, <1>2, ServeMovesMoney
<1>5. SumFunctionOnSet(c, Wallets)
        = SumFunctionOnSet(b, Wallets) + (c[v] - b[v])
  <2>1. /\ \A w \in Wallets : b[w] \in Int
        /\ \A w \in Wallets : c[w] \in Int
        /\ \A w \in Wallets : w # v => b[w] = c[w]
    BY <1>3, <1>4
  <2> QED
    BY <2>1, PartChange
<1>6. SumFunctionOnSet(g, Txs) = SumFunctionOnSet(f, Txs) + (g[u] - f[u])
  BY <1>3, <1>4, TermChange
<1>7. PICK x \in Int, y \in Int : /\ x = SumFunctionOnSet(b, Wallets)
                                 /\ y = SumFunctionOnSet(f, Txs)
  BY <1>3, SumInt
<1>8. /\ SumFunctionOnSet(c, Wallets) = x + (c[v] - b[v])
      /\ SumFunctionOnSet(g, Txs) = y + (g[u] - f[u])
  BY <1>5, <1>6, <1>7, Zenon
<1>9. x + y = Total(initial)
  BY <1>2, <1>7 DEF AllBalances, Total
<1>10. SumFunctionOnSet(c, Wallets) + SumFunctionOnSet(g, Txs) = Total(initial)
  <2>1. (x + (c[v] - b[v])) + (y + (g[u] - f[u])) = x + y
    BY <1>3, <1>4
  <2> QED
    BY <1>8, <1>9, <2>1, Zenon
<1> QED
  BY <1>2, <1>10 DEF AllBalances, Total

\* What a transfer has taken and not given back, by where its money is.
LEMMA FlowOfPhase ==
  ASSUME TypeOK, BackedInv, ExclusiveInv, SettledInv, NEW t \in Txs
  PROVE  /\ op[t]["credit"] \in Int /\ amount[t] \in Int /\ Flow[t] \in Int
         /\ (IF PhaseOf(t) \in {"held", "recipient"} THEN amount[t] ELSE 0)
              = Flow[t]
                + (IF PhaseOf(t) = "recipient" THEN op[t]["credit"] ELSE 0)
<1> DEFINE c == op[t]["credit"]
           r == op[t]["reversal"]
           d == op[t]["debit"]
<1>1. /\ c \in Nat /\ r \in Nat /\ d \in Nat /\ amount[t] \in Nat
      /\ Flow[t] = d - r - c
  BY DEF TypeOK, Kinds, Flow
<1>2. /\ BooksSettled(t) /\ Backed /\ ~(Credited(t) /\ Reversed(t))
  BY DEF SettledInv, BackedInv, ExclusiveInv, NoMoneyCreated
<1>3. /\ Credited(t) <=> c # 0
      /\ Reversed(t) <=> r # 0
      /\ Debited(t) <=> d # 0
  BY DEF Credited, Reversed, Debited
<1>4. /\ Credited(t) => Debited(t)
      /\ Reversed(t) => Debited(t)
  BY <1>2 DEF Backed
<1>5. /\ Debited(t) => d = amount[t]
      /\ Reversed(t) => r = amount[t]
  BY <1>2 DEF BooksSettled
<1> HIDE DEF c, r, d
<1>6. CASE Credited(t)
  <2>1. PhaseOf(t) = "recipient" /\ r = 0 /\ d = amount[t]
    BY <1>2, <1>3, <1>4, <1>5, <1>6 DEF PhaseOf
  <2> QED
    BY <1>1, <2>1 DEF c
<1>7. CASE ~Credited(t) /\ Reversed(t)
  <2>1. PhaseOf(t) = "refunded" /\ c = 0 /\ r = d
    BY <1>3, <1>4, <1>5, <1>7 DEF PhaseOf
  <2> QED
    BY <1>1, <2>1 DEF c
<1>8. CASE ~Credited(t) /\ ~Reversed(t) /\ Debited(t)
  <2>1. PhaseOf(t) = "held" /\ c = 0 /\ r = 0 /\ d = amount[t]
    BY <1>3, <1>5, <1>8 DEF PhaseOf
  <2> QED
    BY <1>1, <2>1 DEF c
<1>9. CASE ~Credited(t) /\ ~Reversed(t) /\ ~Debited(t)
  <2>1. PhaseOf(t) = "sender" /\ c = 0 /\ r = 0 /\ d = 0
    BY <1>3, <1>9 DEF PhaseOf
  <2> QED
    BY <1>1, <2>1 DEF c
<1> QED
  BY <1>6, <1>7, <1>8, <1>9

LEMMA MoneyAddsUp ==
  ASSUME IsFiniteSet(Txs), IsFiniteSet(Wallets), TypeOK, BackedInv,
         ExclusiveInv, SettledInv, AllBalances
  PROVE  MoneyConserved
<1> DEFINE Taken  == {t \in Txs : PhaseOf(t) \in {"held", "recipient"}}
           Given  == {t \in Txs : PhaseOf(t) = "recipient"}
           credit == [t \in Txs |-> op[t]["credit"]]
           paid   == [t \in Txs |-> IF t \in Taken THEN amount[t] ELSE 0]
           earned == [t \in Txs |-> IF t \in Given THEN credit[t] ELSE 0]
<1>1. \A t \in Txs : /\ credit[t] \in Int /\ amount[t] \in Int
                     /\ Flow[t] \in Int /\ earned[t] \in Int
                     /\ paid[t] = Flow[t] + earned[t]
  <2> SUFFICES ASSUME NEW t \in Txs
               PROVE  /\ credit[t] \in Int /\ amount[t] \in Int
                      /\ Flow[t] \in Int /\ earned[t] \in Int
                      /\ paid[t] = Flow[t] + earned[t]
    OBVIOUS
  <2>1. /\ credit[t] = op[t]["credit"]
        /\ paid[t] = IF PhaseOf(t) \in {"held", "recipient"} THEN amount[t]
                     ELSE 0
        /\ earned[t] = IF PhaseOf(t) = "recipient" THEN op[t]["credit"] ELSE 0
    OBVIOUS
  <2> HIDE DEF Taken, Given, credit, paid, earned
  <2> QED
    BY <2>1, FlowOfPhase
<1>2. Taken \in SUBSET Txs /\ Given \in SUBSET Txs
  OBVIOUS
<1>3. Paid(Taken) = SumFunctionOnSet(paid, Txs)
  <2> HIDE DEF Taken
  <2> QED
    BY <1>1, <1>2, SumOver DEF Paid
<1>4. Earned(Given) = SumFunctionOnSet(earned, Txs)
  <2>1. Earned(Given) = SumFunctionOnSet(credit, Given)
    BY DEF Earned
  <2> HIDE DEF Given, credit
  <2> QED
    BY <1>1, <1>2, <2>1, SumOver
<1>5. PICK flow : flow = Flow
  OBVIOUS
<1> HIDE DEF Taken, Given, credit, paid, earned
<1>6. SumFunctionOnSet(paid, Txs)
        = SumFunctionOnSet(flow, Txs) + SumFunctionOnSet(earned, Txs)
  BY <1>1, <1>5, SumBoth
<1>7. PICK x \in Int, y \in Int, z \in Int :
        /\ x = SumFunctionOnSet(flow, Txs)
        /\ y = SumFunctionOnSet(earned, Txs)
        /\ z = Total(balance)
  <2>1. \A w \in Wallets : balance[w] \in Int
    BY DEF TypeOK
  <2> QED
    BY <1>1, <1>5, <2>1, SumInt DEF Total
<1>8. z + x = Total(initial)
  BY <1>5, <1>7 DEF AllBalances
<1>9. Paid(Taken) = x + y /\ Earned(Given) = y
  BY <1>3, <1>4, <1>6, <1>7, Zenon
<1>10. z + (x + y) = (z + x) + y
  BY <1>7
<1>11. Total(balance) + Paid(Taken) = Total(initial) + Earned(Given)
  BY <1>7, <1>8, <1>9, <1>10, Zenon
<1> QED
  BY <1>11 DEF MoneyConserved, Taken, Given

\* Money is conserved in every state, also between a debit and the payment or
\* refund that follows it: what the wallets lack of their opening balances, and
\* what recipients were paid, is what transfers have taken and not refunded.
THEOREM MoneyIsConserved ==
  ASSUME IsFiniteSet(Txs), IsFiniteSet(Wallets), ClockHolds, LeaseHolds
  PROVE  Spec => []MoneyConserved
<1> DEFINE Inv == /\ TypeOK /\ BackedInv /\ ExclusiveInv /\ SettledInv
                  /\ AllBalances
<1>1. Init => Inv
  <2>1. Init => AllBalances
    <3> SUFFICES ASSUME Init PROVE AllBalances
      OBVIOUS
    <3>1. PICK flow : flow = Flow
      OBVIOUS
    <3>2. \A t \in Txs : flow[t] = 0
      BY <3>1 DEF Init, Flow, Kinds
    <3>3. SumFunctionOnSet(Flow, Txs) = 0
      BY <3>1, <3>2, SumNothing
    <3>4. Total(initial) \in Int
      BY SumInt DEF Total
    <3>5. Total(balance) = Total(initial)
      BY DEF Init
    <3> QED
      BY <3>3, <3>4, <3>5 DEF AllBalances
  <2> QED
    BY <2>1, TypeInit, BackedInit, ExclusiveInit, SettledInit
<1>2. Inv /\ [Next]_vars => Inv'
  <2> SUFFICES ASSUME Inv, [Next]_vars PROVE Inv'
    OBVIOUS
  <2>1. AllBalances'
    <3>1. CASE UNCHANGED books
      BY <3>1 DEF AllBalances, Flow, Total, books
    <3>2. ASSUME NEW m \in Messages, Accepts(m), Serve(m) PROVE AllBalances'
      BY <3>2, ServeAllBalances DEF TypeOK, BooksOK
    <3> QED
      BY <3>1, <3>2, BooksWriters
  <2> QED
    BY <2>1, TypeStep, BackedStep, ExclusiveStep, SettledStep
<1>3. Inv => MoneyConserved
  BY MoneyAddsUp
<1> HIDE DEF Inv
<1> QED
  BY <1>1, <1>2, <1>3, PTL DEF Spec

-----------------------------------------------------------------------------
(* The stores of the other services.                                       *)

\* A request for an amount that the transfer has.
Asked(m) == m.cents \in AmountsOf(m.tx, m.kind)

AskedInv == \A m \in late : Asked(m)

LEMMA RequestAsked ==
  ASSUME TypeOK, NEW w \in Workers, NEW k \in Kinds
  PROVE  Asked(Request(w, k))
BY DEF Asked, AmountsOf, Request, Destination

\* Every step serves at most one request, also when leases and clocks fail.
LEMMA RequestsServed ==
  ASSUME TypeOK, AskedInv, [Next]_vars
  PROVE  /\ AskedInv'
         /\ \/ UNCHANGED books
            \/ \E m \in Messages : Asked(m) /\ Accepts(m) /\ Serve(m)
<1> DEFINE Served == \E m \in Messages : Asked(m) /\ Accepts(m) /\ Serve(m)
           Same   == UNCHANGED <<books, late>>
<1>1. UNCHANGED vars => Same
  BY DEF vars
<1>2. ASSUME NEW t \in Txs,
             Start(t) \/ FxWriteFails(t) \/ Age(t) \/ ExpireLease(t)
             \/ LapseLease(t)
      PROVE  Same
  BY <1>2 DEF Start, InsertRow, ConsumeQuote, WriteDestination, MarkFailed,
              FxWriteFails, Age, ExpireLease, LapseLease
<1>3. ASSUME NEW w \in Workers, Execute(w) \/ Fail(w)
      PROVE  AskedInv' /\ (UNCHANGED books \/ Served)
  <2>1. CASE \/ AcquireLease(w) \/ Contended(w) \/ ReleaseLease(w)
             \/ ReadStatus(w) \/ GetReversal(w) \/ GetBatch(w)
             \/ MarkCompleted(w) \/ MarkReversed(w) \/ WriteFails(w)
             \/ FailOpen(w) \/ ReadFails(w)
    <3>1. Same
      BY <2>1 DEF AcquireLease, Contended, ReleaseLease, ReadStatus,
                  GetReversal, GetBatch, FailOpen, ReadFails, MarkCompleted,
                  MarkReversed, WriteFails
    <3> QED
      BY <3>1 DEF AskedInv, Asked
  <2>2. CASE Crash(w)
    <3>1. /\ UNCHANGED books
          /\ \/ late' = late
             \/ pc[w] \in LateKinds /\ late' = late \cup {Request(w, pc[w])}
      BY <2>2 DEF Crash
    <3>2. pc[w] \in LateKinds => Asked(Request(w, pc[w]))
      BY RequestAsked
    <3> QED
      BY <3>1, <3>2 DEF AskedInv, Asked
  <2>3. CASE \/ DebitSender(w) \/ CreateLedger(w) \/ ReverseDebit(w)
             \/ CreditRecipient(w) \/ \E k \in Kinds : PostFails(w, k)
    <3>1. PICK k \in Kinds : (\E next : Post(w, k, next)) \/ PostFails(w, k)
      BY <2>3 DEF DebitSender, CreateLedger, ReverseDebit, CreditRecipient,
                  Kinds
    <3> DEFINE m == Request(w, k)
    <3>2. m \in Messages /\ Asked(m)
      BY RequestType, RequestAsked
    <3>3. /\ late' = late \/ late' = late \cup {m}
          /\ UNCHANGED books \/ (Accepts(m) /\ Serve(m))
      BY <3>1 DEF Post, PostFails
    <3> HIDE DEF m
    <3> QED
      BY <3>2, <3>3 DEF AskedInv, Asked
  <2> QED
    BY <1>3, <2>1, <2>2, <2>3 DEF Execute, Fail
<1>4. ASSUME NEW r \in Recoverers, RecoveryTick(r) \/ IdleTick(r) PROVE Same
  BY <1>1, <1>4 DEF RecoveryTick, IdleTick
<1>5. ASSUME NEW m \in late, Deliver(m)
      PROVE  AskedInv' /\ (UNCHANGED books \/ Served)
  <2>1. m \in Messages /\ Asked(m) /\ late' \subseteq late
    BY <1>5 DEF TypeOK, AskedInv, Deliver
  <2> QED
    BY <1>5, <2>1 DEF Deliver, AskedInv, Asked
<1>6. Same => AskedInv' /\ UNCHANGED books
  BY DEF AskedInv, Asked
<1> QED
  BY <1>1, <1>2, <1>3, <1>4, <1>5, <1>6 DEF Next

\* The operations are what account-service expects to be asked for.
LEMMA OperationType ==
  ASSUME NEW k \in Keys, NEW cents \in AmountsOf(k.tx, k.kind) \ {0}
  PROVE  /\ Operation(k, cents) \in Operations
         /\ Operation(k, cents) \in
              [wallet : Wallets, key : Keys, delta : Int \ {0}]
<1>1. Operation(k, cents) \in Operations
  BY DEF Operations
<1>2. cents \in Nat \ {0} /\ WalletOf(k) \in Wallets
  BY DEF Keys, AmountsOf, WalletOf
<1> QED
  BY <1>1, <1>2 DEF Operation

\* A request that is not a replay is one operation of the wallet's store.
LEMMA ServeApplies ==
  ASSUME BooksOK, NEW m \in Messages, Asked(m), Accepts(m), Serve(m),
         ~Recorded(m), m.kind # "batch"
  PROVE  Accounts!Next /\ Batches' = Batches
<1> DEFINE k == [tx |-> m.tx, kind |-> m.kind]
           o == Operation(k, m.cents)
<1>1. /\ m.tx \in Txs /\ m.cents \in Nat /\ m.kind \in Kinds \ {"batch"}
      /\ m.cents # 0 /\ k \in Keys /\ k.tx = m.tx /\ k.kind = m.kind
      /\ op[m.tx][m.kind] = 0 /\ WalletOf(m) \in Active
      /\ m.kind = "debit" => balance[WalletOf(m)] >= m.cents
  BY DEF Messages, Keys, Accepts, Recorded
<1>2. o \in Operations
  BY <1>1, OperationType DEF Asked
<1>3. /\ o.wallet = WalletOf(m) /\ o.key = k
      /\ o.delta = IF m.kind = "debit" THEN -m.cents ELSE m.cents
  BY <1>1 DEF Operation, WalletOf
<1>4. /\ op' = [op EXCEPT ![m.tx][m.kind] = m.cents]
      /\ batch' = batch
      /\ balance' = [balance EXCEPT ![WalletOf(m)] =
           IF m.kind = "debit" THEN @ - m.cents ELSE @ + m.cents]
  BY <1>1 DEF Serve, ApplyWalletOperation, BooksOK
<1> HIDE DEF k, o
<1>5. o.wallet \in Wallets /\ balance[o.wallet] \in Nat
  BY <1>1, <1>3 DEF BooksOK
<1>6. balance' = [balance EXCEPT ![o.wallet] = balance[o.wallet] + o.delta]
  BY <1>1, <1>3, <1>4, <1>5 DEF BooksOK
<1>7. balance[o.wallet] + o.delta >= 0
  BY <1>1, <1>3, <1>5
<1>8. Deltas[o.wallet][o.key] = 0
  BY <1>1, <1>3, <1>5 DEF Deltas, DeltaOf
<1>9. Deltas' = [Deltas EXCEPT ![o.wallet][o.key] = o.delta]
  <2>1. \A j \in Keys : DeltaOf(j)' = IF j = k THEN o.delta ELSE DeltaOf(j)
    <3> SUFFICES ASSUME NEW j \in Keys
                 PROVE  DeltaOf(j)' = IF j = k THEN o.delta ELSE DeltaOf(j)
      OBVIOUS
    <3>1. j.tx \in Txs /\ j.kind \in Kinds \ {"batch"}
      BY DEF Keys
    <3>2. j = k <=> j.tx = m.tx /\ j.kind = m.kind
      BY <1>1 DEF Keys
    <3>3. op'[j.tx][j.kind] = IF j = k THEN m.cents ELSE op[j.tx][j.kind]
      BY <1>1, <1>4, <3>1, <3>2 DEF BooksOK
    <3> QED
      BY <1>3, <3>2, <3>3 DEF DeltaOf
  <2>2. Deltas' = [w \in Wallets |-> [j \in Keys |->
                     IF w = WalletOf(j) THEN DeltaOf(j)' ELSE 0]]
    BY DEF Deltas, WalletOf
  <2>3. WalletOf(k) = o.wallet /\ o.key = k /\ k \in Keys
    BY <1>1, <1>3 DEF WalletOf
  <2>4. ASSUME NEW w \in Wallets
        PROVE  Deltas'[w] = IF w = o.wallet
                            THEN [Deltas[w] EXCEPT ![k] = o.delta]
                            ELSE Deltas[w]
    BY <2>1, <2>2, <2>3 DEF Deltas
  <2> QED
    BY <1>5, <2>2, <2>3, <2>4 DEF Deltas
<1>10. Accounts!Apply(o)
  BY <1>1, <1>3, <1>5, <1>6, <1>7, <1>8, <1>9 DEF Accounts!Apply
<1> QED
  BY <1>2, <1>4, <1>10 DEF Accounts!Next, Batches

\* A batch that is not a replay is one of the ledger's store.
LEMMA ServeRecords ==
  ASSUME BooksOK, NEW m \in Messages, Asked(m), Accepts(m), Serve(m),
         ~Recorded(m), m.kind = "batch"
  PROVE  Ledger!Next /\ UNCHANGED <<balance, Deltas>>
<1>1. /\ m.tx \in Txs /\ m.cents \in Nat \ {0} /\ batch[m.tx] = 0
      /\ m.cents \in AmountsOf(m.tx, "batch")
  BY DEF Messages, Accepts, Recorded, Asked
<1>2. batch' = [batch EXCEPT ![m.tx] = m.cents] /\ UNCHANGED <<balance, op>>
  BY <1>1 DEF Serve, CreateBatch, BooksOK
<1>3. Batches[m.tx] = <<>>
  BY <1>1 DEF Batches
<1>4. Batches' = [Batches EXCEPT ![m.tx] = <<m.cents>>]
  BY <1>1, <1>2 DEF Batches, BooksOK
<1>5. <<m.cents>> \in Lists(m.tx)
  BY <1>1 DEF Lists
<1>6. Ledger!CreateBatch(m.tx)
  BY <1>1, <1>3, <1>4, <1>5 DEF Ledger!CreateBatch
<1>7. Deltas' = Deltas
  BY <1>2 DEF Deltas, DeltaOf, WalletOf
<1> QED
  BY <1>1, <1>2, <1>6, <1>7 DEF Ledger!Next

\* All that the transfers do to the wallets and to the ledger, however leases,
\* clocks, processes and answers fail, is what the stores of account-service
\* and ledger-service promise to do, one operation or batch at a time.
THEOREM StoresAreUsed == Spec => UsesStores
<1> DEFINE Inv == TypeOK /\ AskedInv
<1>1. Init => Inv
  BY TypeInit DEF Init, AskedInv
<1>2. Inv /\ [Next]_vars => Inv'
  BY TypeStep, RequestsServed
<1>3. Init => /\ balance = initial
              /\ \A w \in Wallets, k \in Keys : Deltas[w][k] = 0
              /\ Ledger!Init
  <2> SUFFICES ASSUME Init
               PROVE  /\ \A w \in Wallets, k \in Keys : Deltas[w][k] = 0
                      /\ Batches = [t \in Txs |-> <<>>]
    BY DEF Init, Ledger!Init
  <2>1. \A k \in Keys : op[k.tx][k.kind] = 0
    BY DEF Init, Keys
  <2>2. \A k \in Keys : DeltaOf(k) = 0
    BY <2>1 DEF DeltaOf
  <2>3. ASSUME NEW w \in Wallets, NEW k \in Keys
        PROVE  Deltas[w][k] = 0
    BY <2>2 DEF Deltas
  <2>4. Batches = [t \in Txs |-> <<>>]
    <3>1. \A t \in Txs : batch[t] = 0
      BY DEF Init
    <3> QED
      BY <3>1 DEF Batches
  <2> QED
    BY <2>3, <2>4
<1>4. Inv /\ [Next]_vars => /\ [Accounts!Next]_<<balance, Deltas>>
                            /\ [Ledger!Next]_Batches
  <2> SUFFICES ASSUME Inv, [Next]_vars
               PROVE  /\ Accounts!Next \/ UNCHANGED <<balance, Deltas>>
                      /\ Ledger!Next \/ Batches' = Batches
    OBVIOUS
  <2>0. BooksOK
    BY DEF TypeOK, BooksOK
  <2>1. CASE UNCHANGED books
    BY <2>1 DEF books, Deltas, DeltaOf, WalletOf, Batches
  <2>2. ASSUME NEW m \in Messages, Asked(m), Accepts(m), Serve(m)
        PROVE  /\ Accounts!Next \/ UNCHANGED <<balance, Deltas>>
               /\ Ledger!Next \/ Batches' = Batches
    <3>1. CASE Recorded(m)
      BY <2>0, <2>1, <2>2, <3>1, ReplayStays
    <3>2. CASE ~Recorded(m) /\ m.kind # "batch"
      BY <2>0, <2>2, <3>2, ServeApplies
    <3>3. CASE ~Recorded(m) /\ m.kind = "batch"
      BY <2>0, <2>2, <3>3, ServeRecords
    <3> QED
      BY <3>1, <3>2, <3>3
  <2> QED
    BY <2>1, <2>2, RequestsServed
<1> HIDE DEF Inv
<1> QED
  BY <1>1, <1>2, <1>3, <1>4, PTL DEF Spec, UsesStores, Ledger!Spec
=============================================================================
