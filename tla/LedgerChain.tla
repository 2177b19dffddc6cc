----------------------------- MODULE LedgerChain -----------------------------
(***************************************************************************)
(* ledger-service: createBatch() statement by statement, as PostgreSQL runs*)
(* it at its default isolation (read committed), beside auditVerify(),     *)
(* which reads the hash chain page by page while batches are committed.    *)
(*                                                                         *)
(* A hash stands for all that it was computed from: it is the sequence of  *)
(* the entries behind it, the null of the first entry is <<>>.  The        *)
(* timestamps that are hashed too are left out: no property tells apart    *)
(* two entries that agree in everything else.                              *)
(***************************************************************************)
EXTENDS Naturals, Sequences, FiniteSets, FiniteSetsExt, Functions

CONSTANTS
  Txs,         \* transaction ids that batches are posted for
  Lists,       \* per transaction the entry lists that callers post
  Accounts, Currencies, MaxCents,
  Clients,     \* POST /batches requests in progress at once
  Auditors,    \* GET /audit/verify requests in progress at once
  BatchSize,   \* AUDIT_BATCH_SIZE
  MaxId        \* bound on the id sequence

Directions == {"debit", "credit"}
Entries == [account : Accounts, direction : Directions, cents : 0 .. MaxCents,
            currency : Currencies]

ASSUME ListsAssumption ==
  /\ Txs # {} /\ Lists \in [Txs -> SUBSET Seq(Entries)]
  /\ MaxCents \in Nat /\ MaxId \in Nat /\ BatchSize \in Nat \ {0}
  /\ Clients \cap Auditors = {}

VARIABLES
  rows,        \* committed ledger_entries
  nextId,      \* the sequence of ledger_entries.id, which no abort takes back
  pc,          \* per client the statement that comes next
  posted,      \* per client its request
  previous,    \* per client and auditor the hash it carries
  mine,        \* per client its uncommitted ledger_entries
  verdict,     \* per auditor "none", "scanning", "ok" or "broken"
  lastId,      \* per auditor the last id it read
  records,     \* per auditor the rows it verified (index)
  due,         \* per auditor the number of rows committed when it began
  overlapped   \* two batches were between reading the last hash and their end

clientVars == <<pc, posted, mine>>
auditVars  == <<verdict, lastId, records, due>>
vars == <<rows, nextId, previous, overlapped, clientVars, auditVars>>

Recorded(t) == \E r \in rows : r.tx = t

\* A client between CREATE of the ledger transaction and the end of its
\* database transaction holds the unique index entry of its id.
Holds(c) == pc[c] \in {"last", "insert"}

-----------------------------------------------------------------------------
(* validateBatch()                                                         *)

Total(es, direction, currency) ==
  SumFunctionOnSet([i \in DOMAIN es |-> es[i].cents],
                   {i \in DOMAIN es : /\ es[i].direction = direction
                                      /\ es[i].currency = currency})

\* Mutation of Valid: one total over all currencies.
ValidOverall(es) ==
  /\ Len(es) >= 2
  /\ \A i \in DOMAIN es : es[i].cents > 0
  /\ SumFunctionOnSet([c \in Currencies |-> Total(es, "debit", c)], Currencies)
       = SumFunctionOnSet([c \in Currencies |-> Total(es, "credit", c)], Currencies)

Valid(es) ==
  /\ Len(es) >= 2
  /\ \A i \in DOMAIN es : es[i].cents > 0
  /\ \A c \in Currencies : Total(es, "debit", c) = Total(es, "credit", c)

-----------------------------------------------------------------------------
NoRequest == [tx |-> CHOOSE t \in Txs : TRUE, list |-> <<>>]

Init ==
  /\ rows = {}
  /\ nextId = 1
  /\ pc = [c \in Clients |-> "idle"]
  /\ posted = [c \in Clients |-> NoRequest]
  /\ previous = [x \in Clients \cup Auditors |-> <<>>]
  /\ mine = [c \in Clients |-> {}]
  /\ verdict = [a \in Auditors |-> "none"]
  /\ lastId = [a \in Auditors |-> 0]
  /\ records = [a \in Auditors |-> 0]
  /\ due = [a \in Auditors |-> 0]
  /\ overlapped = FALSE

Goto(c, label) == pc' = [pc EXCEPT ![c] = label]

\* The request is over, answered or not, and its transaction with it.
Finish(c) ==
  /\ Goto(c, "idle")
  /\ posted' = [posted EXCEPT ![c] = NoRequest]
  /\ previous' = [previous EXCEPT ![c] = <<>>]
  /\ mine' = [mine EXCEPT ![c] = {}]

-----------------------------------------------------------------------------
(* POST /batches and createBatch()                                         *)

\* Ids that the requests in progress may still take: MaxId has room for them.
Outstanding ==
  SumFunctionOnSet([c \in Clients |-> Len(posted[c].list) - Cardinality(mine[c])],
                   Clients)

\* An invalid list is answered 400 or 422.
Post(c) ==
  /\ pc[c] = "idle"
  /\ \E t \in Txs : \E es \in Lists[t] :
       /\ Valid(es)
       /\ nextId + Outstanding + Len(es) <= MaxId + 1
       /\ posted' = [posted EXCEPT ![c] = [tx |-> t, list |-> es]]
  /\ Goto(c, "find")
  /\ UNCHANGED <<rows, nextId, previous, overlapped, mine, auditVars>>

FindReplay(c) ==
  /\ pc[c] = "find"
  /\ \/ Recorded(posted[c].tx) /\ Finish(c)
     \/ /\ ~Recorded(posted[c].tx)
        /\ Goto(c, "create")
        /\ UNCHANGED <<posted, previous, mine>>
  /\ UNCHANGED <<rows, nextId, overlapped, auditVars>>

\* Mutations of CreateTransaction: no unique index; a wait that never ends.
CreateTransactionTwice(c) ==
  /\ pc[c] = "create"
  /\ Goto(c, "last")
  /\ UNCHANGED <<rows, nextId, previous, overlapped, posted, mine, auditVars>>

CreateTransactionWaits(c) ==
  /\ pc[c] = "create"
  /\ \A d \in Clients \ {c} : Holds(d) => posted[d].tx # posted[c].tx
  /\ ~Recorded(posted[c].tx)
  /\ Goto(c, "last")
  /\ UNCHANGED <<rows, nextId, previous, overlapped, posted, mine, auditVars>>

\* The INSERT waits for another transaction's uncommitted row with the same id;
\* if that is committed, the INSERT fails and the request with it.
CreateTransaction(c) ==
  /\ pc[c] = "create"
  /\ \A d \in Clients \ {c} : Holds(d) => posted[d].tx # posted[c].tx
  /\ \/ Recorded(posted[c].tx) /\ Finish(c)
     \/ /\ ~Recorded(posted[c].tx)
        /\ Goto(c, "last")
        /\ UNCHANGED <<posted, previous, mine>>
  /\ UNCHANGED <<rows, nextId, overlapped, auditVars>>

Hash(hash, e) == Append(hash, e)

HashOfLast(S) ==
  IF S = {} THEN <<>>
  ELSE (CHOOSE r \in S : \A s \in S : s.id <= r.id).hash

NoteOverlap(c) ==
  overlapped' = (overlapped \/ \E d \in Clients \ {c} : pc[d] = "insert")

\* Mutation of FindLast: uncommitted entries are visible.
FindLastDirty(c) ==
  /\ pc[c] = "last"
  /\ previous' = [previous EXCEPT ![c] =
                    HashOfLast(rows \cup UNION {mine[d] : d \in Clients})]
  /\ Goto(c, "insert")
  /\ NoteOverlap(c)
  /\ UNCHANGED <<rows, nextId, posted, mine, auditVars>>

FindLast(c) ==
  /\ pc[c] = "last"
  /\ previous' = [previous EXCEPT ![c] = HashOfLast(rows)]
  /\ Goto(c, "insert")
  /\ NoteOverlap(c)
  /\ UNCHANGED <<rows, nextId, posted, mine, auditVars>>

InsertEntry(c) ==
  LET n == Cardinality(mine[c]) + 1
      e == posted[c].list[n]
  IN
  /\ pc[c] = "insert"
  /\ n <= Len(posted[c].list)
  /\ mine' = [mine EXCEPT ![c] = @ \cup
                {[id |-> nextId, tx |-> posted[c].tx, entry |-> e,
                  prev |-> previous[c], hash |-> Hash(previous[c], e)]}]
  /\ previous' = [previous EXCEPT ![c] = Hash(@, e)]
  /\ nextId' = nextId + 1
  /\ UNCHANGED <<rows, overlapped, pc, posted, auditVars>>

Commit(c) ==
  /\ pc[c] = "insert"
  /\ Cardinality(mine[c]) = Len(posted[c].list)
  /\ rows' = rows \cup mine[c]
  /\ Finish(c)
  /\ UNCHANGED <<nextId, overlapped, auditVars>>

\* The process dies, the connection is lost or the transaction times out.
Abort(c) ==
  /\ pc[c] # "idle"
  /\ Finish(c)
  /\ UNCHANGED <<rows, nextId, overlapped, auditVars>>

-----------------------------------------------------------------------------
(* auditVerify()                                                           *)

\* WHERE id > lastId ORDER BY id LIMIT batchSize
Page(a) ==
  LET after == {r \in rows : r.id > lastId[a]} IN
  {r \in after : Cardinality({s \in after : s.id < r.id}) < BatchSize}

\* The first row whose predecessor in the scan is not the one it was hashed
\* with.  `carried` is the hash the scan brings to the page.
Breaks(page, carried) ==
  {r \in page :
     LET before == HashOfLast({s \in page : s.id < r.id})
         expected == IF before = <<>> THEN carried ELSE before
     IN r.prev # expected \/ r.hash # Hash(expected, r.entry)}

StartAudit(a) ==
  /\ verdict[a] # "scanning"
  /\ verdict' = [verdict EXCEPT ![a] = "scanning"]
  /\ previous' = [previous EXCEPT ![a] = <<>>]
  /\ lastId' = [lastId EXCEPT ![a] = 0]
  /\ records' = [records EXCEPT ![a] = 0]
  /\ due' = [due EXCEPT ![a] = Cardinality(rows)]
  /\ UNCHANGED <<rows, nextId, overlapped, clientVars>>

\* Mutations of ScanPage: the hash is not carried across pages; a full page is
\* taken for the last one.
ScanPageFresh(a) ==
  LET page == Page(a) IN
  /\ verdict[a] = "scanning"
  /\ verdict' = [verdict EXCEPT ![a] =
                   IF Breaks(page, <<>>) # {} THEN "broken"
                   ELSE IF Cardinality(page) < BatchSize THEN "ok" ELSE @]
  /\ lastId' = [lastId EXCEPT ![a] = Max({r.id : r \in page} \cup {@})]
  /\ records' = [records EXCEPT ![a] = @ + Cardinality(page)]
  /\ UNCHANGED <<rows, nextId, previous, overlapped, clientVars, due>>

ScanPageOnce(a) ==
  LET page == Page(a) IN
  /\ verdict[a] = "scanning"
  /\ verdict' = [verdict EXCEPT ![a] =
                   IF Breaks(page, previous[a]) # {} THEN "broken"
                   ELSE IF Cardinality(page) <= BatchSize THEN "ok" ELSE @]
  /\ records' = [records EXCEPT ![a] = @ + Cardinality(page)]
  /\ UNCHANGED <<rows, nextId, previous, overlapped, clientVars, lastId, due>>

\* One page of the loop: the scan fails at the first break, else goes on until
\* a page is not full.
ScanPage(a) ==
  LET page   == Page(a)
      breaks == Breaks(page, previous[a])
  IN
  /\ verdict[a] = "scanning"
  /\ \/ /\ breaks # {}
        /\ verdict' = [verdict EXCEPT ![a] = "broken"]
        /\ records' = [records EXCEPT ![a] = @ + Cardinality(
             {r \in page : \A b \in breaks : r.id < b.id})]
        /\ UNCHANGED <<previous, lastId>>
     \/ /\ breaks = {}
        /\ verdict' = [verdict EXCEPT ![a] =
                         IF Cardinality(page) < BatchSize THEN "ok" ELSE @]
        /\ records' = [records EXCEPT ![a] = @ + Cardinality(page)]
        /\ previous' = [previous EXCEPT ![a] =
                          IF page = {} THEN @ ELSE HashOfLast(page)]
        /\ lastId' = [lastId EXCEPT ![a] = Max({r.id : r \in page} \cup {@})]
  /\ UNCHANGED <<rows, nextId, overlapped, clientVars, due>>

-----------------------------------------------------------------------------
\* What invariantCheck() adds up in one statement.
Booked(direction, currency) ==
  SumFunctionOnSet([r \in rows |-> r.entry.cents],
                   {r \in rows : /\ r.entry.direction = direction
                                 /\ r.entry.currency = currency})

-----------------------------------------------------------------------------
Step(c) ==
  \/ FindReplay(c) \/ CreateTransaction(c) \/ FindLast(c) \/ InsertEntry(c)
  \/ Commit(c)

Next ==
  \/ \E c \in Clients : Post(c) \/ Step(c) \/ Abort(c)
  \/ \E a \in Auditors : StartAudit(a) \/ ScanPage(a)

Spec == Init /\ [][Next]_vars

\* The service goes on with what it began; nobody must post or audit.  An INSERT
\* that waits is woken when the holder of the index entry ends.
Fairness ==
  /\ \A c \in Clients : WF_vars(Step(c)) /\ SF_vars(CreateTransaction(c))
  /\ \A a \in Auditors : WF_vars(ScanPage(a))

FairSpec == Spec /\ Fairness

-----------------------------------------------------------------------------
(* Safety.                                                                 *)

Row == [id : 1 .. MaxId, tx : Txs, entry : {e \in Entries : e.cents > 0},
        prev : Seq(Entries), hash : Seq(Entries)]

\* The state space, the schema's CHECK (amount_cents > 0) among it.
TypeOK ==
  /\ rows \subseteq Row /\ mine \in [Clients -> SUBSET Row]
  /\ nextId \in 1 .. MaxId + 1
  /\ pc \in [Clients -> {"idle", "find", "create", "last", "insert"}]
  /\ posted \in [Clients -> [tx : Txs, list : Seq(Entries)]]
  /\ previous \in [Clients \cup Auditors -> Seq(Entries)]
  /\ verdict \in [Auditors -> {"none", "scanning", "ok", "broken"}]
  /\ lastId \in [Auditors -> 0 .. MaxId]
  /\ records \in [Auditors -> 0 .. MaxId] /\ due \in [Auditors -> 0 .. MaxId]
  /\ overlapped \in BOOLEAN

\* What GET /invariant-check adds up is zero for every currency in every state
\* it may read, whatever batches are half written, refused or aborted.
InvariantCheckOk ==
  \A c \in Currencies : Booked("debit", c) = Booked("credit", c)

\* Every entry was hashed onto an entry that is committed and has a smaller id,
\* though the batch it was read from and its own batch are committed by
\* different transactions and any of them may abort.
LinksBack ==
  \A r \in rows : r.prev # <<>> => \E s \in rows : s.id < r.id /\ s.hash = r.prev

\* An audit of entries nobody tampered with passes, whatever is committed
\* between its pages, as long as no two batches ever overlapped.
AuditPasses == \A a \in Auditors : verdict[a] # "broken"
SerialAuditPasses == ~overlapped => AuditPasses

\* An audit that passes has verified at least the entries that were committed
\* when it began: no row is skipped.
NoRowSkipped == \A a \in Auditors : verdict[a] = "ok" => records[a] >= due[a]

-----------------------------------------------------------------------------
(* Liveness and refinement.                                                *)

\* Every POST /batches is answered, those that waited for another one with the
\* same transaction id included.
Answered == \A c \in Clients : pc[c] # "idle" ~> pc[c] = "idle"

\* For its callers the service is a store that records one valid list per
\* transaction, whole and for good: the single step that Transfer assumes.
EntryOf(t, n) ==
  LET own == {r \in rows : r.tx = t} IN
  (CHOOSE r \in own : Cardinality({s \in own : s.id < r.id}) = n - 1).entry

Store == INSTANCE BatchStore WITH
  Acceptable <- [t \in Txs |-> {es \in Lists[t] : Valid(es)}],
  recorded <- [t \in Txs |->
                 [n \in 1 .. Cardinality({r \in rows : r.tx = t}) |->
                    EntryOf(t, n)]]

ImplementsStore == Store!Spec
=============================================================================
