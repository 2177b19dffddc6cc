---------------------------- MODULE LedgerProofs ----------------------------
(***************************************************************************)
(* Proofs about LedgerChain, for any lists that callers post, any number of*)
(* concurrent batches and audits, and any page size.                       *)
(***************************************************************************)
EXTENDS LedgerInv, SumTheorems

-----------------------------------------------------------------------------
(* Sets of entries.                                                        *)

\* A bounded set of natural numbers has a greatest element.
LEMMA MaxIsGreatest ==
  ASSUME NEW n \in Nat, NEW S, S \subseteq 0 .. n, S # {}
  PROVE  Max(S) \in S /\ \A y \in S : y <= Max(S)
<1> DEFINE T == {n - y : y \in S}
<1>1. T \subseteq Nat /\ T # {}
  <2>1. \A y \in S : n - y \in Nat
    OBVIOUS
  <2>2. PICK y : y \in S
    OBVIOUS
  <2>3. n - y \in T
    BY <2>2
  <2> QED BY <2>1, <2>3
<1>2. PICK m \in T : \A k \in T : m <= k
  <2> HIDE DEF T
  <2> QED BY <1>1, LeastNumber
<1>3. PICK x \in S : m = n - x
  OBVIOUS
<1>4. \A y \in S : y <= x
  <2> SUFFICES ASSUME NEW y \in S PROVE y <= x
    OBVIOUS
  <2>1. m <= n - y
    BY <1>2
  <2> QED BY <1>3, <2>1
<1>5. \A y \in S : x >= y
  BY <1>4
<1> HIDE DEF T
<1>6. Max(S) \in S /\ \A y \in S : Max(S) >= y
  BY <1>5 DEF Max
<1> QED BY <1>6

\* The last of some entries, and the first.
LEMMA LastExists ==
  ASSUME NEW n \in Nat, NEW S, \A r \in S : r.id \in 0 .. n, S # {}
  PROVE  \E r \in S : \A s \in S : s.id <= r.id
<1> DEFINE T == {r.id : r \in S}
<1>1. T \subseteq 0 .. n /\ T # {}
  OBVIOUS
<1>2. Max(T) \in T /\ \A y \in T : y <= Max(T)
  <2> HIDE DEF T
  <2> QED BY <1>1, MaxIsGreatest
<1> QED BY <1>2

LEMMA FirstExists ==
  ASSUME NEW S, \A r \in S : r.id \in Nat, S # {}
  PROVE  \E r \in S : \A s \in S : r.id <= s.id
<1> DEFINE T == {r.id : r \in S}
<1>1. T \subseteq Nat /\ T # {}
  OBVIOUS
<1>2. PICK m \in T : \A y \in T : m <= y
  <2> HIDE DEF T
  <2> QED BY <1>1, LeastNumber
<1> QED BY <1>2

\* findFirst() by descending id reads the last one.
LEMMA HashIs ==
  ASSUME NEW S, Numbered(S), \A r \in S : r.id \in Nat,
         NEW r \in S, \A s \in S : s.id <= r.id
  PROVE  HashOfLast(S) = r.hash
<1>1. \A q \in S : (\A s \in S : s.id <= q.id) => q = r
  <2> SUFFICES ASSUME NEW q \in S, \A s \in S : s.id <= q.id PROVE q = r
    OBVIOUS
  <2>1. q.id <= r.id /\ r.id <= q.id /\ q.id \in Nat /\ r.id \in Nat
    OBVIOUS
  <2>2. q.id = r.id
    BY <2>1
  <2> QED BY <2>2 DEF Numbered
<1>2. (CHOOSE q \in S : \A s \in S : s.id <= q.id) = r
  BY <1>1
<1>3. S # {}
  OBVIOUS
<1> QED BY <1>2, <1>3 DEF HashOfLast

LEMMA NumberedSubset ==
  ASSUME NEW S, Numbered(S), NEW T \in SUBSET S
  PROVE  Numbered(T)
BY FS_Subset DEF Numbered

\* Sets whose ids are apart have nothing in common.
LEMMA NumberedUnion ==
  ASSUME NEW S, NEW T, Numbered(S), Numbered(T), Apart(S, T)
  PROVE  Numbered(S \cup T) /\ S \cap T = {}
BY FS_Union DEF Numbered, Apart

LEMMA NumberedEmpty == Numbered({})
BY FS_EmptySet DEF Numbered

\* An entry after all others has as many before it as there are.
LEMMA RankOfNew ==
  ASSUME NEW S, Numbered(S), NEW x, \A r \in S : r.id \in Nat, x.id \in Nat,
         \A r \in S : r.id < x.id
  PROVE  /\ Numbered(S \cup {x}) /\ x \notin S
         /\ Cardinality(S \cup {x}) = Cardinality(S) + 1
         /\ Rank(S \cup {x}, x) = Cardinality(S)
         /\ \A r \in S : Rank(S \cup {x}, r) = Rank(S, r)
<1>1. x \notin S
  OBVIOUS
<1>2. IsFiniteSet(S \cup {x}) /\ Cardinality(S \cup {x}) = Cardinality(S) + 1
  BY <1>1, FS_AddElement DEF Numbered
<1>3. Numbered(S \cup {x})
  BY <1>2 DEF Numbered
<1>4. {s \in S \cup {x} : s.id < x.id} = S
  OBVIOUS
<1>5. \A r \in S : {s \in S \cup {x} : s.id < r.id} = {s \in S : s.id < r.id}
  OBVIOUS
<1> QED BY <1>1, <1>2, <1>3, <1>4, <1>5 DEF Rank

-----------------------------------------------------------------------------
(* Pages.                                                                  *)

FirstOnes(S, n) == {r \in S : Rank(S, r) < n}

\* A page has all the entries before each of its own.
LEMMA PageClosed ==
  ASSUME NEW S, Numbered(S), \A r \in S : r.id \in Nat, NEW n \in Nat,
         NEW r \in FirstOnes(S, n), NEW s \in S, s.id <= r.id
  PROVE  s \in FirstOnes(S, n)
<1>0. r \in S
  BY DEF FirstOnes
<1>1. {q \in S : q.id < s.id} \subseteq {q \in S : q.id < r.id}
  <2> SUFFICES ASSUME NEW q \in S, q.id < s.id PROVE q.id < r.id
    OBVIOUS
  <2>1. q.id \in Nat /\ s.id \in Nat /\ r.id \in Nat
    BY <1>0
  <2> QED BY <2>1
<1>2. IsFiniteSet({q \in S : q.id < r.id}) /\ IsFiniteSet({q \in S : q.id < s.id})
  BY FS_Subset DEF Numbered
<1>3. /\ Rank(S, s) <= Rank(S, r) /\ Rank(S, s) \in Nat /\ Rank(S, r) \in Nat
  BY <1>1, <1>2, FS_Subset, FS_CardinalityType DEF Rank
<1> QED BY <1>3 DEF FirstOnes

\* A page that is not full is the last one.
LEMMA PageNotFull ==
  ASSUME NEW S, Numbered(S), \A r \in S : r.id \in Nat, NEW n \in Nat,
         Cardinality(FirstOnes(S, n)) < n
  PROVE  FirstOnes(S, n) = S
<1> DEFINE P == FirstOnes(S, n)
<1> SUFFICES ASSUME S \ P # {} PROVE FALSE
  BY DEF FirstOnes
<1>1. PICK r \in S \ P : \A s \in S \ P : r.id <= s.id
  <2>1. \A s \in S \ P : s.id \in Nat
    OBVIOUS
  <2> HIDE DEF P
  <2> QED BY <2>1, FirstExists
<1>2. {s \in S : s.id < r.id} \subseteq P
  <2> SUFFICES ASSUME NEW s \in S, s.id < r.id, s \notin P PROVE FALSE
    OBVIOUS
  <2>1. r.id <= s.id /\ r.id \in Nat /\ s.id \in Nat
    BY <1>1
  <2> QED BY <2>1
<1>3. P \subseteq S /\ IsFiniteSet(P)
  BY FS_Subset DEF FirstOnes, Numbered
<1>4. /\ Rank(S, r) <= Cardinality(P) /\ Rank(S, r) \in Nat
      /\ Cardinality(P) \in Nat
  BY <1>2, <1>3, FS_Subset, FS_CardinalityType DEF Rank
<1>5. ~(Rank(S, r) < n)
  BY <1>1 DEF FirstOnes
<1> QED BY <1>4, <1>5

-----------------------------------------------------------------------------
(* The steps of a client.                                                  *)

\* The request is over and nothing is committed.
Ends(c) ==
  /\ pc[c] # "idle" /\ Finish(c)
  /\ UNCHANGED <<rows, nextId, overlapped, auditVars>>

\* It goes on, having found no entries of its transaction.
GoesOn(c) ==
  /\ ~Recorded(posted[c].tx)
  /\ \/ pc[c] = "find" /\ Goto(c, "create")
     \/ /\ pc[c] = "create" /\ Goto(c, "last")
        /\ \A d \in Clients \ {c} : Holds(d) => posted[d].tx # posted[c].tx
  /\ UNCHANGED <<rows, nextId, previous, overlapped, posted, mine, auditVars>>

LEMMA ClientSteps ==
  ASSUME NEW c \in Clients, Post(c) \/ Step(c) \/ Abort(c)
  PROVE  Post(c) \/ Ends(c) \/ GoesOn(c) \/ FindLast(c) \/ InsertEntry(c) \/ Commit(c)
<1>1. CASE FindReplay(c)
  <2>1. pc[c] # "idle"
    BY <1>1 DEF FindReplay
  <2> QED BY <1>1, <2>1 DEF FindReplay, Ends, GoesOn
<1>2. CASE CreateTransaction(c)
  <2>1. pc[c] # "idle"
    BY <1>2 DEF CreateTransaction
  <2> QED BY <1>2, <2>1 DEF CreateTransaction, Ends, GoesOn
<1>3. CASE Abort(c)
  BY <1>3 DEF Abort, Ends
<1> QED BY <1>1, <1>2, <1>3 DEF Step

PCs == {"idle", "find", "create", "last", "insert"}

LEMMA TypeFacts ==
  ASSUME TypeOK
  PROVE  /\ rows \subseteq Row /\ mine \in [Clients -> SUBSET Row]
         /\ nextId \in 1 .. MaxId + 1 /\ nextId \in Nat \ {0} /\ MaxId \in Nat
         /\ pc \in [Clients -> PCs]
         /\ posted \in [Clients -> [tx : Txs, list : Seq(Entries)]]
         /\ previous \in [Clients \cup Auditors -> Seq(Entries)]
         /\ Clients \cap Auditors = {}
BY ListsAssumption DEF TypeOK, PCs

LEMMA RowFacts ==
  ASSUME NEW r \in Row
  PROVE  /\ r.id \in 1 .. MaxId /\ r.id \in Nat \ {0} /\ r.id \in 0 .. MaxId
         /\ r.entry \in Entries /\ r.entry.cents \in Nat
         /\ r.tx \in Txs /\ r.prev \in Seq(Entries) /\ r.hash \in Seq(Entries)
BY ListsAssumption DEF Row, Entries

LEMMA NoRequestType ==
  NoRequest \in [tx : Txs, list : Seq(Entries)] /\ NoRequest.list = <<>>
<1>1. (CHOOSE t \in Txs : TRUE) \in Txs
  BY ListsAssumption
<1>2. <<>> \in Seq(Entries)
  OBVIOUS
<1> QED BY <1>1, <1>2 DEF NoRequest

\* The entry that comes next is one of the list.
LEMMA NextEntry ==
  ASSUME TypeOK, IdsInv, RequestsInv, NEW c \in Clients, InsertEntry(c)
  PROVE  LET n == Cardinality(mine[c]) + 1 IN
         /\ n \in 1 .. Len(posted[c].list)
         /\ posted[c].list[n] \in {e \in Entries : e.cents > 0}
<1>1. /\ pc[c] = "insert" /\ Cardinality(mine[c]) + 1 <= Len(posted[c].list)
  BY DEF InsertEntry
<1>2. posted[c].list \in Seq(Entries) /\ Valid(posted[c].list)
  BY <1>1, TypeFacts DEF RequestsInv, RequestInv
<1>3. PICK k \in Nat : k = Cardinality(mine[c])
  BY FS_CardinalityType DEF IdsInv, Numbered
<1>4. PICK es : es = posted[c].list
  OBVIOUS
<1>5. k + 1 \in 1 .. Len(es) /\ es \in Seq(Entries)
  BY <1>1, <1>2, <1>3, <1>4
<1>6. es[k + 1] \in Entries /\ es[k + 1].cents > 0
  BY <1>2, <1>4, <1>5 DEF Valid
<1> QED BY <1>3, <1>4, <1>5, <1>6

-----------------------------------------------------------------------------
(* Room for ids.                                                           *)

Left == [c \in Clients |-> Len(posted[c].list) - Cardinality(mine[c])]

LEMMA LeftType ==
  ASSUME TypeOK, IdsInv, RequestsInv, NEW c \in Clients
  PROVE  Left[c] \in Nat /\ Cardinality(mine[c]) \in Nat
<1>1. Cardinality(mine[c]) \in Nat
  BY FS_CardinalityType DEF IdsInv, Numbered
<1>2. Len(posted[c].list) \in Nat
  BY TypeFacts
<1>3. Cardinality(mine[c]) <= Len(posted[c].list)
  BY DEF RequestsInv, BatchInv
<1> QED BY <1>1, <1>2, <1>3 DEF Left

LEMMA ClientSum ==
  ASSUME IsFiniteSet(Clients), NEW f, NEW g, NEW c \in Clients,
         \A x \in Clients : f[x] \in Int, \A x \in Clients : g[x] \in Int,
         \A x \in Clients : x # c => f[x] = g[x]
  PROVE  SumFunctionOnSet(g, Clients) = SumFunctionOnSet(f, Clients) + (g[c] - f[c])
BY SumChange

LEMMA ClientSumNat ==
  ASSUME IsFiniteSet(Clients), NEW f, \A x \in Clients : f[x] \in Nat
  PROVE  SumFunctionOnSet(f, Clients) \in Nat
BY SumNat

LEMMA OutstandingIs == Outstanding = SumFunctionOnSet(Left, Clients)
BY DEF Outstanding, Left

\* One client's step changes what is outstanding by what it changes for itself.
LEMMA RoomStep ==
  ASSUME IsFiniteSet(Clients), NEW c \in Clients, RoomInv, nextId \in Nat,
         nextId' \in Nat, MaxId \in Nat,
         \A x \in Clients : Left[x] \in Nat, \A x \in Clients : Left'[x] \in Nat,
         \A x \in Clients : x # c => Left[x] = Left'[x],
         \/ (nextId' - nextId) + (Left'[c] - Left[c]) <= 0
         \/ (nextId' + Outstanding) + (Left'[c] - Left[c]) <= MaxId + 1
  PROVE  RoomInv' /\ nextId' <= MaxId + 1
<1>1. PICK f, g : f = Left /\ g = Left'
  OBVIOUS
<1>2. SumFunctionOnSet(g, Clients) = SumFunctionOnSet(f, Clients) + (g[c] - f[c])
  <2>1. \A x \in Clients : f[x] \in Int
    BY <1>1
  <2>2. \A x \in Clients : g[x] \in Int
    BY <1>1
  <2>3. \A x \in Clients : x # c => f[x] = g[x]
    BY <1>1
  <2> QED BY <2>1, <2>2, <2>3, ClientSum
<1>3. SumFunctionOnSet(f, Clients) \in Nat
  BY <1>1, ClientSumNat
<1>4. SumFunctionOnSet(g, Clients) \in Nat
  BY <1>1, ClientSumNat
<1>5. PICK F \in Nat, G \in Nat : F = Outstanding /\ G = Outstanding'
  <2>1. Outstanding = SumFunctionOnSet(f, Clients)
    BY <1>1, OutstandingIs
  <2>2. Outstanding' = SumFunctionOnSet(g, Clients)
    BY <1>1 DEF Outstanding, Left
  <2> QED BY <1>3, <1>4, <2>1, <2>2
<1>6. G = F + (Left'[c] - Left[c])
  <2>1. F = SumFunctionOnSet(f, Clients) /\ G = SumFunctionOnSet(g, Clients)
    BY <1>1, <1>5 DEF Outstanding, Left
  <2> QED BY <1>1, <1>2, <2>1, Zenon
<1>7. nextId + F <= MaxId + 1
  BY <1>5 DEF RoomInv
<1>8. \/ (nextId' - nextId) + (Left'[c] - Left[c]) <= 0
      \/ (nextId' + F) + (Left'[c] - Left[c]) <= MaxId + 1
  BY <1>5, Zenon
<1>9. nextId' + G <= MaxId + 1
  BY <1>6, <1>7, <1>8
<1>10. nextId' <= MaxId + 1
  <2>1. \A k, l, m \in Nat : k + l <= m + 1 => k <= m + 1
    OBVIOUS
  <2> QED BY <1>9, <2>1, Zenon
<1>11. RoomInv'
  BY <1>5, <1>9, Zenon DEF RoomInv
<1> QED BY <1>10, <1>11

\* An INSERT takes an id that is left.
LEMMA RoomLeft ==
  ASSUME IsFiniteSet(Clients), TypeOK, IdsInv, RequestsInv, NEW c \in Clients,
         Left[c] >= 1
  PROVE  nextId \in 1 .. MaxId
<1> DEFINE g == [x \in Clients |-> IF x = c THEN Left[x] - 1 ELSE Left[x]]
<1>1. \A x \in Clients : Left[x] \in Nat
  BY LeftType
<1>2. /\ \A x \in Clients : Left[x] \in Int
      /\ \A x \in Clients : g[x] \in Nat /\ g[x] \in Int
      /\ \A x \in Clients : x # c => Left[x] = g[x]
      /\ g[c] - Left[c] = -1
  BY <1>1
<1> HIDE DEF g
<1>3. SumFunctionOnSet(g, Clients) = SumFunctionOnSet(Left, Clients) + (g[c] - Left[c])
  BY <1>2, ClientSum
<1>4. SumFunctionOnSet(g, Clients) \in Nat
  BY <1>2, ClientSumNat
<1>5. SumFunctionOnSet(Left, Clients) \in Nat
  BY <1>1, ClientSumNat
<1>6. SumFunctionOnSet(Left, Clients) >= 1
  BY <1>2, <1>3, <1>4, <1>5
<1>7. nextId + SumFunctionOnSet(Left, Clients) <= MaxId + 1
  BY OutstandingIs DEF RequestsInv, RoomInv
<1> QED BY <1>5, <1>6, <1>7, TypeFacts

-----------------------------------------------------------------------------
(* What the steps of a client do.                                          *)

LEMMA FinishEffect ==
  ASSUME TypeOK, NEW c \in Clients, Finish(c)
  PROVE  /\ pc'[c] = "idle" /\ posted'[c] = NoRequest /\ mine'[c] = {}
         /\ previous'[c] = <<>>
         /\ \A d \in Clients : d # c => /\ pc'[d] = pc[d] /\ posted'[d] = posted[d]
                                        /\ mine'[d] = mine[d]
         /\ \A x \in Clients \cup Auditors : x # c => previous'[x] = previous[x]
BY TypeFacts DEF Finish, Goto

LEMMA FinishType ==
  ASSUME TypeOK, NEW c \in Clients, Finish(c)
  PROVE  /\ pc' \in [Clients -> PCs] /\ mine' \in [Clients -> SUBSET Row]
         /\ posted' \in [Clients -> [tx : Txs, list : Seq(Entries)]]
         /\ previous' \in [Clients \cup Auditors -> Seq(Entries)]
BY TypeFacts, NoRequestType DEF Finish, Goto, PCs

LEMMA InsertEffect ==
  ASSUME IsFiniteSet(Clients), TypeOK, IdsInv, RequestsInv, NEW c \in Clients,
         InsertEntry(c)
  PROVE  \E x \in Row :
           /\ x.id = nextId /\ x.tx = posted[c].tx
           /\ x.entry = posted[c].list[Cardinality(mine[c]) + 1]
           /\ x.prev = previous[c] /\ x.hash = Hash(previous[c], x.entry)
           /\ mine' = [mine EXCEPT ![c] = mine[c] \cup {x}]
           /\ previous' = [previous EXCEPT ![c] = x.hash]
<1> DEFINE e == posted[c].list[Cardinality(mine[c]) + 1]
           x == [id |-> nextId, tx |-> posted[c].tx, entry |-> e,
                 prev |-> previous[c], hash |-> Hash(previous[c], e)]
<1>1. /\ Cardinality(mine[c]) + 1 \in 1 .. Len(posted[c].list)
      /\ e \in {f \in Entries : f.cents > 0}
  BY NextEntry
<1>2. nextId \in 1 .. MaxId
  <2>1. PICK k \in Nat, l \in Nat : k = Cardinality(mine[c]) /\ l = Len(posted[c].list)
    BY LeftType, TypeFacts
  <2>2. Left[c] = l - k
    BY <2>1 DEF Left
  <2>3. Left[c] >= 1
    BY <1>1, <2>1, <2>2
  <2> QED BY <2>3, RoomLeft
<1>3. previous[c] \in Seq(Entries) /\ posted[c].tx \in Txs
  BY TypeFacts
<1> HIDE DEF e
<1>4. Hash(previous[c], e) \in Seq(Entries)
  BY <1>1, <1>3 DEF Hash
<1>5. x \in Row
  BY <1>1, <1>2, <1>3, <1>4 DEF Row
<1>6. /\ mine' = [mine EXCEPT ![c] = mine[c] \cup {x}]
      /\ previous' = [previous EXCEPT ![c] = x.hash]
  BY DEF InsertEntry, e
<1>7. /\ x.id = nextId /\ x.tx = posted[c].tx /\ x.entry = e
      /\ x.prev = previous[c] /\ x.hash = Hash(previous[c], x.entry)
  OBVIOUS
<1> HIDE DEF x
<1> QED BY <1>5, <1>6, <1>7 DEF e

\* A client's step but for the audit's variables.
LEMMA ClientType ==
  ASSUME IsFiniteSet(Clients), TypeOK, IdsInv, RequestsInv, NEW c \in Clients,
         Post(c) \/ Ends(c) \/ GoesOn(c) \/ FindLast(c) \/ InsertEntry(c) \/ Commit(c),
         nextId' \in 1 .. MaxId + 1
  PROVE  TypeOK'
<1>0. /\ rows \subseteq Row /\ mine \in [Clients -> SUBSET Row]
      /\ pc \in [Clients -> PCs]
      /\ posted \in [Clients -> [tx : Txs, list : Seq(Entries)]]
      /\ previous \in [Clients \cup Auditors -> Seq(Entries)]
  BY TypeFacts
<1>1. UNCHANGED auditVars
  BY DEF Post, Ends, GoesOn, FindLast, InsertEntry, Commit
<1>2. overlapped' \in BOOLEAN
  BY DEF TypeOK, Post, Ends, GoesOn, FindLast, InsertEntry, Commit, NoteOverlap
<1> SUFFICES
      /\ rows' \subseteq Row /\ mine' \in [Clients -> SUBSET Row]
      /\ pc' \in [Clients -> PCs]
      /\ posted' \in [Clients -> [tx : Txs, list : Seq(Entries)]]
      /\ previous' \in [Clients \cup Auditors -> Seq(Entries)]
  BY <1>1, <1>2 DEF TypeOK, PCs, auditVars
<1>3. CASE Post(c)
  <2>0. PICK t \in Txs : \E es \in Lists[t] :
          posted' = [posted EXCEPT ![c] = [tx |-> t, list |-> es]]
    BY <1>3 DEF Post
  <2>1. PICK es \in Lists[t] :
          posted' = [posted EXCEPT ![c] = [tx |-> t, list |-> es]]
    BY <2>0
  <2>2. es \in Seq(Entries)
    BY ListsAssumption
  <2>3. [tx |-> t, list |-> es] \in [tx : Txs, list : Seq(Entries)]
    BY <2>2
  <2> QED BY <1>0, <1>3, <2>1, <2>3 DEF Post, Goto, PCs
<1>4. CASE Ends(c)
  BY <1>0, <1>4, FinishType DEF Ends
<1>5. CASE GoesOn(c)
  BY <1>0, <1>5 DEF GoesOn, Goto, PCs
<1>6. CASE FindLast(c)
  <2>1. HashOfLast(rows) \in Seq(Entries)
    <3>1. CASE rows = {}
      BY <3>1 DEF HashOfLast
    <3>2. CASE rows # {}
      <4>1. PICK r \in rows : \A s \in rows : s.id <= r.id
        <5>1. \A s \in rows : s.id \in 0 .. MaxId
          BY <1>0, RowFacts
        <5> QED BY <3>2, <5>1, LastExists, TypeFacts
      <4>2. HashOfLast(rows) = r.hash
        <5>1. \A s \in rows : s.id \in Nat
          BY <1>0, RowFacts
        <5> QED BY <4>1, <5>1, HashIs DEF IdsInv
      <4> QED BY <1>0, <4>2, RowFacts
    <3> QED BY <3>1, <3>2
  <2> QED BY <1>0, <1>6, <2>1 DEF FindLast, Goto, PCs
<1>7. CASE InsertEntry(c)
  <2>1. PICK x \in Row : /\ mine' = [mine EXCEPT ![c] = mine[c] \cup {x}]
                         /\ previous' = [previous EXCEPT ![c] = x.hash]
    BY <1>7, InsertEffect
  <2>2. UNCHANGED <<rows, pc, posted>> /\ x.hash \in Seq(Entries)
    BY <1>7, RowFacts DEF InsertEntry
  <2> QED BY <1>0, <2>1, <2>2
<1>8. CASE Commit(c)
  BY <1>0, <1>8, FinishType DEF Commit
<1> QED BY <1>3, <1>4, <1>5, <1>6, <1>7, <1>8

-----------------------------------------------------------------------------
(* Ids.                                                                    *)

LEMMA IdsStep ==
  ASSUME IsFiniteSet(Clients), TypeOK, IdsInv, RequestsInv, NEW c \in Clients,
         Post(c) \/ Ends(c) \/ GoesOn(c) \/ FindLast(c) \/ InsertEntry(c) \/ Commit(c)
  PROVE  IdsInv'
<1>0. /\ mine \in [Clients -> SUBSET Row] /\ rows \subseteq Row
      /\ nextId \in Nat
  BY TypeFacts
<1>1. CASE Post(c) \/ GoesOn(c) \/ FindLast(c)
  <2>1. UNCHANGED <<rows, nextId, mine>>
    BY <1>1 DEF Post, GoesOn, FindLast
  <2> QED BY <2>1 DEF IdsInv
<1>2. CASE Ends(c)
  <2>1. /\ UNCHANGED <<rows, nextId>> /\ mine'[c] = {}
        /\ \A d \in Clients : d # c => mine'[d] = mine[d]
    BY <1>2, FinishEffect DEF Ends
  <2>2. \A d \in Clients : mine'[d] = mine[d] \/ mine'[d] = {}
    BY <2>1
  <2>3. Numbered({})
    BY NumberedEmpty
  <2> QED BY <2>1, <2>2, <2>3 DEF IdsInv, Apart
<1>3. CASE InsertEntry(c)
  <2>1. PICK x \in Row : x.id = nextId /\ mine' = [mine EXCEPT ![c] = mine[c] \cup {x}]
    BY <1>3, InsertEffect
  <2>2. /\ rows' = rows /\ nextId' = nextId + 1 /\ mine'[c] = mine[c] \cup {x}
        /\ \A d \in Clients : d # c => mine'[d] = mine[d]
    BY <1>0, <1>3, <2>1 DEF InsertEntry
  <2>3. \A S : S \subseteq Row => \A r \in S : r.id \in Nat
    BY RowFacts
  <2>4. \A d \in Clients : \A r \in mine[d] : r.id < x.id
    BY <2>1 DEF IdsInv
  <2>5. \A r \in rows : r.id < x.id
    BY <2>1 DEF IdsInv
  <2>6. Numbered(mine'[c])
    <3>1. /\ Numbered(mine[c]) /\ \A r \in mine[c] : r.id \in Nat
          /\ \A r \in mine[c] : r.id < x.id
      BY <1>0, <2>3, <2>4 DEF IdsInv
    <3> QED BY <1>0, <2>1, <2>2, <3>1, RankOfNew
  <2>7. \A d \in Clients : /\ Numbered(mine'[d])
                           /\ \A r \in mine'[d] : r.id < nextId'
                           /\ Apart(mine'[d], rows')
    <3> SUFFICES ASSUME NEW d \in Clients
                 PROVE  /\ Numbered(mine'[d]) /\ \A r \in mine'[d] : r.id < nextId'
                        /\ Apart(mine'[d], rows')
      OBVIOUS
    <3>1. Numbered(mine'[d])
      BY <2>2, <2>6 DEF IdsInv
    <3>2. \A r \in mine'[d] : r \in mine[d] \/ r = x
      BY <2>2
    <3>3. \A r \in mine'[d] : r.id < nextId'
      <4> SUFFICES ASSUME NEW r \in mine'[d] PROVE r.id < nextId + 1
        BY <2>2
      <4>1. r.id <= nextId
        BY <1>0, <2>1, <2>3, <2>4, <3>2
      <4> QED BY <1>0, <2>1, <2>3, <3>2, <4>1
    <3>4. Apart(mine'[d], rows')
      <4> SUFFICES ASSUME NEW r \in mine'[d], NEW q \in rows PROVE r.id # q.id
        BY <2>2 DEF Apart
      <4>1. CASE r \in mine[d]
        BY <4>1 DEF IdsInv, Apart
      <4>2. CASE r = x
        <5>1. q.id < x.id /\ q.id \in Nat
          BY <1>0, <2>3, <2>5
        <5> QED BY <1>0, <2>1, <4>2, <5>1
      <4> QED BY <3>2, <4>1, <4>2
    <3> QED BY <3>1, <3>3, <3>4
  <2>8. \A r \in rows' : r.id < nextId'
    <3> SUFFICES ASSUME NEW r \in rows PROVE r.id < nextId + 1
      BY <2>2
    <3>1. r.id < nextId /\ r.id \in Nat
      BY <1>0, <2>3 DEF IdsInv
    <3> QED BY <1>0, <3>1
  <2>9. \A d, b \in Clients : d # b => Apart(mine'[d], mine'[b])
    <3> SUFFICES ASSUME NEW d \in Clients, NEW b \in Clients, d # b,
                        NEW r \in mine'[d], NEW q \in mine'[b]
                 PROVE  r.id # q.id
      BY DEF Apart
    <3>1. (r \in mine[d] \/ (d = c /\ r = x)) /\ (q \in mine[b] \/ (b = c /\ q = x))
      BY <2>2
    <3>2. CASE r \in mine[d] /\ q \in mine[b]
      BY <3>2 DEF IdsInv, Apart
    <3>3. CASE r \in mine[d] /\ q = x
      <4>1. r.id < x.id /\ r.id \in Nat
        BY <1>0, <2>3, <2>4, <3>3
      <4> QED BY <1>0, <2>1, <3>3, <4>1
    <3>4. CASE r = x /\ q \in mine[b]
      <4>1. q.id < x.id /\ q.id \in Nat
        BY <1>0, <2>3, <2>4, <3>4
      <4> QED BY <1>0, <2>1, <3>4, <4>1
    <3> QED BY <3>1, <3>2, <3>3, <3>4
  <2>10. Numbered(rows')
    BY <2>2 DEF IdsInv
  <2> QED BY <2>7, <2>8, <2>9, <2>10 DEF IdsInv
<1>4. CASE Commit(c)
  <2>1. /\ rows' = rows \cup mine[c] /\ nextId' = nextId /\ mine'[c] = {}
        /\ \A d \in Clients : d # c => mine'[d] = mine[d]
    BY <1>4, FinishEffect DEF Commit
  <2>2. Numbered(rows')
    <3>1. Numbered(rows) /\ Numbered(mine[c]) /\ Apart(rows, mine[c])
      BY DEF IdsInv, Apart
    <3> QED BY <2>1, <3>1, NumberedUnion
  <2>3. \A r \in rows' : r.id < nextId'
    BY <2>1 DEF IdsInv
  <2>4. \A d \in Clients : /\ Numbered(mine'[d])
                           /\ \A r \in mine'[d] : r.id < nextId'
                           /\ Apart(mine'[d], rows')
    <3> SUFFICES ASSUME NEW d \in Clients
                 PROVE  /\ Numbered(mine'[d]) /\ \A r \in mine'[d] : r.id < nextId'
                        /\ Apart(mine'[d], rows')
      OBVIOUS
    <3>1. CASE d = c
      BY <2>1, <3>1, NumberedEmpty DEF Apart
    <3>2. CASE d # c
      BY <2>1, <3>2 DEF IdsInv, Apart
    <3> QED BY <3>1, <3>2
  <2>5. \A d, b \in Clients : d # b => Apart(mine'[d], mine'[b])
    BY <2>1 DEF IdsInv, Apart
  <2> QED BY <2>2, <2>3, <2>4, <2>5 DEF IdsInv
<1> QED BY <1>1, <1>2, <1>3, <1>4

-----------------------------------------------------------------------------
(* Batches.                                                                *)

\* A client's knowledge lasts while others go on with other transactions.
LEMMA RequestKept ==
  ASSUME NEW d \in Clients, RequestInv(d), BatchInv(d),
         pc'[d] = pc[d], posted'[d] = posted[d], mine'[d] = mine[d],
         Holds(d) => (Recorded(posted[d].tx)' <=> Recorded(posted[d].tx))
  PROVE  RequestInv(d)' /\ BatchInv(d)'
<1>1. RequestInv(d)'
  <2>1. Holds(d)' <=> Holds(d)
    BY DEF Holds
  <2>2. Holds(d)' => ~Recorded(posted[d].tx)'
    BY <2>1 DEF RequestInv
  <2> QED BY <2>2 DEF RequestInv, Valid, Total
<1>2. BatchInv(d)'
  <2>1. \A r : Rank(mine[d], r)' = Rank(mine[d], r)
    BY DEF Rank
  <2> QED BY <2>1 DEF BatchInv
<1> QED BY <1>1, <1>2

\* One more of its list.
LEMMA BatchGrows ==
  ASSUME IsFiniteSet(Clients), TypeOK, TypeOK', IdsInv, RequestsInv,
         NEW c \in Clients, InsertEntry(c)
  PROVE  BatchInv(c)'
<1>1. PICK x \in Row : /\ x.id = nextId /\ x.tx = posted[c].tx
                       /\ x.entry = posted[c].list[Cardinality(mine[c]) + 1]
                       /\ mine' = [mine EXCEPT ![c] = mine[c] \cup {x}]
  BY InsertEffect
<1>2. PICK S, k, p : S = mine[c] /\ k = Cardinality(S) /\ p = posted[c]
  OBVIOUS
<1>3. /\ S \subseteq Row /\ Numbered(S) /\ k \in Nat /\ \A r \in S : r.id < x.id
      /\ x.id \in Nat /\ \A r \in S : r.id \in Nat
  <2>1. k \in Nat
    BY <1>2, LeftType
  <2>2. S \subseteq Row
    BY <1>2, TypeFacts
  <2>3. \A r \in S : r.id \in Nat
    BY <2>2, RowFacts
  <2> QED BY <1>1, <1>2, <2>1, <2>2, <2>3, RowFacts DEF IdsInv
<1>4. /\ Cardinality(S \cup {x}) = k + 1 /\ Rank(S \cup {x}, x) = k
      /\ \A r \in S : Rank(S \cup {x}, r) = Rank(S, r)
  <2>1. \A r \in S : r.id \in Nat
    BY <1>3
  <2>2. x.id \in Nat
    BY <1>3
  <2>3. \A r \in S : r.id < x.id
    BY <1>3
  <2>4. Numbered(S)
    BY <1>3
  <2>5. /\ Cardinality(S \cup {x}) = Cardinality(S) + 1
        /\ Rank(S \cup {x}, x) = Cardinality(S)
        /\ \A r \in S : Rank(S \cup {x}, r) = Rank(S, r)
    BY <2>1, <2>2, <2>3, <2>4, RankOfNew
  <2> QED BY <1>2, <2>5, Zenon
<1>5. k + 1 <= Len(p.list)
  BY <1>2 DEF InsertEntry
<1>6. /\ \A r \in S : r.tx = p.tx /\ r.entry = p.list[Rank(S, r) + 1]
      /\ \A n \in 1 .. k : \E r \in S : Rank(S, r) = n - 1
  BY <1>2 DEF RequestsInv, BatchInv
<1>7. mine'[c] = S \cup {x} /\ posted'[c] = p
  BY <1>1, <1>2, TypeFacts DEF InsertEntry
<1>8. \A r \in S \cup {x} : /\ r.tx = p.tx
                            /\ r.entry = p.list[Rank(S \cup {x}, r) + 1]
  BY <1>1, <1>2, <1>4, <1>6
<1>9. \A n \in 1 .. k + 1 : \E r \in S \cup {x} : Rank(S \cup {x}, r) = n - 1
  <2> SUFFICES ASSUME NEW n \in 1 .. k + 1
               PROVE  \E r \in S \cup {x} : Rank(S \cup {x}, r) = n - 1
    OBVIOUS
  <2>1. CASE n = k + 1
    <3>1. Rank(S \cup {x}, x) = n - 1
      BY <1>3, <1>4, <2>1
    <3> QED BY <3>1
  <2>2. CASE n # k + 1
    <3>1. n \in 1 .. k
      BY <1>3, <2>2
    <3>2. PICK r \in S : Rank(S, r) = n - 1
      BY <1>6, <3>1
    <3> QED BY <1>4, <3>2
  <2> QED BY <2>1, <2>2
<1>10. PICK T : T = S \cup {x}
  OBVIOUS
<1>11. /\ Cardinality(T) <= Len(p.list)
       /\ \A r \in T : r.tx = p.tx /\ r.entry = p.list[Rank(T, r) + 1]
       /\ \A n \in 1 .. Cardinality(T) : \E r \in T : Rank(T, r) = n - 1
  BY <1>4, <1>5, <1>8, <1>9, <1>10
<1>12. mine'[c] = T /\ posted'[c] = p /\ \A r : Rank(mine[c], r)' = Rank(T, r)
  BY <1>7, <1>10 DEF Rank
<1> QED BY <1>11, <1>12 DEF BatchInv

LEMMA RequestStep ==
  ASSUME IsFiniteSet(Clients), TypeOK, TypeOK', IdsInv, RequestsInv,
         NEW c \in Clients,
         Post(c) \/ Ends(c) \/ GoesOn(c) \/ FindLast(c) \/ InsertEntry(c) \/ Commit(c),
         NEW d \in Clients
  PROVE  RequestInv(d)' /\ BatchInv(d)'
<1>0. /\ RequestInv(d) /\ BatchInv(d) /\ RequestInv(c) /\ BatchInv(c)
      /\ pc \in [Clients -> PCs]
      /\ posted \in [Clients -> [tx : Txs, list : Seq(Entries)]]
      /\ mine \in [Clients -> SUBSET Row]
  BY TypeFacts DEF RequestsInv
<1>1. CASE d # c
  <2>1. pc'[d] = pc[d] /\ posted'[d] = posted[d] /\ mine'[d] = mine[d]
    <3>1. CASE Ends(c) \/ Commit(c)
      BY <1>1, <3>1, FinishEffect DEF Ends, Commit
    <3>2. CASE InsertEntry(c)
      BY <1>0, <1>1, <3>2 DEF InsertEntry
    <3>3. CASE Post(c) \/ GoesOn(c) \/ FindLast(c)
      BY <1>0, <1>1, <3>3 DEF Post, GoesOn, FindLast, Goto
    <3> QED BY <3>1, <3>2, <3>3
  <2>2. Holds(d) => (Recorded(posted[d].tx)' <=> Recorded(posted[d].tx))
    <3>1. CASE Commit(c)
      <4>1. rows' = rows \cup mine[c] /\ Holds(c)
        BY <3>1 DEF Commit, Holds
      <4>2. \A r \in mine[c] : r.tx = posted[c].tx
        BY <1>0 DEF BatchInv
      <4>3. Holds(d) => posted[d].tx # posted[c].tx
        BY <1>1, <4>1 DEF RequestsInv, IndexInv
      <4>4. Recorded(posted[d].tx)' <=> \E r \in rows' : r.tx = posted'[d].tx
        BY DEF Recorded
      <4> QED BY <2>1, <4>1, <4>2, <4>3, <4>4 DEF Recorded
    <3>2. CASE ~Commit(c)
      <4>1. rows' = rows
        BY <3>2 DEF Post, Ends, GoesOn, FindLast, InsertEntry
      <4> QED BY <2>1, <4>1 DEF Recorded
    <3> QED BY <3>1, <3>2
  <2> QED BY <1>0, <2>1, <2>2, RequestKept
<1>2. CASE d = c
  <2>1. CASE Ends(c) \/ Commit(c)
    <3>1. pc'[c] = "idle" /\ posted'[c] = NoRequest /\ mine'[c] = {}
      BY <2>1, FinishEffect DEF Ends, Commit
    <3>2. BatchInv(c)'
      <4>1. Cardinality(mine'[c]) = 0
        BY <3>1, FS_EmptySet
      <4>2. Len(posted'[c].list) \in Nat
        BY <3>1, NoRequestType
      <4> QED BY <3>1, <4>1, <4>2 DEF BatchInv
    <3> QED BY <1>2, <3>1, <3>2 DEF RequestInv, Holds
  <2>2. CASE InsertEntry(c)
    <3>1. BatchInv(c)'
      BY <2>2, BatchGrows
    <3>2. RequestInv(c)'
      BY <1>0, <2>2 DEF InsertEntry, RequestInv, Holds, Recorded
    <3> QED BY <1>2, <3>1, <3>2
  <2>3. CASE Post(c)
    <3>1. mine' = mine /\ mine[c] = {}
      BY <1>0, <2>3 DEF Post, RequestInv
    <3>2. BatchInv(c)'
      <4>1. Cardinality(mine'[c]) = 0 /\ mine'[c] = {}
        BY <3>1, FS_EmptySet
      <4>2. Len(posted'[c].list) \in Nat
        BY DEF TypeOK
      <4> QED BY <4>1, <4>2 DEF BatchInv
    <3>3. PICK t \in Txs : \E es \in Lists[t] :
            Valid(es) /\ posted' = [posted EXCEPT ![c] = [tx |-> t, list |-> es]]
      BY <2>3 DEF Post
    <3>4. PICK es \in Lists[t] :
            Valid(es) /\ posted' = [posted EXCEPT ![c] = [tx |-> t, list |-> es]]
      BY <3>3
    <3>5. posted'[c] = [tx |-> t, list |-> es]
      BY <1>0, <3>4
    <3>6. posted'[c].list \in Lists[posted'[c].tx] /\ Valid(posted'[c].list)
      BY <3>4, <3>5
    <3>7. pc'[c] = "find"
      BY <1>0, <2>3 DEF Post, Goto
    <3>8. Valid(posted[c].list)' <=> Valid(posted'[c].list)
      BY DEF Valid, Total
    <3> QED BY <1>2, <3>1, <3>2, <3>6, <3>7, <3>8 DEF RequestInv, Holds
  <2>4. CASE GoesOn(c) \/ FindLast(c)
    <3>1. /\ UNCHANGED <<rows, posted, mine>> /\ pc[c] # "idle" /\ pc[c] # "insert"
          /\ ~Recorded(posted[c].tx) /\ pc'[c] # "idle"
      BY <1>0, <2>4 DEF GoesOn, FindLast, Goto, RequestInv, Holds
    <3>2. BatchInv(c)'
      <4>1. \A r : Rank(mine[c], r)' = Rank(mine[c], r)
        BY <3>1 DEF Rank
      <4> QED BY <1>0, <3>1, <4>1 DEF BatchInv
    <3>3. RequestInv(c)'
      BY <1>0, <3>1 DEF RequestInv, Recorded
    <3> QED BY <1>2, <3>2, <3>3
  <2> QED BY <2>1, <2>2, <2>3, <2>4
<1> QED BY <1>1, <1>2

LEMMA IndexStep ==
  ASSUME TypeOK, RequestsInv, NEW c \in Clients,
         Post(c) \/ Ends(c) \/ GoesOn(c) \/ FindLast(c) \/ InsertEntry(c) \/ Commit(c)
  PROVE  IndexInv'
<1>0. /\ IndexInv /\ pc \in [Clients -> PCs]
      /\ posted \in [Clients -> [tx : Txs, list : Seq(Entries)]]
  BY TypeFacts DEF RequestsInv
<1>1. CASE Post(c) \/ Ends(c) \/ Commit(c)
  <2>1. /\ pc'[c] \in {"idle", "find"}
        /\ \A d \in Clients : d # c => pc'[d] = pc[d] /\ posted'[d] = posted[d]
    <3>1. CASE Post(c)
      BY <1>0, <3>1 DEF Post, Goto
    <3>2. CASE Ends(c) \/ Commit(c)
      BY <3>2, FinishEffect DEF Ends, Commit
    <3> QED BY <1>1, <3>1, <3>2
  <2> QED BY <1>0, <2>1 DEF IndexInv, Holds
<1>2. CASE FindLast(c) \/ InsertEntry(c)
  <2>1. /\ posted' = posted /\ Holds(c)
        /\ \A d \in Clients : Holds(d)' => Holds(d)
    BY <1>0, <1>2 DEF FindLast, InsertEntry, Goto, Holds
  <2> QED BY <1>0, <2>1 DEF IndexInv
<1>3. CASE GoesOn(c)
  <2>1. /\ posted' = posted
        /\ \A d \in Clients : d # c => (Holds(d)' <=> Holds(d))
        /\ Holds(c)' => \A d \in Clients \ {c} : Holds(d) => posted[d].tx # posted[c].tx
    BY <1>0, <1>3 DEF GoesOn, Goto, Holds
  <2> QED BY <1>0, <2>1 DEF IndexInv
<1> QED BY <1>1, <1>2, <1>3

\* What is left for a client after its step.
LEMMA LeftStep ==
  ASSUME IsFiniteSet(Clients), TypeOK, IdsInv, RequestsInv, NEW c \in Clients,
         Post(c) \/ Ends(c) \/ GoesOn(c) \/ FindLast(c) \/ InsertEntry(c) \/ Commit(c)
  PROVE  /\ Left'[c] \in Nat /\ nextId' \in Nat
         /\ \A x \in Clients : x # c => Left[x] = Left'[x]
         /\ \/ (nextId' - nextId) + (Left'[c] - Left[c]) <= 0
            \/ (nextId' + Outstanding) + (Left'[c] - Left[c]) <= MaxId + 1
<1>0. /\ pc \in [Clients -> PCs] /\ mine \in [Clients -> SUBSET Row]
      /\ posted \in [Clients -> [tx : Txs, list : Seq(Entries)]]
      /\ nextId \in Nat /\ Left[c] \in Nat
  BY TypeFacts, LeftType
<1>1. CASE Post(c)
  <2>1. PICK t \in Txs : \E es \in Lists[t] :
          /\ nextId + Outstanding + Len(es) <= MaxId + 1
          /\ posted' = [posted EXCEPT ![c] = [tx |-> t, list |-> es]]
    BY <1>1 DEF Post
  <2>2. PICK es \in Lists[t] :
          /\ nextId + Outstanding + Len(es) <= MaxId + 1
          /\ posted' = [posted EXCEPT ![c] = [tx |-> t, list |-> es]]
    BY <2>1
  <2>3. es \in Seq(Entries) /\ Len(es) \in Nat
    BY ListsAssumption
  <2>4. /\ posted'[c].list = es /\ mine' = mine /\ nextId' = nextId
        /\ \A x \in Clients : x # c => posted'[x] = posted[x]
    BY <1>0, <1>1, <2>2 DEF Post
  <2>5. mine[c] = {} /\ posted[c].list = <<>>
    BY <1>1, NoRequestType DEF Post, RequestsInv, RequestInv
  <2>6. Cardinality(mine[c]) = 0
    BY <2>5, FS_EmptySet
  <2>7. Left[c] = 0 /\ Left'[c] = Len(es)
    <3>1. /\ Left[c] = Len(posted[c].list) - Cardinality(mine[c])
          /\ Left'[c] = Len(posted'[c].list) - Cardinality(mine'[c])
      BY DEF Left
    <3>2. Len(posted[c].list) = 0
      BY <2>5
    <3>3. Left[c] = 0 - 0
      BY <2>6, <3>1, <3>2, Zenon
    <3>4. Left'[c] = Len(es) - 0
      BY <2>4, <2>6, <3>1, Zenon
    <3> QED BY <2>3, <3>3, <3>4
  <2>8. \A x \in Clients : x # c => Left[x] = Left'[x]
    BY <2>4 DEF Left
  <2>9. Outstanding \in Nat
    <3>1. \A x \in Clients : Left[x] \in Nat
      BY LeftType
    <3> QED BY <3>1, ClientSumNat, OutstandingIs
  <2> QED BY <1>0, <2>2, <2>3, <2>4, <2>7, <2>8, <2>9
<1>2. CASE Ends(c) \/ Commit(c)
  <2>1. /\ posted'[c] = NoRequest /\ mine'[c] = {} /\ nextId' = nextId
        /\ \A d \in Clients : d # c => posted'[d] = posted[d] /\ mine'[d] = mine[d]
    BY <1>2, FinishEffect DEF Ends, Commit
  <2>2. Cardinality(mine'[c]) = 0
    BY <2>1, FS_EmptySet
  <2>3. Left'[c] = 0
    <3>1. Left'[c] = Len(posted'[c].list) - Cardinality(mine'[c])
      BY DEF Left
    <3>2. Len(NoRequest.list) = 0
      BY NoRequestType
    <3>3. Left'[c] = 0 - 0
      BY <2>1, <2>2, <3>1, <3>2, Zenon
    <3> QED BY <3>3
  <2>4. \A x \in Clients : x # c => Left[x] = Left'[x]
    BY <2>1 DEF Left
  <2> QED BY <1>0, <2>1, <2>3, <2>4
<1>3. CASE GoesOn(c) \/ FindLast(c)
  <2>1. Left' = Left /\ nextId' = nextId
    BY <1>3 DEF GoesOn, FindLast, Left
  <2> QED BY <1>0, <2>1
<1>4. CASE InsertEntry(c)
  <2>1. PICK x \in Row : x.id = nextId /\ mine' = [mine EXCEPT ![c] = mine[c] \cup {x}]
    BY <1>4, InsertEffect
  <2>2. /\ mine'[c] = mine[c] \cup {x} /\ posted' = posted /\ nextId' = nextId + 1
        /\ \A d \in Clients : d # c => mine'[d] = mine[d]
    BY <1>0, <1>4, <2>1 DEF InsertEntry
  <2>3. Cardinality(mine[c] \cup {x}) = Cardinality(mine[c]) + 1
    <3>1. \A r \in mine[c] : r.id < x.id /\ r.id \in Nat
      BY <1>0, <2>1, RowFacts DEF IdsInv
    <3>2. x \notin mine[c]
      BY <1>0, <2>1, <3>1
    <3> QED BY <3>2, FS_AddElement DEF IdsInv, Numbered
  <2>4. Left'[c] = Left[c] - 1 /\ Left'[c] \in Nat
    <3>1. PICK k \in Nat, l \in Nat : k = Cardinality(mine[c]) /\ l = Len(posted[c].list)
      BY LeftType, TypeFacts
    <3>2. Left[c] = l - k /\ Left'[c] = l - (k + 1)
      BY <2>2, <2>3, <3>1 DEF Left
    <3>3. k + 1 <= l
      BY <1>4, <3>1 DEF InsertEntry
    <3> QED BY <3>2, <3>3
  <2>5. \A y \in Clients : y # c => Left[y] = Left'[y]
    BY <2>2 DEF Left
  <2> QED BY <1>0, <2>2, <2>4, <2>5
<1> QED BY <1>1, <1>2, <1>3, <1>4

\* Ids, requests and batches through the steps of a client.
LEMMA PostingClient ==
  ASSUME IsFiniteSet(Clients), PostingInv, NEW c \in Clients,
         Post(c) \/ Ends(c) \/ GoesOn(c) \/ FindLast(c) \/ InsertEntry(c) \/ Commit(c)
  PROVE  PostingInv'
<1>0. TypeOK /\ IdsInv /\ RequestsInv /\ nextId \in Nat \ {0} /\ MaxId \in Nat
  BY TypeFacts DEF PostingInv
<1>1. RoomInv' /\ nextId' <= MaxId + 1
  <2>1. \A x \in Clients : Left[x] \in Nat
    BY <1>0, LeftType
  <2>2. /\ Left'[c] \in Nat /\ nextId' \in Nat
        /\ \A x \in Clients : x # c => Left[x] = Left'[x]
        /\ \/ (nextId' - nextId) + (Left'[c] - Left[c]) <= 0
           \/ (nextId' + Outstanding) + (Left'[c] - Left[c]) <= MaxId + 1
    BY <1>0, LeftStep
  <2>3. \A x \in Clients : Left'[x] \in Nat
    BY <2>1, <2>2
  <2>4. RoomInv /\ nextId \in Nat
    BY <1>0 DEF RequestsInv
  <2> QED BY <1>0, <2>1, <2>2, <2>3, <2>4, RoomStep
<1>2. nextId' \in 1 .. MaxId + 1
  <2>1. nextId' \in {nextId, nextId + 1}
    BY DEF Post, Ends, GoesOn, FindLast, InsertEntry, Commit
  <2> QED BY <1>0, <1>1, <2>1
<1>3. TypeOK'
  BY <1>0, <1>2, ClientType
<1>4. IdsInv'
  BY <1>0, IdsStep
<1>5. \A d \in Clients : RequestInv(d)' /\ BatchInv(d)'
  BY <1>0, <1>3, RequestStep
<1>6. IndexInv'
  BY <1>0, IndexStep
<1> QED BY <1>1, <1>3, <1>4, <1>5, <1>6 DEF PostingInv, RequestsInv

-----------------------------------------------------------------------------
(* Audits.                                                                 *)

After(a) == {r \in rows : r.id > lastId[a]}

LEMMA AuditFacts ==
  ASSUME TypeOK
  PROVE  /\ verdict \in [Auditors -> {"none", "scanning", "ok", "broken"}]
         /\ lastId \in [Auditors -> 0 .. MaxId]
         /\ records \in [Auditors -> 0 .. MaxId] /\ due \in [Auditors -> 0 .. MaxId]
         /\ BatchSize \in Nat \ {0} /\ MaxId \in Nat
BY ListsAssumption DEF TypeOK

\* What one page reads.
LEMMA PageFacts ==
  ASSUME PostingInv, NEW a \in Auditors
  PROVE  /\ Page(a) \subseteq After(a) /\ Page(a) \subseteq rows
         /\ Numbered(After(a)) /\ IsFiniteSet(Page(a)) /\ Numbered(Page(a))
         /\ \A r \in rows : r.id \in Nat \ {0} /\ r.id \in 0 .. MaxId
         /\ \A r \in Page(a), s \in After(a) : s.id <= r.id => s \in Page(a)
         /\ Cardinality(Page(a)) < BatchSize => Page(a) = After(a)
<1>1. Page(a) = FirstOnes(After(a), BatchSize)
  BY DEF Page, FirstOnes, After, Rank
<1>2. After(a) \subseteq rows /\ Page(a) \subseteq After(a)
  BY <1>1 DEF After, FirstOnes
<1>3. Numbered(After(a)) /\ Numbered(Page(a))
  BY <1>2, NumberedSubset DEF PostingInv, IdsInv
<1>4. \A r \in rows : r.id \in Nat \ {0} /\ r.id \in 0 .. MaxId
  BY TypeFacts, RowFacts DEF PostingInv
<1>5. BatchSize \in Nat
  BY ListsAssumption
<1>6. \A r \in After(a) : r.id \in Nat
  BY <1>2, <1>4
<1>7. \A r \in Page(a), s \in After(a) : s.id <= r.id => s \in Page(a)
  BY <1>1, <1>3, <1>5, <1>6, PageClosed
<1>8. Cardinality(Page(a)) < BatchSize => Page(a) = After(a)
  BY <1>1, <1>3, <1>5, <1>6, PageNotFull
<1> QED BY <1>2, <1>3, <1>4, <1>7, <1>8 DEF Numbered

\* Where the next page begins.
LEMMA NextPage ==
  ASSUME PostingInv, NEW a \in Auditors, NEW m,
         m = Max({r.id : r \in Page(a)} \cup {lastId[a]})
  PROVE  /\ m \in 0 .. MaxId /\ lastId[a] <= m /\ \A r \in Page(a) : r.id <= m
         /\ m = lastId[a] \/ \E r \in Page(a) : r.id = m
<1> DEFINE S == {r.id : r \in Page(a)} \cup {lastId[a]}
<1>1. lastId[a] \in 0 .. MaxId /\ MaxId \in Nat
  BY AuditFacts DEF PostingInv
<1>2. \A r \in Page(a) : r.id \in 0 .. MaxId
  BY PageFacts
<1>3. S \subseteq 0 .. MaxId /\ S # {}
  BY <1>1, <1>2
<1>4. Max(S) \in S /\ \A y \in S : y <= Max(S)
  <2> HIDE DEF S
  <2> QED BY <1>1, <1>3, MaxIsGreatest
<1> QED BY <1>3, <1>4

\* There are no more entries than ids.
LEMMA RowsBounded ==
  ASSUME PostingInv, NEW S \in SUBSET rows
  PROVE  IsFiniteSet(S) /\ Cardinality(S) \in 0 .. MaxId
<1>1. IsFiniteSet(rows) /\ \A r \in rows : r.id \in 1 .. MaxId /\ MaxId \in Nat
  BY TypeFacts, RowFacts DEF PostingInv, IdsInv, Numbered
<1>2. IsFiniteSet(S) /\ Cardinality(S) \in Nat
  BY <1>1, FS_Subset, FS_CardinalityType
<1>3. IsFiniteSet(1 .. MaxId) /\ Cardinality(1 .. MaxId) = MaxId
  <2>1. MaxId \in Nat
    BY ListsAssumption
  <2>2. 1 \in Int /\ MaxId \in Int
    BY <2>1
  <2>3. /\ IsFiniteSet(1 .. MaxId)
        /\ Cardinality(1 .. MaxId) = IF 1 > MaxId THEN 0 ELSE MaxId - 1 + 1
    BY <2>2, FS_Interval
  <2> QED BY <2>1, <2>3
<1> DEFINE f == [r \in S |-> r.id]
<1>4. f \in Injection(S, 1 .. MaxId)
  <2>1. f \in [S -> 1 .. MaxId]
    BY <1>1
  <2>2. \A r, s \in S : f[r] = f[s] => r = s
    BY DEF PostingInv, IdsInv, Numbered
  <2> HIDE DEF f
  <2> QED BY <2>1, <2>2 DEF Injection, IsInjective
<1>5. Cardinality(S) <= Cardinality(1 .. MaxId)
  <2> HIDE DEF f
  <2> QED BY <1>3, <1>4, FS_Injection
<1> QED BY <1>2, <1>3, <1>5

\* What an audit has read grows by what it reads.
LEMMA ReadMore ==
  ASSUME PostingInv, NEW a \in Auditors, verdict[a] = "scanning",
         NEW R \in SUBSET rows, \A r \in R : r.id <= lastId[a],
         NEW Q \in SUBSET Page(a)
  PROVE  /\ R \cup Q \in SUBSET rows
         /\ Cardinality(R \cup Q) = Cardinality(R) + Cardinality(Q)
         /\ Cardinality(R \cup Q) \in 0 .. MaxId
<1>1. R \cap Q = {}
  <2> SUFFICES ASSUME NEW r \in R, r \in Q PROVE FALSE
    OBVIOUS
  <2>1. r.id <= lastId[a] /\ r.id > lastId[a] /\ r.id \in Nat
    BY PageFacts DEF After
  <2>2. lastId[a] \in Nat
    BY AuditFacts DEF PostingInv
  <2> QED BY <2>1, <2>2
<1>2. R \cup Q \in SUBSET rows /\ Q \in SUBSET rows
  BY PageFacts
<1>3. IsFiniteSet(R) /\ IsFiniteSet(Q) /\ Cardinality(R) \in Nat /\ Cardinality(Q) \in Nat
  BY <1>2, RowsBounded
<1>4. Cardinality(R \cup Q) = Cardinality(R) + Cardinality(Q) - Cardinality({})
  BY <1>1, <1>3, FS_Union
<1>5. Cardinality({}) = 0
  BY FS_EmptySet
<1>6. Cardinality(R \cup Q) \in 0 .. MaxId
  BY <1>2, RowsBounded
<1> QED BY <1>2, <1>3, <1>4, <1>5, <1>6

\* An audit's step leaves the batches alone.
AuditStep(a) == StartAudit(a) \/ ScanPage(a)

LEMMA AuditEffect ==
  ASSUME TypeOK, NEW a \in Auditors, AuditStep(a)
  PROVE  /\ UNCHANGED <<rows, nextId, overlapped, clientVars>>
         /\ \A x \in Clients \cup Auditors : x # a => previous'[x] = previous[x]
         /\ \A c \in Clients : previous'[c] = previous[c]
         /\ \A b \in Auditors : b # a =>
              /\ verdict'[b] = verdict[b] /\ lastId'[b] = lastId[b]
              /\ records'[b] = records[b] /\ due'[b] = due[b]
<1>1. \A x \in Clients \cup Auditors : x # a => previous'[x] = previous[x]
  BY TypeFacts DEF AuditStep, StartAudit, ScanPage
<1>2. \A c \in Clients : c # a
  BY TypeFacts
<1>3. \A b \in Auditors : b # a =>
        /\ verdict'[b] = verdict[b] /\ lastId'[b] = lastId[b]
        /\ records'[b] = records[b] /\ due'[b] = due[b]
  BY AuditFacts DEF AuditStep, StartAudit, ScanPage
<1>4. UNCHANGED <<rows, nextId, overlapped, clientVars>>
  BY DEF AuditStep, StartAudit, ScanPage
<1> QED BY <1>1, <1>2, <1>3, <1>4

\* An audit begins with nothing read and all rows to read.
LEMMA AuditStarts ==
  ASSUME LedgerInv, NEW a \in Auditors, StartAudit(a)
  PROVE  /\ \E D \in SUBSET rows' : \E R \in SUBSET rows' : Reading(a, D, R)'
         /\ previous'[a] = <<>> /\ lastId'[a] = 0 /\ verdict'[a] = "scanning"
         /\ records'[a] \in 0 .. MaxId /\ due'[a] \in 0 .. MaxId
<1>1. /\ previous'[a] = <<>> /\ lastId'[a] = 0 /\ records'[a] = 0
      /\ due'[a] = Cardinality(rows) /\ verdict'[a] = "scanning" /\ rows' = rows
  BY TypeFacts, AuditFacts DEF LedgerInv, PostingInv, StartAudit
<1>2. Cardinality(rows) \in 0 .. MaxId /\ \A r \in rows : r.id \in Nat \ {0}
  BY RowsBounded, PageFacts DEF LedgerInv
<1>3. \A r \in rows : ~(r.id <= 0)
  BY <1>2
<1>4. Cardinality({}) = 0
  BY FS_EmptySet
<1>5. Reading(a, rows, {})'
  BY <1>1, <1>3, <1>4 DEF Reading
<1>6. MaxId \in Nat
  BY ListsAssumption
<1> QED BY <1>1, <1>2, <1>5, <1>6

\* Page after page it misses nothing.
LEMMA AuditScans ==
  ASSUME LedgerInv, NEW a \in Auditors, ScanPage(a)
  PROVE  /\ \E D \in SUBSET rows' : \E R \in SUBSET rows' : Reading(a, D, R)'
         /\ records'[a] \in 0 .. MaxId /\ due'[a] \in 0 .. MaxId
<1>0. /\ PostingInv /\ verdict[a] = "scanning" /\ rows' = rows /\ due' = due
      /\ lastId[a] \in Nat /\ due[a] \in 0 .. MaxId
      /\ verdict \in [Auditors -> {"none", "scanning", "ok", "broken"}]
      /\ lastId \in [Auditors -> 0 .. MaxId] /\ records \in [Auditors -> 0 .. MaxId]
  BY AuditFacts DEF LedgerInv, PostingInv, ScanPage
<1>1. PICK D \in SUBSET rows : \E R \in SUBSET rows : Reading(a, D, R)
  BY DEF LedgerInv, AuditInv
<1>2. PICK R \in SUBSET rows : Reading(a, D, R)
  BY <1>1
<1>3. /\ due[a] = Cardinality(D) /\ records[a] = Cardinality(R)
      /\ \A r \in R : r.id <= lastId[a]
      /\ \A r \in D : r.id <= lastId[a] => r \in R
  BY <1>0, <1>2 DEF Reading
<1>4. PICK P : P = Page(a)
  OBVIOUS
<1>5. CASE Breaks(P, previous[a]) # {}
  <2> DEFINE Q == {r \in P : \A b \in Breaks(P, previous[a]) : r.id < b.id}
  <2>1. records'[a] = records[a] + Cardinality(Q) /\ verdict'[a] = "broken"
    BY <1>0, <1>4, <1>5 DEF ScanPage
  <2>2. Q \in SUBSET Page(a)
    BY <1>4
  <2> HIDE DEF Q
  <2>3. /\ R \cup Q \in SUBSET rows
        /\ Cardinality(R \cup Q) = Cardinality(R) + Cardinality(Q)
        /\ Cardinality(R \cup Q) \in 0 .. MaxId
    BY <1>0, <1>3, <2>2, ReadMore
  <2>4. PICK T \in SUBSET rows' :
          /\ Cardinality(T) = Cardinality(R) + Cardinality(Q)
          /\ Cardinality(T) \in 0 .. MaxId
    BY <1>0, <2>3, Zenon
  <2>5. records'[a] = Cardinality(T) /\ due'[a] = Cardinality(D) /\ D \in SUBSET rows'
    BY <1>0, <1>3, <2>1, <2>4, Zenon
  <2>6. Reading(a, D, T)'
    BY <2>1, <2>5 DEF Reading
  <2>7. records'[a] \in 0 .. MaxId /\ due'[a] \in 0 .. MaxId
    BY <1>0, <2>4, <2>5, Zenon
  <2> QED BY <2>4, <2>5, <2>6, <2>7
<1>6. CASE Breaks(P, previous[a]) = {}
  <2>1. PICK m : m = Max({r.id : r \in Page(a)} \cup {lastId[a]})
    OBVIOUS
  <2>2. /\ records'[a] = records[a] + Cardinality(P) /\ lastId'[a] = m
        /\ verdict'[a] = IF Cardinality(P) < BatchSize THEN "ok" ELSE "scanning"
    BY <1>0, <1>4, <1>6, <2>1 DEF ScanPage
  <2>3. /\ m \in Nat /\ lastId[a] <= m /\ \A r \in P : r.id <= m
        /\ m = lastId[a] \/ \E r \in P : r.id = m
    <3>1. /\ m \in 0 .. MaxId /\ lastId[a] <= m /\ \A r \in Page(a) : r.id <= m
          /\ m = lastId[a] \/ \E r \in Page(a) : r.id = m
      BY <1>0, <2>1, NextPage
    <3>2. m \in Nat
      BY <3>1
    <3> QED BY <1>4, <3>1, <3>2
  <2>4. /\ R \cup P \in SUBSET rows
        /\ Cardinality(R \cup P) = Cardinality(R) + Cardinality(P)
        /\ Cardinality(R \cup P) \in 0 .. MaxId
    BY <1>0, <1>3, <1>4, ReadMore
  <2>5. \A r \in rows : r.id \in Nat
    BY <1>0, PageFacts
  <2>6. \A r \in R \cup P : r.id <= m
    <3> SUFFICES ASSUME NEW r \in R PROVE r.id <= m
      BY <2>3
    <3>1. r.id <= lastId[a] /\ r.id \in Nat
      BY <1>3, <2>5
    <3> QED BY <1>0, <2>3, <3>1
  <2>7. \A r \in D : r.id <= m => r \in R \cup P
    <3> SUFFICES ASSUME NEW r \in D, r.id <= m, ~(r.id <= lastId[a]) PROVE r \in P
      BY <1>3
    <3>1. r.id \in Nat /\ r \in After(a)
      BY <1>0, <2>5 DEF After
    <3>2. PICK q \in P : q.id = m
      BY <2>3
    <3> QED BY <1>0, <1>4, <3>1, <3>2, PageFacts
  <2>8. Cardinality(P) < BatchSize => D \subseteq R \cup P
    <3> SUFFICES ASSUME Cardinality(P) < BatchSize, NEW r \in D, ~(r.id <= lastId[a])
                 PROVE  r \in P
      BY <1>3
    <3>1. r.id \in Nat /\ r \in After(a)
      BY <1>0, <2>5 DEF After
    <3> QED BY <1>0, <1>4, <3>1, PageFacts
  <2>9. Reading(a, D, R \cup P)'
    <3>1. due'[a] = Cardinality(D) /\ records'[a] = Cardinality(R \cup P)
      BY <1>0, <1>3, <2>2, <2>4
    <3>2. verdict'[a] = "ok" => D \subseteq R \cup P
      BY <2>2, <2>8
    <3> QED BY <2>2, <2>6, <2>7, <3>1, <3>2 DEF Reading
  <2> QED BY <1>0, <1>3, <2>2, <2>4, <2>9
<1> QED BY <1>5, <1>6

LEMMA AuditKeeps ==
  ASSUME LedgerInv, NEW a \in Auditors, rows \subseteq rows',
         verdict'[a] = verdict[a], lastId'[a] = lastId[a],
         records'[a] = records[a], due'[a] = due[a]
  PROVE  \E D \in SUBSET rows' : \E R \in SUBSET rows' : Reading(a, D, R)'
<1>1. PICK D \in SUBSET rows : \E R \in SUBSET rows : Reading(a, D, R)
  BY DEF LedgerInv, AuditInv
<1>2. PICK R \in SUBSET rows : Reading(a, D, R)
  BY <1>1
<1>3. Reading(a, D, R)'
  BY <1>2 DEF Reading
<1> QED BY <1>3

LEMMA LedgerAudits ==
  ASSUME LedgerInv, NEW a \in Auditors, AuditStep(a)
  PROVE  LedgerInv'
<1>0. TypeOK
  BY DEF LedgerInv, PostingInv
<1>1. AuditInv'
  <2> SUFFICES ASSUME NEW b \in Auditors
               PROVE  \E D \in SUBSET rows' : \E R \in SUBSET rows' : Reading(b, D, R)'
    BY DEF AuditInv
  <2>1. CASE b = a
    BY <2>1, AuditStarts, AuditScans DEF AuditStep
  <2>2. CASE b # a
    <3>1. rows' = rows /\ verdict'[b] = verdict[b] /\ lastId'[b] = lastId[b]
          /\ records'[b] = records[b] /\ due'[b] = due[b]
      BY <1>0, <2>2, AuditEffect
    <3> QED BY <3>1, AuditKeeps
  <2> QED BY <2>1, <2>2
<1>2. TypeOK'
  <2>1. /\ records'[a] \in 0 .. MaxId /\ due'[a] \in 0 .. MaxId
        /\ lastId'[a] \in 0 .. MaxId /\ previous'[a] \in Seq(Entries)
        /\ verdict'[a] \in {"none", "scanning", "ok", "broken"}
    <3>0. MaxId \in Nat /\ lastId[a] \in 0 .. MaxId
          /\ previous \in [Clients \cup Auditors -> Seq(Entries)]
          /\ verdict \in [Auditors -> {"none", "scanning", "ok", "broken"}]
          /\ lastId \in [Auditors -> 0 .. MaxId] /\ rows \subseteq Row
      BY <1>0, TypeFacts, AuditFacts
    <3>1. CASE StartAudit(a)
      <4>1. /\ previous'[a] = <<>> /\ lastId'[a] = 0 /\ verdict'[a] = "scanning"
            /\ records'[a] \in 0 .. MaxId /\ due'[a] \in 0 .. MaxId
        BY <3>1, AuditStarts
      <4>2. <<>> \in Seq(Entries)
        OBVIOUS
      <4>3. 0 \in 0 .. MaxId
        BY <3>0
      <4> QED BY <4>1, <4>2, <4>3
    <3>2. CASE ScanPage(a)
      <4>1. records'[a] \in 0 .. MaxId /\ due'[a] \in 0 .. MaxId
        BY <3>2, AuditScans
      <4>2. lastId'[a] \in 0 .. MaxId
        <5>1. PICK m : m = Max({r.id : r \in Page(a)} \cup {lastId[a]})
          OBVIOUS
        <5>2. m \in 0 .. MaxId
          BY <5>1, NextPage DEF LedgerInv
        <5> QED BY <3>0, <3>2, <5>1, <5>2 DEF ScanPage
      <4>3. previous'[a] \in Seq(Entries)
        <5>1. Page(a) # {} => HashOfLast(Page(a)) \in Seq(Entries)
          <6> SUFFICES ASSUME Page(a) # {} PROVE HashOfLast(Page(a)) \in Seq(Entries)
            OBVIOUS
          <6>1. /\ \A s \in Page(a) : s.id \in 0 .. MaxId
                /\ \A s \in Page(a) : s.id \in Nat
                /\ Numbered(Page(a)) /\ Page(a) \subseteq rows
            BY PageFacts DEF LedgerInv
          <6>2. PICK r \in Page(a) : \A s \in Page(a) : s.id <= r.id
            BY <3>0, <6>1, LastExists
          <6>3. HashOfLast(Page(a)) = r.hash
            BY <6>1, <6>2, HashIs
          <6> QED BY <3>0, <6>1, <6>3, RowFacts
        <5> QED BY <3>0, <3>2, <5>1 DEF ScanPage
      <4>4. verdict'[a] \in {"none", "scanning", "ok", "broken"}
        BY <3>0, <3>2 DEF ScanPage
      <4> QED BY <4>1, <4>2, <4>3, <4>4
    <3> QED BY <3>1, <3>2 DEF AuditStep
  <2>2. UNCHANGED <<rows, nextId, overlapped, clientVars>>
    BY <1>0, AuditEffect
  <2>3. /\ previous' \in [Clients \cup Auditors -> Seq(Entries)]
        /\ verdict' \in [Auditors -> {"none", "scanning", "ok", "broken"}]
        /\ lastId' \in [Auditors -> 0 .. MaxId]
        /\ records' \in [Auditors -> 0 .. MaxId] /\ due' \in [Auditors -> 0 .. MaxId]
    <3>1. /\ DOMAIN previous' = Clients \cup Auditors
          /\ previous' = [x \in Clients \cup Auditors |-> previous'[x]]
          /\ verdict' = [b \in Auditors |-> verdict'[b]]
          /\ lastId' = [b \in Auditors |-> lastId'[b]]
          /\ records' = [b \in Auditors |-> records'[b]]
          /\ due' = [b \in Auditors |-> due'[b]]
      BY <1>0, TypeFacts, AuditFacts DEF AuditStep, StartAudit, ScanPage
    <3>2. \A x \in Clients \cup Auditors : previous'[x] \in Seq(Entries)
      BY <1>0, <2>1, TypeFacts, AuditEffect
    <3>3. \A b \in Auditors : /\ verdict'[b] \in {"none", "scanning", "ok", "broken"}
                              /\ lastId'[b] \in 0 .. MaxId
                              /\ records'[b] \in 0 .. MaxId /\ due'[b] \in 0 .. MaxId
      BY <1>0, <2>1, AuditFacts, AuditEffect
    <3> QED BY <3>1, <3>2, <3>3, Zenon
  <2> QED BY <1>0, <2>2, <2>3 DEF TypeOK, clientVars
<1>3. IdsInv' /\ RequestsInv'
  <2>1. UNCHANGED <<rows, nextId, clientVars>>
    BY <1>0, AuditEffect
  <2>2. UNCHANGED <<rows, nextId, pc, posted, mine>>
    BY <2>1 DEF clientVars
  <2>3. IdsInv'
    BY <2>2 DEF LedgerInv, PostingInv, IdsInv
  <2>4. \A d \in Clients : RequestInv(d)' /\ BatchInv(d)'
    <3> SUFFICES ASSUME NEW d \in Clients PROVE RequestInv(d)' /\ BatchInv(d)'
      OBVIOUS
    <3>1. RequestInv(d) /\ BatchInv(d)
      BY DEF LedgerInv, PostingInv, RequestsInv
    <3>2. Recorded(posted[d].tx)' <=> Recorded(posted[d].tx)
      BY <2>2 DEF Recorded
    <3> QED BY <2>2, <3>1, <3>2, RequestKept
  <2>5. IndexInv'
    BY <2>2 DEF LedgerInv, PostingInv, RequestsInv, IndexInv, Holds
  <2>6. RoomInv'
    BY <2>2 DEF LedgerInv, PostingInv, RequestsInv, RoomInv, Outstanding
  <2> QED BY <2>3, <2>4, <2>5, <2>6 DEF RequestsInv
<1> QED BY <1>1, <1>2, <1>3 DEF LedgerInv, PostingInv

-----------------------------------------------------------------------------
(* LedgerInv is inductive.                                                 *)

LEMMA ClientsAlone ==
  ASSUME NEW c \in Clients,
         Post(c) \/ Ends(c) \/ GoesOn(c) \/ FindLast(c) \/ InsertEntry(c) \/ Commit(c)
  PROVE  rows \subseteq rows' /\ UNCHANGED auditVars
BY DEF Post, Ends, GoesOn, FindLast, InsertEntry, Commit

LEMMA LedgerClient ==
  ASSUME IsFiniteSet(Clients), LedgerInv, NEW c \in Clients,
         Post(c) \/ Ends(c) \/ GoesOn(c) \/ FindLast(c) \/ InsertEntry(c) \/ Commit(c)
  PROVE  LedgerInv'
<1>1. PostingInv'
  BY PostingClient DEF LedgerInv
<1>2. rows \subseteq rows' /\ UNCHANGED auditVars
  BY ClientsAlone
<1>3. AuditInv'
  <2> SUFFICES ASSUME NEW a \in Auditors
               PROVE  \E D \in SUBSET rows' : \E R \in SUBSET rows' : Reading(a, D, R)'
    BY DEF AuditInv
  <2>1. /\ verdict'[a] = verdict[a] /\ lastId'[a] = lastId[a]
        /\ records'[a] = records[a] /\ due'[a] = due[a]
    BY <1>2 DEF auditVars
  <2> QED BY <1>2, <2>1, AuditKeeps
<1> QED BY <1>1, <1>3 DEF LedgerInv

LEMMA LedgerStutters ==
  ASSUME LedgerInv, UNCHANGED vars
  PROVE  LedgerInv'
<1>1. /\ UNCHANGED <<rows, nextId, previous, overlapped, pc, posted, mine>>
      /\ UNCHANGED <<verdict, lastId, records, due>>
  BY DEF vars, clientVars, auditVars
<1>2. TypeOK'
  BY <1>1 DEF LedgerInv, PostingInv, TypeOK
<1>3. IdsInv'
  BY <1>1 DEF LedgerInv, PostingInv, IdsInv
<1>4. RequestsInv'
  <2>1. \A d \in Clients : RequestInv(d)' /\ BatchInv(d)'
    <3> SUFFICES ASSUME NEW d \in Clients PROVE RequestInv(d)' /\ BatchInv(d)'
      OBVIOUS
    <3>1. RequestInv(d) /\ BatchInv(d)
      BY DEF LedgerInv, PostingInv, RequestsInv
    <3>2. Recorded(posted[d].tx)' <=> Recorded(posted[d].tx)
      BY <1>1 DEF Recorded
    <3> QED BY <1>1, <3>1, <3>2, RequestKept
  <2>2. IndexInv' /\ RoomInv'
    BY <1>1 DEF LedgerInv, PostingInv, RequestsInv, IndexInv, RoomInv, Holds, Outstanding
  <2> QED BY <2>1, <2>2 DEF RequestsInv
<1>5. AuditInv'
  <2> SUFFICES ASSUME NEW a \in Auditors
               PROVE  \E D \in SUBSET rows' : \E R \in SUBSET rows' : Reading(a, D, R)'
    BY DEF AuditInv
  <2> QED BY <1>1, AuditKeeps
<1> QED BY <1>2, <1>3, <1>4, <1>5 DEF LedgerInv, PostingInv

LEMMA LedgerStep ==
  ASSUME IsFiniteSet(Clients), LedgerInv, [Next]_vars
  PROVE  LedgerInv'
<1>1. CASE UNCHANGED vars
  BY <1>1, LedgerStutters
<1>2. ASSUME NEW c \in Clients, Post(c) \/ Step(c) \/ Abort(c) PROVE LedgerInv'
  BY <1>2, ClientSteps, LedgerClient
<1>3. ASSUME NEW a \in Auditors, StartAudit(a) \/ ScanPage(a) PROVE LedgerInv'
  BY <1>3, LedgerAudits DEF AuditStep
<1> QED BY <1>1, <1>2, <1>3 DEF Next

LEMMA NothingLeft ==
  ASSUME IsFiniteSet(Clients), NEW f, \A x \in Clients : f[x] = 0
  PROVE  SumFunctionOnSet(f, Clients) = 0
BY SumZero

LEMMA LedgerInit ==
  ASSUME IsFiniteSet(Clients), Init
  PROVE  LedgerInv
<1>1. /\ rows = {} /\ nextId = 1 /\ \A c \in Clients : mine[c] = {}
      /\ \A c \in Clients : pc[c] = "idle" /\ posted[c] = NoRequest
      /\ overlapped = FALSE
  BY DEF Init
<1>2. MaxId \in Nat /\ BatchSize \in Nat /\ <<>> \in Seq(Entries)
  BY ListsAssumption
<1>3. /\ posted \in [Clients -> [tx : Txs, list : Seq(Entries)]]
      /\ previous \in [Clients \cup Auditors -> Seq(Entries)]
      /\ pc \in [Clients -> {"idle", "find", "create", "last", "insert"}]
      /\ mine \in [Clients -> SUBSET Row]
  BY <1>2, NoRequestType DEF Init
<1>4. /\ verdict \in [Auditors -> {"none", "scanning", "ok", "broken"}]
      /\ lastId \in [Auditors -> 0 .. MaxId]
      /\ records \in [Auditors -> 0 .. MaxId] /\ due \in [Auditors -> 0 .. MaxId]
      /\ \A a \in Auditors : /\ verdict[a] = "none" /\ records[a] = 0 /\ due[a] = 0
  BY <1>2 DEF Init
<1>5. TypeOK
  <2>1. nextId \in 1 .. MaxId + 1
    BY <1>1, <1>2
  <2>2. rows \subseteq Row /\ overlapped \in BOOLEAN
    BY <1>1
  <2> QED BY <1>3, <1>4, <2>1, <2>2 DEF TypeOK
<1>6. IdsInv
  BY <1>1, NumberedEmpty DEF IdsInv, Apart
<1>7. Cardinality({}) = 0
  BY FS_EmptySet
<1>8. RoomInv
  <2>1. \A c \in Clients : Left[c] = 0
    <3> SUFFICES ASSUME NEW c \in Clients PROVE Left[c] = 0
      OBVIOUS
    <3>1. Left[c] = Len(posted[c].list) - Cardinality(mine[c])
      BY DEF Left
    <3>2. Len(NoRequest.list) = 0
      BY NoRequestType
    <3>3. Left[c] = 0 - 0
      BY <1>1, <1>7, <3>1, <3>2, Zenon
    <3> QED BY <3>3
  <2>2. Outstanding = 0
    BY <2>1, NothingLeft, OutstandingIs
  <2> QED BY <1>1, <1>2, <2>2 DEF RoomInv
<1>9. \A c \in Clients : RequestInv(c) /\ BatchInv(c)
  <2> SUFFICES ASSUME NEW c \in Clients PROVE RequestInv(c) /\ BatchInv(c)
    OBVIOUS
  <2>1. pc[c] = "idle" /\ mine[c] = {} /\ posted[c] = NoRequest
    BY <1>1
  <2>2. Cardinality(mine[c]) = 0 /\ Len(posted[c].list) = 0
    BY <1>7, <2>1, NoRequestType
  <2> QED BY <2>1, <2>2 DEF RequestInv, BatchInv, Holds
<1>10. IndexInv
  BY <1>1 DEF IndexInv, Holds
<1>11. AuditInv
  <2> SUFFICES ASSUME NEW a \in Auditors
               PROVE  \E D \in SUBSET rows : \E R \in SUBSET rows : Reading(a, D, R)
    BY DEF AuditInv
  <2>1. Reading(a, {}, {})
    BY <1>4, <1>7 DEF Reading
  <2> QED BY <2>1
<1> QED BY <1>5, <1>6, <1>8, <1>9, <1>10, <1>11 DEF LedgerInv, PostingInv, RequestsInv

\* What batches and audits in progress know of the committed entries, for any
\* callers, lists, audits, page sizes and numbers of ids.
THEOREM LedgerInductive ==
  ASSUME IsFiniteSet(Clients)
  PROVE  Spec => []LedgerInv
<1>1. Init => LedgerInv
  BY LedgerInit
<1>2. LedgerInv /\ [Next]_vars => LedgerInv'
  BY LedgerStep
<1> QED BY <1>1, <1>2, PTL DEF Spec

\* The types: no id is given out past the sequence's last, and no entry of no
\* cents is ever written, for any callers and audits.
THEOREM LedgerTypes ==
  ASSUME IsFiniteSet(Clients)
  PROVE  Spec => []TypeOK
<1>1. LedgerInv => TypeOK
  BY DEF LedgerInv, PostingInv
<1> QED BY <1>1, LedgerInductive, PTL

\* An audit that passes has read every entry that was committed when it began,
\* whatever batches commit between its pages and whatever the page size is.
THEOREM NoRowIsSkipped ==
  ASSUME IsFiniteSet(Clients)
  PROVE  Spec => []NoRowSkipped
<1>1. LedgerInv => NoRowSkipped
  <2> SUFFICES ASSUME LedgerInv, NEW a \in Auditors, verdict[a] = "ok"
               PROVE  records[a] >= due[a]
    BY DEF NoRowSkipped
  <2>1. PICK D \in SUBSET rows : \E R \in SUBSET rows : Reading(a, D, R)
    BY DEF LedgerInv, AuditInv
  <2>2. PICK R \in SUBSET rows : Reading(a, D, R)
    BY <2>1
  <2>3. /\ D \subseteq R /\ due[a] = Cardinality(D) /\ records[a] = Cardinality(R)
    BY <2>2 DEF Reading
  <2>4. IsFiniteSet(R)
    BY RowsBounded DEF LedgerInv
  <2>5. Cardinality(D) <= Cardinality(R) /\ Cardinality(R) \in Nat /\ Cardinality(D) \in Nat
    BY <2>3, <2>4, FS_Subset, FS_CardinalityType
  <2> QED BY <2>3, <2>5
<1> QED BY <1>1, LedgerInductive, PTL

-----------------------------------------------------------------------------
(* Links.                                                                  *)

\* The last hash is the null of the first entry or that of an entry.
LEMMA LastHash ==
  ASSUME TypeOK, IdsInv
  PROVE  rows # {} => \E s \in rows : /\ HashOfLast(rows) = s.hash
                                      /\ \A r \in rows : r.id <= s.id
<1> SUFFICES ASSUME rows # {}
             PROVE  \E s \in rows : /\ HashOfLast(rows) = s.hash
                                    /\ \A r \in rows : r.id <= s.id
  OBVIOUS
<1>1. /\ \A r \in rows : r.id \in 0 .. MaxId
      /\ \A r \in rows : r.id \in Nat
      /\ Numbered(rows)
  BY TypeFacts, RowFacts DEF IdsInv
<1>2. PICK s \in rows : \A r \in rows : r.id <= s.id
  BY <1>1, LastExists, TypeFacts
<1>3. HashOfLast(rows) = s.hash
  BY <1>1, <1>2, HashIs
<1> QED BY <1>2, <1>3

LEMMA LinksMore ==
  ASSUME NEW S, NEW T, S \subseteq T, NEW r, Links(S, r)
  PROVE  Links(T, r)
BY DEF Links

\* The links of one client's batch.
BatchLinks(c) ==
  pc[c] = "insert" =>
    /\ \A r \in mine[c] : Links(rows \cup mine[c], r)
    /\ previous[c] # <<>> => \E s \in rows \cup mine[c] : s.hash = previous[c]

LEMMA BatchLinksKept ==
  ASSUME NEW d, rows \subseteq rows', pc'[d] = pc[d], mine'[d] = mine[d],
         previous'[d] = previous[d], BatchLinks(d)
  PROVE  BatchLinks(d)'
<1> SUFFICES ASSUME pc'[d] = "insert"
             PROVE  /\ \A r \in mine'[d] : Links(rows' \cup mine'[d], r)
                    /\ previous'[d] # <<>> =>
                         \E s \in rows' \cup mine'[d] : s.hash = previous'[d]
  BY DEF BatchLinks, Links
<1>1. \A r \in mine[d] : Links(rows \cup mine[d], r)
  BY DEF BatchLinks
<1>2. rows \cup mine[d] \subseteq rows' \cup mine[d]
  OBVIOUS
<1>3. \A r \in mine[d] : Links(rows' \cup mine[d], r)
  BY <1>1, <1>2, LinksMore
<1> QED BY <1>2, <1>3 DEF BatchLinks

LEMMA LinksIs ==
  LinksInv <=> /\ \A r \in rows : Links(rows, r)
               /\ \A c \in Clients : BatchLinks(c)
BY DEF LinksInv, BatchLinks

\* A client's step leaves what the other clients hold alone.
LEMMA OthersAlone ==
  ASSUME TypeOK, NEW c \in Clients,
         Post(c) \/ Ends(c) \/ GoesOn(c) \/ FindLast(c) \/ InsertEntry(c) \/ Commit(c),
         NEW d \in Clients, d # c
  PROVE  /\ pc'[d] = pc[d] /\ posted'[d] = posted[d] /\ mine'[d] = mine[d]
         /\ previous'[d] = previous[d]
<1>0. /\ pc \in [Clients -> PCs] /\ mine \in [Clients -> SUBSET Row]
      /\ posted \in [Clients -> [tx : Txs, list : Seq(Entries)]]
      /\ previous \in [Clients \cup Auditors -> Seq(Entries)]
      /\ d \in Clients \cup Auditors
  BY TypeFacts
<1>1. CASE Ends(c) \/ Commit(c)
  BY <1>0, <1>1, FinishEffect DEF Ends, Commit
<1>2. CASE InsertEntry(c)
  BY <1>0, <1>2 DEF InsertEntry
<1>3. CASE Post(c) \/ GoesOn(c) \/ FindLast(c)
  BY <1>0, <1>3 DEF Post, GoesOn, FindLast, Goto
<1> QED BY <1>1, <1>2, <1>3

LEMMA LinksClient ==
  ASSUME IsFiniteSet(Clients), LedgerInv, LinksInv, NEW c \in Clients,
         Post(c) \/ Ends(c) \/ GoesOn(c) \/ FindLast(c) \/ InsertEntry(c) \/ Commit(c)
  PROVE  LinksInv'
<1>0. /\ TypeOK /\ IdsInv /\ RequestsInv
      /\ \A r \in rows : Links(rows, r)
      /\ \A d \in Clients : BatchLinks(d)
      /\ pc \in [Clients -> PCs] /\ mine \in [Clients -> SUBSET Row]
      /\ previous \in [Clients \cup Auditors -> Seq(Entries)]
  BY LinksIs, TypeFacts DEF LedgerInv, PostingInv
<1>1. rows \subseteq rows'
  BY ClientsAlone
<1>2. \A r \in rows' : Links(rows', r)
  <2>1. CASE Commit(c)
    <3>1. rows' = rows \cup mine[c] /\ pc[c] = "insert"
      BY <2>1 DEF Commit
    <3>2. \A r \in mine[c] : Links(rows \cup mine[c], r)
      BY <1>0, <3>1 DEF BatchLinks
    <3>3. \A r \in rows : Links(rows \cup mine[c], r)
      BY <1>0, LinksMore
    <3> QED BY <3>1, <3>2, <3>3
  <2>2. CASE ~Commit(c)
    <3>1. rows' = rows
      BY <2>2 DEF Post, Ends, GoesOn, FindLast, InsertEntry
    <3> QED BY <1>0, <3>1
  <2> QED BY <2>1, <2>2
<1>3. BatchLinks(c)'
  <2>1. CASE Post(c) \/ Ends(c) \/ GoesOn(c) \/ Commit(c)
    <3>1. pc'[c] # "insert"
      <4>1. CASE Ends(c) \/ Commit(c)
        BY <1>0, <4>1, FinishEffect DEF Ends, Commit
      <4>2. CASE Post(c) \/ GoesOn(c)
        BY <1>0, <4>2 DEF Post, GoesOn, Goto
      <4> QED BY <2>1, <4>1, <4>2
    <3> QED BY <3>1 DEF BatchLinks
  <2>2. CASE FindLast(c)
    <3>1. /\ rows' = rows /\ mine' = mine /\ previous'[c] = HashOfLast(rows)
          /\ pc[c] = "last"
      BY <1>0, <2>2 DEF FindLast
    <3>2. mine[c] = {}
      BY <1>0, <3>1 DEF RequestsInv, RequestInv
    <3>3. previous'[c] # <<>> => \E s \in rows : s.hash = previous'[c]
      BY <1>0, <3>1, LastHash DEF HashOfLast
    <3> QED BY <3>1, <3>2, <3>3 DEF BatchLinks
  <2>3. CASE InsertEntry(c)
    <3>1. PICK x \in Row : /\ x.id = nextId /\ x.prev = previous[c]
                           /\ mine' = [mine EXCEPT ![c] = mine[c] \cup {x}]
                           /\ previous' = [previous EXCEPT ![c] = x.hash]
      BY <1>0, <2>3, InsertEffect
    <3>2. /\ mine'[c] = mine[c] \cup {x} /\ previous'[c] = x.hash /\ rows' = rows
          /\ pc[c] = "insert"
      BY <1>0, <2>3, <3>1 DEF InsertEntry
    <3>3. /\ \A r \in mine[c] : Links(rows \cup mine[c], r)
          /\ previous[c] # <<>> => \E s \in rows \cup mine[c] : s.hash = previous[c]
      BY <1>0, <3>2 DEF BatchLinks
    <3>4. PICK S : S = rows \cup mine[c]
      OBVIOUS
    <3>5. PICK T : T = S \cup {x}
      OBVIOUS
    <3>6. \A s \in S : s.id < x.id
      BY <1>0, <3>1, <3>4 DEF IdsInv
    <3>7. Links(T, x)
      BY <3>1, <3>3, <3>4, <3>5, <3>6 DEF Links
    <3>8. \A r \in S : r \in mine[c] => Links(T, r)
      BY <3>3, <3>4, <3>5, LinksMore
    <3>9. rows' \cup mine'[c] = T
      BY <3>2, <3>4, <3>5
    <3>10. \A r \in mine'[c] : Links(T, r)
      BY <3>2, <3>4, <3>7, <3>8
    <3>11. \E s \in T : s.hash = previous'[c]
      BY <3>2, <3>5
    <3> QED BY <3>9, <3>10, <3>11 DEF BatchLinks, Links
  <2> QED BY <2>1, <2>2, <2>3
<1>4. \A d \in Clients : d # c => BatchLinks(d)'
  BY <1>0, <1>1, OthersAlone, BatchLinksKept
<1>5. \A r \in rows' : Links(rows, r)'
  BY <1>2 DEF Links
<1> QED BY <1>3, <1>4, <1>5 DEF LinksInv, BatchLinks

LEMMA LinksSame ==
  ASSUME LinksInv, UNCHANGED <<rows, pc, mine>>,
         \A c \in Clients : previous'[c] = previous[c]
  PROVE  LinksInv'
<1>1. \A r : Links(rows, r)' <=> Links(rows, r)
  BY DEF Links
<1>2. \A d \in Clients : BatchLinks(d)'
  BY LinksIs, BatchLinksKept
<1> QED BY <1>1, <1>2, LinksIs DEF LinksInv, BatchLinks

LEMMA LinksStep ==
  ASSUME IsFiniteSet(Clients), LedgerInv, LinksInv, [Next]_vars
  PROVE  LinksInv'
<1>1. CASE UNCHANGED vars
  BY <1>1, LinksSame DEF vars, clientVars
<1>2. ASSUME NEW c \in Clients, Post(c) \/ Step(c) \/ Abort(c) PROVE LinksInv'
  BY <1>2, ClientSteps, LinksClient
<1>3. ASSUME NEW a \in Auditors, StartAudit(a) \/ ScanPage(a) PROVE LinksInv'
  <2>1. /\ UNCHANGED <<rows, nextId, overlapped, clientVars>>
        /\ \A c \in Clients : previous'[c] = previous[c]
    BY <1>3, AuditEffect DEF AuditStep, LedgerInv, PostingInv
  <2>2. UNCHANGED <<rows, pc, mine>>
    BY <2>1 DEF clientVars
  <2> QED BY <2>1, <2>2, LinksSame
<1> QED BY <1>1, <1>2, <1>3 DEF Next

\* Every committed entry was hashed onto a committed entry with a smaller id,
\* however many batches overlap and whichever of them abort.
THEOREM EntriesLinkBack ==
  ASSUME IsFiniteSet(Clients)
  PROVE  Spec => []LinksBack
<1>1. Init => LinksInv
  BY DEF Init, LinksInv
<1>2. LedgerInv /\ LinksInv /\ [Next]_vars => LinksInv'
  BY LinksStep
<1>3. LinksInv => LinksBack
  BY DEF LinksInv, LinksBack, Links
<1> QED BY <1>1, <1>2, <1>3, LedgerInductive, PTL DEF Spec

-----------------------------------------------------------------------------
(* Amounts.                                                                *)

\* What an entry adds to the total of a direction and a currency.
Adds(e, direction, currency) ==
  IF e.direction = direction /\ e.currency = currency THEN e.cents ELSE 0

Matching(S, direction, currency) ==
  {r \in S : r.entry.direction = direction /\ r.entry.currency = currency}

LEMMA CentsIs ==
  ASSUME NEW S, NEW direction, NEW currency
  PROVE  Cents(S, direction, currency) =
           SumFunctionOnSet([r \in S |-> r.entry.cents], Matching(S, direction, currency))
BY DEF Cents, Matching

LEMMA CentsNone ==
  ASSUME NEW direction, NEW currency
  PROVE  Cents({}, direction, currency) = 0
<1>1. Matching({}, direction, currency) = {}
  BY DEF Matching
<1> QED BY <1>1, CentsIs, SumEmpty

\* Of a part of some entries the amounts may be read off all of them.
LEMMA CentsPart ==
  ASSUME NEW U, IsFiniteSet(U), NEW S \in SUBSET U, NEW direction, NEW currency
  PROVE  Cents(S, direction, currency) =
           SumFunctionOnSet([r \in U |-> r.entry.cents], Matching(S, direction, currency))
<1> DEFINE f == [r \in U |-> r.entry.cents]
           g == [r \in S |-> r.entry.cents]
           M == Matching(S, direction, currency)
<1>1. M \subseteq S
  BY DEF Matching
<1>2. IsFiniteSet(M)
  BY <1>1, FS_Subset
<1>3. \A x \in M : g[x] = f[x]
  BY <1>1
<1>4. Cents(S, direction, currency) = SumFunctionOnSet(g, M)
  BY CentsIs
<1> HIDE DEF f, g, M
<1>5. SumFunctionOnSet(g, M) = SumFunctionOnSet(f, M)
  BY <1>2, <1>3, SumEqual
<1> QED BY <1>4, <1>5 DEF f, M

LEMMA CentsUnion ==
  ASSUME NEW S, IsFiniteSet(S), NEW T, IsFiniteSet(T), S \cap T = {},
         \A r \in S \cup T : r.entry.cents \in Nat, NEW direction, NEW currency
  PROVE  Cents(S \cup T, direction, currency) =
           Cents(S, direction, currency) + Cents(T, direction, currency)
<1> DEFINE U == S \cup T
           f == [r \in U |-> r.entry.cents]
           M == Matching(S, direction, currency)
           N == Matching(T, direction, currency)
<1>1. IsFiniteSet(U) /\ U \in SUBSET U /\ S \in SUBSET U /\ T \in SUBSET U
  BY FS_Union
<1>2. M \subseteq S /\ N \subseteq T
  BY DEF Matching
<1>3. IsFiniteSet(M) /\ IsFiniteSet(N) /\ M \cap N = {}
  BY <1>2, FS_Subset
<1>4. \A x \in M \cup N : f[x] \in Int
  BY <1>2
<1>5. Matching(U, direction, currency) = M \cup N
  BY DEF Matching
<1> HIDE DEF U
<1>6. /\ Cents(U, direction, currency) = SumFunctionOnSet(f, Matching(U, direction, currency))
      /\ Cents(S, direction, currency) = SumFunctionOnSet(f, M)
      /\ Cents(T, direction, currency) = SumFunctionOnSet(f, N)
  BY <1>1, CentsPart
<1> HIDE DEF f, M, N
<1>7. SumFunctionOnSet(f, M \cup N) = SumFunctionOnSet(f, M) + SumFunctionOnSet(f, N)
  BY <1>3, <1>4, SumUnion
<1> QED BY <1>5, <1>6, <1>7 DEF U

LEMMA CentsOne ==
  ASSUME NEW x, x.entry.cents \in Nat, NEW direction, NEW currency
  PROVE  Cents({x}, direction, currency) = Adds(x.entry, direction, currency)
<1> DEFINE f == [r \in {x} |-> r.entry.cents]
           M == Matching({x}, direction, currency)
<1>1. Cents({x}, direction, currency) = SumFunctionOnSet(f, M)
  BY CentsIs
<1>2. CASE M = {}
  <2>1. ~(x.entry.direction = direction /\ x.entry.currency = currency)
    BY <1>2 DEF Matching
  <2> QED BY <1>1, <1>2, <2>1, SumEmpty DEF Adds
<1>3. CASE M # {}
  <2>1. M = {x} /\ x.entry.direction = direction /\ x.entry.currency = currency
    BY <1>3 DEF Matching
  <2>2. f[x] \in Int /\ f[x] = x.entry.cents
    OBVIOUS
  <2>3. {} \cup {x} = {x} /\ x \notin {} /\ IsFiniteSet({})
    BY FS_EmptySet
  <2> HIDE DEF f, M
  <2>4. SumFunctionOnSet(f, {} \cup {x}) = SumFunctionOnSet(f, {}) + f[x]
    BY <2>2, <2>3, SumAdd
  <2>5. SumFunctionOnSet(f, {}) = 0
    BY SumEmpty
  <2>6. SumFunctionOnSet(f, {x}) = 0 + f[x]
    BY <2>3, <2>4, <2>5, Zenon
  <2> QED BY <1>1, <2>1, <2>2, <2>6 DEF Adds
<1> QED BY <1>2, <1>3

\* The first entries of a list, added up one by one.
LEMMA FirstNone ==
  ASSUME NEW es, NEW direction, NEW currency
  PROVE  FirstCents(es, 0, direction, currency) = 0
<1>1. {i \in 1 .. 0 : es[i].direction = direction /\ es[i].currency = currency} = {}
  OBVIOUS
<1> QED BY <1>1, SumEmpty DEF FirstCents

LEMMA FirstNext ==
  ASSUME NEW es \in Seq(Entries), NEW n \in Nat, n + 1 <= Len(es),
         NEW direction, NEW currency
  PROVE  FirstCents(es, n + 1, direction, currency) =
           FirstCents(es, n, direction, currency) + Adds(es[n + 1], direction, currency)
<1> DEFINE f == [i \in DOMAIN es |-> es[i].cents]
           M(k) == {i \in 1 .. k : es[i].direction = direction /\ es[i].currency = currency}
<1>1. \A k : FirstCents(es, k, direction, currency) = SumFunctionOnSet(f, M(k))
  BY DEF FirstCents
<1>2. n + 1 \in DOMAIN es /\ M(n) \subseteq 1 .. n /\ 1 .. n \subseteq DOMAIN es
      /\ n + 1 \notin M(n)
  OBVIOUS
<1>3. \A i \in DOMAIN es : f[i] \in Int
  <2>1. \A i \in DOMAIN es : es[i] \in Entries
    OBVIOUS
  <2>2. \A e \in Entries : e.cents \in Int
    BY ListsAssumption DEF Entries
  <2> QED BY <2>1, <2>2
<1>4. IsFiniteSet(M(n)) /\ \A i \in M(n) \cup {n + 1} : f[i] \in Int
  <2>1. IsFiniteSet(1 .. n)
    <3>1. 1 \in Int /\ n \in Int
      OBVIOUS
    <3> QED BY <3>1, FS_Interval
  <2>2. IsFiniteSet(M(n))
    BY <1>2, <2>1, FS_Subset
  <2> QED BY <1>2, <1>3, <2>2
<1>5. CASE es[n + 1].direction = direction /\ es[n + 1].currency = currency
  <2>1. M(n + 1) = M(n) \cup {n + 1}
    <3>1. 1 .. n + 1 = (1 .. n) \cup {n + 1}
      OBVIOUS
    <3> QED BY <1>5, <3>1
  <2>2. f[n + 1] = es[n + 1].cents
    BY <1>2
  <2> HIDE DEF f, M
  <2>3. SumFunctionOnSet(f, M(n) \cup {n + 1}) = SumFunctionOnSet(f, M(n)) + f[n + 1]
    <3>1. PICK A : A = M(n)
      OBVIOUS
    <3>2. PICK k : k = n + 1
      OBVIOUS
    <3>3. IsFiniteSet(A) /\ k \notin A /\ \A i \in A \cup {k} : f[i] \in Int
      BY <1>2, <1>4, <3>1, <3>2
    <3>4. SumFunctionOnSet(f, A \cup {k}) = SumFunctionOnSet(f, A) + f[k]
      BY <3>3, SumAdd
    <3> QED BY <3>1, <3>2, <3>4
  <2> QED BY <1>1, <1>5, <2>1, <2>2, <2>3 DEF Adds
<1>6. CASE ~(es[n + 1].direction = direction /\ es[n + 1].currency = currency)
  <2>1. M(n + 1) = M(n)
    <3>1. 1 .. n + 1 = (1 .. n) \cup {n + 1}
      OBVIOUS
    <3> QED BY <1>6, <3>1
  <2>2. Adds(es[n + 1], direction, currency) = 0
    BY <1>6 DEF Adds
  <2> HIDE DEF f, M
  <2>3. SumFunctionOnSet(f, M(n)) \in Int
    BY <1>4, SumInt
  <2> QED BY <1>1, <2>1, <2>2, <2>3
<1> QED BY <1>5, <1>6

LEMMA FirstAll ==
  ASSUME NEW es \in Seq(Entries), NEW direction, NEW currency
  PROVE  FirstCents(es, Len(es), direction, currency) = Total(es, direction, currency)
<1>1. 1 .. Len(es) = DOMAIN es
  OBVIOUS
<1> QED BY <1>1, Zenon DEF FirstCents, Total

Written(c) ==
  \A direction \in Directions, currency \in Currencies :
    Cents(mine[c], direction, currency) =
      FirstCents(posted[c].list, Cardinality(mine[c]), direction, currency)

LEMMA WrittenKept ==
  ASSUME NEW d, mine'[d] = mine[d], posted'[d] = posted[d], Written(d)
  PROVE  Written(d)'
BY DEF Written, Cents, FirstCents

LEMMA WrittenNothing ==
  ASSUME NEW d, mine'[d] = {}
  PROVE  Written(d)'
<1>1. Cardinality({}) = 0
  BY FS_EmptySet
<1>2. PICK M : M = mine'[d]
  OBVIOUS
<1>3. PICK es : es = posted'[d].list
  OBVIOUS
<1>4. \A direction \in Directions, currency \in Currencies :
        Cents(M, direction, currency) = FirstCents(es, Cardinality(M), direction, currency)
  BY <1>1, <1>2, CentsNone, FirstNone
<1>5. \A direction \in Directions, currency \in Currencies :
        (Cents(mine[d], direction, currency) =
           FirstCents(posted[d].list, Cardinality(mine[d]), direction, currency))'
  BY <1>2, <1>3, <1>4 DEF Cents, FirstCents
<1> QED BY <1>5 DEF Written

LEMMA WrittenMore ==
  ASSUME IsFiniteSet(Clients), TypeOK, IdsInv, RequestsInv, NEW c \in Clients,
         InsertEntry(c), Written(c)
  PROVE  Written(c)'
<1>1. PICK x \in Row : /\ x.id = nextId
                       /\ x.entry = posted[c].list[Cardinality(mine[c]) + 1]
                       /\ mine' = [mine EXCEPT ![c] = mine[c] \cup {x}]
  BY InsertEffect
<1>2. PICK k \in Nat : k = Cardinality(mine[c])
  BY LeftType
<1>3. PICK es \in Seq(Entries) : es = posted[c].list
  BY TypeFacts
<1>4. PICK M : M = mine[c]
  OBVIOUS
<1>5. /\ mine'[c] = M \cup {x} /\ posted'[c].list = es /\ x.entry = es[k + 1]
      /\ k + 1 <= Len(es)
  BY <1>1, <1>2, <1>3, <1>4, TypeFacts DEF InsertEntry
<1>6. /\ IsFiniteSet(M) /\ \A r \in M : r.id < x.id /\ r.id \in Nat
      /\ \A r \in M \cup {x} : r.entry.cents \in Nat
  BY <1>1, <1>4, TypeFacts, RowFacts DEF IdsInv, Numbered
<1>7. x \notin M
  BY <1>1, <1>6, TypeFacts
<1>8. Cardinality(M \cup {x}) = k + 1
  BY <1>2, <1>4, <1>6, <1>7, FS_AddElement
<1>9. M \cap {x} = {} /\ IsFiniteSet({x})
  BY <1>7, FS_Singleton
<1>10. \A direction \in Directions, currency \in Currencies :
         Cents(M \cup {x}, direction, currency) =
           FirstCents(es, Cardinality(M \cup {x}), direction, currency)
  <2> SUFFICES ASSUME NEW direction \in Directions, NEW currency \in Currencies
               PROVE  Cents(M \cup {x}, direction, currency) =
                        FirstCents(es, Cardinality(M \cup {x}), direction, currency)
    OBVIOUS
  <2>1. Cents(M, direction, currency) = FirstCents(es, k, direction, currency)
    BY <1>2, <1>3, <1>4 DEF Written
  <2>2. Cents(M \cup {x}, direction, currency) =
          Cents(M, direction, currency) + Cents({x}, direction, currency)
    BY <1>6, <1>9, CentsUnion
  <2>3. Cents({x}, direction, currency) = Adds(es[k + 1], direction, currency)
    BY <1>5, <1>6, CentsOne
  <2>4. FirstCents(es, k + 1, direction, currency) =
          FirstCents(es, k, direction, currency) + Adds(es[k + 1], direction, currency)
    BY <1>5, FirstNext
  <2> QED BY <1>8, <2>1, <2>2, <2>3, <2>4, Zenon
<1>11. \A direction \in Directions, currency \in Currencies :
        (Cents(mine[c], direction, currency) =
           FirstCents(posted[c].list, Cardinality(mine[c]), direction, currency))'
  BY <1>5, <1>10 DEF Cents, FirstCents
<1> QED BY <1>11 DEF Written

\* Committed entries balance, currency by currency.
Balanced(S) ==
  \A currency \in Currencies : Cents(S, "debit", currency) = Cents(S, "credit", currency)

LEMMA BalancedIs == InvariantCheckOk <=> Balanced(rows)
BY DEF InvariantCheckOk, Booked, Balanced, Cents

\* A list that was written whole balances.
LEMMA BatchBalances ==
  ASSUME IsFiniteSet(Clients), TypeOK, IdsInv, RequestsInv, NEW c \in Clients,
         Commit(c), Written(c), Balanced(rows)
  PROVE  Balanced(rows \cup mine[c])
<1>1. /\ pc[c] = "insert" /\ Cardinality(mine[c]) = Len(posted[c].list)
  BY DEF Commit
<1>2. PICK es \in Seq(Entries) : es = posted[c].list
  BY TypeFacts
<1>3. Valid(es)
  BY <1>1, <1>2 DEF RequestsInv, RequestInv
<1>4. PICK M : M = mine[c]
  OBVIOUS
<1>5. /\ IsFiniteSet(M) /\ IsFiniteSet(rows) /\ rows \cap M = {}
      /\ \A r \in rows \cup M : r.entry.cents \in Nat
  BY <1>4, TypeFacts, RowFacts, NumberedUnion DEF IdsInv, Numbered, Apart
<1> SUFFICES ASSUME NEW currency \in Currencies
             PROVE  Cents(rows \cup M, "debit", currency) = Cents(rows \cup M, "credit", currency)
  BY <1>4 DEF Balanced
<1>6. \A direction \in Directions :
        Cents(M, direction, currency) = Total(es, direction, currency)
  <2> SUFFICES ASSUME NEW direction \in Directions
               PROVE  Cents(M, direction, currency) = Total(es, direction, currency)
    OBVIOUS
  <2>1. Cents(M, direction, currency) = FirstCents(es, Len(es), direction, currency)
    BY <1>1, <1>2, <1>4 DEF Written
  <2> QED BY <2>1, FirstAll
<1>7. \A direction \in Directions :
        Cents(rows \cup M, direction, currency) =
          Cents(rows, direction, currency) + Cents(M, direction, currency)
  BY <1>5, CentsUnion
<1>8. "debit" \in Directions /\ "credit" \in Directions
  BY DEF Directions
<1>9. Total(es, "debit", currency) = Total(es, "credit", currency)
  BY <1>3 DEF Valid
<1>10. Cents(rows, "debit", currency) = Cents(rows, "credit", currency)
  BY DEF Balanced
<1> QED BY <1>6, <1>7, <1>8, <1>9, <1>10, Zenon

AmountsInv == WrittenInv /\ InvariantCheckOk

LEMMA AmountsSame ==
  ASSUME AmountsInv, UNCHANGED <<rows, posted, mine>>
  PROVE  AmountsInv'
BY DEF AmountsInv, WrittenInv, InvariantCheckOk, Cents, FirstCents, Booked

LEMMA AmountsClient ==
  ASSUME IsFiniteSet(Clients), LedgerInv, AmountsInv, NEW c \in Clients,
         Post(c) \/ Ends(c) \/ GoesOn(c) \/ FindLast(c) \/ InsertEntry(c) \/ Commit(c)
  PROVE  AmountsInv'
<1>0. /\ TypeOK /\ IdsInv /\ RequestsInv
      /\ \A d \in Clients : Written(d)
      /\ Balanced(rows)
      /\ posted \in [Clients -> [tx : Txs, list : Seq(Entries)]]
  BY BalancedIs, TypeFacts DEF LedgerInv, PostingInv, AmountsInv, WrittenInv, Written
<1>1. Balanced(rows')
  <2>1. CASE Commit(c)
    <3>1. rows' = rows \cup mine[c]
      BY <2>1 DEF Commit
    <3> QED BY <1>0, <2>1, <3>1, BatchBalances
  <2>2. CASE ~Commit(c)
    <3>1. rows' = rows
      BY <2>2 DEF Post, Ends, GoesOn, FindLast, InsertEntry
    <3> QED BY <1>0, <3>1
  <2> QED BY <2>1, <2>2
<1>2. InvariantCheckOk'
  BY <1>1 DEF Balanced, InvariantCheckOk, Booked, Cents
<1>3. Written(c)'
  <2>1. CASE Ends(c) \/ Commit(c)
    BY <1>0, <2>1, FinishEffect, WrittenNothing DEF Ends, Commit
  <2>2. CASE Post(c)
    <3>1. mine'[c] = {}
      BY <1>0, <2>2 DEF Post, RequestsInv, RequestInv
    <3> QED BY <3>1, WrittenNothing
  <2>3. CASE GoesOn(c) \/ FindLast(c)
    <3>1. mine'[c] = mine[c] /\ posted'[c] = posted[c]
      BY <2>3 DEF GoesOn, FindLast
    <3> QED BY <1>0, <3>1, WrittenKept
  <2>4. CASE InsertEntry(c)
    BY <1>0, <2>4, WrittenMore
  <2> QED BY <2>1, <2>2, <2>3, <2>4
<1>4. \A d \in Clients : d # c => Written(d)'
  BY <1>0, OthersAlone, WrittenKept
<1>5. WrittenInv'
  BY <1>3, <1>4 DEF WrittenInv, Written
<1> QED BY <1>2, <1>5 DEF AmountsInv

LEMMA AmountsStep ==
  ASSUME IsFiniteSet(Clients), LedgerInv, AmountsInv, [Next]_vars
  PROVE  AmountsInv'
<1>1. CASE UNCHANGED vars
  BY <1>1, AmountsSame DEF vars, clientVars
<1>2. ASSUME NEW c \in Clients, Post(c) \/ Step(c) \/ Abort(c) PROVE AmountsInv'
  BY <1>2, ClientSteps, AmountsClient
<1>3. ASSUME NEW a \in Auditors, StartAudit(a) \/ ScanPage(a) PROVE AmountsInv'
  <2>1. UNCHANGED <<rows, posted, mine>>
    BY <1>3, AuditEffect DEF AuditStep, LedgerInv, PostingInv, clientVars
  <2> QED BY <2>1, AmountsSame
<1> QED BY <1>1, <1>2, <1>3 DEF Next

LEMMA AmountsInit ==
  ASSUME Init
  PROVE  AmountsInv
<1>1. rows = {} /\ \A c \in Clients : mine[c] = {}
  BY DEF Init
<1>2. Cardinality({}) = 0
  BY FS_EmptySet
<1>3. WrittenInv
  BY <1>1, <1>2, CentsNone, FirstNone DEF WrittenInv
<1>4. InvariantCheckOk
  BY <1>1, CentsNone, BalancedIs DEF Balanced
<1> QED BY <1>3, <1>4 DEF AmountsInv

\* What the invariant check adds up is zero in every currency in every state,
\* whatever batches are half written, refused, aborted or posted at once.
THEOREM InvariantCheckHolds ==
  ASSUME IsFiniteSet(Clients)
  PROVE  Spec => []InvariantCheckOk
<1>1. Init => AmountsInv
  BY AmountsInit
<1>2. LedgerInv /\ AmountsInv /\ [Next]_vars => AmountsInv'
  BY AmountsStep
<1>3. AmountsInv => InvariantCheckOk
  BY DEF AmountsInv
<1> QED BY <1>1, <1>2, <1>3, LedgerInductive, PTL DEF Spec

-----------------------------------------------------------------------------
(* The chain.                                                              *)

AddsToChain(c) ==
  pc[c] = "insert" =>
    /\ Chained(rows \cup mine[c])
    /\ previous[c] = HashOfLast(rows \cup mine[c])
    /\ \A r \in rows, s \in mine[c] : r.id < s.id

Carries(a) ==
  /\ verdict[a] = "scanning" => previous[a] = HashOfLast(Before(rows, lastId[a] + 1))
  /\ lastId[a] = 0 \/ \E r \in rows : r.id = lastId[a]
  /\ verdict[a] # "broken"

OneInserts == \A c, d \in Clients : pc[c] = "insert" /\ pc[d] = "insert" => c = d

LEMMA ChainIs ==
  ChainInv <=> (~overlapped => /\ Chained(rows) /\ OneInserts
                               /\ \A c \in Clients : AddsToChain(c)
                               /\ \A a \in Auditors : Carries(a))
BY DEF ChainInv, AddsToChain, Carries, OneInserts

\* The last of some entries is the last of those that follow all others.
LEMMA LastOfLater ==
  ASSUME NEW n \in Nat, NEW U, Numbered(U), \A r \in U : r.id \in 0 .. n,
         NEW V \in SUBSET U, V # {}, \A s \in U \ V, r \in V : s.id < r.id
  PROVE  HashOfLast(U) = HashOfLast(V)
<1>1. Numbered(V) /\ \A r \in V : r.id \in 0 .. n
  BY NumberedSubset
<1>2. PICK r \in V : \A s \in V : s.id <= r.id
  BY <1>1, LastExists
<1>3. \A s \in U : s.id \in Nat
  OBVIOUS
<1>4. \A s \in V : s.id \in Nat
  OBVIOUS
<1>5. HashOfLast(V) = r.hash
  BY <1>1, <1>2, <1>4, HashIs
<1>6. \A s \in U : s.id <= r.id
  <2> SUFFICES ASSUME NEW s \in U, s \notin V PROVE s.id <= r.id
    BY <1>2
  <2>1. s.id < r.id /\ s.id \in Nat /\ r.id \in Nat
    BY <1>3
  <2> QED BY <2>1
<1>7. r \in U
  OBVIOUS
<1>8. HashOfLast(U) = r.hash
  BY <1>3, <1>6, <1>7, HashIs
<1> QED BY <1>5, <1>8

\* A chain goes on with an entry that carries the hash of its last one.
LEMMA ChainGrows ==
  ASSUME NEW n \in Nat, NEW S, Numbered(S), \A r \in S : r.id \in 0 .. n, Chained(S),
         NEW x, x.id \in 0 .. n, \A r \in S : r.id < x.id,
         x.prev = HashOfLast(S), x.hash = Hash(x.prev, x.entry)
  PROVE  Chained(S \cup {x}) /\ HashOfLast(S \cup {x}) = x.hash
<1> DEFINE T == S \cup {x}
<1>1. \A r \in T : r.id \in Nat
  OBVIOUS
<1>2. Numbered(T)
  <2>1. \A r \in S : r.id \in Nat
    OBVIOUS
  <2>2. x.id \in Nat
    OBVIOUS
  <2> QED BY <2>1, <2>2, RankOfNew
<1>3. \A r \in T : r.id <= x.id
  BY <1>1
<1>4. HashOfLast(T) = x.hash
  <2>1. x \in T
    OBVIOUS
  <2> HIDE DEF T
  <2> QED BY <1>1, <1>2, <1>3, <2>1, HashIs
<1>5. ASSUME NEW r \in T
      PROVE  r.prev = HashOfLast(Before(T, r.id)) /\ r.hash = Hash(r.prev, r.entry)
  <2>1. CASE r \in S
    <3>1. Before(T, r.id) = Before(S, r.id)
      <4>1. ~(x.id < r.id)
        BY <1>1, <2>1
      <4> QED BY <4>1 DEF Before
    <3> QED BY <2>1, <3>1 DEF Chained
  <2>2. CASE r = x
    <3>1. Before(T, x.id) = S
      <4>1. ~(x.id < x.id)
        BY <1>1
      <4> QED BY <4>1 DEF Before
    <3> QED BY <2>2, <3>1
  <2> QED BY <2>1, <2>2
<1> QED BY <1>4, <1>5 DEF Chained

\* What was carried is still the hash before the page, whatever was committed.
LEMMA CarriedKept ==
  ASSUME TypeOK, NEW a \in Auditors, Carries(a), rows \subseteq rows',
         \A r \in rows, s \in rows' \ rows : r.id < s.id, rows' \subseteq Row,
         verdict'[a] = verdict[a], lastId'[a] = lastId[a], previous'[a] = previous[a]
  PROVE  Carries(a)'
<1>1. lastId[a] \in Nat
  BY AuditFacts
<1>2. \A r \in rows' : r.id \in Nat \ {0}
  BY RowFacts
<1>3. Before(rows', lastId[a] + 1) = Before(rows, lastId[a] + 1)
  <2> SUFFICES ASSUME NEW s \in rows' \ rows, s.id < lastId[a] + 1 PROVE FALSE
    BY DEF Before
  <2>1. s.id \in Nat \ {0} /\ s.id <= lastId[a]
    BY <1>1, <1>2
  <2>2. PICK r \in rows : r.id = lastId[a]
    BY <2>1 DEF Carries
  <2>3. r.id < s.id
    OBVIOUS
  <2> QED BY <1>1, <2>1, <2>2, <2>3
<1>4. verdict[a] = "scanning" => previous[a] = HashOfLast(Before(rows', lastId[a] + 1))
  BY <1>3 DEF Carries
<1>5. verdict'[a] = "scanning" => previous'[a] = HashOfLast(Before(rows', lastId'[a] + 1))
  BY <1>4
<1>6. (verdict[a] = "scanning" => previous[a] = HashOfLast(Before(rows, lastId[a] + 1)))'
  BY <1>5 DEF Before, HashOfLast
<1> QED BY <1>6 DEF Carries

LEMMA ChainClient ==
  ASSUME IsFiniteSet(Clients), LedgerInv, LedgerInv', ChainInv, NEW c \in Clients,
         Post(c) \/ Ends(c) \/ GoesOn(c) \/ FindLast(c) \/ InsertEntry(c) \/ Commit(c)
  PROVE  ChainInv'
<1> SUFFICES ASSUME ~overlapped'
             PROVE  /\ Chained(rows)' /\ OneInserts'
                    /\ \A d \in Clients : AddsToChain(d)'
                    /\ \A a \in Auditors : Carries(a)'
  BY DEF ChainInv, AddsToChain, Carries, OneInserts
<1>0. /\ TypeOK /\ IdsInv /\ RequestsInv /\ rows \subseteq Row
      /\ mine \in [Clients -> SUBSET Row] /\ pc \in [Clients -> PCs]
      /\ previous \in [Clients \cup Auditors -> Seq(Entries)]
      /\ MaxId \in Nat /\ rows' \subseteq Row
  BY TypeFacts DEF LedgerInv, PostingInv, TypeOK
<1>1. ~overlapped
  BY <1>0 DEF Post, Ends, GoesOn, FindLast, InsertEntry, Commit, NoteOverlap, TypeOK
<1>2. /\ Chained(rows) /\ OneInserts
      /\ \A d \in Clients : AddsToChain(d)
      /\ \A a \in Auditors : Carries(a)
  BY <1>1, ChainIs
<1>3. \A d \in Clients : d # c =>
        pc'[d] = pc[d] /\ mine'[d] = mine[d] /\ previous'[d] = previous[d]
  BY <1>0, OthersAlone
<1>4. \A a \in Auditors : previous'[a] = previous[a]
  <2>1. \A a \in Auditors : a \in Clients \cup Auditors /\ a # c
    BY TypeFacts, <1>0
  <2>2. CASE Ends(c) \/ Commit(c)
    BY <1>0, <2>1, <2>2, FinishEffect DEF Ends, Commit
  <2>3. CASE Post(c) \/ GoesOn(c) \/ FindLast(c) \/ InsertEntry(c)
    BY <1>0, <2>1, <2>3 DEF Post, GoesOn, FindLast, InsertEntry
  <2> QED BY <2>2, <2>3
<1>5. rows' = rows => \A a \in Auditors : Carries(a)'
  <2> SUFFICES ASSUME rows' = rows, NEW a \in Auditors PROVE Carries(a)'
    OBVIOUS
  <2>1. verdict'[a] = verdict[a] /\ lastId'[a] = lastId[a]
    BY ClientsAlone DEF auditVars
  <2> QED BY <1>0, <1>2, <1>4, <2>1, CarriedKept
<1>6. rows' = rows => \A d \in Clients : d # c => AddsToChain(d)'
  <2> SUFFICES ASSUME rows' = rows, NEW d \in Clients, d # c PROVE AddsToChain(d)'
    OBVIOUS
  <2>1. PICK S : S = rows \cup mine[d]
    OBVIOUS
  <2>2. /\ rows' \cup mine'[d] = S /\ pc'[d] = pc[d] /\ mine'[d] = mine[d]
        /\ previous'[d] = previous[d]
    BY <1>3, <2>1
  <2>3. pc'[d] = "insert" =>
          /\ Chained(S) /\ previous'[d] = HashOfLast(S)
          /\ \A r \in rows', s \in mine'[d] : r.id < s.id
    BY <1>2, <2>1, <2>2 DEF AddsToChain
  <2> QED BY <2>2, <2>3 DEF AddsToChain, Chained, Before, HashOfLast
<1>7. rows' = rows => Chained(rows)'
  BY <1>2 DEF Chained, Before, HashOfLast
<1>8. CASE Post(c) \/ Ends(c) \/ GoesOn(c)
  <2>1. rows' = rows
    BY <1>8 DEF Post, Ends, GoesOn
  <2>2. pc'[c] # "insert"
    <3>1. CASE Ends(c)
      BY <1>0, <3>1, FinishEffect DEF Ends
    <3>2. CASE Post(c) \/ GoesOn(c)
      BY <1>0, <3>2 DEF Post, GoesOn, Goto
    <3> QED BY <1>8, <3>1, <3>2
  <2>3. OneInserts'
    BY <1>2, <1>3, <2>2 DEF OneInserts
  <2>4. AddsToChain(c)'
    BY <2>2 DEF AddsToChain
  <2> QED BY <1>5, <1>6, <1>7, <2>1, <2>3, <2>4
<1>9. CASE FindLast(c)
  <2>1. /\ rows' = rows /\ mine' = mine /\ previous'[c] = HashOfLast(rows)
        /\ pc[c] = "last"
    BY <1>0, <1>9 DEF FindLast
  <2>2. mine[c] = {}
    BY <1>0, <2>1 DEF RequestsInv, RequestInv
  <2>3. \A d \in Clients : d # c => pc[d] # "insert"
    BY <1>9 DEF FindLast, NoteOverlap
  <2>4. OneInserts'
    BY <1>3, <2>3 DEF OneInserts
  <2>5. rows' \cup mine'[c] = rows
    BY <2>1, <2>2
  <2>6. /\ Chained(rows' \cup mine'[c])
        /\ previous'[c] = HashOfLast(rows' \cup mine'[c])
    BY <1>2, <2>1, <2>5
  <2>7. \A s \in mine'[c] : FALSE
    BY <2>1, <2>2
  <2>8. AddsToChain(c)'
    BY <2>6, <2>7 DEF AddsToChain, Chained, Before, HashOfLast
  <2> QED BY <1>5, <1>6, <1>7, <2>1, <2>4, <2>8
<1>10. CASE InsertEntry(c)
  <2>1. PICK x \in Row : /\ x.id = nextId /\ x.prev = previous[c]
                         /\ x.hash = Hash(previous[c], x.entry)
                         /\ mine' = [mine EXCEPT ![c] = mine[c] \cup {x}]
                         /\ previous' = [previous EXCEPT ![c] = x.hash]
    BY <1>0, <1>10, InsertEffect
  <2>2. /\ rows' = rows /\ pc' = pc /\ pc[c] = "insert"
        /\ mine'[c] = mine[c] \cup {x} /\ previous'[c] = x.hash
    BY <1>0, <1>10, <2>1 DEF InsertEntry
  <2>3. PICK S : S = rows \cup mine[c]
    OBVIOUS
  <2>4. /\ Chained(S) /\ previous[c] = HashOfLast(S)
        /\ \A r \in rows, s \in mine[c] : r.id < s.id
    BY <1>2, <2>2, <2>3 DEF AddsToChain
  <2>5. /\ Numbered(S) /\ \A r \in S : r.id \in 0 .. MaxId
        /\ x.id \in 0 .. MaxId /\ \A r \in S : r.id < x.id
    <3>1. Numbered(rows) /\ Numbered(mine[c]) /\ Apart(rows, mine[c])
      BY <1>0 DEF IdsInv, Apart
    <3>2. Numbered(S)
      BY <2>3, <3>1, NumberedUnion
    <3>3. \A r \in S : r \in Row /\ r.id < nextId
      BY <1>0, <2>3 DEF IdsInv
    <3> QED BY <2>1, <3>2, <3>3, RowFacts
  <2>6. Chained(S \cup {x}) /\ HashOfLast(S \cup {x}) = x.hash
    <3>1. x.prev = HashOfLast(S) /\ x.hash = Hash(x.prev, x.entry)
      BY <2>1, <2>4
    <3> QED BY <1>0, <2>4, <2>5, <3>1, ChainGrows
  <2>7. rows' \cup mine'[c] = S \cup {x}
    BY <2>2, <2>3
  <2>8. /\ Chained(rows' \cup mine'[c]) /\ previous'[c] = HashOfLast(rows' \cup mine'[c])
    BY <2>2, <2>6, <2>7
  <2>9. \A r \in rows', s \in mine'[c] : r.id < s.id
    BY <2>2, <2>3, <2>4, <2>5
  <2>10. AddsToChain(c)'
    BY <2>8, <2>9 DEF AddsToChain, Chained, Before, HashOfLast
  <2>11. OneInserts'
    BY <1>2, <2>2 DEF OneInserts
  <2> QED BY <1>5, <1>6, <1>7, <2>2, <2>10, <2>11
<1>11. CASE Commit(c)
  <2>1. rows' = rows \cup mine[c] /\ pc[c] = "insert" /\ pc'[c] = "idle"
    BY <1>0, <1>11, FinishEffect DEF Commit
  <2>2. Chained(rows') /\ \A r \in rows, s \in mine[c] : r.id < s.id
    BY <1>2, <2>1 DEF AddsToChain
  <2>3. \A d \in Clients : pc'[d] # "insert"
    BY <1>2, <1>3, <2>1 DEF OneInserts
  <2>4. \A a \in Auditors : Carries(a)'
    <3> SUFFICES ASSUME NEW a \in Auditors PROVE Carries(a)'
      OBVIOUS
    <3>1. verdict'[a] = verdict[a] /\ lastId'[a] = lastId[a]
      BY ClientsAlone DEF auditVars
    <3>2. rows \subseteq rows' /\ \A r \in rows, s \in rows' \ rows : r.id < s.id
      BY <2>1, <2>2
    <3> QED BY <1>0, <1>2, <1>4, <3>1, <3>2, CarriedKept
  <2>5. Chained(rows)'
    BY <2>2 DEF Chained, Before, HashOfLast
  <2> QED BY <2>3, <2>4, <2>5 DEF AddsToChain, OneInserts
<1> QED BY <1>8, <1>9, <1>10, <1>11

\* A page of one chain has no break, and the hash of its last entry is the one
\* that the entry after it was hashed with.
LEMMA PageUnbroken ==
  ASSUME PostingInv, Chained(rows), NEW a \in Auditors,
         previous[a] = HashOfLast(Before(rows, lastId[a] + 1))
  PROVE  Breaks(Page(a), previous[a]) = {}
<1> SUFFICES ASSUME NEW r \in Breaks(Page(a), previous[a]) PROVE FALSE
  OBVIOUS
<1>1. PICK P : P = Page(a)
  OBVIOUS
<1>2. r \in P /\ r \in rows /\ r \in After(a)
  BY <1>1, PageFacts DEF Breaks
<1> DEFINE V == {s \in P : s.id < r.id}
           U == Before(rows, r.id)
<1>3. r.prev = HashOfLast(U) /\ r.hash = Hash(r.prev, r.entry)
  BY <1>2 DEF Chained
<1>4. lastId[a] \in Nat /\ MaxId \in Nat /\ \A s \in rows : s.id \in Nat
  BY AuditFacts, PageFacts DEF PostingInv
<1>5. \A s \in U : s \in V \/ s.id <= lastId[a]
  <2> SUFFICES ASSUME NEW s \in U, ~(s.id <= lastId[a]) PROVE s \in P
    BY DEF Before
  <2>1. s \in rows /\ s.id < r.id /\ s.id \in Nat /\ r.id \in Nat
    BY <1>2, <1>4 DEF Before
  <2>2. s \in After(a) /\ s.id <= r.id
    BY <1>4, <2>1 DEF After
  <2> QED BY <1>1, <1>2, <2>2, PageFacts
<1>6. V \subseteq U /\ \A s \in V : s.id > lastId[a]
  BY <1>1, PageFacts DEF Before, After
<1>7. Numbered(U) /\ \A s \in U : s.id \in 0 .. MaxId
  <2>1. U \subseteq rows
    BY DEF Before
  <2> QED BY <2>1, NumberedSubset, PageFacts DEF PostingInv, IdsInv
<1>8. CASE V = {}
  <2>1. U = Before(rows, lastId[a] + 1)
    <3>1. lastId[a] < r.id /\ r.id \in Nat
      BY <1>2, <1>4 DEF After
    <3>2. \A s \in rows : s.id < r.id => s.id < lastId[a] + 1
      BY <1>4, <1>5, <1>8 DEF Before
    <3>3. \A s \in rows : s.id < lastId[a] + 1 => s.id < r.id
      BY <1>4, <3>1
    <3> QED BY <3>2, <3>3 DEF Before
  <2>2. HashOfLast(V) = <<>>
    BY <1>8 DEF HashOfLast
  <2>3. r.prev = previous[a]
    BY <1>3, <2>1
  <2> QED BY <1>1, <1>3, <2>2, <2>3 DEF Breaks
<1>9. CASE V # {}
  <2>1. \A s \in U \ V, q \in V : s.id < q.id
    <3> SUFFICES ASSUME NEW s \in U \ V, NEW q \in V PROVE s.id < q.id
      OBVIOUS
    <3>1. s.id <= lastId[a] /\ q.id > lastId[a]
      BY <1>5, <1>6
    <3>2. s.id \in Nat /\ q.id \in Nat
      BY <1>6, <1>7
    <3> QED BY <1>4, <3>1, <3>2
  <2>2. HashOfLast(U) = HashOfLast(V)
    <3> HIDE DEF U, V
    <3> QED BY <1>4, <1>6, <1>7, <1>9, <2>1, LastOfLater
  <2>3. HashOfLast(V) # <<>>
    <3>1. Numbered(V) /\ \A s \in V : s.id \in 0 .. MaxId /\ s.id \in Nat
      BY <1>6, <1>7, NumberedSubset
    <3>2. PICK q \in V : \A s \in V : s.id <= q.id
      <4> HIDE DEF V
      <4> QED BY <1>4, <1>9, <3>1, LastExists
    <3>3. HashOfLast(V) = q.hash
      <4> HIDE DEF V
      <4> QED BY <3>1, <3>2, HashIs
    <3>4. q \in rows
      BY <1>1, PageFacts
    <3>5. q.hash = Append(q.prev, q.entry) /\ q.prev \in Seq(Entries) /\ q.entry \in Entries
      BY <3>4, TypeFacts, RowFacts DEF Chained, Hash, PostingInv
    <3>6. q.hash # <<>>
      BY <3>5
    <3> QED BY <3>3, <3>6
  <2> QED BY <1>1, <1>3, <2>2, <2>3 DEF Breaks
<1> QED BY <1>8, <1>9

LEMMA CarriedOn ==
  ASSUME PostingInv, NEW a \in Auditors, NEW m,
         m = Max({r.id : r \in Page(a)} \cup {lastId[a]}),
         previous[a] = HashOfLast(Before(rows, lastId[a] + 1)),
         lastId[a] = 0 \/ \E r \in rows : r.id = lastId[a]
  PROVE  /\ (IF Page(a) = {} THEN previous[a] ELSE HashOfLast(Page(a))) =
              HashOfLast(Before(rows, m + 1))
         /\ m = 0 \/ \E r \in rows : r.id = m
<1>0. /\ m \in Nat /\ lastId[a] <= m /\ \A r \in Page(a) : r.id <= m
      /\ m = lastId[a] \/ \E r \in Page(a) : r.id = m
      /\ lastId[a] \in Nat /\ MaxId \in Nat
  <2>1. /\ m \in 0 .. MaxId /\ lastId[a] <= m /\ \A r \in Page(a) : r.id <= m
        /\ m = lastId[a] \/ \E r \in Page(a) : r.id = m
    BY NextPage
  <2>2. lastId[a] \in 0 .. MaxId /\ MaxId \in Nat
    BY AuditFacts DEF PostingInv
  <2>3. m \in Nat /\ lastId[a] \in Nat
    BY <2>1, <2>2
  <2> QED BY <2>1, <2>2, <2>3
<1>1. /\ Page(a) \subseteq rows /\ Page(a) \subseteq After(a)
      /\ \A s \in rows : s.id \in Nat /\ s.id \in 0 .. MaxId
      /\ \A r \in Page(a), s \in After(a) : s.id <= r.id => s \in Page(a)
      /\ Numbered(rows)
  BY PageFacts DEF PostingInv, IdsInv
<1>2. CASE Page(a) = {}
  <2>1. m = lastId[a]
    BY <1>0, <1>2
  <2> QED BY <1>2, <2>1
<1>3. CASE Page(a) # {}
  <2>1. PICK q \in Page(a) : q.id = m
    <3>1. \A q \in Page(a) : q.id > lastId[a] /\ q.id <= m /\ q.id \in Nat
      BY <1>0, <1>1 DEF After
    <3>2. m # lastId[a]
      BY <1>0, <1>3, <3>1
    <3> QED BY <1>0, <3>2
  <2>2. PICK P : P = Page(a)
    OBVIOUS
  <2>3. PICK U : U = Before(rows, m + 1)
    OBVIOUS
  <2>4. P \in SUBSET U
    <3>1. \A s \in P : s.id < m + 1
      BY <1>0, <1>1, <2>2
    <3> QED BY <1>1, <2>2, <2>3, <3>1 DEF Before
  <2>5. U \in SUBSET rows /\ \A s \in U : s.id <= m
    <3> SUFFICES ASSUME NEW s \in U PROVE s \in rows /\ s.id <= m
      OBVIOUS
    <3>1. s \in rows /\ s.id < m + 1
      BY <2>3 DEF Before
    <3>2. s.id \in Nat
      BY <1>1, <3>1
    <3> QED BY <1>0, <3>1, <3>2
  <2>6. Numbered(U) /\ \A s \in U : s.id \in 0 .. MaxId
    BY <1>1, <2>5, NumberedSubset
  <2>7. \A s \in U \ P, r \in P : s.id < r.id
    <3> SUFFICES ASSUME NEW s \in U \ P, NEW r \in P PROVE s.id < r.id
      OBVIOUS
    <3>1. s \notin After(a)
      BY <1>1, <2>1, <2>2, <2>5
    <3>2. s.id <= lastId[a] /\ r.id > lastId[a] /\ s.id \in Nat /\ r.id \in Nat
      BY <1>0, <1>1, <2>2, <2>5, <3>1 DEF After
    <3> QED BY <1>0, <3>2
  <2>8. P # {}
    BY <1>3, <2>2
  <2>9. HashOfLast(U) = HashOfLast(P)
    BY <1>0, <2>4, <2>6, <2>7, <2>8, LastOfLater
  <2>10. \E r \in rows : r.id = m
    BY <1>1, <2>1
  <2> QED BY <1>3, <2>2, <2>3, <2>9, <2>10
<1> QED BY <1>2, <1>3

LEMMA ChainAudit ==
  ASSUME LedgerInv, ChainInv, NEW a \in Auditors, AuditStep(a)
  PROVE  ChainInv'
<1> SUFFICES ASSUME ~overlapped'
             PROVE  /\ Chained(rows)' /\ OneInserts'
                    /\ \A d \in Clients : AddsToChain(d)'
                    /\ \A b \in Auditors : Carries(b)'
  BY DEF ChainInv, AddsToChain, Carries, OneInserts
<1>0. /\ PostingInv /\ TypeOK
      /\ UNCHANGED <<rows, nextId, overlapped, pc, posted, mine>>
      /\ \A d \in Clients : previous'[d] = previous[d]
      /\ \A b \in Auditors : b # a =>
           /\ verdict'[b] = verdict[b] /\ lastId'[b] = lastId[b]
           /\ previous'[b] = previous[b]
  <2>1. \A b \in Auditors : b \in Clients \cup Auditors
    OBVIOUS
  <2> QED BY <2>1, AuditEffect DEF LedgerInv, PostingInv, clientVars
<1>1. /\ Chained(rows) /\ OneInserts
      /\ \A d \in Clients : AddsToChain(d)
      /\ \A b \in Auditors : Carries(b)
  BY <1>0, ChainIs
<1>2. Chained(rows)' /\ OneInserts'
  BY <1>0, <1>1 DEF Chained, Before, HashOfLast, OneInserts
<1>3. ASSUME NEW d \in Clients PROVE AddsToChain(d)'
  <2>1. PICK S : S = rows \cup mine[d]
    OBVIOUS
  <2>2. /\ rows' \cup mine'[d] = S /\ pc'[d] = pc[d] /\ mine'[d] = mine[d]
        /\ previous'[d] = previous[d]
    BY <1>0, <2>1
  <2>3. pc'[d] = "insert" =>
          /\ Chained(S) /\ previous'[d] = HashOfLast(S)
          /\ \A r \in rows', s \in mine'[d] : r.id < s.id
    BY <1>0, <1>1, <2>1, <2>2 DEF AddsToChain
  <2> QED BY <2>2, <2>3 DEF AddsToChain, Chained, Before, HashOfLast
<1>4. ASSUME NEW b \in Auditors, b # a PROVE Carries(b)'
  <2>1. rows' \subseteq Row /\ rows \subseteq rows' /\ rows' \ rows = {}
    BY <1>0, TypeFacts
  <2> QED BY <1>0, <1>1, <1>4, <2>1, CarriedKept
<1>5. Carries(a)'
  <2> SUFFICES /\ verdict'[a] = "scanning" =>
                    previous'[a] = HashOfLast(Before(rows, lastId'[a] + 1))
               /\ lastId'[a] = 0 \/ \E r \in rows : r.id = lastId'[a]
               /\ verdict'[a] # "broken"
    BY <1>0 DEF Carries, Before, HashOfLast
  <2>1. CASE StartAudit(a)
    <3>1. previous'[a] = <<>> /\ lastId'[a] = 0 /\ verdict'[a] = "scanning"
      BY <2>1, AuditStarts
    <3>2. \A r \in rows : r.id \in Nat \ {0}
      BY <1>0, PageFacts
    <3>3. \A r \in rows : ~(r.id < 0 + 1)
      BY <3>2
    <3>4. Before(rows, 0 + 1) = {}
      BY <3>3 DEF Before
    <3> QED BY <3>1, <3>4 DEF HashOfLast
  <2>2. CASE ScanPage(a)
    <3>0. /\ verdict \in [Auditors -> {"none", "scanning", "ok", "broken"}]
          /\ lastId \in [Auditors -> 0 .. MaxId]
          /\ previous \in [Clients \cup Auditors -> Seq(Entries)]
          /\ verdict[a] = "scanning"
      BY <1>0, <2>2, TypeFacts, AuditFacts DEF ScanPage
    <3>1. /\ previous[a] = HashOfLast(Before(rows, lastId[a] + 1))
          /\ lastId[a] = 0 \/ \E r \in rows : r.id = lastId[a]
      BY <1>1, <3>0 DEF Carries
    <3>2. Breaks(Page(a), previous[a]) = {}
      BY <1>0, <1>1, <3>1, PageUnbroken
    <3>3. PICK m : m = Max({r.id : r \in Page(a)} \cup {lastId[a]})
      OBVIOUS
    <3>4. /\ lastId'[a] = m /\ verdict'[a] \in {"ok", "scanning"}
          /\ previous'[a] = IF Page(a) = {} THEN previous[a] ELSE HashOfLast(Page(a))
      BY <2>2, <3>0, <3>2, <3>3 DEF ScanPage
    <3>5. /\ (IF Page(a) = {} THEN previous[a] ELSE HashOfLast(Page(a))) =
               HashOfLast(Before(rows, m + 1))
          /\ m = 0 \/ \E r \in rows : r.id = m
      BY <1>0, <3>1, <3>3, CarriedOn
    <3> QED BY <3>4, <3>5
  <2> QED BY <2>1, <2>2 DEF AuditStep
<1> QED BY <1>2, <1>3, <1>4, <1>5

LEMMA ChainSame ==
  ASSUME ChainInv, UNCHANGED vars
  PROVE  ChainInv'
<1>1. /\ UNCHANGED <<rows, overlapped, pc, mine, previous>>
      /\ UNCHANGED <<verdict, lastId>>
  BY DEF vars, clientVars, auditVars
<1> SUFFICES ASSUME ~overlapped
             PROVE  /\ Chained(rows)' /\ OneInserts'
                    /\ \A d \in Clients : AddsToChain(d)'
                    /\ \A a \in Auditors : Carries(a)'
  BY <1>1 DEF ChainInv, AddsToChain, Carries, OneInserts
<1>2. /\ Chained(rows) /\ OneInserts
      /\ \A d \in Clients : AddsToChain(d)
      /\ \A a \in Auditors : Carries(a)
  BY ChainIs
<1>3. Chained(rows)' /\ OneInserts'
  BY <1>1, <1>2 DEF Chained, Before, HashOfLast, OneInserts
<1>4. ASSUME NEW d \in Clients PROVE AddsToChain(d)'
  <2>1. AddsToChain(d)
    BY <1>2
  <2>0. PICK S : S = rows \cup mine[d]
    OBVIOUS
  <2>2. /\ rows' \cup mine'[d] = S /\ pc'[d] = pc[d] /\ mine'[d] = mine[d]
        /\ previous'[d] = previous[d]
    BY <1>1, <2>0
  <2>3. pc'[d] = "insert" =>
          /\ Chained(S) /\ previous'[d] = HashOfLast(S)
          /\ \A r \in rows', s \in mine'[d] : r.id < s.id
    BY <1>1, <2>0, <2>1, <2>2 DEF AddsToChain
  <2> QED BY <2>2, <2>3 DEF AddsToChain, Chained, Before, HashOfLast
<1>5. \A a \in Auditors : Carries(a)'
  BY <1>1, <1>2 DEF Carries, Before, HashOfLast
<1> QED BY <1>3, <1>4, <1>5

LEMMA ChainStep ==
  ASSUME IsFiniteSet(Clients), LedgerInv, LedgerInv', ChainInv, [Next]_vars
  PROVE  ChainInv'
<1>1. CASE UNCHANGED vars
  BY <1>1, ChainSame
<1>2. ASSUME NEW c \in Clients, Post(c) \/ Step(c) \/ Abort(c) PROVE ChainInv'
  BY <1>2, ClientSteps, ChainClient
<1>3. ASSUME NEW a \in Auditors, StartAudit(a) \/ ScanPage(a) PROVE ChainInv'
  BY <1>3, ChainAudit DEF AuditStep
<1> QED BY <1>1, <1>2, <1>3 DEF Next

LEMMA ChainInit ==
  ASSUME Init
  PROVE  ChainInv
BY DEF Init, ChainInv, Chained, Before, HashOfLast

\* As long as no two batches have overlapped, no audit finds a break in entries
\* that nobody tampered with, whatever is committed between its pages.
THEOREM SerialAuditsPass ==
  ASSUME IsFiniteSet(Clients)
  PROVE  Spec => []SerialAuditPasses
<1>1. Init => ChainInv
  BY ChainInit
<1>2. LedgerInv /\ LedgerInv' /\ ChainInv /\ [Next]_vars => ChainInv'
  BY ChainStep
<1>3. ChainInv => SerialAuditPasses
  BY DEF ChainInv, SerialAuditPasses, AuditPasses
<1> QED BY <1>1, <1>2, <1>3, LedgerInductive, PTL DEF Spec

-----------------------------------------------------------------------------
(* The store that callers see.                                             *)

Own(t) == {r \in rows : r.tx = t}
Record(t) == [n \in 1 .. Cardinality(Own(t)) |-> EntryOf(t, n)]
Records == [t \in Txs |-> Record(t)]

LEMMA NothingRecorded ==
  ASSUME NEW t, Own(t) = {}
  PROVE  Record(t) = <<>>
<1>1. Cardinality({}) = 0
  BY FS_EmptySet
<1>2. 1 .. Cardinality(Own(t)) = {}
  BY <1>1
<1>3. Record(t) = [n \in {} |-> EntryOf(t, n)]
  BY <1>2 DEF Record
<1> QED BY <1>3

LEMMA RecordsSame ==
  ASSUME rows' = rows
  PROVE  Records' = Records
BY DEF Records, Record, Own, EntryOf

\* The entries of a set in the order of their ids.
InOrder(S) == [n \in 1 .. Cardinality(S) |->
                 (CHOOSE r \in S : Cardinality({s \in S : s.id < r.id}) = n - 1).entry]

LEMMA RecordIs ==
  ASSUME NEW t
  PROVE  Record(t) = InOrder(Own(t))
BY DEF Record, InOrder, Own, EntryOf

LEMMA BatchInOrder ==
  ASSUME IsFiniteSet(Clients), TypeOK, IdsInv, RequestsInv, NEW c \in Clients,
         Commit(c)
  PROVE  InOrder(mine[c]) = posted[c].list
<1>1. Cardinality(mine[c]) = Len(posted[c].list) /\ BatchInv(c)
  BY DEF Commit, RequestsInv
<1>2. PICK es \in Seq(Entries) : es = posted[c].list
  BY TypeFacts
<1>3. PICK M : M = mine[c]
  OBVIOUS
<1>4. ASSUME NEW n \in 1 .. Len(es)
      PROVE  (CHOOSE r \in M : Cardinality({s \in M : s.id < r.id}) = n - 1).entry = es[n]
  <2>1. \E r \in M : Cardinality({s \in M : s.id < r.id}) = n - 1
    BY <1>1, <1>2, <1>3 DEF BatchInv, Rank
  <2>2. PICK r : r = CHOOSE q \in M : Cardinality({s \in M : s.id < q.id}) = n - 1
    OBVIOUS
  <2>3. r \in M /\ Cardinality({s \in M : s.id < r.id}) = n - 1
    BY <2>1, <2>2
  <2>4. r.entry = es[Cardinality({s \in M : s.id < r.id}) + 1]
    BY <1>1, <1>2, <1>3, <2>3 DEF BatchInv, Rank
  <2>5. (n - 1) + 1 = n
    OBVIOUS
  <2> QED BY <2>2, <2>3, <2>4, <2>5
<1>5. InOrder(M) = [n \in 1 .. Len(es) |-> es[n]]
  BY <1>1, <1>2, <1>3, <1>4 DEF InOrder
<1>6. es = [n \in 1 .. Len(es) |-> es[n]]
  OBVIOUS
<1> QED BY <1>2, <1>3, <1>5, <1>6

LEMMA StoreStep ==
  ASSUME IsFiniteSet(Clients), LedgerInv, NEW c \in Clients, Commit(c)
  PROVE  \E t \in Txs :
           /\ Records[t] = <<>>
           /\ \E es \in {fs \in Lists[t] : Valid(fs)} :
                Records' = [Records EXCEPT ![t] = es]
<1>0. /\ TypeOK /\ IdsInv /\ RequestsInv
      /\ pc[c] = "insert" /\ rows' = rows \cup mine[c]
      /\ RequestInv(c) /\ BatchInv(c)
  BY DEF LedgerInv, PostingInv, Commit, RequestsInv
<1>1. PICK t \in Txs : t = posted[c].tx
  BY <1>0, TypeFacts
<1>2. PICK es : es = posted[c].list
  OBVIOUS
<1>3. es \in {fs \in Lists[t] : Valid(fs)}
  BY <1>0, <1>1, <1>2 DEF RequestInv
<1>4. Own(t) = {}
  BY <1>0, <1>1 DEF RequestInv, Holds, Recorded, Own
<1>5. Own(t)' = mine[c]
  BY <1>0, <1>1, <1>4 DEF Own, BatchInv
<1>6. \A u \in Txs : u # t => Own(u)' = Own(u)
  BY <1>0, <1>1 DEF Own, BatchInv
<1>7. Records[t] = <<>>
  BY <1>4, NothingRecorded DEF Records
<1>8. \A u \in Txs : Records[u] = InOrder(Own(u))
  BY RecordIs DEF Records
<1>9. \A u \in Txs : Records'[u] = InOrder(Own(u)')
  BY DEF Records, Record, InOrder, Own, EntryOf
<1>10. InOrder(mine[c]) = es
  BY <1>0, <1>2, BatchInOrder
<1>11. Records'[t] = es /\ \A u \in Txs : u # t => Records'[u] = Records[u]
  BY <1>5, <1>6, <1>8, <1>9, <1>10
<1>12. Records' = [u \in Txs |-> Records'[u]] /\ Records = [u \in Txs |-> Records[u]]
  BY DEF Records
<1>13. Records' = [Records EXCEPT ![t] = es]
  BY <1>11, <1>12
<1> QED BY <1>3, <1>7, <1>13

LEMMA StoreRecords ==
  Records = [t \in Txs |-> [n \in 1 .. Cardinality({r \in rows : r.tx = t}) |->
                              EntryOf(t, n)]]
BY DEF Records, Record, Own

\* For its callers ledger-service is a store that takes one valid list per
\* transaction, whole and for good, whatever requests race and die.
THEOREM LedgerImplementsStore ==
  ASSUME IsFiniteSet(Clients)
  PROVE  Spec => ImplementsStore
<1>1. Init => Store!Init
  <2> SUFFICES ASSUME Init PROVE Store!Init
    OBVIOUS
  <2>1. \A t \in Txs : Own(t) = {}
    BY DEF Init, Own
  <2>2. \A t \in Txs : Record(t) = <<>>
    BY <2>1, NothingRecorded
  <2>3. Records = [t \in Txs |-> <<>>]
    BY <2>2 DEF Records
  <2> QED BY <2>3, StoreRecords DEF Store!Init
<1>2. LedgerInv /\ [Next]_vars => [Store!Next]_Records
  <2> SUFFICES ASSUME LedgerInv, [Next]_vars PROVE Store!Next \/ Records' = Records
    OBVIOUS
  <2>1. ASSUME NEW c \in Clients, Commit(c) PROVE Store!Next
    BY <2>1, StoreStep, StoreRecords DEF Store!Next, Store!CreateBatch, Records, Record, Own
  <2>2. (\E c \in Clients : Commit(c)) \/ rows' = rows
    <3>1. CASE UNCHANGED vars
      BY <3>1 DEF vars
    <3>2. ASSUME NEW c \in Clients, Post(c) \/ Step(c) \/ Abort(c)
          PROVE  Commit(c) \/ rows' = rows
      <4>1. Post(c) \/ Ends(c) \/ GoesOn(c) \/ FindLast(c) \/ InsertEntry(c) \/ Commit(c)
        BY <3>2, ClientSteps
      <4> QED BY <4>1 DEF Post, Ends, GoesOn, FindLast, InsertEntry
    <3>3. ASSUME NEW a \in Auditors, StartAudit(a) \/ ScanPage(a) PROVE rows' = rows
      BY <3>3 DEF StartAudit, ScanPage
    <3> QED BY <3>1, <3>2, <3>3 DEF Next
  <2> QED BY <2>1, <2>2, RecordsSame
<1> QED BY <1>1, <1>2, LedgerInductive, PTL DEF Spec, ImplementsStore, Store!Spec, Records, Record, Own
=============================================================================
