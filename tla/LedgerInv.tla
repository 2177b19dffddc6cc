----------------------------- MODULE LedgerInv -----------------------------
(***************************************************************************)
(* The inductive invariants of LedgerChain: what a batch in progress and an*)
(* audit in progress know of the committed entries.                        *)
(***************************************************************************)
EXTENDS LedgerChain

\* The number of entries of S before r.
Rank(S, r) == Cardinality({s \in S : s.id < r.id})

-----------------------------------------------------------------------------
(* Entries and their ids.                                                  *)

\* No id is used twice, and none that the sequence has still to give.
Numbered(S) ==
  /\ IsFiniteSet(S)
  /\ \A r, s \in S : r.id = s.id => r = s

Apart(S, T) == \A r \in S, s \in T : r.id # s.id

IdsInv ==
  /\ Numbered(rows) /\ \A r \in rows : r.id < nextId
  /\ \A c \in Clients :
       /\ Numbered(mine[c]) /\ \A r \in mine[c] : r.id < nextId
       /\ Apart(mine[c], rows)
  /\ \A c, d \in Clients : c # d => Apart(mine[c], mine[d])

-----------------------------------------------------------------------------
(* Batches in progress.                                                    *)

\* A client holds entries between its first INSERT and its end only: a valid
\* list's first ones, one for each number, for a transaction that has none.
RequestInv(c) ==
  /\ pc[c] # "insert" => mine[c] = {}
  /\ pc[c] = "idle" => posted[c] = NoRequest
  /\ pc[c] # "idle" =>
       posted[c].list \in Lists[posted[c].tx] /\ Valid(posted[c].list)
  /\ Holds(c) => ~Recorded(posted[c].tx)

BatchInv(c) ==
  /\ Cardinality(mine[c]) <= Len(posted[c].list)
  /\ \A r \in mine[c] : /\ r.tx = posted[c].tx
                        /\ r.entry = posted[c].list[Rank(mine[c], r) + 1]
  /\ \A n \in 1 .. Cardinality(mine[c]) :
       \E r \in mine[c] : Rank(mine[c], r) = n - 1

\* The unique index lets one client at a time write the entries of a transaction.
IndexInv ==
  \A c, d \in Clients :
    c # d /\ Holds(c) /\ Holds(d) => posted[c].tx # posted[d].tx

\* The ids that are left are enough for the requests in progress.
RoomInv == nextId + Outstanding <= MaxId + 1

RequestsInv ==
  /\ \A c \in Clients : RequestInv(c) /\ BatchInv(c)
  /\ IndexInv /\ RoomInv

\* A batch in progress writes its list, whole, once and in order.
PostingInv == TypeOK /\ IdsInv /\ RequestsInv

-----------------------------------------------------------------------------
(* Amounts.                                                                *)

\* The cents of a set of entries, and of the first n of a list.
Cents(S, direction, currency) ==
  SumFunctionOnSet([r \in S |-> r.entry.cents],
                   {r \in S : /\ r.entry.direction = direction
                              /\ r.entry.currency = currency})

FirstCents(es, n, direction, currency) ==
  SumFunctionOnSet([i \in DOMAIN es |-> es[i].cents],
                   {i \in 1 .. n : /\ es[i].direction = direction
                                   /\ es[i].currency = currency})

\* Of its list a client has written the first entries with their amounts.
WrittenInv ==
  \A c \in Clients : \A direction \in Directions, currency \in Currencies :
    Cents(mine[c], direction, currency) =
      FirstCents(posted[c].list, Cardinality(mine[c]), direction, currency)

-----------------------------------------------------------------------------
(* The chain.                                                              *)

\* An entry goes on from an earlier one of S.
Links(S, r) == r.prev # <<>> => \E s \in S : s.id < r.id /\ s.hash = r.prev

LinksInv ==
  /\ \A r \in rows : Links(rows, r)
  /\ \A c \in Clients : pc[c] = "insert" =>
       /\ \A r \in mine[c] : Links(rows \cup mine[c], r)
       /\ previous[c] # <<>> =>
            \E s \in rows \cup mine[c] : s.hash = previous[c]

\* S is one chain: every entry goes on from the one before it.
Before(S, n) == {s \in S : s.id < n}

Chained(S) ==
  \A r \in S : r.prev = HashOfLast(Before(S, r.id)) /\ r.hash = Hash(r.prev, r.entry)

\* As long as no two batches have overlapped, the entries are one chain, to which
\* the one batch that inserts adds, and an audit carries the hash of its last one.
ChainInv ==
  ~overlapped =>
    /\ Chained(rows)
    /\ \A c, d \in Clients : pc[c] = "insert" /\ pc[d] = "insert" => c = d
    /\ \A c \in Clients : pc[c] = "insert" =>
         /\ Chained(rows \cup mine[c])
         /\ previous[c] = HashOfLast(rows \cup mine[c])
         /\ \A r \in rows, s \in mine[c] : r.id < s.id
    /\ \A a \in Auditors :
         /\ verdict[a] = "scanning" => previous[a] = HashOfLast(Before(rows, lastId[a] + 1))
         /\ lastId[a] = 0 \/ \E r \in rows : r.id = lastId[a]
         /\ verdict[a] # "broken"

-----------------------------------------------------------------------------
(* Audits.                                                                 *)

\* An audit owes the entries D and has read the entries R: up to its last id it
\* has missed none of D, and when it is over none at all.
Reading(a, D, R) ==
  /\ due[a] = Cardinality(D) /\ records[a] = Cardinality(R)
  /\ verdict[a] = "scanning" =>
       /\ \A r \in R : r.id <= lastId[a]
       /\ \A r \in D : r.id <= lastId[a] => r \in R
  /\ verdict[a] = "ok" => D \subseteq R

AuditInv ==
  \A a \in Auditors : \E D \in SUBSET rows : \E R \in SUBSET rows : Reading(a, D, R)

LedgerInv == PostingInv /\ AuditInv
=============================================================================
