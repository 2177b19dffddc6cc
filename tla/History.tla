------------------------------ MODULE History ------------------------------
(***************************************************************************)
(* GET /transactions: a wallet's transactions, newest first, a page at a     *)
(* time, while rows are inserted.  A client follows nextCursor from page to  *)
(* page and may ask for a different number of items each time.               *)
(*                                                                         *)
(* A row's createdAt is chosen when its insertion begins and the row is seen *)
(* when that commits, so rows may turn up behind a reader.                   *)
(***************************************************************************)
EXTENDS Naturals, Sequences, FiniteSets

CONSTANTS
  Ids,       \* UUIDs of transactions, as numbers in their order
  Parties,   \* pairs of sender and recipient
  Wallets,
  MaxLimit,  \* HISTORY_MAX_LIMIT
  PerMs,     \* values that created_at takes per millisecond
  MaxClock,  \* bound on the clock
  Skew,      \* how far the replicas' clocks may be apart
  Null

ASSUME HistoryAssumption ==
  /\ Ids \subseteq Nat /\ Parties \subseteq Wallets \X Wallets
  /\ {MaxLimit, PerMs} \subseteq Nat \ {0} /\ {MaxClock, Skew} \subseteq Nat
  /\ Null \notin Wallets /\ Null \notin [at : Nat, id : Nat]

VARIABLES
  clock,
  rows,     \* the committed rows
  open,     \* rows whose insertion has not committed
  wallet,   \* walletId of the traversal, Null before its first page
  items,    \* what its pages have returned
  ends,     \* the last row of each page so far
  cursor,   \* nextCursor
  hasMore,
  present   \* the wallet's rows when the first page was read

table == <<clock, rows, open>>
pages == <<wallet, items, ends, cursor, hasMore, present>>
vars  == <<table, pages>>

Init ==
  /\ clock = 0 /\ rows = {} /\ open = {}
  /\ wallet = Null /\ items = <<>> /\ ends = {} /\ present = {}
  /\ cursor = Null /\ hasMore = FALSE

-----------------------------------------------------------------------------
(* The table.                                                              *)

Tick ==
  /\ clock < MaxClock
  /\ clock' = clock + 1
  /\ UNCHANGED <<rows, open, pages>>

\* initiate() creates a row: createdAt is the time of the replica.
BeginInsert(id) ==
  /\ \A x \in rows \cup open : x.id # id
  /\ \E p \in Parties, at \in 0 .. clock :
       /\ clock - at <= Skew
       /\ open' = open \cup {[at |-> at, id |-> id, parties |-> p]}
  /\ UNCHANGED <<clock, rows, pages>>

Commit(x) ==
  /\ open' = open \ {x}
  /\ rows' = rows \cup {x}
  /\ UNCHANGED <<clock, pages>>

Abort(x) ==
  /\ open' = open \ {x}
  /\ UNCHANGED <<clock, rows, pages>>

-----------------------------------------------------------------------------
(* listHistory()                                                           *)

\* orderBy createdAt desc, id desc
Newer(x, y) == x.at > y.at \/ (x.at = y.at /\ x.id > y.id)

\* The rows of S from the newest on.
Sorted(S) ==
  [n \in 1 .. Cardinality(S) |->
     CHOOSE x \in S : Cardinality({y \in S : Newer(y, x)}) = n - 1]

\* toISOString(): a cursor's createdAt is cut to the millisecond.
Millisecond(at) == at - (at % PerMs)

\* Mutation of Past: a tie is broken in favour of all.
PastAllTies(x, c) == x.at <= c.at

\* createdAt < c.createdAt, or equal and id < c.id
Past(x, c) == x.at < c.at \/ (x.at = c.at /\ x.id < c.id)

Involves(x, w) == w \in {x.parties[1], x.parties[2]}

Matches(x, w, c) == Involves(x, w) /\ (c # Null => Past(x, c))

\* take: limit + 1
Found(w, c, limit) ==
  LET sorted == Sorted({x \in rows : Matches(x, w, c)}) IN
  SubSeq(sorted, 1, IF Len(sorted) > limit THEN limit + 1 ELSE Len(sorted))

\* Mutation of CursorOf: it is taken from the extra row.
CursorOfExtra(found, limit) ==
  LET last == found[Len(found)] IN
  [at |-> Millisecond(last.at), id |-> last.id]

CursorOf(found, limit) ==
  LET last == found[limit] IN [at |-> Millisecond(last.at), id |-> last.id]

listHistory(w, limit) ==
  LET found == Found(w, cursor, limit)
      page  == SubSeq(found, 1, IF Len(found) > limit THEN limit ELSE Len(found))
  IN
  /\ items' = items \o page
  /\ ends' = IF page = <<>> THEN ends ELSE ends \cup {page[Len(page)]}
  /\ hasMore' = (Len(found) > limit)
  /\ cursor' = IF Len(found) > limit THEN CursorOf(found, limit) ELSE Null

\* parseHistoryQuery(): a limit out of range or a malformed cursor is answered
\* 400 and shows nothing.
FirstPage(w, limit) ==
  /\ wallet = Null
  /\ limit \in 1 .. MaxLimit
  /\ wallet' = w
  /\ present' = {x \in rows : Involves(x, w)}
  /\ listHistory(w, limit)
  /\ UNCHANGED table

NextPage(limit) ==
  /\ hasMore
  /\ limit \in 1 .. MaxLimit
  /\ listHistory(wallet, limit)
  /\ UNCHANGED <<table, wallet, present>>

-----------------------------------------------------------------------------
Next ==
  \/ Tick
  \/ \E id \in Ids : BeginInsert(id)
  \/ \E x \in open : Commit(x) \/ Abort(x)
  \/ \E limit \in 0 .. MaxLimit + 1 :
       NextPage(limit) \/ \E w \in Wallets : FirstPage(w, limit)

Spec == Init /\ [][Next]_vars

-----------------------------------------------------------------------------
\* The pages of a traversal, one after the other, list transactions of the
\* wallet only, newest first, none of them twice, whatever was committed
\* between two pages, and behind or before the cursor.
PagesInOrder ==
  /\ \A i \in DOMAIN items : Involves(items[i], wallet)
  /\ \A i, j \in DOMAIN items : i < j => Newer(items[i], items[j])

\* The column holds parts of a millisecond and x shares its millisecond with
\* the last row of a page: the cursor's cut may pass over x.
Cut(x) ==
  \E e \in ends :
    /\ Newer(e, x) /\ Millisecond(e.at) = Millisecond(x.at)
    /\ e.at # Millisecond(e.at)

\* A traversal shows every transaction that was there when it began: all of
\* them once the last page is reached, until then those that are not older than
\* its last item, except for what the cut of the cursor passes over.
NothingSkipped ==
  \A x \in present :
    \/ \E i \in DOMAIN items : items[i] = x
    \/ Cut(x)
    \/ hasMore /\ Newer(items[Len(items)], x)
=============================================================================
