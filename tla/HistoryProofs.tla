--------------------------- MODULE HistoryProofs ---------------------------
(***************************************************************************)
(* Proofs about History, for any tables, page sizes and clocks.            *)
(***************************************************************************)
EXTENDS History, Integers, FiniteSetTheorems, FunctionTheorems, SequenceTheorems, TLAPS

Row == [at : Nat, id : Nat, parties : Wallets \X Wallets]

\* An id belongs to one row.
Distinct(S) == S \subseteq Row /\ \A x, y \in S : x.id = y.id => x = y

TableInv == IsFiniteSet(rows) /\ Distinct(rows \cup open) /\ clock \in Nat

Last == items[Len(items)]

\* Between two pages the cursor is the last item's, cut to the millisecond.
ReaderInv ==
  /\ hasMore \in BOOLEAN
  /\ wallet = Null => items = <<>> /\ present = {} /\ ~hasMore
  /\ wallet # Null => wallet \in Wallets
  /\ items \in Seq(rows) /\ present \subseteq rows
  /\ \A x \in present : Involves(x, wallet)
  /\ ~hasMore => cursor = Null
  /\ hasMore => /\ items # <<>> /\ Last \in ends
                /\ cursor = [at |-> Millisecond(Last.at), id |-> Last.id]

HistoryInv == TableInv /\ ReaderInv /\ PagesInOrder /\ NothingSkipped

-----------------------------------------------------------------------------
(* The order of rows.                                                      *)

LEMMA RowIs ==
  ASSUME NEW x \in Row
  PROVE  x.at \in Nat /\ x.id \in Nat /\ x.parties \in Wallets \X Wallets
BY DEF Row

LEMMA NewerIsTransitive ==
  ASSUME NEW x \in Row, NEW y \in Row, NEW z \in Row, Newer(x, y), Newer(y, z)
  PROVE  Newer(x, z)
BY RowIs DEF Newer

LEMMA NewerIsStrict ==
  ASSUME NEW x \in Row
  PROVE  ~Newer(x, x)
BY RowIs DEF Newer

LEMMA NewerIsTotal ==
  ASSUME NEW S, Distinct(S), NEW x \in S, NEW y \in S, x # y
  PROVE  Newer(x, y) \/ Newer(y, x)
<1>1. x \in Row /\ y \in Row /\ x.id # y.id
  BY DEF Distinct
<1> QED BY <1>1, RowIs DEF Newer

\* The number of rows that a row comes after.
Ahead(S, x) == Cardinality({y \in S : Newer(y, x)})

LEMMA AheadIs ==
  ASSUME NEW S, IsFiniteSet(S), Distinct(S), NEW x \in S
  PROVE  Ahead(S, x) \in Nat /\ Ahead(S, x) + 1 \in 1 .. Cardinality(S)
<1> DEFINE A == {y \in S : Newer(y, x)}
<1>1. A \subseteq S /\ x \notin A
  BY NewerIsStrict DEF Distinct
<1>2. IsFiniteSet(A) /\ IsFiniteSet(A \cup {x}) /\ A \cup {x} \subseteq S
  BY <1>1, FS_Subset, FS_AddElement
<1>3. Cardinality(A \cup {x}) = Cardinality(A) + 1 /\ Cardinality(A) \in Nat
  BY <1>1, <1>2, FS_AddElement, FS_CardinalityType
<1>4. Cardinality(A \cup {x}) <= Cardinality(S) /\ Cardinality(S) \in Nat
  BY <1>2, FS_Subset, FS_CardinalityType
<1> QED BY <1>3, <1>4 DEF Ahead

LEMMA AheadGrows ==
  ASSUME NEW S, IsFiniteSet(S), Distinct(S), NEW x \in S, NEW y \in S, Newer(x, y)
  PROVE  Ahead(S, x) < Ahead(S, y)
<1> DEFINE A == {z \in S : Newer(z, x)}
           B == {z \in S : Newer(z, y)}
<1>0. S \subseteq Row
  BY DEF Distinct
<1>1. x \notin A /\ x \in B
  BY <1>0, NewerIsStrict
<1>2. A \subseteq B
  BY <1>0, NewerIsTransitive
<1>3. IsFiniteSet(A) /\ IsFiniteSet(B) /\ A \cup {x} \subseteq B
  BY <1>1, <1>2, FS_Subset
<1>4. Cardinality(A \cup {x}) = Cardinality(A) + 1 /\ Cardinality(A) \in Nat
  BY <1>1, <1>3, FS_AddElement, FS_CardinalityType
<1>5. Cardinality(A \cup {x}) <= Cardinality(B) /\ Cardinality(B) \in Nat
  BY <1>3, FS_Subset, FS_CardinalityType
<1> QED BY <1>4, <1>5 DEF Ahead

LEMMA AheadDiffers ==
  ASSUME NEW S, IsFiniteSet(S), Distinct(S), NEW x \in S, NEW y \in S,
         Ahead(S, x) = Ahead(S, y)
  PROVE  x = y
<1> SUFFICES ASSUME x # y PROVE FALSE
  OBVIOUS
<1>1. Newer(x, y) \/ Newer(y, x)
  BY NewerIsTotal
<1>2. Ahead(S, x) < Ahead(S, y) \/ Ahead(S, y) < Ahead(S, x)
  BY <1>1, AheadGrows
<1>3. Ahead(S, x) \in Nat
  BY AheadIs
<1> QED BY <1>2, <1>3

\* Every place in the order is taken.
LEMMA PlacesTaken ==
  ASSUME NEW S, IsFiniteSet(S), Distinct(S), NEW n \in 1 .. Cardinality(S)
  PROVE  \E x \in S : Ahead(S, x) = n - 1
<1> DEFINE T == 1 .. Cardinality(S)
           f == [x \in S |-> Ahead(S, x) + 1]
<1>1. Cardinality(S) \in Nat
  BY FS_CardinalityType
<1>2. IsFiniteSet(T) /\ Cardinality(T) = Cardinality(S)
  <2>1. PICK m \in Nat : m = Cardinality(S)
    BY <1>1
  <2>2. 1 \in Int /\ m \in Int
    OBVIOUS
  <2>3. IsFiniteSet(1 .. m) /\ Cardinality(1 .. m) = IF 1 > m THEN 0 ELSE m - 1 + 1
    BY <2>2, FS_Interval
  <2> QED BY <2>1, <2>3
<1>3. f \in [S -> T]
  BY AheadIs
<1>4. \A x, y \in S : f[x] = f[y] => x = y
  <2> SUFFICES ASSUME NEW x \in S, NEW y \in S, Ahead(S, x) + 1 = Ahead(S, y) + 1
               PROVE  x = y
    OBVIOUS
  <2>1. Ahead(S, x) \in Nat /\ Ahead(S, y) \in Nat
    BY AheadIs
  <2>2. Ahead(S, x) = Ahead(S, y)
    BY <2>1
  <2> QED BY <2>2, AheadDiffers
<1>5. f \in Surjection(S, T)
  <2> HIDE DEF T, f
  <2>1. f \in Injection(S, T)
    BY <1>3, <1>4 DEF Injection, IsInjective
  <2> QED BY <1>2, <2>1, FS_Injection
<1>6. PICK x \in S : f[x] = n
  <2> HIDE DEF f
  <2> QED BY <1>5 DEF Surjection
<1>7. Ahead(S, x) + 1 = n /\ Ahead(S, x) \in Nat
  BY <1>6, AheadIs
<1>8. Ahead(S, x) = n - 1
  BY <1>7
<1> QED BY <1>8

\* findMany() returns the rows once each, from the newest on.
LEMMA SortedIs ==
  ASSUME NEW S, IsFiniteSet(S), Distinct(S)
  PROVE  /\ Sorted(S) \in Seq(S) /\ Len(Sorted(S)) = Cardinality(S)
         /\ Cardinality(S) \in Nat
         /\ \A i, j \in 1 .. Cardinality(S) : i < j => Newer(Sorted(S)[i], Sorted(S)[j])
         /\ \A x \in S : \E i \in 1 .. Cardinality(S) : Sorted(S)[i] = x
<1>1. PICK m \in Nat : m = Cardinality(S)
  BY FS_CardinalityType
<1>2. PICK s : s = Sorted(S)
  OBVIOUS
<1>3. ASSUME NEW n \in 1 .. m
      PROVE  s[n] \in S /\ Ahead(S, s[n]) = n - 1
  <2>1. s[n] = CHOOSE x \in S : Ahead(S, x) = n - 1
    BY <1>1, <1>2 DEF Sorted, Ahead
  <2>2. \E x \in S : Ahead(S, x) = n - 1
    BY <1>1, PlacesTaken
  <2> QED BY <2>1, <2>2
<1>4. s \in [1 .. m -> S]
  <2>1. s = [n \in 1 .. m |-> CHOOSE x \in S : Ahead(S, x) = n - 1]
    BY <1>1, <1>2, Zenon DEF Sorted, Ahead
  <2>2. \A n \in 1 .. m : (CHOOSE x \in S : Ahead(S, x) = n - 1) \in S
    BY <1>1, PlacesTaken
  <2> QED BY <2>1, <2>2
<1>5. s \in Seq(S) /\ Len(s) = m
  BY <1>4
<1>6. ASSUME NEW i \in 1 .. m, NEW j \in 1 .. m, i < j PROVE Newer(s[i], s[j])
  <2>1. s[i] \in S /\ s[j] \in S /\ Ahead(S, s[i]) = i - 1 /\ Ahead(S, s[j]) = j - 1
    BY <1>3
  <2>2. s[i] # s[j]
    BY <1>6, <2>1
  <2>3. ~Newer(s[j], s[i])
    <3>1. ~(Ahead(S, s[j]) < Ahead(S, s[i]))
      BY <1>6, <2>1
    <3> QED BY <2>1, <3>1, AheadGrows
  <2> QED BY <2>1, <2>2, <2>3, NewerIsTotal
<1>7. ASSUME NEW x \in S PROVE \E i \in 1 .. m : s[i] = x
  <2>1. PICK i \in 1 .. m : i = Ahead(S, x) + 1
    BY <1>1, AheadIs
  <2>2. s[i] \in S /\ Ahead(S, s[i]) = i - 1 /\ Ahead(S, x) \in Nat
    BY <1>3, AheadIs
  <2>3. Ahead(S, s[i]) = Ahead(S, x)
    BY <2>1, <2>2
  <2> QED BY <2>2, <2>3, AheadDiffers
<1> QED BY <1>1, <1>2, <1>5, <1>6, <1>7

-----------------------------------------------------------------------------
(* A page.                                                                 *)

Matching(w) == {x \in rows : Matches(x, w, cursor)}

PageOf(found, limit) == SubSeq(found, 1, IF Len(found) > limit THEN limit ELSE Len(found))

LEMMA FirstPart ==
  ASSUME NEW S, NEW s \in Seq(S), NEW n \in Nat, n <= Len(s)
  PROVE  /\ SubSeq(s, 1, n) \in Seq(S) /\ Len(SubSeq(s, 1, n)) = n
         /\ \A i \in 1 .. n : SubSeq(s, 1, n)[i] = s[i]
<1>1. PICK t : t = SubSeq(s, 1, n)
  OBVIOUS
<1>2. \A i \in 1 .. n : s[i] \in S
  OBVIOUS
<1>3. /\ t \in Seq(S) /\ Len(t) = IF 1 <= n THEN n - 1 + 1 ELSE 0
      /\ \A i \in 1 .. n - 1 + 1 : t[i] = s[1 + i - 1]
  <2>1. 1 \in Int /\ n \in Int
    OBVIOUS
  <2> QED BY <1>1, <1>2, <2>1, SubSeqProperties
<1>4. Len(t) = n
  BY <1>3
<1>5. \A i \in 1 .. n : t[i] = s[i]
  <2> SUFFICES ASSUME NEW i \in 1 .. n PROVE t[i] = s[i]
    OBVIOUS
  <2>1. i \in 1 .. n - 1 + 1 /\ 1 + i - 1 = i
    OBVIOUS
  <2> QED BY <1>3, <2>1
<1> QED BY <1>1, <1>3, <1>4, <1>5

\* What a page has of the rows that match: all of them, or the newest ones, and
\* then the cursor is that of its last.
LEMMA PageIs ==
  ASSUME TableInv, NEW w, NEW limit \in Nat \ {0}, NEW found, NEW page,
         found = Found(w, cursor, limit), page = PageOf(found, limit)
  PROVE  /\ page \in Seq(Matching(w)) /\ Len(found) \in Nat
         /\ \A i, j \in 1 .. Len(page) : i < j => Newer(page[i], page[j])
         /\ Len(found) > limit =>
              /\ Len(page) = limit /\ page[limit] = found[limit]
              /\ \A x \in Matching(w) : \/ \E i \in 1 .. Len(page) : page[i] = x
                                        \/ Newer(page[limit], x)
         /\ ~(Len(found) > limit) =>
              \A x \in Matching(w) : \E i \in 1 .. Len(page) : page[i] = x
<1> DEFINE S == Matching(w)
<1>1. IsFiniteSet(S) /\ Distinct(S)
  BY FS_Subset DEF TableInv, Distinct, Matching
<1>2. PICK s : s = Sorted(S)
  OBVIOUS
<1>3. PICK m \in Nat : m = Cardinality(S)
  BY <1>1, FS_CardinalityType
<1> HIDE DEF S
<1>4. /\ s \in Seq(S) /\ Len(s) = m
      /\ \A i, j \in 1 .. m : i < j => Newer(s[i], s[j])
      /\ \A x \in S : \E i \in 1 .. m : s[i] = x
  BY <1>1, <1>2, <1>3, SortedIs
<1>5. found = SubSeq(s, 1, IF Len(s) > limit THEN limit + 1 ELSE Len(s))
  BY <1>2 DEF Found, S, Matching
<1>6. CASE m > limit
  <2>1. found = SubSeq(s, 1, limit + 1) /\ limit + 1 \in Nat /\ limit + 1 <= Len(s)
    BY <1>4, <1>5, <1>6
  <2>2. /\ found \in Seq(S) /\ Len(found) = limit + 1
        /\ \A i \in 1 .. limit + 1 : found[i] = s[i]
    BY <1>4, <2>1, FirstPart
  <2>3. page = SubSeq(found, 1, limit) /\ limit \in Nat /\ limit <= Len(found)
    BY <2>2 DEF PageOf
  <2>4. /\ page \in Seq(S) /\ Len(page) = limit
        /\ \A i \in 1 .. limit : page[i] = found[i]
    BY <2>2, <2>3, FirstPart
  <2>5. \A i \in 1 .. limit : page[i] = s[i] /\ i \in 1 .. m
    BY <1>6, <2>2, <2>4
  <2>6. \A i, j \in 1 .. Len(page) : i < j => Newer(page[i], page[j])
    BY <1>4, <2>4, <2>5
  <2>7. \A x \in S : (\E i \in 1 .. Len(page) : page[i] = x) \/ Newer(page[limit], x)
    <3> SUFFICES ASSUME NEW x \in S, ~ \E i \in 1 .. limit : page[i] = x
                 PROVE  Newer(page[limit], x)
      BY <2>4
    <3>1. PICK i \in 1 .. m : s[i] = x
      BY <1>4
    <3>2. ~(i <= limit)
      BY <2>5, <3>1
    <3>3. limit \in 1 .. limit /\ limit \in 1 .. m /\ limit < i
      BY <1>6, <3>2
    <3>4. Newer(s[limit], s[i])
      BY <1>4, <3>3
    <3> QED BY <2>5, <3>1, <3>3, <3>4
  <2>8. Len(found) > limit /\ Len(found) \in Nat /\ page[limit] = found[limit]
    BY <2>2, <2>4
  <2> QED BY <2>4, <2>6, <2>7, <2>8 DEF S
<1>7. CASE ~(m > limit)
  <2>1. found = SubSeq(s, 1, m)
    BY <1>4, <1>5, <1>7
  <2>2. /\ found \in Seq(S) /\ Len(found) = m /\ \A i \in 1 .. m : found[i] = s[i]
    BY <1>4, <2>1, FirstPart
  <2>3. page = SubSeq(found, 1, m)
    BY <1>7, <2>2 DEF PageOf
  <2>4. /\ page \in Seq(S) /\ Len(page) = m /\ \A i \in 1 .. m : page[i] = found[i]
    BY <2>2, <2>3, FirstPart
  <2>5. \A i \in 1 .. m : page[i] = s[i]
    BY <2>2, <2>4
  <2>6. \A i, j \in 1 .. Len(page) : i < j => Newer(page[i], page[j])
    BY <1>4, <2>4, <2>5
  <2>7. \A x \in S : \E i \in 1 .. Len(page) : page[i] = x
    BY <1>4, <2>4, <2>5
  <2>8. ~(Len(found) > limit) /\ Len(found) \in Nat
    BY <1>7, <2>2
  <2> QED BY <2>4, <2>6, <2>7, <2>8 DEF S
<1> QED BY <1>6, <1>7

-----------------------------------------------------------------------------
(* Milliseconds.                                                           *)

LEMMA MillisecondIs ==
  ASSUME NEW at \in Nat
  PROVE  Millisecond(at) \in Nat /\ Millisecond(at) <= at
<1>1. PerMs \in Nat \ {0}
  BY HistoryAssumption
<1>2. at % PerMs \in 0 .. PerMs - 1
  BY <1>1
<1>3. at = (PerMs * (at \div PerMs)) + (at % PerMs) /\ at \div PerMs \in Nat
  BY <1>1
<1>4. PICK k \in Nat, r \in Nat : k = at \div PerMs /\ r = at % PerMs
  BY <1>1, <1>2, <1>3
<1>5. at = (PerMs * k) + r /\ PerMs * k \in Nat
  BY <1>1, <1>3, <1>4
<1>6. Millisecond(at) = at - r
  BY <1>4 DEF Millisecond
<1> QED BY <1>5, <1>6

\* Whatever is between a time and its cut has the same cut.
LEMMA SameMillisecond ==
  ASSUME NEW a \in Nat, NEW b \in Nat, Millisecond(a) <= b, b <= a
  PROVE  Millisecond(a) = Millisecond(b)
<1>1. PICK P \in Nat \ {0} : P = PerMs
  BY HistoryAssumption
<1>2. PICK k \in Nat, l \in Nat : k = a \div P /\ l = b \div P
  OBVIOUS
<1>3. a = (P * k) + (a % P) /\ b = (P * l) + (b % P)
  BY <1>2
<1>4. PICK r \in 0 .. P - 1, s \in 0 .. P - 1 : r = a % P /\ s = b % P
  OBVIOUS
<1>5. Millisecond(a) = a - r /\ Millisecond(b) = b - s
  BY <1>1, <1>4 DEF Millisecond
<1>6. P * k <= (P * l) + s /\ (P * l) + s <= (P * k) + r
  BY <1>3, <1>4, <1>5
<1>7. k = l
  <2>1. k < l => (P * k) + P <= P * l
    BY <1>2
  <2>2. l < k => (P * l) + P <= P * k
    BY <1>2
  <2> QED BY <1>2, <1>4, <1>6, <2>1, <2>2
<1> QED BY <1>3, <1>4, <1>5, <1>7

\* What comes past a cursor comes after the row that it was made from.
LEMMA PastIsNewer ==
  ASSUME NEW e \in Row, NEW x \in Row, Past(x, [at |-> Millisecond(e.at), id |-> e.id])
  PROVE  Newer(e, x)
<1>1. e.at \in Nat /\ e.id \in Nat /\ x.at \in Nat /\ x.id \in Nat
  BY RowIs
<1>2. Millisecond(e.at) \in Nat /\ Millisecond(e.at) <= e.at
  BY <1>1, MillisecondIs
<1> QED BY <1>1, <1>2 DEF Past, Newer

\* What comes after a row comes past the cursor or is cut off by it.
LEMMA PastOrCut ==
  ASSUME NEW e \in Row, NEW x \in Row, Newer(e, x),
         ~Past(x, [at |-> Millisecond(e.at), id |-> e.id])
  PROVE  Millisecond(e.at) = Millisecond(x.at) /\ e.at # Millisecond(e.at)
<1>1. e.at \in Nat /\ e.id \in Nat /\ x.at \in Nat /\ x.id \in Nat
  BY RowIs
<1>2. Millisecond(e.at) \in Nat /\ Millisecond(e.at) <= e.at
  BY <1>1, MillisecondIs
<1>3. Millisecond(e.at) <= x.at /\ x.at <= e.at /\ e.at # Millisecond(e.at)
  BY <1>1, <1>2 DEF Past, Newer
<1> QED BY <1>1, <1>3, SameMillisecond

-----------------------------------------------------------------------------
(* A request.                                                              *)

\* What a traversal of wallet w has returned when its next page is asked for.
Returned(w) ==
  /\ items \in Seq(rows)
  /\ \A i \in DOMAIN items : Involves(items[i], w)
  /\ \A i, j \in DOMAIN items : i < j => Newer(items[i], items[j])
  /\ cursor = Null => items = <<>>
  /\ cursor # Null => /\ items # <<>> /\ Last \in ends
                      /\ cursor = [at |-> Millisecond(Last.at), id |-> Last.id]

\* The rows that are found come after all that were returned.
LEMMA FoundIsNewer ==
  ASSUME TableInv, NEW w, Returned(w), NEW x \in Matching(w), NEW i \in DOMAIN items
  PROVE  Newer(items[i], x)
<1>1. /\ DOMAIN items = 1 .. Len(items) /\ Len(items) \in Nat
      /\ \A j \in DOMAIN items : items[j] \in Row
  BY DEF Returned, TableInv, Distinct
<1>2. cursor # Null /\ Len(items) \in DOMAIN items /\ i <= Len(items)
  BY <1>1 DEF Returned
<1>3. PICK e \in Row : e = Last
  BY <1>1, <1>2 DEF Last
<1>4. x \in Row /\ Past(x, [at |-> Millisecond(e.at), id |-> e.id])
  BY <1>2, <1>3 DEF Matching, Matches, Returned, TableInv, Distinct
<1>5. Newer(e, x)
  BY <1>4, PastIsNewer
<1>6. CASE i = Len(items)
  BY <1>3, <1>5, <1>6 DEF Last
<1>7. CASE i < Len(items)
  <2>1. Newer(items[i], e)
    BY <1>2, <1>3, <1>7 DEF Returned, Last
  <2> QED BY <1>1, <1>4, <1>5, <2>1, NewerIsTransitive
<1> QED BY <1>1, <1>2, <1>6, <1>7

\* The items after a request: the earlier ones and the page.
LEMMA ItemsAre ==
  ASSUME TableInv, NEW w, Returned(w), NEW page \in Seq(rows),
         items' = items \o page
  PROVE  /\ items' \in Seq(rows) /\ Len(items') = Len(items) + Len(page)
         /\ Len(items) \in Nat /\ Len(page) \in Nat
         /\ DOMAIN items = 1 .. Len(items) /\ DOMAIN items' = 1 .. Len(items')
         /\ \A i \in 1 .. Len(items) : items'[i] = items[i]
         /\ \A i \in 1 .. Len(page) : items'[Len(items) + i] = page[i]
<1>1. items \in Seq(rows) /\ page \in Seq(rows)
  BY DEF Returned
<1>2. /\ items' \in Seq(rows) /\ Len(items') = Len(items) + Len(page)
      /\ \A i \in 1 .. Len(items) + Len(page) :
           items'[i] = IF i <= Len(items) THEN items[i] ELSE page[i - Len(items)]
  BY <1>1, ConcatProperties
<1>3. PICK k \in Nat, l \in Nat : k = Len(items) /\ l = Len(page)
  BY <1>1
<1>4. \A i \in 1 .. k : items'[i] = items[i]
  BY <1>2, <1>3
<1>5. \A i \in 1 .. l : items'[k + i] = page[i]
  <2> SUFFICES ASSUME NEW i \in 1 .. l PROVE items'[k + i] = page[i]
    OBVIOUS
  <2>1. k + i \in 1 .. k + l /\ ~(k + i <= k) /\ (k + i) - k = i
    OBVIOUS
  <2> QED BY <1>2, <1>3, <2>1
<1> QED BY <1>1, <1>2, <1>3, <1>4, <1>5

\* One page more is in order.
LEMMA PageInOrder ==
  ASSUME TableInv, NEW w, Returned(w), NEW page \in Seq(Matching(w)),
         \A i, j \in 1 .. Len(page) : i < j => Newer(page[i], page[j]),
         items' = items \o page
  PROVE  /\ \A i \in DOMAIN items' : Involves(items'[i], w)
         /\ \A i, j \in DOMAIN items' : i < j => Newer(items'[i], items'[j])
<1>1. page \in Seq(rows) /\ \A i \in 1 .. Len(page) : page[i] \in Matching(w)
  BY DEF Matching
<1>2. PICK k \in Nat, l \in Nat : k = Len(items) /\ l = Len(page)
  BY <1>1 DEF Returned
<1>3. /\ DOMAIN items' = 1 .. k + l /\ DOMAIN items = 1 .. k
      /\ \A i \in 1 .. k : items'[i] = items[i]
      /\ \A i \in 1 .. l : items'[k + i] = page[i]
  BY <1>1, <1>2, ItemsAre
<1>4. \A i \in 1 .. k + l : i \in 1 .. k \/ \E n \in 1 .. l : i = k + n
  <2> SUFFICES ASSUME NEW i \in 1 .. k + l, i \notin 1 .. k
               PROVE  \E n \in 1 .. l : i = k + n
    OBVIOUS
  <2>1. i - k \in 1 .. l /\ i = k + (i - k)
    OBVIOUS
  <2> QED BY <2>1
<1>5. \A i \in DOMAIN items' : Involves(items'[i], w)
  <2> SUFFICES ASSUME NEW i \in 1 .. k + l PROVE Involves(items'[i], w)
    BY <1>3
  <2>1. CASE i \in 1 .. k
    BY <1>3, <2>1 DEF Returned
  <2>2. CASE i \notin 1 .. k
    <3>1. PICK n \in 1 .. l : i = k + n
      BY <1>4, <2>2
    <3> QED BY <1>1, <1>2, <1>3, <3>1 DEF Matching, Matches
  <2> QED BY <2>1, <2>2
<1>6. ASSUME NEW i \in 1 .. k + l, NEW j \in 1 .. k + l, i < j
      PROVE  Newer(items'[i], items'[j])
  <2>1. CASE j \in 1 .. k
    <3>1. i \in 1 .. k
      BY <1>6, <2>1
    <3> QED BY <1>3, <1>6, <2>1, <3>1 DEF Returned
  <2>2. CASE j \notin 1 .. k
    <3>1. PICK n \in 1 .. l : j = k + n
      BY <1>4, <2>2
    <3>2. CASE i \in 1 .. k
      <4>1. items'[i] = items[i] /\ items'[j] = page[n] /\ page[n] \in Matching(w)
        BY <1>1, <1>2, <1>3, <3>1, <3>2
      <4> QED BY <1>3, <3>2, <4>1, FoundIsNewer
    <3>3. CASE i \notin 1 .. k
      <4>1. PICK h \in 1 .. l : i = k + h
        BY <1>4, <3>3
      <4>2. h < n
        BY <1>6, <3>1, <4>1
      <4> QED BY <1>2, <1>3, <3>1, <4>1, <4>2
    <3> QED BY <3>2, <3>3
  <2> QED BY <2>1, <2>2
<1> QED BY <1>3, <1>5, <1>6

\* What is left for the next page.
LEMMA PageLeaves ==
  ASSUME TableInv, NEW w, Returned(w), NEW limit \in Nat \ {0}, listHistory(w, limit),
         UNCHANGED rows
  PROVE  /\ items' \in Seq(rows') /\ ends \subseteq ends'
         /\ \A i \in DOMAIN items' : Involves(items'[i], w)
         /\ \A i, j \in DOMAIN items' : i < j => Newer(items'[i], items'[j])
         /\ hasMore' \in BOOLEAN
         /\ ~hasMore' => cursor' = Null
         /\ hasMore' => /\ items' # <<>> /\ Last' \in ends'
                        /\ cursor' = [at |-> Millisecond(Last'.at), id |-> Last'.id]
         /\ \A i \in DOMAIN items : \E j \in DOMAIN items' : items'[j] = items[i]
         /\ \A x \in Matching(w) : \/ \E j \in DOMAIN items' : items'[j] = x
                                   \/ hasMore' /\ Newer(Last', x)
<1>1. PICK found : found = Found(w, cursor, limit)
  OBVIOUS
<1>2. PICK page : page = PageOf(found, limit)
  OBVIOUS
<1>3. /\ items' = items \o page
      /\ ends' = IF page = <<>> THEN ends ELSE ends \cup {page[Len(page)]}
      /\ hasMore' = (Len(found) > limit)
      /\ cursor' = IF Len(found) > limit THEN CursorOf(found, limit) ELSE Null
  BY <1>1, <1>2 DEF listHistory, PageOf
<1>4. /\ page \in Seq(Matching(w)) /\ Len(found) \in Nat
      /\ \A i, j \in 1 .. Len(page) : i < j => Newer(page[i], page[j])
      /\ Len(found) > limit =>
           /\ Len(page) = limit /\ page[limit] = found[limit]
           /\ \A x \in Matching(w) : \/ \E i \in 1 .. Len(page) : page[i] = x
                                     \/ Newer(page[limit], x)
      /\ ~(Len(found) > limit) =>
           \A x \in Matching(w) : \E i \in 1 .. Len(page) : page[i] = x
  BY <1>1, <1>2, PageIs
<1>5. page \in Seq(rows)
  BY <1>4 DEF Matching
<1>6. PICK k \in Nat, l \in Nat : k = Len(items) /\ l = Len(page)
  BY <1>5 DEF Returned
<1>7. /\ items' \in Seq(rows) /\ Len(items') = k + l
      /\ DOMAIN items = 1 .. k /\ DOMAIN items' = 1 .. k + l
      /\ \A i \in 1 .. k : items'[i] = items[i]
      /\ \A i \in 1 .. l : items'[k + i] = page[i]
  BY <1>3, <1>5, <1>6, ItemsAre
<1>8. /\ \A i \in DOMAIN items' : Involves(items'[i], w)
      /\ \A i, j \in DOMAIN items' : i < j => Newer(items'[i], items'[j])
  BY <1>3, <1>4, PageInOrder
<1>9. \A i \in DOMAIN items : \E j \in DOMAIN items' : items'[j] = items[i]
  <2> SUFFICES ASSUME NEW i \in 1 .. k PROVE \E j \in 1 .. k + l : items'[j] = items[i]
    BY <1>7
  <2>1. i \in 1 .. k + l
    OBVIOUS
  <2> QED BY <1>7, <2>1
<1>10. \A i \in 1 .. l : \E j \in DOMAIN items' : items'[j] = page[i]
  <2> SUFFICES ASSUME NEW i \in 1 .. l PROVE \E j \in 1 .. k + l : items'[j] = page[i]
    BY <1>7
  <2>1. k + i \in 1 .. k + l
    OBVIOUS
  <2> QED BY <1>7, <2>1
<1>11. CASE Len(found) > limit
  <2>1. l = limit /\ limit \in 1 .. l /\ page[limit] = found[limit]
    BY <1>4, <1>6, <1>11
  <2>2. Last' = page[limit]
    <3>1. Last' = items'[Len(items')]
      BY DEF Last
    <3>2. Last' = items'[k + limit]
      BY <1>7, <2>1, <3>1, Zenon
    <3> QED BY <1>7, <2>1, <3>2
  <2>3. items' # <<>>
    BY <1>7, <2>1
  <2>4. page # <<>> /\ page[Len(page)] = page[limit]
    BY <1>5, <1>6, <2>1
  <2>5. Last' \in ends' /\ ends \subseteq ends'
    BY <1>3, <2>2, <2>4
  <2>6. cursor' = [at |-> Millisecond(Last'.at), id |-> Last'.id]
    BY <1>3, <1>11, <2>1, <2>2 DEF CursorOf
  <2>7. \A x \in Matching(w) : (\E j \in DOMAIN items' : items'[j] = x) \/ Newer(Last', x)
    BY <1>4, <1>6, <1>10, <1>11, <2>2
  <2> QED BY <1>3, <1>7, <1>8, <1>9, <1>11, <2>3, <2>5, <2>6, <2>7
<1>12. CASE ~(Len(found) > limit)
  <2>1. \A x \in Matching(w) : \E j \in DOMAIN items' : items'[j] = x
    BY <1>4, <1>6, <1>10, <1>12
  <2>2. cursor' = Null /\ rows' = rows
    BY <1>3, <1>12
  <2>3. ends \subseteq ends'
    BY <1>3
  <2>4. ~hasMore' /\ hasMore' \in BOOLEAN
    <3>1. (Len(found) > limit) = FALSE
      BY <1>4, <1>12
    <3>2. hasMore' = FALSE
      BY <1>3, <3>1, Zenon
    <3> QED BY <3>2
  <2> QED BY <1>7, <1>8, <1>9, <2>1, <2>2, <2>3, <2>4
<1> QED BY <1>11, <1>12

-----------------------------------------------------------------------------
(* The invariant.                                                          *)

LEMMA TableStep ==
  ASSUME TableInv, [Next]_vars
  PROVE  TableInv' /\ rows \subseteq rows'
<1>1. CASE UNCHANGED table
  BY <1>1 DEF table, TableInv, Distinct
<1>2. CASE Tick
  BY <1>2 DEF Tick, TableInv, Distinct
<1>3. ASSUME NEW id \in Ids, BeginInsert(id) PROVE TableInv' /\ rows \subseteq rows'
  <2>1. PICK p \in Parties, at \in 0 .. clock :
          open' = open \cup {[at |-> at, id |-> id, parties |-> p]}
    BY <1>3 DEF BeginInsert
  <2>2. PICK x : x = [at |-> at, id |-> id, parties |-> p]
    OBVIOUS
  <2>3. at \in Nat /\ id \in Nat /\ p \in Wallets \X Wallets
    BY HistoryAssumption DEF TableInv
  <2>4. x \in Row /\ x.id = id
    BY <2>2, <2>3 DEF Row
  <2>5. rows' \cup open' = (rows \cup open) \cup {x} /\ rows' = rows /\ clock' = clock
    BY <1>3, <2>1, <2>2 DEF BeginInsert
  <2>6. \A y \in rows \cup open : y.id # x.id
    BY <1>3, <2>4 DEF BeginInsert
  <2>7. Distinct((rows \cup open) \cup {x})
    BY <2>4, <2>6 DEF TableInv, Distinct
  <2> QED BY <2>5, <2>7 DEF TableInv
<1>4. ASSUME NEW x \in open, Commit(x) \/ Abort(x) PROVE TableInv' /\ rows \subseteq rows'
  <2>1. /\ rows' \cup open' \subseteq rows \cup open /\ clock' = clock
        /\ rows' = rows \cup {x} \/ rows' = rows
    BY <1>4 DEF Commit, Abort
  <2>2. IsFiniteSet(rows')
    BY <2>1, FS_AddElement DEF TableInv
  <2>3. Distinct(rows' \cup open')
    BY <2>1 DEF TableInv, Distinct
  <2> QED BY <2>1, <2>2, <2>3 DEF TableInv
<1>5. ASSUME NEW limit \in 0 .. MaxLimit + 1,
             NextPage(limit) \/ \E w \in Wallets : FirstPage(w, limit)
      PROVE  UNCHANGED table
  BY <1>5 DEF NextPage, FirstPage, table
<1> QED BY <1>1, <1>2, <1>3, <1>4, <1>5 DEF Next, vars

\* While the table changes a traversal keeps what it has.
LEMMA PagesSame ==
  ASSUME ReaderInv, PagesInOrder, NothingSkipped, rows \subseteq rows', UNCHANGED pages
  PROVE  ReaderInv' /\ PagesInOrder' /\ NothingSkipped'
<1>1. UNCHANGED <<wallet, items, ends, cursor, hasMore, present>>
  BY DEF pages
<1>2. items' \in Seq(rows')
  BY <1>1 DEF ReaderInv
<1>3. ReaderInv'
  BY <1>1, <1>2 DEF ReaderInv, Last, Involves, Millisecond
<1>4. PagesInOrder'
  BY <1>1 DEF PagesInOrder, Involves, Newer
<1>5. NothingSkipped'
  BY <1>1 DEF NothingSkipped, Cut, Newer, Millisecond
<1> QED BY <1>3, <1>4, <1>5

\* A row that was to come is on the page, still to come, or cut off.
LEMMA PageSkipsNothing ==
  ASSUME TableInv, NEW w, Returned(w), NEW limit \in Nat \ {0}, listHistory(w, limit),
         UNCHANGED rows, NEW x \in rows, Involves(x, w),
         \/ \E i \in DOMAIN items : items[i] = x
         \/ Cut(x)
         \/ cursor = Null
         \/ cursor # Null /\ Newer(Last, x)
  PROVE  \/ \E j \in DOMAIN items' : items'[j] = x
         \/ Cut(x)'
         \/ hasMore' /\ Newer(Last', x)
<1>1. /\ ends \subseteq ends'
      /\ \A i \in DOMAIN items : \E j \in DOMAIN items' : items'[j] = items[i]
      /\ \A y \in Matching(w) : \/ \E j \in DOMAIN items' : items'[j] = y
                                \/ hasMore' /\ Newer(Last', y)
  BY PageLeaves
<1>2. CASE \E i \in DOMAIN items : items[i] = x
  BY <1>1, <1>2
<1>3. Cut(x) => Cut(x)'
  BY <1>1 DEF Cut, Newer, Millisecond
<1>4. CASE x \in Matching(w)
  BY <1>1, <1>4
<1>5. CASE cursor # Null /\ Newer(Last, x) /\ x \notin Matching(w)
  <2>1. /\ Last \in ends /\ cursor = [at |-> Millisecond(Last.at), id |-> Last.id]
        /\ items # <<>> /\ items \in Seq(rows)
    BY <1>5 DEF Returned
  <2>2. PICK e : e = Last
    OBVIOUS
  <2>3. e \in Row /\ x \in Row
    <3>1. Last \in rows
      BY <2>1 DEF Last
    <3> QED BY <2>2, <3>1 DEF TableInv, Distinct
  <2>4. ~Past(x, [at |-> Millisecond(e.at), id |-> e.id])
    BY <1>5, <2>1, <2>2 DEF Matching, Matches
  <2>5. Millisecond(e.at) = Millisecond(x.at) /\ e.at # Millisecond(e.at)
    BY <1>5, <2>2, <2>3, <2>4, PastOrCut
  <2>6. Cut(x)
    BY <1>5, <2>1, <2>2, <2>5 DEF Cut
  <2> QED BY <1>3, <2>6
<1>6. cursor = Null => x \in Matching(w)
  BY DEF Matching, Matches
<1> QED BY <1>2, <1>3, <1>4, <1>5, <1>6

LEMMA FirstPageStep ==
  ASSUME HistoryInv, NEW w \in Wallets, NEW limit, FirstPage(w, limit)
  PROVE  ReaderInv' /\ PagesInOrder' /\ NothingSkipped'
<1>0. /\ TableInv /\ wallet = Null /\ wallet' = w /\ limit \in Nat \ {0}
      /\ present' = {x \in rows : Involves(x, w)} /\ listHistory(w, limit)
      /\ UNCHANGED rows
  BY HistoryAssumption DEF HistoryInv, FirstPage, table
<1>1. items = <<>> /\ cursor = Null /\ items \in Seq(rows)
  BY <1>0 DEF HistoryInv, ReaderInv
<1>2. Returned(w)
  BY <1>1 DEF Returned
<1>3. /\ items' \in Seq(rows')
      /\ \A i \in DOMAIN items' : Involves(items'[i], w)
      /\ \A i, j \in DOMAIN items' : i < j => Newer(items'[i], items'[j])
      /\ hasMore' \in BOOLEAN /\ (~hasMore' => cursor' = Null)
      /\ hasMore' => /\ items' # <<>> /\ Last' \in ends'
                     /\ cursor' = [at |-> Millisecond(Last'.at), id |-> Last'.id]
  BY <1>0, <1>2, PageLeaves
<1>4. PagesInOrder'
  BY <1>0, <1>3 DEF PagesInOrder, Involves, Newer
<1>5. ReaderInv'
  <2>1. wallet' # Null /\ wallet' \in Wallets
    BY <1>0, HistoryAssumption
  <2>2. present' \subseteq rows' /\ \A x \in present' : Involves(x, wallet')
    BY <1>0
  <2> QED BY <1>3, <2>1, <2>2 DEF ReaderInv, Last, Millisecond, Involves
<1>6. NothingSkipped'
  <2>1. \A x \in present' : \/ \E j \in DOMAIN items' : items'[j] = x
                            \/ Cut(x)'
                            \/ hasMore' /\ Newer(Last', x)
    BY <1>0, <1>1, <1>2, PageSkipsNothing
  <2> QED BY <2>1 DEF NothingSkipped, Cut, Newer, Millisecond, Last
<1> QED BY <1>4, <1>5, <1>6

LEMMA NextPageStep ==
  ASSUME HistoryInv, NEW limit, NextPage(limit)
  PROVE  ReaderInv' /\ PagesInOrder' /\ NothingSkipped'
<1>0. /\ TableInv /\ hasMore /\ wallet' = wallet /\ limit \in Nat \ {0}
      /\ present' = present /\ listHistory(wallet, limit) /\ UNCHANGED rows
  BY HistoryAssumption DEF HistoryInv, NextPage, table
<1>1. /\ items \in Seq(rows) /\ items # <<>> /\ Last \in ends /\ wallet \in Wallets
      /\ wallet # Null /\ present \subseteq rows
      /\ \A x \in present : Involves(x, wallet)
      /\ cursor = [at |-> Millisecond(Last.at), id |-> Last.id]
  BY <1>0 DEF HistoryInv, ReaderInv
<1>2. cursor # Null
  <2>1. PICK e : e = Last
    OBVIOUS
  <2>2. Last \in rows
    BY <1>1 DEF Last
  <2>3. e \in Row
    BY <1>0, <2>1, <2>2 DEF TableInv, Distinct
  <2>4. Millisecond(e.at) \in Nat /\ e.id \in Nat
    BY <2>3, RowIs, MillisecondIs
  <2>5. [at |-> Millisecond(e.at), id |-> e.id] \in [at : Nat, id : Nat]
    BY <2>4
  <2> QED BY <1>1, <2>1, <2>5, HistoryAssumption
<1>3. Returned(wallet)
  BY <1>1, <1>2 DEF Returned, HistoryInv, PagesInOrder
<1>4. /\ items' \in Seq(rows')
      /\ \A i \in DOMAIN items' : Involves(items'[i], wallet)
      /\ \A i, j \in DOMAIN items' : i < j => Newer(items'[i], items'[j])
      /\ hasMore' \in BOOLEAN /\ (~hasMore' => cursor' = Null)
      /\ hasMore' => /\ items' # <<>> /\ Last' \in ends'
                     /\ cursor' = [at |-> Millisecond(Last'.at), id |-> Last'.id]
  BY <1>0, <1>3, PageLeaves
<1>5. PagesInOrder'
  BY <1>0, <1>4 DEF PagesInOrder, Involves, Newer
<1>6. ReaderInv'
  BY <1>0, <1>1, <1>4 DEF ReaderInv, Last, Millisecond, Involves
<1>7. NothingSkipped'
  <2>1. \A x \in present : \/ \E j \in DOMAIN items' : items'[j] = x
                           \/ Cut(x)'
                           \/ hasMore' /\ Newer(Last', x)
    <3> SUFFICES ASSUME NEW x \in present
                 PROVE  \/ \E j \in DOMAIN items' : items'[j] = x
                        \/ Cut(x)'
                        \/ hasMore' /\ Newer(Last', x)
      OBVIOUS
    <3>1. x \in rows /\ Involves(x, wallet)
      BY <1>1
    <3>2. \/ \E i \in DOMAIN items : items[i] = x
          \/ Cut(x)
          \/ cursor # Null /\ Newer(Last, x)
      BY <1>2 DEF HistoryInv, NothingSkipped, Last
    <3> QED BY <1>0, <1>3, <3>1, <3>2, PageSkipsNothing
  <2> QED BY <1>0, <2>1 DEF NothingSkipped, Cut, Newer, Millisecond, Last
<1> QED BY <1>5, <1>6, <1>7

LEMMA HistoryStep ==
  ASSUME HistoryInv, [Next]_vars
  PROVE  HistoryInv'
<1>1. TableInv' /\ rows \subseteq rows'
  BY TableStep DEF HistoryInv
<1>2. CASE UNCHANGED pages
  BY <1>1, <1>2, PagesSame DEF HistoryInv
<1>3. ASSUME NEW w \in Wallets, NEW limit, FirstPage(w, limit) PROVE HistoryInv'
  BY <1>1, <1>3, FirstPageStep DEF HistoryInv
<1>4. ASSUME NEW limit, NextPage(limit) PROVE HistoryInv'
  BY <1>1, <1>4, NextPageStep DEF HistoryInv
<1>5. \/ UNCHANGED pages
      \/ \E limit : NextPage(limit) \/ \E w \in Wallets : FirstPage(w, limit)
  BY DEF Next, vars, Tick, BeginInsert, Commit, Abort
<1> QED BY <1>2, <1>3, <1>4, <1>5

LEMMA HistoryInit == Init => HistoryInv
<1> SUFFICES ASSUME Init PROVE HistoryInv
  OBVIOUS
<1>1. TableInv
  BY FS_EmptySet DEF Init, TableInv, Distinct
<1>2. items = <<>> /\ <<>> \in Seq(rows) /\ DOMAIN items = {}
  BY DEF Init
<1>3. ReaderInv /\ PagesInOrder /\ NothingSkipped
  BY <1>2 DEF Init, ReaderInv, PagesInOrder, NothingSkipped
<1> QED BY <1>1, <1>3 DEF HistoryInv

\* The pages of a traversal list rows of the wallet only, newest first and none
\* of them twice, whatever is committed between two pages.
THEOREM PagesAreInOrder == Spec => []PagesInOrder
<1>1. HistoryInv => PagesInOrder
  BY DEF HistoryInv
<1> QED BY <1>1, HistoryInit, HistoryStep, PTL DEF Spec

\* Every row that was there when a traversal began is shown or still to come,
\* but for rows that share a cut millisecond with the last row of a page.
THEOREM NothingIsSkipped == Spec => []NothingSkipped
<1>1. HistoryInv => NothingSkipped
  BY DEF HistoryInv
<1> QED BY <1>1, HistoryInit, HistoryStep, PTL DEF Spec
=============================================================================
