----------------------------- MODULE SumTheorems -----------------------------
(***************************************************************************)
(* Sums over finite sets, as the books, the history and the counters of    *)
(* attempts are added up.  SumFunctionOnSet is a fold that takes out one   *)
(* chosen element after the other; these lemmas say that the choice does   *)
(* not matter.  Induction over finite sets is a minimal counterexample     *)
(* each time.                                                              *)
(***************************************************************************)
EXTENDS Functions, FiniteSets, FiniteSetTheorems, WellFoundedInduction, TLAPS

-----------------------------------------------------------------------------
(* Minimal elements.                                                       *)

\* A set of subsets of a finite set has a member that contains no other one.
LEMMA MinimalSubset ==
  ASSUME NEW S, IsFiniteSet(S), NEW C, C \subseteq SUBSET S, C # {}
  PROVE  \E T \in C : \A U \in C : U \subseteq T => U = T
<1>1. C \subseteq FiniteSubsetsOf(S)
  BY FS_FiniteSubsetsOfFinite
<1>2. IsWellFoundedOn(StrictSubsetOrdering(S), FiniteSubsetsOf(S))
  BY FS_StrictSubsetOrderingWellFounded
<1>3. PICK T \in C : \A U \in C : ~(<<U, T>> \in StrictSubsetOrdering(S))
  BY <1>1, <1>2, WFMin, Zenon
<1> QED
  BY <1>3 DEF StrictSubsetOrdering

\* A set of natural numbers has a least element.
LEMMA LeastNumber ==
  ASSUME NEW S, S \subseteq Nat, S # {}
  PROVE  \E m \in S : \A n \in S : m <= n
<1>1. PICK R : IsWellFoundedOn(R, Nat)
               /\ \A i, j \in Nat : i < j => <<i, j>> \in R
  <2>1. \A i, j \in Nat : i < j => <<i, j>> \in OpToRel(<, Nat)
    BY DEF OpToRel
  <2> QED
    BY <2>1, NatLessThanWellFounded
<1>2. \A T : T \subseteq Nat /\ T # {} =>
        \E x \in T : \A y \in T : ~(<<y, x>> \in R)
  <2>1. IsWellFoundedOn(R, Nat)
    BY <1>1
  <2> QED
    BY <2>1, WFMin, Zenon
<1>3. PICK m \in S : \A n \in S : ~(<<n, m>> \in R)
  BY <1>2
<1>4. ASSUME NEW n \in S PROVE m <= n
  <2>1. ~(n < m)
    BY <1>1, <1>3, Zenon
  <2> QED
    BY <2>1
<1> QED
  BY <1>4

-----------------------------------------------------------------------------
(* The fold is what its recursive equation says.                           *)

First(s) == CHOOSE x \in s : TRUE
Rest(s)  == s \ {First(s)}

Fold(f, S) ==
  CHOOSE g : g = [s \in SUBSET S |->
                    IF s = {} THEN 0 ELSE f[First(s)] + g[Rest(s)]]

LEMMA SumIsFold ==
  ASSUME NEW f, NEW S
  PROVE  SumFunctionOnSet(f, S) = Fold(f, S)[S]
BY DEF SumFunctionOnSet, FoldFunctionOnSet, MapThenFoldSet, Fold, First, Rest

LEMMA RestSmaller ==
  ASSUME NEW s, s # {}
  PROVE  First(s) \in s /\ Rest(s) \subseteq s /\ Rest(s) # s
BY DEF First, Rest

\* A piece of the recursion.
Partial(f, g) ==
  /\ {} \in DOMAIN g => g[{}] = 0
  /\ \A s \in DOMAIN g : s # {} =>
       Rest(s) \in DOMAIN g /\ g[s] = f[First(s)] + g[Rest(s)]

LEMMA PartialsAgree ==
  ASSUME NEW S, IsFiniteSet(S), NEW f, NEW g, NEW h,
         Partial(f, g), Partial(f, h),
         NEW s \in SUBSET S, s \in DOMAIN g, s \in DOMAIN h
  PROVE  g[s] = h[s]
<1> DEFINE C == {t \in SUBSET S : /\ t \in DOMAIN g /\ t \in DOMAIN h
                                  /\ g[t] # h[t]}
<1> SUFFICES ASSUME C # {} PROVE FALSE
  OBVIOUS
<1>1. PICK t \in C : \A u \in C : u \subseteq t => u = t
  <2>1. C \subseteq SUBSET S
    OBVIOUS
  <2> HIDE DEF C
  <2> QED
    BY <2>1, MinimalSubset
<1>2. t # {}
  BY DEF Partial
<1>3. /\ Rest(t) \in DOMAIN g /\ Rest(t) \in DOMAIN h
      /\ g[t] = f[First(t)] + g[Rest(t)] /\ h[t] = f[First(t)] + h[Rest(t)]
  BY <1>2 DEF Partial
<1>4. Rest(t) \subseteq t /\ Rest(t) # t
  BY <1>2, RestSmaller
<1>5. Rest(t) \notin C
  BY <1>1, <1>4
<1>6. Rest(t) \in SUBSET S
  BY <1>4
<1>7. g[Rest(t)] = h[Rest(t)]
  BY <1>3, <1>5, <1>6
<1> QED
  BY <1>3, <1>7

LEMMA PartialExists ==
  ASSUME NEW S, IsFiniteSet(S), NEW f, NEW s \in SUBSET S
  PROVE  \E g : Partial(f, g) /\ s \in DOMAIN g
<1> DEFINE C == {t \in SUBSET S : ~ \E g : Partial(f, g) /\ t \in DOMAIN g}
<1> SUFFICES ASSUME C # {} PROVE FALSE
  OBVIOUS
<1>1. PICK t \in C : \A u \in C : u \subseteq t => u = t
  <2>1. C \subseteq SUBSET S
    OBVIOUS
  <2> HIDE DEF C
  <2> QED
    BY <2>1, MinimalSubset
<1>2. CASE t = {}
  <2> DEFINE g == [u \in {{}} |-> 0]
  <2>1. Partial(f, g) /\ t \in DOMAIN g
    BY <1>2 DEF Partial
  <2> QED
    BY <2>1
<1>3. CASE t # {}
  <2>1. Rest(t) \subseteq t /\ Rest(t) # t
    BY <1>3, RestSmaller
  <2>2. PICK h : Partial(f, h) /\ Rest(t) \in DOMAIN h
    BY <1>1, <2>1
  <2>3. t \notin DOMAIN h
    BY <2>2
  <2> DEFINE g == [u \in DOMAIN h \cup {t} |->
                     IF u = t THEN f[First(t)] + h[Rest(t)] ELSE h[u]]
  <2>4. DOMAIN g = DOMAIN h \cup {t}
    OBVIOUS
  <2>5. g[t] = f[First(t)] + g[Rest(t)]
    BY <2>1, <2>2
  <2>6. {} \in DOMAIN g => g[{}] = 0
    BY <1>3, <2>2 DEF Partial
  <2>7. ASSUME NEW u \in DOMAIN h, u # {}
        PROVE  Rest(u) \in DOMAIN g /\ g[u] = f[First(u)] + g[Rest(u)]
    <3>1. Rest(u) \in DOMAIN h /\ h[u] = f[First(u)] + h[Rest(u)]
      BY <2>2, <2>7 DEF Partial
    <3>2. u # t /\ Rest(u) # t
      BY <2>3, <3>1
    <3> QED
      BY <3>1, <3>2
  <2>8. Partial(f, g)
    <3> HIDE DEF g
    <3> QED
      BY <2>2, <2>4, <2>5, <2>6, <2>7 DEF Partial
  <2> QED
    BY <2>4, <2>8
<1> QED
  BY <1>2, <1>3

\* The recursive equation has a solution, so the fold is one.
LEMMA FoldPartial ==
  ASSUME NEW S, IsFiniteSet(S), NEW f
  PROVE  Partial(f, Fold(f, S)) /\ DOMAIN Fold(f, S) = SUBSET S
<1> DEFINE part(s) == CHOOSE g : Partial(f, g) /\ s \in DOMAIN g
           F == [s \in SUBSET S |-> part(s)[s]]
           Solves(g) == g = [s \in SUBSET S |->
                               IF s = {} THEN 0 ELSE f[First(s)] + g[Rest(s)]]
<1>1. \A s \in SUBSET S : Partial(f, part(s)) /\ s \in DOMAIN part(s)
  BY PartialExists
<1> HIDE DEF part
<1>2. ASSUME NEW s \in SUBSET S
      PROVE  F[s] = IF s = {} THEN 0 ELSE f[First(s)] + F[Rest(s)]
  <2>1. CASE s = {}
    BY <1>1, <2>1 DEF Partial
  <2>2. CASE s # {}
    <3>1. Rest(s) \in SUBSET S
      BY <2>2, RestSmaller
    <3>2. /\ Rest(s) \in DOMAIN part(s)
          /\ part(s)[s] = f[First(s)] + part(s)[Rest(s)]
      BY <1>1, <2>2 DEF Partial
    <3>3. part(s)[Rest(s)] = part(Rest(s))[Rest(s)]
      BY <1>1, <3>1, <3>2, PartialsAgree
    <3> QED
      BY <2>2, <3>1, <3>2, <3>3
  <2> QED
    BY <2>1, <2>2
<1>3. Solves(F)
  BY <1>2
<1>4. Solves(Fold(f, S))
  <2>1. Fold(f, S) = CHOOSE g : Solves(g)
    BY DEF Fold
  <2>2. \E g : Solves(g)
    BY <1>3
  <2> HIDE DEF Solves
  <2> QED
    BY <2>1, <2>2
<1>5. DOMAIN Fold(f, S) = SUBSET S
  BY <1>4
<1>6. \A s \in SUBSET S : Fold(f, S)[s] =
        IF s = {} THEN 0 ELSE f[First(s)] + Fold(f, S)[Rest(s)]
  BY <1>4
<1>7. \A s \in SUBSET S : s # {} => Rest(s) \in SUBSET S
  BY RestSmaller
<1> QED
  BY <1>5, <1>6, <1>7 DEF Partial

-----------------------------------------------------------------------------
(* Sums.                                                                   *)

LEMMA SumEmpty ==
  ASSUME NEW f
  PROVE  SumFunctionOnSet(f, {}) = 0
<1>1. IsFiniteSet({})
  BY FS_EmptySet
<1> QED
  BY <1>1, SumIsFold, FoldPartial DEF Partial

\* One step of the fold.
LEMMA SumRest ==
  ASSUME NEW S, IsFiniteSet(S), S # {}, NEW f
  PROVE  SumFunctionOnSet(f, S) = f[First(S)] + SumFunctionOnSet(f, Rest(S))
<1>1. Rest(S) \in SUBSET S /\ IsFiniteSet(Rest(S))
  BY RestSmaller, FS_Subset
<1>2. Fold(f, S)[S] = f[First(S)] + Fold(f, S)[Rest(S)]
  BY FoldPartial DEF Partial
<1>3. Fold(f, S)[Rest(S)] = Fold(f, Rest(S))[Rest(S)]
  <2>1. /\ Partial(f, Fold(f, S)) /\ DOMAIN Fold(f, S) = SUBSET S
        /\ Partial(f, Fold(f, Rest(S)))
        /\ DOMAIN Fold(f, Rest(S)) = SUBSET Rest(S)
    BY <1>1, FoldPartial
  <2> QED
    BY <1>1, <2>1, PartialsAgree
<1> QED
  BY <1>2, <1>3, SumIsFold

\* A property of the empty set that an added element keeps holds of a finite
\* set: C are the subsets that have it.
LEMMA FiniteInduction ==
  ASSUME NEW S, IsFiniteSet(S), NEW C, {} \in C,
         \A T \in SUBSET S : T # {} /\ Rest(T) \in C => T \in C
  PROVE  S \in C
<1> DEFINE D == {T \in SUBSET S : T \notin C}
<1> SUFFICES ASSUME D # {} PROVE FALSE
  OBVIOUS
<1>1. PICK T \in D : \A U \in D : U \subseteq T => U = T
  <2>1. D \subseteq SUBSET S
    OBVIOUS
  <2> HIDE DEF D
  <2> QED
    BY <2>1, MinimalSubset
<1>2. T # {} /\ T \in SUBSET S /\ T \notin C
  BY <1>1
<1>3. Rest(T) \subseteq T /\ Rest(T) # T
  BY <1>2, RestSmaller
<1>4. Rest(T) \in C
  BY <1>1, <1>2, <1>3
<1> QED
  BY <1>2, <1>4

LEMMA SumInt ==
  ASSUME NEW S, IsFiniteSet(S), NEW f, \A x \in S : f[x] \in Int
  PROVE  SumFunctionOnSet(f, S) \in Int
<1> DEFINE C == {T \in SUBSET S : SumFunctionOnSet(f, T) \in Int}
<1>1. {} \in C
  BY SumEmpty
<1>2. ASSUME NEW T \in SUBSET S, T # {}, Rest(T) \in C PROVE T \in C
  <2>1. IsFiniteSet(T) /\ f[First(T)] \in Int
    BY <1>2, RestSmaller, FS_Subset
  <2> QED
    BY <1>2, <2>1, SumRest
<1>3. S \in C
  <2> HIDE DEF C
  <2> QED
    BY <1>1, <1>2, FiniteInduction
<1> QED
  BY <1>3

LEMMA SumNat ==
  ASSUME NEW S, IsFiniteSet(S), NEW f, \A x \in S : f[x] \in Nat
  PROVE  SumFunctionOnSet(f, S) \in Nat
<1> DEFINE C == {T \in SUBSET S : SumFunctionOnSet(f, T) \in Nat}
<1>1. {} \in C
  BY SumEmpty
<1>2. ASSUME NEW T \in SUBSET S, T # {}, Rest(T) \in C PROVE T \in C
  <2>1. IsFiniteSet(T) /\ f[First(T)] \in Nat
    BY <1>2, RestSmaller, FS_Subset
  <2> QED
    BY <1>2, <2>1, SumRest
<1>3. S \in C
  <2> HIDE DEF C
  <2> QED
    BY <1>1, <1>2, FiniteInduction
<1> QED
  BY <1>3

\* Only the terms matter.
LEMMA SumEqual ==
  ASSUME NEW S, IsFiniteSet(S), NEW f, NEW g, \A x \in S : f[x] = g[x]
  PROVE  SumFunctionOnSet(f, S) = SumFunctionOnSet(g, S)
<1> DEFINE C == {T \in SUBSET S :
                   SumFunctionOnSet(f, T) = SumFunctionOnSet(g, T)}
<1>1. {} \in C
  BY SumEmpty
<1>2. ASSUME NEW T \in SUBSET S, T # {}, Rest(T) \in C PROVE T \in C
  <2>1. IsFiniteSet(T) /\ f[First(T)] = g[First(T)]
    BY <1>2, RestSmaller, FS_Subset
  <2>2. /\ SumFunctionOnSet(f, T) = f[First(T)] + SumFunctionOnSet(f, Rest(T))
        /\ SumFunctionOnSet(g, T) = g[First(T)] + SumFunctionOnSet(g, Rest(T))
    BY <1>2, <2>1, SumRest
  <2> QED
    BY <1>2, <2>1, <2>2
<1>3. S \in C
  <2> HIDE DEF C
  <2> QED
    BY <1>1, <1>2, FiniteInduction
<1> QED
  BY <1>3

LEMMA SumZero ==
  ASSUME NEW S, IsFiniteSet(S), NEW f, \A x \in S : f[x] = 0
  PROVE  SumFunctionOnSet(f, S) = 0
<1> DEFINE C == {T \in SUBSET S : SumFunctionOnSet(f, T) = 0}
<1>1. {} \in C
  BY SumEmpty
<1>2. ASSUME NEW T \in SUBSET S, T # {}, Rest(T) \in C PROVE T \in C
  <2>1. IsFiniteSet(T) /\ f[First(T)] = 0
    BY <1>2, RestSmaller, FS_Subset
  <2>2. SumFunctionOnSet(f, T) = f[First(T)] + SumFunctionOnSet(f, Rest(T))
    BY <1>2, <2>1, SumRest
  <2> QED
    BY <1>2, <2>1, <2>2
<1>3. S \in C
  <2> HIDE DEF C
  <2> QED
    BY <1>1, <1>2, FiniteInduction
<1> QED
  BY <1>3

\* Any element may be taken out, not only the chosen one.
LEMMA SumRemove ==
  ASSUME NEW S, IsFiniteSet(S), NEW f, \A x \in S : f[x] \in Int,
         NEW a \in S
  PROVE  SumFunctionOnSet(f, S) = f[a] + SumFunctionOnSet(f, S \ {a})
<1> DEFINE Takes(T) == \A x \in T : SumFunctionOnSet(f, T) =
                                      f[x] + SumFunctionOnSet(f, T \ {x})
           C == {T \in SUBSET S : ~Takes(T)}
<1> SUFFICES ASSUME C # {} PROVE FALSE
  <2>1. C = {} => Takes(S)
    OBVIOUS
  <2> QED
    BY <2>1
<1>1. PICK T \in C : \A U \in C : U \subseteq T => U = T
  <2>1. C \subseteq SUBSET S
    OBVIOUS
  <2> HIDE DEF C
  <2> QED
    BY <2>1, MinimalSubset
<1>2. PICK x \in T : SumFunctionOnSet(f, T) #
                       f[x] + SumFunctionOnSet(f, T \ {x})
  BY <1>1
<1>3. T \in SUBSET S /\ IsFiniteSet(T) /\ T # {}
  BY <1>1, <1>2, FS_Subset
<1>4. PICK y : y = First(T) /\ y \in T /\ Rest(T) = T \ {y}
  BY <1>3, RestSmaller DEF Rest
<1>5. SumFunctionOnSet(f, T) = f[y] + SumFunctionOnSet(f, T \ {y})
  BY <1>3, <1>4, SumRest
<1>6. x # y
  BY <1>2, <1>5
<1>7. Takes(T \ {y}) /\ Takes(T \ {x})
  <2>1. T \ {y} \notin C /\ T \ {x} \notin C
    BY <1>1, <1>2, <1>4
  <2> QED
    BY <1>3, <2>1
<1>8. /\ SumFunctionOnSet(f, T \ {y}) =
           f[x] + SumFunctionOnSet(f, (T \ {y}) \ {x})
      /\ SumFunctionOnSet(f, T \ {x}) =
           f[y] + SumFunctionOnSet(f, (T \ {x}) \ {y})
  BY <1>2, <1>4, <1>6, <1>7
<1>9. (T \ {y}) \ {x} = (T \ {x}) \ {y}
  OBVIOUS
<1>10. /\ SumFunctionOnSet(f, (T \ {x}) \ {y}) \in Int
       /\ f[x] \in Int /\ f[y] \in Int
  <2>1. (T \ {x}) \ {y} \in SUBSET S
    BY <1>3
  <2>2. IsFiniteSet((T \ {x}) \ {y})
    BY <2>1, FS_Subset
  <2>3. \A z \in (T \ {x}) \ {y} : f[z] \in Int
    BY <2>1
  <2>4. SumFunctionOnSet(f, (T \ {x}) \ {y}) \in Int
    BY <2>2, <2>3, SumInt
  <2> QED
    BY <1>2, <1>3, <1>4, <2>4
<1>11. PICK r \in Int : r = SumFunctionOnSet(f, (T \ {x}) \ {y})
  BY <1>10
<1>12. /\ SumFunctionOnSet(f, T) = f[y] + (f[x] + r)
       /\ SumFunctionOnSet(f, T \ {x}) = f[y] + r
  BY <1>5, <1>8, <1>9, <1>11, Zenon
<1>13. f[y] + (f[x] + r) = f[x] + (f[y] + r)
  BY <1>10
<1> QED
  BY <1>2, <1>12, <1>13, Zenon

\* One element more.
LEMMA SumAdd ==
  ASSUME NEW S, IsFiniteSet(S), NEW f, NEW a, a \notin S,
         \A x \in S \cup {a} : f[x] \in Int
  PROVE  SumFunctionOnSet(f, S \cup {a}) = SumFunctionOnSet(f, S) + f[a]
<1>1. IsFiniteSet(S \cup {a}) /\ (S \cup {a}) \ {a} = S
  BY FS_AddElement
<1>2. SumFunctionOnSet(f, S \cup {a}) = f[a] + SumFunctionOnSet(f, S)
  BY <1>1, SumRemove
<1>3. SumFunctionOnSet(f, S) \in Int /\ f[a] \in Int
  BY SumInt
<1> QED
  BY <1>2, <1>3

\* One term changes.
LEMMA SumChange ==
  ASSUME NEW S, IsFiniteSet(S), NEW f, NEW g, NEW a \in S,
         \A x \in S : f[x] \in Int, \A x \in S : g[x] \in Int,
         \A x \in S : x # a => f[x] = g[x]
  PROVE  SumFunctionOnSet(g, S) = SumFunctionOnSet(f, S) + (g[a] - f[a])
<1>1. IsFiniteSet(S \ {a})
  BY FS_RemoveElement
<1>2. SumFunctionOnSet(f, S \ {a}) = SumFunctionOnSet(g, S \ {a})
  <2>1. \A x \in S \ {a} : f[x] = g[x]
    OBVIOUS
  <2> QED
    BY <1>1, <2>1, SumEqual
<1>3. /\ SumFunctionOnSet(f, S) = f[a] + SumFunctionOnSet(f, S \ {a})
      /\ SumFunctionOnSet(g, S) = g[a] + SumFunctionOnSet(g, S \ {a})
  BY SumRemove
<1>4. SumFunctionOnSet(f, S \ {a}) \in Int /\ f[a] \in Int /\ g[a] \in Int
  BY <1>1, SumInt
<1> QED
  BY <1>2, <1>3, <1>4

\* Elements that count nothing may be left out.
LEMMA SumSupport ==
  ASSUME NEW S, IsFiniteSet(S), NEW T \in SUBSET S, NEW f, NEW g,
         \A x \in S : f[x] \in Int, \A x \in T : g[x] = f[x],
         \A x \in S \ T : f[x] = 0
  PROVE  SumFunctionOnSet(f, S) = SumFunctionOnSet(g, T)
<1> DEFINE C == {U \in SUBSET S : SumFunctionOnSet(f, U) =
                                    SumFunctionOnSet(g, U \cap T)}
<1>1. {} \in C
  <2>1. {} \cap T = {}
    OBVIOUS
  <2> QED
    BY <2>1, SumEmpty
<1>2. ASSUME NEW U \in SUBSET S, U # {}, Rest(U) \in C PROVE U \in C
  <2>1. PICK y : y = First(U) /\ y \in U /\ Rest(U) = U \ {y}
    BY <1>2, RestSmaller DEF Rest
  <2>2. IsFiniteSet(U) /\ IsFiniteSet(U \cap T)
    BY FS_Subset
  <2>3. SumFunctionOnSet(f, U) = f[y] + SumFunctionOnSet(g, (U \ {y}) \cap T)
    BY <1>2, <2>1, <2>2, SumRest
  <2>4. CASE y \in T
    <3>1. y \in U \cap T /\ (U \cap T) \ {y} = (U \ {y}) \cap T
      BY <2>1, <2>4
    <3>2. \A x \in U \cap T : g[x] \in Int
      OBVIOUS
    <3>3. SumFunctionOnSet(g, U \cap T) =
            g[y] + SumFunctionOnSet(g, (U \ {y}) \cap T)
      BY <2>2, <3>1, <3>2, SumRemove
    <3> QED
      BY <2>3, <2>4, <3>3
  <2>5. CASE y \notin T
    <3>1. (U \ {y}) \cap T = U \cap T /\ f[y] = 0
      BY <2>1, <2>5
    <3>2. \A x \in U \cap T : g[x] \in Int
      OBVIOUS
    <3>3. SumFunctionOnSet(g, U \cap T) \in Int
      BY <2>2, <3>2, SumInt
    <3>4. SumFunctionOnSet(f, U) = 0 + SumFunctionOnSet(g, U \cap T)
      BY <2>3, <3>1, Zenon
    <3> QED
      BY <3>3, <3>4
  <2> QED
    BY <2>4, <2>5
<1>3. S \in C
  <2> HIDE DEF C
  <2> QED
    BY <1>1, <1>2, FiniteInduction
<1>4. S \cap T = T
  OBVIOUS
<1> QED
  BY <1>3, <1>4

\* A sum of sums.
LEMMA SumPlus ==
  ASSUME NEW S, IsFiniteSet(S), NEW f, NEW g, NEW h,
         \A x \in S : f[x] \in Int /\ g[x] \in Int /\ h[x] = f[x] + g[x]
  PROVE  SumFunctionOnSet(h, S) = SumFunctionOnSet(f, S) + SumFunctionOnSet(g, S)
<1> DEFINE C == {T \in SUBSET S : SumFunctionOnSet(h, T) =
                   SumFunctionOnSet(f, T) + SumFunctionOnSet(g, T)}
<1>1. {} \in C
  <2>1. /\ SumFunctionOnSet(f, {}) = 0 /\ SumFunctionOnSet(g, {}) = 0
        /\ SumFunctionOnSet(h, {}) = 0
    BY SumEmpty
  <2> QED
    BY <2>1
<1>2. ASSUME NEW T \in SUBSET S, T # {}, Rest(T) \in C PROVE T \in C
  <2>1. PICK y : y = First(T) /\ y \in S
    BY <1>2, RestSmaller
  <2>2. IsFiniteSet(T) /\ IsFiniteSet(Rest(T)) /\ Rest(T) \subseteq S
    BY <1>2, RestSmaller, FS_Subset
  <2>3. /\ SumFunctionOnSet(f, T) = f[y] + SumFunctionOnSet(f, Rest(T))
        /\ SumFunctionOnSet(g, T) = g[y] + SumFunctionOnSet(g, Rest(T))
        /\ SumFunctionOnSet(h, T) = h[y] + SumFunctionOnSet(h, Rest(T))
    BY <1>2, <2>1, <2>2, SumRest
  <2>4. /\ SumFunctionOnSet(f, Rest(T)) \in Int
        /\ SumFunctionOnSet(g, Rest(T)) \in Int
    BY <2>2, SumInt
  <2>5. PICK a \in Int, b \in Int : /\ a = SumFunctionOnSet(f, Rest(T))
                                   /\ b = SumFunctionOnSet(g, Rest(T))
    BY <2>4
  <2>6. SumFunctionOnSet(h, Rest(T)) = a + b
    BY <1>2, <2>5
  <2>7. f[y] \in Int /\ g[y] \in Int /\ h[y] = f[y] + g[y]
    BY <2>1
  <2>8. /\ SumFunctionOnSet(f, T) = f[y] + a
        /\ SumFunctionOnSet(g, T) = g[y] + b
        /\ SumFunctionOnSet(h, T) = h[y] + (a + b)
    BY <2>3, <2>5, <2>6, Zenon
  <2> QED
    BY <2>7, <2>8
<1>3. S \in C
  <2> HIDE DEF C
  <2> QED
    BY <1>1, <1>2, FiniteInduction
<1> QED
  BY <1>3

\* The sum over two sets that have nothing in common.
LEMMA SumUnion ==
  ASSUME NEW S, IsFiniteSet(S), NEW T, IsFiniteSet(T), S \cap T = {}, NEW f,
         \A x \in S \cup T : f[x] \in Int
  PROVE  SumFunctionOnSet(f, S \cup T) = SumFunctionOnSet(f, S) + SumFunctionOnSet(f, T)
<1> DEFINE U == S \cup T
           g == [x \in U |-> IF x \in S THEN f[x] ELSE 0]
           h == [x \in U |-> IF x \in S THEN 0 ELSE f[x]]
<1>1. IsFiniteSet(U) /\ S \in SUBSET U /\ T \in SUBSET U
  BY FS_Union
<1>2. \A x \in U : g[x] \in Int /\ h[x] \in Int /\ f[x] = g[x] + h[x]
  OBVIOUS
<1>3. /\ \A x \in S : f[x] = g[x]
      /\ \A x \in U \ S : g[x] = 0
      /\ \A x \in T : f[x] = h[x]
      /\ \A x \in U \ T : h[x] = 0
  OBVIOUS
<1> HIDE DEF U, g, h
<1>4. SumFunctionOnSet(f, U) = SumFunctionOnSet(g, U) + SumFunctionOnSet(h, U)
  BY <1>1, <1>2, SumPlus
<1>5. SumFunctionOnSet(g, U) = SumFunctionOnSet(f, S)
  BY <1>1, <1>2, <1>3, SumSupport
<1>6. SumFunctionOnSet(h, U) = SumFunctionOnSet(f, T)
  BY <1>1, <1>2, <1>3, SumSupport
<1> QED BY <1>4, <1>5, <1>6 DEF U
=============================================================================
