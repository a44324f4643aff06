-------------------------- MODULE Packages_proofs --------------------------
(***************************************************************************)
(* Proofs about the libraries of src/packages that keep a state of their   *)
(* own and share none: for each, its inductive invariant and what follows  *)
(* from it, for all values of its constants.                               *)
(***************************************************************************)
EXTENDS Collections, PluginRegistry, SchemaMigrations, EventLog, CartMonitor,
        BenefitCatalog, ProfileManager, StrategyTransfer, SerializedValues,
        FiniteSetTheorems, SequenceTheorems, WellFoundedInduction, TLAPS

-----------------------------------------------------------------------------
(* Collections: what filter and sort return, of lists of any length        *)

\* an order in which of any two places one is before the other
Orders(before, I) ==
    /\ \A i \in I : <<i, i>> \notin before
    /\ \A i, j \in I : i # j => <<i, j>> \in before \/ <<j, i>> \in before
    /\ \A i, j, k \in I : <<i, j>> \in before /\ <<j, k>> \in before => <<i, k>> \in before

\* the places in order: each one once, and each after those before it
LEMMA PlacesInOrder ==
    ASSUME NEW I, IsFiniteSet(I), NEW before, Orders(before, I)
    PROVE  LET order == InOrder(I, before)
               n == Cardinality(I)
           IN  /\ n \in Nat /\ order \in [1..n -> I]
               /\ \A k, l \in 1..n : order[k] = order[l] => k = l
               /\ \A i \in I : \E k \in 1..n : order[k] = i
               /\ \A k, l \in 1..n : k < l => <<order[k], order[l]>> \in before
<1> DEFINE n == Cardinality(I)
           earlier(i) == {j \in I : <<j, i>> \in before}
           rank == [i \in I |-> Cardinality(earlier(i))]
           order == InOrder(I, before)
<1>1. n \in Nat
  BY FS_CardinalityType
<1>2. ASSUME NEW i \in I PROVE IsFiniteSet(earlier(i)) /\ rank[i] \in 0..n - 1
  <2>1. earlier(i) \in SUBSET I /\ i \notin earlier(i)
    BY DEF Orders
  <2>2. IsFiniteSet(earlier(i)) /\ Cardinality(earlier(i)) <= n /\ Cardinality(earlier(i)) # n
    BY <2>1, FS_Subset
  <2>3. Cardinality(earlier(i)) \in Nat
    BY <2>2, FS_CardinalityType
  <2> QED
    BY <1>1, <2>2, <2>3
<1>3. ASSUME NEW i \in I, NEW j \in I, <<i, j>> \in before PROVE rank[i] < rank[j]
  <2>1. earlier(i) \in SUBSET earlier(j) /\ i \in earlier(j) /\ i \notin earlier(i)
    BY <1>3 DEF Orders
  <2>2. Cardinality(earlier(i)) <= Cardinality(earlier(j))
        /\ Cardinality(earlier(i)) # Cardinality(earlier(j))
    BY <1>2, <2>1, FS_Subset
  <2>3. Cardinality(earlier(i)) \in Int /\ Cardinality(earlier(j)) \in Int
    BY <1>2, FS_CardinalityType
  <2>4. rank[i] = Cardinality(earlier(i)) /\ rank[j] = Cardinality(earlier(j))
    OBVIOUS
  <2> HIDE DEF earlier, rank
  <2> QED
    BY <2>2, <2>3, <2>4
<1>typed. ASSUME NEW i \in I PROVE rank[i] \in 0..n - 1 /\ rank[i] \in Int
  <2>1. rank[i] \in 0..n - 1
    BY <1>2
  <2> HIDE DEF rank
  <2> QED
    BY <1>1, <2>1
<1>4. rank \in Injection(I, 0..n - 1)
  <2>1. \A i \in I : rank[i] \in 0..n - 1
    BY <1>typed
  <2>2. ASSUME NEW i \in I, NEW j \in I, i # j PROVE rank[i] # rank[j]
    <3>1. rank[i] \in Int /\ rank[j] \in Int
      BY <1>typed
    <3>2. rank[i] < rank[j] \/ rank[j] < rank[i]
      BY <1>3, <2>2 DEF Orders
    <3> HIDE DEF rank
    <3> QED
      BY <3>1, <3>2
  <2>3. rank \in [I -> 0..n - 1]
    BY <2>1
  <2> HIDE DEF rank
  <2> QED
    BY <2>2, <2>3 DEF Injection, IsInjective
<1>5. rank \in Surjection(I, 0..n - 1)
  <2>1. IsFiniteSet(0..n - 1) /\ Cardinality(0..n - 1) = n
    BY <1>1, FS_Interval
  <2> HIDE DEF rank
  <2> QED
    BY <1>4, <2>1, FS_Injection
<1>6. ASSUME NEW k \in 1..n PROVE order[k] \in I /\ rank[order[k]] = k - 1
  <2>1. \E i \in I : rank[i] = k - 1
    <3>1. k - 1 \in 0..n - 1
      BY <1>1
    <3> HIDE DEF rank
    <3> QED
      BY <1>5, <3>1 DEF Surjection
  <2>2. order[k] = CHOOSE i \in I : Cardinality({j \in I : <<j, i>> \in before}) = k - 1
    BY DEF InOrder
  <2>3. \A i \in I : rank[i] = Cardinality({j \in I : <<j, i>> \in before})
    OBVIOUS
  <2> HIDE DEF rank, order
  <2>4. \E i \in I : Cardinality({j \in I : <<j, i>> \in before}) = k - 1
    BY <2>1, <2>3
  <2>5. order[k] \in I /\ Cardinality({j \in I : <<j, order[k]>> \in before}) = k - 1
    BY <2>2, <2>4
  <2> QED
    BY <2>3, <2>5
<1>7. order \in [1..n -> I]
  <2> DEFINE place(k) == CHOOSE i \in I : Cardinality({j \in I : <<j, i>> \in before}) = k - 1
  <2>1. order = [k \in 1..n |-> place(k)]
    BY DEF InOrder
  <2> HIDE DEF order, place
  <2>2. \A k \in 1..n : place(k) \in I
    BY <1>6, <2>1
  <2> QED
    BY <2>1, <2>2
<1> HIDE DEF order
<1>8. \A k, l \in 1..n : order[k] = order[l] => k = l
  <2> HIDE DEF rank
  <2>1. ASSUME NEW k \in 1..n, NEW l \in 1..n, order[k] = order[l] PROVE k = l
    <3>1. rank[order[k]] = k - 1 /\ rank[order[l]] = l - 1
      BY <1>6
    <3>2. k - 1 = l - 1 /\ k \in Int /\ l \in Int
      BY <1>1, <2>1, <3>1
    <3> QED
      BY <3>2
  <2> QED
    BY <2>1
<1>9. ASSUME NEW i \in I PROVE \E k \in 1..n : order[k] = i
  <2> HIDE DEF rank
  <2>1. rank[i] \in 0..n - 1 /\ rank[i] + 1 \in 1..n
    BY <1>1, <1>typed
  <2>2. rank[order[rank[i] + 1]] = rank[i] /\ order[rank[i] + 1] \in I
    BY <1>1, <1>6, <2>1
  <2>3. order[rank[i] + 1] = i
    BY <1>4, <2>2 DEF Injection, IsInjective
  <2> QED
    BY <2>1, <2>3
<1>10. ASSUME NEW k \in 1..n, NEW l \in 1..n, k < l PROVE <<order[k], order[l]>> \in before
  <2> HIDE DEF rank
  <2>0. k \in Int /\ l \in Int /\ k # l
    BY <1>1, <1>10
  <2>1. order[k] # order[l] /\ order[k] \in I /\ order[l] \in I
    BY <2>0, <1>6, <1>8
  <2>2. rank[order[k]] < rank[order[l]]
    <3>1. rank[order[k]] = k - 1 /\ rank[order[l]] = l - 1
      BY <1>6
    <3> QED
      BY <2>0, <1>10, <3>1
  <2>3. <<order[l], order[k]>> \notin before
    <3>1. SUFFICES ASSUME <<order[l], order[k]>> \in before PROVE FALSE
      OBVIOUS
    <3>2. rank[order[l]] < rank[order[k]]
      BY <1>3, <2>1, <3>1
    <3>3. rank[order[k]] \in Int /\ rank[order[l]] \in Int
      BY <1>typed, <2>1
    <3> HIDE DEF rank
    <3> QED
      BY <2>2, <3>2, <3>3
  <2> QED
    BY <2>1, <2>3 DEF Orders
<1> QED
  BY <1>1, <1>7, <1>8, <1>9, <1>10 DEF order

\* filter keeps the elements asked for, each once, in the order of the list
LEMMA KeptElements ==
    ASSUME NEW S, NEW list \in Seq(S), NEW I \in SUBSET (DOMAIN list)
    PROVE  /\ IsFiniteSet(I) /\ Kept(list, I) \in Seq(S)
           /\ Len(Kept(list, I)) = Cardinality(I)
           /\ \E order \in [1..Len(Kept(list, I)) -> I] :
                /\ \A k, l \in 1..Len(Kept(list, I)) : k < l => order[k] < order[l]
                /\ \A i \in I : \E k \in 1..Len(Kept(list, I)) : order[k] = i
                /\ \A k \in 1..Len(Kept(list, I)) : Kept(list, I)[k] = list[order[k]]
<1> DEFINE n == Cardinality(I)
           order == InOrder(I, Ascending(I))
<1>1. DOMAIN list = 1..Len(list) /\ Len(list) \in Nat
  OBVIOUS
<1>2. IsFiniteSet(I)
  <2>1. IsFiniteSet(1..Len(list))
    BY <1>1, FS_Interval
  <2> QED
    BY <1>1, <2>1, FS_Subset
<1>3. Orders(Ascending(I), I)
  BY <1>1 DEF Orders, Ascending
<1>4. /\ n \in Nat /\ order \in [1..n -> I]
      /\ \A i \in I : \E k \in 1..n : order[k] = i
      /\ \A k, l \in 1..n : k < l => <<order[k], order[l]>> \in Ascending(I)
  BY <1>2, <1>3, PlacesInOrder
<1>5. \A k, l \in 1..n : k < l => order[k] < order[l]
  BY <1>4 DEF Ascending
<1>6. Kept(list, I) = [k \in 1..n |-> list[order[k]]]
  <2>1. DOMAIN order = 1..n
    BY <1>4
  <2> QED
    BY <2>1 DEF Kept
<1> HIDE DEF order, n
<1>7. \A k \in 1..n : list[order[k]] \in S
  BY <1>1, <1>4
<1>8. Kept(list, I) \in Seq(S) /\ Len(Kept(list, I)) = n
  BY <1>4, <1>6, <1>7
<1> QED
  BY <1>2, <1>4, <1>5, <1>6, <1>8 DEF n

\* the places that the elements of kept come from
PlacesOf(order, kept, list, I) ==
    /\ order \in [1..Len(kept) -> I]
    /\ \A k, l \in 1..Len(kept) : k < l => order[k] < order[l]
    /\ \A i \in I : \E k \in 1..Len(kept) : order[k] = i
    /\ \A k \in 1..Len(kept) : kept[k] = list[order[k]]

LEMMA KeptPlaces ==
    ASSUME NEW S, NEW list \in Seq(S), NEW I \in SUBSET (DOMAIN list)
    PROVE  Kept(list, I) \in Seq(S) /\ \E order : PlacesOf(order, Kept(list, I), list, I)
<1>1. PICK order \in [1..Len(Kept(list, I)) -> I] :
        /\ \A k, l \in 1..Len(Kept(list, I)) : k < l => order[k] < order[l]
        /\ \A i \in I : \E k \in 1..Len(Kept(list, I)) : order[k] = i
        /\ \A k \in 1..Len(Kept(list, I)) : Kept(list, I)[k] = list[order[k]]
  BY KeptElements
<1>2. PlacesOf(order, Kept(list, I), list, I)
  BY <1>1 DEF PlacesOf
<1>3. Kept(list, I) \in Seq(S)
  BY KeptElements
<1> QED
  BY <1>2, <1>3

\* sort returns the elements of the list in the order given: of any two, the
\* one returned first was before the other
LEMMA SortedElements ==
    ASSUME NEW S, NEW list \in Seq(S), NEW before, Orders(before, DOMAIN list)
    PROVE  /\ Sorted(list, before) \in Seq(S) /\ Len(Sorted(list, before)) = Len(list)
           /\ \A k \in 1..Len(list) : \E i \in 1..Len(list) : Sorted(list, before)[k] = list[i]
           /\ \A k, l \in 1..Len(list) : k < l =>
                \E i, j \in 1..Len(list) :
                    /\ Sorted(list, before)[k] = list[i] /\ Sorted(list, before)[l] = list[j]
                    /\ <<i, j>> \in before
<1> DEFINE n == Len(list)
           order == InOrder(1..n, before)
<1>1. DOMAIN list = 1..n /\ n \in Nat
  OBVIOUS
<1>2. IsFiniteSet(1..n) /\ Cardinality(1..n) = n
  BY <1>1, FS_Interval
<1>3. /\ order \in [1..n -> 1..n]
      /\ \A k, l \in 1..n : order[k] = order[l] => k = l
      /\ \A i \in 1..n : \E k \in 1..n : order[k] = i
      /\ \A k, l \in 1..n : k < l => <<order[k], order[l]>> \in before
  <2>1. Orders(before, 1..n)
    BY <1>1
  <2> DEFINE P == 1..n
             m == Cardinality(P)
             o == InOrder(P, before)
  <2>2. /\ o \in [1..m -> P]
        /\ \A k, l \in 1..m : o[k] = o[l] => k = l
        /\ \A i \in P : \E k \in 1..m : o[k] = i
        /\ \A k, l \in 1..m : k < l => <<o[k], o[l]>> \in before
    <3>1. IsFiniteSet(P) /\ Orders(before, P)
      BY <1>2, <2>1
    <3> HIDE DEF P
    <3> QED
      BY <3>1, PlacesInOrder
  <2>3. m = n /\ o = order
    BY <1>2
  <2> HIDE DEF m, o, order
  <2> QED
    BY <2>2, <2>3
<1>4. Sorted(list, before) = [k \in 1..n |-> list[order[k]]]
  <2>1. DOMAIN order = 1..n
    BY <1>3
  <2> QED
    BY <1>1, <2>1 DEF Sorted
<1> HIDE DEF order
<1>5. \A k \in 1..n : list[order[k]] \in S
  BY <1>1, <1>3, SMTT(30)
<1>6. Sorted(list, before) \in Seq(S) /\ Len(Sorted(list, before)) = n
  BY <1>1, <1>4, <1>5
<1>7. ASSUME NEW k \in 1..n
      PROVE  \E i \in 1..n : Sorted(list, before)[k] = list[i]
  <2>1. order[k] \in 1..n /\ Sorted(list, before)[k] = list[order[k]]
    BY <1>3, <1>4
  <2> QED
    BY <2>1
<1>8. ASSUME NEW k \in 1..n, NEW l \in 1..n, k < l
      PROVE  \E i, j \in 1..n :
                /\ Sorted(list, before)[k] = list[i] /\ Sorted(list, before)[l] = list[j]
                /\ <<i, j>> \in before
  <2>1. order[k] \in 1..n /\ order[l] \in 1..n
    BY <1>3
  <2>2. /\ Sorted(list, before)[k] = list[order[k]] /\ Sorted(list, before)[l] = list[order[l]]
        /\ <<order[k], order[l]>> \in before
    BY <1>3, <1>4, <1>8
  <2> QED
    BY <2>1, <2>2
<1> QED
  BY <1>6, <1>7, <1>8

-----------------------------------------------------------------------------
(* Sums over finite sets, which the fold computes in an order of its own   *)

LEMMA LeastNumber ==
    ASSUME NEW S \in SUBSET Nat, S # {}
    PROVE  \E m \in S : \A k \in S : ~(k < m)
<1> DEFINE R == OpToRel(<, Nat)
<1>1. IsWellFoundedOn(R, Nat)
  BY NatLessThanWellFounded
<1>2. \A k, m \in Nat : k < m => <<k, m>> \in R
  BY DEF OpToRel
<1> HIDE DEF R
<1>3. \E m \in S : \A k \in S : ~(<<k, m>> \in R)
  BY <1>1, WFMin
<1> QED
  BY <1>2, <1>3

\* of sets that are finite, if there are any, one is the smallest
LEMMA SmallestSet ==
    ASSUME NEW Sets, Sets # {}, \A s \in Sets : IsFiniteSet(s)
    PROVE  \E s \in Sets : \A t \in Sets : Cardinality(s) <= Cardinality(t)
<1> DEFINE sizes == {Cardinality(s) : s \in Sets}
<1>1. sizes \in SUBSET Nat /\ sizes # {}
  BY FS_CardinalityType
<1>2. PICK m \in sizes : \A k \in sizes : ~(k < m)
  <2> HIDE DEF sizes
  <2> QED
    BY <1>1, LeastNumber
<1>3. PICK s \in Sets : Cardinality(s) = m
  BY <1>2
<1>4. ASSUME NEW t \in Sets PROVE Cardinality(s) <= Cardinality(t)
  <2>1. Cardinality(t) \in sizes /\ ~(Cardinality(t) < m) /\ Cardinality(t) \in Nat /\ m \in Nat
    BY <1>1, <1>2
  <2> QED
    BY <1>3, <2>1
<1> QED
  BY <1>4

AnyOf(s) == CHOOSE x \in s : TRUE

\* g has the sums of f over the subsets of D that have at most n elements
SumsUpTo(g, f, D, n) ==
    \A s \in SUBSET D : Cardinality(s) <= n =>
        g[s] = IF s = {} THEN 0 ELSE f[AnyOf(s)] + g[s \ {AnyOf(s)}]

\* g has all the sums of f over the subsets of D
IsSum(g, f, D) ==
    g = [s \in SUBSET D |-> IF s = {} THEN 0 ELSE f[AnyOf(s)] + g[s \ {AnyOf(s)}]]

LEMMA AnyOfFacts ==
    ASSUME NEW s, s # {}, IsFiniteSet(s)
    PROVE  /\ AnyOf(s) \in s /\ Cardinality(s) \in Nat \ {0}
           /\ IsFiniteSet(s \ {AnyOf(s)}) /\ Cardinality(s \ {AnyOf(s)}) = Cardinality(s) - 1
<1>1. AnyOf(s) \in s
  BY DEF AnyOf
<1>2. Cardinality(s) \in Nat /\ Cardinality(s) # 0
  BY FS_CardinalityType, FS_EmptySet
<1> QED
  BY <1>1, <1>2, FS_RemoveElement

LEMMA SumsExist ==
    ASSUME NEW D, IsFiniteSet(D), NEW f
    PROVE  \E g : IsSum(g, f, D)
<1> DEFINE Bad == {n \in Nat : ~\E g : SumsUpTo(g, f, D, n)}
<1>1. Bad = {}
  <2> SUFFICES ASSUME Bad # {} PROVE FALSE
    OBVIOUS
  <2>1. PICK m \in Bad : \A k \in Bad : ~(k < m)
    <3>1. Bad \in SUBSET Nat
      OBVIOUS
    <3> HIDE DEF Bad
    <3> QED
      BY <3>1, LeastNumber
  <2>2. \E g : SumsUpTo(g, f, D, 0)
    <3> DEFINE g == [s \in SUBSET D |-> 0]
    <3>1. ASSUME NEW s \in SUBSET D, Cardinality(s) <= 0 PROVE s = {}
      BY <3>1, FS_Subset, FS_CardinalityType, FS_EmptySet
    <3>2. SumsUpTo(g, f, D, 0)
      BY <3>1 DEF SumsUpTo
    <3> QED
      BY <3>2
  <2>3. m # 0
    BY <2>1, <2>2
  <2>4. m - 1 \in Nat /\ m - 1 < m
    BY <2>1, <2>3
  <2>5. PICK g : SumsUpTo(g, f, D, m - 1)
    BY <2>1, <2>4
  <2> DEFINE h == [s \in SUBSET D |->
                    IF Cardinality(s) = m THEN f[AnyOf(s)] + g[s \ {AnyOf(s)}] ELSE g[s]]
  <2>6. ASSUME NEW s \in SUBSET D, Cardinality(s) <= m
        PROVE  h[s] = IF s = {} THEN 0 ELSE f[AnyOf(s)] + h[s \ {AnyOf(s)}]
    <3>1. IsFiniteSet(s) /\ Cardinality(s) \in Nat
      BY FS_Subset, FS_CardinalityType
    <3>2. CASE s = {}
      <4>1. Cardinality(s) = 0 /\ h[s] = g[s]
        BY <2>3, <3>2, FS_EmptySet
      <4> QED
        <5>1. Cardinality(s) <= m - 1
          BY <2>4, <4>1
        <5>2. g[s] = 0
          BY <2>5, <3>2, <5>1 DEF SumsUpTo
        <5> QED
          BY <3>2, <4>1, <5>2
    <3>3. CASE s # {}
      <4> DEFINE rest == s \ {AnyOf(s)}
      <4>1. rest \in SUBSET D /\ Cardinality(rest) = Cardinality(s) - 1
        BY <3>1, <3>3, AnyOfFacts
      <4>2. Cardinality(rest) # m /\ h[rest] = g[rest]
        BY <2>1, <2>6, <3>1, <4>1
      <4>3. CASE Cardinality(s) = m
        BY <3>3, <4>2, <4>3
      <4>4. CASE Cardinality(s) # m
        <5>1. Cardinality(s) <= m - 1 /\ h[s] = g[s]
          BY <2>1, <2>6, <3>1, <4>4
        <5> QED
          BY <2>5, <3>3, <4>2, <5>1 DEF SumsUpTo
      <4> QED
        BY <4>3, <4>4
    <3> QED
      BY <3>2, <3>3
  <2>7. SumsUpTo(h, f, D, m)
    <3> HIDE DEF h
    <3> QED
      BY <2>6 DEF SumsUpTo
  <2> QED
    BY <2>1, <2>7
<1>2. PICK g : SumsUpTo(g, f, D, Cardinality(D))
  BY <1>1, FS_CardinalityType
<1> DEFINE all == [s \in SUBSET D |-> g[s]]
           sums == [s \in SUBSET D |->
                        IF s = {} THEN 0 ELSE f[AnyOf(s)] + all[s \ {AnyOf(s)}]]
<1>3. ASSUME NEW s \in SUBSET D PROVE all[s] = sums[s]
  <2>1. Cardinality(s) <= Cardinality(D) /\ s \ {AnyOf(s)} \in SUBSET D
    BY FS_Subset
  <2> QED
    BY <1>2, <2>1 DEF SumsUpTo
<1>4. all = sums
  BY <1>3
<1>5. IsSum(all, f, D)
  <2> HIDE DEF all
  <2> QED
    BY <1>4 DEF IsSum
<1> QED
  BY <1>5

\* sums are numbers, and it does not matter which element is taken first
LEMMA SumFacts ==
    ASSUME NEW D, IsFiniteSet(D), NEW f \in [D -> Nat], NEW g, IsSum(g, f, D)
    PROVE  /\ g[{}] = 0
           /\ \A s \in SUBSET D : g[s] \in Nat
           /\ \A s \in SUBSET D : \A x \in s : g[s] = f[x] + g[s \ {x}]
<1>1. \A s \in SUBSET D :
        g[s] = IF s = {} THEN 0 ELSE f[AnyOf(s)] + g[s \ {AnyOf(s)}]
  BY DEF IsSum
<1>2. \A s \in SUBSET D : IsFiniteSet(s) /\ Cardinality(s) \in Nat
  BY FS_Subset, FS_CardinalityType
<1>3. \A s \in SUBSET D : g[s] \in Nat
  <2> DEFINE Bad == {s \in SUBSET D : g[s] \notin Nat}
  <2> SUFFICES ASSUME Bad # {} PROVE FALSE
    OBVIOUS
  <2>1. PICK s \in Bad : \A t \in Bad : Cardinality(s) <= Cardinality(t)
    <3>1. \A s \in Bad : IsFiniteSet(s)
      BY <1>2
    <3> HIDE DEF Bad
    <3> QED
      BY <3>1, SmallestSet
  <2>2. s # {}
    BY <1>1, <2>1
  <2>3. AnyOf(s) \in s /\ Cardinality(s \ {AnyOf(s)}) = Cardinality(s) - 1
        /\ Cardinality(s) \in Nat
    BY <1>2, <2>1, <2>2, AnyOfFacts
  <2>4. s \ {AnyOf(s)} \in SUBSET D /\ s \ {AnyOf(s)} \notin Bad
    BY <2>1, <2>3
  <2> QED
    BY <1>1, <2>1, <2>2, <2>3, <2>4
<1>4. \A s \in SUBSET D : \A x \in s : g[s] = f[x] + g[s \ {x}]
  <2> DEFINE Bad == {s \in SUBSET D : \E x \in s : g[s] # f[x] + g[s \ {x}]}
  <2> SUFFICES ASSUME Bad # {} PROVE FALSE
    OBVIOUS
  <2>1. PICK s \in Bad : \A t \in Bad : Cardinality(s) <= Cardinality(t)
    <3>1. \A s \in Bad : IsFiniteSet(s)
      BY <1>2
    <3> HIDE DEF Bad
    <3> QED
      BY <3>1, SmallestSet
  <2>2. PICK x \in s : g[s] # f[x] + g[s \ {x}]
    BY <2>1
  <2> DEFINE y == AnyOf(s)
  <2>3. /\ y \in s /\ s \in SUBSET D
        /\ Cardinality(s \ {y}) = Cardinality(s) - 1 /\ Cardinality(s) \in Nat
    BY <1>2, <2>1, <2>2, AnyOfFacts
  <2>4. g[s] = f[y] + g[s \ {y}]
    BY <1>1, <2>2, <2>3
  <2>5. y # x
    BY <2>2, <2>4
  <2>6. Cardinality(s \ {x}) = Cardinality(s) - 1
    BY <1>2, <2>2, <2>3, FS_RemoveElement
  <2>7. s \ {x} \in SUBSET D /\ s \ {y} \in SUBSET D /\ s \ {x} \notin Bad /\ s \ {y} \notin Bad
    <3>1. s \ {x} \in SUBSET D /\ s \ {y} \in SUBSET D
      BY <2>3
    <3>2. ~(Cardinality(s) <= Cardinality(s) - 1)
      BY <2>3
    <3> HIDE DEF Bad, y
    <3> QED
      BY <2>1, <2>3, <2>6, <3>1, <3>2
  <2>8. x \in s \ {y} /\ y \in s \ {x}
    BY <2>2, <2>3, <2>5
  <2>9. g[s \ {y}] = f[x] + g[(s \ {y}) \ {x}] /\ g[s \ {x}] = f[y] + g[(s \ {x}) \ {y}]
    BY <2>7, <2>8
  <2>10. (s \ {y}) \ {x} = (s \ {x}) \ {y} /\ (s \ {x}) \ {y} \in SUBSET D
    BY <2>3
  <2>11. f[x] \in Nat /\ f[y] \in Nat /\ g[(s \ {x}) \ {y}] \in Nat
    BY <1>3, <2>2, <2>3, <2>10
  <2> DEFINE whole == g[s]
             less == g[s \ {x}]
             other == g[s \ {y}]
             least == g[(s \ {x}) \ {y}]
             a == f[x]
             b == f[y]
  <2>12. other = a + least
    BY <2>9, <2>10
  <2>13. whole = b + other /\ less = b + least
    BY <2>4, <2>9
  <2>14. least \in Nat /\ a \in Nat /\ b \in Nat /\ whole # a + less
    BY <2>2, <2>11
  <2> HIDE DEF whole, less, other, least, a, b
  <2> QED
    BY <2>12, <2>13, <2>14
<1> QED
  BY <1>1, <1>3, <1>4

\* the sums over the subsets of a part are those over the subsets of the whole
LEMMA SameSum ==
    ASSUME NEW D, IsFiniteSet(D), NEW T \in SUBSET D, NEW f, NEW g, IsSum(g, f, D),
           NEW h, IsSum(h, f, T)
    PROVE  \A s \in SUBSET T : g[s] = h[s]
<1> DEFINE Bad == {s \in SUBSET T : g[s] # h[s]}
<1> SUFFICES ASSUME Bad # {} PROVE FALSE
  OBVIOUS
<1>1. \A s \in SUBSET T : IsFiniteSet(s) /\ s \in SUBSET D
  BY FS_Subset
<1>2. PICK s \in Bad : \A t \in Bad : Cardinality(s) <= Cardinality(t)
  <2>1. \A s \in Bad : IsFiniteSet(s)
    BY <1>1
  <2> HIDE DEF Bad
  <2> QED
    BY <2>1, SmallestSet
<1>3. \A t \in SUBSET T :
        /\ g[t] = IF t = {} THEN 0 ELSE f[AnyOf(t)] + g[t \ {AnyOf(t)}]
        /\ h[t] = IF t = {} THEN 0 ELSE f[AnyOf(t)] + h[t \ {AnyOf(t)}]
  BY <1>1 DEF IsSum
<1>4. s \in SUBSET T /\ IsFiniteSet(s) /\ s # {}
  BY <1>1, <1>2, <1>3
<1>5. Cardinality(s \ {AnyOf(s)}) = Cardinality(s) - 1 /\ Cardinality(s) \in Nat
  BY <1>4, AnyOfFacts
<1>6. s \ {AnyOf(s)} \in SUBSET T /\ s \ {AnyOf(s)} \notin Bad
  BY <1>2, <1>4, <1>5
<1> QED
  BY <1>2, <1>3, <1>4, <1>6

SumOver(f, S) == (CHOOSE g : IsSum(g, f, S))[S]

LEMMA SumOfFacts ==
    ASSUME NEW D, IsFiniteSet(D), NEW f \in [D -> Nat]
    PROVE  /\ SumOver(f, {}) = 0
           /\ \A S \in SUBSET D : SumOver(f, S) \in Nat
           /\ \A S \in SUBSET D : \A x \in S : SumOver(f, S) = f[x] + SumOver(f, S \ {x})
<1>1. PICK g : IsSum(g, f, D)
  BY SumsExist
<1>2. ASSUME NEW S \in SUBSET D PROVE SumOver(f, S) = g[S]
  <2> DEFINE h == CHOOSE h : IsSum(h, f, S)
  <2>1. IsSum(h, f, S)
    <3>1. \E k : IsSum(k, f, S)
      BY FS_Subset, SumsExist
    <3> QED
      BY <3>1
  <2>2. SumOver(f, S) = h[S]
    BY DEF SumOver
  <2> HIDE DEF h
  <2>3. \A s \in SUBSET S : g[s] = h[s]
    BY <1>1, <2>1, SameSum
  <2> QED
    BY <2>2, <2>3
<1>3. /\ g[{}] = 0
      /\ \A s \in SUBSET D : g[s] \in Nat
      /\ \A s \in SUBSET D : \A x \in s : g[s] = f[x] + g[s \ {x}]
  BY <1>1, SumFacts
<1>4. SumOver(f, {}) = 0
  BY <1>2, <1>3
<1>5. ASSUME NEW S \in SUBSET D, NEW x \in S PROVE SumOver(f, S) = f[x] + SumOver(f, S \ {x})
  <2>1. S \ {x} \in SUBSET D
    OBVIOUS
  <2> QED
    BY <1>2, <1>3, <2>1
<1> QED
  BY <1>2, <1>3, <1>4, <1>5

\* the fold of the community modules is this sum
LEMMA TotalIsSum ==
    ASSUME NEW f
    PROVE  Total(f) = SumOver(f, DOMAIN f)
BY DEF Total, MapThenSumSet, MapThenFoldSet, SumOver, IsSum, AnyOf

\* and is of nothing but the amounts added
LEMMA SumsAgree ==
    ASSUME NEW S, IsFiniteSet(S), NEW e, NEW f, \A i \in S : e[i] = f[i]
    PROVE  SumOver(e, S) = SumOver(f, S)
<1>1. \A s \in SUBSET S : s # {} => e[AnyOf(s)] = f[AnyOf(s)]
  BY FS_Subset, AnyOfFacts
<1>2. \A g : IsSum(g, e, S) <=> IsSum(g, f, S)
  <2> SUFFICES ASSUME NEW g PROVE IsSum(g, e, S) <=> IsSum(g, f, S)
    OBVIOUS
  <2> DEFINE a == [s \in SUBSET S |-> IF s = {} THEN 0 ELSE e[AnyOf(s)] + g[s \ {AnyOf(s)}]]
             b == [s \in SUBSET S |-> IF s = {} THEN 0 ELSE f[AnyOf(s)] + g[s \ {AnyOf(s)}]]
  <2>1. a = b
    BY <1>1
  <2>2. (IsSum(g, e, S) <=> g = a) /\ (IsSum(g, f, S) <=> g = b)
    BY DEF IsSum
  <2> HIDE DEF a, b
  <2> QED
    BY <2>1, <2>2
<1> DEFINE h == CHOOSE h : IsSum(h, e, S)
           k == CHOOSE k : IsSum(k, f, S)
<1>3. IsSum(h, f, S) /\ IsSum(k, f, S)
  <2>1. (\E g : IsSum(g, e, S)) /\ \E g : IsSum(g, f, S)
    BY SumsExist
  <2>2. IsSum(h, e, S) /\ IsSum(k, f, S)
    BY <2>1
  <2> HIDE DEF h, k
  <2> QED
    BY <1>2, <2>2
<1>4. SumOver(e, S) = h[S] /\ SumOver(f, S) = k[S]
  BY DEF SumOver
<1> HIDE DEF h, k
<1>5. \A s \in SUBSET S : h[s] = k[s]
  BY <1>3, SameSum
<1> QED
  BY <1>4, <1>5

LEMMA SumOfTaken ==
    ASSUME NEW D, IsFiniteSet(D), NEW f \in [D -> Nat], NEW S \in SUBSET D, NEW x \in S,
           NEW T \in SUBSET S, x \notin T, \A y \in S : y = x \/ y \in T
    PROVE  SumOver(f, S) = f[x] + SumOver(f, T)
<1>1. SumOver(f, S) = f[x] + SumOver(f, S \ {x})
  BY SumOfFacts
<1>2. S \ {x} = T
  OBVIOUS
<1> QED
  BY <1>1, <1>2, Zenon

\* adding the next place
LEMMA SumOfNext ==
    ASSUME NEW n \in Nat
    PROVE  \A f, k : f \in [1..n -> Nat] /\ k \in 1..n =>
                SumOver(f, 1..k) = f[k] + SumOver(f, 1..(k - 1))
<1> SUFFICES ASSUME NEW f, NEW k
             PROVE  f \in [1..n -> Nat] /\ k \in 1..n =>
                        SumOver(f, 1..k) = f[k] + SumOver(f, 1..(k - 1))
  OBVIOUS
<1>1. ASSUME f \in [1..n -> Nat], k \in 1..n
      PROVE  SumOver(f, 1..k) = f[k] + SumOver(f, 1..(k - 1))
  <2> DEFINE D == 1..n
             S == 1..k
             T == 1..(k - 1)
  <2>1. /\ IsFiniteSet(D) /\ f \in [D -> Nat] /\ S \in SUBSET D /\ k \in S
        /\ T \in SUBSET S /\ k \notin T /\ \A y \in S : y = k \/ y \in T
    BY <1>1, FS_Interval
  <2> HIDE DEF D, S, T
  <2>2. SumOver(f, S) = f[k] + SumOver(f, T)
    BY <2>1, SumOfTaken
  <2> QED
    BY <2>2 DEF S, T
<1> QED
  BY <1>1

\* T is what is left of S without the place k
IsLess(n, f, S, k, T) ==
    /\ f \in [1..n -> Nat] /\ S \in SUBSET (1..n) /\ k \in S
    /\ T \in SUBSET S /\ k \notin T /\ \A y \in S : y = k \/ y \in T

LEMMA SumOfLess ==
    ASSUME NEW n \in Nat, NEW f, NEW S, NEW k, NEW T, IsLess(n, f, S, k, T)
    PROVE  SumOver(f, S) = f[k] + SumOver(f, T)
<1> DEFINE D == 1..n
<1>1. IsFiniteSet(D)
  BY FS_Interval
<1>2. /\ f \in [D -> Nat] /\ S \in SUBSET D /\ k \in S
      /\ T \in SUBSET S /\ k \notin T /\ (\A y \in S : y = k \/ y \in T)
  BY DEF IsLess
<1> HIDE DEF D
<1> QED
  BY <1>1, <1>2, SumOfTaken

LEMMA SumsGrow ==
    ASSUME NEW n \in Nat, NEW f \in [1..n -> Nat], NEW j \in 0..n, NEW k \in 0..n, j <= k
    PROVE  SumOver(f, 1..j) <= SumOver(f, 1..k) /\ SumOver(f, 1..j) \in Nat /\ SumOver(f, 1..k) \in Nat
<1>1. \A m \in 0..n : SumOver(f, 1..m) \in Nat
  <2>1. IsFiniteSet(1..n) /\ \A m \in 0..n : 1..m \in SUBSET (1..n)
    BY FS_Interval
  <2> QED
    BY <2>1, SumOfFacts
<1> DEFINE Bad == {m \in j..n : ~(SumOver(f, 1..j) <= SumOver(f, 1..m))}
<1>2. Bad = {}
  <2> SUFFICES ASSUME Bad # {} PROVE FALSE
    OBVIOUS
  <2>1. PICK m \in Bad : \A i \in Bad : ~(i < m)
    <3>1. Bad \in SUBSET Nat
      OBVIOUS
    <3> HIDE DEF Bad
    <3> QED
      BY <3>1, LeastNumber
  <2>2. m # j /\ m \in j..n /\ m - 1 \in j..n /\ m - 1 < m
    BY <1>1, <2>1
  <2>3. m - 1 \notin Bad
    <3> HIDE DEF Bad
    <3> QED
      BY <2>1, <2>2
  <2>4. SumOver(f, 1..m) = f[m] + SumOver(f, 1..(m - 1)) /\ f[m] \in Nat
    <3>1. m \in 1..n
      BY <2>2
    <3> QED
      BY <3>1, SumOfNext
  <2>5. m \in 0..n /\ m - 1 \in 0..n
    BY <2>2
  <2> QED
    BY <1>1, <2>1, <2>2, <2>3, <2>4, <2>5
<1>3. k \notin Bad /\ k \in j..n
  BY <1>2
<1> QED
  BY <1>1, <1>3

\* of numbers that descend, the first k have the largest sum
LEMMA FirstsAreMost ==
    ASSUME NEW n \in Nat, NEW f \in [1..n -> Nat],
           \A i, j \in 1..n : i <= j => f[j] <= f[i],
           NEW S \in SUBSET (1..n), NEW k \in 0..n, Cardinality(S) <= k
    PROVE  SumOver(f, S) <= SumOver(f, 1..k)
<1>1. /\ IsFiniteSet(1..n)
      /\ \A T \in SUBSET (1..n) : IsFiniteSet(T) /\ Cardinality(T) \in 0..n
  <2>1. IsFiniteSet(1..n) /\ Cardinality(1..n) = n
    BY FS_Interval
  <2>2. ASSUME NEW T \in SUBSET (1..n)
        PROVE  IsFiniteSet(T) /\ Cardinality(T) <= n /\ Cardinality(T) \in Nat
    <3>1. IsFiniteSet(T) /\ Cardinality(T) <= Cardinality(1..n)
      BY <2>1, FS_Subset, Zenon
    <3> QED
      BY <2>1, <3>1, FS_CardinalityType
  <2> QED
    BY <2>1, <2>2
<1> DEFINE Bad == {T \in SUBSET (1..n) : ~(SumOver(f, T) <= SumOver(f, 1..Cardinality(T)))}
<1>2. Bad = {}
  <2> SUFFICES ASSUME Bad # {} PROVE FALSE
    OBVIOUS
  <2>1. PICK T \in Bad : \A U \in Bad : Cardinality(T) <= Cardinality(U)
    <3>1. \A T \in Bad : IsFiniteSet(T)
      BY <1>1
    <3> HIDE DEF Bad
    <3> QED
      BY <3>1, SmallestSet
  <2> DEFINE c == Cardinality(T)
  <2>2. T \in SUBSET (1..n) /\ c \in 0..n /\ IsFiniteSet(T)
    BY <1>1, <2>1
  <2>3. T # {}
    <3> SUFFICES ASSUME T = {} PROVE FALSE
      OBVIOUS
    <3>1. SumOver(f, T) = 0
      BY <1>1, SumOfFacts
    <3>2. SumOver(f, 1..c) \in Nat
      BY <2>2, SumsGrow
    <3> QED
      BY <2>1, <3>1, <3>2
  <2>4. c \in 1..n
    BY <2>2, <2>3, FS_EmptySet
  <2>5. PICK m \in T : m >= c
    <3> SUFFICES ASSUME \A m \in T : ~(m >= c) PROVE FALSE
      OBVIOUS
    <3>1. T \in SUBSET (1..(c - 1))
      BY <2>2, <2>4
    <3>2. IsFiniteSet(1..(c - 1)) /\ Cardinality(1..(c - 1)) = c - 1
      <4>1. c - 1 \in Int /\ (1 > c - 1 => c - 1 = 0) /\ (c - 1) - 1 + 1 = c - 1
        BY <2>4
      <4>2. /\ IsFiniteSet(1..(c - 1))
            /\ Cardinality(1..(c - 1)) = IF 1 > c - 1 THEN 0 ELSE (c - 1) - 1 + 1
        <5> DEFINE b == c - 1
        <5>1. b \in Int
          BY <4>1
        <5> HIDE DEF b
        <5>2. Cardinality(1..b) = IF 1 > b THEN 0 ELSE b - 1 + 1
          BY <5>1, FS_Interval
        <5>3. IsFiniteSet(1..b)
          BY <5>1, FS_Interval
        <5> QED
          BY <5>2, <5>3 DEF b
      <4> QED
        BY <4>1, <4>2
    <3>3. c <= c - 1
      <4> DEFINE firsts == 1..(c - 1)
      <4> HIDE DEF firsts
      <4>1. Cardinality(T) <= Cardinality(firsts)
        BY <3>1, <3>2, FS_Subset DEF firsts
      <4> QED
        BY <3>2, <4>1 DEF firsts
    <3> QED
      BY <2>4, <3>3
  <2>6. f[m] <= f[c] /\ f[m] \in Nat /\ f[c] \in Nat
    BY <2>2, <2>4, <2>5
  <2>7. SumOver(f, T) = f[m] + SumOver(f, T \ {m})
    <3> DEFINE U == T \ {m}
    <3>1. IsLess(n, f, T, m, U)
      BY <2>2, <2>5 DEF IsLess
    <3> HIDE DEF Bad, U
    <3>2. SumOver(f, T) = f[m] + SumOver(f, U)
      BY <3>1, SumOfLess
    <3> QED
      BY <3>2 DEF U
  <2>8. SumOver(f, 1..c) = f[c] + SumOver(f, 1..(c - 1))
    BY <2>4, SumOfNext
  <2>9. T \ {m} \in SUBSET (1..n) /\ Cardinality(T \ {m}) = c - 1
    BY <2>2, <2>5, FS_RemoveElement
  <2>10. SumOver(f, T \ {m}) <= SumOver(f, 1..(c - 1))
    <3>1. T \ {m} \notin Bad
      <4> HIDE DEF Bad
      <4>1. ~(c <= c - 1)
        BY <2>4
      <4> QED
        BY <2>1, <2>9, <4>1
    <3> QED
      BY <2>9, <3>1
  <2>11. SumOver(f, T \ {m}) \in Nat /\ SumOver(f, 1..(c - 1)) \in Nat
    <3>1. SumOver(f, T \ {m}) \in Nat
      BY <1>1, <2>9, SumOfFacts
    <3>2. c - 1 \in 0..n /\ c \in 0..n /\ c - 1 <= c
      BY <2>4
    <3> QED
      BY <3>1, <3>2, SumsGrow
  <2>12. ~(SumOver(f, T) <= SumOver(f, 1..c))
    BY <2>1
  <2> DEFINE whole == SumOver(f, T)
             most == SumOver(f, 1..c)
             less == SumOver(f, T \ {m})
             before == SumOver(f, 1..(c - 1))
  <2> HIDE DEF whole, most, less, before, c, Bad
  <2> QED
    BY <2>6, <2>7, <2>8, <2>10, <2>11, <2>12 DEF whole, most, less, before
<1>3. SumOver(f, S) <= SumOver(f, 1..Cardinality(S)) /\ Cardinality(S) \in 0..n
  BY <1>1, <1>2
<1>4. SumOver(f, S) \in Nat
  BY <1>1, SumOfFacts
<1>5. /\ SumOver(f, 1..Cardinality(S)) <= SumOver(f, 1..k)
      /\ SumOver(f, 1..Cardinality(S)) \in Nat /\ SumOver(f, 1..k) \in Nat
  BY <1>3, SumsGrow
<1> QED
  BY <1>3, <1>4, <1>5

\* a sum over two parts that have nothing in common
LEMMA SumOfUnion ==
    ASSUME NEW D, IsFiniteSet(D), NEW f \in [D -> Nat],
           NEW A \in SUBSET D, NEW B \in SUBSET D, A \cap B = {}
    PROVE  SumOver(f, A \cup B) = SumOver(f, A) + SumOver(f, B)
<1> DEFINE Bad == {S \in SUBSET (D \ A) : SumOver(f, A \cup S) # SumOver(f, A) + SumOver(f, S)}
<1> SUFFICES ASSUME Bad # {} PROVE FALSE
  <2> B \in SUBSET (D \ A)
    OBVIOUS
  <2> QED
    OBVIOUS
<1>1. /\ SumOver(f, {}) = 0
      /\ \A S \in SUBSET D : IsFiniteSet(S) /\ SumOver(f, S) \in Nat
      /\ \A S \in SUBSET D : \A x \in S : SumOver(f, S) = f[x] + SumOver(f, S \ {x})
  BY SumOfFacts, FS_Subset
<1>2. PICK S \in Bad : \A T \in Bad : Cardinality(S) <= Cardinality(T)
  <2>1. \A S \in Bad : IsFiniteSet(S)
    BY <1>1
  <2> HIDE DEF Bad
  <2> QED
    BY <2>1, SmallestSet
<1>3. S \in SUBSET (D \ A) /\ IsFiniteSet(S)
  BY <1>1, <1>2
<1>4. S # {}
  <2> SUFFICES ASSUME S = {} PROVE FALSE
    OBVIOUS
  <2>1. A \cup S = A /\ SumOver(f, S) = 0 /\ SumOver(f, A) \in Nat
    BY <1>1
  <2> QED
    BY <1>2, <2>1
<1> DEFINE x == AnyOf(S)
           T == S \ {x}
<1>5. x \in S /\ Cardinality(T) = Cardinality(S) - 1 /\ Cardinality(S) \in Nat
  BY <1>3, <1>4, AnyOfFacts
<1>6. T \in SUBSET (D \ A) /\ T \notin Bad
  BY <1>2, <1>3, <1>5
<1>7. SumOver(f, A \cup T) = SumOver(f, A) + SumOver(f, T)
  BY <1>6
<1>8. SumOver(f, S) = f[x] + SumOver(f, T)
  BY <1>1, <1>3, <1>5
<1>9. SumOver(f, A \cup S) = f[x] + SumOver(f, A \cup T)
  <2> DEFINE U == A \cup S
  <2>1. U \in SUBSET D /\ x \in U /\ U \ {x} = A \cup T
    BY <1>3, <1>5
  <2> HIDE DEF x, T, U
  <2>2. SumOver(f, U) = f[x] + SumOver(f, U \ {x})
    BY <1>1, <2>1
  <2> QED
    BY <2>1, <2>2 DEF U
<1>10. /\ f[x] \in Nat /\ SumOver(f, A) \in Nat /\ SumOver(f, T) \in Nat
       /\ SumOver(f, A \cup S) # SumOver(f, A) + SumOver(f, S)
  BY <1>1, <1>2, <1>3, <1>5, <1>6
<1> HIDE DEF x, T
<1> QED
  BY <1>7, <1>8, <1>9, <1>10

\* a sum part by part
LEMMA SumOfParts ==
    ASSUME NEW D, IsFiniteSet(D), NEW f \in [D -> Nat],
           NEW K, IsFiniteSet(K), NEW part \in [D -> K]
    PROVE  SumOver([k \in K |-> SumOver(f, {d \in D : part[d] = k})], K) = SumOver(f, D)
<1> DEFINE In(L) == {d \in D : part[d] \in L}
           g == [k \in K |-> SumOver(f, {d \in D : part[d] = k})]
           Bad == {L \in SUBSET K : SumOver(g, L) # SumOver(f, In(L))}
<1>1. /\ SumOver(f, {}) = 0
      /\ \A S \in SUBSET D : SumOver(f, S) \in Nat
  BY SumOfFacts
<1>2. g \in [K -> Nat]
  BY <1>1
<1>3. /\ SumOver(g, {}) = 0
      /\ \A L \in SUBSET K : IsFiniteSet(L)
      /\ \A L \in SUBSET K : \A k \in L : SumOver(g, L) = g[k] + SumOver(g, L \ {k})
  <2> HIDE DEF g
  <2> QED
    BY <1>2, SumOfFacts, FS_Subset
<1>union. \A A, B \in SUBSET D :
            A \cap B = {} => SumOver(f, A \cup B) = SumOver(f, A) + SumOver(f, B)
  <2> SUFFICES ASSUME NEW A \in SUBSET D, NEW B \in SUBSET D, A \cap B = {}
               PROVE  SumOver(f, A \cup B) = SumOver(f, A) + SumOver(f, B)
    OBVIOUS
  <2> QED
    BY SumOfUnion
<1>4. Bad = {}
  <2> SUFFICES ASSUME Bad # {} PROVE FALSE
    OBVIOUS
  <2>1. PICK L \in Bad : \A M \in Bad : Cardinality(L) <= Cardinality(M)
    <3>1. \A L \in Bad : IsFiniteSet(L)
      BY <1>3
    <3> HIDE DEF Bad
    <3> QED
      BY <3>1, SmallestSet
  <2>2. L \in SUBSET K /\ IsFiniteSet(L) /\ SumOver(g, L) # SumOver(f, In(L))
    BY <1>3, <2>1
  <2>3. L # {}
    <3> SUFFICES ASSUME L = {} PROVE FALSE
      OBVIOUS
    <3>1. In(L) = {}
      OBVIOUS
    <3> HIDE DEF In, g
    <3> QED
      BY <1>1, <1>3, <2>2, <3>1
  <2> DEFINE k == AnyOf(L)
             M == L \ {k}
  <2>4. k \in L /\ Cardinality(M) = Cardinality(L) - 1 /\ Cardinality(L) \in Nat
    BY <2>2, <2>3, AnyOfFacts
  <2>5. M \in SUBSET K /\ SumOver(g, M) = SumOver(f, In(M))
    BY <2>1, <2>2, <2>4
  <2>6. SumOver(g, L) = g[k] + SumOver(g, M)
    BY <1>3, <2>2, <2>4
  <2>7. g[k] = SumOver(f, In({k}))
    <3>1. g[k] = SumOver(f, {d \in D : part[d] = k})
      BY <2>2, <2>4
    <3>2. {d \in D : part[d] = k} = In({k})
      OBVIOUS
    <3> HIDE DEF g, In
    <3> QED
      BY <3>1, <3>2
  <2>8. SumOver(f, In(L)) = SumOver(f, In({k})) + SumOver(f, In(M))
    <3>1. /\ In({k}) \in SUBSET D /\ In(M) \in SUBSET D /\ In({k}) \cap In(M) = {}
          /\ In(L) = In({k}) \cup In(M)
      BY <2>4
    <3> HIDE DEF In, M, k, g
    <3>2. SumOver(f, In({k}) \cup In(M)) = SumOver(f, In({k})) + SumOver(f, In(M))
      BY <3>1, <1>union, Zenon
    <3> QED
      BY <3>1, <3>2, Zenon
  <2> HIDE DEF In, g, k, M
  <2> QED
    BY <2>2, <2>5, <2>6, <2>7, <2>8
<1>5. K \in SUBSET K /\ In(K) = D
  OBVIOUS
<1>6. SumOver(g, K) = SumOver(f, In(K))
  BY <1>4, <1>5
<1> QED
  BY <1>5, <1>6

ElementsAt(list, places) == {list[i] : i \in places}
AmountsAt(f, list, places) == [i \in places |-> f[list[i]]]

\* a sum over other names of the same things
LEMMA SumOfImage ==
    ASSUME NEW D, IsFiniteSet(D), NEW f \in [D -> Nat], NEW P, IsFiniteSet(P),
           NEW place \in [P -> D], \A p, q \in P : place[p] = place[q] => p = q
    PROVE  SumOver(AmountsAt(f, place, P), P) = SumOver(f, ElementsAt(place, P))
<1> DEFINE At(S) == {place[p] : p \in S}
           e == [p \in P |-> f[place[p]]]
           Bad == {S \in SUBSET P : SumOver(e, S) # SumOver(f, At(S))}
<1>1. /\ SumOver(f, {}) = 0
      /\ \A S \in SUBSET D : SumOver(f, S) \in Nat
      /\ \A S \in SUBSET D : \A x \in S : SumOver(f, S) = f[x] + SumOver(f, S \ {x})
  BY SumOfFacts
<1>2. e \in [P -> Nat]
  OBVIOUS
<1>3. /\ SumOver(e, {}) = 0
      /\ \A S \in SUBSET P : IsFiniteSet(S)
      /\ \A S \in SUBSET P : \A p \in S : SumOver(e, S) = e[p] + SumOver(e, S \ {p})
  <2> HIDE DEF e
  <2> QED
    BY <1>2, SumOfFacts, FS_Subset
<1>4. Bad = {}
  <2> SUFFICES ASSUME Bad # {} PROVE FALSE
    OBVIOUS
  <2>1. PICK S \in Bad : \A T \in Bad : Cardinality(S) <= Cardinality(T)
    <3>1. \A S \in Bad : IsFiniteSet(S)
      BY <1>3
    <3> HIDE DEF Bad
    <3> QED
      BY <3>1, SmallestSet
  <2>2. S \in SUBSET P /\ IsFiniteSet(S) /\ SumOver(e, S) # SumOver(f, At(S))
    BY <1>3, <2>1
  <2>3. S # {}
    <3> SUFFICES ASSUME S = {} PROVE FALSE
      OBVIOUS
    <3>1. At(S) = {}
      OBVIOUS
    <3> HIDE DEF At, e
    <3> QED
      BY <1>1, <1>3, <2>2, <3>1
  <2> DEFINE p == AnyOf(S)
             T == S \ {p}
  <2>4. p \in S /\ Cardinality(T) = Cardinality(S) - 1 /\ Cardinality(S) \in Nat
    BY <2>2, <2>3, AnyOfFacts
  <2>5. T \in SUBSET P /\ SumOver(e, T) = SumOver(f, At(T))
    BY <2>1, <2>2, <2>4
  <2>6. SumOver(e, S) = f[place[p]] + SumOver(e, T)
    <3>1. e[p] = f[place[p]]
      BY <2>2, <2>4
    <3> HIDE DEF e
    <3> QED
      BY <1>3, <2>2, <2>4, <3>1
  <2>7. SumOver(f, At(S)) = f[place[p]] + SumOver(f, At(T))
    <3>1. /\ At(S) \in SUBSET D /\ place[p] \in At(S)
      BY <2>2, <2>4
    <3>2. At(S) \ {place[p]} = At(T)
      BY <2>2, <2>4
    <3> HIDE DEF At
    <3> QED
      BY <1>1, <3>1, <3>2
  <2> HIDE DEF At, e, T, p
  <2> QED
    BY <2>2, <2>5, <2>6, <2>7
<1>5. SumOver(e, P) = SumOver(f, At(P))
  BY <1>4
<1> QED
  BY <1>5 DEF AmountsAt, ElementsAt

\* a sum of so many amounts that lie between two bounds
LEMMA SumBounds ==
    ASSUME NEW D, IsFiniteSet(D), NEW f \in [D -> Nat], NEW lo \in Nat, NEW hi \in Nat,
           \A x \in D : lo <= f[x] /\ f[x] <= hi
    PROVE  /\ Cardinality(D) \in Nat /\ SumOver(f, D) \in Nat
           /\ lo * Cardinality(D) <= SumOver(f, D) /\ SumOver(f, D) <= hi * Cardinality(D)
<1> DEFINE Lies(n, s) == lo * n <= s /\ s <= hi * n
           Bad == {S \in SUBSET D : ~Lies(Cardinality(S), SumOver(f, S))}
<1>1. /\ SumOver(f, {}) = 0
      /\ \A S \in SUBSET D :
            /\ IsFiniteSet(S) /\ SumOver(f, S) \in Nat /\ Cardinality(S) \in Nat
            /\ \A x \in S : SumOver(f, S) = f[x] + SumOver(f, S \ {x})
  BY SumOfFacts, FS_Subset, FS_CardinalityType
<1>2. Bad = {}
  <2> SUFFICES ASSUME Bad # {} PROVE FALSE
    OBVIOUS
  <2>1. PICK S \in Bad : \A T \in Bad : Cardinality(S) <= Cardinality(T)
    <3>1. \A S \in Bad : IsFiniteSet(S)
      BY <1>1
    <3> HIDE DEF Bad
    <3> QED
      BY <3>1, SmallestSet
  <2>2. S \in SUBSET D /\ IsFiniteSet(S) /\ ~Lies(Cardinality(S), SumOver(f, S))
    BY <1>1, <2>1
  <2>3. S # {}
    <3> SUFFICES ASSUME S = {} PROVE FALSE
      OBVIOUS
    <3>1. Cardinality(S) = 0 /\ SumOver(f, S) = 0
      BY <1>1, FS_EmptySet
    <3> QED
      BY <2>2, <3>1
  <2> DEFINE x == AnyOf(S)
             T == S \ {x}
             n == Cardinality(S)
             s == SumOver(f, S)
             t == SumOver(f, T)
  <2>4. x \in S /\ Cardinality(T) = n - 1 /\ n \in Nat
    BY <2>2, <2>3, AnyOfFacts
  <2>5. T \in SUBSET D /\ Lies(n - 1, t)
    <3>1. T \in SUBSET D /\ T \notin Bad
      BY <2>1, <2>2, <2>4
    <3> QED
      BY <2>4, <3>1
  <2>6. s = f[x] + t
    BY <1>1, <2>2, <2>4
  <2>7. /\ f[x] \in Nat /\ lo <= f[x] /\ f[x] <= hi /\ t \in Nat /\ s \in Nat /\ ~Lies(n, s)
    BY <1>1, <2>2, <2>4, <2>5
  <2> HIDE DEF x, T, s, t, n
  <2>8. /\ lo * (n - 1) = lo * n - lo /\ hi * (n - 1) = hi * n - hi
        /\ lo * n \in Nat /\ hi * n \in Nat
    BY <2>4
  <2> DEFINE u == lo * n
             v == hi * n
  <2>9. u - lo <= t /\ t <= v - hi /\ ~(u <= s /\ s <= v) /\ u \in Nat /\ v \in Nat
    BY <2>5, <2>7, <2>8
  <2> HIDE DEF u, v, Lies
  <2> QED
    BY <2>6, <2>7, <2>9
<1>3. Lies(Cardinality(D), SumOver(f, D))
  BY <1>2
<1> QED
  BY <1>1, <1>3

-----------------------------------------------------------------------------
(* PluginRegistry: any plugins, any adapters of theirs, and any of them    *)
(* may throw while they are loaded or unloaded                             *)

RegistryTypeOK ==
    /\ plugins \subseteq Plugins
    /\ adapters \in [PluginMerchants -> SUBSET Plugins]
    /\ unloaded \in [Plugins -> SUBSET PluginMerchants]
    /\ rivals \in [Plugins -> SUBSET Plugins]

RegistryInv == RegistryTypeOK /\ AdaptersAreOwned

-----------------------------------------------------------------------------
\* the merchants a plugin gets are among its own, and all of them if no load
\* throws (plugin-registry.ts, register)
LEMMA InstalledFacts ==
    ASSUME NEW p \in Plugins, NEW n \in {Len(MerchantsOf[p])} \cup DOMAIN MerchantsOf[p]
    PROVE  /\ MerchantsIn(p) \subseteq PluginMerchants
           /\ Installed(p, n) \subseteq MerchantsIn(p)
<1>1. /\ MerchantsOf[p] \in Seq(PluginMerchants)
      /\ Len(MerchantsOf[p]) \in Nat
      /\ DOMAIN MerchantsOf[p] = 1..Len(MerchantsOf[p])
      /\ \A i \in 1..Len(MerchantsOf[p]) : MerchantsOf[p][i] \in PluginMerchants
  BY PluginAssumption
<1>2. 1..n \subseteq DOMAIN MerchantsOf[p]
  BY <1>1
<1> QED
  BY <1>1, <1>2 DEF MerchantsIn, Installed, ToSet

\* an empty registry has nothing to own
LEMMA RegistryStarts == RegistryInit => RegistryInv
BY DEF RegistryInit, RegistryInv, RegistryTypeOK, AdaptersAreOwned, GetAdapter

\* registering a plugin, also one whose load throws half-way
LEMMA RegisterStep ==
    ASSUME RegistryInv, NEW p \in Plugins, Register(p)
    PROVE  RegistryInv'
<1>1. PICK n \in {Len(MerchantsOf[p])} \cup DOMAIN MerchantsOf[p] : Install(p, n)
  BY DEF Register, Progress
<1>2. /\ adapters' = [m \in PluginMerchants |->
                IF m \in Installed(p, n) THEN {p} ELSE adapters[m]]
      /\ unloaded' = [unloaded EXCEPT ![p] = MerchantsIn(p) \ Installed(p, n)]
  BY <1>1 DEF Install
<1>3. /\ p \notin plugins /\ plugins' = plugins \cup {p}
      /\ rivals' = [q \in Plugins |-> IF q \in plugins THEN rivals[q] \cup {p} ELSE {}]
  BY DEF Register, Meet
<1>4. /\ MerchantsIn(p) \subseteq PluginMerchants
      /\ Installed(p, n) \subseteq MerchantsIn(p)
      /\ \A q : MerchantsIn(q)' = MerchantsIn(q)
  BY <1>1, InstalledFacts DEF MerchantsIn
<1>5. RegistryTypeOK'
  BY <1>2, <1>3, <1>4 DEF RegistryInv, RegistryTypeOK
<1>6. ASSUME NEW m \in PluginMerchants, NEW q \in adapters'[m]
      PROVE  q \in plugins' /\ m \in MerchantsIn(q)
  BY <1>2, <1>3, <1>4, <1>6 DEF RegistryInv, RegistryTypeOK, AdaptersAreOwned, GetAdapter
<1>7. ASSUME NEW q \in plugins', NEW m \in MerchantsIn(q) \ unloaded'[q]
      PROVE  adapters'[m] = {q} \/ \E r \in rivals'[q] : m \in MerchantsIn(r)
  <2>1. CASE q = p
    BY <1>2, <1>4, <1>7, <2>1 DEF RegistryInv, RegistryTypeOK
  <2>2. CASE q # p
    <3>1. /\ q \in plugins /\ q \in Plugins
          /\ unloaded'[q] = unloaded[q] /\ rivals'[q] = rivals[q] \cup {p}
      BY <1>2, <1>3, <1>7, <2>2 DEF RegistryInv, RegistryTypeOK
    <3>2. adapters[m] = {q} \/ \E r \in rivals[q] : m \in MerchantsIn(r)
      BY <1>7, <3>1 DEF RegistryInv, AdaptersAreOwned, GetAdapter
    <3>3. CASE m \in Installed(p, n)
      BY <1>4, <3>1, <3>3
    <3>4. CASE m \notin Installed(p, n) /\ adapters[m] = {q}
      <4>1. m \in PluginMerchants
        BY <1>7, <3>1, InstalledFacts
      <4> QED
        BY <1>2, <3>4, <4>1
    <3> QED
      BY <3>1, <3>2, <3>3, <3>4
  <2> QED
    BY <2>1, <2>2
<1> QED
  BY <1>4, <1>5, <1>6, <1>7 DEF RegistryInv, AdaptersAreOwned, GetAdapter

\* unregistering a plugin takes the adapters of its merchants, whose they may
\* be, and leaves it registered if its unload throws
LEMMA UnregisterStep ==
    ASSUME RegistryInv, NEW p \in Plugins, Unregister(p)
    PROVE  RegistryInv'
<1>1. /\ p \in plugins /\ plugins \ {p} \subseteq plugins' /\ plugins' \subseteq plugins
      /\ unloaded' = unloaded
      /\ adapters' = [m \in PluginMerchants |->
                        IF m \in MerchantsIn(p) THEN {} ELSE adapters[m]]
      /\ rivals' = [q \in Plugins |-> IF q \in plugins' THEN rivals[q] \cup {p} ELSE {}]
  BY DEF Unregister, Meet
<1>2. \A q : MerchantsIn(q)' = MerchantsIn(q)
  BY DEF MerchantsIn
<1>3. RegistryTypeOK'
  BY <1>1 DEF RegistryInv, RegistryTypeOK
<1>4. ASSUME NEW m \in PluginMerchants, NEW q \in adapters'[m]
      PROVE  q \in plugins' /\ m \in MerchantsIn(q)
  <2>1. m \notin MerchantsIn(p) /\ q \in adapters[m]
    BY <1>1, <1>4
  <2>2. q \in plugins /\ m \in MerchantsIn(q)
    BY <2>1 DEF RegistryInv, AdaptersAreOwned, GetAdapter
  <2> QED
    BY <1>1, <2>1, <2>2
<1>5. ASSUME NEW q \in plugins', NEW m \in MerchantsIn(q) \ unloaded'[q]
      PROVE  adapters'[m] = {q} \/ \E r \in rivals'[q] : m \in MerchantsIn(r)
  <2>1. q \in plugins /\ q \in Plugins /\ rivals'[q] = rivals[q] \cup {p}
    BY <1>1, <1>5 DEF RegistryInv, RegistryTypeOK
  <2>2. adapters[m] = {q} \/ \E r \in rivals[q] : m \in MerchantsIn(r)
    BY <1>1, <1>5, <2>1 DEF RegistryInv, AdaptersAreOwned, GetAdapter
  <2>3. CASE m \in MerchantsIn(p)
    BY <2>1, <2>3
  <2>4. CASE m \notin MerchantsIn(p) /\ adapters[m] = {q}
    <3>1. m \in PluginMerchants
      BY <1>5, <2>1, InstalledFacts
    <3> QED
      BY <1>1, <2>4, <3>1
  <2> QED
    BY <2>1, <2>2, <2>3, <2>4
<1> QED
  BY <1>2, <1>3, <1>4, <1>5 DEF RegistryInv, AdaptersAreOwned, GetAdapter

-----------------------------------------------------------------------------
(***************************************************************************)
(* The inductive invariant of the registry: whatever is registered and     *)
(* unregistered, in whatever order.                                        *)
(***************************************************************************)
THEOREM RegistryInvariance == RegistrySpec => []RegistryInv
<1>1. RegistryInit => RegistryInv
  BY RegistryStarts
<1>2. RegistryInv /\ [RegistryNext]_registryVars => RegistryInv'
  <2> SUFFICES ASSUME RegistryInv, [RegistryNext]_registryVars PROVE RegistryInv'
    OBVIOUS
  <2>1. CASE \E p \in Plugins : Register(p)
    BY <2>1, RegisterStep
  <2>2. CASE \E p \in Plugins : Unregister(p)
    BY <2>2, UnregisterStep
  <2>3. CASE ClearRegistry
    BY <2>3 DEF ClearRegistry, RegistryInv, RegistryTypeOK, AdaptersAreOwned, GetAdapter
  <2>4. CASE UNCHANGED registryVars
    BY <2>4 DEF registryVars, RegistryInv, RegistryTypeOK, AdaptersAreOwned, GetAdapter,
                MerchantsIn
  <2> QED
    BY <2>1, <2>2, <2>3, <2>4 DEF RegistryNext
<1> QED
  BY <1>1, <1>2, PTL DEF RegistrySpec

(***************************************************************************)
(* Every adapter in use is of a registered plugin that has the merchant,   *)
(* and a registered plugin answers for its merchants but for those its own *)
(* load never got to and those of a plugin registered or unregistered      *)
(* after it, also when loads and unloads throw half-way                    *)
(* (plugin-registry.ts, register and unregister).                          *)
(***************************************************************************)
THEOREM AdaptersOwned == RegistrySpec => []AdaptersAreOwned
<1>1. RegistryInv => AdaptersAreOwned
  BY DEF RegistryInv
<1> QED
  BY RegistryInvariance, <1>1, PTL

-----------------------------------------------------------------------------
(* SchemaMigrations: any set of migrations, any of them irreversible, and  *)
(* any number of attempts to open the database                             *)

DatabaseTypeOK ==
    /\ database \in [version : {0, 1, 2}, store : BOOLEAN,
                     indexes : SUBSET SavingsIndexes, rows : Nat]
    /\ opened \in {"never", "failed", "open"}
    /\ environment \in Environments

RunnerTypeOK ==
    /\ runner.migrations \subseteq Steps /\ runner.irreversible \subseteq Steps
    /\ runner = [migrations |-> runner.migrations, irreversible |-> runner.irreversible,
                 result |-> runner.result]

\* the conjuncts of NeverHalfMigrated about the database, and about the runner
DatabaseIsWhole ==
    /\ database.version = 2 => database.store /\ database.indexes = SavingsIndexes
    /\ database.version = 1 => database.store /\ database.indexes = {} /\ database.rows = 1
    /\ database.version = 0 => database = NoDatabase
    /\ opened = "open" => database.version = 2

IsRun(result) ==
    /\ result.success => result.applied = result.wanted
    /\ ~result.success /\ result.wanted # {} => result.applied # result.wanted
    /\ \A v \in result.applied, w \in result.wanted \ result.applied :
        IF result.down THEN v > w ELSE v < w

MigrationInv == DatabaseTypeOK /\ RunnerTypeOK /\ DatabaseIsWhole /\ IsRun(runner.result)

-----------------------------------------------------------------------------
\* of some numbers below a bound, one is the greatest: Max chooses it
LEMMA MaxFacts ==
    ASSUME NEW S \in SUBSET Nat, S # {}, NEW bound \in Nat, \A x \in S : x <= bound
    PROVE  Max(S) \in S /\ \A y \in S : Max(S) >= y
<1> DEFINE Above(x) == {y \in S : y > x}
           R == StrictSubsetOrdering(Nat)
           T == {Above(x) : x \in S}
<1>1. ASSUME NEW x \in S
      PROVE  Above(x) \in FiniteSubsetsOf(Nat)
  <2>1. IsFiniteSet(Above(x))
    BY FS_BoundedSetOfNaturals
  <2> QED
    BY <2>1 DEF FiniteSubsetsOf
<1>2. PICK least \in T : \A U \in T : <<U, least>> \notin R
  <2>1. T # {} /\ T \subseteq FiniteSubsetsOf(Nat)
    BY <1>1
  <2>2. IsWellFoundedOn(R, FiniteSubsetsOf(Nat))
    BY FS_StrictSubsetOrderingWellFounded
  <2> HIDE DEF T, R
  <2> QED
    BY <2>1, <2>2, WFMin
<1>3. PICK x \in S : least = Above(x)
  OBVIOUS
<1>4. \A y \in S : x >= y
  <2>1. SUFFICES ASSUME NEW y \in S, y > x PROVE FALSE
    OBVIOUS
  <2>2. x \in Nat /\ y \in Nat /\ Above(y) \subseteq Nat
    OBVIOUS
  <2>3. Above(y) \subseteq Above(x)
    <3>1. \A z \in Nat : z > y => z > x
      BY <2>1, <2>2
    <3> QED
      BY <2>2, <3>1
  <2>4. y \in Above(x) /\ y \notin Above(y)
    BY <2>1, <2>2
  <2>5. <<Above(y), Above(x)>> \in R
    <3>1. Above(x) \subseteq Nat /\ Above(y) \subseteq Nat /\ Above(y) # Above(x)
      BY <2>4
    <3> HIDE DEF Above
    <3> QED
      BY <2>3, <3>1 DEF StrictSubsetOrdering
  <2> QED
    BY <1>2, <1>3, <2>5
<1> QED
  BY <1>4 DEF Max

\* a new installation, and one of an earlier release, are whole
LEMMA MigrationStarts == MigrationInit => MigrationInv
<1> SUFFICES ASSUME MigrationInit PROVE MigrationInv
  OBVIOUS
<1>1. RunnerTypeOK /\ runner.result = NoResult
  BY DEF MigrationInit, RunnerTypeOK
<1>2. DatabaseTypeOK /\ DatabaseIsWhole
  <2>1. opened = "never" /\ environment \in Environments
    BY DEF MigrationInit
  <2>2. CASE database = NoDatabase
    BY <2>1, <2>2 DEF DatabaseTypeOK, DatabaseIsWhole, NoDatabase
  <2>3. CASE database = [version |-> 1, store |-> TRUE, indexes |-> {}, rows |-> 1]
    BY <2>1, <2>3 DEF DatabaseTypeOK, DatabaseIsWhole
  <2> QED
    BY <2>2, <2>3 DEF MigrationInit
<1> QED
  BY <1>1, <1>2 DEF MigrationInv, IsRun, NoResult

\* opening the database takes all of the upgrade, or nothing
LEMMA OpenStep ==
    ASSUME MigrationInv, OpenSavings
    PROVE  MigrationInv'
<1>1. UNCHANGED <<environment, runner>>
  BY DEF OpenSavings, Created
<1>2. RunnerTypeOK' /\ IsRun(runner.result)'
  BY <1>1 DEF MigrationInv, RunnerTypeOK, IsRun
<1>3. CASE database.version = 2
  BY <1>1, <1>2, <1>3 DEF OpenSavings, Created, MigrationInv, DatabaseTypeOK, DatabaseIsWhole
<1>4. CASE database.version < 2
  <2> DEFINE created == [database EXCEPT !.store = TRUE]
             this == IF database.version < 1 THEN created ELSE database
  <2>1. CASE UpThrows(this)
    BY <1>1, <1>2, <1>4, <2>1
       DEF OpenSavings, Created, MigrationInv, DatabaseTypeOK, DatabaseIsWhole
  <2>2. CASE ~UpThrows(this)
    <3>1. /\ database' = [AddSavingsIndexes(this) EXCEPT !.version = 2]
          /\ opened' = "open"
      BY <1>4, <2>2 DEF OpenSavings, Created
    <3>2. /\ this \in [version : {0, 1, 2}, store : BOOLEAN,
                       indexes : SUBSET SavingsIndexes, rows : Nat]
          /\ this.store
      BY <2>2 DEF MigrationInv, DatabaseTypeOK, UpThrows
    <3> HIDE DEF this
    <3>3. /\ database' \in [version : {0, 1, 2}, store : BOOLEAN,
                            indexes : SUBSET SavingsIndexes, rows : Nat]
          /\ database'.version = 2 /\ database'.store /\ database'.indexes = SavingsIndexes
      BY <3>1, <3>2 DEF AddSavingsIndexes
    <3> QED
      BY <1>1, <1>2, <3>1, <3>3 DEF MigrationInv, DatabaseTypeOK, DatabaseIsWhole
  <2> QED
    BY <2>1, <2>2
<1> QED
  BY <1>3, <1>4 DEF MigrationInv, DatabaseTypeOK

\* a saving is put into a database of the new version only
LEMMA PutStep ==
    ASSUME MigrationInv, PutSaving
    PROVE  MigrationInv'
BY DEF PutSaving, MigrationInv, DatabaseTypeOK, RunnerTypeOK, DatabaseIsWhole, IsRun

\* migrating goes up to the first migration that throws
LEMMA MigrateStep ==
    ASSUME MigrationInv, MigrateRunner
    PROVE  MigrationInv'
<1>1. PICK from \in {0} \cup Steps, to \in {0} \cup Steps,
           throws \in SUBSET runner.migrations :
        LET wanted == {v \in runner.migrations : v > from /\ v <= to}
        IN  /\ throws \subseteq wanted
            /\ runner' = [runner EXCEPT !.result =
                    [success |-> throws = {}, wanted |-> wanted, down |-> FALSE,
                     applied |-> IF throws = {} THEN wanted
                                 ELSE Before(wanted, CHOOSE v \in throws : TRUE)]]
            /\ UNCHANGED <<environment, database, opened, attempts>>
  BY DEF MigrateRunner
<1> DEFINE wanted == {v \in runner.migrations : v > from /\ v <= to}
           failed == CHOOSE v \in throws : TRUE
           result == [success |-> throws = {}, wanted |-> wanted, down |-> FALSE,
                      applied |-> IF throws = {} THEN wanted ELSE Before(wanted, failed)]
<1>2. runner' = [runner EXCEPT !.result = result]
  BY <1>1
<1>3. wanted \subseteq Nat /\ (throws # {} => failed \in wanted)
  BY <1>1, MigrationAssumption DEF MigrationInv, RunnerTypeOK
<1>4. IsRun(result)
  <2> HIDE DEF wanted, failed
  <2>1. CASE throws = {}
    BY <2>1 DEF IsRun
  <2>2. CASE throws # {}
    <3>1. failed \in wanted /\ failed \in Nat
      BY <1>3, <2>2
    <3>2. failed \notin Before(wanted, failed)
      BY <3>1 DEF Before
    <3>3. \A v \in Before(wanted, failed), w \in wanted \ Before(wanted, failed) : v < w
      BY <1>3, <3>1 DEF Before
    <3> QED
      BY <2>2, <3>1, <3>2, <3>3 DEF IsRun
  <2> QED
    BY <2>1, <2>2
<1>5. RunnerTypeOK' /\ runner'.result = result
  <2> HIDE DEF result
  <2> QED
    BY <1>2 DEF MigrationInv, RunnerTypeOK
<1>6. DatabaseTypeOK' /\ DatabaseIsWhole'
  BY <1>1 DEF MigrationInv, DatabaseTypeOK, DatabaseIsWhole
<1> QED
  BY <1>4, <1>5, <1>6 DEF MigrationInv, IsRun

\* rolling back goes down to the first migration that throws or has no way back
LEMMA RollbackStep ==
    ASSUME MigrationInv, RollbackRunner
    PROVE  MigrationInv'
<1>1. PICK from \in {0} \cup Steps, to \in {0} \cup Steps,
           throws \in SUBSET runner.migrations :
        LET wanted == {v \in runner.migrations : v > to /\ v <= from}
            fails == throws \cup (runner.irreversible \cap wanted)
        IN  /\ throws \subseteq wanted
            /\ runner' = [runner EXCEPT !.result =
                    IF to >= from
                    THEN [NoResult EXCEPT !.success = FALSE, !.down = TRUE]
                    ELSE [success |-> fails = {}, wanted |-> wanted, down |-> TRUE,
                          applied |-> IF fails = {} THEN wanted
                                      ELSE After(wanted, Max(fails))]]
            /\ UNCHANGED <<environment, database, opened, attempts>>
  BY DEF RollbackRunner
<1> DEFINE wanted == {v \in runner.migrations : v > to /\ v <= from}
           fails == throws \cup (runner.irreversible \cap wanted)
           result == IF to >= from
                     THEN [NoResult EXCEPT !.success = FALSE, !.down = TRUE]
                     ELSE [success |-> fails = {}, wanted |-> wanted, down |-> TRUE,
                           applied |-> IF fails = {} THEN wanted
                                       ELSE After(wanted, Max(fails))]
<1>2. runner' = [runner EXCEPT !.result = result]
  BY <1>1
<1>3. wanted \subseteq Nat /\ fails \subseteq wanted /\ \A v \in wanted : v <= from
  BY <1>1, MigrationAssumption DEF MigrationInv, RunnerTypeOK
<1>4. from \in Nat
  BY MigrationAssumption
<1>5. IsRun(result)
  <2>1. CASE to >= from
    BY <2>1 DEF IsRun, NoResult
  <2>2. CASE ~(to >= from) /\ fails = {}
    <3> HIDE DEF wanted, fails
    <3> QED
      BY <2>2 DEF IsRun
  <2>3. CASE ~(to >= from) /\ fails # {}
    <3> HIDE DEF wanted, fails
    <3> DEFINE last == Max(fails)
    <3>1. last \in fails
      BY <1>3, <1>4, <2>3, MaxFacts
    <3> HIDE DEF last
    <3>2. last \in wanted /\ last \notin After(wanted, last)
      BY <1>3, <3>1 DEF After
    <3>3. \A v \in After(wanted, last), w \in wanted \ After(wanted, last) : v > w
      BY <1>3, <3>2 DEF After
    <3>4. result = [success |-> FALSE, wanted |-> wanted, down |-> TRUE,
                    applied |-> After(wanted, last)]
      BY <2>3 DEF last
    <3> QED
      BY <3>2, <3>3, <3>4 DEF IsRun
  <2> QED
    BY <2>1, <2>2, <2>3
<1>6. RunnerTypeOK' /\ runner'.result = result
  <2> HIDE DEF result
  <2> QED
    BY <1>2 DEF MigrationInv, RunnerTypeOK
<1>7. DatabaseTypeOK' /\ DatabaseIsWhole'
  BY <1>1 DEF MigrationInv, DatabaseTypeOK, DatabaseIsWhole
<1> QED
  BY <1>5, <1>6, <1>7 DEF MigrationInv, IsRun

-----------------------------------------------------------------------------
(***************************************************************************)
(* The inductive invariant of the savings database and of the runner, in   *)
(* a browser and in the stand-in of the tests.                             *)
(***************************************************************************)
THEOREM MigrationInvariance == MigrationSpec => []MigrationInv
<1>1. MigrationInit => MigrationInv
  BY MigrationStarts
<1>2. MigrationInv /\ [MigrationNext]_migrationVars => MigrationInv'
  <2> SUFFICES ASSUME MigrationInv, [MigrationNext]_migrationVars PROVE MigrationInv'
    OBVIOUS
  <2>1. CASE UNCHANGED migrationVars
    BY <2>1 DEF migrationVars, MigrationInv, DatabaseTypeOK, RunnerTypeOK,
                DatabaseIsWhole, IsRun
  <2> QED
    BY <2>1, OpenStep, PutStep, MigrateStep, RollbackStep DEF MigrationNext
<1> QED
  BY <1>1, <1>2, PTL DEF MigrationSpec

(***************************************************************************)
(* Neither a database nor a runner is ever half-migrated                   *)
(* (v2-add-savings-indexes.ts, storage/index.ts).                          *)
(***************************************************************************)
THEOREM WholeMigrations == MigrationSpec => []NeverHalfMigrated
<1>1. MigrationInv => NeverHalfMigrated
  BY DEF MigrationInv, NeverHalfMigrated, DatabaseIsWhole, IsRun
<1> QED
  BY MigrationInvariance, <1>1, PTL

-----------------------------------------------------------------------------
(* EventLog: any options, any size of the queue, and any order of events,  *)
(* flushes and other lines                                                 *)

Texts == {"plain", "hash", "bucket", "[redacted]", "[REDACTED]"}

Keys ==
    IdKeys \cup AmountKeys
        \cup {"feature", "points", "details", "carts", "pii", "error", "context"}

LeafTypes == {"string", "number", "boolean", "bigint"}

Leaves ==
    [path : Seq(Keys) \ {<<>>}, list : BOOLEAN, type : LeafTypes, text : Texts]

\* identifiers are strings and amounts numbers, in what callers hand over
Typed(leaves) ==
    \A l \in leaves : Len(l.path) = 1 =>
        /\ l.path[1] \in IdKeys => l.type = "string"
        /\ l.path[1] \in AmountKeys => l.type = "number"

Events == [id : Nat, properties : SUBSET Leaves, metadata : SUBSET Metadata]

Flushes == [events : Seq(Events), failed : BOOLEAN]

Levels == {"DEBUG", "INFO", "WARN", "ERROR"}

Lines == [level : Levels, id : Nat, context : SUBSET Leaves]

EventTypeOK ==
    /\ options \in LogOptions
    /\ handed \in SUBSET Leaves /\ Typed(handed)
    /\ queue \in Seq(Events) /\ flushing \in Seq(Flushes) /\ lines \in Seq(Lines)
    /\ recorded \in Nat /\ dropped \in SUBSET (1..recorded) /\ retried \in SUBSET (1..recorded)

EventIsAnonymous(event) == NotNamed(event.properties)

LineIsAnonymous(line) ==
    /\ line.id # 0 => NotNamed(line.context)
    /\ \A l \in line.context : l.path[1] # "metadata"
    /\ \A l \in Readable(line.context) : ~l.list => ToSet(l.path) \cap Sensitive = {}

Anonymous ==
    /\ \A i \in 1..Len(queue) : EventIsAnonymous(queue[i])
    /\ \A i \in 1..Len(lines) : LineIsAnonymous(lines[i])

\* what a flush under way took is hidden and was recorded, and noted if it failed
FlushesAreNoted ==
    \A f \in 1..Len(flushing) : \A i \in 1..Len(flushing[f].events) :
        /\ EventIsAnonymous(flushing[f].events[i])
        /\ flushing[f].events[i].id \in 1..recorded
        /\ flushing[f].failed => flushing[f].events[i].id \in retried

QueueInOrder ==
    /\ \A i, j \in 1..Len(queue) :
          i < j /\ queue[i].id \notin retried /\ queue[j].id \notin retried =>
            queue[i].id < queue[j].id
    /\ \A i \in 1..Len(queue) : queue[i].id \in 1..recorded
    /\ retried = {} => Len(queue) <= MaxQueueSize

LinesInOrder ==
    /\ \A i, j \in 1..Len(lines) :
          i < j /\ lines[i].id \notin {0} \cup retried /\ lines[j].id \notin {0} \cup retried =>
            lines[i].id < lines[j].id
    /\ \A i \in 1..Len(lines), j \in 1..Len(queue) :
          lines[i].id \notin retried /\ queue[j].id \notin retried =>
            lines[i].id < queue[j].id
    /\ \A i \in 1..Len(lines) : lines[i].id <= recorded

IsTaken(e) ==
    \E f \in 1..Len(flushing) :
        /\ flushing[f].failed
        /\ \E i \in 1..Len(flushing[f].events) : flushing[f].events[i].id = e

NoneIsLost ==
    ShouldLog("DEBUG") =>
        \A e \in 1..recorded :
            \/ \E i \in 1..Len(lines) : lines[i].id = e
            \/ \E i \in 1..Len(queue) : queue[i].id = e
            \/ e \in dropped
            \/ IsTaken(e)

EventInv ==
    EventTypeOK /\ Anonymous /\ FlushesAreNoted /\ QueueInOrder /\ LinesInOrder /\ NoneIsLost

\* a path that is blanked leaves all the rest of a leaf
LEMMA BlankKeeps ==
    ASSUME NEW k \in Leaves
    PROVE  /\ Blank(k) \in Leaves /\ Blank(k).path = k.path /\ Blank(k).type = k.type
           /\ Blank(k).text = "plain" => k.text = "plain"
<1>1. /\ [k EXCEPT !.text = "[redacted]"] \in Leaves
      /\ [k EXCEPT !.text = "[redacted]"].path = k.path
      /\ [k EXCEPT !.text = "[redacted]"].type = k.type
      /\ [k EXCEPT !.text = "[redacted]"].text # "plain"
  BY DEF Leaves, Texts
<1>2. Blank(k) = k \/ Blank(k) = [k EXCEPT !.text = "[redacted]"]
  BY DEF Blank
<1> QED
  BY <1>1, <1>2

\* what the recorder hides stays hidden
LEMMA RecordedIsAnonymous ==
    ASSUME NEW own \in SUBSET Leaves, NEW callers \in SUBSET Leaves,
           Typed(own), Typed(callers)
    PROVE  /\ RecordedProperties(own, callers) \in SUBSET Leaves
           /\ NotNamed(RecordedProperties(own, callers))
<1>1. ASSUME NEW l \in Leaves
      PROVE  /\ Blank(RedactValue(l)) \in Leaves
             /\ Blank(RedactValue(l)).path = l.path
             /\ Blank(RedactValue(l)).text = "plain" => RedactValue(l).text = "plain"
  <2>1. RedactValue(l) \in Leaves /\ RedactValue(l).path = l.path
    <3>1. \A t \in Texts : [l EXCEPT !.text = t] \in Leaves /\ [l EXCEPT !.text = t].path = l.path
      BY DEF Leaves
    <3>2. CASE Len(l.path) # 1
      BY <3>2 DEF RedactValue
    <3>3. CASE Len(l.path) = 1 /\ l.path[1] \in IdKeys /\ l.type = "string"
      <4>1. RedactValue(l) = [l EXCEPT !.text = "hash"]
        BY <3>3 DEF RedactValue
      <4> QED
        BY <3>1, <4>1 DEF Texts
    <3>4. CASE /\ Len(l.path) = 1 /\ ~(l.path[1] \in IdKeys /\ l.type = "string")
               /\ l.path[1] \in AmountKeys /\ l.type = "number"
      <4>1. RedactValue(l) = [l EXCEPT !.text = "bucket"]
        BY <3>4 DEF RedactValue
      <4> QED
        BY <3>1, <4>1 DEF Texts
    <3>5. CASE /\ Len(l.path) = 1 /\ ~(l.path[1] \in IdKeys /\ l.type = "string")
               /\ ~(l.path[1] \in AmountKeys /\ l.type = "number")
      <4>1. RedactValue(l) = l
        BY <3>5 DEF RedactValue
      <4> QED
        BY <4>1
    <3> QED
      BY <3>2, <3>3, <3>4, <3>5
  <2> QED
    BY <2>1, BlankKeeps
<1>2. ASSUME NEW l \in Leaves, Len(l.path) = 1, RedactValue(l).text = "plain",
             l.path[1] \in IdKeys => l.type = "string",
             l.path[1] \in AmountKeys => l.type = "number"
      PROVE  l.path[1] \notin IdKeys \cup AmountKeys
  BY <1>2 DEF RedactValue, Leaves, Texts
<1>3. \A l \in Over(own, callers) : /\ l \in Leaves
                                    /\ Len(l.path) = 1 =>
                                         /\ l.path[1] \in IdKeys => l.type = "string"
                                         /\ l.path[1] \in AmountKeys => l.type = "number"
  BY DEF Over, Typed
<1> QED
  BY <1>1, <1>2, <1>3 DEF RecordedProperties, RedactProperties, NotNamed, Readable

\* the logger redacts what may not be read outside arrays, and shows no more
LEMMA LineProperties ==
    ASSUME NEW level \in Levels, NEW id \in Nat, NEW context \in SUBSET Leaves,
           id # 0 => NotNamed(context)
    PROVE  /\ Line(level, id, context) \in Lines /\ Line(level, id, context).id = id
           /\ LineIsAnonymous(Line(level, id, context))
<1> DEFINE line == Line(level, id, context)
<1>1. ASSUME NEW l \in Leaves
      PROVE  /\ Redacted(l) \in Leaves /\ Redacted(l).path = l.path
             /\ Redacted(l).list = l.list
             /\ Redacted(l).path[1] # "metadata"
             /\ Redacted(l).text = "plain" =>
                    l.text = "plain" /\ (~l.list => ToSet(l.path) \cap Sensitive = {})
  <2>1. /\ [l EXCEPT !.text = "[REDACTED]"] \in Leaves
        /\ [l EXCEPT !.text = "[REDACTED]"].path = l.path
        /\ [l EXCEPT !.text = "[REDACTED]"].list = l.list
        /\ [l EXCEPT !.text = "[REDACTED]"].text # "plain"
    BY DEF Leaves, Texts
  <2>2. \/ Redacted(l) = [l EXCEPT !.text = "[REDACTED]"]
        \/ Redacted(l) = l /\ (~l.list => ToSet(l.path) \cap Sensitive = {})
    BY DEF Redacted
  <2>3. l.path[1] \in Keys /\ "metadata" \notin Keys
    BY DEF Leaves, Keys, IdKeys, AmountKeys
  <2> QED
    BY <2>1, <2>2, <2>3
<1>2. /\ line.context = {Redacted(l) : l \in context} /\ line.id = id
      /\ line = [level |-> level, id |-> id, context |-> line.context]
  BY DEF Line
<1> HIDE DEF line
<1>3. line.context \in SUBSET Leaves
  BY <1>1, <1>2
<1>4. line \in Lines
  BY <1>2, <1>3 DEF Lines
<1>5. id # 0 => NotNamed(line.context)
  BY <1>1, <1>2 DEF NotNamed, Readable
<1>6. /\ \A l \in line.context : l.path[1] # "metadata"
      /\ \A l \in Readable(line.context) : ~l.list => ToSet(l.path) \cap Sensitive = {}
  BY <1>1, <1>2 DEF Readable
<1> QED
  BY <1>2, <1>4, <1>5, <1>6 DEF LineIsAnonymous, line

LEMMA OutputProperties ==
    ASSUME NEW level \in Levels, NEW context \in SUBSET Leaves
    PROVE  /\ Output(level, 0, context) \in Seq(Lines)
           /\ \A k \in 1..Len(Output(level, 0, context)) :
                /\ Output(level, 0, context)[k].id = 0
                /\ LineIsAnonymous(Output(level, 0, context)[k])
<1> DEFINE line == Line(level, 0, context)
<1>1. line \in Lines /\ line.id = 0 /\ LineIsAnonymous(line)
  BY LineProperties
<1> DEFINE out == Output(level, 0, context)
<1>2. out = <<line>> \/ out = <<>>
  BY DEF Output
<1> HIDE DEF line, out
<1>3. \/ out \in Seq(Lines) /\ Len(out) = 1 /\ out[1] = line
      \/ out \in Seq(Lines) /\ Len(out) = 0
  <2>1. /\ <<line>> \in Seq(Lines) /\ Len(<<line>>) = 1 /\ <<line>>[1] = line
        /\ <<>> \in Seq(Lines) /\ Len(<<>>) = 0
    BY <1>1
  <2> QED
    BY <1>2, <2>1
<1> HIDE DEF out
<1>4. \A k \in 1..Len(out) : out[k].id = 0 /\ LineIsAnonymous(out[k])
  BY <1>1, <1>3
<1> QED
  BY <1>3, <1>4 DEF out

\* lines that are put out follow those there are
LEMMA LinesGrow ==
    ASSUME NEW old \in Seq(Lines), NEW more \in Seq(Lines)
    PROVE  /\ old \o more \in Seq(Lines) /\ Len(old \o more) = Len(old) + Len(more)
           /\ \A i \in 1..Len(old) : (old \o more)[i] = old[i]
           /\ \A k \in 1..Len(more) : (old \o more)[Len(old) + k] = more[k]
           /\ \A i \in 1..Len(old \o more) : i \notin 1..Len(old) =>
                i - Len(old) \in 1..Len(more) /\ i = Len(old) + (i - Len(old))
<1>1. /\ old \o more \in Seq(Lines) /\ Len(old \o more) = Len(old) + Len(more)
      /\ \A i \in 1..Len(old) + Len(more) : (old \o more)[i] =
            IF i <= Len(old) THEN old[i] ELSE more[i - Len(old)]
  BY ConcatProperties
<1>2. ASSUME NEW k \in 1..Len(more) PROVE (old \o more)[Len(old) + k] = more[k]
  <2>1. Len(old) + k \in 1..Len(old) + Len(more) /\ ~(Len(old) + k <= Len(old))
        /\ (Len(old) + k) - Len(old) = k
    OBVIOUS
  <2> QED
    BY <1>1, <2>1
<1>3. ASSUME NEW i \in 1..Len(old) PROVE (old \o more)[i] = old[i]
  BY <1>1
<1> QED
  BY <1>1, <1>2, <1>3

\* lines of no event
LEMMA OtherLines ==
    ASSUME EventInv, NEW more \in Seq(Lines), lines' = lines \o more,
           \A k \in 1..Len(more) : more[k].id = 0 /\ LineIsAnonymous(more[k])
    PROVE  /\ lines' \in Seq(Lines)
           /\ \A i \in 1..Len(lines') : LineIsAnonymous(lines'[i])
           /\ \A m, n \in 1..Len(lines') :
                m < n /\ lines'[m].id \notin {0} \cup retried /\ lines'[n].id \notin {0} \cup retried =>
                    lines'[m].id < lines'[n].id
           /\ \A i \in 1..Len(lines') : lines'[i].id <= recorded
           /\ \A i \in 1..Len(lines'), j \in 1..Len(queue) :
                lines'[i].id \notin retried /\ queue[j].id \notin retried =>
                    lines'[i].id < queue[j].id
           /\ \A i \in 1..Len(lines) : i \in 1..Len(lines') /\ lines'[i] = lines[i]
<1>1. lines \in Seq(Lines) /\ Len(lines) \in Nat /\ Len(more) \in Nat
  BY DEF EventInv, EventTypeOK
<1>2. /\ lines' \in Seq(Lines) /\ Len(lines') = Len(lines) + Len(more)
      /\ \A i \in 1..Len(lines) : lines'[i] = lines[i]
      /\ \A i \in 1..Len(lines') : i \notin 1..Len(lines) =>
            lines'[i].id = 0 /\ LineIsAnonymous(lines'[i])
  BY <1>1, LinesGrow
<1>3. \A i \in 1..Len(lines') : LineIsAnonymous(lines'[i])
  BY <1>2 DEF EventInv, Anonymous
<1>4. \A i \in 1..Len(lines') : lines'[i].id <= recorded
  BY <1>2 DEF EventInv, EventTypeOK, LinesInOrder
<1>5. \A i \in 1..Len(lines'), j \in 1..Len(queue) :
        lines'[i].id \notin retried /\ queue[j].id \notin retried => lines'[i].id < queue[j].id
  BY <1>2 DEF EventInv, EventTypeOK, LinesInOrder, QueueInOrder
<1>6. \A m, n \in 1..Len(lines') :
        m < n /\ lines'[m].id \notin {0} \cup retried /\ lines'[n].id \notin {0} \cup retried =>
            lines'[m].id < lines'[n].id
  BY <1>2 DEF EventInv, LinesInOrder
<1> QED
  BY <1>1, <1>2, <1>3, <1>4, <1>5, <1>6

\* a flush puts the first n events of the queue out, unless the level hides them
LEMMA SentLines ==
    ASSUME EventInv, NEW n \in 0..Len(queue)
    PROVE  LET more == SendEvents(queue, n)
           IN  /\ more \in Seq(Lines)
               /\ \A k \in 1..Len(more) : k \in 1..Len(queue) /\ more[k].id = queue[k].id
               /\ \A k \in 1..Len(more) : LineIsAnonymous(more[k])
               /\ ShouldLog("DEBUG") => Len(more) = n
<1> DEFINE line(i) == EventLine(queue[i])
           more == SendEvents(queue, n)
<1>1. queue \in Seq(Events) /\ Len(queue) \in Nat /\ n \in Nat /\ n <= Len(queue)
  BY DEF EventInv, EventTypeOK
<1>2. \A i \in 1..Len(queue) : /\ line(i) \in Lines /\ line(i).id = queue[i].id
                               /\ LineIsAnonymous(line(i))
  <2>1. ASSUME NEW i \in 1..Len(queue)
        PROVE  queue[i].id \in Nat /\ queue[i].properties \in SUBSET Leaves
    <3>1. queue[i] \in Events
      BY <1>1
    <3> QED
      BY <3>1 DEF Events
  <2>2. \A i \in 1..Len(queue) : NotNamed(queue[i].properties)
    BY DEF EventInv, Anonymous, EventIsAnonymous
  <2>3. "DEBUG" \in Levels
    BY DEF Levels
  <2> QED
    BY <2>1, <2>2, <2>3, LineProperties DEF EventLine
<1>3. \/ more = [i \in 1..n |-> line(i)] /\ ShouldLog("DEBUG")
      \/ more = <<>> /\ ~ShouldLog("DEBUG")
  BY DEF SendEvents
<1> HIDE DEF line, more
<1>4. CASE more = [i \in 1..n |-> line(i)] /\ ShouldLog("DEBUG")
  <2>1. more \in [1..n -> Lines] /\ \A i \in 1..n : more[i] = line(i)
    BY <1>1, <1>2, <1>4
  <2>2. more \in Seq(Lines) /\ Len(more) = n
    BY <1>1, <2>1
  <2> QED
    BY <1>1, <1>2, <2>1, <2>2 DEF more
<1>5. CASE more = <<>> /\ ~ShouldLog("DEBUG")
  <2>1. more \in Seq(Lines) /\ Len(more) = 0
    BY <1>5
  <2> QED
    BY <1>5, <2>1 DEF more
<1> QED
  BY <1>3, <1>4, <1>5

LEMMA LeafProperties ==
    ASSUME NEW type \in LeafTypes
    PROVE  /\ \A a \in Keys : /\ Leaf(<<a>>, type) \in Leaves
                              /\ Leaf(<<a>>, type).path = <<a>>
                              /\ Leaf(<<a>>, type).type = type
           /\ \A a, b \in Keys : /\ Leaf(<<a, b>>, type) \in Leaves
                                 /\ Len(Leaf(<<a, b>>, type).path) = 2
           /\ \A a, b, c \in Keys : /\ Leaf(<<a, b, c>>, type) \in Leaves
                                    /\ Len(Leaf(<<a, b, c>>, type).path) = 3
<1>1. ASSUME NEW path \in Seq(Keys) \ {<<>>}
      PROVE  /\ Leaf(path, type) \in Leaves
             /\ Leaf(path, type).path = path /\ Leaf(path, type).type = type
  BY DEF Leaf, Leaves, Texts
<1>2. \A a \in Keys : <<a>> \in Seq(Keys) \ {<<>>}
  OBVIOUS
<1>3. \A a, b \in Keys : <<a, b>> \in Seq(Keys) \ {<<>>} /\ Len(<<a, b>>) = 2
  OBVIOUS
<1>4. \A a, b, c \in Keys : <<a, b, c>> \in Seq(Keys) \ {<<>>} /\ Len(<<a, b, c>>) = 3
  OBVIOUS
<1>5. \A a \in Keys : /\ Leaf(<<a>>, type) \in Leaves
                     /\ Leaf(<<a>>, type).path = <<a>>
                     /\ Leaf(<<a>>, type).type = type
  BY <1>1, <1>2
<1>6. ASSUME NEW a \in Keys, NEW b \in Keys
      PROVE  Leaf(<<a, b>>, type) \in Leaves /\ Len(Leaf(<<a, b>>, type).path) = 2
  BY <1>1, <1>3
<1>7. ASSUME NEW a \in Keys, NEW b \in Keys, NEW c \in Keys
      PROVE  Leaf(<<a, b, c>>, type) \in Leaves /\ Len(Leaf(<<a, b, c>>, type).path) = 3
  BY <1>1, <1>4
<1> QED
  BY <1>5, <1>6, <1>7

LEMMA HandedIsTyped == Handed \in SUBSET Leaves /\ Typed(Handed)
<1>1. {"feature", "userId", "details", "merchantId", "voucherId", "carts"} \subseteq Keys
  BY DEF Keys, IdKeys
<1> DEFINE F == Leaf(<<"feature">>, "string")
           U == Leaf(<<"userId">>, "string")
           M == Leaf(<<"details", "merchantId">>, "string")
           V == Leaf(<<"details", "voucherId">>, "string")
           C == Leaf(<<"carts", "merchantId">>, "string")
<1>2. /\ F \in Leaves /\ F.path = <<"feature">>
      /\ U \in Leaves /\ U.path = <<"userId">> /\ U.type = "string"
  BY <1>1, LeafProperties DEF LeafTypes
<1>3. /\ M \in Leaves /\ Len(M.path) = 2 /\ V \in Leaves /\ Len(V.path) = 2
      /\ C \in Leaves /\ Len(C.path) = 2
  BY <1>1, LeafProperties DEF LeafTypes
<1> HIDE DEF F, U, M, V, C
<1> DEFINE D == [C EXCEPT !.list = TRUE]
<1>4. D \in Leaves /\ D.path = C.path
  BY <1>3 DEF Leaves
<1>5. Handed = {F, U, M, V, D}
  BY DEF Handed, F, U, M, V, C
<1> HIDE DEF D
<1>6. Handed \in SUBSET Leaves
  BY <1>2, <1>3, <1>4, <1>5
<1>7. ASSUME NEW l \in Handed, Len(l.path) = 1
      PROVE  /\ l.path[1] \in IdKeys => l.type = "string"
             /\ l.path[1] \in AmountKeys => l.type = "number"
  <2>1. l = F \/ l = U
    BY <1>3, <1>4, <1>5, <1>7
  <2>2. "feature" \notin IdKeys \cup AmountKeys /\ "userId" \notin AmountKeys
    BY DEF IdKeys, AmountKeys
  <2> QED
    BY <1>2, <2>1, <2>2
<1> QED
  BY <1>6, <1>7 DEF Typed

LEMMA RecordersAreTyped ==
    ASSUME NEW r \in Recorders
    PROVE  r.own \in SUBSET Leaves /\ Typed(r.own)
<1>1. {"feature", "userId", "voucherId", "savings", "points", "pii"} \subseteq Keys
  BY DEF Keys, IdKeys, AmountKeys
<1> DEFINE F == Leaf(<<"feature">>, "string")
           U == Leaf(<<"userId">>, "string")
           V == Leaf(<<"voucherId">>, "string")
           S == Leaf(<<"savings">>, "number")
           T == Leaf(<<"points">>, "bigint")
           P == Leaf(<<"pii">>, "boolean")
<1>2. /\ F \in Leaves /\ F.path = <<"feature">>
      /\ U \in Leaves /\ U.path = <<"userId">> /\ U.type = "string"
      /\ V \in Leaves /\ V.path = <<"voucherId">> /\ V.type = "string"
      /\ P \in Leaves /\ P.path = <<"pii">>
  BY <1>1, LeafProperties DEF LeafTypes
<1>3. /\ S \in Leaves /\ S.path = <<"savings">> /\ S.type = "number"
      /\ T \in Leaves /\ T.path = <<"points">>
  BY <1>1, LeafProperties DEF LeafTypes
<1>4. ASSUME NEW l \in r.own PROVE l \in {F, U, V, S, T, P}
  BY <1>4 DEF Recorders
<1> HIDE DEF F, U, V, S, T, P
<1>5. r.own \in SUBSET Leaves
  BY <1>2, <1>3, <1>4
<1>6. ASSUME NEW l \in r.own
      PROVE  /\ l.path[1] \in IdKeys => l.type = "string"
             /\ l.path[1] \in AmountKeys => l.type = "number"
  BY <1>2, <1>3, <1>4 DEF IdKeys, AmountKeys
<1> QED
  BY <1>5, <1>6 DEF Typed

\* the caller's properties, blanked below the top
LEMMA AfterIsTyped ==
    ASSUME NEW callers \in SUBSET Leaves, Typed(callers)
    PROVE  AfterRecording(callers) \in SUBSET Leaves /\ Typed(AfterRecording(callers))
<1>1. ASSUME NEW k \in AfterRecording(callers)
      PROVE  \E l \in callers : k \in Leaves /\ k.path = l.path /\ k.type = l.type
  <2>1. PICK l \in callers : k = l \/ k = Blank(l)
    BY <1>1 DEF AfterRecording
  <2> QED
    BY <2>1, BlankKeeps
<1> QED
  BY <1>1 DEF Typed

\* an event that is queued, when there is room and when there is none
LEMMA Queued ==
    ASSUME EventInv, EventAssumption, NEW event \in Events, event.id = recorded + 1,
           NotNamed(event.properties), QueueEvent(event), recorded' = recorded + 1,
           UNCHANGED <<options, flushing, retried>>
    PROVE  /\ queue' \in Seq(Events) /\ lines' \in Seq(Lines)
           /\ dropped' \in SUBSET (1..recorded') /\ retried' \in SUBSET (1..recorded')
           /\ Anonymous' /\ FlushesAreNoted' /\ QueueInOrder' /\ LinesInOrder' /\ NoneIsLost'
<1>1. /\ queue \in Seq(Events) /\ Len(queue) \in Nat /\ recorded \in Nat
      /\ lines \in Seq(Lines) /\ dropped \in SUBSET (1..recorded)
      /\ retried \in SUBSET (1..recorded) /\ event.id \notin retried
      /\ MaxQueueSize \in Nat /\ MaxQueueSize >= 1
  BY DEF EventInv, EventTypeOK, EventAssumption
<1> DEFINE full == Len(queue) >= MaxQueueSize
           rest == IF full THEN Tail(queue) ELSE queue
           k == IF full THEN 1 ELSE 0
           more == IF full THEN Output("WARN", 0, {}) ELSE <<>>
<1>2. /\ rest \in Seq(Events) /\ Len(rest) = Len(queue) - k
      /\ \A i \in 1..Len(rest) : i + k \in 1..Len(queue) /\ rest[i] = queue[i + k]
      /\ k \in Nat /\ (retried = {} => Len(queue) - k < MaxQueueSize)
  <2>1. CASE full
    <3>1. Len(queue) >= 1 /\ queue # <<>>
      BY <1>1, <2>1
    <3>2. /\ Tail(queue) \in Seq(Events) /\ Len(Tail(queue)) = Len(queue) - 1
          /\ \A i \in 1..Len(Tail(queue)) : Tail(queue)[i] = queue[i + 1]
      BY <1>1, <3>1
    <3>3. retried = {} => Len(queue) <= MaxQueueSize
      BY DEF EventInv, QueueInOrder
    <3> QED
      BY <1>1, <2>1, <3>1, <3>2, <3>3
  <2>2. CASE ~full
    BY <1>1, <2>2
  <2> QED
    BY <2>1, <2>2
<1>3. /\ queue' = Append(rest, event) /\ lines' = lines \o more
      /\ dropped' = dropped \cup {queue[i].id : i \in 1..k}
  <2>1. CASE full
    BY <1>1, <2>1 DEF QueueEvent
  <2>2. CASE ~full
    BY <1>1, <2>2 DEF QueueEvent
  <2> QED
    BY <2>1, <2>2
<1>4. /\ more \in Seq(Lines)
      /\ \A m \in 1..Len(more) : more[m].id = 0 /\ LineIsAnonymous(more[m])
  <2>1. "WARN" \in Levels /\ {} \in SUBSET Leaves
    BY DEF Levels
  <2>2. CASE full
    BY <2>1, <2>2, OutputProperties
  <2>3. CASE ~full
    BY <2>3
  <2> QED
    BY <2>2, <2>3
<1> HIDE DEF rest, k, more, full
<1>5. /\ queue' \in Seq(Events) /\ Len(queue') = Len(queue) - k + 1
      /\ \A i \in 1..Len(queue') :
            \/ i \in 1..Len(rest) /\ queue'[i] = rest[i]
            \/ i = Len(queue') /\ queue'[i] = event
  <2>1. /\ Append(rest, event) \in Seq(Events)
        /\ Len(Append(rest, event)) = Len(rest) + 1 /\ Len(rest) \in Nat
        /\ \A i \in 1..Len(rest) : Append(rest, event)[i] = rest[i]
        /\ Append(rest, event)[Len(rest) + 1] = event
    BY <1>2, AppendProperties
  <2>2. \A i \in 1..(Len(rest) + 1) : i \in 1..Len(rest) \/ i = Len(rest) + 1
    BY <2>1
  <2>3. Len(rest) + 1 = Len(queue) - k + 1
    BY <1>2
  <2> QED
    BY <1>3, <2>1, <2>2, <2>3
<1>6. \A i \in 1..Len(queue') :
            \/ i + k \in 1..Len(queue) /\ queue'[i] = queue[i + k] /\ i < Len(queue')
            \/ i = Len(queue') /\ queue'[i] = event
  <2>1. \A i \in 1..Len(rest) : i < Len(queue')
    <3>1. Len(rest) < Len(queue') /\ Len(rest) \in Nat /\ Len(queue') \in Nat
      BY <1>1, <1>2, <1>5
    <3> QED
      BY <3>1
  <2> QED
    BY <1>2, <1>5, <2>1
<1>7. QueueInOrder'
  <2>1. ASSUME NEW i \in 1..Len(queue'), NEW j \in 1..Len(queue'), i < j,
               queue'[i].id \notin retried, queue'[j].id \notin retried
        PROVE  queue'[i].id < queue'[j].id
    <3>1. i + k \in 1..Len(queue) /\ queue'[i] = queue[i + k]
      BY <1>5, <1>6, <2>1
    <3>2. queue[i + k].id \in 1..recorded
      BY <3>1 DEF EventInv, QueueInOrder
    <3>3. CASE j + k \in 1..Len(queue) /\ queue'[j] = queue[j + k]
      <4>1. i + k < j + k
        BY <1>2, <2>1
      <4> QED
        BY <2>1, <3>1, <3>3, <4>1 DEF EventInv, QueueInOrder
    <3>4. CASE queue'[j] = event
      BY <1>1, <3>1, <3>2, <3>4
    <3> QED
      BY <1>6, <3>3, <3>4
  <2>2. \A i \in 1..Len(queue') : queue'[i].id \in 1..recorded'
    BY <1>1, <1>6, SMTT(30) DEF EventInv, QueueInOrder
  <2>3. retried = {} => Len(queue') <= MaxQueueSize
    BY <1>1, <1>2, <1>5
  <2> QED
    BY <2>1, <2>2, <2>3 DEF QueueInOrder
<1>8. /\ lines' \in Seq(Lines)
      /\ \A i \in 1..Len(lines') : LineIsAnonymous(lines'[i])
      /\ \A m, n \in 1..Len(lines') :
            m < n /\ lines'[m].id \notin {0} \cup retried /\ lines'[n].id \notin {0} \cup retried =>
                lines'[m].id < lines'[n].id
      /\ \A i \in 1..Len(lines') : lines'[i].id <= recorded
      /\ \A i \in 1..Len(lines'), j \in 1..Len(queue) :
            lines'[i].id \notin retried /\ queue[j].id \notin retried => lines'[i].id < queue[j].id
      /\ \A i \in 1..Len(lines) : i \in 1..Len(lines') /\ lines'[i] = lines[i]
  BY <1>3, <1>4, OtherLines
<1>9. Anonymous'
  <2>1. \A i \in 1..Len(queue') : EventIsAnonymous(queue'[i])
    BY <1>6 DEF EventInv, Anonymous, EventIsAnonymous
  <2> QED
    BY <1>8, <2>1 DEF Anonymous
<1>10. LinesInOrder'
  <2>1. \A i \in 1..Len(lines') : lines'[i].id \in Nat
    <3>1. \A i \in 1..Len(lines') : lines'[i] \in Lines
      BY <1>8
    <3> QED
      BY <3>1 DEF Lines
  <2>2. \A i \in 1..Len(lines'), j \in 1..Len(queue') :
            lines'[i].id \notin retried /\ queue'[j].id \notin retried =>
                lines'[i].id < queue'[j].id
    <3> SUFFICES ASSUME NEW i \in 1..Len(lines'), NEW j \in 1..Len(queue'),
                        lines'[i].id \notin retried, queue'[j].id \notin retried
                 PROVE  lines'[i].id < queue'[j].id
      OBVIOUS
    <3>1. CASE j + k \in 1..Len(queue) /\ queue'[j] = queue[j + k]
      BY <1>8, <3>1
    <3>2. CASE queue'[j] = event
      <4>1. lines'[i].id <= recorded /\ lines'[i].id \in Nat
        BY <1>8, <2>1
      <4> QED
        BY <1>1, <3>2, <4>1
    <3> QED
      BY <1>6, <3>1, <3>2
  <2>3. \A i \in 1..Len(lines') : lines'[i].id <= recorded'
    BY <1>1, <1>8, <2>1
  <2> QED
    BY <1>8, <2>2, <2>3 DEF LinesInOrder
<1>11. NoneIsLost'
  <2> SUFFICES ASSUME ShouldLog("DEBUG")', NEW e \in 1..recorded'
               PROVE  \/ \E i \in 1..Len(lines') : lines'[i].id = e
                      \/ \E i \in 1..Len(queue') : queue'[i].id = e
                      \/ e \in dropped' \/ IsTaken(e)
    BY DEF NoneIsLost, IsTaken
  <2>1. ShouldLog("DEBUG")
    BY DEF ShouldLog
  <2>2. CASE e = recorded + 1
    <3>1. Len(queue') \in 1..Len(queue') /\ queue'[Len(queue')] = event
      BY <1>1, <1>2, <1>5
    <3> QED
      BY <2>2, <3>1
  <2>3. CASE e \in 1..recorded
    <3>1. CASE \E i \in 1..Len(lines) : lines[i].id = e
      BY <1>8, <3>1
    <3>2. ASSUME NEW i \in 1..Len(queue), queue[i].id = e
          PROVE  e \in dropped' \/ \E j \in 1..Len(queue') : queue'[j].id = e
      <4>1. CASE i \in 1..k
        BY <1>3, <3>2, <4>1
      <4>2. CASE i \notin 1..k
        <5>1. i - k \in 1..Len(rest) /\ (i - k) + k = i
          BY <1>1, <1>2, <4>2
        <5>2. i - k \in 1..Len(queue') /\ queue'[i - k] = queue[i]
          BY <1>1, <1>2, <1>3, <5>1
        <5> QED
          BY <3>2, <5>2
      <4> QED
        BY <4>1, <4>2
    <3>3. CASE e \in dropped
      BY <1>3, <3>3
    <3> QED
      BY <2>1, <2>3, <3>1, <3>2, <3>3 DEF EventInv, NoneIsLost
  <2> QED
    BY <1>1, <2>2, <2>3
<1>12. dropped' \in SUBSET (1..recorded') /\ retried' \in SUBSET (1..recorded')
  <2>1. \A i \in 1..k : i \in 1..Len(queue)
    BY <1>1, <1>2
  <2>2. \A i \in 1..k : queue[i].id \in 1..recorded
    BY <2>1 DEF EventInv, QueueInOrder
  <2> QED
    <3>1. \A d \in dropped' : d \in 1..recorded
      BY <1>1, <1>3, <2>2
    <3> QED
      BY <1>1, <3>1
<1>13. FlushesAreNoted'
  <2>1. 1..recorded \subseteq 1..recorded'
    BY <1>1
  <2> QED
    BY <2>1 DEF EventInv, FlushesAreNoted, EventIsAnonymous
<1> QED
  BY <1>5, <1>7, <1>8, <1>9, <1>10, <1>11, <1>12, <1>13

LEMMA RecordEventStep ==
    ASSUME EventInv, EventAssumption, NEW r \in Recorders, RecordEvent(r)
    PROVE  EventInv'
<1> DEFINE callers == IF r.more THEN handed ELSE {}
           event == [id |-> recorded + 1, properties |-> RecordedProperties(r.own, callers),
                     metadata |-> IF r.metadata THEN Metadata ELSE {}]
<1>1. callers \in SUBSET Leaves /\ Typed(callers)
  BY DEF EventInv, EventTypeOK, Typed
<1>2. /\ RecordedProperties(r.own, callers) \in SUBSET Leaves
      /\ NotNamed(RecordedProperties(r.own, callers))
  BY <1>1, RecordersAreTyped, RecordedIsAnonymous
<1>3. /\ QueueEvent(event) /\ recorded' = recorded + 1
      /\ handed' = handed \/ handed' = AfterRecording(handed)
      /\ UNCHANGED <<options, flushing, retried>>
  BY DEF RecordEvent
<1> HIDE DEF callers
<1>4. event \in Events /\ event.id = recorded + 1 /\ NotNamed(event.properties)
  BY <1>2 DEF EventInv, EventTypeOK, Events
<1> HIDE DEF event
<1>5. /\ queue' \in Seq(Events) /\ lines' \in Seq(Lines)
      /\ dropped' \in SUBSET (1..recorded') /\ retried' \in SUBSET (1..recorded')
      /\ Anonymous' /\ FlushesAreNoted' /\ QueueInOrder' /\ LinesInOrder' /\ NoneIsLost'
  BY <1>3, <1>4, Queued
<1>6. handed' \in SUBSET Leaves /\ Typed(handed)'
  <2>1. handed \in SUBSET Leaves /\ Typed(handed)
    BY DEF EventInv, EventTypeOK
  <2>2. Typed(handed)' <=> Typed(handed')
    BY DEF Typed
  <2> QED
    BY <1>3, <2>1, <2>2, AfterIsTyped
<1>7. EventTypeOK'
  BY <1>3, <1>5, <1>6 DEF EventInv, EventTypeOK, LogOptions
<1> QED
  BY <1>5, <1>7 DEF EventInv

\* a line of no event leaves the rest of the invariant alone
LEMMA OtherLinesStep ==
    ASSUME EventInv, NEW more \in Seq(Lines), lines' = lines \o more,
           \A k \in 1..Len(more) : more[k].id = 0 /\ LineIsAnonymous(more[k]),
           UNCHANGED <<options, handed, queue, flushing, recorded, dropped, retried>>
    PROVE  EventInv'
<1>1. /\ lines' \in Seq(Lines)
      /\ \A i \in 1..Len(lines') : LineIsAnonymous(lines'[i])
      /\ \A m, n \in 1..Len(lines') :
            m < n /\ lines'[m].id \notin {0} \cup retried /\ lines'[n].id \notin {0} \cup retried =>
                lines'[m].id < lines'[n].id
      /\ \A i \in 1..Len(lines') : lines'[i].id <= recorded
      /\ \A i \in 1..Len(lines'), j \in 1..Len(queue) :
            lines'[i].id \notin retried /\ queue[j].id \notin retried => lines'[i].id < queue[j].id
      /\ \A i \in 1..Len(lines) : i \in 1..Len(lines') /\ lines'[i] = lines[i]
  BY OtherLines
<1>2. EventTypeOK'
  BY <1>1 DEF EventInv, EventTypeOK, LogOptions, Typed
<1>3. Anonymous' /\ FlushesAreNoted'
  BY <1>1 DEF EventInv, Anonymous, FlushesAreNoted
<1>4. QueueInOrder'
  BY DEF EventInv, QueueInOrder
<1>5. LinesInOrder'
  BY <1>1 DEF LinesInOrder
<1>6. NoneIsLost'
  BY <1>1 DEF EventInv, NoneIsLost, IsTaken, ShouldLog
<1> QED
  BY <1>2, <1>3, <1>4, <1>5, <1>6 DEF EventInv

\* a flush sends what there is, up to an event that the logger throws at; those
\* it took are then noted
LEMMA BeginFlushStep ==
    ASSUME EventInv, EventAssumption, BeginFlush
    PROVE  EventInv'
<1>1. PICK n \in 0..Len(queue) :
        /\ ~ShouldLog("DEBUG") => n = Len(queue)
        /\ lines' = lines \o SendEvents(queue, n)
        /\ flushing' = Append(flushing, [events |-> queue, failed |-> n < Len(queue)])
        /\ retried' = retried \cup
                (IF n < Len(queue) THEN {queue[i].id : i \in 1..Len(queue)} ELSE {})
  BY DEF BeginFlush
<1> DEFINE more == SendEvents(queue, n)
           flush == [events |-> queue, failed |-> n < Len(queue)]
<1>2. queue' = <<>> /\ UNCHANGED <<options, handed, recorded, dropped>>
  BY DEF BeginFlush
<1>3. /\ more \in Seq(Lines)
      /\ \A k \in 1..Len(more) : k \in 1..Len(queue) /\ more[k].id = queue[k].id
      /\ \A k \in 1..Len(more) : LineIsAnonymous(more[k])
      /\ ShouldLog("DEBUG") => Len(more) = n
  BY SentLines
<1>4. /\ lines \in Seq(Lines) /\ Len(lines) \in Nat /\ Len(more) \in Nat
      /\ queue \in Seq(Events) /\ Len(queue) \in Nat /\ n \in Nat /\ n <= Len(queue)
      /\ flushing \in Seq(Flushes) /\ Len(flushing) \in Nat
      /\ retried \in SUBSET (1..recorded) /\ recorded \in Nat
      /\ \A i \in 1..Len(queue) : queue[i].id \in 1..recorded
  BY <1>3 DEF EventInv, EventTypeOK, QueueInOrder
<1>5. /\ flush \in Flushes /\ flush.events = queue
      /\ flush.failed <=> n < Len(queue)
  <2>1. (n < Len(queue)) \in BOOLEAN /\ queue \in Seq(Events)
    BY <1>4
  <2>2. flush \in Flushes
    BY <2>1, Zenon DEF Flushes
  <2> QED
    BY <2>2
<1> HIDE DEF more, flush
<1>6. /\ flushing' \in Seq(Flushes) /\ Len(flushing') = Len(flushing) + 1
      /\ \A f \in 1..Len(flushing) : flushing'[f] = flushing[f]
      /\ flushing'[Len(flushing) + 1] = flush
  BY <1>1, <1>4, <1>5, AppendProperties DEF flush
<1>7. /\ retried \subseteq retried' /\ retried' \in SUBSET (1..recorded)
      /\ n < Len(queue) => \A i \in 1..Len(queue) : queue[i].id \in retried'
  BY <1>1, <1>4
<1>8. /\ lines' \in Seq(Lines) /\ Len(lines') = Len(lines) + Len(more)
      /\ \A i \in 1..Len(lines) : lines'[i] = lines[i]
      /\ \A k \in 1..Len(more) : lines'[Len(lines) + k] = more[k]
      /\ \A i \in 1..Len(lines') : i \notin 1..Len(lines) =>
            i - Len(lines) \in 1..Len(more) /\ i = Len(lines) + (i - Len(lines))
  BY <1>1, <1>3, <1>4, LinesGrow DEF more
<1>9. \A i \in 1..Len(lines') :
            \/ i \in 1..Len(lines) /\ lines'[i] = lines[i]
            \/ /\ i > Len(lines) /\ i - Len(lines) \in 1..Len(queue)
               /\ lines'[i].id = queue[i - Len(lines)].id /\ LineIsAnonymous(lines'[i])
  <2> SUFFICES ASSUME NEW i \in 1..Len(lines'), i \notin 1..Len(lines)
               PROVE  /\ i > Len(lines) /\ i - Len(lines) \in 1..Len(queue)
                      /\ lines'[i].id = queue[i - Len(lines)].id
                      /\ LineIsAnonymous(lines'[i])
    BY <1>8
  <2>1. i - Len(lines) \in 1..Len(more) /\ i = Len(lines) + (i - Len(lines))
    BY <1>8
  <2>2. lines'[i] = more[i - Len(lines)]
    BY <1>8, <2>1
  <2>3. i > Len(lines)
    BY <1>4
  <2> QED
    BY <1>3, <2>1, <2>2, <2>3
<1>10. queue' \in Seq(Events) /\ Len(queue') = 0
  BY <1>2
<1>11. EventTypeOK'
  BY <1>2, <1>6, <1>7, <1>8, <1>10 DEF EventInv, EventTypeOK, LogOptions, Typed
<1>12. Anonymous'
  BY <1>9, <1>10 DEF EventInv, Anonymous
<1>13. FlushesAreNoted'
  <2> SUFFICES ASSUME NEW f \in 1..Len(flushing'), NEW i \in 1..Len(flushing'[f].events)
               PROVE  /\ EventIsAnonymous(flushing'[f].events[i])
                      /\ flushing'[f].events[i].id \in 1..recorded
                      /\ flushing'[f].failed => flushing'[f].events[i].id \in retried'
    BY <1>2 DEF FlushesAreNoted, EventIsAnonymous
  <2>1. CASE f \in 1..Len(flushing)
    BY <1>6, <1>7, <2>1 DEF EventInv, FlushesAreNoted
  <2>2. CASE f = Len(flushing) + 1
    BY <1>4, <1>5, <1>6, <1>7, <2>2 DEF EventInv, Anonymous
  <2> QED
    BY <1>4, <1>6, <2>1, <2>2
<1>14. QueueInOrder'
  <2>1. 0 <= MaxQueueSize
    BY DEF EventAssumption
  <2> QED
    BY <1>10, <2>1 DEF QueueInOrder
<1>15. LinesInOrder'
  <2>1. ASSUME NEW i \in 1..Len(lines'), NEW j \in 1..Len(lines'), i < j,
               lines'[i].id \notin {0} \cup retried', lines'[j].id \notin {0} \cup retried'
        PROVE  lines'[i].id < lines'[j].id
    <3>0. lines'[i].id \notin {0} \cup retried /\ lines'[j].id \notin {0} \cup retried
      BY <1>7, <2>1
    <3>1. CASE i \in 1..Len(lines) /\ j \in 1..Len(lines)
      BY <1>8, <2>1, <3>0, <3>1 DEF EventInv, LinesInOrder
    <3>2. CASE i \in 1..Len(lines) /\ j \notin 1..Len(lines)
      <4>1. lines'[i] = lines[i]
        BY <1>8, <3>2
      <4>2. j - Len(lines) \in 1..Len(queue) /\ lines'[j].id = queue[j - Len(lines)].id
        BY <1>9, <3>2
      <4> QED
        BY <3>0, <3>2, <4>1, <4>2 DEF EventInv, LinesInOrder
    <3>3. CASE i \notin 1..Len(lines)
      <4>1. j \notin 1..Len(lines)
        BY <1>4, <2>1, <3>3
      <4>2. i - Len(lines) < j - Len(lines)
        BY <1>4, <2>1
      <4> QED
        BY <1>9, <3>0, <3>3, <4>1, <4>2 DEF EventInv, QueueInOrder
    <3> QED
      BY <3>1, <3>2, <3>3
  <2>2. \A i \in 1..Len(lines') : lines'[i].id <= recorded
    <3>1. /\ \A i \in 1..Len(lines) : lines[i].id <= recorded
          /\ \A i \in 1..Len(queue) : queue[i].id <= recorded
      BY <1>4 DEF EventInv, LinesInOrder
    <3> QED
      BY <1>9, <3>1
  <2> QED
    BY <1>2, <1>10, <2>1, <2>2 DEF LinesInOrder
<1>16. NoneIsLost'
  <2> SUFFICES ASSUME ShouldLog("DEBUG")', NEW e \in 1..recorded
               PROVE  (\E i \in 1..Len(lines') : lines'[i].id = e) \/ e \in dropped \/ IsTaken(e)'
    BY <1>2 DEF NoneIsLost, IsTaken
  <2>1. ShouldLog("DEBUG")
    BY <1>2 DEF ShouldLog
  <2>2. \/ \E i \in 1..Len(lines) : lines[i].id = e
        \/ \E i \in 1..Len(queue) : queue[i].id = e
        \/ e \in dropped \/ IsTaken(e)
    BY <2>1 DEF EventInv, NoneIsLost
  <2>3. ASSUME NEW i \in 1..Len(lines), lines[i].id = e
        PROVE  \E j \in 1..Len(lines') : lines'[j].id = e
    BY <1>4, <1>8, <2>3
  <2>4. ASSUME NEW i \in 1..Len(queue), queue[i].id = e
        PROVE  (\E j \in 1..Len(lines') : lines'[j].id = e) \/ IsTaken(e)'
    <3>1. CASE n < Len(queue)
      <4>1. /\ Len(flushing) + 1 \in 1..Len(flushing')
            /\ flushing'[Len(flushing) + 1].failed
            /\ flushing'[Len(flushing) + 1].events = queue
        BY <1>4, <1>5, <1>6, <3>1
      <4>2. /\ i \in 1..Len(flushing'[Len(flushing) + 1].events)
            /\ flushing'[Len(flushing) + 1].events[i].id = e
        BY <2>4, <4>1
      <4> DEFINE taken == Len(flushing) + 1
      <4> HIDE DEF taken
      <4>3. /\ taken \in 1..Len(flushing') /\ flushing'[taken].failed
            /\ i \in 1..Len(flushing'[taken].events) /\ flushing'[taken].events[i].id = e
        BY <4>1, <4>2 DEF taken
      <4> QED
        BY <4>3 DEF IsTaken
    <3>2. CASE n = Len(queue)
      <4>1. i \in 1..Len(more)
        BY <1>3, <2>1, <3>2
      <4>2. Len(lines) + i \in 1..Len(lines')
        BY <1>4, <1>8, <4>1
      <4>3. lines'[Len(lines) + i].id = e
        BY <1>3, <1>8, <2>4, <4>1
      <4> QED
        BY <4>2, <4>3
    <3> QED
      BY <1>4, <3>1, <3>2
  <2>5. IsTaken(e) => IsTaken(e)'
    BY <1>4, <1>6 DEF IsTaken
  <2> QED
    BY <2>2, <2>3, <2>4, <2>5
<1> QED
  BY <1>11, <1>12, <1>13, <1>14, <1>15, <1>16 DEF EventInv

\* a flush ends: one that failed puts what it took in front of the queue
LEMMA EndFlushStep ==
    ASSUME EventInv, EndFlush
    PROVE  EventInv'
<1> DEFINE old == flushing[1]
           level == IF old.failed THEN "ERROR" ELSE "INFO"
           more == Output(level, 0, {})
           back == IF old.failed THEN old.events ELSE <<>>
<1>1. /\ flushing # <<>> /\ flushing' = Tail(flushing) /\ lines' = lines \o more
      /\ queue' = IF old.failed THEN old.events \o queue ELSE queue
      /\ UNCHANGED <<options, handed, recorded, dropped, retried>>
  BY DEF EndFlush
<1>2. /\ flushing \in Seq(Flushes) /\ Len(flushing) \in Nat /\ 1 \in 1..Len(flushing)
      /\ queue \in Seq(Events) /\ Len(queue) \in Nat
      /\ retried \in SUBSET (1..recorded)
  BY <1>1 DEF EventInv, EventTypeOK
<1>3. old \in Flushes
  BY <1>2
<1>4. back \in Seq(Events) /\ Len(back) \in Nat
  BY <1>3 DEF Flushes
<1>5. \A i \in 1..Len(back) : /\ old.failed /\ back = old.events
                              /\ EventIsAnonymous(back[i]) /\ back[i].id \in 1..recorded
                              /\ back[i].id \in retried
  BY <1>2 DEF EventInv, FlushesAreNoted
<1>6. level \in Levels /\ {} \in SUBSET Leaves
  BY DEF Levels
<1>7. /\ more \in Seq(Lines)
      /\ \A k \in 1..Len(more) : more[k].id = 0 /\ LineIsAnonymous(more[k])
  BY <1>6, OutputProperties
<1>8. queue' = back \o queue
  <2>1. <<>> \o queue = queue
    BY <1>2, ConcatEmptySeq
  <2> QED
    BY <1>1, <2>1
<1>9. /\ flushing' \in Seq(Flushes) /\ Len(flushing') = Len(flushing) - 1
      /\ \A f \in 1..Len(flushing') : f + 1 \in 1..Len(flushing) /\ flushing'[f] = flushing[f + 1]
  <2>1. flushing \in Seq(Flushes) /\ flushing # <<>> /\ flushing' = Tail(flushing)
    BY <1>1, <1>2
  <2>2. \A s \in Seq(Flushes) : s # <<>> =>
            /\ Tail(s) \in Seq(Flushes) /\ Len(Tail(s)) = Len(s) - 1
            /\ \A f \in 1..Len(Tail(s)) : f + 1 \in 1..Len(s) /\ Tail(s)[f] = s[f + 1]
    OBVIOUS
  <2> HIDE DEF old, level, more, back
  <2> QED
    BY <2>1, <2>2
<1>10. ~old.failed => back = <<>>
  OBVIOUS
<1>11. old.failed => back = old.events
  OBVIOUS
<1> HIDE DEF old, level, more, back
<1>12. /\ queue' \in Seq(Events) /\ Len(queue') = Len(back) + Len(queue)
       /\ \A i \in 1..Len(back) : queue'[i] = back[i]
       /\ \A i \in 1..Len(queue) : i + Len(back) \in 1..Len(queue') /\ queue'[i + Len(back)] = queue[i]
       /\ \A i \in 1..Len(queue') : i \notin 1..Len(back) =>
            /\ i - Len(back) \in 1..Len(queue) /\ queue'[i] = queue[i - Len(back)]
            /\ i > Len(back)
  <2>1. /\ queue' \in Seq(Events) /\ Len(queue') = Len(back) + Len(queue)
        /\ \A i \in 1..Len(back) + Len(queue) : queue'[i] =
            IF i <= Len(back) THEN back[i] ELSE queue[i - Len(back)]
    BY <1>2, <1>4, <1>8, ConcatProperties
  <2>2. ASSUME NEW i \in 1..Len(queue)
        PROVE  i + Len(back) \in 1..Len(queue') /\ queue'[i + Len(back)] = queue[i]
    <3>1. /\ i + Len(back) \in 1..Len(back) + Len(queue) /\ ~(i + Len(back) <= Len(back))
          /\ (i + Len(back)) - Len(back) = i
      BY <1>2, <1>4
    <3> QED
      BY <2>1, <3>1
  <2>3. ASSUME NEW i \in 1..Len(queue'), i \notin 1..Len(back)
        PROVE  /\ i - Len(back) \in 1..Len(queue) /\ queue'[i] = queue[i - Len(back)]
               /\ i > Len(back)
    BY <1>2, <1>4, <2>1, <2>3
  <2>4. \A i \in 1..Len(back) : queue'[i] = back[i]
    BY <1>2, <1>4, <2>1
  <2> QED
    BY <2>1, <2>2, <2>3, <2>4
<1>13. /\ lines' \in Seq(Lines)
       /\ \A i \in 1..Len(lines') : LineIsAnonymous(lines'[i])
       /\ \A m, n \in 1..Len(lines') :
            m < n /\ lines'[m].id \notin {0} \cup retried /\ lines'[n].id \notin {0} \cup retried =>
                lines'[m].id < lines'[n].id
       /\ \A i \in 1..Len(lines') : lines'[i].id <= recorded
       /\ \A i \in 1..Len(lines'), j \in 1..Len(queue) :
            lines'[i].id \notin retried /\ queue[j].id \notin retried => lines'[i].id < queue[j].id
       /\ \A i \in 1..Len(lines) : i \in 1..Len(lines') /\ lines'[i] = lines[i]
  BY <1>1, <1>7, OtherLines
<1>14. EventTypeOK'
  BY <1>1, <1>9, <1>12, <1>13 DEF EventInv, EventTypeOK, LogOptions, Typed
<1>15. Anonymous'
  <2>1. \A i \in 1..Len(queue') : EventIsAnonymous(queue'[i])
    BY <1>5, <1>12 DEF EventInv, Anonymous
  <2> QED
    BY <1>13, <2>1 DEF Anonymous
<1>16. FlushesAreNoted'
  BY <1>1, <1>9 DEF EventInv, FlushesAreNoted, EventIsAnonymous
<1>17. QueueInOrder'
  <2>1. ASSUME NEW i \in 1..Len(queue'), NEW j \in 1..Len(queue'), i < j,
               queue'[i].id \notin retried, queue'[j].id \notin retried
        PROVE  queue'[i].id < queue'[j].id
    <3>1. i \notin 1..Len(back) /\ j \notin 1..Len(back)
      BY <1>5, <1>12, <2>1
    <3>2. /\ i - Len(back) \in 1..Len(queue) /\ queue'[i] = queue[i - Len(back)]
          /\ j - Len(back) \in 1..Len(queue) /\ queue'[j] = queue[j - Len(back)]
          /\ i - Len(back) < j - Len(back)
      BY <1>4, <1>12, <2>1, <3>1
    <3> QED
      BY <2>1, <3>2 DEF EventInv, QueueInOrder
  <2>2. \A i \in 1..Len(queue') : queue'[i].id \in 1..recorded
    BY <1>5, <1>12 DEF EventInv, QueueInOrder
  <2>3. ASSUME retried = {} PROVE Len(queue') <= MaxQueueSize
    <3>1. Len(back) = 0
      BY <1>4, <1>5, <2>3
    <3> QED
      BY <1>2, <1>12, <2>3, <3>1 DEF EventInv, QueueInOrder
  <2> QED
    BY <1>1, <2>1, <2>2, <2>3 DEF QueueInOrder
<1>18. LinesInOrder'
  <2>1. ASSUME NEW i \in 1..Len(lines'), NEW j \in 1..Len(queue'),
               lines'[i].id \notin retried, queue'[j].id \notin retried
        PROVE  lines'[i].id < queue'[j].id
    <3>1. j \notin 1..Len(back)
      BY <1>5, <1>12, <2>1
    <3> QED
      BY <1>12, <1>13, <2>1, <3>1
  <2> QED
    BY <1>1, <1>13, <2>1 DEF LinesInOrder
<1>19. NoneIsLost'
  <2> SUFFICES ASSUME ShouldLog("DEBUG")', NEW e \in 1..recorded
               PROVE  \/ \E i \in 1..Len(lines') : lines'[i].id = e
                      \/ \E i \in 1..Len(queue') : queue'[i].id = e
                      \/ e \in dropped \/ IsTaken(e)'
    BY <1>1 DEF NoneIsLost, IsTaken
  <2>1. ShouldLog("DEBUG")
    BY <1>1 DEF ShouldLog
  <2>2. \/ \E i \in 1..Len(lines) : lines[i].id = e
        \/ \E i \in 1..Len(queue) : queue[i].id = e
        \/ e \in dropped \/ IsTaken(e)
    BY <2>1 DEF EventInv, NoneIsLost
  <2>3. ASSUME NEW i \in 1..Len(queue), queue[i].id = e
        PROVE  \E k \in 1..Len(queue') : queue'[k].id = e
    BY <1>12, <2>3
  <2>4. ASSUME IsTaken(e)
        PROVE  IsTaken(e)' \/ \E k \in 1..Len(queue') : queue'[k].id = e
    <3>1. PICK f \in 1..Len(flushing) :
            flushing[f].failed /\ \E i \in 1..Len(flushing[f].events) : flushing[f].events[i].id = e
      BY <2>4 DEF IsTaken
    <3>2. CASE f = 1
      <4>1. back = flushing[f].events
        BY <1>11, <3>1, <3>2 DEF old
      <4>2. \A i \in 1..Len(back) : i \in 1..Len(queue')
        BY <1>2, <1>4, <1>12
      <4> QED
        BY <1>12, <3>1, <4>1, <4>2
    <3>3. CASE f # 1
      <4>1. f - 1 \in 1..Len(flushing') /\ (f - 1) + 1 = f
        BY <1>2, <1>9, <3>3
      <4>2. flushing'[f - 1] = flushing[f]
        BY <1>9, <4>1
      <4> QED
        BY <3>1, <4>1, <4>2 DEF IsTaken
    <3> QED
      BY <3>2, <3>3
  <2> QED
    BY <1>13, <2>2, <2>3, <2>4
<1> QED
  BY <1>14, <1>15, <1>16, <1>17, <1>18, <1>19 DEF EventInv

LEMMA OtherSteps ==
    ASSUME EventInv,
           \/ Measure \/ LogError
           \/ \E m \in measured, level \in {"INFO", "ERROR"} : MeasureEnds(m, level)
    PROVE  EventInv'
<1>1. \E level \in Levels, context \in SUBSET Leaves :
            lines' = lines \o Output(level, 0, context)
  <2>1. handed \in SUBSET Leaves /\ {"DEBUG", "INFO", "ERROR"} \subseteq Levels
    BY DEF EventInv, EventTypeOK, Levels
  <2>2. CASE Measure
    BY <2>1, <2>2 DEF Measure
  <2>3. CASE LogError
    <3>1. {"error", "context", "amount"} \subseteq Keys
      BY DEF Keys, AmountKeys
    <3>2. Leaf(<<"error", "context", "amount">>, "number") \in Leaves
      BY <3>1, LeafProperties DEF LeafTypes
    <3>3. Over(handed, {Leaf(<<"error", "context", "amount">>, "number")}) \in SUBSET Leaves
      BY <2>1, <3>2 DEF Over
    <3> QED
      BY <2>1, <2>3, <3>3 DEF LogError
  <2>4. ASSUME NEW m \in measured, NEW level \in {"INFO", "ERROR"}, MeasureEnds(m, level)
        PROVE  \E context \in SUBSET Leaves : lines' = lines \o Output(level, 0, context)
    <3>1. "durationMs" \in Keys
      BY DEF Keys, AmountKeys
    <3>2. Leaf(<<"durationMs">>, "number") \in Leaves
      BY <3>1, LeafProperties DEF LeafTypes
    <3>3. Over(handed, {Leaf(<<"durationMs">>, "number")}) \in SUBSET Leaves
      BY <2>1, <3>2 DEF Over
    <3> QED
      BY <2>4, <3>3 DEF MeasureEnds
  <2> QED
    BY <2>1, <2>2, <2>3, <2>4
<1>2. UNCHANGED <<options, handed, queue, flushing, recorded, dropped, retried>>
  BY DEF Measure, LogError, MeasureEnds
<1>3. PICK level \in Levels, context \in SUBSET Leaves :
            lines' = lines \o Output(level, 0, context)
  BY <1>1
<1> QED
  BY <1>2, <1>3, OutputProperties, OtherLinesStep

\* What is recorded is hidden, queued, and put out in its order or put back, for
\* any options, any size of the queue and any number of events and of flushes
\* under way, whichever of them fail (telemetry.ts).
THEOREM EventInvariance == EventSpec => []EventInv
<1>1. EventInit => EventInv
  <2> SUFFICES ASSUME EventInit PROVE EventInv
    OBVIOUS
  <2>1. /\ queue \in Seq(Events) /\ Len(queue) = 0 /\ lines \in Seq(Lines) /\ Len(lines) = 0
        /\ flushing \in Seq(Flushes) /\ Len(flushing) = 0
        /\ recorded = 0 /\ dropped = {} /\ retried = {}
    BY DEF EventInit
  <2>2. EventTypeOK
    BY <2>1, HandedIsTyped DEF EventInit, EventTypeOK
  <2>3. Anonymous /\ FlushesAreNoted /\ LinesInOrder /\ NoneIsLost
    BY <2>1 DEF Anonymous, FlushesAreNoted, LinesInOrder, NoneIsLost
  <2>4. QueueInOrder
    BY <2>1, EventAssumption DEF QueueInOrder
  <2> QED
    BY <2>2, <2>3, <2>4 DEF EventInv
<1>2. EventInv /\ [EventNext]_eventVars => EventInv'
  <2> SUFFICES ASSUME EventInv, [EventNext]_eventVars PROVE EventInv'
    OBVIOUS
  <2>1. CASE EventNext
    BY <2>1, EventAssumption, RecordEventStep, BeginFlushStep, EndFlushStep, OtherSteps
       DEF EventNext
  <2>2. CASE UNCHANGED eventVars
    <3>1. /\ EventTypeOK' /\ Anonymous' /\ QueueInOrder'
      BY <2>2 DEF EventInv, EventTypeOK, LogOptions, Typed, Anonymous, QueueInOrder, eventVars
    <3>2. FlushesAreNoted' /\ LinesInOrder' /\ NoneIsLost'
      BY <2>2 DEF EventInv, FlushesAreNoted, LinesInOrder, NoneIsLost, IsTaken, ShouldLog,
                  eventVars
    <3> QED
      BY <3>1, <3>2 DEF EventInv
  <2> QED
    BY <2>1, <2>2
<1> QED
  BY <1>1, <1>2, PTL DEF EventSpec

\* No identifier and no amount in the properties of an event is ever readable,
\* queued, on its way or put out, and its metadata is never put out
\* (EventsAreAnonymous; record, redactProperties, redact, sendEvents).
THEOREM EventsStayAnonymous == EventSpec => []EventsAreAnonymous
<1>1. EventInv => EventsAreAnonymous
  BY DEF EventInv, Anonymous, FlushesAreNoted, EventIsAnonymous, LineIsAnonymous,
         EventsAreAnonymous
<1> QED
  BY <1>1, EventInvariance, PTL

\* Every event has been put out, waits, will be put back, or was the oldest in a
\* full queue, and those that no failed flush took are put out once and in their
\* order, however flushes overlap and fail (EventsAreAccountedFor; flush,
\* sendEvents, queueEvent).
THEOREM EventsStayAccountedFor == EventSpec => []EventsAreAccountedFor
<1>1. EventInv => EventsAreAccountedFor
  <2> SUFFICES ASSUME EventInv PROVE EventsAreAccountedFor
    OBVIOUS
  <2> DEFINE put == {i \in 1..Len(lines) : lines[i].id \notin {0} \cup retried}
             waits == {i \in 1..Len(queue) : queue[i].id \notin retried}
             failed == {f \in 1..Len(flushing) : flushing[f].failed}
             taken == UNION {{flushing[f].events[i].id : i \in 1..Len(flushing[f].events)} :
                                f \in failed}
             ids == {lines[i].id : i \in 1..Len(lines)}
                        \cup {queue[i].id : i \in 1..Len(queue)} \cup dropped \cup taken
  <2>1. ASSUME ShouldLog("DEBUG") PROVE 1..recorded \subseteq ids
    <3>1. ASSUME NEW e \in 1..recorded, IsTaken(e) PROVE e \in taken
      BY <3>1 DEF IsTaken
    <3> HIDE DEF taken
    <3> QED
      BY <2>1, <3>1 DEF EventInv, NoneIsLost
  <2>2. /\ \A i, j \in put : i < j => lines[i].id < lines[j].id
        /\ \A i \in put, j \in waits : lines[i].id < queue[j].id
    BY DEF EventInv, LinesInOrder
  <2>3. /\ \A i, j \in waits : i < j => queue[i].id < queue[j].id
        /\ retried = {} => Len(queue) <= MaxQueueSize
    BY DEF EventInv, QueueInOrder
  <2> QED
    BY <2>1, <2>2, <2>3 DEF EventsAreAccountedFor
<1> QED
  BY <1>1, EventInvariance, PTL

-----------------------------------------------------------------------------
(* CartMonitor: any callbacks, bounds and debounce, and any order of the   *)
(* events and of what callbacks do in the middle of one                    *)

\* the first place where something is in a list
LEMMA FirstPlace ==
    ASSUME NEW I \in SUBSET Nat, I # {}
    PROVE  Min(I) \in I
<1> DEFINE R == StrictSubsetOrdering(Nat)
           T == {0..x : x \in I}
<1>1. \A x \in I : 0..x \in FiniteSubsetsOf(Nat)
  BY FS_Interval DEF FiniteSubsetsOf
<1>2. PICK least \in T : \A U \in T : <<U, least>> \notin R
  <2>1. T # {} /\ T \subseteq FiniteSubsetsOf(Nat)
    BY <1>1
  <2>2. IsWellFoundedOn(R, FiniteSubsetsOf(Nat))
    BY FS_StrictSubsetOrderingWellFounded
  <2> HIDE DEF T, R
  <2> QED
    BY <2>1, <2>2, WFMin
<1>3. PICK x \in I : least = 0..x
  OBVIOUS
<1>4. ASSUME NEW y \in I PROVE x <= y
  <2>1. CASE y < x
    <3>1. /\ 0..y \subseteq Nat /\ 0..x \subseteq Nat /\ 0..y \subseteq 0..x
          /\ x \in 0..x /\ x \notin 0..y
      BY <2>1
    <3>2. <<0..y, 0..x>> \in R
      BY <3>1, Zenon DEF StrictSubsetOrdering
    <3> QED
      BY <1>2, <1>3, <3>2
  <2> QED
    BY <2>1
<1> QED
  BY <1>4 DEF Min

LEMMA RemovedFirst ==
    ASSUME NEW S, NEW list \in Seq(S), NEW e
    PROVE  RemoveFirst(list, e) \in Seq(S)
<1> DEFINE I == {i \in 1..Len(list) : list[i] = e}
           p == Min(I)
<1>1. CASE I # {}
  <2>1. Len(list) \in Nat /\ I \in SUBSET Nat
    OBVIOUS
  <2>2. p \in 1..Len(list)
    <3> HIDE DEF I
    <3>1. p \in I
      BY <1>1, <2>1, FirstPlace
    <3> QED
      BY <3>1 DEF I
  <2>3. RemoveFirst(list, e) = SubSeq(list, 1, p - 1) \o SubSeq(list, p + 1, Len(list))
    BY <1>1 DEF RemoveFirst, RemoveAt, SelectInSeq
  <2> HIDE DEF p
  <2>4. SubSeq(list, 1, p - 1) \in Seq(S) /\ SubSeq(list, p + 1, Len(list)) \in Seq(S)
    BY <2>1, <2>2
  <2> QED
    BY <2>3, <2>4
<1>2. CASE I = {}
  BY <1>2 DEF RemoveFirst
<1> QED
  BY <1>1, <1>2

Deliveries ==
    [at : Nat \ {0}, reason : {"DEBOUNCE", "PAGE_NAVIGATION", "SIGNIFICANT_CHANGE"},
     stays : SUBSET Callbacks, called : SUBSET Callbacks, removed : BOOLEAN]

\* while none is removed, the loop has called what is before its place, and
\* what stays is in the list
MonitorInv ==
    /\ callbacks \in Seq(Callbacks)
    /\ delivery # NoDelivery =>
          /\ delivery \in Deliveries
          /\ ~delivery.removed =>
                /\ delivery.at <= Len(callbacks) + 1
                /\ \A c \in delivery.stays : \E i \in 1..Len(callbacks) : callbacks[i] = c
                /\ \A i \in 1..Len(callbacks) :
                      i < delivery.at => callbacks[i] \in delivery.called

\* the loop's place and its calls, for any callbacks and in any order of events
\* (triggerCallbacks).
THEOREM MonitorInvariance == MonitorSpec => []MonitorInv
<1>1. MonitorInit => MonitorInv
  BY DEF MonitorInit, MonitorInv
<1>2. MonitorInv /\ [MonitorNext]_monitorVars => MonitorInv'
  <2> SUFFICES ASSUME MonitorInv, [MonitorNext]_monitorVars PROVE MonitorInv'
    OBVIOUS
  <2>0. callbacks \in Seq(Callbacks) /\ Len(callbacks) \in Nat
    BY DEF MonitorInv
  <2>1. ASSUME UNCHANGED <<callbacks, delivery>> PROVE MonitorInv'
    BY <2>1 DEF MonitorInv
  <2>2. ASSUME NEW c \in Callbacks, OnCartUpdate(c) PROVE MonitorInv'
    <3>1. /\ callbacks' = Append(callbacks, c) /\ delivery' = delivery
          /\ Len(callbacks) < MaxRegistered
      BY <2>2 DEF OnCartUpdate
    <3>2. /\ callbacks' \in Seq(Callbacks) /\ Len(callbacks') = Len(callbacks) + 1
          /\ \A i \in 1..Len(callbacks) : callbacks'[i] = callbacks[i]
      BY <2>0, <3>1
    <3>3. ASSUME delivery \in Deliveries, ~delivery.removed,
                 delivery.at <= Len(callbacks) + 1
          PROVE  /\ delivery.at <= Len(callbacks') + 1
                 /\ \A i \in 1..Len(callbacks') : i < delivery.at => i \in 1..Len(callbacks)
      BY <2>0, <3>2, <3>3 DEF Deliveries
    <3> QED
      BY <3>1, <3>2, <3>3 DEF MonitorInv
  <2>3. ASSUME NEW c \in Callbacks, OffCartUpdate(c) PROVE MonitorInv'
    <3>1. callbacks' \in Seq(Callbacks)
      BY <2>0, <2>3, RemovedFirst DEF OffCartUpdate
    <3>2. CASE delivery = NoDelivery
      BY <2>3, <3>1, <3>2 DEF OffCartUpdate, MonitorInv
    <3>3. CASE delivery # NoDelivery
      <4>1. delivery' = [delivery EXCEPT !.stays = @ \ {c}, !.removed = TRUE]
        BY <2>3, <3>3 DEF OffCartUpdate
      <4>2. delivery \in Deliveries
        BY <3>3 DEF MonitorInv
      <4>3. delivery' \in Deliveries /\ delivery'.removed
        BY <4>1, <4>2 DEF Deliveries
      <4> QED
        BY <3>1, <4>3 DEF MonitorInv
    <3> QED
      BY <3>2, <3>3
  <2>4. ASSUME NEW reason \in {"DEBOUNCE", "PAGE_NAVIGATION"}, Trigger(reason),
               callbacks' = callbacks
        PROVE  MonitorInv'
    <3>1. PICK r \in {"DEBOUNCE", "PAGE_NAVIGATION", "SIGNIFICANT_CHANGE"} :
            delivery' = [NoDelivery EXCEPT !.at = 1, !.stays = Registered, !.reason = r]
      BY <2>4 DEF Trigger
    <3>2. Registered \in SUBSET Callbacks
      BY <2>0 DEF Registered, ToSet
    <3>3. delivery' \in Deliveries /\ delivery'.stays = Registered /\ delivery'.at = 1
      <4>1. delivery' = [at |-> 1, reason |-> r, stays |-> Registered, called |-> {},
                         removed |-> FALSE]
        BY <3>1 DEF NoDelivery
      <4> QED
        BY <3>2, <4>1 DEF Deliveries
    <3>4. \A c \in Registered : \E i \in 1..Len(callbacks) : callbacks[i] = c
      BY <2>0 DEF Registered, ToSet
    <3> QED
      BY <2>0, <2>4, <3>3, <3>4 DEF MonitorInv
  <2>5. CASE Deliver
    <3>1. callbacks' = callbacks /\ delivery # NoDelivery /\ delivery \in Deliveries
      BY <2>5 DEF Deliver, MonitorInv
    <3>2. CASE delivery.at <= Len(callbacks)
      <4>1. delivery' = [delivery EXCEPT !.at = @ + 1,
                                         !.called = @ \cup {callbacks[delivery.at]}]
        BY <2>5, <3>2 DEF Deliver
      <4>2. delivery.at \in 1..Len(callbacks)
        BY <2>0, <3>1, <3>2 DEF Deliveries
      <4>3. callbacks[delivery.at] \in Callbacks
        BY <2>0, <4>2
      <4>4. /\ delivery' \in Deliveries /\ delivery'.at = delivery.at + 1
            /\ delivery'.called = delivery.called \cup {callbacks[delivery.at]}
            /\ delivery'.stays = delivery.stays /\ delivery'.removed = delivery.removed
        <5>1. PICK c \in Callbacks : c = callbacks[delivery.at]
          BY <4>3
        <5>2. delivery' = [delivery EXCEPT !.at = @ + 1, !.called = @ \cup {c}]
          BY <4>1, <5>1
        <5>3. delivery' \in Deliveries
          <6>1. /\ delivery.at + 1 \in Nat \ {0}
                /\ delivery.called \cup {c} \in SUBSET Callbacks
            BY <3>1 DEF Deliveries
          <6> QED
            BY <3>1, <5>2, <6>1 DEF Deliveries
        <5>4. /\ delivery'.at = delivery.at + 1 /\ delivery'.stays = delivery.stays
              /\ delivery'.called = delivery.called \cup {c}
          BY <3>1, <5>2 DEF Deliveries
        <5>5. delivery'.removed = delivery.removed
          BY <3>1, <5>2 DEF Deliveries
        <5> QED
          BY <5>1, <5>3, <5>4, <5>5
      <4> QED
        BY <2>0, <3>1, <4>2, <4>4 DEF MonitorInv
    <3>3. CASE ~(delivery.at <= Len(callbacks))
      BY <2>5, <3>1, <3>3 DEF Deliver, MonitorInv
    <3> QED
      BY <3>2, <3>3
  <2>6. CASE MonitorNext
    <3>1. CASE Start \/ Stop \/ Mutation \/ Navigation \/ MonitorTick
      BY <2>1, <3>1 DEF Start, Stop, Mutation, Navigation, MonitorTick
    <3>2. CASE TimerFires \/ NextRound
      BY <2>4, <3>2 DEF TimerFires, NextRound
    <3> QED
      BY <2>2, <2>3, <2>5, <2>6, <3>1, <3>2 DEF MonitorNext
  <2>7. CASE UNCHANGED monitorVars
    BY <2>1, <2>7 DEF monitorVars
  <2> QED
    BY <2>6, <2>7
<1> QED
  BY <1>1, <1>2, PTL DEF MonitorSpec

\* An event reaches every callback that stays registered while it is delivered,
\* unless one is removed meanwhile (EventReachesAll; triggerCallbacks).
THEOREM EventsReachTheCallbacks == MonitorSpec => EventReachesAll
<1>1. MonitorInv /\ [MonitorNext]_monitorVars =>
        [delivery # NoDelivery /\ delivery' = NoDelivery =>
            delivery.removed \/ delivery.stays \subseteq delivery.called]_monitorVars
  <2> SUFFICES ASSUME MonitorInv, MonitorNext, delivery # NoDelivery,
                      delivery' = NoDelivery, ~delivery.removed
               PROVE  delivery.stays \subseteq delivery.called
    BY DEF monitorVars
  <2>1. delivery \in Deliveries /\ callbacks \in Seq(Callbacks)
    BY DEF MonitorInv
  <2>2. ASSUME NEW c \in Callbacks, OffCartUpdate(c) PROVE FALSE
    <3>1. delivery' = [delivery EXCEPT !.stays = @ \ {c}, !.removed = TRUE]
      BY <2>2 DEF OffCartUpdate
    <3>2. delivery'.at = delivery.at
      BY <2>1, <3>1 DEF Deliveries
    <3> QED
      BY <2>1, <3>2 DEF NoDelivery, Deliveries
  <2>3. ASSUME NEW reason, Trigger(reason) PROVE FALSE
    <3>1. delivery'.at = 1
      BY <2>3 DEF Trigger, NoDelivery
    <3> QED
      BY <3>1 DEF NoDelivery
  <2>4. Deliver
    BY <2>2, <2>3 DEF MonitorNext, Start, Stop, Mutation, Navigation, MonitorTick,
                      TimerFires, NextRound, OnCartUpdate
  <2>5. delivery.at > Len(callbacks)
    <3>1. CASE delivery.at <= Len(callbacks)
      <4>1. delivery' = [delivery EXCEPT !.at = @ + 1,
                                         !.called = @ \cup {callbacks[delivery.at]}]
        BY <2>4, <3>1 DEF Deliver
      <4>2. delivery'.at = delivery.at + 1
        BY <2>1, <4>1 DEF Deliveries
      <4> QED
        BY <2>1, <4>2 DEF NoDelivery, Deliveries
    <3> QED
      BY <2>1, <3>1 DEF Deliveries
  <2>6. /\ \A c \in delivery.stays : \E i \in 1..Len(callbacks) : callbacks[i] = c
        /\ \A i \in 1..Len(callbacks) : i < delivery.at => callbacks[i] \in delivery.called
    BY DEF MonitorInv
  <2> QED
    BY <2>1, <2>5, <2>6 DEF Deliveries
<1> QED
  BY <1>1, MonitorInvariance, PTL DEF MonitorSpec, EventReachesAll

-----------------------------------------------------------------------------
(* BenefitCatalog: any programs, merchants, wallets, datasets and time to  *)
(* live                                                                    *)

DatedEdges ==
    [program : Programs, merchant : CatalogMerchants, benefit : PartnerBenefits, since : Nat]

CatalogTypeOK ==
    /\ hour \in Nat
    /\ edges \in Seq(DatedEdges)
    /\ \A i \in 1..Len(edges) : edges[i].since <= hour

\* a remembered answer has what was known just before it was given, at least
IsRecent(m) ==
    /\ m.at \in Nat /\ m.at <= hour
    /\ Known(m, m.at - 1) \subseteq m.benefits
    /\ m.benefits \subseteq Known(m, m.at)

OneBundle ==
    /\ activeBundle = passed /\ passed \subseteq Datasets
    /\ \A b, c \in passed : b = c

CatalogInv ==
    /\ CatalogTypeOK
    /\ \A m \in memoCache : IsRecent(m)
    /\ OneBundle
    /\ AnswersAreRecent

\* what is known later is more, and what is not yet over may still change
LEMMA KnownGrows ==
    ASSUME CatalogTypeOK, NEW l, NEW t \in Int, NEW u \in Int, t <= u
    PROVE  Known(l, t) \subseteq Known(l, u)
<1>1. DOMAIN edges = 1..Len(edges) /\ \A i \in 1..Len(edges) : edges[i].since \in Nat
  <2>1. DOMAIN edges = 1..Len(edges) /\ \A i \in 1..Len(edges) : edges[i] \in DatedEdges
    BY DEF CatalogTypeOK
  <2> QED
    BY <2>1 DEF DatedEdges
<1> QED
  BY <1>1 DEF Known

LEMMA AllIsKnown ==
    ASSUME CatalogTypeOK, NEW l
    PROVE  MerchantBenefits(l.merchant, l.programs) = Known(l, hour)
<1>1. DOMAIN edges = 1..Len(edges)
  BY DEF CatalogTypeOK
<1> QED
  BY <1>1 DEF CatalogTypeOK, Known, MerchantBenefits

\* what a question is answered with, and what is remembered of it
LEMMA AnswerIsRecent ==
    ASSUME CatalogInv, CatalogAssumption, NEW merchant, NEW programs
    PROVE  LET given == CachedBenefits(merchant, programs)
           IN  /\ given.merchant = merchant /\ given.programs = programs
               /\ IsRecent(given)
               /\ Known(given, hour - CatalogTtl) \subseteq given.benefits
<1> DEFINE given == CachedBenefits(merchant, programs)
           new == [merchant |-> merchant, programs |-> programs, at |-> hour,
                   benefits |-> MerchantBenefits(merchant, programs)]
<1>1. CatalogTypeOK /\ hour \in Nat /\ CatalogTtl \in Nat
  BY DEF CatalogInv, CatalogTypeOK, CatalogAssumption
<1>2. CASE Remembered(merchant, programs) # {}
  <2>1. given \in Remembered(merchant, programs)
    BY <1>2 DEF CachedBenefits
  <2>2. /\ given \in memoCache /\ given.merchant = merchant
        /\ given.programs = programs /\ hour - given.at < CatalogTtl
    BY <2>1 DEF Remembered
  <2>3. IsRecent(given)
    BY <2>2 DEF CatalogInv
  <2> HIDE DEF given
  <2>4. /\ given.at - 1 \in Int /\ hour - CatalogTtl \in Int
        /\ hour - CatalogTtl <= given.at - 1
    BY <1>1, <2>2, <2>3 DEF IsRecent
  <2>5. Known(given, hour - CatalogTtl) \subseteq Known(given, given.at - 1)
    BY <1>1, <2>4, KnownGrows
  <2> QED
    BY <2>2, <2>3, <2>5 DEF IsRecent, given
<1>3. CASE Remembered(merchant, programs) = {}
  <2>1. given = new
    BY <1>3 DEF CachedBenefits
  <2>2. /\ given.merchant = merchant /\ given.programs = programs /\ given.at = hour
        /\ given.benefits = MerchantBenefits(given.merchant, given.programs)
    BY <2>1
  <2> HIDE DEF given
  <2>3. given.benefits = Known(given, hour)
    BY <1>1, <2>2, AllIsKnown
  <2>4. /\ Known(given, hour - 1) \subseteq Known(given, hour)
        /\ Known(given, hour - CatalogTtl) \subseteq Known(given, hour)
    BY <1>1, KnownGrows
  <2> QED
    BY <1>1, <2>2, <2>3, <2>4 DEF IsRecent, given
<1> QED
  BY <1>2, <1>3

\* the alerts made of an answer and a wallet
LEMMA AlertsFacts ==
    ASSUME NEW benefits, NEW vouchers, NEW hasCart, NEW l,
           l.alerts = GenerateAlerts(benefits, vouchers, hasCart)
    PROVE  /\ Told(l, "PARTNER_BENEFIT") = benefits
           /\ Told(l, "EXPIRING_VOUCHER") \subseteq
                {v.id : v \in {w \in vouchers : w.days \in 1..7}}
           /\ Told(l, "ANTI_CANNIBALIZATION_WARNING") # {} =>
                benefits # {} /\ \E v \in vouchers : v.days > 30
<1>1. \A a \in l.alerts :
        \/ /\ a.type = "PARTNER_BENEFIT" /\ a.about \in benefits
        \/ /\ a.type = "EXPIRING_VOUCHER"
           /\ \E v \in vouchers : v.id = a.about /\ v.days \in 1..7
        \/ /\ a.type = "ANTI_CANNIBALIZATION_WARNING"
           /\ benefits # {} /\ \E v \in vouchers : v.days > 30
  BY DEF GenerateAlerts, ExpiringSoon, LongVouchers
<1>2. \A b \in benefits : \E a \in l.alerts : a.type = "PARTNER_BENEFIT" /\ a.about = b
  <2>1. \A b \in benefits :
            [type |-> "PARTNER_BENEFIT", about |-> b, urgency |-> "HIGH"] \in l.alerts
    BY DEF GenerateAlerts
  <2> QED
    BY <2>1
<1> QED
  BY <1>1, <1>2 DEF Told

LEMMA AskedStep ==
    ASSUME CatalogInv, CatalogAssumption, NEW merchant, NEW programs, NEW vouchers, NEW hasCart,
           GetBenefitsForMerchant(merchant, programs, vouchers, hasCart)
    PROVE  CatalogInv'
<1> DEFINE given == CachedBenefits(merchant, programs)
           told == [merchant |-> merchant, programs |-> programs, at |-> hour,
                    benefits |-> given.benefits, vouchers |-> vouchers,
                    alerts |-> GenerateAlerts(given.benefits, vouchers, hasCart)]
<1>1. /\ given.merchant = merchant /\ given.programs = programs
      /\ IsRecent(given)
      /\ Known(given, hour - CatalogTtl) \subseteq given.benefits
  BY AnswerIsRecent
<1>2. /\ lookup' = {told} /\ offered' = {} /\ Remember(given)
      /\ UNCHANGED <<hour, edges, activeBundle, passed>>
  BY DEF GetBenefitsForMerchant
<1>3. /\ told.merchant = merchant /\ told.programs = programs /\ told.at = hour
      /\ told.benefits = given.benefits /\ told.vouchers = vouchers
      /\ told.alerts = GenerateAlerts(given.benefits, vouchers, hasCart)
  OBVIOUS
<1> HIDE DEF given, told
<1>4. /\ Told(told, "PARTNER_BENEFIT") = told.benefits
      /\ Told(told, "EXPIRING_VOUCHER") \subseteq
            {v.id : v \in {w \in told.vouchers : w.days \in 1..7}}
      /\ Told(told, "ANTI_CANNIBALIZATION_WARNING") # {} =>
            told.benefits # {} /\ \E v \in told.vouchers : v.days > 30
  BY <1>3, AlertsFacts
<1>5. /\ Known(told, told.at - CatalogTtl) \subseteq told.benefits
      /\ told.benefits \subseteq Known(told, told.at)
  <2>1. \A t : Known(told, t) = Known(given, t)
    BY <1>1, <1>3 DEF Known
  <2>2. CatalogTypeOK /\ hour \in Nat /\ given.at \in Int /\ given.at <= hour
    BY <1>1 DEF CatalogInv, CatalogTypeOK, IsRecent
  <2>3. Known(given, given.at) \subseteq Known(given, hour)
    BY <2>2, KnownGrows
  <2> QED
    BY <1>1, <1>3, <2>1, <2>3 DEF IsRecent
<1>6. \A l, t : Known(l, t)' = Known(l, t)
  BY <1>2 DEF Known
<1>7. \A m \in memoCache' : IsRecent(m)'
  <2>1. ASSUME NEW m, IsRecent(m) PROVE IsRecent(m)'
    BY <1>2, <1>6, <2>1 DEF IsRecent
  <2>2. memoCache' \subseteq memoCache \cup {given}
    BY <1>2 DEF Remember
  <2> QED
    BY <1>1, <2>1, <2>2 DEF CatalogInv
<1>8. AnswersAreRecent'
  <2>1. \A l, type : Told(l, type)' = Told(l, type)
    BY DEF Told
  <2> QED
    BY <1>2, <1>4, <1>5, <1>6, <2>1 DEF AnswersAreRecent
<1>9. CatalogTypeOK' /\ OneBundle'
  BY <1>2 DEF CatalogInv, CatalogTypeOK, OneBundle
<1> QED
  BY <1>7, <1>8, <1>9 DEF CatalogInv

LEMMA RegisterProgramStep ==
    ASSUME CatalogInv, NEW p \in Programs, RegisterProgram(p)
    PROVE  CatalogInv'
<1>1. PICK place \in CatalogMerchants, b \in PartnerBenefits :
        edges' = Append(edges, [program |-> p, merchant |-> place, benefit |-> b, since |-> hour])
  BY DEF RegisterProgram
<1> DEFINE new == [program |-> p, merchant |-> place, benefit |-> b, since |-> hour]
<1>2. /\ lookup' = {} /\ offered' = {}
      /\ UNCHANGED <<hour, memoCache, activeBundle, passed>>
  BY DEF RegisterProgram, Unasked
<1>3. hour \in Nat /\ edges \in Seq(DatedEdges) /\ Len(edges) \in Nat
  BY DEF CatalogInv, CatalogTypeOK
<1>4. new \in DatedEdges /\ new.since = hour
  BY <1>3 DEF DatedEdges
<1> HIDE DEF new
<1>5. /\ edges' \in Seq(DatedEdges) /\ Len(edges') = Len(edges) + 1
      /\ \A i \in 1..Len(edges) : edges'[i] = edges[i]
      /\ edges'[Len(edges) + 1] = new
  BY <1>1, <1>3, <1>4 DEF new
<1>6. CatalogTypeOK'
  BY <1>2, <1>3, <1>4, <1>5 DEF CatalogInv, CatalogTypeOK
<1>7. ASSUME NEW l, NEW t
      PROVE  /\ Known(l, t) \subseteq Known(l, t)'
             /\ ~(hour <= t) => Known(l, t)' \subseteq Known(l, t)
  <2>1. DOMAIN edges = 1..Len(edges) /\ DOMAIN edges' = 1..Len(edges) + 1
    BY <1>3, <1>5
  <2> QED
    BY <1>3, <1>4, <1>5, <2>1 DEF Known
<1>8. \A n \in memoCache' : IsRecent(n)'
  <2> SUFFICES ASSUME NEW n \in memoCache PROVE IsRecent(n)'
    BY <1>2
  <2>1. IsRecent(n)
    BY DEF CatalogInv
  <2>2. ~(hour <= n.at - 1)
    BY <1>3, <2>1 DEF IsRecent
  <2> QED
    BY <1>2, <1>7, <2>1, <2>2 DEF IsRecent
<1>9. OneBundle' /\ AnswersAreRecent'
  BY <1>2 DEF CatalogInv, OneBundle, AnswersAreRecent
<1> QED
  BY <1>6, <1>8, <1>9 DEF CatalogInv

\* steps that ask for nothing
LEMMA UnaskedStep ==
    ASSUME CatalogInv, lookup' = {}, offered' = {}, edges' = edges,
           hour' \in Nat, hour <= hour', memoCache' \subseteq memoCache, OneBundle'
    PROVE  CatalogInv'
<1>1. CatalogTypeOK'
  <2>1. \A i \in 1..Len(edges) : edges[i].since \in Nat
    <3>1. \A i \in 1..Len(edges) : edges[i] \in DatedEdges
      BY DEF CatalogInv, CatalogTypeOK
    <3> QED
      BY <3>1 DEF DatedEdges
  <2> QED
    BY <2>1 DEF CatalogInv, CatalogTypeOK
<1>2. \A l, t : Known(l, t)' = Known(l, t)
  BY DEF Known
<1>3. \A m \in memoCache' : IsRecent(m)'
  BY <1>2 DEF CatalogInv, CatalogTypeOK, IsRecent
<1>4. AnswersAreRecent'
  BY DEF AnswersAreRecent
<1> QED
  BY <1>1, <1>3, <1>4 DEF CatalogInv

LEMMA LoadBundleStep ==
    ASSUME CatalogInv, NEW raw \in Datasets, LoadBundle(raw)
    PROVE  CatalogInv'
<1>1. OneBundle'
  BY DEF LoadBundle, CatalogInv, OneBundle
<1> QED
  BY <1>1, UnaskedStep DEF LoadBundle, Unasked, CatalogInv, CatalogTypeOK

\* each of the bundle's offers and coupons is asked what the property asks
LEMMA QueryOffersStep ==
    ASSUME CatalogInv, CatalogAssumption, NEW m, QueryOffers(m)
    PROVE  CatalogInv'
<1> DEFINE told == [merchant |-> m, at |-> hour, loaded |-> activeBundle # {},
                    offers |-> UNION {OffersForMerchant(b.offers, m) : b \in activeBundle},
                    coupons |-> UNION {CouponsForMerchant(b.coupons, m) : b \in activeBundle}]
           current_offers == {f \in UNION {b.offers : b \in passed} :
                /\ f.merchant = told.merchant
                /\ \E from \in f.from, until \in f.until : from <= told.at /\ told.at <= until}
           current_coupons == {c \in UNION {b.coupons : b \in passed} :
                /\ c.merchant = told.merchant
                /\ c.dated => \E until \in c.until : told.at <= until}
<1>1. /\ offered' = {told} /\ lookup' = {}
      /\ UNCHANGED <<hour, edges, memoCache, activeBundle, passed>>
  BY DEF QueryOffers
<1>2. /\ told.merchant = m /\ told.at = hour /\ hour \in Nat
      /\ activeBundle = passed /\ passed \subseteq Datasets
      /\ told.loaded <=> passed # {}
  BY DEF CatalogInv, CatalogTypeOK, OneBundle
<1>3. told.offers = current_offers
  <2>1. ASSUME NEW b \in passed, NEW f \in b.offers
        PROVE  f \in OffersForMerchant(b.offers, m) <=> f \in current_offers
    <3>1. \A from \in f.from, until \in f.until :
            hour \in from..until <=> from <= hour /\ hour <= until
      BY <1>2, <2>1 DEF CatalogAssumption
    <3> QED
      BY <1>2, <2>1, <3>1 DEF OffersForMerchant
  <2>2. told.offers = UNION {OffersForMerchant(b.offers, m) : b \in passed}
    BY <1>2
  <2>3. \A b \in passed : OffersForMerchant(b.offers, m) \subseteq b.offers
    BY DEF OffersForMerchant
  <2>4. \A f \in current_offers : \E b \in passed : f \in b.offers
    OBVIOUS
  <2> HIDE DEF told, current_offers
  <2> QED
    BY <2>1, <2>2, <2>3, <2>4
<1>4. told.coupons = current_coupons
  <2>1. ASSUME NEW b \in passed, NEW c \in b.coupons
        PROVE  c \in CouponsForMerchant(b.coupons, m) <=> c \in current_coupons
    BY <1>2, <2>1 DEF CouponsForMerchant
  <2>2. told.coupons = UNION {CouponsForMerchant(b.coupons, m) : b \in passed}
    BY <1>2
  <2>3. \A b \in passed : CouponsForMerchant(b.coupons, m) \subseteq b.coupons
    BY DEF CouponsForMerchant
  <2>4. \A c \in current_coupons : \E b \in passed : c \in b.coupons
    OBVIOUS
  <2> HIDE DEF told, current_coupons
  <2> QED
    BY <2>1, <2>2, <2>3, <2>4
<1>5. AnswersAreRecent'
  <2> HIDE DEF told
  <2> QED
    BY <1>1, <1>2, <1>3, <1>4 DEF AnswersAreRecent
<1>6. \A l, t : Known(l, t)' = Known(l, t)
  BY <1>1 DEF Known
<1>7. \A n \in memoCache' : IsRecent(n)'
  BY <1>1, <1>6 DEF CatalogInv, IsRecent
<1>8. CatalogTypeOK' /\ OneBundle'
  BY <1>1 DEF CatalogInv, CatalogTypeOK, OneBundle
<1> QED
  BY <1>5, <1>7, <1>8 DEF CatalogInv

\* What is remembered, for any programs, wallets, datasets and time to live:
\* never more than was known when it was given, and never less than was known
\* just before (getCachedBenefits, loadBundle).
THEOREM CatalogInvariance == CatalogSpec => []CatalogInv
<1>1. CatalogInit => CatalogInv
  <2> SUFFICES ASSUME CatalogInit PROVE CatalogInv
    OBVIOUS
  <2>1. CASE edges = <<>>
    BY <2>1 DEF CatalogInit, CatalogInv, CatalogTypeOK, OneBundle, AnswersAreRecent
  <2>2. ASSUME NEW p \in Programs, NEW m \in CatalogMerchants, NEW b \in PartnerBenefits,
               edges = <<[program |-> p, merchant |-> m, benefit |-> b, since |-> 0]>>
        PROVE  CatalogInv
    <3> DEFINE first == [program |-> p, merchant |-> m, benefit |-> b, since |-> 0]
    <3>1. first \in DatedEdges /\ first.since = 0
      BY DEF DatedEdges
    <3> HIDE DEF first
    <3>2. edges \in Seq(DatedEdges) /\ \A i \in 1..Len(edges) : edges[i] = first
      BY <2>2, <3>1 DEF first
    <3> QED
      BY <3>1, <3>2
         DEF CatalogInit, CatalogInv, CatalogTypeOK, OneBundle, AnswersAreRecent
  <2> QED
    BY <2>1, <2>2 DEF CatalogInit
<1>2. CatalogInv /\ [CatalogNext]_catalogVars => CatalogInv'
  <2> SUFFICES ASSUME CatalogInv, [CatalogNext]_catalogVars PROVE CatalogInv'
    OBVIOUS
  <2>0. hour \in Nat /\ OneBundle
    BY DEF CatalogInv, CatalogTypeOK
  <2>1. CASE ClearCache \/ CatalogTick
    <3>1. /\ lookup' = {} /\ offered' = {} /\ edges' = edges
          /\ hour' = hour \/ hour' = hour + 1
          /\ memoCache' \subseteq memoCache /\ UNCHANGED <<activeBundle, passed>>
      BY <2>1 DEF ClearCache, CatalogTick, Unasked
    <3>2. hour' \in Nat /\ hour <= hour' /\ OneBundle'
      BY <2>0, <3>1 DEF OneBundle
    <3> QED
      BY <3>1, <3>2, UnaskedStep
  <2>2. CASE UNCHANGED catalogVars
    <3>1. /\ \A l, t : Known(l, t)' = Known(l, t)
          /\ \A l, type : Told(l, type)' = Told(l, type)
      BY <2>2 DEF Known, Told, catalogVars
    <3>2. AnswersAreRecent'
      BY <2>2, <3>1 DEF CatalogInv, AnswersAreRecent, catalogVars
    <3>3. \A m \in memoCache' : IsRecent(m)'
      BY <2>2, <3>1 DEF CatalogInv, IsRecent, catalogVars
    <3>4. CatalogTypeOK' /\ OneBundle'
      BY <2>2 DEF CatalogInv, CatalogTypeOK, OneBundle, catalogVars
    <3> QED
      BY <3>2, <3>3, <3>4 DEF CatalogInv
  <2> QED
    <3>1. CASE \E p \in Programs : RegisterProgram(p)
      BY <3>1, RegisterProgramStep
    <3>2. CASE \E m, programs, w, c : GetBenefitsForMerchant(m, programs, w, c)
      BY <3>2, CatalogAssumption, AskedStep
    <3>3. CASE (\E raw \in Datasets : LoadBundle(raw)) \/ \E m : QueryOffers(m)
      BY <3>3, CatalogAssumption, LoadBundleStep, QueryOffersStep
    <3> QED
      BY <2>1, <2>2, <3>1, <3>2, <3>3 DEF CatalogNext
<1> QED
  BY <1>1, <1>2, PTL DEF CatalogSpec

\* Answers and alerts are those of what is known, at most the time to live
\* before, and offers and coupons exactly the valid ones of the last dataset
\* accepted (AnswersAreRecent; getCachedBenefits, generateAlerts, loadBundle,
\* getOffersForMerchant, getCouponsForMerchant).
THEOREM AnswersStayRecent == CatalogSpec => []AnswersAreRecent
<1>1. CatalogInv => AnswersAreRecent
  BY DEF CatalogInv
<1> QED
  BY <1>1, CatalogInvariance, PTL

-----------------------------------------------------------------------------
(* ProfileManager: any callers, vouchers and programs, and any overlapping *)
(* of the calls and their failures                                         *)

ListElements == [id : VoucherIds \cup ProgramIds, value : {1, 2}]

\* a field that is there or not
Optional == {f \in SUBSET Seq(ListElements) : \A s, t \in f : s = t}

Profiles ==
    [methods : Seq({1, 2}), vouchers : Optional, memberships : Optional, preferences : {0, 1}]

Distinct(list) == \A i, j \in 1..Len(list) : list[i].id = list[j].id => i = j

ProfileOK(p) == p \in Profiles /\ Distinct(ListOf(p.memberships))

\* one record at the most, with a profile in it
RecordOK(record) == (\A p \in record : ProfileOK(p)) /\ \A p, q \in record : p = q

ManagedCalls ==
    [step : {"idle", "reading", "writing"}, op : Operations \cup {[type |-> "none"]},
     read : SUBSET Profiles, alone : BOOLEAN]

CallOK(call) ==
    /\ call \in ManagedCalls
    /\ call.step # "idle" => call.op \in Operations
    /\ call.step = "writing" => RecordOK(call.read) /\ (call.alone => call.read = current)

ManagerInv ==
    /\ RecordOK(current) /\ damaged \in BOOLEAN
    /\ DOMAIN busy = Callers /\ \A c \in Callers : CallOK(busy[c])
    /\ \A d \in done :
          /\ \A old \in d.read, new \in current : TookEffect(d.op, old, new)
          /\ d.alone => d.before = d.read

LEMMA OperationFacts ==
    ASSUME NEW op \in Operations
    PROVE  /\ op.type \in {"addPaymentMethod", "addVoucher", "updateVoucher",
                           "removeVoucher", "addMembership", "removeMembership",
                           "updatePreferences"}
           /\ op.type = "addPaymentMethod" => op.value \in {1, 2} /\ "id" \notin DOMAIN op
           /\ op.type \in {"addVoucher", "updateVoucher", "addMembership"} =>
                Element(op) \in ListElements /\ Element(op).id = op.id
                /\ Element(op).value = op.value
           /\ op.type = "updatePreferences" => op.value = 1
<1>1. /\ op.type \in {"addPaymentMethod", "addVoucher", "updateVoucher", "removeVoucher",
                      "addMembership", "removeMembership", "updatePreferences"}
      /\ op.type = "addPaymentMethod" => op.value \in {1, 2} /\ "id" \notin DOMAIN op
      /\ op.type \in {"addVoucher", "updateVoucher", "addMembership"} =>
            op.id \in VoucherIds \cup ProgramIds /\ op.value \in {1, 2}
      /\ op.type = "updatePreferences" => op.value = 1
  BY DEF Operations
<1> QED
  BY <1>1 DEF Element, ListElements

LEMMA ListOfFacts ==
    /\ \A f \in Optional : ListOf(f) \in Seq(ListElements)
    /\ \A s : ListOf({s}) = s
    /\ \A f \in Optional : f # {} => f = {ListOf(f)}
    /\ ListOf({}) = <<>>
    /\ \A s \in Seq(ListElements) : {s} \in Optional
    /\ {} \in Optional
<1>1. ASSUME NEW f \in Optional PROVE ListOf(f) \in Seq(ListElements)
  BY DEF ListOf, Optional
<1>2. ASSUME NEW s PROVE ListOf({s}) = s
  BY DEF ListOf
<1>3. ASSUME NEW f \in Optional, f # {} PROVE f = {ListOf(f)}
  BY <1>3 DEF ListOf, Optional
<1>4. ListOf({}) = <<>>
  BY DEF ListOf
<1>5. ASSUME NEW s \in Seq(ListElements) PROVE {s} \in Optional
  BY DEF Optional
<1>6. {} \in Optional
  BY DEF Optional
<1> QED
  BY <1>1, <1>2, <1>3, <1>4, <1>5, <1>6

\* a list without the elements of an id
LEMMA WithoutFacts ==
    ASSUME NEW list \in Seq(ListElements), NEW id
    PROVE  /\ Without(list, id) \in Seq(ListElements)
           /\ ToSet(Without(list, id)) = {e \in ToSet(list) : e.id # id}
           /\ Distinct(list) => Distinct(Without(list, id))
<1> DEFINE I == {i \in DOMAIN list : list[i].id # id}
           rest == Without(list, id)
<1>1. rest = Kept(list, I)
  BY DEF Without
<1>2. I \in SUBSET (DOMAIN list) /\ DOMAIN list = 1..Len(list)
  OBVIOUS
<1> HIDE DEF I, rest
<1>3. rest \in Seq(ListElements) /\ \E order : PlacesOf(order, rest, list, I)
  BY <1>1, <1>2, KeptPlaces
<1>4. PICK order \in [1..Len(rest) -> I] :
            /\ \A k, l \in 1..Len(rest) : k < l => order[k] < order[l]
            /\ \A i \in I : \E k \in 1..Len(rest) : order[k] = i
            /\ \A k \in 1..Len(rest) : rest[k] = list[order[k]]
  BY <1>3 DEF PlacesOf
<1>5. DOMAIN rest = 1..Len(rest) /\ Len(rest) \in Nat
  BY <1>3
<1>6. ToSet(rest) = {e \in ToSet(list) : e.id # id}
  <2>1. ASSUME NEW e \in ToSet(rest) PROVE e \in ToSet(list) /\ e.id # id
    BY <1>4, <1>5 DEF ToSet, I
  <2>2. ASSUME NEW e \in ToSet(list), e.id # id PROVE e \in ToSet(rest)
    <3>1. PICK i \in DOMAIN list : e = list[i]
      BY DEF ToSet
    <3>2. i \in I
      BY <2>2, <3>1 DEF I
    <3> QED
      BY <1>4, <1>5, <3>1, <3>2 DEF ToSet
  <2> QED
    BY <2>1, <2>2
<1>7. ASSUME Distinct(list) PROVE Distinct(rest)
  <2> SUFFICES ASSUME NEW k \in 1..Len(rest), NEW l \in 1..Len(rest), rest[k].id = rest[l].id,
                      k # l
               PROVE  FALSE
    BY DEF Distinct
  <2>1. order[k] \in 1..Len(list) /\ order[l] \in 1..Len(list)
    BY <1>2, <1>4
  <2>2. order[k] = order[l]
    BY <1>4, <1>7, <2>1 DEF Distinct
  <2>3. k < l \/ l < k
    BY <1>5
  <2> QED
    BY <1>4, <2>1, <2>2, <2>3
<1> QED
  BY <1>3, <1>6, <1>7 DEF rest

\* one more element
LEMMA AppendedFacts ==
    ASSUME NEW list \in Seq(ListElements), NEW e \in ListElements
    PROVE  /\ Append(list, e) \in Seq(ListElements)
           /\ ToSet(Append(list, e)) = ToSet(list) \cup {e}
           /\ Distinct(list) /\ (\A x \in ToSet(list) : x.id # e.id) => Distinct(Append(list, e))
<1> DEFINE new == Append(list, e)
<1>1. /\ new \in Seq(ListElements) /\ Len(new) = Len(list) + 1 /\ Len(list) \in Nat
      /\ \A i \in 1..Len(list) : new[i] = list[i]
      /\ new[Len(list) + 1] = e
      /\ DOMAIN list = 1..Len(list) /\ DOMAIN new = 1..Len(list) + 1
  OBVIOUS
<1> HIDE DEF new
<1>2. ToSet(new) = ToSet(list) \cup {e}
  BY <1>1 DEF ToSet
<1>3. ASSUME Distinct(list), \A x \in ToSet(list) : x.id # e.id PROVE Distinct(new)
  <2>1. \A i \in 1..Len(list) : list[i].id # e.id
    BY <1>1, <1>3 DEF ToSet
  <2>2. \A i \in 1..Len(new) :
            \/ i \in 1..Len(list) /\ new[i] = list[i]
            \/ i = Len(new) /\ new[i] = e
    BY <1>1
  <2> QED
    BY <1>1, <1>3, <2>1, <2>2 DEF Distinct
<1> QED
  BY <1>1, <1>2, <1>3 DEF new

\* what an operation makes of each of the two lists
LEMMA FieldFacts ==
    ASSUME NEW field \in Optional, NEW e \in ListElements, NEW id, e.id = id
    PROVE  /\ {Append(ListOf(field), e)} \in Optional
           /\ Others({Append(ListOf(field), e)}, id) = Others(field, id)
           /\ e.value \in Named({Append(ListOf(field), e)}, id)
           /\ {Append(Without(ListOf(field), id), e)} \in Optional
           /\ Others({Append(Without(ListOf(field), id), e)}, id) = Others(field, id)
           /\ Named({Append(Without(ListOf(field), id), e)}, id) = {e.value}
           /\ Distinct(ListOf(field)) =>
                Distinct(ListOf({Append(Without(ListOf(field), id), e)}))
<1> DEFINE list == ListOf(field)
           rest == Without(list, id)
<1>1. list \in Seq(ListElements)
  BY ListOfFacts
<1>2. /\ rest \in Seq(ListElements) /\ ToSet(rest) = {x \in ToSet(list) : x.id # id}
      /\ Distinct(list) => Distinct(rest)
  BY <1>1, WithoutFacts
<1> HIDE DEF list, rest
<1>3. /\ Append(list, e) \in Seq(ListElements) /\ ToSet(Append(list, e)) = ToSet(list) \cup {e}
      /\ Append(rest, e) \in Seq(ListElements) /\ ToSet(Append(rest, e)) = ToSet(rest) \cup {e}
      /\ Distinct(list) => Distinct(Append(rest, e))
  BY <1>1, <1>2, AppendedFacts
<1>4. /\ {Append(list, e)} \in Optional /\ ListOf({Append(list, e)}) = Append(list, e)
      /\ {Append(rest, e)} \in Optional /\ ListOf({Append(rest, e)}) = Append(rest, e)
  BY <1>3, ListOfFacts
<1>5. /\ Elements(field) = ToSet(list)
      /\ Elements({Append(list, e)}) = ToSet(list) \cup {e}
      /\ Elements({Append(rest, e)}) = {x \in ToSet(list) : x.id # id} \cup {e}
  BY <1>2, <1>3, <1>4 DEF Elements, list
<1>6. /\ Others({Append(list, e)}, id) = Others(field, id)
      /\ Others({Append(rest, e)}, id) = Others(field, id)
  BY <1>5 DEF Others
<1>7. e.value \in Named({Append(list, e)}, id)
  BY <1>5 DEF Named, Others
<1>8. Named({Append(rest, e)}, id) = {e.value}
  BY <1>5 DEF Named, Others
<1> QED
  BY <1>3, <1>4, <1>6, <1>7, <1>8 DEF list, rest

Dropped(field, id) == {Without(s, id) : s \in field}

LEMMA RemovedFacts ==
    ASSUME NEW field \in Optional, NEW id
    PROVE  /\ Dropped(field, id) \in Optional
           /\ Others(Dropped(field, id), id) = Others(field, id)
           /\ Named(Dropped(field, id), id) = {}
           /\ Distinct(ListOf(field)) => Distinct(ListOf(Dropped(field, id)))
<1> DEFINE new == Dropped(field, id)
           list == ListOf(field)
           rest == Without(list, id)
<1>1. CASE field = {}
  <2>1. new = field /\ ListOf(field) = <<>>
    BY <1>1, ListOfFacts DEF Dropped
  <2>2. Elements(field) = {}
    BY <2>1 DEF Elements, ToSet
  <2> QED
    BY <2>1, <2>2 DEF Named
<1>2. CASE field # {}
  <2>1. list \in Seq(ListElements) /\ field = {list}
    BY <1>2, ListOfFacts
  <2>2. /\ rest \in Seq(ListElements) /\ ToSet(rest) = {x \in ToSet(list) : x.id # id}
        /\ Distinct(list) => Distinct(rest)
    BY <2>1, WithoutFacts
  <2>3. new = {rest}
    BY <2>1 DEF Dropped
  <2> HIDE DEF list, rest, new
  <2>4. {rest} \in Optional /\ ListOf({rest}) = rest
    BY <2>2, ListOfFacts
  <2>5. Elements(field) = ToSet(list) /\ Elements(new) = {x \in ToSet(list) : x.id # id}
    BY <2>2, <2>3, <2>4 DEF Elements, list
  <2>6. Others(new, id) = Others(field, id) /\ Named(new, id) = {}
    BY <2>5 DEF Named, Others
  <2> QED
    BY <2>2, <2>3, <2>4, <2>6 DEF list, new
<1> QED
  BY <1>1, <1>2

LEMMA UpdatedFacts ==
    ASSUME NEW field \in Optional, NEW e \in ListElements, NEW id, e.id = id
    PROVE  LET new == {[i \in DOMAIN ListOf(field) |->
                            IF ListOf(field)[i].id = id THEN e ELSE ListOf(field)[i]]}
           IN  /\ new \in Optional /\ Others(new, id) = Others(field, id)
               /\ Named(field, id) = {} => Named(new, id) = {}
               /\ Named(field, id) # {} => Named(new, id) = {e.value}
<1> DEFINE list == ListOf(field)
           changed == [i \in DOMAIN list |-> IF list[i].id = id THEN e ELSE list[i]]
<1>1. /\ list \in Seq(ListElements) /\ DOMAIN list = 1..Len(list) /\ Len(list) \in Nat
      /\ \A i \in 1..Len(list) : list[i] \in ListElements
  BY ListOfFacts
<1> HIDE DEF list
<1>2. /\ changed \in [1..Len(list) -> ListElements]
      /\ \A i \in 1..Len(list) : changed[i] = IF list[i].id = id THEN e ELSE list[i]
  BY <1>1
<1> HIDE DEF changed
<1>3. changed \in Seq(ListElements) /\ DOMAIN changed = 1..Len(list)
  BY <1>1, <1>2
<1>4. {changed} \in Optional /\ ListOf({changed}) = changed
  BY <1>3, ListOfFacts
<1>5. Elements(field) = {list[i] : i \in 1..Len(list)}
      /\ Elements({changed}) = {changed[i] : i \in 1..Len(list)}
  BY <1>1, <1>3, <1>4 DEF Elements, ToSet, list
<1>6. Others({changed}, id) = Others(field, id)
  BY <1>2, <1>5 DEF Others
<1>7. ASSUME Named(field, id) = {} PROVE Named({changed}, id) = {}
  <2>1. \A i \in 1..Len(list) : list[i].id # id
    <3> SUFFICES ASSUME NEW i \in 1..Len(list), list[i].id = id PROVE FALSE
      OBVIOUS
    <3>1. list[i] \in Elements(field) \ Others(field, id)
      BY <1>5 DEF Others
    <3>2. list[i].value \in Named(field, id)
      BY <3>1 DEF Named
    <3> QED
      BY <1>7, <3>2
  <2>2. \A i \in 1..Len(list) : changed[i].id # id
    BY <1>2, <2>1
  <2> QED
    BY <1>5, <2>2 DEF Named, Others
<1>8. ASSUME Named(field, id) # {} PROVE Named({changed}, id) = {e.value}
  <2>1. PICK i \in 1..Len(list) : list[i].id = id
    BY <1>5, <1>8 DEF Named, Others
  <2>2. changed[i] = e
    BY <1>2, <2>1
  <2>3. \A j \in 1..Len(list) : changed[j].id = id => changed[j] = e
    BY <1>2
  <2> QED
    BY <1>5, <2>2, <2>3, ZenonT(60) DEF Named, Others
<1> QED
  BY <1>4, <1>6, <1>7, <1>8 DEF list, changed

LEMMA FieldChanges ==
    ASSUME NEW p \in Profiles, NEW f \in Optional, NEW n \in {0, 1}, NEW s \in Seq({1, 2})
    PROVE  /\ [p EXCEPT !.methods = s] \in Profiles
           /\ [p EXCEPT !.methods = s].methods = s
           /\ [p EXCEPT !.methods = s].vouchers = p.vouchers
           /\ [p EXCEPT !.methods = s].memberships = p.memberships
           /\ [p EXCEPT !.methods = s].preferences = p.preferences
           /\ [p EXCEPT !.vouchers = f].methods = p.methods
           /\ [p EXCEPT !.memberships = f].methods = p.methods
           /\ [p EXCEPT !.preferences = n].methods = p.methods
           /\ [p EXCEPT !.vouchers = f] \in Profiles
           /\ [p EXCEPT !.vouchers = f].vouchers = f
           /\ [p EXCEPT !.vouchers = f].memberships = p.memberships
           /\ [p EXCEPT !.vouchers = f].preferences = p.preferences
           /\ [p EXCEPT !.memberships = f] \in Profiles
           /\ [p EXCEPT !.memberships = f].vouchers = p.vouchers
           /\ [p EXCEPT !.memberships = f].memberships = f
           /\ [p EXCEPT !.memberships = f].preferences = p.preferences
           /\ [p EXCEPT !.preferences = n] \in Profiles
           /\ [p EXCEPT !.preferences = n].vouchers = p.vouchers
           /\ [p EXCEPT !.preferences = n].memberships = p.memberships
  BY DEF Profiles

\* an operation changes what it is for and nothing else
LEMMA AppliedFacts ==
    ASSUME NEW p, ProfileOK(p), NEW op \in Operations
    PROVE  ProfileOK(Applied(p, op)) /\ TookEffect(op, p, Applied(p, op))
<1> DEFINE new == Applied(p, op)
           vs == p.vouchers
           ms == p.memberships
<1>1. /\ p \in Profiles /\ vs \in Optional /\ ms \in Optional /\ Distinct(ListOf(ms))
      /\ p.methods \in Seq({1, 2})
  BY DEF ProfileOK, Profiles
<1>2. /\ op.type \in {"addPaymentMethod", "addVoucher", "updateVoucher", "removeVoucher",
                      "addMembership", "removeMembership", "updatePreferences"}
      /\ op.type = "addPaymentMethod" => op.value \in {1, 2} /\ "id" \notin DOMAIN op
      /\ op.type \in {"addVoucher", "updateVoucher", "addMembership"} =>
            /\ Element(op) \in ListElements /\ Element(op).id = op.id
            /\ Element(op).value = op.value
      /\ op.type = "updatePreferences" => op.value = 1
  BY OperationFacts
<1>3. CASE op.type = "addVoucher"
  <2> DEFINE f == {Append(ListOf(vs), Element(op))}
  <2>1. new = [p EXCEPT !.vouchers = f]
    BY <1>3 DEF Applied
  <2>2. /\ f \in Optional /\ Others(f, op.id) = Others(vs, op.id)
        /\ op.value \in Named(f, op.id)
    <3>1. Element(op) \in ListElements /\ Element(op).id = op.id
      BY <1>2, <1>3
    <3>2. /\ f \in Optional /\ Others(f, op.id) = Others(vs, op.id)
          /\ Element(op).value \in Named(f, op.id)
      BY <1>1, <3>1, FieldFacts, ZenonT(60)
    <3> QED
      BY <1>2, <1>3, <3>2
  <2> HIDE DEF f, new, vs, ms
  <2>3. /\ new \in Profiles /\ new.vouchers = f /\ new.memberships = p.memberships
        /\ new.preferences = p.preferences /\ new.methods = p.methods
    BY <1>1, <2>1, <2>2, FieldChanges
  <2> QED
    BY <1>1, <1>3, <2>2, <2>3 DEF TookEffect, ProfileOK, new, vs, ms
<1>4. CASE op.type = "updateVoucher"
  <2> DEFINE f == {[i \in DOMAIN ListOf(vs) |->
                        IF ListOf(vs)[i].id = op.id THEN Element(op) ELSE ListOf(vs)[i]]}
  <2>1. new = [p EXCEPT !.vouchers = f]
    BY <1>4 DEF Applied
  <2>2. /\ f \in Optional /\ Others(f, op.id) = Others(vs, op.id)
        /\ Named(vs, op.id) = {} => Named(f, op.id) = {}
        /\ Named(vs, op.id) # {} => Named(f, op.id) = {op.value}
    <3>1. Element(op) \in ListElements /\ Element(op).id = op.id
      BY <1>2, <1>4
    <3>2. /\ f \in Optional /\ Others(f, op.id) = Others(vs, op.id)
          /\ Named(vs, op.id) = {} => Named(f, op.id) = {}
          /\ Named(vs, op.id) # {} => Named(f, op.id) = {Element(op).value}
      BY <1>1, <3>1, UpdatedFacts
    <3> QED
      BY <1>2, <1>4, <3>2
  <2> HIDE DEF f, new, vs, ms
  <2>3. /\ new \in Profiles /\ new.vouchers = f /\ new.memberships = p.memberships
        /\ new.preferences = p.preferences /\ new.methods = p.methods
    BY <1>1, <2>1, <2>2, FieldChanges
  <2> QED
    BY <1>1, <1>4, <2>2, <2>3 DEF TookEffect, ProfileOK, new, vs, ms
<1>5. CASE op.type = "removeVoucher"
  <2> DEFINE f == Dropped(vs, op.id)
  <2>1. new = [p EXCEPT !.vouchers = f]
    BY <1>5 DEF Applied, Dropped
  <2>2. f \in Optional /\ Others(f, op.id) = Others(vs, op.id) /\ Named(f, op.id) = {}
    BY <1>1, RemovedFacts
  <2> HIDE DEF f, new, vs, ms
  <2>3. /\ new \in Profiles /\ new.vouchers = f /\ new.memberships = p.memberships
        /\ new.preferences = p.preferences /\ new.methods = p.methods
    BY <1>1, <2>1, <2>2, FieldChanges
  <2> QED
    BY <1>1, <1>5, <2>2, <2>3 DEF TookEffect, ProfileOK, new, vs, ms
<1>6. CASE op.type = "addMembership"
  <2> DEFINE f == {Append(Without(ListOf(ms), op.id), Element(op))}
  <2>1. new = [p EXCEPT !.memberships = f]
    BY <1>6 DEF Applied, AddMembership
  <2>2. /\ f \in Optional /\ Others(f, op.id) = Others(ms, op.id)
        /\ Named(f, op.id) = {op.value} /\ Distinct(ListOf(f))
    <3>1. Element(op) \in ListElements /\ Element(op).id = op.id
      BY <1>2, <1>6
    <3>2. /\ f \in Optional /\ Others(f, op.id) = Others(ms, op.id)
          /\ Named(f, op.id) = {Element(op).value} /\ Distinct(ListOf(f))
      BY <1>1, <3>1, FieldFacts
    <3> QED
      BY <1>2, <1>6, <3>2
  <2> HIDE DEF f, new, vs, ms
  <2>3. /\ new \in Profiles /\ new.memberships = f /\ new.vouchers = p.vouchers
        /\ new.preferences = p.preferences /\ new.methods = p.methods
    BY <1>1, <2>1, <2>2, FieldChanges
  <2> QED
    BY <1>1, <1>6, <2>2, <2>3 DEF TookEffect, ProfileOK, new, vs, ms
<1>7. CASE op.type = "removeMembership"
  <2> DEFINE f == Dropped(ms, op.id)
  <2>1. new = [p EXCEPT !.memberships = f]
    BY <1>7 DEF Applied, Dropped
  <2>2. /\ f \in Optional /\ Others(f, op.id) = Others(ms, op.id) /\ Named(f, op.id) = {}
        /\ Distinct(ListOf(f))
    BY <1>1, RemovedFacts
  <2> HIDE DEF f, new, vs, ms
  <2>3. /\ new \in Profiles /\ new.memberships = f /\ new.vouchers = p.vouchers
        /\ new.preferences = p.preferences /\ new.methods = p.methods
    BY <1>1, <2>1, <2>2, FieldChanges
  <2> QED
    BY <1>1, <1>7, <2>2, <2>3 DEF TookEffect, ProfileOK, new, vs, ms
<1>8. CASE op.type = "updatePreferences"
  <2>1. new = [p EXCEPT !.preferences = 1]
    BY <1>2, <1>8 DEF Applied
  <2> HIDE DEF new
  <2>2. /\ new \in Profiles /\ new.memberships = p.memberships /\ new.vouchers = p.vouchers
        /\ new.methods = p.methods
    BY <1>1, <2>1, FieldChanges
  <2> QED
    BY <1>1, <1>8, <2>2 DEF TookEffect, ProfileOK, new
<1>9. CASE op.type = "addPaymentMethod"
  <2> DEFINE s == Append(p.methods, op.value)
  <2>1. new = [p EXCEPT !.methods = s]
    BY <1>9 DEF Applied
  <2>2. s \in Seq({1, 2})
    BY <1>1, <1>2, <1>9
  <2>3. new.methods = s
    BY <1>1, <2>1 DEF Profiles
  <2> HIDE DEF s, new, vs, ms
  <2>4. /\ new \in Profiles /\ new.memberships = p.memberships /\ new.vouchers = p.vouchers
        /\ new.preferences = p.preferences
    BY <1>1, <2>1, <2>2, FieldChanges
  <2>5. new.methods = Append(p.methods, op.value)
    BY <2>3 DEF s
  <2> QED
    BY <1>1, <1>2, <1>9, <2>4, <2>5 DEF TookEffect, ProfileOK, new, vs, ms
<1> QED
  BY <1>2, <1>3, <1>4, <1>5, <1>6, <1>7, <1>8, <1>9

LEMMA CallFacts ==
    ASSUME NEW call \in ManagedCalls
    PROVE  /\ NoCall \in ManagedCalls /\ NoCall.step = "idle"
           /\ \A op \in Operations :
                /\ [NoCall EXCEPT !.step = "reading", !.op = op] \in ManagedCalls
                /\ [NoCall EXCEPT !.step = "reading", !.op = op].step = "reading"
                /\ [NoCall EXCEPT !.step = "reading", !.op = op].op = op
           /\ \A read \in SUBSET Profiles :
                /\ [call EXCEPT !.step = "writing", !.read = read] \in ManagedCalls
                /\ [call EXCEPT !.step = "writing", !.read = read].op = call.op
                /\ [call EXCEPT !.step = "writing", !.read = read].read = read
           /\ \A alone \in BOOLEAN :
                /\ [call EXCEPT !.alone = alone] \in ManagedCalls
                /\ [call EXCEPT !.alone = alone].step = call.step
                /\ [call EXCEPT !.alone = alone].op = call.op
                /\ [call EXCEPT !.alone = alone].read = call.read
<1>1. NoCall \in ManagedCalls /\ NoCall.step = "idle"
  BY DEF NoCall, ManagedCalls
<1>2. ASSUME NEW op \in Operations
      PROVE  /\ [NoCall EXCEPT !.step = "reading", !.op = op] \in ManagedCalls
             /\ [NoCall EXCEPT !.step = "reading", !.op = op].step = "reading"
             /\ [NoCall EXCEPT !.step = "reading", !.op = op].op = op
  BY <1>1 DEF ManagedCalls
<1>3. ASSUME NEW read \in SUBSET Profiles
      PROVE  /\ [call EXCEPT !.step = "writing", !.read = read] \in ManagedCalls
             /\ [call EXCEPT !.step = "writing", !.read = read].op = call.op
             /\ [call EXCEPT !.step = "writing", !.read = read].read = read
  BY DEF ManagedCalls
<1>4. ASSUME NEW alone \in BOOLEAN
      PROVE  /\ [call EXCEPT !.alone = alone] \in ManagedCalls
             /\ [call EXCEPT !.alone = alone].step = call.step
             /\ [call EXCEPT !.alone = alone].op = call.op
             /\ [call EXCEPT !.alone = alone].read = call.read
  BY DEF ManagedCalls
<1> QED
  BY <1>1, <1>2, <1>3, <1>4

\* a call of one caller goes on, and nothing is stored
LEMMA CallerStep ==
    ASSUME ManagerInv, NEW c \in Callers, NEW call, busy' = [busy EXCEPT ![c] = call],
           CallOK(call), UNCHANGED <<current, damaged>>, done' = {}
    PROVE  ManagerInv'
<1>1. \A b : CallOK(b)' <=> CallOK(b)
  BY DEF CallOK
<1>2. RecordOK(current') /\ damaged' \in BOOLEAN
  BY DEF ManagerInv
<1>3. DOMAIN busy' = Callers /\ \A d \in Callers : CallOK(busy'[d])
  BY DEF ManagerInv
<1> QED
  BY <1>1, <1>2, <1>3 DEF ManagerInv, RecordOK

\* a record is stored: those who have read are told that they are not alone
LEMMA RecordPutStep ==
    ASSUME ManagerInv, NEW profiles, RecordOK(profiles), NEW c, PutRecord(profiles, c),
           \A d \in done' :
                /\ \A old \in d.read, new \in profiles : TookEffect(d.op, old, new)
                /\ d.alone => d.before = d.read
    PROVE  ManagerInv'
<1>1. /\ current' = profiles /\ damaged' = FALSE
      /\ busy' = [d \in Callers |-> IF d = c THEN NoCall
                        ELSE [busy[d] EXCEPT !.alone = @ /\ busy[d].step # "writing"]]
  BY DEF PutRecord
<1>2. DOMAIN busy' = Callers
  BY <1>1
<1>3. ASSUME NEW d \in Callers PROVE CallOK(busy[d])'
  <2>1. busy[d] \in ManagedCalls /\ CallOK(busy[d])
    BY DEF ManagerInv, CallOK
  <2>2. CASE d = c
    <3>1. busy'[d] = NoCall
      BY <1>1, <2>2
    <3> QED
      BY <2>1, <3>1, CallFacts DEF CallOK
  <2>3. CASE d # c
    <3> DEFINE alone == busy[d].alone /\ busy[d].step # "writing"
    <3>1. busy'[d] = [busy[d] EXCEPT !.alone = alone] /\ alone \in BOOLEAN
      BY <1>1, <2>3
    <3>2. busy[d].step = "writing" => alone = FALSE
      OBVIOUS
    <3> HIDE DEF alone
    <3>3. /\ busy'[d] \in ManagedCalls /\ busy'[d].step = busy[d].step
          /\ busy'[d].op = busy[d].op /\ busy'[d].read = busy[d].read
      <4>1. /\ [busy[d] EXCEPT !.alone = alone] \in ManagedCalls
            /\ [busy[d] EXCEPT !.alone = alone].step = busy[d].step
            /\ [busy[d] EXCEPT !.alone = alone].op = busy[d].op
            /\ [busy[d] EXCEPT !.alone = alone].read = busy[d].read
        BY <2>1, <3>1, CallFacts
      <4> QED
        BY <3>1, <4>1
    <3>4. busy[d].step = "writing" => ~busy'[d].alone
      <4>1. busy[d].step = "writing" => busy'[d] = [busy[d] EXCEPT !.alone = FALSE]
        BY <3>1, <3>2
      <4> QED
        BY <2>1, <4>1 DEF ManagedCalls
    <3> QED
      BY <2>1, <3>3, <3>4 DEF CallOK
  <2> QED
    BY <2>2, <2>3
<1>4. RecordOK(current)' /\ damaged' \in BOOLEAN
  BY <1>1 DEF RecordOK
<1>5. \A d \in done' :
            /\ \A old \in d.read, new \in current' : TookEffect(d.op, old, new)
            /\ d.alone => d.before = d.read
  BY <1>1
<1> QED
  BY <1>2, <1>3, <1>4, <1>5 DEF ManagerInv

LEMMA BlankIsProfile ==
    /\ RecordOK({BlankProfile}) /\ RecordOK({})
    /\ RecordOK({[BlankProfile EXCEPT !.vouchers = {<<>>}, !.memberships = {<<>>}]})
<1> DEFINE other == [BlankProfile EXCEPT !.vouchers = {<<>>}, !.memberships = {<<>>}]
<1>1. <<>> \in Seq(ListElements) /\ Distinct(<<>>)
  BY DEF Distinct
<1>2. /\ {} \in Optional /\ {<<>>} \in Optional /\ ListOf({}) = <<>> /\ ListOf({<<>>}) = <<>>
  BY <1>1, ListOfFacts
<1>3. BlankProfile \in Profiles /\ BlankProfile.memberships = {}
  <2>1. <<>> \in Seq({1, 2}) /\ 0 \in {0, 1}
    OBVIOUS
  <2> QED
    BY <1>2, <2>1, Zenon DEF BlankProfile, Profiles
<1>5. other \in Profiles /\ other.memberships = {<<>>}
  <2> DEFINE p == BlankProfile
             f == {<<>>}
  <2>1. p \in Profiles /\ f \in Optional
    BY <1>2, <1>3
  <2> HIDE DEF p, f
  <2>2. /\ [p EXCEPT !.vouchers = f, !.memberships = f] \in Profiles
        /\ [p EXCEPT !.vouchers = f, !.memberships = f].memberships = f
    BY <2>1 DEF Profiles
  <2> QED
    BY <2>2 DEF p, f, other
<1> HIDE DEF other
<1>4. ProfileOK(BlankProfile) /\ ProfileOK(other)
  BY <1>1, <1>2, <1>3, <1>5 DEF ProfileOK
<1> QED
  BY <1>4 DEF RecordOK, other

LEMMA ProfileReadStep ==
    ASSUME ManagerInv, NEW c \in Callers, ProfileRead(c)
    PROVE  ManagerInv'
<1> DEFINE goesOn == [busy[c] EXCEPT !.step = "writing", !.read = current]
<1>1. CallOK(busy[c]) /\ busy[c] \in ManagedCalls
  BY DEF ManagerInv, CallOK
<1>2. CASE busy' = [busy EXCEPT ![c] = NoCall]
  <2>1. CallOK(NoCall)
    BY <1>1, CallFacts DEF CallOK
  <2> QED
    BY <1>2, <2>1, CallerStep DEF ProfileRead
<1>3. CASE /\ GetRecord # {}
           /\ busy' = [busy EXCEPT ![c] = [@ EXCEPT !.step = "writing", !.read = GetRecord]]
  <2>1. GetRecord = current /\ RecordOK(current) /\ current \in SUBSET Profiles
    BY <1>3 DEF GetRecord, ManagerInv, RecordOK, ProfileOK
  <2>0. busy' = [busy EXCEPT ![c] = goesOn]
    BY <1>3, <2>1
  <2>2. goesOn \in ManagedCalls /\ goesOn.op = busy[c].op /\ goesOn.read = current
    BY <1>1, <2>1, CallFacts
  <2>3. busy[c].op \in Operations
    BY <1>1 DEF ProfileRead, CallOK
  <2> HIDE DEF goesOn
  <2>4. CallOK(goesOn)
    BY <2>1, <2>2, <2>3 DEF CallOK
  <2> QED
    BY <2>0, <2>4, CallerStep DEF ProfileRead
<1> QED
  BY <1>2, <1>3 DEF ProfileRead

LEMMA ProfileWrittenStep ==
    ASSUME ManagerInv, NEW c \in Callers, ProfileWritten(c)
    PROVE  ManagerInv'
<1> DEFINE op == busy[c].op
           saved == {Applied(p, op) : p \in busy[c].read}
<1>1. /\ op \in Operations /\ RecordOK(busy[c].read)
      /\ busy[c].alone => busy[c].read = current
  BY DEF ManagerInv, CallOK, ProfileWritten
<1>2. \A p \in busy[c].read : ProfileOK(Applied(p, op)) /\ TookEffect(op, p, Applied(p, op))
  BY <1>1, AppliedFacts DEF RecordOK
<1>3. RecordOK(saved)
  BY <1>1, <1>2 DEF RecordOK
<1>4. \A old \in busy[c].read, new \in saved : TookEffect(op, old, new)
  BY <1>1, <1>2 DEF RecordOK
<1>5. /\ PutRecord(saved, c)
      /\ done' = {[op |-> op, read |-> busy[c].read, before |-> current,
                   alone |-> busy[c].alone]}
  BY DEF ProfileWritten
<1> HIDE DEF op, saved
<1>6. \A d \in done' : /\ \A old \in d.read, new \in saved : TookEffect(d.op, old, new)
                       /\ d.alone => d.before = d.read
  BY <1>1, <1>4, <1>5
<1> QED
  BY <1>3, <1>5, <1>6, RecordPutStep

\* Whatever overlaps, each call that goes on to write has read the record, and
\* what is stored is a profile (get, saveProfile).
THEOREM ManagerInvariance == ManagerSpec => []ManagerInv
<1>1. ManagerInit => ManagerInv
  <2> SUFFICES ASSUME ManagerInit PROVE ManagerInv
    OBVIOUS
  <2>1. RecordOK(current)
    BY BlankIsProfile DEF ManagerInit, FirstRecords
  <2>2. NoCall \in ManagedCalls /\ NoCall.step = "idle"
    BY DEF NoCall, ManagedCalls
  <2> QED
    BY <2>1, <2>2 DEF ManagerInit, ManagerInv, CallOK
<1>2. ManagerInv /\ [ManagerNext]_managerVars => ManagerInv'
  <2> SUFFICES ASSUME ManagerInv, [ManagerNext]_managerVars PROVE ManagerInv'
    OBVIOUS
  <2>1. ASSUME NEW c \in Callers, NEW op \in Operations, Call(c, op) PROVE ManagerInv'
    <3> DEFINE call == [NoCall EXCEPT !.step = "reading", !.op = op]
    <3>1. /\ call \in ManagedCalls /\ call.step = "reading" /\ call.op = op
      <4>1. busy[c] \in ManagedCalls
        BY DEF ManagerInv, CallOK
      <4> QED
        BY <4>1, CallFacts
    <3> HIDE DEF call
    <3>2. CallOK(call)
      BY <3>1 DEF CallOK
    <3> QED
      BY <2>1, <3>2, CallerStep DEF Call, call
  <2>2. ASSUME NEW c \in Callers, ManagerFault(c) PROVE ManagerInv'
    <3>1. CallOK(NoCall)
      BY CallFacts DEF CallOK, ManagerInv
    <3> QED
      BY <2>2, <3>1, CallerStep DEF ManagerFault
  <2>3. CASE FirstProfile
    BY <2>3, BlankIsProfile, RecordPutStep DEF FirstProfile
  <2>4. CASE DamageRecord
    <3>1. damaged' \in BOOLEAN /\ done' = {} /\ UNCHANGED <<current, busy>>
      BY <2>4 DEF DamageRecord
    <3> QED
      BY <3>1 DEF ManagerInv, CallOK
  <2>5. CASE UNCHANGED managerVars
    BY <2>5 DEF ManagerInv, CallOK, managerVars
  <2> QED
    BY <2>1, <2>2, <2>3, <2>4, <2>5, ProfileReadStep, ProfileWrittenStep DEF ManagerNext
<1> QED
  BY <1>1, <1>2, PTL DEF ManagerSpec

\* Every write changes what it is for, of what its call read, and undoes others'
\* writes only when they came in between; no program has two memberships
\* (WritesTakeEffect; addMembership, addPaymentMethod and the other operations).
THEOREM WritesDoTheirs == ManagerSpec => []WritesTakeEffect
<1>1. ManagerInv => WritesTakeEffect
  <2> SUFFICES ASSUME ManagerInv, NEW p \in current
               PROVE  IsInjective([i \in DOMAIN ListOf(p.memberships) |->
                                        ListOf(p.memberships)[i].id])
    BY DEF ManagerInv, WritesTakeEffect
  <2> DEFINE list == ListOf(p.memberships)
  <2>1. p \in Profiles /\ Distinct(list)
    BY DEF ManagerInv, RecordOK, ProfileOK
  <2>2. list \in Seq(ListElements)
    BY <2>1, ListOfFacts DEF Profiles
  <2> HIDE DEF list
  <2>3. DOMAIN list = 1..Len(list)
    BY <2>2
  <2>4. IsInjective([i \in DOMAIN list |-> list[i].id])
    BY <2>1, <2>3 DEF Distinct, IsInjective
  <2> QED
    BY <2>4 DEF list
<1> QED
  BY <1>1, ManagerInvariance, PTL

-----------------------------------------------------------------------------
(* StrategyTransfer: files of any rows                                     *)

Ids == UNION {{f.rows[i].id : i \in DOMAIN f.rows} : f \in Uploads}

Strategies == [id : Ids, amounts : [1..3 -> Int], currencies : [1..3 -> Currencies]]

Imports ==
    [status : {"begun", "reading", "accepted", "refused"}, row : Nat \ {0},
     strategies : Seq(Strategies), errors : Nat]

\* a strategy that a row was read as
IsReadFrom(s, row) ==
    /\ s.id = row.id
    /\ Cardinality(ToSet(s.currencies)) = 1 /\ ToSet(s.currencies) \subseteq Currencies
    /\ \A j \in 1..3 : IF upload.format = "json" THEN s.amounts[j] = row.amounts[j]
                       ELSE s.currencies[j] # "JPY" =>
                                StandsFor(row.amounts[j], s.currencies[j], s.amounts[j])

TransferInv ==
    /\ upload \in Uploads /\ import \in Imports
    /\ import.status \in {"begun", "reading"} => import.row <= Len(upload.rows) + 1
    /\ import.status \in {"reading", "accepted"} /\ import.errors = 0 =>
          /\ Len(import.strategies) = import.row - 1
          /\ \A i \in 1..Len(import.strategies) :
                IsReadFrom(import.strategies[i], upload.rows[i])
          /\ upload.format = "json" =>
                \A i, j \in 1..Len(import.strategies) :
                    import.strategies[i].id = import.strategies[j].id => i = j
    /\ import.status = "begun" => import = Begun
    /\ import.status \in {"reading", "accepted"} =>
          (upload.format = "json" => FileParses(upload))
    /\ import.status = "accepted" => import.errors = 0 /\ import.row = Len(upload.rows) + 1

\* at most two digits, with zeros behind
LEMMA PaddedDigits ==
    ASSUME NEW digits \in Seq(0..9), Len(digits) <= 2
    PROVE  LET padded == digits \o <<0, 0>>
           IN  \/ Len(digits) = 0 /\ digits = <<>> /\ padded[1] = 0 /\ padded[2] = 0
               \/ Len(digits) = 1 /\ digits # <<>> /\ digits[1] \in 0..9
                  /\ padded[1] = digits[1] /\ padded[2] = 0
               \/ Len(digits) = 2 /\ digits # <<>> /\ digits[1] \in 0..9 /\ digits[2] \in 0..9
                  /\ padded[1] = digits[1] /\ padded[2] = digits[2]
<1> DEFINE padded == digits \o <<0, 0>>
<1>1. Len(digits) \in Nat /\ <<0, 0>> \in Seq(0..9) /\ Len(<<0, 0>>) = 2
  OBVIOUS
<1>2. \A i \in 1..Len(digits) + 2 :
            padded[i] = IF i <= Len(digits) THEN digits[i] ELSE <<0, 0>>[i - Len(digits)]
  BY <1>1, ConcatProperties
<1> HIDE DEF padded
<1>3. CASE Len(digits) = 0
  <2>1. padded[1] = <<0, 0>>[1] /\ padded[2] = <<0, 0>>[2] /\ digits = <<>>
    BY <1>2, <1>3
  <2> QED
    BY <1>3, <2>1 DEF padded
<1>4. CASE Len(digits) = 1
  <2>1. padded[1] = digits[1] /\ padded[2] = <<0, 0>>[1]
    BY <1>2, <1>4
  <2>2. digits[1] \in 0..9 /\ digits # <<>>
    <3>1. Len(digits) >= 1
      BY <1>4
    <3> QED
      BY <3>1
  <2> QED
    BY <1>4, <2>1, <2>2 DEF padded
<1>5. CASE Len(digits) = 2
  <2>1. padded[1] = digits[1] /\ padded[2] = digits[2]
    BY <1>2, <1>5
  <2>2. digits[1] \in 0..9 /\ digits[2] \in 0..9 /\ digits # <<>>
    <3>1. Len(digits) >= 2
      BY <1>5
    <3> QED
      BY <3>1
  <2> QED
    BY <1>5, <2>1, <2>2 DEF padded
<1>6. Len(digits) = 0 \/ Len(digits) = 1 \/ Len(digits) = 2
  <2>1. ASSUME NEW n \in Nat, n <= 2 PROVE n = 0 \/ n = 1 \/ n = 2
    BY <2>1
  <2> QED
    BY <1>1, <2>1, Zenon
<1> QED
  BY <1>3, <1>4, <1>5, <1>6

\* what the digits stand for, of a currency with hundredths
LEMMA AmountFacts ==
    ASSUME NEW d, d.whole \in Nat, d.digits \in Seq(0..9), Len(d.digits) <= 2
    PROVE  /\ ParseAmountMinor(d) \in Int
           /\ \A currency \in Currencies \ {"JPY"} :
                StandsFor(d, currency, ParseAmountMinor(d))
<1>1. ASSUME NEW whole \in Nat, NEW digits, NEW p1, NEW p2, NEW n,
             \/ n = 0 /\ digits = <<>> /\ p1 = 0 /\ p2 = 0
             \/ n = 1 /\ digits # <<>> /\ digits[1] \in 0..9 /\ p1 = digits[1] /\ p2 = 0
             \/ n = 2 /\ digits # <<>> /\ digits[1] \in 0..9 /\ digits[2] \in 0..9
                /\ p1 = digits[1] /\ p2 = digits[2]
      PROVE  LET scale == <<1, 10, 100>>[n + 1]
                 after == IF digits = <<>> THEN 0
                          ELSE IF n = 1 THEN digits[1] ELSE 10 * digits[1] + digits[2]
                 minor == whole * 100 + 10 * p1 + p2
             IN  minor \in Int /\ minor * scale = 100 * (whole * scale + after)
  <2>1. CASE n = 0
    BY <1>1, <2>1
  <2>2. CASE n = 1
    <3>1. <<1, 10, 100>>[n + 1] = 10 /\ digits # <<>> /\ p1 \in 0..9 /\ digits[1] = p1 /\ p2 = 0
      BY <1>1, <2>2
    <3> QED
      BY <2>2, <3>1
  <2>3. CASE n = 2
    <3>1. /\ <<1, 10, 100>>[n + 1] = 100 /\ digits # <<>> /\ p1 \in 0..9 /\ p2 \in 0..9
          /\ digits[1] = p1 /\ digits[2] = p2
      BY <1>1, <2>3
    <3> QED
      BY <2>3, <3>1
  <2> QED
    BY <1>1, <2>1, <2>2, <2>3
<1>2. LET padded == d.digits \o <<0, 0>>
      IN  \/ Len(d.digits) = 0 /\ d.digits = <<>> /\ padded[1] = 0 /\ padded[2] = 0
          \/ Len(d.digits) = 1 /\ d.digits # <<>> /\ d.digits[1] \in 0..9
             /\ padded[1] = d.digits[1] /\ padded[2] = 0
          \/ Len(d.digits) = 2 /\ d.digits # <<>> /\ d.digits[1] \in 0..9
             /\ d.digits[2] \in 0..9 /\ padded[1] = d.digits[1] /\ padded[2] = d.digits[2]
  BY PaddedDigits
<1> DEFINE digits == d.digits
           padded == d.digits \o <<0, 0>>
           n == Len(d.digits)
           scale == <<1, 10, 100>>[n + 1]
           after == IF digits = <<>> THEN 0
                    ELSE IF n = 1 THEN digits[1] ELSE 10 * digits[1] + digits[2]
           minor == d.whole * 100 + 10 * padded[1] + padded[2]
<1>3. minor \in Int /\ minor * scale = 100 * (d.whole * scale + after)
  <2> DEFINE p1 == padded[1]
             p2 == padded[2]
             whole == d.whole
  <2>1. \/ n = 0 /\ digits = <<>> /\ p1 = 0 /\ p2 = 0
        \/ n = 1 /\ digits # <<>> /\ digits[1] \in 0..9 /\ p1 = digits[1] /\ p2 = 0
        \/ n = 2 /\ digits # <<>> /\ digits[1] \in 0..9 /\ digits[2] \in 0..9
           /\ p1 = digits[1] /\ p2 = digits[2]
    BY <1>2
  <2>2. whole \in Nat
    OBVIOUS
  <2>3. minor = whole * 100 + 10 * p1 + p2
    OBVIOUS
  <2> HIDE DEF digits, padded, n, p1, p2, whole, minor
  <2>4. /\ whole * 100 + 10 * p1 + p2 \in Int
        /\ (whole * 100 + 10 * p1 + p2) * scale = 100 * (whole * scale + after)
    BY <1>1, <2>1, <2>2, SMTT(30)
  <2> QED
    BY <2>3, <2>4 DEF whole
<1>4. /\ ParseAmountMinor(d) = minor
      /\ \A currency : StandsFor(d, currency, minor) <=>
            minor * scale = MinorDivisor[currency] * (d.whole * scale + after)
  BY DEF ParseAmountMinor, StandsFor
<1>5. \A currency \in Currencies \ {"JPY"} : MinorDivisor[currency] = 100
  BY DEF MinorDivisor
<1> HIDE DEF minor, scale, after
<1> QED
  BY <1>3, <1>4, <1>5

\* three currencies, of which no two differ
LEMMA OneCurrency ==
    ASSUME NEW c \in [1..3 -> Currencies]
    PROVE  /\ ToSet(c) \subseteq Currencies
           /\ ~(Cardinality(ToSet(c)) > 1) => Cardinality(ToSet(c)) = 1
           /\ c[1] = c[2] /\ c[2] = c[3] => Cardinality(ToSet(c)) = 1
<1>1. ToSet(c) = {c[1], c[2], c[3]}
  <2>1. DOMAIN c = 1..3 /\ \A i \in 1..3 : i = 1 \/ i = 2 \/ i = 3
    OBVIOUS
  <2> QED
    BY <2>1 DEF ToSet
<1>2. IsFiniteSet({c[1], c[2], c[3]})
  <2>1. IsFiniteSet({c[1]}) /\ Cardinality({c[1]}) = 1
    BY FS_Singleton
  <2>2. IsFiniteSet({c[1]} \cup {c[2]})
    BY <2>1, FS_AddElement
  <2>3. IsFiniteSet(({c[1]} \cup {c[2]}) \cup {c[3]})
    BY <2>2, FS_AddElement
  <2>4. ({c[1]} \cup {c[2]}) \cup {c[3]} = {c[1], c[2], c[3]}
    OBVIOUS
  <2> QED
    BY <2>3, <2>4
<1>3. Cardinality(ToSet(c)) \in Nat /\ Cardinality(ToSet(c)) # 0
  <2>1. ToSet(c) # {} /\ IsFiniteSet(ToSet(c))
    BY <1>1, <1>2
  <2> QED
    BY <2>1, FS_CardinalityType, FS_EmptySet
<1>4. ASSUME c[1] = c[2], c[2] = c[3] PROVE Cardinality(ToSet(c)) = 1
  <2>1. ToSet(c) = {c[1]}
    BY <1>1, <1>4
  <2> QED
    BY <2>1, FS_Singleton
<1>5. ToSet(c) \subseteq Currencies
  BY <1>1
<1> QED
  BY <1>3, <1>4, <1>5

LEMMA RowFacts ==
    ASSUME UploadAssumption, NEW f \in Uploads
    PROVE  /\ f.format \in {"json", "csv"} /\ Len(f.rows) \in Nat
           /\ DOMAIN f.rows = 1..Len(f.rows)
           /\ \A i \in 1..Len(f.rows) : f.rows[i].id \in Ids
           /\ \A i \in 1..Len(f.rows), j \in 1..3 :
                /\ f.format = "json" => /\ f.rows[i].amounts \in [1..3 -> Int]
                                        /\ f.rows[i].currencies \in [1..3 -> STRING]
                /\ f.format = "csv" /\ f.rows[i].amounts[j].plain =>
                        /\ f.rows[i].amounts[j].whole \in Nat
                        /\ f.rows[i].amounts[j].digits \in Seq(0..9)
                        /\ Len(f.rows[i].amounts[j].digits) <= 2
<1>1. /\ f.format \in {"json", "csv"}
      /\ f.rows \in Seq({f.rows[i] : i \in DOMAIN f.rows})
  BY DEF UploadAssumption
<1>2. Len(f.rows) \in Nat /\ DOMAIN f.rows = 1..Len(f.rows)
  BY <1>1
<1>3. \A i \in 1..Len(f.rows) : f.rows[i].id \in Ids
  BY <1>2 DEF Ids
<1>4. \A i \in 1..Len(f.rows), j \in 1..3 :
        /\ f.format = "json" => /\ f.rows[i].amounts \in [1..3 -> Int]
                                /\ f.rows[i].currencies \in [1..3 -> STRING]
        /\ f.format = "csv" /\ f.rows[i].amounts[j].plain =>
                /\ f.rows[i].amounts[j].whole \in Nat
                /\ f.rows[i].amounts[j].digits \in Seq(0..9)
                /\ Len(f.rows[i].amounts[j].digits) <= 2
  BY <1>2 DEF UploadAssumption
<1> QED
  BY <1>1, <1>2, <1>3, <1>4

\* what a row of JSON is read as
LEMMA JsonRow ==
    ASSUME UploadAssumption, upload \in Uploads, upload.format = "json", FileParses(upload),
           NEW i \in 1..Len(upload.rows)
    PROVE  LET row == upload.rows[i]
               s == Strategy(row.id, row.amounts, row.currencies)
           IN  /\ s \in Strategies /\ s.id = row.id
               /\ ~(Cardinality(ToSet(row.currencies)) > 1) => IsReadFrom(s, row)
<1> DEFINE row == upload.rows[i]
           s == Strategy(row.id, row.amounts, row.currencies)
<1>1. /\ row.id \in Ids /\ row.amounts \in [1..3 -> Int] /\ row.currencies \in [1..3 -> STRING]
      /\ DOMAIN upload.rows = 1..Len(upload.rows)
  <2>1. DOMAIN upload.rows = 1..Len(upload.rows) /\ row.id \in Ids
    BY RowFacts
  <2>2. 1 \in 1..3 /\ upload.format = "json"
    OBVIOUS
  <2>3. \A j \in 1..3 : row.amounts \in [1..3 -> Int] /\ row.currencies \in [1..3 -> STRING]
    BY <2>1, RowFacts
  <2> QED
    BY <2>1, <2>2, <2>3
<1>2. \A j \in 1..3 : row.currencies[j] \in Currencies
  BY <1>1 DEF FileParses, StrategyParses
<1>3. row.currencies \in [1..3 -> Currencies]
  BY <1>1, <1>2
<1>4. /\ s \in Strategies
      /\ s.id = row.id /\ s.amounts = row.amounts /\ s.currencies = row.currencies
  BY <1>1, <1>3 DEF Strategy, Strategies
<1>5. /\ ToSet(row.currencies) \subseteq Currencies
      /\ ~(Cardinality(ToSet(row.currencies)) > 1) => Cardinality(ToSet(row.currencies)) = 1
  BY <1>3, OneCurrency
<1> HIDE DEF row, s
<1>6. ~(Cardinality(ToSet(row.currencies)) > 1) => IsReadFrom(s, row)
  BY <1>4, <1>5, SMTT(30) DEF IsReadFrom
<1> QED
  BY <1>4, <1>6 DEF row, s

\* what a row of a table is read as
LEMMA CsvRow ==
    ASSUME UploadAssumption, upload \in Uploads, upload.format = "csv",
           NEW i \in 1..Len(upload.rows), NEW currency \in Currencies,
           \A j \in 1..3 : upload.rows[i].amounts[j].plain
    PROVE  LET row == upload.rows[i]
               s == Strategy(row.id, [j \in 1..3 |-> ParseAmountMinor(row.amounts[j])],
                             [j \in 1..3 |-> currency])
           IN  s \in Strategies /\ s.id = row.id /\ IsReadFrom(s, row)
<1> DEFINE row == upload.rows[i]
           read == [j \in 1..3 |-> ParseAmountMinor(row.amounts[j])]
           known == [j \in 1..3 |-> currency]
           s == Strategy(row.id, read, known)
<1>1. row.id \in Ids
  BY RowFacts
<1>2. ASSUME NEW j \in 1..3
      PROVE  /\ ParseAmountMinor(row.amounts[j]) \in Int
             /\ currency # "JPY" =>
                    StandsFor(row.amounts[j], currency, ParseAmountMinor(row.amounts[j]))
  <2>1. /\ row.amounts[j].whole \in Nat /\ row.amounts[j].digits \in Seq(0..9)
        /\ Len(row.amounts[j].digits) <= 2
    BY RowFacts
  <2> QED
    BY <2>1, AmountFacts
<1>3. /\ read \in [1..3 -> Int]
      /\ \A j \in 1..3 : currency # "JPY" => StandsFor(row.amounts[j], currency, read[j])
  BY <1>2
<1>4. /\ known \in [1..3 -> Currencies] /\ known[1] = known[2] /\ known[2] = known[3]
      /\ \A j \in 1..3 : known[j] = currency
  OBVIOUS
<1> HIDE DEF read, known, row
<1>5. Cardinality(ToSet(known)) = 1 /\ ToSet(known) \subseteq Currencies
  BY <1>4, OneCurrency
<1>6. s \in Strategies /\ s.id = row.id /\ s.amounts = read /\ s.currencies = known
  BY <1>1, <1>3, <1>4 DEF Strategy, Strategies
<1> HIDE DEF s
<1>7. IsReadFrom(s, row)
  BY <1>3, <1>4, <1>5, <1>6 DEF IsReadFrom
<1> QED
  BY <1>6, <1>7 DEF s, row, read, known

\* a round of an importer that makes something of its row
LEMMA OneMoreRow ==
    ASSUME UploadAssumption, TransferInv, import.status = "reading",
           import.row <= Len(upload.rows), NEW s \in Strategies, NEW e \in Nat,
           s.id = upload.rows[import.row].id,
           e = 0 => IsReadFrom(s, upload.rows[import.row]),
           e = 0 /\ upload.format = "json" =>
                \A i \in 1..(import.row - 1) : upload.rows[i].id # s.id,
           import' = [import EXCEPT !.row = @ + 1, !.errors = @ + e,
                                    !.strategies = Append(@, s)],
           UNCHANGED upload
    PROVE  TransferInv'
<1> DEFINE ss == import.strategies
           more == Append(ss, s)
           n == import.row
<1>1. /\ import.row \in Nat \ {0} /\ ss \in Seq(Strategies) /\ import.errors \in Nat
      /\ Len(upload.rows) \in Nat
  <2>1. upload \in Uploads /\ import \in Imports
    BY DEF TransferInv
  <2> QED
    BY <2>1, RowFacts DEF Imports
<1>2. /\ more \in Seq(Strategies) /\ Len(more) = Len(ss) + 1 /\ Len(ss) \in Nat
      /\ \A i \in 1..Len(ss) : more[i] = ss[i]
      /\ more[Len(ss) + 1] = s
  BY <1>1
<1> HIDE DEF more
<1>3. /\ import' \in Imports /\ import'.status = "reading" /\ import'.row = n + 1
      /\ import'.errors = import.errors + e /\ import'.strategies = more
  <2> DEFINE after == [import EXCEPT !.row = n + 1, !.errors = import.errors + e,
                                     !.strategies = more]
  <2>1. import \in Imports
    BY DEF TransferInv
  <2>2. import' = after
    BY <2>1 DEF more, Imports
  <2>3. n + 1 \in Nat \ {0} /\ import.errors + e \in Nat
    BY <1>1
  <2>4. /\ after \in Imports /\ after.status = import.status /\ after.row = n + 1
        /\ after.errors = import.errors + e /\ after.strategies = more
    BY <1>2, <2>1, <2>3 DEF Imports
  <2> QED
    BY <2>2, <2>4
<1>4. ASSUME import'.errors = 0
      PROVE  /\ Len(more) = n
             /\ \A i \in 1..n : IsReadFrom(more[i], upload.rows[i])
             /\ upload.format = "json" =>
                    \A i, j \in 1..n : more[i].id = more[j].id => i = j
  <2>1. import.errors = 0 /\ e = 0
    BY <1>1, <1>3, <1>4
  <2>2. /\ Len(ss) = n - 1
        /\ \A i \in 1..(n - 1) : IsReadFrom(ss[i], upload.rows[i])
        /\ upload.format = "json" =>
                \A i, j \in 1..(n - 1) : ss[i].id = ss[j].id => i = j
    BY <2>1 DEF TransferInv
  <2>3. Len(more) = n /\ more[n] = s /\ \A i \in 1..(n - 1) : more[i] = ss[i]
    BY <1>1, <1>2, <2>2
  <2>4. \A i \in 1..n : i = n \/ i \in 1..(n - 1)
    BY <1>1
  <2>5. \A i \in 1..n : IsReadFrom(more[i], upload.rows[i])
    BY <2>1, <2>2, <2>3, <2>4
  <2>6. ASSUME upload.format = "json"
        PROVE  \A i, j \in 1..n : more[i].id = more[j].id => i = j
    <3>1. \A i \in 1..(n - 1) : upload.rows[i].id # s.id
      BY <2>1, <2>6
    <3>2. \A i \in 1..(n - 1) : more[i].id # s.id
      BY <2>2, <2>3, <3>1 DEF IsReadFrom
    <3> QED
      BY <2>2, <2>3, <2>4, <2>6, <3>2
  <2> QED
    BY <2>3, <2>5, <2>6
<1>5. IsReadFrom(s, upload.rows[1])' <=> IsReadFrom(s, upload.rows[1])
  BY DEF IsReadFrom
<1>6. \A t, row : IsReadFrom(t, row)' <=> IsReadFrom(t, row)
  BY DEF IsReadFrom
<1>7. upload.format = "json" => FileParses(upload)
  BY DEF TransferInv
<1> HIDE DEF n
<1>8. /\ import'.status = "reading" /\ upload' = upload /\ import'.row <= Len(upload.rows) + 1
      /\ import'.row - 1 = n
  BY <1>1, <1>3, SMTT(30) DEF n
<1> QED
  BY <1>2, <1>3, <1>4, <1>6, <1>7, <1>8, SMTT(30) DEF TransferInv

LEMMA CheckReferencesStep ==
    ASSUME UploadAssumption, TransferInv, CheckReferences
    PROVE  TransferInv'
<1> DEFINE row == upload.rows[import.row]
           twice == \E i \in 1..(import.row - 1) : upload.rows[i].id = row.id
           mixed == Cardinality(ToSet(row.currencies)) > 1
           e == (IF twice THEN 1 ELSE 0) + (IF mixed THEN 1 ELSE 0)
           s == Strategy(row.id, row.amounts, row.currencies)
<1>1. /\ upload \in Uploads /\ import \in Imports /\ import.status = "reading"
      /\ upload.format = "json" /\ FileParses(upload) /\ UNCHANGED upload
      /\ import.row <= Len(upload.rows)
  BY DEF TransferInv, CheckReferences
<1>2. import.row \in 1..Len(upload.rows)
  BY <1>1, RowFacts DEF Imports
<1>3. /\ s \in Strategies /\ s.id = row.id
      /\ ~mixed => IsReadFrom(s, row)
  BY <1>1, <1>2, JsonRow
<1>4. import' = [import EXCEPT
              !.row = @ + 1,
              !.errors = @ + (IF twice THEN 1 ELSE 0) + (IF mixed THEN 1 ELSE 0),
              !.strategies = Append(@, s)]
  BY DEF CheckReferences
<1>5. e \in Nat /\ (e = 0 => ~twice /\ ~mixed)
  <2> HIDE DEF twice, mixed
  <2> QED
    OBVIOUS
<1>6. import.errors + (IF twice THEN 1 ELSE 0) + (IF mixed THEN 1 ELSE 0) = import.errors + e
  <2>1. import.errors \in Nat
    BY <1>1 DEF Imports
  <2> HIDE DEF twice, mixed
  <2> QED
    BY <2>1
<1>7. import' = [import EXCEPT !.row = @ + 1, !.errors = @ + e, !.strategies = Append(@, s)]
  <2> HIDE DEF twice, mixed, e, s
  <2> QED
    BY <1>4, <1>6
<1>8. /\ e = 0 => IsReadFrom(s, row)
      /\ e = 0 => \A i \in 1..(import.row - 1) : upload.rows[i].id # s.id
  BY <1>3, <1>5
<1> HIDE DEF e, s, twice, mixed
<1> QED
  BY <1>1, <1>3, <1>5, <1>7, <1>8, OneMoreRow

LEMMA ReadRowStep ==
    ASSUME UploadAssumption, TransferInv, ReadRow
    PROVE  TransferInv'
<1> DEFINE row == upload.rows[import.row]
           currency == IF upload.header = "id" THEN "INR" ELSE row.currency
           wrong == \/ currency \notin Currencies
                    \/ \E j \in 1..3 : ~row.amounts[j].plain
                    \/ ~row.confident
           s == Strategy(row.id, [j \in 1..3 |-> ParseAmountMinor(row.amounts[j])],
                         [j \in 1..3 |-> currency])
<1>1. /\ upload \in Uploads /\ import \in Imports /\ import.status = "reading"
      /\ upload.format = "csv" /\ UNCHANGED upload /\ import.row <= Len(upload.rows)
  BY DEF TransferInv, ReadRow
<1>2. import.row \in 1..Len(upload.rows) /\ import.row \in Nat \ {0} /\ import.errors \in Nat
  BY <1>1, RowFacts DEF Imports
<1>3. import' = IF wrong THEN [import EXCEPT !.row = @ + 1, !.errors = @ + 1]
                ELSE [import EXCEPT !.row = @ + 1, !.strategies = Append(@, s)]
  BY DEF ReadRow
<1>4. CASE wrong
  <2> HIDE DEF wrong, s
  <2> DEFINE after == [import EXCEPT !.row = @ + 1, !.errors = @ + 1]
  <2>1. import' = after
    BY <1>3, <1>4
  <2>2. /\ after \in Imports /\ after.status = "reading" /\ after.row = import.row + 1
        /\ after.errors = import.errors + 1
    <3>1. import.row + 1 \in Nat \ {0} /\ import.errors + 1 \in Nat
      BY <1>2
    <3> QED
      BY <1>1, <3>1 DEF Imports
  <2> HIDE DEF after
  <2>3. /\ import' \in Imports /\ import'.status = "reading"
        /\ import'.row <= Len(upload.rows) + 1 /\ import'.errors # 0
    <3>1. import.row + 1 <= Len(upload.rows) + 1 /\ import.errors + 1 # 0
      BY <1>1, <1>2, RowFacts, SMTT(30)
    <3> QED
      BY <2>1, <2>2, <3>1
  <2> QED
    BY <1>1, <2>3 DEF TransferInv
<1>5. CASE ~wrong
  <2>1. currency \in Currencies /\ \A j \in 1..3 : row.amounts[j].plain
    BY <1>5, SMTT(30)
  <2> HIDE DEF wrong, currency
  <2>2. s \in Strategies /\ s.id = row.id /\ IsReadFrom(s, row)
    BY <1>1, <1>2, <2>1, CsvRow
  <2> HIDE DEF s
  <2>3. import' = [import EXCEPT !.row = @ + 1, !.strategies = Append(@, s)]
    BY <1>3, <1>5
  <2>4. import' = [import EXCEPT !.row = @ + 1, !.errors = @ + 0, !.strategies = Append(@, s)]
    <3>1. import.errors + 0 = import.errors
      BY <1>2
    <3> QED
      BY <1>1, <2>3, <3>1 DEF Imports
  <2> QED
    BY <1>1, <2>2, <2>4, OneMoreRow, ZenonT(60)
<1> QED
  BY <1>4, <1>5

\* a step at the beginning or at the end of an import
LEMMA ImportSteps ==
    ASSUME UploadAssumption, TransferInv, ImportStrategy \/ ImportFromCSV \/ EndImport
    PROVE  TransferInv'
<1>1. /\ upload \in Uploads /\ import \in Imports /\ UNCHANGED upload
      /\ Len(upload.rows) \in Nat
  BY RowFacts DEF TransferInv, ImportStrategy, ImportFromCSV, EndImport
<1>2. CASE Refuse
  <2>1. import' \in Imports /\ import'.status = "refused"
    <3> DEFINE after == [import EXCEPT !.status = "refused", !.strategies = <<>>]
    <3>1. <<>> \in Seq(Strategies)
      OBVIOUS
    <3>2. after \in Imports /\ after.status = "refused"
      BY <1>1, <3>1 DEF Imports
    <3>3. import' = after
      BY <1>2 DEF Refuse
    <3> QED
      BY <3>2, <3>3
  <2> QED
    BY <1>1, <2>1 DEF TransferInv
<1>3. ASSUME import.status = "begun", import' = [import EXCEPT !.status = "reading"],
             upload.format = "json" => FileParses(upload)
      PROVE  TransferInv'
  <2>1. import = Begun
    BY <1>3 DEF TransferInv
  <2>2. /\ import'.status = "reading" /\ import'.row = 1 /\ import'.strategies = <<>>
        /\ import'.errors = 0 /\ import' \in Imports
    BY <1>1, <1>3, <2>1 DEF Begun, Imports
  <2>3. FileParses(upload)' <=> FileParses(upload)
    BY <1>1 DEF FileParses
  <2>4. Len(import'.strategies) = 0 /\ 1 <= Len(upload.rows) + 1
    BY <1>1, <2>2
  <2> QED
    BY <1>1, <1>3, <2>2, <2>3, <2>4 DEF TransferInv
<1>4. ASSUME import.status = "reading", import.row > Len(upload.rows), import.errors = 0,
             import' = [import EXCEPT !.status = "accepted"]
      PROVE  TransferInv'
  <2>1. /\ import'.status = "accepted" /\ import'.row = import.row
        /\ import'.strategies = import.strategies /\ import'.errors = 0 /\ import' \in Imports
    BY <1>1, <1>4 DEF Imports
  <2>2. import.row = Len(upload.rows) + 1
    BY <1>1, <1>4 DEF TransferInv, Imports
  <2>3. \A t, row : IsReadFrom(t, row)' <=> IsReadFrom(t, row)
    BY <1>1 DEF IsReadFrom
  <2> QED
    BY <1>1, <1>4, <2>1, <2>2, <2>3 DEF TransferInv
<1>5. CASE ImportStrategy
  <2>1. \/ Refuse
        \/ /\ import.status = "begun" /\ import' = [import EXCEPT !.status = "reading"]
           /\ FileParses(upload)
    BY <1>5 DEF ImportStrategy
  <2> QED
    BY <1>2, <1>3, <2>1
<1>6. CASE ImportFromCSV
  <2>1. \/ Refuse
        \/ /\ import.status = "begun" /\ import' = [import EXCEPT !.status = "reading"]
           /\ upload.format = "csv"
    BY <1>6 DEF ImportFromCSV
  <2> QED
    BY <1>2, <1>3, <2>1
<1>7. CASE EndImport
  <2>1. \/ Refuse
        \/ /\ import.status = "reading" /\ import.row > Len(upload.rows) /\ import.errors = 0
           /\ import' = [import EXCEPT !.status = "accepted"]
    BY <1>7 DEF EndImport
  <2> QED
    BY <1>2, <1>4, <2>1
<1> QED
  BY <1>5, <1>6, <1>7

\* An import is typed; what it has read of a file without errors are the
\* strategies of the rows before its own.
THEOREM TransferInvariance == TransferSpec => []TransferInv
<1>1. TransferInit => TransferInv
  <2> SUFFICES ASSUME TransferInit PROVE TransferInv
    OBVIOUS
  <2>1. /\ upload \in Uploads /\ import = Begun /\ import.status = "begun" /\ import.row = 1
        /\ import.strategies = <<>> /\ import.errors = 0 /\ import \in Imports
    BY DEF TransferInit, Begun, Imports
  <2>2. 1 <= Len(upload.rows) + 1
    <3>1. Len(upload.rows) \in Nat
      BY <2>1, UploadAssumption, RowFacts
    <3> QED
      BY <3>1
  <2> QED
    BY <2>1, <2>2 DEF TransferInv
<1>2. TransferInv /\ [TransferNext]_transferVars => TransferInv'
  <2> SUFFICES ASSUME TransferInv, [TransferNext]_transferVars PROVE TransferInv'
    OBVIOUS
  <2>1. CASE UNCHANGED transferVars
    <3>1. \A t, row : IsReadFrom(t, row)' <=> IsReadFrom(t, row)
      BY <2>1 DEF IsReadFrom, transferVars
    <3>2. FileParses(upload)' <=> FileParses(upload)
      BY <2>1 DEF FileParses, transferVars
    <3> QED
      BY <2>1, <3>1, <3>2 DEF TransferInv, transferVars
  <2>2. CASE ImportStrategy \/ ImportFromCSV \/ EndImport
    BY <2>2, UploadAssumption, ImportSteps
  <2>3. CASE CheckReferences
    BY <2>3, UploadAssumption, CheckReferencesStep
  <2>4. CASE ReadRow
    BY <2>4, UploadAssumption, ReadRowStep
  <2> QED
    BY <2>1, <2>2, <2>3, <2>4 DEF TransferNext
<1> QED
  BY <1>1, <1>2, PTL DEF TransferSpec

\* An import that is accepted has one strategy for every row, in order, each of
\* one known currency and with what the row's amounts stand for, those of JPY in a
\* table excepted; in one from JSON, whose file had a version, no id comes twice
\* (importStrategy, importFromCSV).
THEOREM ImportsStayWhole == TransferSpec => []ImportsAreWhole
<1>1. TransferInv => ImportsAreWhole
  <2> SUFFICES ASSUME TransferInv, import.status = "accepted" PROVE ImportsAreWhole
    BY DEF ImportsAreWhole
  <2> DEFINE ss == import.strategies
             rows == upload.rows
             ids == [i \in DOMAIN ss |-> ss[i].id]
  <2>1. /\ import.errors = 0 /\ import.row = Len(rows) + 1 /\ Len(ss) = import.row - 1
        /\ upload.format = "json" => FileParses(upload)
        /\ import \in Imports /\ Len(rows) \in Nat
    BY UploadAssumption, RowFacts DEF TransferInv
  <2>2. Len(ss) = Len(rows) /\ DOMAIN ss = 1..Len(ss)
    <3>1. ss \in Seq(Strategies)
      BY <2>1 DEF Imports
    <3> QED
      BY <2>1, <3>1
  <2>3. \A i \in DOMAIN ss : IsReadFrom(ss[i], rows[i])
    BY <2>1, <2>2 DEF TransferInv
  <2>4. ASSUME upload.format = "json" PROVE upload.versioned /\ IsInjective(ids)
    <3>1. \A i, j \in DOMAIN ss : ss[i].id = ss[j].id => i = j
      BY <2>1, <2>2, <2>4 DEF TransferInv
    <3>2. upload.versioned
      BY <2>1, <2>4 DEF FileParses
    <3> QED
      BY <3>1, <3>2 DEF IsInjective
  <2> QED
    BY <2>2, <2>3, <2>4 DEF ImportsAreWhole, IsReadFrom
<1> QED
  BY <1>1, TransferInvariance, PTL

-----------------------------------------------------------------------------
(* SerializedValues: any version of the reader, any time on the shelf      *)

\* what the reader makes of what the writer made, where it is no look-alike
LEMMA RevivedAsWritten ==
    ASSUME NEW v \in SomeValues, ~Mistaken("domain", v)
    PROVE  Revived(Replaced(v)) = v
BY DEF SomeValues, Value, Mistaken, Revived, Replaced

LEMMA UnsuffixedAsWritten ==
    ASSUME NEW v \in SomeValues, ~Mistaken("profile", v)
    PROVE  Unsuffixed(Suffixed(v)) = v
BY DEF SomeValues, Value, Mistaken, Unsuffixed, Suffixed

\* the one file there may be has the datum in one of the two encodings
FileIsOfDatum ==
    /\ datum \in [{"amount", "label"} -> SomeValues] /\ shelfTime \in Nat
    /\ \A f, g \in file : f = g
    /\ \A f \in file : f.version \in Int /\ f.at \in Nat
    /\ \A f \in file :
        \/ f.codec = "domain" /\ f.data = [k \in DOMAIN datum |-> Replaced(datum[k])]
        \/ /\ f.codec = "profile" /\ f.version = ReaderVersion
           /\ f.data = [k \in DOMAIN datum |-> Suffixed(datum[k])]
    /\ file = {} => answer.outcome # "read"

ValuesInv == FileIsOfDatum /\ ReadAsWritten

LEMMA ValuesStart == ValuesInit => ValuesInv
BY DEF ValuesInit, ValuesInv, FileIsOfDatum, ReadAsWritten, Nothing

LEMMA WriteKeepsValues ==
    ASSUME ValuesInv,
           \/ \E version \in (ReaderVersion - 1)..(ReaderVersion + 1), timed \in BOOLEAN :
                Serialize(version, timed)
           \/ \E passphrase \in {"none", "one"} : ExportProfile(passphrase)
    PROVE  ValuesInv'
<1>1. /\ file = {} /\ answer' = answer /\ datum' = datum /\ answer.outcome # "read"
      /\ shelfTime' = shelfTime /\ shelfTime \in Nat
  BY DEF ValuesInv, FileIsOfDatum, Serialize, ExportProfile
<1>2. PICK f :
        /\ file' = {f} /\ f.version \in Int /\ f.at \in Nat
        /\ \/ f.codec = "domain" /\ f.data = [k \in DOMAIN datum |-> Replaced(datum[k])]
           \/ /\ f.codec = "profile" /\ f.version = ReaderVersion
              /\ f.data = [k \in DOMAIN datum |-> Suffixed(datum[k])]
  <2>1. ASSUME NEW version \in (ReaderVersion - 1)..(ReaderVersion + 1), NEW timed,
               Serialize(version, timed)
        PROVE  \E f : /\ file' = {f} /\ f.version \in Int /\ f.at \in Nat
                      /\ f.codec = "domain"
                      /\ f.data = [k \in DOMAIN datum |-> Replaced(datum[k])]
    <3> DEFINE data == [k \in DOMAIN datum |-> Replaced(datum[k])]
               f == [codec |-> "domain", version |-> version, timed |-> timed,
                     at |-> shelfTime, passphrase |-> "none", data |-> data]
    <3> HIDE DEF data
    <3>1. /\ f.codec = "domain" /\ f.version = version /\ f.at = shelfTime /\ f.data = data
          /\ version \in Int
      BY SerializedAssumption
    <3> HIDE DEF f
    <3>2. file' = {f}
      BY <2>1 DEF Serialize, Each, f, data
    <3> QED
      BY <1>1, <3>1, <3>2 DEF data
  <2>2. ASSUME NEW passphrase, ExportProfile(passphrase)
        PROVE  \E f : /\ file' = {f} /\ f.version \in Int /\ f.at \in Nat
                      /\ f.codec = "profile" /\ f.version = ReaderVersion
                      /\ f.data = [k \in DOMAIN datum |-> Suffixed(datum[k])]
    <3> DEFINE data == [k \in DOMAIN datum |-> Suffixed(datum[k])]
               f == [codec |-> "profile", version |-> ReaderVersion, timed |-> FALSE,
                     at |-> shelfTime, passphrase |-> passphrase, data |-> data]
    <3> HIDE DEF data
    <3>1. /\ f.codec = "profile" /\ f.version = ReaderVersion /\ f.at = shelfTime
          /\ f.data = data /\ ReaderVersion \in Int
      BY SerializedAssumption
    <3> HIDE DEF f
    <3>2. file' = {f}
      BY <2>2 DEF ExportProfile, Each, f, data
    <3> QED
      BY <1>1, <3>1, <3>2 DEF data
  <2> QED
    BY <2>1, <2>2
<1>3. FileIsOfDatum'
  BY <1>1, <1>2 DEF ValuesInv, FileIsOfDatum
<1>4. ReadAsWritten'
  BY <1>1 DEF ReadAsWritten
<1> QED
  BY <1>3, <1>4 DEF ValuesInv

LEMMA DeserializeKeepsValues ==
    ASSUME ValuesInv, NEW f \in file, NEW allowOlder, NEW maxAge \in 0..1,
           Deserialize(f, allowOlder, maxAge)
    PROVE  ValuesInv'
<1>1. f.codec = "domain" /\ UNCHANGED <<datum, file, shelfTime>>
  BY DEF Deserialize
<1>2. /\ datum \in [{"amount", "label"} -> SomeValues] /\ \A g \in file : g = f
      /\ f.data = [k \in DOMAIN datum |-> Replaced(datum[k])]
      /\ f.version \in Int /\ f.at \in Nat /\ shelfTime \in Nat
  BY <1>1 DEF ValuesInv, FileIsOfDatum
<1>3. FileIsOfDatum'
  BY <1>1, <1>2 DEF ValuesInv, FileIsOfDatum
<1>4. ReadAsWritten'
  <2> SUFFICES ASSUME answer'.outcome = "read"
               PROVE  /\ \A k \in DOMAIN datum :
                            Mistaken("domain", datum[k]) \/ answer'.data[k] = datum[k]
                      /\ f.version <= ReaderVersion
                      /\ answer'.limit > 0 => answer'.age <= answer'.limit
    BY <1>1, <1>2 DEF ReadAsWritten
  <2> DEFINE age == shelfTime - f.at
             refused == \/ \E k \in DOMAIN f.data : RevivalFails(f.data[k])
                        \/ f.version > ReaderVersion
                        \/ ~allowOlder /\ f.version < ReaderVersion
                        \/ maxAge > 0 /\ f.timed /\ age > maxAge
  <2>1. answer' = IF refused THEN [Nothing EXCEPT !.outcome = "refused"]
                  ELSE [outcome |-> "read", data |-> Each(f.data, Revived), age |-> age,
                        limit |-> IF f.timed THEN maxAge ELSE 0]
    BY DEF Deserialize
  <2> HIDE DEF refused
  <2>2. ~refused
    BY <2>1 DEF Nothing
  <2>3. /\ answer'.data = [k \in DOMAIN f.data |-> Revived(f.data[k])]
        /\ answer'.age = age /\ answer'.limit = IF f.timed THEN maxAge ELSE 0
    BY <2>1, <2>2 DEF Each
  <2>4. \A k \in DOMAIN datum : answer'.data[k] = Revived(Replaced(datum[k]))
    BY <1>2, <2>3
  <2>5. \A k \in DOMAIN datum : datum[k] \in SomeValues
    BY <1>2
  <2>6. \A k \in DOMAIN datum :
            Mistaken("domain", datum[k]) \/ answer'.data[k] = datum[k]
    BY <2>4, <2>5, RevivedAsWritten
  <2>7. f.version <= ReaderVersion
    <3>1. ~(f.version > ReaderVersion)
      BY <2>2, Zenon DEF refused
    <3> QED
      BY <1>2, <3>1, SerializedAssumption
  <2>8. answer'.limit > 0 => answer'.age <= answer'.limit
    <3>1. ~(maxAge > 0) \/ ~f.timed \/ ~(age > maxAge)
      BY <2>2, Zenon DEF refused
    <3>2. CASE f.timed
      BY <1>2, <2>3, <3>1, <3>2
    <3>3. CASE ~f.timed
      BY <2>3, <3>3
    <3> QED
      BY <3>2, <3>3
  <2> QED
    BY <2>6, <2>7, <2>8
<1> QED
  BY <1>3, <1>4 DEF ValuesInv

LEMMA ImportKeepsValues ==
    ASSUME ValuesInv, NEW f \in file, NEW passphrase, ImportProfile(f, passphrase)
    PROVE  ValuesInv'
<1>1. f.codec = "profile" /\ UNCHANGED <<datum, file, shelfTime>>
  BY DEF ImportProfile
<1>2. /\ datum \in [{"amount", "label"} -> SomeValues] /\ \A g \in file : g = f
      /\ f.data = [k \in DOMAIN datum |-> Suffixed(datum[k])] /\ f.version = ReaderVersion
  BY <1>1 DEF ValuesInv, FileIsOfDatum
<1>3. FileIsOfDatum'
  BY <1>1, <1>2 DEF ValuesInv, FileIsOfDatum
<1>4. ReadAsWritten'
  <2> SUFFICES ASSUME answer'.outcome = "read"
               PROVE  /\ \A k \in DOMAIN datum :
                            Mistaken("profile", datum[k]) \/ answer'.data[k] = datum[k]
                      /\ f.version <= ReaderVersion
                      /\ answer'.limit > 0 => answer'.age <= answer'.limit
    BY <1>1, <1>2 DEF ReadAsWritten
  <2>1. answer' = [Nothing EXCEPT !.outcome = "read", !.data = Each(f.data, Unsuffixed)]
    <3>1. CASE passphrase = f.passphrase
      BY <3>1 DEF ImportProfile
    <3>2. CASE passphrase # f.passphrase
      <4>1. \/ answer' = [Nothing EXCEPT !.outcome = "ciphertext"]
            \/ answer' = [Nothing EXCEPT !.outcome = "refused"]
        BY <3>2 DEF ImportProfile
      <4> QED
        BY <4>1 DEF Nothing
    <3> QED
      BY <3>1, <3>2
  <2>2. answer'.data = [k \in DOMAIN f.data |-> Unsuffixed(f.data[k])] /\ answer'.limit = 0
    BY <2>1 DEF Nothing, Each
  <2>3. \A k \in DOMAIN datum : answer'.data[k] = Unsuffixed(Suffixed(datum[k]))
    BY <1>2, <2>2
  <2>4. \A k \in DOMAIN datum : datum[k] \in SomeValues
    BY <1>2
  <2>5. \A k \in DOMAIN datum :
            Mistaken("profile", datum[k]) \/ answer'.data[k] = datum[k]
    BY <2>3, <2>4, UnsuffixedAsWritten
  <2>6. f.version <= ReaderVersion
    BY <1>2, SerializedAssumption
  <2> QED
    BY <2>2, <2>5, <2>6
<1> QED
  BY <1>3, <1>4 DEF ValuesInv

LEMMA ValuesStep == ValuesInv /\ [ValuesNext]_valueVars => ValuesInv'
<1> SUFFICES ASSUME ValuesInv, [ValuesNext]_valueVars PROVE ValuesInv'
  OBVIOUS
<1>1. CASE \/ \E version \in (ReaderVersion - 1)..(ReaderVersion + 1), timed \in BOOLEAN :
                Serialize(version, timed)
           \/ \E passphrase \in {"none", "one"} : ExportProfile(passphrase)
  BY <1>1, WriteKeepsValues
<1>2. CASE \E f \in file, allowOlder \in BOOLEAN, maxAge \in 0..1 :
                Deserialize(f, allowOlder, maxAge)
  BY <1>2, DeserializeKeepsValues
<1>3. CASE \E f \in file, passphrase \in {"none", "one", "two"} : ImportProfile(f, passphrase)
  BY <1>3, ImportKeepsValues
<1>4. CASE Shelve
  <2>1. answer' = Nothing /\ UNCHANGED <<datum, file>> /\ shelfTime' = shelfTime + 1
    BY <1>4 DEF Shelve
  <2> QED
    BY <2>1 DEF ValuesInv, FileIsOfDatum, ReadAsWritten, Nothing
<1>5. CASE UNCHANGED valueVars
  BY <1>5 DEF valueVars, ValuesInv, FileIsOfDatum, ReadAsWritten
<1> QED
  BY <1>1, <1>2, <1>3, <1>4, <1>5 DEF ValuesNext

(***************************************************************************)
(* Whatever is written and read has come through one of the two encodings, *)
(* for any version of the reader and any time in between.                  *)
(***************************************************************************)
THEOREM ValuesInvariance == ValuesSpec => []ValuesInv
BY ValuesStart, ValuesStep, PTL DEF ValuesSpec

(***************************************************************************)
(* What a reader cannot take for something else it reads as it was         *)
(* written, and only from files that are neither too new nor too old       *)
(* (domain/src/serialization.ts, profile/src/index.ts).                    *)
(***************************************************************************)
THEOREM ValuesAreReadAsWritten == ValuesSpec => []ReadAsWritten
<1>1. ValuesInv => ReadAsWritten
  BY DEF ValuesInv
<1> QED
  BY <1>1, ValuesInvariance, PTL
=============================================================================
