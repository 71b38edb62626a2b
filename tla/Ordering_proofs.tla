--------------------------- MODULE Ordering_proofs ---------------------------
(***************************************************************************)
(* What the operators of Ordering return.  Ranks do for sorting what an    *)
(* induction would: an element's place is the number of those below it.    *)
(***************************************************************************)
EXTENDS Ordering, FiniteSetTheorems, FunctionTheorems, SequenceTheorems, TLAPS

\* The first n numbers are n.
LEMMA UpToIsFinite ==
  ASSUME NEW n \in Nat
  PROVE  IsFiniteSet(1 .. n) /\ Cardinality(1 .. n) = n
BY FS_Interval

\* Less orders the elements of S one after the other.
IsOrder(Less, S) ==
  /\ \A x \in S : <<x, x>> \notin Less
  /\ \A x, y, z \in S : <<x, y>> \in Less /\ <<y, z>> \in Less => <<x, z>> \in Less
  /\ \A x, y \in S : x = y \/ <<x, y>> \in Less \/ <<y, x>> \in Less

Under(x, S, Less) == {y \in S : <<y, x>> \in Less}
Rank(x, S, Less) == Cardinality(Under(x, S, Less))

\* An element has fewer below it than S has elements, and fewer than any
\* element above it.
LEMMA RankRises ==
  ASSUME NEW S, IsFiniteSet(S), NEW Less, IsOrder(Less, S), NEW x \in S
  PROVE  /\ Rank(x, S, Less) \in 0 .. Cardinality(S) - 1
         /\ \A y \in S : <<x, y>> \in Less => Rank(x, S, Less) < Rank(y, S, Less)
<1>1. /\ IsFiniteSet(S \ {x}) /\ Cardinality(S \ {x}) = Cardinality(S) - 1
      /\ Cardinality(S) \in Nat
  BY FS_RemoveElement, FS_CardinalityType
<1>2. Under(x, S, Less) \in SUBSET (S \ {x})
  BY DEF Under, IsOrder
<1>3. IsFiniteSet(Under(x, S, Less)) /\ Rank(x, S, Less) <= Cardinality(S) - 1
  BY <1>1, <1>2, FS_Subset DEF Rank
<1>4. Rank(x, S, Less) \in Nat
  BY <1>3, FS_CardinalityType DEF Rank
<1>5. ASSUME NEW y \in S, <<x, y>> \in Less
      PROVE  Rank(x, S, Less) < Rank(y, S, Less)
  <2>1. IsFiniteSet(Under(y, S, Less))
    BY FS_Subset DEF Under
  <2>2. Under(x, S, Less) \in SUBSET Under(y, S, Less)
    BY <1>5 DEF Under, IsOrder
  <2>3. x \in Under(y, S, Less) /\ x \notin Under(x, S, Less)
    BY <1>5 DEF Under, IsOrder
  <2>4. Rank(x, S, Less) <= Rank(y, S, Less) /\ Rank(x, S, Less) # Rank(y, S, Less)
    BY <2>1, <2>2, <2>3, FS_Subset DEF Rank
  <2>5. Rank(y, S, Less) \in Nat
    BY <2>1, FS_CardinalityType DEF Rank
  <2> QED
    BY <1>4, <2>4, <2>5
<1> QED
  BY <1>1, <1>3, <1>4, <1>5

\* Every place from 1 to the size of S is some element's.
LEMMA RankTakesAll ==
  ASSUME NEW S, IsFiniteSet(S), NEW Less, IsOrder(Less, S),
         NEW n \in 1 .. Cardinality(S)
  PROVE  \E x \in S : Rank(x, S, Less) = n - 1
<1> DEFINE place == [x \in S |-> Rank(x, S, Less) + 1]
           N == 1 .. Cardinality(S)
<1>1. Cardinality(S) \in Nat /\ IsFiniteSet(N) /\ Cardinality(N) = Cardinality(S)
  BY FS_CardinalityType, FS_Interval
<1>2. place \in [S -> N]
  BY <1>1, RankRises
<1>3. ASSUME NEW x \in S, NEW y \in S, place[x] = place[y]
      PROVE  x = y
  <2>1. Rank(x, S, Less) \in Nat /\ Rank(y, S, Less) \in Nat
    BY RankRises
  <2>2. Rank(x, S, Less) = Rank(y, S, Less)
    BY <1>3, <2>1
  <2>3. <<x, y>> \notin Less /\ <<y, x>> \notin Less
    BY <2>1, <2>2, RankRises
  <2> QED
    BY <2>3 DEF IsOrder
<1>4. place \in Injection(S, N)
  BY <1>2, <1>3, Fun_IsInj
<1>5. place \in Surjection(S, N)
  BY <1>1, <1>4, FS_Injection
<1>6. \A m \in N : \E x \in S : place[x] = m
  <2> HIDE DEF place, N
  <2> QED
    BY <1>5, Fun_SurjectionProperties
<1>7. PICK x \in S : place[x] = n
  BY <1>6
<1>8. Rank(x, S, Less) = n - 1
  BY <1>1, <1>7, RankRises
<1> QED
  BY <1>8

\* Arranged lists every element of S once, each after all that are below it.
THEOREM ArrangedIsSorted ==
  ASSUME NEW S, IsFiniteSet(S), NEW Less, IsOrder(Less, S)
  PROVE  LET q == Arranged(S, Less) IN
         /\ q \in Bijection(1 .. Cardinality(S), S)
         /\ \A n \in 1 .. Cardinality(S) : Rank(q[n], S, Less) = n - 1
         /\ \A m, n \in 1 .. Cardinality(S) : m < n => <<q[m], q[n]>> \in Less
<1> DEFINE q == Arranged(S, Less)
           N == 1 .. Cardinality(S)
<1>1. Cardinality(S) \in Nat
  BY FS_CardinalityType
<1>2. q = [n \in N |-> CHOOSE x \in S : Rank(x, S, Less) = n - 1]
  BY DEF Arranged, Rank, Under
<1>3. \A n \in N : q[n] \in S /\ Rank(q[n], S, Less) = n - 1
  <2> TAKE n \in N
  <2>1. \E x \in S : Rank(x, S, Less) = n - 1
    BY RankTakesAll
  <2> QED
    BY <1>2, <2>1
<1>4. q \in [N -> S]
  BY <1>2, <1>3
<1>5. ASSUME NEW m \in N, NEW n \in N, m < n
      PROVE  <<q[m], q[n]>> \in Less
  <2>1. q[m] # q[n] /\ ~(Rank(q[n], S, Less) < Rank(q[m], S, Less))
    BY <1>1, <1>3, <1>5
  <2> QED
    BY <1>3, <2>1, RankRises DEF IsOrder
<1>6. \A m, n \in N : q[m] = q[n] => m = n
  BY <1>1, <1>3
<1>7. ASSUME NEW x \in S
      PROVE  \E n \in N : q[n] = x
  <2> DEFINE n == Rank(x, S, Less) + 1
  <2>1. n \in N /\ n - 1 = Rank(x, S, Less)
    BY <1>1, RankRises
  <2>2. Rank(q[n], S, Less) = Rank(x, S, Less) /\ q[n] \in S
    BY <1>3, <2>1
  <2>3. Rank(x, S, Less) \in Nat /\ ~(Rank(x, S, Less) < Rank(x, S, Less))
    BY RankRises
  <2>4. q[n] = x
    BY <2>2, <2>3, RankRises DEF IsOrder
  <2> QED
    BY <2>1, <2>4
<1>8. q \in Bijection(N, S)
  BY <1>4, <1>6, <1>7, Fun_IsBij
<1> QED
  BY <1>3, <1>5, <1>8

\* There is one way to list S in order: any enumeration that rises is it.
THEOREM ArrangedIsUnique ==
  ASSUME NEW S, NEW Less, IsOrder(Less, S), NEW k \in Nat, NEW q \in [1 .. k -> S],
         \A x \in S : \E n \in 1 .. k : q[n] = x,
         \A m, n \in 1 .. k : m < n => <<q[m], q[n]>> \in Less
  PROVE  /\ IsFiniteSet(S) /\ Cardinality(S) = k
         /\ Arranged(S, Less) = q
<1>1. ASSUME NEW m \in 1 .. k, NEW n \in 1 .. k, q[m] = q[n]
      PROVE  m = n
  <2>1. <<q[m], q[n]>> \notin Less /\ <<q[n], q[m]>> \notin Less
    BY <1>1 DEF IsOrder
  <2>2. ~(m < n) /\ ~(n < m)
    BY <2>1
  <2> QED
    BY <2>2
<1>2. q \in Bijection(1 .. k, S)
  BY <1>1, Fun_IsBij
<1>3. IsFiniteSet(S) /\ Cardinality(S) = k
  <2>1. IsFiniteSet(1 .. k) /\ Cardinality(1 .. k) = k
    BY FS_Interval
  <2> QED
    BY <1>2, <2>1, FS_Bijection DEF ExistsBijection
<1>4. ASSUME NEW n \in 1 .. k
      PROVE  Rank(q[n], S, Less) = n - 1
  <2> DEFINE B == Under(q[n], S, Less)
             r == [i \in 1 .. n - 1 |-> q[i]]
  <2>1. \A i \in 1 .. n - 1 : i \in 1 .. k /\ q[i] \in B
    BY DEF Under
  <2>2. r \in [1 .. n - 1 -> B]
    BY <2>1
  <2>3. ASSUME NEW x \in B
        PROVE  \E i \in 1 .. n - 1 : r[i] = x
    <3>1. PICK i \in 1 .. k : q[i] = x
      BY DEF Under
    <3>2. <<q[i], q[n]>> \in Less /\ <<q[n], q[n]>> \notin Less
      BY <3>1 DEF Under, IsOrder
    <3>3. ~(n < i) /\ i # n
      BY <3>2 DEF IsOrder
    <3> QED
      BY <3>1, <3>3
  <2>4. \A i, j \in 1 .. n - 1 : r[i] = r[j] => i = j
    BY <1>1, <2>1
  <2>5. r \in Bijection(1 .. n - 1, B)
    BY <2>2, <2>3, <2>4, Fun_IsBij
  <2>6. IsFiniteSet(1 .. n - 1) /\ Cardinality(1 .. n - 1) = n - 1
    BY FS_Interval
  <2>7. Cardinality(B) = n - 1
    BY <2>5, <2>6, FS_Bijection DEF ExistsBijection
  <2> QED
    BY <2>7 DEF Rank
<1> DEFINE a == Arranged(S, Less)
<1>5. a \in [1 .. k -> S] /\ \A n \in 1 .. k : Rank(a[n], S, Less) = n - 1
  BY <1>3, ArrangedIsSorted, Fun_BijectionProperties
<1>6. ASSUME NEW n \in 1 .. k
      PROVE  a[n] = q[n]
  <2>1. PICK m \in 1 .. k : q[m] = a[n]
    BY <1>5
  <2>2. m - 1 = n - 1
    BY <1>4, <1>5, <2>1
  <2> QED
    BY <2>1, <2>2
<1>7. a = q
  BY <1>5, <1>6
<1> QED
  BY <1>3, <1>7
-----------------------------------------------------------------------------
(* Positions                                                               *)

\* Positions are ordered by <.
LEMMA AscendingIsOrder ==
  ASSUME NEW I \in SUBSET Int
  PROVE  IsOrder({p \in I \X I : p[1] < p[2]}, I)
<1> DEFINE L == {p \in I \X I : p[1] < p[2]}
<1>1. \A x, y \in I : <<x, y>> \in L <=> x < y
  OBVIOUS
<1>2. \A x \in I : ~(x < x)
  OBVIOUS
<1>3. \A x, y, z \in I : x < y /\ y < z => x < z
  OBVIOUS
<1>4. \A x, y \in I : x = y \/ x < y \/ y < x
  OBVIOUS
<1> HIDE DEF L
<1> QED
  BY <1>1, <1>2, <1>3, <1>4 DEF IsOrder

\* What is picked is what stands at the positions, each taken once and in
\* their order.
THEOREM PickedIsSelection ==
  ASSUME NEW V, NEW s \in Seq(V), NEW I \in SUBSET (1 .. Len(s))
  PROVE  /\ IsFiniteSet(I) /\ Cardinality(I) \in Nat
         /\ Picked(s, I) \in Seq(V) /\ Len(Picked(s, I)) = Cardinality(I)
         /\ \E at \in Bijection(1 .. Cardinality(I), I) :
              /\ \A n \in 1 .. Cardinality(I) : Picked(s, I)[n] = s[at[n]]
              /\ \A m, n \in 1 .. Cardinality(I) : m < n => at[m] < at[n]
<1> DEFINE L == {p \in I \X I : p[1] < p[2]}
           at == Arranged(I, L)
           N == 1 .. Cardinality(I)
<1>1. Len(s) \in Nat
  OBVIOUS
<1>2. IsFiniteSet(I) /\ Cardinality(I) \in Nat
  BY <1>1, UpToIsFinite, FS_Subset, FS_CardinalityType
<1>3. I \in SUBSET Int
  BY <1>1
<1>4. IsOrder(L, I)
  BY <1>3, AscendingIsOrder
<1>5. at \in Bijection(N, I) /\ \A m, n \in N : m < n => <<at[m], at[n]>> \in L
  <2> HIDE DEF L
  <2> QED
    BY <1>2, <1>4, ArrangedIsSorted
<1>6. at \in [N -> I] /\ DOMAIN at = N
  <2> HIDE DEF at, N
  <2> QED
    BY <1>5, Fun_BijectionProperties
<1>7. Picked(s, I) = [n \in N |-> s[at[n]]]
  BY <1>6 DEF Picked
<1>8. \A n \in N : s[at[n]] \in V
  <2> HIDE DEF at, N
  <2>1. \A n \in N : at[n] \in 1 .. Len(s)
    BY <1>6
  <2> QED
    BY <2>1
<1>9. Picked(s, I) \in Seq(V) /\ Len(Picked(s, I)) = Cardinality(I)
  <2> HIDE DEF at
  <2> QED
    BY <1>2, <1>7, <1>8
<1>10. /\ \A n \in N : Picked(s, I)[n] = s[at[n]]
       /\ \A m, n \in N : m < n => at[m] < at[n]
  BY <1>5, <1>6, <1>7
<1> QED
  <2> HIDE DEF at
  <2> QED
    BY <1>2, <1>5, <1>9, <1>10

-----------------------------------------------------------------------------
(* A stable sort                                                           *)

\* Less sorts the elements of s into classes, one below the other.
IsSortKey(Less, s) ==
  /\ \A i, j \in 1 .. Len(s) : <<s[i], s[j]>> \in Less => <<s[j], s[i]>> \notin Less
  /\ \A i, j, k \in 1 .. Len(s) :
       <<s[i], s[k]>> \in Less => <<s[i], s[j]>> \in Less \/ <<s[j], s[k]>> \in Less

\* Positions compared stably are totally ordered.
LEMMA StablyIsOrder ==
  ASSUME NEW V, NEW s \in Seq(V), NEW Less, IsSortKey(Less, s)
  PROVE  IsOrder(Stably(s, Less), 1 .. Len(s))
<1> DEFINE Dom == 1 .. Len(s)
           L(i, j) == <<s[i], s[j]>> \in Less
           L2(i, j) == L(i, j) \/ (~L(j, i) /\ i < j)
<1>1. DOMAIN s = Dom /\ Dom \subseteq Int
  OBVIOUS
<1>2. \A i, j \in Dom : <<i, j>> \in Stably(s, Less) <=> L2(i, j)
  <2>1. Stably(s, Less) = {p \in Dom \X Dom : L2(p[1], p[2])}
    BY <1>1 DEF Stably
  <2> HIDE DEF L2, Dom
  <2> QED
    BY <2>1
<1>3. /\ \A i, j \in Dom : L(i, j) => ~L(j, i)
      /\ \A i, j, k \in Dom : L(i, k) => L(i, j) \/ L(j, k)
  BY DEF IsSortKey
<1> HIDE DEF L
<1>4. \A i \in Dom : ~L2(i, i)
  BY <1>1, <1>3
<1>5. ASSUME NEW i \in Dom, NEW j \in Dom
      PROVE  i = j \/ L2(i, j) \/ L2(j, i)
  <2>1. i = j \/ i < j \/ j < i
    BY <1>1
  <2> QED
    BY <2>1
<1>6. ASSUME NEW i \in Dom, NEW j \in Dom, NEW k \in Dom, L2(i, j), L2(j, k)
      PROVE  L2(i, k)
  <2>1. CASE L(i, j) \/ L(j, k)
    BY <1>3, <1>6, <2>1
  <2>2. CASE ~L(i, j) /\ ~L(j, k)
    <3>1. ~L(k, i)
      BY <1>3, <1>6, <2>2
    <3>2. i < k
      BY <1>1, <1>6, <2>2
    <3> QED
      BY <3>1, <3>2
  <2> QED
    BY <2>1, <2>2
<1> HIDE DEF L2
<1> QED
  BY <1>2, <1>4, <1>5, <1>6 DEF IsOrder

\* SortedBy returns the elements of s, each as often as s has it, no later one
\* below an earlier one, and those that are not told apart as they were.
THEOREM SortedByIsSorted ==
  ASSUME NEW V, NEW s \in Seq(V), NEW Less, IsSortKey(Less, s)
  PROVE  /\ SortedBy(s, Less) \in Seq(V) /\ Len(SortedBy(s, Less)) = Len(s)
         /\ \E at \in Bijection(1 .. Len(s), 1 .. Len(s)) :
              /\ \A n \in 1 .. Len(s) : SortedBy(s, Less)[n] = s[at[n]]
              /\ \A m, n \in 1 .. Len(s) : m < n =>
                   \/ <<s[at[m]], s[at[n]]>> \in Less
                   \/ <<s[at[n]], s[at[m]]>> \notin Less /\ at[m] < at[n]
<1> DEFINE L == Stably(s, Less)
           N == 1 .. Len(s)
           at == Arranged(N, L)
<1>1. Len(s) \in Nat /\ DOMAIN s = N
  OBVIOUS
<1>2. IsFiniteSet(N) /\ Cardinality(N) = Len(s)
  BY <1>1, UpToIsFinite
<1>3. at \in Bijection(N, N) /\ \A m, n \in N : m < n => <<at[m], at[n]>> \in L
  <2>1. IsOrder(L, N)
    BY StablyIsOrder
  <2> HIDE DEF L
  <2> QED
    BY <1>2, <2>1, ArrangedIsSorted
<1>4. at \in [N -> N]
  <2> HIDE DEF at, N
  <2> QED
    BY <1>3, Fun_BijectionProperties
<1>5. SortedBy(s, Less) = [n \in N |-> s[at[n]]]
  BY <1>1 DEF SortedBy
<1> HIDE DEF at
<1>6. SortedBy(s, Less) \in Seq(V) /\ Len(SortedBy(s, Less)) = Len(s)
  <2>1. \A n \in N : s[at[n]] \in V
    BY <1>4
  <2> QED
    BY <1>1, <1>5, <2>1
<1>7. \A m, n \in N : m < n =>
        \/ <<s[at[m]], s[at[n]]>> \in Less
        \/ <<s[at[n]], s[at[m]]>> \notin Less /\ at[m] < at[n]
  BY <1>3, <1>4 DEF Stably
<1> QED
  BY <1>3, <1>5, <1>6, <1>7

-----------------------------------------------------------------------------
(* Induction and recursion, stated for sets and functions                  *)

\* Induction on the natural numbers: a set that has 0, and with a number the
\* next one, has them all.
THEOREM NatsByInduction ==
  ASSUME NEW T, 0 \in T, \A n \in Nat : n \in T => n + 1 \in T
  PROVE  Nat \subseteq T
<1> DEFINE Bad == Nat \ T
           Smaller == OpToRel(<, Nat)
<1>1. SUFFICES ASSUME Bad # {}
               PROVE  FALSE
  OBVIOUS
<1>2. IsWellFoundedOn(Smaller, Nat)
  BY NatLessThanWellFounded
<1>3. \E n \in Bad : \A m \in Bad : <<m, n>> \notin Smaller
  <2> HIDE DEF Smaller
  <2> QED
    BY <1>1, <1>2, WFMin
<1>4. PICK n \in Bad : \A m \in Bad : <<m, n>> \notin Smaller
  BY <1>3
<1>5. n - 1 \in Nat /\ n - 1 < n
  OBVIOUS
<1>6. <<n - 1, n>> \in Smaller
  BY <1>5 DEF OpToRel
<1>7. n - 1 \in T
  BY <1>4, <1>5, <1>6
<1> QED
  BY <1>5, <1>7

\* The fold up to k that starts in base and goes on by step.
IsFold(f, V, base, k, step) ==
  /\ f \in [0 .. k -> V] /\ f[0] = base
  /\ \A n \in 1 .. k : f[n] = step[<<f[n - 1], n>>]

\* A fold up to k, given by its start and its step, is a function on 0 .. k.
THEOREM FoldExists ==
  ASSUME NEW V, NEW base \in V, NEW k \in Nat, NEW step \in [V \X (1 .. k) -> V]
  PROVE  \E f : IsFold(f, V, base, k, step)
<1> DEFINE Is(f, m) ==
             /\ f \in [0 .. m -> V] /\ f[0] = base
             /\ \A n \in 1 .. m : f[n] = step[<<f[n - 1], n>>]
           T == {m \in Nat : m <= k => \E f : Is(f, m)}
<1>1. 0 \in T
  <2>1. Is([n \in 0 .. 0 |-> base], 0)
    OBVIOUS
  <2> QED
    BY <2>1
<1>2. ASSUME NEW m \in Nat, m \in T
      PROVE  m + 1 \in T
  <2>1. SUFFICES ASSUME m + 1 <= k
                 PROVE  \E f : Is(f, m + 1)
    OBVIOUS
  <2>2. PICK f : Is(f, m)
    BY <1>2, <2>1
  <2> DEFINE g == [n \in 0 .. m + 1 |-> IF n = m + 1 THEN step[<<f[m], n>>] ELSE f[n]]
  <2>3. m + 1 \in 1 .. k /\ f[m] \in V /\ step[<<f[m], m + 1>>] \in V
    BY <2>1, <2>2
  <2>4. g \in [0 .. m + 1 -> V] /\ g[0] = base
    BY <2>2, <2>3
  <2>5. ASSUME NEW n \in 1 .. m + 1
        PROVE  g[n] = step[<<g[n - 1], n>>]
    <3>1. n - 1 \in 0 .. m /\ g[n - 1] = f[n - 1]
      OBVIOUS
    <3>2. CASE n = m + 1
      BY <3>1, <3>2
    <3>3. CASE n # m + 1
      <4>1. n \in 1 .. m
        BY <3>3
      <4> QED
        BY <2>2, <3>1, <4>1
    <3> QED
      BY <3>2, <3>3
  <2> QED
    BY <2>4, <2>5
<1>3. k \in T
  <2> HIDE DEF T
  <2> QED
    BY <1>1, <1>2, NatsByInduction
<1> QED
  BY <1>3 DEF IsFold

\* What a fold starts in and does not leave, it is in throughout.
THEOREM FoldStays ==
  ASSUME NEW V, NEW k \in Nat, NEW f, f = [n \in 0 .. k |-> f[n]],
         f[0] \in V, \A n \in 1 .. k : f[n - 1] \in V => f[n] \in V
  PROVE  f \in [0 .. k -> V]
<1> DEFINE T == {n \in Nat : n <= k => f[n] \in V}
<1>1. 0 \in T
  OBVIOUS
<1>2. ASSUME NEW n \in Nat, n \in T
      PROVE  n + 1 \in T
  <2>1. SUFFICES ASSUME n + 1 <= k
                 PROVE  f[n + 1] \in V
    OBVIOUS
  <2>2. n + 1 \in 1 .. k /\ (n + 1) - 1 = n /\ f[n] \in V
    BY <1>2, <2>1
  <2> QED
    BY <2>2
<1>3. Nat \subseteq T
  <2> HIDE DEF T
  <2> QED
    BY <1>1, <1>2, NatsByInduction
<1>4. \A n \in 0 .. k : f[n] \in V
  BY <1>3
<1> QED
  BY <1>4

-----------------------------------------------------------------------------
(* Concatenations and sums                                                 *)

\* Sequences of elements of V make one.
THEOREM FlattenedIsSeq ==
  ASSUME NEW V, NEW seqs \in Seq(Seq(V))
  PROVE  Flattened(seqs) \in Seq(V)
<1> DEFINE k == Len(seqs)
           step == [p \in Seq(V) \X (1 .. k) |-> p[1] \o seqs[p[2]]]
           eqn(f) == f = [n \in 0 .. k |-> IF n = 0 THEN <<>> ELSE f[n - 1] \o seqs[n]]
           all == CHOOSE f : eqn(f)
<1>1. k \in Nat /\ \A n \in 1 .. k : seqs[n] \in Seq(V)
  OBVIOUS
<1>2. step \in [Seq(V) \X (1 .. k) -> Seq(V)] /\ <<>> \in Seq(V)
  BY <1>1
<1>3. \E f : IsFold(f, Seq(V), <<>>, k, step)
  <2>1. k \in Nat
    BY <1>1
  <2> HIDE DEF step, k
  <2> QED
    BY <1>2, <2>1, FoldExists
<1> PICK f : IsFold(f, Seq(V), <<>>, k, step)
  BY <1>3
<1>4. eqn(f)
  <2>1. ASSUME NEW n \in 0 .. k
        PROVE  f[n] = IF n = 0 THEN <<>> ELSE f[n - 1] \o seqs[n]
    <3>1. CASE n # 0
      <4>1. n \in 1 .. k /\ n - 1 \in 0 .. k
        BY <1>1, <3>1
      <4> QED
        BY <3>1, <4>1 DEF IsFold
    <3> QED
      BY <3>1 DEF IsFold
  <2> QED
    BY <2>1 DEF IsFold
<1>5. eqn(all)
  BY <1>4
<1> HIDE DEF all
<1>6. /\ all = [n \in 0 .. k |-> all[n]]
      /\ \A n \in 0 .. k : all[n] = IF n = 0 THEN <<>> ELSE all[n - 1] \o seqs[n]
  BY <1>5
<1>7. ASSUME NEW n \in 1 .. k, all[n - 1] \in Seq(V)
      PROVE  all[n] \in Seq(V)
  <2>1. n \in 0 .. k /\ n # 0
    BY <1>1
  <2>2. all[n] = all[n - 1] \o seqs[n]
    BY <1>6, <2>1
  <2> QED
    BY <1>1, <1>7, <2>2, ConcatProperties
<1>8. all[0] \in Seq(V)
  <2>1. 0 \in 0 .. k
    BY <1>1
  <2>2. all[0] = <<>>
    <3> HIDE DEF k
    <3> QED
      BY <1>6, <2>1
  <2> QED
    BY <1>2, <2>2
<1>9. all \in [0 .. k -> Seq(V)]
  <2> HIDE DEF k
  <2> QED
    BY <1>1, <1>6, <1>7, <1>8, FoldStays
<1> QED
  <2>1. k \in 0 .. k
    BY <1>1
  <2>2. Flattened(seqs) = all[k]
    BY DEF Flattened, all
  <2> HIDE DEF k
  <2> QED
    BY <1>9, <2>1, <2>2

\* The sums of natural numbers, one from the other.
THEOREM SumsAreSums ==
  ASSUME NEW s \in Seq(Nat)
  PROVE  /\ Sums(s) \in [0 .. Len(s) -> Nat] /\ Sums(s)[0] = 0
         /\ \A n \in 1 .. Len(s) : Sums(s)[n] = Sums(s)[n - 1] + s[n]
<1> DEFINE k == Len(s)
           step == [p \in Nat \X (1 .. k) |-> p[1] + s[p[2]]]
           eqn(f) == f = [n \in 0 .. k |-> IF n = 0 THEN 0 ELSE f[n - 1] + s[n]]
           sum == CHOOSE f : eqn(f)
<1>1. k \in Nat /\ \A n \in 1 .. k : s[n] \in Nat
  OBVIOUS
<1>2. step \in [Nat \X (1 .. k) -> Nat]
  BY <1>1
<1>3. \E f : IsFold(f, Nat, 0, k, step)
  <2>1. k \in Nat
    BY <1>1
  <2> HIDE DEF step, k
  <2> QED
    BY <1>2, <2>1, FoldExists
<1> PICK f : IsFold(f, Nat, 0, k, step)
  BY <1>3
<1>4. eqn(f)
  <2>1. ASSUME NEW n \in 0 .. k
        PROVE  f[n] = IF n = 0 THEN 0 ELSE f[n - 1] + s[n]
    <3>1. CASE n # 0
      <4>1. n \in 1 .. k /\ n - 1 \in 0 .. k
        BY <1>1, <3>1
      <4> QED
        BY <3>1, <4>1 DEF IsFold
    <3> QED
      BY <3>1 DEF IsFold
  <2> QED
    BY <2>1 DEF IsFold
<1>5. eqn(sum)
  BY <1>4
<1> HIDE DEF sum
<1>6. /\ sum = [n \in 0 .. k |-> sum[n]]
      /\ \A n \in 0 .. k : sum[n] = IF n = 0 THEN 0 ELSE sum[n - 1] + s[n]
  BY <1>5
<1>7. sum[0] = 0 /\ \A n \in 1 .. k : sum[n] = sum[n - 1] + s[n]
  <2>1. 0 \in 0 .. k /\ \A n \in 1 .. k : n \in 0 .. k /\ n # 0
    BY <1>1
  <2> HIDE DEF k
  <2> QED
    BY <1>6, <2>1
<1>8. sum \in [0 .. k -> Nat]
  <2>1. \A n \in 1 .. k : sum[n - 1] \in Nat => sum[n] \in Nat
    BY <1>1, <1>7
  <2>2. sum[0] \in Nat /\ k \in Nat
    BY <1>1, <1>7
  <2> HIDE DEF k
  <2> QED
    BY <1>6, <2>1, <2>2, FoldStays
<1>9. Sums(s) = sum
  BY DEF Sums, sum
<1> QED
  BY <1>7, <1>8, <1>9

\* Sums rise.
THEOREM SumsRise ==
  ASSUME NEW s \in Seq(Nat), NEW m \in 0 .. Len(s), NEW n \in 0 .. Len(s), m <= n
  PROVE  Sums(s)[m] <= Sums(s)[n]
<1> DEFINE T == {d \in Nat : m + d <= Len(s) => Sums(s)[m] <= Sums(s)[m + d]}
<1>1. Len(s) \in Nat /\ m \in Nat /\ n \in Nat
  OBVIOUS
<1>2. \A i \in 0 .. Len(s) : Sums(s)[i] \in Nat
  BY SumsAreSums
<1>3. 0 \in T
  BY <1>1, <1>2
<1>4. ASSUME NEW d \in Nat, d \in T
      PROVE  d + 1 \in T
  <2>1. SUFFICES ASSUME m + (d + 1) <= Len(s)
                 PROVE  Sums(s)[m] <= Sums(s)[m + (d + 1)]
    OBVIOUS
  <2>2. m + (d + 1) \in 1 .. Len(s) /\ (m + (d + 1)) - 1 = m + d /\ m + d \in 0 .. Len(s)
    BY <1>1, <2>1
  <2>3. Sums(s)[m + (d + 1)] = Sums(s)[m + d] + s[m + (d + 1)] /\ s[m + (d + 1)] \in Nat
    BY <2>2, SumsAreSums
  <2> QED
    BY <1>2, <1>4, <2>2, <2>3
<1>5. n - m \in T
  <2>1. n - m \in Nat
    BY <1>1
  <2> HIDE DEF T
  <2> QED
    BY <1>3, <1>4, <2>1, NatsByInduction
<1> QED
  BY <1>1, <1>5

\* One more number adds to the total.
THEOREM TotalOfAppend ==
  ASSUME NEW s \in Seq(Nat), NEW x \in Nat
  PROVE  Total(Append(s, x)) = Total(s) + x /\ Total(s) \in Nat
<1> DEFINE t == Append(s, x)
           T == {n \in Nat : n <= Len(s) => Sums(t)[n] = Sums(s)[n]}
<1>1. /\ t \in Seq(Nat) /\ Len(t) = Len(s) + 1 /\ t[Len(s) + 1] = x /\ Len(s) \in Nat
      /\ \A i \in 1 .. Len(s) : t[i] = s[i]
  OBVIOUS
<1> HIDE DEF t
<1>2. 0 \in T
  BY <1>1, SumsAreSums
<1>3. ASSUME NEW n \in Nat, n \in T
      PROVE  n + 1 \in T
  <2>1. SUFFICES ASSUME n + 1 <= Len(s)
                 PROVE  Sums(t)[n + 1] = Sums(s)[n + 1]
    OBVIOUS
  <2>2. n + 1 \in 1 .. Len(s) /\ n + 1 \in 1 .. Len(t) /\ (n + 1) - 1 = n
    BY <1>1, <2>1
  <2>3. Sums(t)[n + 1] = Sums(t)[n] + t[n + 1] /\ Sums(s)[n + 1] = Sums(s)[n] + s[n + 1]
    BY <1>1, <2>2, SumsAreSums
  <2> QED
    BY <1>1, <1>3, <2>1, <2>2, <2>3
<1>4. Len(s) \in T
  <2> HIDE DEF T
  <2> QED
    BY <1>1, <1>2, <1>3, NatsByInduction
<1>5. Sums(t)[Len(s) + 1] = Sums(t)[Len(s)] + x
  <2>1. Len(s) + 1 \in 1 .. Len(t) /\ (Len(s) + 1) - 1 = Len(s)
    BY <1>1
  <2> QED
    BY <1>1, <2>1, SumsAreSums
<1>6. Sums(s)[Len(s)] \in Nat
  <2>1. Len(s) \in 0 .. Len(s)
    BY <1>1
  <2> QED
    BY <2>1, SumsAreSums
<1> QED
  BY <1>1, <1>4, <1>5, <1>6 DEF Total, t
=============================================================================
