-------------------------- MODULE FactReader_proofs --------------------------
(***************************************************************************)
(* Theorems about the reader: what it has read is a prefix of the log, and *)
(* the fold of what it has read keeps the last row of each key.            *)
(***************************************************************************)
EXTENDS FactReader, IngestServer_proofs, Ordering_proofs

-----------------------------------------------------------------------------
(* The listing under the cursor                                            *)

\* Every segment is above the cursor a reader starts with.
StampsPositive == \A tb \in Tables : \A i \in 1 .. Len(log[tb]) : log[tb][i].ms > 0

\* A reader has read the beginning of the log, and its cursor is at the last
\* segment it has read.
ReadInOrder ==
  /\ replay \in [Tables -> Seq(BatchType)]
  /\ cursor = [tb \in Tables |->
                 IF replay[tb] = <<>> THEN <<0, 0, 0>> ELSE LastId(replay[tb][Len(replay[tb])])]
  /\ \A tb \in Tables :
       /\ Len(replay[tb]) <= Len(log[tb])
       /\ \A i \in 1 .. Len(replay[tb]) : replay[tb][i] = log[tb][i]

\* A batch has finitely many rows.
LEMMA KeptIsFinite ==
  ASSUME NEW b \in BatchType
  PROVE  /\ Len(b.chunk.rows) \in Nat /\ b.kept \subseteq 1 .. Len(b.chunk.rows)
         /\ IsFiniteSet(b.kept)
<1>1. b.chunk.rows \in Seq(Rows) /\ b.kept \subseteq DOMAIN b.chunk.rows
  BY BatchFields
<1>2. Len(b.chunk.rows) \in Nat /\ DOMAIN b.chunk.rows = 1 .. Len(b.chunk.rows)
  BY <1>1, LenProperties
<1>3. IsFiniteSet(1 .. Len(b.chunk.rows))
  BY <1>2, UpToIsFinite
<1>. QED
  BY <1>1, <1>2, <1>3, FS_Subset

\* The record ids of a log rise with the positions, and only so.
LEMMA IdsRise ==
  ASSUME TypeOK, OrderInv, NEW tb \in Tables,
         NEW i \in 1 .. Len(log[tb]), NEW j \in 1 .. Len(log[tb])
  PROVE  IdLess(LastId(log[tb][i]), LastId(log[tb][j])) <=> i < j
<1>. DEFINE Size(n) == Cardinality(log[tb][n].kept)
<1>1. log[tb][i].ms \in Nat /\ log[tb][j].ms \in Nat /\ Len(log[tb]) \in Nat
  BY LogTypes, BatchFields
<1>2. CASE i # j
  <2>1. log[tb][i].ms < log[tb][j].ms <=> i < j
    BY <1>1, <1>2 DEF OrderInv
  <2>2. log[tb][i].ms # log[tb][j].ms
    BY <1>1, <1>2 DEF OrderInv
  <2>. QED
    BY <2>1, <2>2 DEF IdLess, LastId
<1>3. CASE i = j
  <2>1. log[tb][i] \in BatchType
    BY LogTypes
  <2>2. IsFiniteSet(log[tb][i].kept)
    BY <2>1, KeptIsFinite
  <2>3. Size(i) \in Nat /\ log[tb][i].writer \in Int
    BY <2>1, <2>2, FS_CardinalityType, BoundsAssumption DEF BatchType
  <2>. QED
    BY <1>1, <1>3, <2>3 DEF IdLess, LastId
<1>. QED
  BY <1>2, <1>3

\* What is found under the cursor is what has not been read.
LEMMA FoundIsRest ==
  ASSUME TypeOK, OrderInv, StampsPositive, ReadInOrder, NEW tb \in Tables
  PROVE  \A i \in 1 .. Len(log[tb]) : Beyond(tb, log[tb][i]) <=> i > Len(replay[tb])
<1>. SUFFICES ASSUME NEW i \in 1 .. Len(log[tb])
              PROVE  Beyond(tb, log[tb][i]) <=> i > Len(replay[tb])
  OBVIOUS
<1>1. Len(replay[tb]) \in Nat /\ Len(replay[tb]) <= Len(log[tb]) /\ Len(log[tb]) \in Nat
  BY LogTypes DEF ReadInOrder
<1>2. CASE replay[tb] = <<>>
  <2>1. cursor[tb] = <<0, 0, 0>> /\ Len(replay[tb]) = 0
    BY <1>2 DEF ReadInOrder
  <2>2. log[tb][i].ms > 0 /\ log[tb][i].ms \in Nat
    BY LogTypes, BatchFields DEF StampsPositive
  <2>. QED
    BY <2>1, <2>2 DEF Beyond, IdLess, LastId
<1>3. CASE replay[tb] # <<>>
  <2>1. Len(replay[tb]) \in 1 .. Len(log[tb])
    BY <1>1, <1>3 DEF ReadInOrder
  <2>2. cursor[tb] = LastId(log[tb][Len(replay[tb])])
    BY <1>3, <2>1 DEF ReadInOrder
  <2>. QED
    BY <2>1, <2>2, IdsRise DEF Beyond
<1>. QED
  BY <1>2, <1>3

\* The listing is the rest of the log, in its order.
LEMMA ListingIsRest ==
  ASSUME TypeOK, OrderInv, StampsPositive, ReadInOrder, NEW tb \in Tables
  PROVE  LET k == Len(replay[tb]) IN
         /\ Listing(tb) \in Seq(BatchType)
         /\ Len(Listing(tb)) = Len(log[tb]) - k
         /\ \A n \in 1 .. Len(log[tb]) - k : Listing(tb)[n] = log[tb][k + n]
<1>. DEFINE k == Len(replay[tb])
            r == Len(log[tb]) - k
            rest == [n \in 1 .. r |-> log[tb][k + n]]
            F == Found(tb)
            L == ByName(tb)
<1>1. k \in Nat /\ r \in Nat /\ Len(log[tb]) \in Nat
  BY LogTypes DEF ReadInOrder
<1>2. \A i \in 1 .. Len(log[tb]) : log[tb][i] \in BatchType /\ (log[tb][i] \in F <=> i > k)
  <2>1. log[tb] \in Seq(BatchType) /\ DOMAIN log[tb] = 1 .. Len(log[tb])
    BY LogTypes
  <2>. QED
    BY <2>1, FoundIsRest DEF Found, ToSet
<1>3. ASSUME NEW s \in F
      PROVE  \E n \in 1 .. r : s = log[tb][k + n]
  <2>1. PICK i \in 1 .. Len(log[tb]) : s = log[tb][i]
    BY <1>1, LogTypes DEF Found, ToSet
  <2>2. i - k \in 1 .. r /\ k + (i - k) = i
    BY <1>1, <1>2, <2>1
  <2>. QED
    BY <2>1, <2>2
<1>4. \A n \in 1 .. r : k + n \in 1 .. Len(log[tb]) /\ log[tb][k + n] \in F
  BY <1>1, <1>2
<1>5. ASSUME NEW m \in 1 .. r, NEW n \in 1 .. r
      PROVE  <<log[tb][k + m], log[tb][k + n]>> \in L <=> m < n
  <2>1. IdLess(LastId(log[tb][k + m]), LastId(log[tb][k + n])) <=> k + m < k + n
    BY <1>4, IdsRise
  <2>. QED
    BY <1>1, <1>4, <2>1 DEF ByName
<1>6. IsOrder(L, F)
  <2>1. ASSUME NEW x \in F
        PROVE  <<x, x>> \notin L
    <3>1. PICK a \in 1 .. r : x = log[tb][k + a]
      BY <1>3
    <3>2. ~(a < a)
      BY <1>1
    <3>. QED
      BY <1>5, <3>1, <3>2
  <2>2. ASSUME NEW x \in F, NEW y \in F, NEW z \in F, <<x, y>> \in L, <<y, z>> \in L
        PROVE  <<x, z>> \in L
    <3>1. PICK a \in 1 .. r : x = log[tb][k + a]
      BY <1>3
    <3>2. PICK b \in 1 .. r : y = log[tb][k + b]
      BY <1>3
    <3>3. PICK c \in 1 .. r : z = log[tb][k + c]
      BY <1>3
    <3>4. a < b /\ b < c
      BY <1>5, <2>2, <3>1, <3>2, <3>3
    <3>5. a < c
      BY <1>1, <3>4
    <3>. QED
      BY <1>5, <3>1, <3>3, <3>5
  <2>3. ASSUME NEW x \in F, NEW y \in F, x # y
        PROVE  <<x, y>> \in L \/ <<y, x>> \in L
    <3>1. PICK a \in 1 .. r : x = log[tb][k + a]
      BY <1>3
    <3>2. PICK b \in 1 .. r : y = log[tb][k + b]
      BY <1>3
    <3>3. a < b \/ b < a
      BY <2>3, <3>1, <3>2
    <3>. QED
      BY <1>5, <3>1, <3>2, <3>3
  <2>. QED
    BY <2>1, <2>2, <2>3 DEF IsOrder
<1>7. Arranged(F, L) = rest
  <2>1. rest \in [1 .. r -> F]
    BY <1>4
  <2>2. \A x \in F : \E n \in 1 .. r : rest[n] = x
    BY <1>3
  <2>3. \A m, n \in 1 .. r : m < n => <<rest[m], rest[n]>> \in L
    BY <1>5
  <2>. HIDE DEF rest, F, L, r
  <2>. QED
    BY <1>1, <1>6, <2>1, <2>2, <2>3, ArrangedIsUnique
<1>8. rest \in Seq(BatchType) /\ Len(rest) = r
  BY <1>1, <1>2, <1>4
<1>. QED
  BY <1>1, <1>7, <1>8 DEF Listing
-----------------------------------------------------------------------------
(* The reader misses nothing                                               *)

\* A reader's step is no step of the service, and a step of the service none
\* of the reader.
LEMMA ReaderStepIsServiceStep ==
  ASSUME [ReaderNext]_<<vars, readerVars>>
  PROVE  /\ [Next]_vars
         /\ UNCHANGED readerVars \/ \E tb \in Tables : Scan(tb) /\ UNCHANGED vars
BY DEF ReaderNext, Scan, readerVars

\* So all that is proved of the service holds while it is read.
THEOREM ReaderRunsService == ReaderSpec => Spec
<1>1. ReaderInit => Init
  BY DEF ReaderInit
<1>2. [ReaderNext]_<<vars, readerVars>> => [Next]_vars
  BY ReaderStepIsServiceStep
<1>. QED
  BY <1>1, <1>2, PTL DEF ReaderSpec, Spec

\* A batch is committed with a stamp above the high water, which starts at 0.
LEMMA StampsPositiveNext ==
  ASSUME TypeOK, TypeOK', OrderInv, StampsPositive, [Next]_vars
  PROVE  StampsPositive'
<1>1. CASE UNCHANGED log
  BY <1>1 DEF StampsPositive
<1>2. ASSUME NEW t \in IngestThreads, Commit(t)
      PROVE  StampsPositive'
  <2>1. batch[t].ms > 0
    <3>1. /\ batch[t].chunk.table \in Tables /\ batch[t].ms \in Nat
          /\ batch[t].ms > highWater[batch[t].chunk.table]
      BY <1>2, CommitAppends, BatchFields DEF OrderInv, Commit
    <3>2. highWater[batch[t].chunk.table] \in Nat
      BY <3>1, LogTypes
    <3>. QED
      BY <3>1, <3>2
  <2>. QED
    BY <1>2, <2>1, CommitAppends DEF StampsPositive
<1>. QED
  BY <1>1, <1>2, WorkOrQuiet DEF Quiet, Admit, Mark, Record

\* One scan reads the rest of the log.
LEMMA ScanReadsOn ==
  ASSUME TypeOK, OrderInv, StampsPositive, ReadInOrder,
         NEW tb \in Tables, Scan(tb), UNCHANGED vars
  PROVE  ReadInOrder'
<1>. DEFINE k == Len(replay[tb])
            r == Len(log[tb]) - k
            new == Listing(tb)
<1>1. /\ replay \in [Tables -> Seq(BatchType)] /\ replay[tb] \in Seq(BatchType)
      /\ k \in Nat /\ r \in Nat /\ Len(log[tb]) \in Nat
  BY LogTypes DEF ReadInOrder
<1>2. new \in Seq(BatchType) /\ Len(new) = r /\ \A n \in 1 .. r : new[n] = log[tb][k + n]
  BY ListingIsRest
<1>3. r > 0 /\ new # <<>>
  BY <1>1, <1>2 DEF Scan
<1>4. /\ replay' = [replay EXCEPT ![tb] = @ \o new]
      /\ cursor' = [cursor EXCEPT ![tb] = LastId(new[Len(new)])]
      /\ UNCHANGED log
  BY DEF Scan, vars, ingestVars
<1>5. /\ replay'[tb] = replay[tb] \o new /\ replay'[tb] \in Seq(BatchType)
      /\ Len(replay'[tb]) = k + r /\ k + r = Len(log[tb]) /\ replay'[tb] # <<>>
  BY <1>1, <1>2, <1>3, <1>4
<1>6. ASSUME NEW i \in 1 .. Len(log[tb])
      PROVE  replay'[tb][i] = log[tb][i]
  <2>1. CASE i \in 1 .. k
    BY <1>1, <1>2, <1>5, <2>1 DEF ReadInOrder
  <2>2. CASE i \notin 1 .. k
    <3>1. i - k \in 1 .. r /\ k + (i - k) = i
      BY <1>1, <2>2
    <3>2. replay'[tb][i] = new[i - k]
      BY <1>1, <1>2, <1>5, <3>1
    <3>. QED
      BY <1>2, <3>1, <3>2
  <2>. QED
    BY <2>1, <2>2
<1>7. replay' \in [Tables -> Seq(BatchType)]
  BY <1>1, <1>4, <1>5
<1>8. cursor'[tb] = LastId(replay'[tb][Len(replay'[tb])])
  <2>1. cursor'[tb] = LastId(new[r])
    BY <1>2, <1>4 DEF ReadInOrder
  <2>2. new[r] = log[tb][Len(log[tb])] /\ replay'[tb][Len(replay'[tb])] = log[tb][Len(log[tb])]
    BY <1>1, <1>2, <1>3, <1>5, <1>6
  <2>. QED
    BY <2>1, <2>2
<1>9. ASSUME NEW tc \in Tables, tc # tb
      PROVE  replay'[tc] = replay[tc] /\ cursor'[tc] = cursor[tc]
  BY <1>1, <1>4, <1>9 DEF ReadInOrder
<1>10. cursor' = [tc \in Tables |->
                    IF replay'[tc] = <<>> THEN <<0, 0, 0>> ELSE LastId(replay'[tc][Len(replay'[tc])])]
  <2>1. cursor' \in [Tables -> {cursor'[tc] : tc \in Tables}]
    BY <1>4 DEF ReadInOrder
  <2>2. \A tc \in Tables :
          cursor'[tc] = IF replay'[tc] = <<>> THEN <<0, 0, 0>>
                        ELSE LastId(replay'[tc][Len(replay'[tc])])
    BY <1>5, <1>8, <1>9 DEF ReadInOrder
  <2>. QED
    BY <2>1, <2>2
<1>11. ASSUME NEW tc \in Tables
       PROVE  /\ Len(replay'[tc]) <= Len(log'[tc])
              /\ \A i \in 1 .. Len(replay'[tc]) : replay'[tc][i] = log'[tc][i]
  <2>1. CASE tc = tb
    BY <1>1, <1>4, <1>5, <1>6, <2>1
  <2>2. CASE tc # tb
    BY <1>4, <1>9, <2>2 DEF ReadInOrder
  <2>. QED
    BY <2>1, <2>2
<1>. QED
  BY <1>7, <1>10, <1>11 DEF ReadInOrder

\* What has been read stays the beginning of a log that only grows.
LEMMA ReadInOrderNext ==
  ASSUME TypeOK, TypeOK', OrderInv, StampsPositive, ReadInOrder,
         [ReaderNext]_<<vars, readerVars>>
  PROVE  ReadInOrder'
<1>1. CASE UNCHANGED readerVars
  <2>1. LogGrows /\ UNCHANGED <<cursor, replay>>
    BY <1>1, ReaderStepIsServiceStep, LogOnlyGrows DEF readerVars
  <2>2. ASSUME NEW tb \in Tables
        PROVE  /\ Len(replay[tb]) <= Len(log'[tb])
               /\ \A i \in 1 .. Len(replay[tb]) : replay[tb][i] = log'[tb][i]
    <3>1. /\ Len(replay[tb]) \in Nat /\ Len(replay[tb]) <= Len(log[tb])
          /\ Len(log[tb]) \in Nat /\ Len(log'[tb]) \in Nat
      <4>1. Len(log[tb]) \in Nat /\ replay[tb] \in Seq(BatchType)
        BY LogTypes DEF ReadInOrder
      <4>2. log' \in [Tables -> Seq(BatchType)]
        BY DEF TypeOK, StoreTypeOK
      <4>. QED
        BY <4>1, <4>2 DEF ReadInOrder
    <3>2. \A i \in 1 .. Len(replay[tb]) :
            i \in 1 .. Len(log[tb]) /\ i \in 1 .. Len(log'[tb]) /\ log'[tb][i] = log[tb][i]
      BY <2>1, <3>1 DEF LogGrows
    <3>3. Len(replay[tb]) <= Len(log'[tb])
      BY <3>1, <3>2
    <3>. QED
      BY <3>2, <3>3 DEF ReadInOrder
  <2>. QED
    BY <2>1, <2>2 DEF ReadInOrder
<1>2. CASE \E tb \in Tables : Scan(tb) /\ UNCHANGED vars
  BY <1>2, ScanReadsOn
<1>. QED
  BY <1>1, <1>2, ReaderStepIsServiceStep

\* The beginning of a log is a prefix of it.
LEMMA ReadIsPrefix == TypeOK /\ ReadInOrder => ReplayIsPrefix
<1>. SUFFICES ASSUME TypeOK, ReadInOrder, NEW tb \in Tables
              PROVE  IsPrefix(replay[tb], log[tb])
  BY DEF ReplayIsPrefix
<1>1. /\ replay[tb] \in Seq(BatchType) /\ log[tb] \in Seq(BatchType)
      /\ Len(replay[tb]) \in Nat /\ Len(replay[tb]) <= Len(log[tb])
  BY LogTypes DEF ReadInOrder
<1>2. \A i \in 1 .. Len(replay[tb]) : replay[tb][i] = log[tb][i]
  BY DEF ReadInOrder
<1>3. SubSeq(replay[tb], 1, Len(replay[tb])) = SubSeq(log[tb], 1, Len(replay[tb]))
  BY <1>1, <1>2
<1>. QED
  BY <1>1, <1>3 DEF IsPrefix

\* Whenever a reader looks, and whatever is committed in between, it has read
\* a prefix of the log: it misses no segment, reads none twice, swaps none.
\* Without NoEarlyCrash a handler may fail between its commit and the high
\* water, and a later segment may sort below the one it left.
THEOREM ReaderMissesNothing ==
  ASSUME NoEarlyCrash
  PROVE  ReaderSpec => []ReplayIsPrefix
<1>1. ReaderInit => OrderInv /\ StampsPositive /\ ReadInOrder
  BY DEF ReaderInit, Init, OrderInv, StampsPositive, ReadInOrder, Threads
<1>2. [ReaderNext]_<<vars, readerVars>> => [Next]_vars
  BY ReaderStepIsServiceStep
<1>3. TypeOK /\ TypeOK' /\ EntryLock /\ OrderInv /\ [Next]_vars => OrderInv'
  BY OrderInvNext
<1>4. TypeOK /\ TypeOK' /\ OrderInv /\ StampsPositive /\ [Next]_vars => StampsPositive'
  BY StampsPositiveNext
<1>5. TypeOK /\ TypeOK' /\ OrderInv /\ StampsPositive /\ ReadInOrder
        /\ [ReaderNext]_<<vars, readerVars>> => ReadInOrder'
  BY ReadInOrderNext
<1>. QED
  BY <1>1, <1>2, <1>3, <1>4, <1>5, ReadIsPrefix, ReaderRunsService, TypeCorrect,
     EntryLockHeld, PTL DEF ReaderSpec
-----------------------------------------------------------------------------
(* The fold keeps the last row of each key                                 *)

\* What the fold of a prefix has to be: the rows up to n that no row up to n
\* comes after with the same key, without the tombstones.
LatestUpTo(facts, n) ==
  {facts[i] : i \in {m \in 1 .. n : \A j \in 1 .. n : j > m => KeyOf[facts[j]] # KeyOf[facts[m]]}}
  \ Tombstones

\* The rows of a segment are rows, and the facts of segments too.
LEMMA FactsType ==
  ASSUME NEW segments \in Seq(BatchType)
  PROVE  Facts(segments) \in Seq(Rows)
<1>. DEFINE rows == [i \in DOMAIN segments |-> RowsOf(segments[i])]
<1>1. ASSUME NEW n \in DOMAIN segments
      PROVE  RowsOf(segments[n]) \in Seq(Rows)
  <2>1. segments[n] \in BatchType
    OBVIOUS
  <2>2. segments[n].chunk.rows \in Seq(Rows)
        /\ segments[n].kept \in SUBSET (1 .. Len(segments[n].chunk.rows))
    BY <2>1, BatchFields, KeptIsFinite
  <2>. QED
    BY <2>2, PickedIsSelection DEF RowsOf
<1>2. rows \in Seq(Seq(Rows))
  <2>1. Len(segments) \in Nat /\ DOMAIN segments = 1 .. Len(segments)
    OBVIOUS
  <2>. DEFINE V == Seq(Rows)
  <2>2. \A n \in 1 .. Len(segments) : RowsOf(segments[n]) \in V
    BY <1>1, <2>1
  <2>3. rows = [n \in 1 .. Len(segments) |-> RowsOf(segments[n])]
    BY <2>1
  <2>. HIDE DEF V, rows
  <2>4. rows \in Seq(V)
    BY <2>1, <2>2, <2>3
  <2>. QED
    BY <2>4 DEF V
<1>. QED
  BY <1>2, FlattenedIsSeq DEF Facts

\* One more fact: the rows that stay are those of the other keys.
LEMMA LatestGoesOn ==
  ASSUME NEW facts \in Seq(Rows), NEW n \in 1 .. Len(facts)
  PROVE  LatestUpTo(facts, n) = Replayed(LatestUpTo(facts, n - 1), facts[n])
<1>. DEFINE Newest(m, i) == \A j \in 1 .. i : j > m => KeyOf[facts[j]] # KeyOf[facts[m]]
<1>1. n \in Nat /\ n - 1 \in Nat /\ n \in 1 .. n
  OBVIOUS
<1>2. \A m \in 1 .. n : m \in 1 .. n - 1 \/ m = n
  OBVIOUS
<1>3. ASSUME NEW m \in 1 .. n - 1
      PROVE  Newest(m, n) <=> Newest(m, n - 1) /\ KeyOf[facts[n]] # KeyOf[facts[m]]
  <2>1. m \in Nat /\ n > m /\ 1 .. n - 1 \subseteq 1 .. n
    OBVIOUS
  <2>. QED
    BY <1>1, <1>2, <2>1
<1>4. Newest(n, n)
  OBVIOUS
<1>5. 1 .. n - 1 \subseteq 1 .. n
  OBVIOUS
<1>6. \A x, i : x \in LatestUpTo(facts, i) <=>
                  x \notin Tombstones /\ \E m \in 1 .. i : Newest(m, i) /\ x = facts[m]
  BY DEF LatestUpTo
<1>7. \A x : x \in Replayed(LatestUpTo(facts, n - 1), facts[n]) <=>
               \/ x \in LatestUpTo(facts, n - 1) /\ KeyOf[x] # KeyOf[facts[n]]
               \/ x = facts[n] /\ x \notin Tombstones
  BY DEF Replayed
<1>. HIDE DEF Newest
<1>8. ASSUME NEW x
      PROVE  x \in LatestUpTo(facts, n) <=> x \in Replayed(LatestUpTo(facts, n - 1), facts[n])
  BY <1>1, <1>2, <1>3, <1>4, <1>5, <1>6, <1>7
<1>. QED
  BY <1>8

\* After n of the facts the fold holds the last row of every key.
THEOREM FoldKeepsLatest ==
  ASSUME NEW facts \in Seq(Rows)
  PROVE  Folded(facts) = LatestUpTo(facts, Len(facts))
<1>. DEFINE k == Len(facts)
            eqn(f) == f = [n \in 0 .. k |->
                             IF n = 0 THEN {} ELSE Replayed(f[n - 1], facts[n])]
            state == CHOOSE f : eqn(f)
            latest == [n \in 0 .. k |-> LatestUpTo(facts, n)]
<1>1. k \in Nat
  OBVIOUS
<1>2. LatestUpTo(facts, 0) = {}
  BY DEF LatestUpTo
<1>3. eqn(latest)
  <2>1. ASSUME NEW n \in 0 .. k
        PROVE  latest[n] = IF n = 0 THEN {} ELSE Replayed(latest[n - 1], facts[n])
    <3>1. CASE n # 0
      <4>1. n \in 1 .. k /\ n - 1 \in 0 .. k
        BY <1>1, <3>1
      <4>. QED
        BY <3>1, <4>1, LatestGoesOn
    <3>. QED
      BY <1>2, <3>1
  <2>. QED
    BY <2>1
<1>4. eqn(state)
  BY <1>3
<1>. HIDE DEF state
<1>5. \A n \in 0 .. k : state[n] = IF n = 0 THEN {} ELSE Replayed(state[n - 1], facts[n])
  BY <1>4
<1>. DEFINE T == {n \in Nat : n <= k => state[n] = LatestUpTo(facts, n)}
<1>6. 0 \in T
  <2>1. 0 \in 0 .. k
    BY <1>1
  <2>2. state[0] = LatestUpTo(facts, 0)
    BY <1>2, <1>5, <2>1
  <2>. QED
    BY <2>2
<1>7. ASSUME NEW n \in Nat, n \in T
      PROVE  n + 1 \in T
  <2>1. SUFFICES ASSUME n + 1 <= k
                 PROVE  state[n + 1] = LatestUpTo(facts, n + 1)
    OBVIOUS
  <2>2. n + 1 \in 1 .. k /\ n + 1 \in 0 .. k /\ n + 1 # 0 /\ (n + 1) - 1 = n
    BY <1>1, <2>1
  <2>3. state[n + 1] = Replayed(state[n], facts[n + 1])
    BY <1>5, <2>2
  <2>. QED
    BY <1>1, <1>7, <2>1, <2>2, <2>3, LatestGoesOn
<1>8. k \in T
  <2>. HIDE DEF T, k
  <2>. QED
    BY <1>1, <1>6, <1>7, NatsByInduction
<1>9. Folded(facts) = state[k]
  BY DEF Folded, States, state
<1>. QED
  BY <1>1, <1>8, <1>9

\* A reader that has caught up holds the row committed last of every key, but
\* for the tombstones: whatever the interleaving of the loads, and with crashes
\* anywhere, since the fold is of what was read.
THEOREM ReaderFoldsLatest == ReaderSpec => []FoldIsLatest
<1>1. TypeOK => FoldIsLatest
  <2>1. SUFFICES ASSUME TypeOK, NEW tb \in Tables, replay[tb] = log[tb]
                 PROVE  LET facts == Facts(log[tb])
                            Latest(i) == \A j \in DOMAIN facts :
                                           j > i => KeyOf[facts[j]] # KeyOf[facts[i]]
                        IN  Folded(facts) =
                              {facts[i] : i \in {n \in DOMAIN facts : Latest(n)}} \ Tombstones
    BY DEF FoldIsLatest
  <2>2. log[tb] \in Seq(BatchType)
    BY <2>1 DEF TypeOK, StoreTypeOK
  <2>3. Facts(log[tb]) \in Seq(Rows)
    BY <2>2, FactsType
  <2>. DEFINE facts == Facts(log[tb])
  <2>4. DOMAIN facts = 1 .. Len(facts)
    BY <2>3
  <2>5. Folded(facts) = LatestUpTo(facts, Len(facts))
    BY <2>3, FoldKeepsLatest
  <2>. HIDE DEF facts
  <2>. QED
    BY <2>4, <2>5 DEF LatestUpTo, facts
<1>. QED
  BY <1>1, ReaderRunsService, TypeCorrect, PTL
=============================================================================
